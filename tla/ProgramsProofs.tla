---------------------------- MODULE ProgramsProofs ----------------------------
(***************************************************************************)
(* Proofs about Programs, for any number of messages, of peers that        *)
(* connect and of other sockets, and every error of the library.  A        *)
(* socket that could not be made, or not be bound for want of memory or of *)
(* a handle, is followed to the call that must not get it.                 *)
(*                                                                         *)
(* The invariant of Sockets holds here as well, although the programs      *)
(* delete their sockets without a look at them.  The rest is where a       *)
(* program is and what its sockets look like there.                        *)
(***************************************************************************)
EXTENDS Programs, SocketsProofs, SequenceTheorems

Server == sock["server"]
Client == sock["client"]

\* The calls of main from its k-th on.
HelloFrom(k) == SubSeq(hello_main, k, 5)
EchoFrom(k) == SubSeq(echo_main, k, 9)

\* The program is in main, with these calls to make.
InMain(calls) == stack = << >> /\ code = <<calls>>

\* uv_run has called one function of the program, with calls to make.
InCallback(cb, run, calls) ==
  Len(stack) = 1 /\ stack[1].cb = cb /\ code = <<run, calls>>

\* sc_socket_new made the socket, or has failed.
Made(s) ==
  \/ sock[s] = buv_init /\ watcher[s] = {}
  \/ sock[s] = NoSocket /\ "new" \in failed

\* A socket that can be deleted although the program does not know its state.
Quiet(r) ==
  r.handle # "closing" /\ r.creq = "idle" /\ r.wreq = "idle" /\ r.msg = "null"

-----------------------------------------------------------------------------
(* send_hello.                                                             *)

\* Its socket while the loop runs: it never reads and is never closed, and
\* nothing is sent before the connect is answered.  The connect may have failed
\* before anything was initialised.
HelloRuns ==
  /\ watcher["client"] = {"on_connect"}
  /\ Client.obj = "live" /\ Client.handle \in {"raw", "init", "connecting", "failed", "open"}
  /\ Client.reading = "no" /\ Client.msg = "null"
  /\ Client.handle = "connecting" => Client.wreq = "idle"

\* Before the k-th call of main.
HelloAt(k) ==
  /\ k \in {1, 6} => Client = NoSocket
  /\ k = 2 => Made("client")
  /\ k = 3 => Client = buv_init /\ watcher["client"] = {"on_connect"}
  /\ k \in {4, 5} => HelloRuns
  /\ k = 5 => Quiet(Client)

HelloConnect(calls) ==
  /\ InCallback("on_connect", HelloFrom(4), calls) /\ HelloRuns
  /\ \/ calls = << >>
     \/ /\ calls = hello_on_connect
        /\ Client.handle \in {"failed", "open"} /\ Client.wreq = "idle"

HelloSend == InCallback("on_send", HelloFrom(4), << >>) /\ HelloRuns

Hello ==
  /\ program = "send_hello" /\ Server = NoSocket
  /\ \/ \E k \in 1 .. 6 : InMain(HelloFrom(k)) /\ HelloAt(k)
     \/ \E calls \in {<< >>, hello_on_connect} : HelloConnect(calls)
     \/ HelloSend

-----------------------------------------------------------------------------
(* echo_server.                                                            *)

\* Its listening socket, which has a protocol even if binding failed.
EchoServer ==
  /\ watcher["server"] = {"on_connection"}
  /\ Server.obj = "live"
  /\ Server.handle \in {"init", "bound", "listening", "closing", "closed"}
  /\ Server.proto \in Protocols /\ Server.msg = "null"
  /\ Server.creq = "idle" /\ Server.wreq = "idle"

\* While the loop runs: the listening socket is closed after the connection,
\* and the other one is as new until there was a connection.
EchoRuns ==
  /\ EchoServer
  /\ watcher["client"] = {"on_recv"}
  /\ Client.obj = "live"
  /\ Client.handle \in {"raw", "init", "open", "closing", "closed"}
  /\ Client.creq = "idle" /\ Client.wreq = "idle"
  /\ Server.handle \in {"closing", "closed"} => Client.handle \in {"closing", "closed"}
  /\ conns = 0 => Client = buv_init

\* Outside on_recv a message is held only to be read on.
Settled == Client.msg = "alloc" => Client.reading = "yes"

EchoAt(k) ==
  /\ k \in {1, 9, 10} => Server = NoSocket
  /\ k = 2 => Made("server")
  /\ k = 3 => Server = buv_init /\ watcher["server"] = {"on_connection"}
  /\ k = 4 => \/ EchoServer /\ Server.handle \in {"init", "bound"}
              \/ Server.handle = "raw" /\ "bind" \in failed
  /\ k \in {5, 6} => EchoServer /\ Server.handle \in {"init", "bound", "listening"}
  /\ k \in {1, 2, 3, 4, 5, 10} => Client = NoSocket
  /\ k = 6 => Made("client")
  /\ k = 7 => EchoRuns /\ Settled
  /\ k = 8 => Server.obj = "live" /\ Quiet(Server)
  /\ k \in {8, 9} => Client.obj = "live" /\ Quiet(Client)

\* The connection that is accepted was just taken from the backlog.
EchoConnection(calls) ==
  /\ InCallback("on_connection", EchoFrom(7), calls) /\ EchoRuns /\ Settled
  /\ Server.handle = "listening"
  /\ calls = echo_on_connection("ok") => conns > 0 /\ (conns = 1 => Client = buv_init)

EchoAccept ==
  /\ Len(stack) = 2 /\ stack[1].cb = "on_connection" /\ stack[2].cb = "on_accept"
  /\ code = <<EchoFrom(7), << >>, << >> >> /\ EchoRuns /\ Settled
  /\ Server.handle = "listening"

\* The second half of echo_on_recv("ok", TRUE).
echo_then == << <<"close", "server">> >>

EchoReceive(calls) ==
  /\ InCallback("on_recv", EchoFrom(7), calls) /\ stack[1].sock = "client" /\ EchoRuns
  /\ calls = echo_on_recv("ok", TRUE) => Client.handle = "open"
  /\ calls = echo_then =>
       Client.handle = "closing" /\ Server.handle \in {"init", "bound", "listening"}

EchoClose == InCallback("on_close", EchoFrom(7), << >>) /\ EchoRuns /\ Settled

Echo ==
  /\ program = "echo_server"
  /\ \/ \E k \in 1 .. 10 : InMain(EchoFrom(k)) /\ EchoAt(k)
     \/ \E calls \in {<< >>, echo_on_connection("error"), echo_on_connection("ok")} :
          EchoConnection(calls)
     \/ EchoAccept
     \/ \E calls \in {<< >>, echo_on_recv("error", TRUE), echo_on_recv("ok", TRUE), echo_then} :
          EchoReceive(calls)
     \/ EchoClose

-----------------------------------------------------------------------------

\* What holds whatever became of the program.
Always ==
  /\ IndInv /\ ~ cut
  /\ conns \in 0 .. MaxConns
  /\ watcher \in [Sockets -> SUBSET Callbacks]
  /\ HandlersInPlace
  /\ \A s \in Sockets \ {"server", "client"} : sock[s] = NoSocket

\* Only a second peer, or a socket that could not be made or bound, can make a
\* program misuse the library.
ProgInv ==
  /\ Always
  /\ proc = "running" => (conns = 0 /\ Hello) \/ Echo
  /\ proc = "misuse" => conns > 1 \/ failed \cap {"new", "bind"} # {}
  /\ proc = "returned" => \A s \in Sockets : sock[s] = NoSocket

-----------------------------------------------------------------------------
(* Sequences of calls.                                                     *)

\* Short sequences, element by element.
LEMMA Tuples ==
  ASSUME NEW S, NEW t \in Seq(S)
  PROVE  /\ Len(t) = 1 => t = <<t[1]>>
         /\ Len(t) = 2 => t = <<t[1], t[2]>>
         /\ Len(t) = 3 => t = <<t[1], t[2], t[3]>>
<1>1. Len(t) = 1 => t = <<t[1]>>
  OBVIOUS
<1>2. Len(t) = 2 => t = <<t[1], t[2]>>
  OBVIOUS
<1>3. Len(t) = 3 => t = <<t[1], t[2], t[3]>>
  OBVIOUS
<1> QED BY <1>1, <1>2, <1>3

\* A callback is entered.
LEMMA Longer ==
  ASSUME NEW x, NEW y, NEW z
  PROVE  /\ Append(<< >>, x) = <<x>>
         /\ Append(<<x>>, y) = <<x, y>>
         /\ Append(<<x, y>>, z) = <<x, y, z>>
<1> DEFINE S == {x, y, z}
           t == Append(<<x>>, y)
           u == Append(<<x, y>>, z)
<1>1. t \in Seq(S) /\ Len(t) = 2 /\ t[1] = x /\ t[2] = y
  OBVIOUS
<1>2. u \in Seq(S) /\ Len(u) = 3 /\ u[1] = x /\ u[2] = y /\ u[3] = z
  OBVIOUS
<1>3. Append(<< >>, x) = <<x>>
  OBVIOUS
<1> HIDE DEF S, t, u
<1>4. t = <<x, y>> /\ u = <<x, y, z>>
  BY <1>1, <1>2, Tuples
<1> QED BY <1>3, <1>4 DEF t, u

\* A callback is left.
LEMMA Shorter ==
  ASSUME NEW x, NEW y
  PROVE  /\ Last(<<x>>) = x /\ Front(<<x>>) = << >>
         /\ Last(<<x, y>>) = y /\ Front(<<x, y>>) = <<x>>
<1> DEFINE S == {x, y}
           t == SubSeq(<<x, y>>, 1, 1)
<1>1. t \in Seq(S) /\ Len(t) = 1 /\ t[1] = x
  OBVIOUS
<1>2. Last(<<x>>) = x /\ Last(<<x, y>>) = y
  BY DEF Last
<1>3. Front(<<x>>) = << >> /\ Front(<<x, y>>) = t
  BY DEF Front
<1> HIDE DEF S, t
<1>4. t = <<x>>
  BY <1>1, Tuples
<1> QED BY <1>2, <1>3, <1>4

\* A callback inside another one is left.
LEMMA ShorterInside ==
  ASSUME NEW x, NEW y, NEW z
  PROVE  Last(<<x, y, z>>) = z /\ Front(<<x, y, z>>) = <<x, y>>
<1> DEFINE S == {x, y, z}
           t == SubSeq(<<x, y, z>>, 1, 2)
<1>1. t \in Seq(S) /\ Len(t) = 2 /\ t[1] = x /\ t[2] = y
  OBVIOUS
<1>2. Last(<<x, y, z>>) = z
  BY DEF Last
<1>3. Front(<<x, y, z>>) = t
  BY DEF Front
<1> HIDE DEF S, t
<1>4. t = <<x, y>>
  BY <1>1, Tuples
<1> QED BY <1>2, <1>3, <1>4

\* The innermost function is the only one, main.
LEMMA CodeOne ==
  ASSUME NEW m, code = <<m>>
  PROVE  Last(code) = m /\ Front(code) = << >> /\ Rest = <<Tail(m)>>
BY Shorter, Longer DEF Rest

\* It is a callback that uv_run called.
LEMMA CodeTwo ==
  ASSUME NEW m, NEW h, code = <<m, h>>
  PROVE  Last(code) = h /\ Front(code) = <<m>> /\ Rest = <<m, Tail(h)>>
<1>1. Last(code) = h /\ Front(code) = <<m>>
  BY Shorter
<1>2. Append(<<m>>, Tail(h)) = <<m, Tail(h)>>
  BY Longer
<1> QED BY <1>1, <1>2 DEF Rest

\* What is left of a sequence of calls.
LEMMA Suffix ==
  ASSUME NEW S, NEW m \in Seq(S), NEW n \in Nat, n = Len(m), NEW k \in 1 .. n
  PROVE  /\ SubSeq(m, k, n) # << >> /\ Head(SubSeq(m, k, n)) = m[k]
         /\ Tail(SubSeq(m, k, n)) = SubSeq(m, k + 1, n)
<1> DEFINE t == SubSeq(m, k, n)
           u == SubSeq(m, k + 1, n)
<1>1. t \in Seq(S) /\ Len(t) = n - k + 1 /\ \A i \in 1 .. n - k + 1 : t[i] = m[k + i - 1]
  OBVIOUS
<1>2. u \in Seq(S) /\ Len(u) = n - k /\ \A i \in 1 .. n - k : u[i] = m[k + i]
  OBVIOUS
<1> HIDE DEF t, u
<1>3. t # << >>
  BY <1>1
<1>4. Head(t) = m[k]
  <2>1. t[1] = m[k]
    BY <1>1
  <2> QED BY <1>1, <1>3, <2>1
<1>5. Tail(t) \in Seq(S) /\ Len(Tail(t)) = n - k /\ \A i \in 1 .. n - k : Tail(t)[i] = t[i + 1]
  BY <1>1, <1>3
<1>6. \A i \in 1 .. n - k : Tail(t)[i] = u[i]
  BY <1>1, <1>2, <1>5
<1>7. Tail(t) = u
  BY <1>2, <1>5, <1>6, SeqEqual
<1> QED BY <1>3, <1>4, <1>7 DEF t, u

\* The names of the sockets.
LEMMA Names == "server" \in Sockets /\ "client" \in Sockets /\ "server" # "client"
BY NamesAssumption

\* The calls m begin with c and go on with t.
NextCall(m, c, t) == m # << >> /\ Head(m) = c /\ Tail(m) = t

\* The calls of send_hello's main, one after the other.
LEMMA HelloCalls ==
  /\ NextCall(HelloFrom(1), <<"new", "client">>, HelloFrom(2))
  /\ NextCall(HelloFrom(2), <<"on", "client", "on_connect">>, HelloFrom(3))
  /\ NextCall(HelloFrom(3), <<"connect", "client">>, HelloFrom(4))
  /\ NextCall(HelloFrom(4), <<"uv_run">>, HelloFrom(5))
  /\ NextCall(HelloFrom(5), <<"del", "client">>, HelloFrom(6))
  /\ HelloFrom(1) = hello_main /\ HelloFrom(6) = << >>
<1> DEFINE S == {hello_main[i] : i \in 1 .. 5}
<1>1. hello_main \in Seq(S) /\ Len(hello_main) = 5
  BY DEF hello_main
<1>2. /\ hello_main[1] = <<"new", "client">>
      /\ hello_main[2] = <<"on", "client", "on_connect">>
      /\ hello_main[3] = <<"connect", "client">>
      /\ hello_main[4] = <<"uv_run">>
      /\ hello_main[5] = <<"del", "client">>
  BY DEF hello_main
<1> HIDE DEF S
<1>3. HelloFrom(1) = hello_main /\ HelloFrom(6) = << >>
  BY <1>1 DEF HelloFrom
<1>4. \A k \in 1 .. 5 : NextCall(HelloFrom(k), hello_main[k], HelloFrom(k + 1))
  BY <1>1, Suffix DEF HelloFrom, NextCall
<1>5. \A k \in 1 .. 5, j \in 2 .. 6 : j = k + 1 => NextCall(HelloFrom(k), hello_main[k], HelloFrom(j))
  BY <1>4
<1> QED BY <1>2, <1>3, <1>5

\* The calls of echo_server's main.
LEMMA EchoCalls ==
  /\ NextCall(EchoFrom(1), <<"new", "server">>, EchoFrom(2))
  /\ NextCall(EchoFrom(2), <<"on", "server", "on_connection">>, EchoFrom(3))
  /\ NextCall(EchoFrom(3), <<"bind", "server">>, EchoFrom(4))
  /\ NextCall(EchoFrom(4), <<"listen", "server">>, EchoFrom(5))
  /\ NextCall(EchoFrom(5), <<"new", "client">>, EchoFrom(6))
  /\ NextCall(EchoFrom(6), <<"on", "client", "on_recv">>, EchoFrom(7))
  /\ NextCall(EchoFrom(7), <<"uv_run">>, EchoFrom(8))
  /\ NextCall(EchoFrom(8), <<"del", "server">>, EchoFrom(9))
  /\ NextCall(EchoFrom(9), <<"del", "client">>, EchoFrom(10))
  /\ EchoFrom(1) = echo_main /\ EchoFrom(10) = << >>
<1> DEFINE S == {echo_main[i] : i \in 1 .. 9}
<1>1. echo_main \in Seq(S) /\ Len(echo_main) = 9
  BY DEF echo_main
<1>2. /\ echo_main[1] = <<"new", "server">>
      /\ echo_main[2] = <<"on", "server", "on_connection">>
      /\ echo_main[3] = <<"bind", "server">>
      /\ echo_main[4] = <<"listen", "server">>
      /\ echo_main[5] = <<"new", "client">>
      /\ echo_main[6] = <<"on", "client", "on_recv">>
      /\ echo_main[7] = <<"uv_run">>
      /\ echo_main[8] = <<"del", "server">>
      /\ echo_main[9] = <<"del", "client">>
  BY DEF echo_main
<1> HIDE DEF S
<1>3. EchoFrom(1) = echo_main /\ EchoFrom(10) = << >>
  BY <1>1 DEF EchoFrom
<1>4. \A k \in 1 .. 9 : NextCall(EchoFrom(k), echo_main[k], EchoFrom(k + 1))
  BY <1>1, Suffix DEF EchoFrom, NextCall
<1>5. \A k \in 1 .. 9, j \in 2 .. 10 : j = k + 1 => NextCall(EchoFrom(k), echo_main[k], EchoFrom(j))
  BY <1>4
<1>6. /\ NextCall(EchoFrom(1), echo_main[1], EchoFrom(2))
      /\ NextCall(EchoFrom(2), echo_main[2], EchoFrom(3))
      /\ NextCall(EchoFrom(3), echo_main[3], EchoFrom(4))
      /\ NextCall(EchoFrom(4), echo_main[4], EchoFrom(5))
      /\ NextCall(EchoFrom(5), echo_main[5], EchoFrom(6))
      /\ NextCall(EchoFrom(6), echo_main[6], EchoFrom(7))
      /\ NextCall(EchoFrom(7), echo_main[7], EchoFrom(8))
      /\ NextCall(EchoFrom(8), echo_main[8], EchoFrom(9))
      /\ NextCall(EchoFrom(9), echo_main[9], EchoFrom(10))
  BY <1>5
<1> QED BY <1>2, <1>3, <1>6

-----------------------------------------------------------------------------
(* Which step is next.                                                     *)

\* The next call decides.
LEMMA Dispatch ==
  ASSUME ProgNext, NEW c, Last(code) # << >>, Head(Last(code)) = c
  PROVE  /\ \A s : c = <<"new", s>> => New(s)
         /\ \A s : c = <<"bind", s>> => Bind(s)
         /\ \A s : c = <<"listen", s>> => Listen(s)
         /\ \A s : c = <<"connect", s>> => Connect(s)
         /\ \A s : c = <<"send", s>> => Send(s)
         /\ \A s : c = <<"close", s>> => Close(s)
         /\ \A s : c = <<"del", s>> => Del(s)
         /\ \A s, cb : c = <<"on", s, cb>> => On(s, cb)
         /\ \A s, t : c = <<"accept", s, t>> => Accept(s, t)
         /\ c = <<"fatal">> => Fatal
         /\ c = <<"uv_run">> => RunEnds \/ \E s \in Sockets : Poll(s)
<1> USE DEF Next_is
<1>1. \/ \E s \in Sockets : New(s) /\ c = <<"new", s>>
      \/ \E s \in Sockets : Bind(s) /\ c = <<"bind", s>>
      \/ \E s \in Sockets : Listen(s) /\ c = <<"listen", s>>
      \/ \E s \in Sockets : Connect(s) /\ c = <<"connect", s>>
      \/ \E s \in Sockets : Send(s) /\ c = <<"send", s>>
      \/ \E s \in Sockets : Close(s) /\ c = <<"close", s>>
      \/ \E s \in Sockets : Del(s) /\ c = <<"del", s>>
      \/ \E s \in Sockets, cb \in Callbacks : On(s, cb) /\ c = <<"on", s, cb>>
      \/ \E s, t \in Sockets : Accept(s, t) /\ c = <<"accept", s, t>>
      \/ Fatal /\ c = <<"fatal">>
      \/ (RunEnds \/ \E s \in Sockets : Poll(s)) /\ c = <<"uv_run">>
  <2>1. ~ Done
    BY DEF Done
  <2>2. ~ MainReturns
    BY CodeOne DEF MainReturns
  <2>3. /\ \A s \in Sockets :
             /\ New(s) => c = <<"new", s>>
             /\ Bind(s) => c = <<"bind", s>>
             /\ Listen(s) => c = <<"listen", s>>
             /\ Connect(s) => c = <<"connect", s>>
        /\ \A s \in Sockets :
             /\ Send(s) => c = <<"send", s>>
             /\ Close(s) => c = <<"close", s>>
             /\ Del(s) => c = <<"del", s>>
             /\ Poll(s) => c = <<"uv_run">>
    BY DEF New, Bind, Listen, Connect, Send, Close, Del, Poll
  <2>4. /\ \A s \in Sockets, cb \in Callbacks : On(s, cb) => c = <<"on", s, cb>>
        /\ \A s, t \in Sockets : Accept(s, t) => c = <<"accept", s, t>>
        /\ Fatal => c = <<"fatal">>
        /\ RunEnds => c = <<"uv_run">>
    BY DEF On, Accept, Fatal, RunEnds
  <2> QED BY <2>1, <2>2, <2>3, <2>4, Zenon DEF ProgNext, Step
<1>2. /\ \A s : c = <<"new", s>> => c[1] = "new" /\ c[2] = s
      /\ \A s : c = <<"bind", s>> => c[1] = "bind" /\ c[2] = s
      /\ \A s : c = <<"listen", s>> => c[1] = "listen" /\ c[2] = s
      /\ \A s : c = <<"connect", s>> => c[1] = "connect" /\ c[2] = s
      /\ \A s : c = <<"send", s>> => c[1] = "send" /\ c[2] = s
      /\ \A s : c = <<"close", s>> => c[1] = "close" /\ c[2] = s
      /\ \A s : c = <<"del", s>> => c[1] = "del" /\ c[2] = s
      /\ \A s, cb : c = <<"on", s, cb>> => c[1] = "on" /\ c[2] = s /\ c[3] = cb
      /\ \A s, t : c = <<"accept", s, t>> => c[1] = "accept" /\ c[2] = s /\ c[3] = t
      /\ c = <<"fatal">> => c[1] = "fatal"
      /\ c = <<"uv_run">> => c[1] = "uv_run"
  OBVIOUS
<1>3. /\ c[1] = "new" => New(c[2])
      /\ c[1] = "bind" => Bind(c[2])
      /\ c[1] = "listen" => Listen(c[2])
      /\ c[1] = "connect" => Connect(c[2])
      /\ c[1] = "send" => Send(c[2])
      /\ c[1] = "close" => Close(c[2])
      /\ c[1] = "del" => Del(c[2])
      /\ c[1] = "on" => On(c[2], c[3])
      /\ c[1] = "accept" => Accept(c[2], c[3])
      /\ c[1] = "fatal" => Fatal
      /\ c[1] = "uv_run" => RunEnds \/ \E s \in Sockets : Poll(s)
  BY <1>1, <1>2
<1> QED BY <1>2, <1>3

\* A function without calls is done.
LEMMA NoCall ==
  ASSUME ProgNext, Last(code) = << >>
  PROVE  Done \/ MainReturns
BY DEF ProgNext, Step, Next_is, New, Bind, Listen, Connect, Send, Close, Del, Poll,
       On, Accept, Fatal, RunEnds

\* Only a program that runs makes a step.
LEMMA OnlyRunning ==
  ASSUME ProgNext PROVE proc = "running" /\ program' = program
BY DEF ProgNext, Step, Next_is, Runs, New, Bind, Listen, Connect, Send, Close, Del,
       Poll, On, Accept, Fatal, RunEnds, Done, MainReturns

\* Nothing is called back in this step.
LEMMA Stay ==
  ASSUME Always, NEW rest, Continue(rest), stack' = stack
  PROVE  code' = rest /\ HandlersInPlace'
<1>1. Len(stack) \in Nat
  BY DEF Always, IndInv, Types
<1>2. code' = rest /\ warned' = warned
  BY <1>1 DEF Continue
<1> QED BY <1>2 DEF Always, HandlersInPlace

\* The callbacks that the programs set and rely on.
Set == {"on_connect", "on_connection", "on_recv"}

\* A callback is called: if the program has set it its handler begins.
LEMMA Enter ==
  ASSUME Always, NEW rest, Continue(rest), NEW cb, NEW s, NEW err,
         stack' = Call(cb, s, err), cb \in watcher[s] <=> cb \in Set
  PROVE  /\ HandlersInPlace'
         /\ Len(stack') = Len(stack) + 1
         /\ stack'[Len(stack) + 1].cb = cb /\ stack'[Len(stack) + 1].sock = s
         /\ \A i \in 1 .. Len(stack) : stack'[i] = stack[i]
         /\ cb \notin Set => code' = Append(rest, << >>)
         /\ cb = "on_connect" => code' = Append(rest, hello_on_connect)
         /\ cb = "on_connection" => code' = Append(rest, echo_on_connection(err))
         /\ cb = "on_recv" => code' = Append(rest, echo_on_recv(err, sock'[s].reading = "ended"))
<1> DEFINE f == [cb |-> cb, sock |-> s, err |-> err]
<1>0. stack \in Seq(Frame) /\ Len(stack) \in Nat
  BY DEF Always, IndInv, Types
<1>1. f.cb = cb /\ f.sock = s /\ f.err = err
  OBVIOUS
<1>2. stack' = Append(stack, f)
  BY DEF Call
<1> HIDE DEF f
<1>3. stack \in Seq(Frame \cup {f})
  BY <1>0
<1>4. /\ Len(stack') = Len(stack) + 1 /\ stack'[Len(stack) + 1] = f
      /\ \A i \in 1 .. Len(stack) : stack'[i] = stack[i]
  BY <1>0, <1>2, <1>3
<1>5. Last(stack') = f
  BY <1>4 DEF Last
<1>6. /\ code' = Append(rest, Handler(f, sock'[s].reading = "ended"))
      /\ warned' = IF cb \in watcher[s] THEN warned ELSE warned \cup {<<cb, s>>}
  BY <1>0, <1>1, <1>4, <1>5 DEF Continue
<1>7. HandlersInPlace'
  <2>1. <<cb, s>>[1] = cb
    OBVIOUS
  <2> QED BY <1>6, <2>1 DEF Always, HandlersInPlace, Set
<1>8. ASSUME NEW end
      PROVE  /\ cb \notin Set => Handler(f, end) = << >>
             /\ cb = "on_connect" => Handler(f, end) = hello_on_connect
             /\ cb = "on_connection" => Handler(f, end) = echo_on_connection(err)
             /\ cb = "on_recv" => Handler(f, end) = echo_on_recv(err, end)
  BY <1>1 DEF Handler, Set
<1> QED BY <1>1, <1>4, <1>6, <1>7, <1>8

-----------------------------------------------------------------------------
(* Steps of the library that Sockets does not have.                        *)

\* A socket that the program deletes after uv_run, whatever its state.
LEMMA FreeInd ==
  ASSUME IndInv, NEW s \in Sockets, stack = << >>, Quiet(sock[s]), FreeSocket(s)
  PROVE  IndInv'
<1> USE DEF FreeSocket, Quiet
<1>1. sock[s] \in Socket /\ Good(sock[s], due[s]) /\ uris \in Nat /\ msgs \in Nat
  BY Facts
<1>2. due' = [due EXCEPT ![s] = due[s]]
  BY Facts
<1>3. Good(NoSocket, due[s])
  BY <1>1 DEF Good, NoSocket, Socket
<1>4. Keeps(s, NoSocket) /\ Enters(s, NoSocket) /\ FreedAfter(s, NoSocket)
  BY <1>1 DEF Keeps, Executing, Enters, FreedAfter, NoSocket
<1>5. UriCount(sock[s], NoSocket) /\ MsgCount(sock[s], NoSocket)
  BY <1>1 DEF UriCount, MsgCount, One, NoSocket, Socket
<1> QED BY <1>2, <1>3, <1>4, <1>5, Values, Facts, OneSocket

\* libuv listens after a bind that failed; the protocol was set before.
LEMMA ListenUnboundInd ==
  ASSUME IndInv, NEW s \in Sockets, stack = << >>,
         sock[s].handle = "init", sock[s].proto \in Protocols,
         sock' = [sock EXCEPT ![s].handle = "listening"],
         UNCHANGED <<stack, uris, msgs, due, cut>>
  PROVE  IndInv'
<1> DEFINE r == [sock[s] EXCEPT !.handle = "listening"]
<1>1. r \in Socket
  BY Facts, Values, Updates
<1>2. sock' = [sock EXCEPT ![s] = r] /\ due' = [due EXCEPT ![s] = due[s]]
  BY Facts
<1>3. sock[s].obj = "live"
  BY InUse
<1>4. r.uri = sock[s].uri /\ r.msg = sock[s].msg /\ Good(r, due[s])
  BY <1>3, Facts DEF Good, Socket
<1>5. Keeps(s, r) /\ Enters(s, r)
  BY DEF Keeps, Executing, Enters
<1> HIDE DEF r
<1> QED BY <1>1, <1>2, <1>4, <1>5, Facts, QuietInd

\* The state of the library does not change.
LEMMA NoChangeInd == ASSUME IndInv, UNCHANGED vars PROVE IndInv'
BY NextInd

-----------------------------------------------------------------------------
(* Steps of the programs.                                                  *)

\* A step that changes no other socket than one of the programs'.
LEMMA AlwaysAfter ==
  ASSUME Always, IndInv', ~ cut', conns' \in 0 .. MaxConns,
         watcher' \in [Sockets -> SUBSET Callbacks], HandlersInPlace',
         \A t \in Sockets \ {"server", "client"} : sock'[t] = sock[t]
  PROVE  Always'
BY DEF Always

\* What the steps take from the invariant.
LEMMA ProgFacts ==
  ASSUME Always
  PROVE  /\ IndInv /\ ~ cut /\ sock \in [Sockets -> Socket] /\ stack \in Seq(Frame)
         /\ Server \in Socket /\ Client \in Socket
         /\ Good(Server, due["server"]) /\ Good(Client, due["client"])
         /\ conns \in Nat /\ conns <= MaxConns
         /\ watcher \in [Sockets -> SUBSET Callbacks]
BY Names, Facts, ConnsAssumption DEF Always, Server, Client

\* main makes its next call, which calls nothing back.
LEMMA MainGoesOn ==
  ASSUME Always, NEW m, InMain(m), Continue(Rest), stack' = stack
  PROVE  stack' = << >> /\ code' = <<Tail(m)>> /\ HandlersInPlace'
BY Stay, CodeOne DEF InMain

\* A callback makes its next call, which calls nothing back.
LEMMA CallbackGoesOn ==
  ASSUME Always, NEW cb, NEW m, NEW h, InCallback(cb, m, h), Continue(Rest), stack' = stack
  PROVE  Len(stack') = 1 /\ stack'[1].cb = cb /\ code' = <<m, Tail(h)>> /\ HandlersInPlace'
<1>1. Rest = <<m, Tail(h)>>
  BY CodeTwo DEF InCallback
<1> QED BY <1>1, Stay DEF InCallback

\* sc_socket_new gives a socket or fails.
LEMMA NewAlways ==
  ASSUME Always, NEW s \in {"server", "client"}, sock[s] = NoSocket, New(s),
         NEW m, InMain(m)
  PROVE  /\ Always' /\ Made(s)' /\ UNCHANGED <<conns, proc>>
         /\ stack' = << >> /\ code' = <<Tail(m)>>
         /\ \A t \in Sockets \ {s} : sock'[t] = sock[t] /\ watcher'[t] = watcher[t]
<1>0. s \in Sockets
  BY Names
<1>1. Continue(Rest) /\ UNCHANGED <<conns, proc>>
  BY DEF New
<1>2. CASE sc_socket_new(s) /\ sc_watcher_init(s)
  <2>1. /\ sock' = [sock EXCEPT ![s] = buv_init] /\ watcher' = [watcher EXCEPT ![s] = {}]
        /\ UNCHANGED <<stack, cut>> /\ IndInv'
    BY <1>0, <1>2, NewInd, ProgFacts DEF sc_socket_new, sc_watcher_init
  <2>2. stack' = << >> /\ code' = <<Tail(m)>> /\ HandlersInPlace'
    BY <1>1, <2>1, MainGoesOn
  <2>3. /\ sock'[s] = buv_init /\ watcher'[s] = {}
        /\ watcher' \in [Sockets -> SUBSET Callbacks]
        /\ \A t \in Sockets \ {s} : sock'[t] = sock[t] /\ watcher'[t] = watcher[t]
    BY <1>0, <2>1, ProgFacts
  <2>4. Always'
    BY <1>1, <2>1, <2>2, <2>3, ProgFacts, AlwaysAfter DEF Always
  <2> QED BY <1>1, <2>2, <2>3, <2>4 DEF Made
<1>3. CASE failed' = failed \cup {"new"} /\ UNCHANGED <<vars, watcher>>
  <2>1. IndInv' /\ UNCHANGED <<sock, stack, cut, watcher>>
    BY <1>3, NoChangeInd, ProgFacts DEF vars
  <2>2. stack' = << >> /\ code' = <<Tail(m)>> /\ HandlersInPlace'
    BY <1>1, <2>1, MainGoesOn
  <2>3. Always'
    BY <1>1, <2>1, <2>2, ProgFacts, AlwaysAfter DEF Always
  <2> QED BY <1>1, <1>3, <2>1, <2>2, <2>3 DEF Made
<1> QED BY <1>2, <1>3 DEF New

\* A callback is set, on a socket that was made.
LEMMA OnAlways ==
  ASSUME Always, NEW s \in {"server", "client"}, NEW cb \in Callbacks, On(s, cb), Made(s),
         NEW m, InMain(m)
  PROVE  \/ /\ Always' /\ sock[s] = buv_init /\ watcher'[s] = {cb}
            /\ UNCHANGED <<sock, conns, proc>> /\ stack' = << >> /\ code' = <<Tail(m)>>
            /\ \A t \in Sockets \ {s} : watcher'[t] = watcher[t]
         \/ Misuse /\ "new" \in failed
<1>0. s \in Sockets
  BY Names
<1>1. CASE sock[s].obj = "live"
  <2>1. sock[s] = buv_init /\ watcher[s] = {}
    BY <1>1 DEF Made, NoSocket
  <2>2. /\ watcher' = [watcher EXCEPT ![s] = watcher[s] \cup {cb}]
        /\ UNCHANGED vars /\ UNCHANGED <<conns, proc>> /\ Continue(Rest)
    BY <1>1 DEF On, sc_socket_on
  <2>3. IndInv' /\ UNCHANGED <<sock, stack, cut>>
    BY <2>2, NoChangeInd, ProgFacts DEF vars
  <2>4. stack' = << >> /\ code' = <<Tail(m)>> /\ HandlersInPlace'
    BY <2>2, <2>3, MainGoesOn
  <2>5. /\ watcher'[s] = {cb} /\ watcher' \in [Sockets -> SUBSET Callbacks]
        /\ \A t \in Sockets \ {s} : watcher'[t] = watcher[t]
    BY <1>0, <2>1, <2>2, ProgFacts
  <2>6. Always'
    BY <2>2, <2>3, <2>4, <2>5, ProgFacts, AlwaysAfter DEF Always
  <2> QED BY <2>1, <2>2, <2>3, <2>4, <2>5, <2>6
<1>2. CASE sock[s].obj # "live"
  <2>1. buv_init.obj = "live"
    BY DEF buv_init, NoSocket
  <2>2. "new" \in failed
    BY <1>2, <2>1 DEF Made
  <2> QED BY <1>2, <2>2 DEF On
<1> QED BY <1>1, <1>2

\* A call that must not be made is the last.
LEMMA MisuseEnds ==
  ASSUME Always, Misuse, conns > 1 \/ failed \cap {"new", "bind"} # {}
  PROVE  ProgInv'
<1>1. /\ proc' = "misuse" /\ UNCHANGED vars /\ UNCHANGED <<watcher, warned, conns, failed>>
  BY DEF Misuse
<1>2. IndInv' /\ HandlersInPlace'
  BY <1>1, NoChangeInd, ProgFacts DEF Always, HandlersInPlace
<1>3. Always'
  BY <1>1, <1>2, ProgFacts, AlwaysAfter DEF vars, Always
<1> QED BY <1>1, <1>3 DEF ProgInv

\* uv_run calls a callback of the program.
LEMMA LoopCalls ==
  ASSUME Always, NEW m, InMain(m), Continue(code), NEW cb, NEW s, NEW err,
         stack' = Call(cb, s, err), cb \in watcher[s] <=> cb \in Set
  PROVE  /\ HandlersInPlace'
         /\ Len(stack') = 1 /\ stack'[1].cb = cb /\ stack'[1].sock = s
         /\ cb \notin Set => code' = <<m, << >> >>
         /\ cb = "on_connect" => code' = <<m, hello_on_connect>>
         /\ cb = "on_connection" => code' = <<m, echo_on_connection(err)>>
         /\ cb = "on_recv" => code' = <<m, echo_on_recv(err, sock'[s].reading = "ended")>>
<1>1. code = <<m>> /\ Len(stack) = 0
  BY DEF InMain
<1>2. \A h : Append(code, h) = <<m, h>>
  BY <1>1, Longer
<1>3. Len(stack) + 1 = 1
  BY <1>1
<1>4. /\ HandlersInPlace'
      /\ Len(stack') = Len(stack) + 1
      /\ stack'[Len(stack) + 1].cb = cb /\ stack'[Len(stack) + 1].sock = s
      /\ cb \notin Set => code' = Append(code, << >>)
      /\ cb = "on_connect" => code' = Append(code, hello_on_connect)
      /\ cb = "on_connection" => code' = Append(code, echo_on_connection(err))
      /\ cb = "on_recv" => code' = Append(code, echo_on_recv(err, sock'[s].reading = "ended"))
  BY Enter
<1> QED BY <1>2, <1>3, <1>4

\* A callback returns to the loop.
LEMMA CallbackReturns ==
  ASSUME Always, NEW cb, NEW m, InCallback(cb, m, << >>), ProgNext
  PROVE  /\ Return /\ stack' = << >> /\ code' = <<m>>
         /\ cb # "on_recv" => sock' = sock
         /\ cb = "on_recv" =>
              /\ sock' = [sock EXCEPT ![stack[1].sock].msg = "null"] \/ sock' = sock
              /\ sock'[stack[1].sock].msg # "alloc"
         /\ IndInv' /\ HandlersInPlace'
         /\ UNCHANGED <<program, watcher, conns, proc, cut>>
<1>1. Last(code) = << >> /\ Front(code) = <<m>> /\ code # << << >> >>
  <2>1. code = <<m, << >> >>
    BY DEF InCallback
  <2>2. Len(<<m, << >> >>) = 2 /\ Len(<< << >> >>) = 1
    OBVIOUS
  <2> QED BY <2>1, <2>2, CodeTwo
<1>2. Done
  BY <1>1, NoCall DEF MainReturns
<1>3. Return /\ code' = <<m>> /\ UNCHANGED <<program, watcher, warned, conns, proc>>
  BY <1>1, <1>2 DEF Done, Runs
<1>4. IndInv' /\ HandlersInPlace'
  BY <1>3, ReturnInd DEF Always, HandlersInPlace
<1>5. /\ stack \in Seq(Frame) /\ stack[1] \in Frame /\ sock \in [Sockets -> Socket]
      /\ Last(stack) = stack[1] /\ Front(stack) = << >>
      /\ stack[1].sock \in Sockets
  <2>1. stack \in Seq(Frame) /\ Len(stack) = 1 /\ sock \in [Sockets -> Socket]
    BY ProgFacts DEF InCallback
  <2>2. stack = <<stack[1]>> /\ stack[1] \in Frame
    BY <2>1, Tuples
  <2>3. Last(stack) = stack[1] /\ Front(stack) = << >>
    BY <2>2, Shorter
  <2> QED BY <2>1, <2>2, <2>3 DEF Frame
<1>6. stack[1].cb = cb
  BY DEF InCallback
<1> QED BY <1>3, <1>4, <1>5, <1>6 DEF Return

-----------------------------------------------------------------------------
(* send_hello.                                                             *)

\* main, before and after uv_run.
LEMMA HelloMain ==
  ASSUME Always, ProgNext, program = "send_hello", Server = NoSocket, conns = 0,
         NEW k \in {1, 2, 3, 5, 6}, InMain(HelloFrom(k)), HelloAt(k)
  PROVE  ProgInv'
<1> USE DEF Server, Client
<1>0. /\ code = <<HelloFrom(k)>> /\ stack = << >>
      /\ Last(code) = HelloFrom(k) /\ proc = "running" /\ program' = program
      /\ "client" \in Sockets /\ "server" \in Sockets /\ "client" \in {"server", "client"}
  BY CodeOne, OnlyRunning, Names DEF InMain
<1>1. CASE k = 1
  <2>1. New("client") /\ Client = NoSocket
    BY <1>0, <1>1, Dispatch, HelloCalls DEF NextCall, HelloAt
  <2>2. Tail(HelloFrom(1)) = HelloFrom(2) /\ InMain(HelloFrom(1))
    BY <1>1, HelloCalls DEF NextCall
  <2>3. /\ Always' /\ Made("client")' /\ UNCHANGED <<conns, proc>>
        /\ stack' = << >> /\ code' = <<HelloFrom(2)>>
        /\ \A t \in Sockets \ {"client"} : sock'[t] = sock[t] /\ watcher'[t] = watcher[t]
    BY <1>0, <2>1, <2>2, NewAlways
  <2>4. Server' = NoSocket
    BY <1>0, <2>3, Names
  <2>5. InMain(HelloFrom(2))' /\ HelloAt(2)'
    BY <2>3 DEF InMain, HelloAt
  <2> QED BY <1>0, <2>3, <2>4, <2>5 DEF ProgInv, Hello
<1>2. CASE k = 2
  <2>1. On("client", "on_connect") /\ Made("client") /\ "on_connect" \in Callbacks
    BY <1>0, <1>2, Dispatch, HelloCalls DEF NextCall, HelloAt, Callbacks, Promised
  <2>2. Tail(HelloFrom(2)) = HelloFrom(3) /\ InMain(HelloFrom(2))
    BY <1>2, HelloCalls DEF NextCall
  <2>3. \/ /\ Always' /\ Client = buv_init /\ watcher'["client"] = {"on_connect"}
           /\ UNCHANGED <<sock, conns, proc>> /\ stack' = << >> /\ code' = <<HelloFrom(3)>>
        \/ Misuse /\ "new" \in failed
    BY <1>0, <2>1, <2>2, OnAlways
  <2>4. CASE Misuse /\ "new" \in failed
    BY <2>4, MisuseEnds
  <2>5. CASE /\ Always' /\ Client = buv_init /\ watcher'["client"] = {"on_connect"}
             /\ UNCHANGED <<sock, conns, proc>> /\ stack' = << >> /\ code' = <<HelloFrom(3)>>
    <3>1. InMain(HelloFrom(3))' /\ HelloAt(3)'
      BY <2>5 DEF InMain, HelloAt
    <3> QED BY <1>0, <2>5, <3>1 DEF ProgInv, Hello
  <2> QED BY <2>3, <2>4, <2>5
<1>3. CASE k = 3
  <2>1. Connect("client")
    BY <1>0, <1>3, Dispatch, HelloCalls DEF NextCall
  <2>2. MayName("client") /\ Client = buv_init
    BY <1>3 DEF HelloAt, MayName, MayOpen, buv_init, NoSocket
  <2>3. /\ \E u \in {"tcp", "bad"} : sc_socket_connect("client", u)
        /\ Continue(Rest) /\ UNCHANGED <<watcher, conns, proc>>
    BY <2>1, <2>2 DEF Connect
  <2>4. IndInv'
    BY <1>0, <2>3, ConnectInd, ProgFacts DEF Protocols
  <2>5. /\ stack' = stack /\ cut' = cut
        /\ \/ sock' = sock
           \/ sock' = [sock EXCEPT !["client"].uri = "set"]
           \/ sock' = [sock EXCEPT !["client"].uri = "set", !["client"].handle = "init"]
           \/ sock' = [sock EXCEPT !["client"].uri = "set", !["client"].handle = "connecting",
                                   !["client"].creq = "pending"]
    BY <2>3 DEF sc_socket_connect, buv_connect
  <2>6. stack' = << >> /\ code' = <<HelloFrom(4)>> /\ HandlersInPlace'
    BY <1>3, <2>3, <2>5, MainGoesOn, HelloCalls DEF NextCall
  <2>7. /\ sock'["server"] = NoSocket
        /\ \A t \in Sockets \ {"server", "client"} : sock'[t] = sock[t]
    BY <1>0, <2>5, ProgFacts
  <2>8. HelloRuns'
    <3>1. sock["client"] \in Socket /\ sock \in [Sockets -> Socket]
      BY ProgFacts
    <3>2. /\ sock["client"].obj = "live" /\ sock["client"].handle = "raw"
          /\ sock["client"].reading = "no" /\ sock["client"].msg = "null"
          /\ sock["client"].wreq = "idle"
      BY <2>2 DEF buv_init, NoSocket
    <3>3. /\ sock'["client"].obj = "live"
          /\ sock'["client"].handle \in {"raw", "init", "connecting"}
          /\ sock'["client"].reading = "no" /\ sock'["client"].msg = "null"
          /\ sock'["client"].wreq = "idle"
      BY <1>0, <2>5, <3>1, <3>2 DEF Socket
    <3> QED BY <1>3, <2>3, <3>3 DEF HelloRuns, HelloAt
  <2>9. Always'
    BY <2>3, <2>4, <2>5, <2>6, <2>7, ProgFacts, AlwaysAfter
  <2>10. InMain(HelloFrom(4))' /\ HelloAt(4)'
    BY <2>6, <2>8 DEF InMain, HelloAt
  <2> QED BY <1>0, <2>3, <2>7, <2>9, <2>10 DEF ProgInv, Hello
<1>4. CASE k = 5
  <2>1. Del("client")
    BY <1>0, <1>4, Dispatch, HelloCalls DEF NextCall
  <2>2. Client.obj = "live" /\ Quiet(Client)
    BY <1>4 DEF HelloAt, HelloRuns
  <2>3. FreeSocket("client") /\ Continue(Rest) /\ UNCHANGED <<watcher, conns, proc>>
    BY <2>1, <2>2 DEF Del
  <2>4. IndInv'
    BY <1>0, <2>2, <2>3, FreeInd, ProgFacts
  <2>5. sock' = [sock EXCEPT !["client"] = NoSocket] /\ UNCHANGED <<stack, cut>>
    BY <2>3 DEF FreeSocket
  <2>6. stack' = << >> /\ code' = <<HelloFrom(6)>> /\ HandlersInPlace'
    BY <1>4, <2>3, <2>5, MainGoesOn, HelloCalls DEF NextCall
  <2>7. /\ sock'["server"] = NoSocket /\ sock'["client"] = NoSocket
        /\ \A t \in Sockets \ {"server", "client"} : sock'[t] = sock[t]
    BY <1>0, <2>5, ProgFacts
  <2>8. Always'
    BY <2>3, <2>4, <2>5, <2>6, <2>7, ProgFacts, AlwaysAfter
  <2>9. InMain(HelloFrom(6))' /\ HelloAt(6)'
    BY <2>6, <2>7 DEF InMain, HelloAt
  <2> QED BY <1>0, <2>3, <2>7, <2>8, <2>9 DEF ProgInv, Hello
<1>5. CASE k = 6
  <2>1. Last(code) = << >> /\ stack = << >>
    BY <1>0, <1>5, HelloCalls
  <2>2. MainReturns
    BY <2>1, NoCall DEF Done
  <2>3. proc' = "returned" /\ UNCHANGED vars /\ UNCHANGED <<watcher, warned, conns>>
    BY <2>2 DEF MainReturns
  <2>4. IndInv' /\ HandlersInPlace'
    BY <2>3, NoChangeInd, ProgFacts DEF Always, HandlersInPlace
  <2>5. Always'
    BY <2>3, <2>4, ProgFacts, AlwaysAfter DEF vars
  <2>6. \A s \in Sockets : sock[s] = NoSocket
    BY <1>5 DEF Always, HelloAt
  <2> QED BY <2>3, <2>5, <2>6 DEF ProgInv, vars
<1> QED BY <1>1, <1>2, <1>3, <1>4, <1>5

\* uv_run, with nothing called back.
LEMMA HelloPoll ==
  ASSUME Always, ProgNext, program = "send_hello", Server = NoSocket, conns = 0,
         InMain(HelloFrom(4)), HelloRuns
  PROVE  ProgInv'
<1> USE DEF Server, Client
<1>0. /\ code = <<HelloFrom(4)>> /\ stack = << >>
      /\ Last(code) = HelloFrom(4) /\ proc = "running" /\ program' = program
      /\ "client" \in Sockets /\ "server" \in Sockets
  BY CodeOne, OnlyRunning, Names DEF InMain
<1>1. RunEnds \/ \E s \in Sockets : Poll(s)
  BY <1>0, Dispatch, HelloCalls DEF NextCall
<1>2. CASE RunEnds
  <2>1. /\ ~ LoopAlive /\ code' = Rest
        /\ UNCHANGED vars /\ UNCHANGED <<watcher, warned, conns, proc>>
    BY <1>2 DEF RunEnds
  <2>2. code' = <<HelloFrom(5)>> /\ stack' = << >>
    BY <1>0, <2>1, CodeOne, HelloCalls DEF NextCall, vars
  <2>3. Quiet(Client)
    BY <1>0, <2>1, ProgFacts DEF LoopAlive, Quiet, HelloRuns, Socket
  <2>4. IndInv' /\ HandlersInPlace'
    BY <2>1, NoChangeInd, ProgFacts DEF Always, HandlersInPlace
  <2>5. Always'
    BY <2>1, <2>4, ProgFacts, AlwaysAfter DEF vars
  <2>6. InMain(HelloFrom(5))' /\ HelloAt(5)'
    BY <2>1, <2>2, <2>3 DEF InMain, HelloAt, HelloRuns, Quiet, vars
  <2> QED BY <1>0, <2>1, <2>5, <2>6 DEF ProgInv, Hello, vars
<1>3. ASSUME NEW s \in Sockets, Poll(s) PROVE ProgInv'
  <2>1. /\ Loop(s) /\ Continue(code) /\ UNCHANGED <<watcher, proc>>
        /\ conns' = IF sock'[s].taken = "yes" /\ sock[s].taken = "no" THEN conns + 1 ELSE conns
    BY <1>3 DEF Poll
  <2>2. sock[s].handle # "raw"
    BY <2>1 DEF Loop, on_connect_wrap, write_wrap, on_connection_wrap, read_wrap,
                cancel_wrap, close_wrap, PeerDown
  <2>3. s = "client"
    BY <2>2 DEF Always, NoSocket
  <2>4. /\ sock["client"].obj = "live"
        /\ sock["client"].handle \in {"raw", "init", "connecting", "failed", "open"}
        /\ sock["client"].reading = "no" /\ sock["client"].msg = "null"
        /\ sock["client"].handle = "connecting" => sock["client"].wreq = "idle"
        /\ watcher["client"] = {"on_connect"}
    BY DEF HelloRuns
  <2>5. on_connect_wrap(s) \/ write_wrap(s) \/ PeerDown(s)
    BY <2>1, <2>3, <2>4 DEF Loop, on_connection_wrap, read_wrap, cancel_wrap, close_wrap
  <2>6. IndInv'
    BY <2>5, OnConnectWrapInd, WriteWrapInd, PeerDownInd, ProgFacts
  <2>7. sock \in [Sockets -> Socket] /\ sock["client"] \in Socket
    BY ProgFacts
  <2>8. CASE on_connect_wrap(s)
    <3>1. PICK ok \in BOOLEAN :
            /\ sock' = [sock EXCEPT !["client"].creq = "idle",
                                    !["client"].handle = IF ok THEN "open" ELSE "failed",
                                    !["client"].peer = IF ok THEN "up" ELSE "down"]
            /\ stack' = Call("on_connect", "client", IF ok THEN "ok" ELSE "error")
      BY <2>3, <2>8 DEF on_connect_wrap
    <3>2. sock["client"].handle = "connecting" /\ cut' = cut
      BY <2>3, <2>8 DEF on_connect_wrap
    <3>3. /\ sock'["client"].obj = "live" /\ sock'["client"].handle \in {"failed", "open"}
          /\ sock'["client"].reading = "no" /\ sock'["client"].msg = "null"
          /\ sock'["client"].wreq = "idle" /\ sock'["client"].taken = sock["client"].taken
          /\ \A t \in Sockets \ {"client"} : sock'[t] = sock[t]
      BY <1>0, <2>4, <2>7, <3>1, <3>2 DEF Socket
    <3>4. /\ HandlersInPlace' /\ Len(stack') = 1 /\ stack'[1].cb = "on_connect"
          /\ code' = <<HelloFrom(4), hello_on_connect>>
      BY <2>1, <2>4, <3>1, LoopCalls DEF Set
    <3>5. conns' = conns
      BY <2>1, <2>3, <3>3
    <3>6. Always'
      BY <1>0, <2>1, <2>6, <3>2, <3>3, <3>4, <3>5, ProgFacts, AlwaysAfter
    <3>7. HelloConnect(hello_on_connect)'
      BY <2>1, <2>4, <3>3, <3>4 DEF HelloConnect, InCallback, HelloRuns
    <3>8. Hello'
      BY <1>0, <3>3, <3>7 DEF Hello
    <3> QED BY <1>0, <2>1, <3>5, <3>6, <3>8 DEF ProgInv
  <2>9. CASE write_wrap(s)
    <3>1. PICK err \in {"ECANCELED", "error", "ok"} : stack' = Call("on_send", "client", err)
      BY <2>3, <2>9 DEF write_wrap
    <3>2. sock' = [sock EXCEPT !["client"].wreq = "idle"] /\ cut' = cut
      BY <2>3, <2>9 DEF write_wrap
    <3>3. /\ sock'["client"].obj = "live" /\ sock'["client"].handle = sock["client"].handle
          /\ sock'["client"].reading = "no" /\ sock'["client"].msg = "null"
          /\ sock'["client"].wreq = "idle" /\ sock'["client"].taken = sock["client"].taken
          /\ \A t \in Sockets \ {"client"} : sock'[t] = sock[t]
      BY <1>0, <2>4, <2>7, <3>2 DEF Socket
    <3>4. /\ HandlersInPlace' /\ Len(stack') = 1 /\ stack'[1].cb = "on_send"
          /\ code' = <<HelloFrom(4), << >> >>
      BY <2>1, <2>4, <3>1, LoopCalls DEF Set
    <3>5. conns' = conns
      BY <2>1, <2>3, <3>3
    <3>6. Always'
      BY <1>0, <2>1, <2>6, <3>2, <3>3, <3>4, <3>5, ProgFacts, AlwaysAfter
    <3>7. HelloSend'
      BY <2>1, <2>4, <3>3, <3>4 DEF HelloSend, InCallback, HelloRuns
    <3>8. Hello'
      BY <1>0, <3>3, <3>7 DEF Hello
    <3> QED BY <1>0, <2>1, <3>5, <3>6, <3>8 DEF ProgInv
  <2>10. CASE PeerDown(s)
    <3>1. sock' = [sock EXCEPT !["client"].peer = "down"] /\ UNCHANGED <<stack, cut>>
      BY <2>3, <2>10 DEF PeerDown
    <3>2. /\ sock'["client"].obj = "live" /\ sock'["client"].handle = sock["client"].handle
          /\ sock'["client"].reading = "no" /\ sock'["client"].msg = "null"
          /\ sock'["client"].wreq = sock["client"].wreq
          /\ sock'["client"].taken = sock["client"].taken
          /\ \A t \in Sockets \ {"client"} : sock'[t] = sock[t]
      BY <1>0, <2>4, <2>7, <3>1 DEF Socket
    <3>3. HandlersInPlace' /\ code' = code /\ stack' = << >>
      BY <1>0, <2>1, <3>1, Stay
    <3>4. conns' = conns
      BY <2>1, <2>3, <3>2
    <3>5. Always'
      BY <1>0, <2>1, <2>6, <3>1, <3>2, <3>3, <3>4, ProgFacts, AlwaysAfter
    <3>6. InMain(HelloFrom(4))' /\ HelloAt(4)'
      BY <1>0, <2>1, <2>4, <3>2, <3>3 DEF InMain, HelloAt, HelloRuns
    <3>7. Hello'
      BY <1>0, <3>2, <3>6 DEF Hello
    <3> QED BY <1>0, <2>1, <3>4, <3>5, <3>7 DEF ProgInv
  <2> QED BY <2>5, <2>8, <2>9, <2>10
<1> QED BY <1>1, <1>2, <1>3

\* Its callbacks: on_connect sends, on_send is the noop.
LEMMA HelloCallbacks ==
  ASSUME Always, ProgNext, program = "send_hello", Server = NoSocket, conns = 0,
         HelloSend \/ \E calls \in {<< >>, hello_on_connect} : HelloConnect(calls)
  PROVE  ProgInv'
<1> USE DEF Server, Client
<1>0. /\ proc = "running" /\ program' = program
      /\ "client" \in Sockets /\ "server" \in Sockets
  BY OnlyRunning, Names
<1>1. ASSUME NEW cb \in {"on_connect", "on_send"}, InCallback(cb, HelloFrom(4), << >>),
             HelloRuns
      PROVE  ProgInv'
  <2>1. /\ stack' = << >> /\ code' = <<HelloFrom(4)>> /\ sock' = sock
        /\ IndInv' /\ HandlersInPlace' /\ UNCHANGED <<watcher, conns, proc, cut>>
    BY <1>1, CallbackReturns
  <2>2. Always'
    BY <2>1, ProgFacts, AlwaysAfter
  <2>3. InMain(HelloFrom(4))' /\ HelloAt(4)'
    BY <1>1, <2>1 DEF InMain, HelloAt, HelloRuns
  <2>4. Hello'
    BY <1>0, <2>1, <2>3 DEF Hello
  <2> QED BY <1>0, <2>1, <2>2, <2>4 DEF ProgInv
<1>2. CASE HelloConnect(hello_on_connect)
  <2>1. /\ InCallback("on_connect", HelloFrom(4), hello_on_connect) /\ HelloRuns
        /\ Client.handle \in {"failed", "open"} /\ Client.wreq = "idle"
    BY <1>2 DEF HelloConnect, hello_on_connect
  <2>2. NextCall(hello_on_connect, <<"send", "client">>, << >>)
    BY DEF NextCall, hello_on_connect
  <2>3. Last(code) = hello_on_connect
    BY <2>1, CodeTwo DEF InCallback
  <2>4. Send("client")
    BY <2>2, <2>3, Dispatch DEF NextCall
  <2>5. buv_send("client") /\ Continue(Rest) /\ UNCHANGED <<watcher, conns, proc>>
    BY <2>1, <2>4 DEF Send, MaySend, HelloRuns
  <2>6. /\ IndInv' /\ UNCHANGED <<stack, cut>>
        /\ \/ sock' = sock
           \/ sock' = [sock EXCEPT !["client"].wreq = "pending"]
    BY <1>0, <2>5, SendInd, ProgFacts DEF buv_send
  <2>7. /\ sock'["client"].obj = sock["client"].obj
        /\ sock'["client"].handle = sock["client"].handle
        /\ sock'["client"].reading = sock["client"].reading
        /\ sock'["client"].msg = sock["client"].msg
        /\ \A t \in Sockets \ {"client"} : sock'[t] = sock[t]
    BY <1>0, <2>6, ProgFacts DEF Socket
  <2>8. /\ Len(stack') = 1 /\ stack'[1].cb = "on_connect"
        /\ code' = <<HelloFrom(4), << >> >> /\ HandlersInPlace'
    BY <2>1, <2>2, <2>5, <2>6, CallbackGoesOn DEF NextCall
  <2>9. Always'
    BY <1>0, <2>5, <2>6, <2>7, <2>8, ProgFacts, AlwaysAfter
  <2>10. HelloConnect(<< >>)'
    BY <2>1, <2>5, <2>7, <2>8 DEF HelloConnect, InCallback, HelloRuns
  <2>11. Hello'
    BY <1>0, <2>7, <2>10 DEF Hello
  <2> QED BY <1>0, <2>5, <2>9, <2>11 DEF ProgInv
<1> QED BY <1>1, <1>2 DEF HelloSend, HelloConnect

-----------------------------------------------------------------------------
(* echo_server.                                                            *)

\* The program is in main, before one of its calls.
LEMMA EchoMainAfter ==
  ASSUME Always', proc' = "running", program' = "echo_server",
         NEW k \in 1 .. 10, InMain(EchoFrom(k))', EchoAt(k)'
  PROVE  ProgInv'
<1>1. Echo'
  BY DEF Echo
<1> QED BY <1>1 DEF ProgInv

\* main, until uv_run.
LEMMA EchoStarts ==
  ASSUME Always, ProgNext, program = "echo_server",
         NEW k \in {1, 2, 3, 4, 5, 6}, InMain(EchoFrom(k)), EchoAt(k)
  PROVE  ProgInv'
<1> USE DEF Server, Client
<1>0. /\ code = <<EchoFrom(k)>> /\ stack = << >>
      /\ Last(code) = EchoFrom(k) /\ proc = "running" /\ program' = program
      /\ "client" \in Sockets /\ "server" \in Sockets
  BY CodeOne, OnlyRunning, Names DEF InMain
<1>1. CASE k = 1
  <2>1. New("server") /\ Server = NoSocket /\ Client = NoSocket
    BY <1>0, <1>1, Dispatch, EchoCalls DEF NextCall, EchoAt
  <2>2. Tail(EchoFrom(1)) = EchoFrom(2) /\ InMain(EchoFrom(1))
    BY <1>1, EchoCalls DEF NextCall
  <2>3. /\ Always' /\ Made("server")' /\ UNCHANGED <<conns, proc>>
        /\ stack' = << >> /\ code' = <<EchoFrom(2)>>
        /\ \A t \in Sockets \ {"server"} : sock'[t] = sock[t] /\ watcher'[t] = watcher[t]
    BY <1>0, <2>1, <2>2, NewAlways
  <2>4. Client' = NoSocket
    BY <1>0, <2>1, <2>3, Names
  <2>5. InMain(EchoFrom(2))' /\ EchoAt(2)'
    BY <2>3, <2>4 DEF InMain, EchoAt
  <2> QED BY <1>0, <2>3, <2>5, EchoMainAfter
<1>2. CASE k = 2
  <2>1. /\ On("server", "on_connection") /\ Made("server") /\ Client = NoSocket
        /\ "on_connection" \in Callbacks
    BY <1>0, <1>2, Dispatch, EchoCalls DEF NextCall, EchoAt, Callbacks
  <2>2. Tail(EchoFrom(2)) = EchoFrom(3) /\ InMain(EchoFrom(2))
    BY <1>2, EchoCalls DEF NextCall
  <2>3. \/ /\ Always' /\ Server = buv_init /\ watcher'["server"] = {"on_connection"}
           /\ UNCHANGED <<sock, conns, proc>> /\ stack' = << >> /\ code' = <<EchoFrom(3)>>
        \/ Misuse /\ "new" \in failed
    BY <1>0, <2>1, <2>2, OnAlways
  <2>4. CASE Misuse /\ "new" \in failed
    BY <2>4, MisuseEnds
  <2>5. CASE /\ Always' /\ Server = buv_init /\ watcher'["server"] = {"on_connection"}
             /\ UNCHANGED <<sock, conns, proc>> /\ stack' = << >> /\ code' = <<EchoFrom(3)>>
    <3>1. InMain(EchoFrom(3))' /\ EchoAt(3)'
      BY <2>1, <2>5 DEF InMain, EchoAt
    <3> QED BY <1>0, <2>5, <3>1, EchoMainAfter
  <2> QED BY <2>3, <2>4, <2>5
<1>3. CASE k = 3
  <2>1. Bind("server")
    BY <1>0, <1>3, Dispatch, EchoCalls DEF NextCall
  <2>2. MayName("server") /\ Server = buv_init
    BY <1>3 DEF EchoAt, MayName, MayOpen, buv_init, NoSocket
  <2>3. /\ \E u \in {"tcp", "bad"} : sc_socket_bind("server", u)
        /\ sock'["server"].handle = "raw" => "bind" \in failed'
        /\ Continue(Rest) /\ UNCHANGED <<watcher, conns, proc>>
    BY <2>1, <2>2 DEF Bind, Attempt
  <2>4. IndInv'
    BY <1>0, <2>3, BindInd, ProgFacts DEF Protocols
  <2>5. /\ stack' = stack /\ cut' = cut
        /\ \/ sock' = sock
           \/ \E h \in {sock["server"].handle, "init", "bound"} :
                sock' = [sock EXCEPT !["server"].uri = "set", !["server"].proto = "tcp",
                                     !["server"].handle = h]
    BY <2>3 DEF sc_socket_bind, buv_bind
  <2>6. stack' = << >> /\ code' = <<EchoFrom(4)>> /\ HandlersInPlace'
    BY <1>3, <2>3, <2>5, MainGoesOn, EchoCalls DEF NextCall
  <2>7. /\ sock'["client"] = NoSocket
        /\ \A t \in Sockets \ {"server", "client"} : sock'[t] = sock[t]
    BY <1>0, <1>3, <2>5, ProgFacts DEF EchoAt
  <2>8. \/ EchoServer' /\ Server'.handle \in {"init", "bound"}
        \/ Server'.handle = "raw" /\ "bind" \in failed'
    <3>1. sock["server"] \in Socket /\ sock \in [Sockets -> Socket]
      BY ProgFacts
    <3>2. /\ sock["server"].obj = "live" /\ sock["server"].handle = "raw"
          /\ sock["server"].msg = "null"
          /\ sock["server"].creq = "idle" /\ sock["server"].wreq = "idle"
      BY <2>2 DEF buv_init, NoSocket
    <3>3. /\ sock'["server"].obj = "live"
          /\ sock'["server"].handle \in {"raw", "init", "bound"}
          /\ sock'["server"].handle # "raw" => sock'["server"].proto = "tcp"
          /\ sock'["server"].msg = "null"
          /\ sock'["server"].creq = "idle" /\ sock'["server"].wreq = "idle"
      BY <1>0, <2>5, <3>1, <3>2 DEF Socket
    <3> QED BY <1>3, <2>3, <3>3 DEF EchoServer, EchoAt, Protocols
  <2>9. Always'
    BY <2>3, <2>4, <2>5, <2>6, <2>7, ProgFacts, AlwaysAfter DEF Always
  <2>10. InMain(EchoFrom(4))' /\ EchoAt(4)'
    BY <2>6, <2>7, <2>8 DEF InMain, EchoAt
  <2> QED BY <1>0, <2>3, <2>9, <2>10, EchoMainAfter
<1>4. CASE k = 4
  <2>1. Listen("server")
    BY <1>0, <1>4, Dispatch, EchoCalls DEF NextCall
  <2>2. CASE Server.handle = "raw"
    <3>1. Misuse /\ "bind" \in failed
      BY <1>4, <2>1, <2>2 DEF Listen, EchoAt
    <3> QED BY <3>1, MisuseEnds
  <2>3. CASE Server.handle # "raw"
    <3>1. EchoServer /\ Server.handle \in {"init", "bound"} /\ Client = NoSocket
      BY <1>4, <2>3 DEF EchoAt
    <3>2. /\ Continue(Rest) /\ UNCHANGED <<watcher, conns, proc>>
          /\ UNCHANGED <<stack, cut>>
          /\ sock' = sock \/ sock' = [sock EXCEPT !["server"].handle = "listening"]
      BY <2>1, <3>1 DEF Listen, sc_socket_listen
    <3>3. IndInv'
      <4>1. CASE Server.handle = "bound"
        BY <1>0, <2>1, <4>1, ListenInd, ProgFacts DEF Listen
      <4>2. CASE Server.handle = "init"
        <5>1. /\ UNCHANGED sock \/ sock' = [sock EXCEPT !["server"].handle = "listening"]
              /\ UNCHANGED <<stack, uris, msgs, due, cut>>
          BY <2>1, <4>2 DEF Listen
        <5> QED
          BY <1>0, <3>1, <4>2, <5>1, ListenUnboundInd, NoChangeInd, ProgFacts
             DEF EchoServer, vars
      <4> QED BY <3>1, <4>1, <4>2
    <3>4. stack' = << >> /\ code' = <<EchoFrom(5)>> /\ HandlersInPlace'
      <4>1. stack' = stack /\ Continue(Rest) /\ InMain(EchoFrom(4))
        BY <1>4, <3>2
      <4>2. Tail(EchoFrom(4)) = EchoFrom(5)
        BY EchoCalls DEF NextCall
      <4> QED BY <4>1, <4>2, MainGoesOn
    <3>5. /\ sock'["client"] = NoSocket
          /\ \A t \in Sockets \ {"server", "client"} : sock'[t] = sock[t]
      BY <1>0, <3>1, <3>2, ProgFacts
    <3>6. EchoServer' /\ Server'.handle \in {"init", "bound", "listening"}
      <4>1. sock["server"] \in Socket /\ sock \in [Sockets -> Socket]
        BY ProgFacts
      <4>2. /\ sock'["server"].obj = sock["server"].obj
            /\ sock'["server"].handle \in {sock["server"].handle, "listening"}
            /\ sock'["server"].proto = sock["server"].proto
            /\ sock'["server"].msg = sock["server"].msg
            /\ sock'["server"].creq = sock["server"].creq
            /\ sock'["server"].wreq = sock["server"].wreq
        BY <1>0, <3>2, <4>1 DEF Socket
      <4> QED BY <3>1, <3>2, <4>2 DEF EchoServer
    <3>7. Always'
      BY <3>2, <3>3, <3>4, <3>5, ProgFacts, AlwaysAfter DEF Always
    <3>8. InMain(EchoFrom(5))' /\ EchoAt(5)'
      BY <3>4, <3>5, <3>6 DEF InMain, EchoAt
    <3> QED BY <1>0, <3>2, <3>7, <3>8, EchoMainAfter
  <2> QED BY <2>2, <2>3
<1>5. CASE k = 5
  <2>1. /\ New("client") /\ Client = NoSocket /\ EchoServer
        /\ Server.handle \in {"init", "bound", "listening"}
    BY <1>0, <1>5, Dispatch, EchoCalls DEF NextCall, EchoAt
  <2>2. Tail(EchoFrom(5)) = EchoFrom(6) /\ InMain(EchoFrom(5))
    BY <1>5, EchoCalls DEF NextCall
  <2>3. /\ Always' /\ Made("client")' /\ UNCHANGED <<conns, proc>>
        /\ stack' = << >> /\ code' = <<EchoFrom(6)>>
        /\ \A t \in Sockets \ {"client"} : sock'[t] = sock[t] /\ watcher'[t] = watcher[t]
    BY <1>0, <2>1, <2>2, NewAlways
  <2>4. Server' = Server /\ watcher'["server"] = watcher["server"]
    BY <1>0, <2>3, Names
  <2>5. InMain(EchoFrom(6))' /\ EchoAt(6)'
    BY <2>1, <2>3, <2>4 DEF InMain, EchoAt, EchoServer
  <2> QED BY <1>0, <2>3, <2>5, EchoMainAfter
<1>6. CASE k = 6
  <2>1. /\ On("client", "on_recv") /\ Made("client") /\ EchoServer
        /\ Server.handle \in {"init", "bound", "listening"} /\ "on_recv" \in Callbacks
    BY <1>0, <1>6, Dispatch, EchoCalls DEF NextCall, EchoAt, Callbacks
  <2>2. Tail(EchoFrom(6)) = EchoFrom(7) /\ InMain(EchoFrom(6))
    BY <1>6, EchoCalls DEF NextCall
  <2>3. \/ /\ Always' /\ Client = buv_init /\ watcher'["client"] = {"on_recv"}
           /\ UNCHANGED <<sock, conns, proc>> /\ stack' = << >> /\ code' = <<EchoFrom(7)>>
           /\ watcher'["server"] = watcher["server"]
        \/ Misuse /\ "new" \in failed
    BY <1>0, <2>1, <2>2, Names, OnAlways
  <2>4. CASE Misuse /\ "new" \in failed
    BY <2>4, MisuseEnds
  <2>5. CASE /\ Always' /\ Client = buv_init /\ watcher'["client"] = {"on_recv"}
             /\ UNCHANGED <<sock, conns, proc>> /\ stack' = << >> /\ code' = <<EchoFrom(7)>>
             /\ watcher'["server"] = watcher["server"]
    <3>1. InMain(EchoFrom(7))' /\ EchoAt(7)'
      BY <2>1, <2>5
         DEF InMain, EchoAt, EchoServer, EchoRuns, Settled, buv_init, NoSocket
    <3> QED BY <1>0, <2>5, <3>1, EchoMainAfter
  <2> QED BY <2>3, <2>4, <2>5
<1> QED BY <1>1, <1>2, <1>3, <1>4, <1>5, <1>6

\* main, after uv_run.
LEMMA EchoEnds ==
  ASSUME Always, ProgNext, program = "echo_server",
         NEW k \in {8, 9, 10}, InMain(EchoFrom(k)), EchoAt(k)
  PROVE  ProgInv'
<1> USE DEF Server, Client
<1>0. /\ code = <<EchoFrom(k)>> /\ stack = << >>
      /\ Last(code) = EchoFrom(k) /\ proc = "running" /\ program' = program
      /\ "client" \in Sockets /\ "server" \in Sockets
  BY CodeOne, OnlyRunning, Names DEF InMain
<1>1. CASE k = 8
  <2>1. Del("server")
    BY <1>0, <1>1, Dispatch, EchoCalls DEF NextCall
  <2>2. Server.obj = "live" /\ Quiet(Server) /\ Client.obj = "live" /\ Quiet(Client)
    BY <1>1 DEF EchoAt
  <2>3. FreeSocket("server") /\ Continue(Rest) /\ UNCHANGED <<watcher, conns, proc>>
    BY <2>1, <2>2 DEF Del
  <2>4. IndInv'
    BY <1>0, <2>2, <2>3, FreeInd, ProgFacts
  <2>5. sock' = [sock EXCEPT !["server"] = NoSocket] /\ UNCHANGED <<stack, cut>>
    BY <2>3 DEF FreeSocket
  <2>6. stack' = << >> /\ code' = <<EchoFrom(9)>> /\ HandlersInPlace'
    BY <1>1, <2>3, <2>5, MainGoesOn, EchoCalls DEF NextCall
  <2>7. /\ sock'["server"] = NoSocket /\ sock'["client"] = sock["client"]
        /\ \A t \in Sockets \ {"server", "client"} : sock'[t] = sock[t]
    BY <1>0, <2>5, ProgFacts
  <2>8. Always'
    BY <2>3, <2>4, <2>5, <2>6, <2>7, ProgFacts, AlwaysAfter DEF Always
  <2>9. InMain(EchoFrom(9))' /\ EchoAt(9)'
    BY <2>2, <2>6, <2>7 DEF InMain, EchoAt, Quiet
  <2> QED BY <1>0, <2>3, <2>8, <2>9, EchoMainAfter
<1>2. CASE k = 9
  <2>1. Del("client")
    BY <1>0, <1>2, Dispatch, EchoCalls DEF NextCall
  <2>2. Server = NoSocket /\ Client.obj = "live" /\ Quiet(Client)
    BY <1>2 DEF EchoAt
  <2>3. FreeSocket("client") /\ Continue(Rest) /\ UNCHANGED <<watcher, conns, proc>>
    BY <2>1, <2>2 DEF Del
  <2>4. IndInv'
    BY <1>0, <2>2, <2>3, FreeInd, ProgFacts
  <2>5. sock' = [sock EXCEPT !["client"] = NoSocket] /\ UNCHANGED <<stack, cut>>
    BY <2>3 DEF FreeSocket
  <2>6. stack' = << >> /\ code' = <<EchoFrom(10)>> /\ HandlersInPlace'
    BY <1>2, <2>3, <2>5, MainGoesOn, EchoCalls DEF NextCall
  <2>7. /\ sock'["server"] = NoSocket /\ sock'["client"] = NoSocket
        /\ \A t \in Sockets \ {"server", "client"} : sock'[t] = sock[t]
    BY <1>0, <2>2, <2>5, ProgFacts
  <2>8. Always'
    BY <2>3, <2>4, <2>5, <2>6, <2>7, ProgFacts, AlwaysAfter DEF Always
  <2>9. InMain(EchoFrom(10))' /\ EchoAt(10)'
    BY <2>6, <2>7 DEF InMain, EchoAt
  <2> QED BY <1>0, <2>3, <2>8, <2>9, EchoMainAfter
<1>3. CASE k = 10
  <2>1. Last(code) = << >> /\ stack = << >>
    BY <1>0, <1>3, EchoCalls
  <2>2. MainReturns
    BY <2>1, NoCall DEF Done
  <2>3. proc' = "returned" /\ UNCHANGED vars /\ UNCHANGED <<watcher, warned, conns>>
    BY <2>2 DEF MainReturns
  <2>4. IndInv' /\ HandlersInPlace'
    BY <2>3, NoChangeInd, ProgFacts DEF Always, HandlersInPlace
  <2>5. Always'
    BY <2>3, <2>4, ProgFacts, AlwaysAfter DEF vars, Always
  <2>6. \A s \in Sockets : sock[s] = NoSocket
    BY <1>3 DEF Always, EchoAt
  <2> QED BY <2>3, <2>5, <2>6 DEF ProgInv, vars
<1> QED BY <1>1, <1>2, <1>3

\* The handlers' calls, one after the other.
LEMMA EchoHandlers ==
  /\ NextCall(echo_on_connection("ok"), <<"accept", "server", "client">>, << >>)
  /\ NextCall(echo_on_connection("error"), <<"fatal">>, << >>)
  /\ \A end : echo_on_recv("error", end) = echo_on_connection("error")
  /\ echo_on_recv("ok", FALSE) = << >>
  /\ NextCall(echo_on_recv("ok", TRUE), <<"close", "client">>, echo_then)
  /\ NextCall(echo_then, <<"close", "server">>, << >>)
<1>1. NextCall(echo_on_connection("ok"), <<"accept", "server", "client">>, << >>)
  BY DEF NextCall, echo_on_connection
<1>2. NextCall(echo_on_connection("error"), <<"fatal">>, << >>)
  BY DEF NextCall, echo_on_connection
<1>3. \A end : echo_on_recv("error", end) = echo_on_connection("error")
  BY DEF echo_on_recv, echo_on_connection
<1>4. echo_on_recv("ok", FALSE) = << >>
  BY DEF echo_on_recv
<1>5. NextCall(echo_then, <<"close", "server">>, << >>)
  BY DEF NextCall, echo_then
<1>6. NextCall(echo_on_recv("ok", TRUE), <<"close", "client">>, echo_then)
  <2> DEFINE c == <<"close", "client">>
             d == <<"close", "server">>
             t == Tail(<<c, d>>)
  <2>1. echo_on_recv("ok", TRUE) = <<c, d>>
    BY DEF echo_on_recv
  <2> HIDE DEF c, d
  <2>2. t \in Seq({c, d}) /\ Len(t) = 1 /\ t[1] = d
    OBVIOUS
  <2>3. <<c, d>> # << >> /\ Head(<<c, d>>) = c
    OBVIOUS
  <2> HIDE DEF t
  <2>4. t = <<d>>
    BY <2>2, Tuples
  <2> QED BY <2>1, <2>3, <2>4 DEF NextCall, echo_then, c, d, t
<1> QED BY <1>1, <1>2, <1>3, <1>4, <1>5, <1>6

\* They are told apart by their first call.
LEMMA HandlersApart ==
  /\ echo_on_connection("ok") # << >> /\ echo_on_recv("ok", TRUE) # << >>
  /\ echo_then # << >> /\ echo_then # echo_on_recv("ok", TRUE)
  /\ echo_on_connection("error") # echo_on_connection("ok")
  /\ echo_on_connection("error") # echo_on_recv("ok", TRUE)
  /\ echo_on_connection("error") # echo_then
<1>1. /\ <<"accept", "server", "client">>[1] = "accept" /\ <<"fatal">>[1] = "fatal"
      /\ <<"close", "client">>[1] = "close" /\ <<"close", "server">>[1] = "close"
      /\ <<"close", "client">>[2] = "client" /\ <<"close", "server">>[2] = "server"
  OBVIOUS
<1>2. /\ echo_on_connection("ok") # << >> /\ Head(echo_on_connection("ok"))[1] = "accept"
      /\ Head(echo_on_connection("error"))[1] = "fatal"
      /\ echo_on_recv("ok", TRUE) # << >> /\ Head(echo_on_recv("ok", TRUE))[1] = "close"
      /\ Head(echo_on_recv("ok", TRUE))[2] = "client"
      /\ echo_then # << >> /\ Head(echo_then)[1] = "close" /\ Head(echo_then)[2] = "server"
  BY <1>1, EchoHandlers DEF NextCall
<1> QED BY <1>2

\* fatal() ends the program where it is.
LEMMA FatalEnds == ASSUME Always, Fatal PROVE ProgInv'
<1>1. proc' = "fatal" /\ UNCHANGED vars /\ UNCHANGED <<watcher, warned, conns>>
  BY DEF Fatal
<1>2. IndInv' /\ HandlersInPlace'
  BY <1>1, NoChangeInd, ProgFacts DEF Always, HandlersInPlace
<1>3. Always'
  BY <1>1, <1>2, ProgFacts, AlwaysAfter DEF vars, Always
<1> QED BY <1>1, <1>3 DEF ProgInv

\* A callback without calls returns to uv_run.
LEMMA EchoReturns ==
  ASSUME Always, ProgNext, program = "echo_server", EchoRuns,
         NEW cb, InCallback(cb, EchoFrom(7), << >>),
         cb = "on_recv" => stack[1].sock = "client", cb # "on_recv" => Settled
  PROVE  ProgInv'
<1> USE DEF Server, Client
<1>0. /\ proc = "running" /\ program' = program
      /\ "client" \in Sockets /\ "server" \in Sockets
  BY OnlyRunning, Names
<1>1. /\ stack' = << >> /\ code' = <<EchoFrom(7)>> /\ IndInv' /\ HandlersInPlace'
      /\ UNCHANGED <<program, watcher, conns, proc, cut>>
      /\ cb # "on_recv" => sock' = sock
      /\ cb = "on_recv" =>
           /\ sock' = [sock EXCEPT !["client"].msg = "null"] \/ sock' = sock
           /\ sock'["client"].msg # "alloc"
  BY CallbackReturns
<1>2. /\ sock'["server"] = sock["server"] /\ EchoRuns' /\ Settled'
      /\ \A t \in Sockets \ {"server", "client"} : sock'[t] = sock[t]
  <2>1. CASE sock' = sock
    BY <1>1, <2>1 DEF EchoRuns, EchoServer, Settled
  <2>2. CASE cb = "on_recv" /\ sock' = [sock EXCEPT !["client"].msg = "null"]
    <3>1. Client.handle \in {"open", "closing"}
      <4>1. 1 \in DOMAIN stack /\ stack[1].cb = "on_recv" /\ stack[1].sock = "client"
        BY <2>2, ProgFacts DEF InCallback
      <4> QED BY <4>1, ProgFacts DEF IndInv, Frames, Held
    <3>2. conns # 0
      BY <3>1 DEF EchoRuns, buv_init, NoSocket
    <3>3. /\ sock'["client"].obj = sock["client"].obj
          /\ sock'["client"].handle = sock["client"].handle
          /\ sock'["client"].creq = sock["client"].creq
          /\ sock'["client"].wreq = sock["client"].wreq
          /\ sock'["client"].msg # "alloc"
          /\ \A t \in Sockets \ {"client"} : sock'[t] = sock[t]
      BY <1>0, <1>1, <2>2, ProgFacts DEF Socket
    <3> QED BY <1>0, <1>1, <3>2, <3>3 DEF EchoRuns, EchoServer, Settled
  <2> QED BY <1>1, <2>1, <2>2
<1>3. Always'
  BY <1>1, <1>2, ProgFacts, AlwaysAfter DEF Always
<1>4. InMain(EchoFrom(7))' /\ EchoAt(7)'
  BY <1>1, <1>2 DEF InMain, EchoAt
<1> QED BY <1>0, <1>1, <1>3, <1>4, EchoMainAfter

\* on_connection accepts; a second connection can find the socket in use.
LEMMA EchoInConnection ==
  ASSUME Always, ProgNext, program = "echo_server",
         NEW calls \in {<< >>, echo_on_connection("error"), echo_on_connection("ok")},
         EchoConnection(calls)
  PROVE  ProgInv'
<1> USE DEF Server, Client
<1>0. /\ proc = "running" /\ program' = program
      /\ "client" \in Sockets /\ "server" \in Sockets
      /\ InCallback("on_connection", EchoFrom(7), calls) /\ EchoRuns /\ Settled
      /\ Server.handle = "listening" /\ Last(code) = calls
  BY OnlyRunning, Names, CodeTwo DEF EchoConnection, InCallback
<1>1. CASE calls = << >>
  BY <1>0, <1>1, EchoReturns
<1>2. CASE calls = echo_on_connection("error")
  <2>1. Fatal
    BY <1>0, <1>2, EchoHandlers, Dispatch DEF NextCall
  <2> QED BY <2>1, FatalEnds
<1>3. CASE calls = echo_on_connection("ok")
  <2>1. Accept("server", "client")
    BY <1>0, <1>3, EchoHandlers, Dispatch DEF NextCall
  <2>2. Listener("server") /\ conns > 0 /\ (conns = 1 => Client = buv_init)
    BY <1>0, <1>3 DEF Listener, EchoConnection
  <2>3. CASE ~ MayOpen("client")
    <3>1. Misuse
      BY <2>1, <2>3 DEF Accept
    <3>2. conns > 1
      <4>1. Client # buv_init
        BY <2>3 DEF MayOpen, buv_init, NoSocket
      <4> QED BY <2>2, <4>1, ProgFacts
    <3> QED BY <3>1, <3>2, MisuseEnds
  <2>4. CASE MayOpen("client")
    <3>1. /\ buv_accept("server", "client") /\ Continue(Rest)
          /\ UNCHANGED <<watcher, conns, proc>>
      BY <2>1, <2>2, <2>4 DEF Accept
    <3>2. IndInv' /\ cut' = cut
      BY <1>0, <3>1, AcceptInd, ProgFacts DEF buv_accept
    <3>3. \E err \in {"ok", "error"} : stack' = Call("on_accept", "client", err)
      BY <3>1 DEF buv_accept
    <3>4. \/ sock' = sock
          \/ \E h \in {"init", "open"}, r \in {"no", "yes"} :
               sock' = [sock EXCEPT !["client"].proto = sock["server"].proto,
                                    !["client"].handle = h, !["client"].reading = r,
                                    !["server"].taken = "no",
                                    !["client"].peer = IF h = "open" THEN "up" ELSE "down"]
      BY <3>1 DEF buv_accept
    <3>5. /\ Len(stack') = 2 /\ stack'[1].cb = "on_connection" /\ stack'[2].cb = "on_accept"
          /\ code' = <<EchoFrom(7), << >>, << >> >> /\ HandlersInPlace'
      <4>1. Rest = <<EchoFrom(7), << >> >> /\ Len(stack) = 1 /\ stack[1].cb = "on_connection"
        BY <1>0, <1>3, CodeTwo, EchoHandlers DEF InCallback, NextCall
      <4>2. "on_accept" \in watcher["client"] <=> "on_accept" \in Set
        BY <1>0 DEF EchoRuns, Set
      <4>3. /\ HandlersInPlace' /\ Len(stack') = Len(stack) + 1
            /\ stack'[Len(stack) + 1].cb = "on_accept"
            /\ \A i \in 1 .. Len(stack) : stack'[i] = stack[i]
            /\ code' = Append(Rest, << >>)
        BY <3>1, <3>3, <4>2, Enter DEF Set
      <4>4. code' = <<EchoFrom(7), << >>, << >> >>
        BY <4>1, <4>3, Longer
      <4>5. stack'[1] = stack[1] /\ Len(stack') = 2 /\ stack'[2].cb = "on_accept"
        BY <4>1, <4>3
      <4> QED BY <4>1, <4>3, <4>4, <4>5
    <3>6. /\ sock'["client"].obj = sock["client"].obj
          /\ sock'["client"].handle \in {sock["client"].handle, "init", "open"}
          /\ sock'["client"].creq = sock["client"].creq
          /\ sock'["client"].wreq = sock["client"].wreq
          /\ sock'["client"].msg = sock["client"].msg
      BY <1>0, <3>4, ProgFacts DEF Socket
    <3>7. /\ sock'["server"].obj = sock["server"].obj
          /\ sock'["server"].handle = sock["server"].handle
          /\ sock'["server"].proto = sock["server"].proto
          /\ sock'["server"].creq = sock["server"].creq
          /\ sock'["server"].wreq = sock["server"].wreq
          /\ sock'["server"].msg = sock["server"].msg
      BY <1>0, <3>4, ProgFacts DEF Socket
    <3>8. \A t \in Sockets \ {"server", "client"} : sock'[t] = sock[t]
      BY <1>0, <3>4, ProgFacts
    <3>9. EchoRuns' /\ Server'.handle = "listening"
      <4>1. conns' # 0
        BY <2>2, <3>1
      <4> QED BY <1>0, <3>1, <3>6, <3>7, <4>1 DEF EchoRuns, EchoServer
    <3>10. Settled'
      <4>1. Client.reading = "no"
        BY <2>4, ProgFacts DEF MayOpen, Good
      <4> QED BY <1>0, <3>6, <4>1 DEF Settled
    <3>11. Always'
      BY <3>1, <3>2, <3>5, <3>8, ProgFacts, AlwaysAfter DEF Always
    <3>12. EchoAccept'
      BY <3>5, <3>9, <3>10 DEF EchoAccept
    <3>13. Echo'
      BY <1>0, <3>12 DEF Echo
    <3> QED BY <1>0, <3>1, <3>11, <3>13 DEF ProgInv
  <2> QED BY <2>3, <2>4
<1> QED BY <1>1, <1>2, <1>3

\* on_accept is the noop, called from inside on_connection.
LEMMA EchoInAccept ==
  ASSUME Always, ProgNext, program = "echo_server", EchoAccept
  PROVE  ProgInv'
<1> USE DEF Server, Client
<1>0. /\ proc = "running" /\ program' = program
      /\ Len(stack) = 2 /\ stack[1].cb = "on_connection" /\ stack[2].cb = "on_accept"
      /\ code = <<EchoFrom(7), << >>, << >> >> /\ stack \in Seq(Frame)
  BY OnlyRunning, ProgFacts DEF EchoAccept
<1>1. Last(code) = << >> /\ Front(code) = <<EchoFrom(7), << >> >> /\ code # << << >> >>
  <2>1. Len(<< << >> >>) = 1 /\ Len(<<EchoFrom(7), << >>, << >> >>) = 3
    OBVIOUS
  <2>2. Last(code) = << >> /\ Front(code) = <<EchoFrom(7), << >> >>
    BY <1>0, ShorterInside
  <2> QED BY <1>0, <2>1, <2>2
<1>2. Done
  BY <1>1, NoCall DEF MainReturns
<1>3. /\ Return /\ code' = <<EchoFrom(7), << >> >>
      /\ UNCHANGED <<watcher, warned, conns, proc>>
  BY <1>1, <1>2 DEF Done
<1>4. Last(stack) = stack[2] /\ Front(stack) = <<stack[1]>>
  <2> DEFINE f == stack[1]
             g == stack[2]
  <2>1. stack = <<f, g>>
    BY <1>0, Tuples
  <2>2. \A x, y : Last(<<x, y>>) = y /\ Front(<<x, y>>) = <<x>>
    BY Shorter
  <2> HIDE DEF f, g
  <2>3. Last(stack) = g /\ Front(stack) = <<f>>
    BY <2>1, <2>2
  <2> QED BY <2>3 DEF f, g
<1>5. sock' = sock /\ stack' = <<stack[1]>> /\ cut' = cut
  BY <1>0, <1>3, <1>4 DEF Return
<1>6. Len(stack') = 1 /\ stack'[1].cb = "on_connection"
  BY <1>0, <1>5
<1>7. IndInv' /\ HandlersInPlace'
  BY <1>3, ReturnInd, ProgFacts DEF Always, HandlersInPlace
<1>8. Always'
  BY <1>3, <1>5, <1>7, ProgFacts, AlwaysAfter DEF Always
<1>9. EchoConnection(<< >>)'
  BY <1>3, <1>5, <1>6, HandlersApart
     DEF EchoAccept, EchoConnection, InCallback, EchoRuns, EchoServer, Settled
<1>10. Echo'
  BY <1>0, <1>9 DEF Echo
<1> QED BY <1>0, <1>3, <1>8, <1>10 DEF ProgInv

\* on_recv closes both sockets at the end of the stream.
LEMMA EchoInReceive ==
  ASSUME Always, ProgNext, program = "echo_server",
         NEW calls \in {<< >>, echo_on_recv("error", TRUE), echo_on_recv("ok", TRUE), echo_then},
         EchoReceive(calls)
  PROVE  ProgInv'
<1> USE DEF Server, Client
<1>0. /\ proc = "running" /\ program' = program
      /\ "client" \in Sockets /\ "server" \in Sockets
      /\ InCallback("on_recv", EchoFrom(7), calls) /\ stack[1].sock = "client" /\ EchoRuns
      /\ Last(code) = calls
  BY OnlyRunning, Names, CodeTwo DEF EchoReceive, InCallback
<1>1. CASE calls = << >>
  BY <1>0, <1>1, EchoReturns
<1>2. CASE calls = echo_on_recv("error", TRUE)
  <2>1. Fatal
    BY <1>0, <1>2, EchoHandlers, Dispatch DEF NextCall
  <2> QED BY <2>1, FatalEnds
<1>3. ASSUME NEW s \in {"server", "client"}, NEW rest,
             NextCall(calls, <<"close", s>>, rest), MayClose(s), s = "server" => Server.msg = "null"
      PROVE  /\ UNCHANGED <<stack, watcher, conns, proc>>
             /\ code' = <<EchoFrom(7), rest>> /\ Always'
             /\ sock'[s].handle = "closing" /\ sock'[s].obj = sock[s].obj
             /\ sock'[s].proto = sock[s].proto
             /\ sock'[s].creq = sock[s].creq /\ sock'[s].wreq = sock[s].wreq
             /\ sock'[s].msg = sock[s].msg
             /\ \A t \in Sockets \ {s} : sock'[t] = sock[t]
  <2>1. s \in Sockets /\ Close(s)
    BY <1>0, <1>3, Dispatch DEF NextCall
  <2>2. sc_socket_close(s) /\ Continue(Rest) /\ UNCHANGED <<watcher, conns, proc>>
    BY <1>3, <2>1 DEF Close
  <2>3. /\ sock' = [sock EXCEPT ![s].handle = "closing", ![s].reading = "no",
                                ![s].taken = "no", ![s].uri = "null"]
        /\ stack' = stack /\ cut' = (cut \/ Cuts(s))
    BY <2>2 DEF sc_socket_close
  <2>4. ~ Cuts(s)
    <3>1. 1 \in DOMAIN stack /\ stack[1].cb = "on_recv" /\ stack[1].sock = "client"
      BY <1>0, ProgFacts DEF InCallback
    <3> QED BY <1>3, <3>1 DEF Cuts, Executing
  <2>5. IndInv' /\ ~ cut'
    BY <2>1, <2>2, <2>3, <2>4, CloseInd, ProgFacts
  <2>6. code' = <<EchoFrom(7), rest>> /\ HandlersInPlace'
    BY <1>0, <1>3, <2>2, <2>3, CallbackGoesOn DEF NextCall
  <2>7. /\ sock'[s].handle = "closing" /\ sock'[s].obj = sock[s].obj
        /\ sock'[s].proto = sock[s].proto
        /\ sock'[s].creq = sock[s].creq /\ sock'[s].wreq = sock[s].wreq
        /\ sock'[s].msg = sock[s].msg
        /\ \A t \in Sockets \ {s} : sock'[t] = sock[t]
    BY <2>1, <2>3, ProgFacts DEF Socket
  <2>8. Always'
    BY <1>3, <2>2, <2>5, <2>6, <2>7, ProgFacts, AlwaysAfter DEF Always
  <2> QED BY <2>2, <2>3, <2>6, <2>7, <2>8
<1>4. CASE calls = echo_on_recv("ok", TRUE)
  <2>1. Client.handle = "open" /\ MayClose("client")
    BY <1>0, <1>4 DEF EchoReceive, MayClose, EchoRuns
  <2>2. NextCall(calls, <<"close", "client">>, echo_then)
    BY <1>4, EchoHandlers
  <2>3. /\ UNCHANGED <<stack, watcher, conns, proc>>
        /\ code' = <<EchoFrom(7), echo_then>> /\ Always'
        /\ sock'["client"].handle = "closing" /\ sock'["client"].obj = sock["client"].obj
        /\ sock'["client"].creq = sock["client"].creq
        /\ sock'["client"].wreq = sock["client"].wreq
        /\ \A t \in Sockets \ {"client"} : sock'[t] = sock[t]
    BY <1>3, <2>1, <2>2
  <2>4. sock'["server"] = sock["server"] /\ Server.handle \in {"init", "bound", "listening"}
    BY <1>0, <2>1, <2>3 DEF EchoRuns, EchoServer
  <2>5. EchoRuns'
    <3>1. conns' # 0
      BY <1>0, <2>1, <2>3 DEF EchoRuns, buv_init, NoSocket
    <3> QED BY <1>0, <2>3, <2>4, <3>1 DEF EchoRuns, EchoServer
  <2>6. EchoReceive(echo_then)'
    BY <1>0, <2>3, <2>4, <2>5, HandlersApart DEF EchoReceive, InCallback
  <2>7. Echo'
    BY <1>0, <2>6 DEF Echo
  <2> QED BY <1>0, <2>3, <2>7 DEF ProgInv
<1>5. CASE calls = echo_then
  <2>1. /\ Client.handle = "closing" /\ Server.handle \in {"init", "bound", "listening"}
        /\ MayClose("server") /\ Server.msg = "null"
    BY <1>0, <1>5 DEF EchoReceive, MayClose, EchoRuns, EchoServer
  <2>2. NextCall(calls, <<"close", "server">>, << >>)
    BY <1>5, EchoHandlers
  <2>3. /\ UNCHANGED <<stack, watcher, conns, proc>>
        /\ code' = <<EchoFrom(7), << >> >> /\ Always'
        /\ sock'["server"].handle = "closing" /\ sock'["server"].obj = sock["server"].obj
        /\ sock'["server"].proto = sock["server"].proto
        /\ sock'["server"].creq = sock["server"].creq
        /\ sock'["server"].wreq = sock["server"].wreq
        /\ sock'["server"].msg = sock["server"].msg
        /\ \A t \in Sockets \ {"server"} : sock'[t] = sock[t]
    BY <1>3, <2>1, <2>2
  <2>4. sock'["client"] = sock["client"]
    BY <1>0, <2>3
  <2>5. EchoRuns'
    BY <1>0, <2>1, <2>3, <2>4 DEF EchoRuns, EchoServer
  <2>6. EchoReceive(<< >>)'
    BY <1>0, <2>3, <2>5, HandlersApart DEF EchoReceive, InCallback
  <2>7. Echo'
    BY <1>0, <2>6 DEF Echo
  <2> QED BY <1>0, <2>3, <2>7 DEF ProgInv
<1> QED BY <1>1, <1>2, <1>4, <1>5

\* uv_run, with nothing called back.
LEMMA EchoPoll ==
  ASSUME Always, ProgNext, program = "echo_server",
         InMain(EchoFrom(7)), EchoRuns, Settled
  PROVE  ProgInv'
<1> USE DEF Server, Client
<1>0. /\ code = <<EchoFrom(7)>> /\ stack = << >>
      /\ Last(code) = EchoFrom(7) /\ proc = "running" /\ program' = program
      /\ "client" \in Sockets /\ "server" \in Sockets
  BY CodeOne, OnlyRunning, Names DEF InMain
<1>1. RunEnds \/ \E s \in Sockets : Poll(s)
  BY <1>0, Dispatch, EchoCalls DEF NextCall
<1>2. CASE RunEnds
  <2>1. /\ ~ LoopAlive /\ code' = Rest
        /\ UNCHANGED vars /\ UNCHANGED <<watcher, warned, conns, proc>>
    BY <1>2 DEF RunEnds
  <2>2. code' = <<EchoFrom(8)>> /\ stack' = << >>
    BY <1>0, <2>1, CodeOne, EchoCalls DEF NextCall, vars
  <2>3. Quiet(Server) /\ Server.obj = "live"
    BY <1>0, <2>1 DEF LoopAlive, Quiet, EchoRuns, EchoServer
  <2>4. Quiet(Client) /\ Client.obj = "live"
    BY <1>0, <2>1, ProgFacts DEF LoopAlive, Quiet, EchoRuns, Settled, Socket
  <2>5. IndInv' /\ HandlersInPlace'
    BY <2>1, NoChangeInd, ProgFacts DEF Always, HandlersInPlace
  <2>6. Always'
    BY <2>1, <2>5, ProgFacts, AlwaysAfter DEF vars, Always
  <2>7. InMain(EchoFrom(8))' /\ EchoAt(8)'
    BY <2>1, <2>2, <2>3, <2>4 DEF InMain, EchoAt, Quiet, vars
  <2> QED BY <1>0, <2>1, <2>6, <2>7, EchoMainAfter
<1>3. ASSUME NEW s \in Sockets, Poll(s) PROVE ProgInv'
  <2>1. /\ Loop(s) /\ Continue(code) /\ UNCHANGED <<watcher, proc>>
        /\ conns' = IF sock'[s].taken = "yes" /\ sock[s].taken = "no" THEN conns + 1 ELSE conns
        /\ conns' <= MaxConns
    BY <1>3 DEF Poll
  <2>2. sock[s].handle # "raw"
    BY <2>1 DEF Loop, on_connect_wrap, write_wrap, on_connection_wrap, read_wrap,
                cancel_wrap, close_wrap, PeerDown
  <2>3. s \in {"server", "client"}
    BY <2>2 DEF Always, NoSocket
  <2>4. /\ watcher["server"] = {"on_connection"} /\ watcher["client"] = {"on_recv"}
        /\ sock["server"].handle \in {"init", "bound", "listening", "closing", "closed"}
        /\ sock["client"].handle \in {"raw", "init", "open", "closing", "closed"}
        /\ sock[s].creq = "idle" /\ sock[s].wreq = "idle"
        /\ sock \in [Sockets -> Socket] /\ sock[s] \in Socket
    BY <2>3, ProgFacts DEF EchoRuns, EchoServer
  <2>5. \/ s = "server" /\ on_connection_wrap(s)
        \/ s = "client" /\ (\E what \in {"part", "msg", "end"} : read_wrap(s, what))
        \/ close_wrap(s)
        \/ s = "client" /\ PeerDown(s)
    BY <2>1, <2>3, <2>4
       DEF Loop, on_connect_wrap, write_wrap, cancel_wrap, on_connection_wrap, read_wrap,
           PeerDown
  <2>6. IndInv'
    BY <2>5, OnConnectionWrapInd, ReadWrapInd, CloseWrapInd, PeerDownInd, ProgFacts
  <2>7. CASE s = "server" /\ on_connection_wrap(s)
    <3>1. \A t \in Sockets \ {"server"} : sock'[t] = sock[t]
      BY <1>0, <2>4, <2>7 DEF on_connection_wrap
    <3>2. /\ sock'["server"].obj = sock["server"].obj
          /\ sock'["server"].handle = "listening"
          /\ sock'["server"].proto = sock["server"].proto
          /\ sock'["server"].creq = sock["server"].creq
          /\ sock'["server"].wreq = sock["server"].wreq
          /\ sock'["server"].msg = sock["server"].msg
          /\ sock["server"].taken = "no" /\ cut' = cut
      BY <1>0, <2>4, <2>7 DEF on_connection_wrap, Socket
    <3>3. conns' \in Nat /\ (conns' = 0 => conns = 0)
      BY <2>1, ProgFacts
    <3>4. EchoRuns' /\ Settled'
      BY <1>0, <2>1, <3>1, <3>2, <3>3 DEF EchoRuns, EchoServer, Settled
    <3>5. PICK err \in {"ok", "error"} :
            /\ stack' = Call("on_connection", "server", err)
            /\ err = "ok" => sock'["server"].taken = "yes"
      <4>1. CASE /\ sock' = [sock EXCEPT !["server"].taken = "yes"]
                 /\ stack' = Call("on_connection", "server", "ok")
        <5>1. sock'["server"].taken = "yes"
          BY <1>0, <2>4, <2>7, <4>1 DEF Socket
        <5> QED BY <4>1, <5>1
      <4>2. CASE stack' = Call("on_connection", "server", "error")
        BY <4>2
      <4> QED BY <2>7, <4>1, <4>2 DEF on_connection_wrap
    <3>6. /\ HandlersInPlace' /\ Len(stack') = 1 /\ stack'[1].cb = "on_connection"
          /\ code' = <<EchoFrom(7), echo_on_connection(err)>>
      BY <2>1, <2>4, <3>5, LoopCalls DEF Set
    <3>7. err = "ok" => conns' > 0 /\ (conns' = 1 => sock'["client"] = buv_init)
      <4>1. err = "ok" => conns' = conns + 1
        BY <2>1, <2>7, <3>2, <3>5
      <4> QED BY <1>0, <3>1, <4>1, ProgFacts DEF EchoRuns
    <3>8. Always'
      BY <1>0, <2>1, <2>6, <3>1, <3>2, <3>3, <3>6, ProgFacts, AlwaysAfter, ConnsAssumption
    <3>9. EchoConnection(echo_on_connection(err))'
      BY <3>2, <3>4, <3>6, <3>7, HandlersApart DEF EchoConnection, InCallback
    <3>10. Echo'
      BY <1>0, <3>5, <3>9 DEF Echo
    <3> QED BY <1>0, <2>1, <3>8, <3>10 DEF ProgInv
  <2>8. CASE s = "client" /\ \E what \in {"part", "msg", "end"} : read_wrap(s, what)
    <3>1. PICK what \in {"part", "msg", "end"} : read_wrap("client", what)
      BY <2>8
    <3>2. sock' = [sock EXCEPT !["client"].msg = "alloc",
                               !["client"].reading = IF what = "end" THEN "ended"
                                                     ELSE sock["client"].reading]
      BY <3>1 DEF read_wrap
    <3>3. sock["client"].handle = "open" /\ sock["client"].reading = "yes" /\ cut' = cut
      BY <3>1 DEF read_wrap
    <3>4. /\ sock'["client"].obj = sock["client"].obj
          /\ sock'["client"].handle = "open"
          /\ sock'["client"].creq = sock["client"].creq
          /\ sock'["client"].wreq = sock["client"].wreq
          /\ sock'["client"].taken = sock["client"].taken
          /\ sock'["client"].reading = IF what = "end" THEN "ended" ELSE "yes"
      BY <1>0, <2>4, <3>2, <3>3 DEF Socket
    <3>5. \A t \in Sockets \ {"client"} : sock'[t] = sock[t]
      BY <1>0, <2>4, <3>2
    <3>6. conns' = conns /\ conns # 0
      BY <2>1, <2>8, <3>3, <3>4 DEF EchoRuns, buv_init, NoSocket
    <3>7. EchoRuns'
      BY <1>0, <2>1, <3>3, <3>4, <3>5, <3>6 DEF EchoRuns, EchoServer
    <3>8. CASE stack' = stack
      <4>1. what = "part" \/ stack' # stack
        <5>1. \A err : Call("on_recv", "client", err) # stack
          BY <1>0 DEF Call
        <5> QED BY <3>1, <5>1 DEF read_wrap
      <4>2. HandlersInPlace' /\ code' = code /\ stack' = << >>
        BY <1>0, <2>1, <3>8, Stay
      <4>3. Always'
        BY <1>0, <2>1, <2>6, <3>3, <3>5, <3>6, <4>2, ProgFacts, AlwaysAfter DEF Always
      <4>4. InMain(EchoFrom(7))' /\ EchoAt(7)'
        BY <1>0, <3>4, <3>7, <3>8, <4>1, <4>2 DEF InMain, EchoAt, Settled
      <4> QED BY <1>0, <2>1, <4>3, <4>4, EchoMainAfter
    <3>9. CASE \E err \in {"ok", "error"} : stack' = Call("on_recv", "client", err)
      <4>1. PICK err \in {"ok", "error"} : stack' = Call("on_recv", "client", err)
        BY <3>9
      <4>2. /\ HandlersInPlace' /\ Len(stack') = 1 /\ stack'[1].cb = "on_recv"
            /\ stack'[1].sock = "client"
            /\ code' = <<EchoFrom(7), echo_on_recv(err, sock'["client"].reading = "ended")>>
        BY <2>1, <2>4, <4>1, LoopCalls DEF Set
      <4>3. Always'
        BY <1>0, <2>1, <2>6, <3>3, <3>5, <3>6, <4>2, ProgFacts, AlwaysAfter DEF Always
      <4>4. PICK calls \in {<< >>, echo_on_recv("error", TRUE), echo_on_recv("ok", TRUE)} :
              code' = <<EchoFrom(7), calls>>
        <5>1. CASE err = "error"
          BY <4>2, <5>1, EchoHandlers
        <5>2. CASE err = "ok" /\ sock'["client"].reading = "ended"
          <6>1. (sock'["client"].reading = "ended") = TRUE
            BY <5>2
          <6> QED BY <4>2, <5>2, <6>1
        <5>3. CASE err = "ok" /\ sock'["client"].reading # "ended"
          <6>1. (sock'["client"].reading = "ended") = FALSE
            BY <5>3
          <6> QED BY <4>2, <5>3, <6>1, EchoHandlers
        <5> QED BY <5>1, <5>2, <5>3
      <4>5. EchoReceive(calls)'
        BY <3>4, <3>7, <4>2, <4>4, HandlersApart, EchoHandlers DEF EchoReceive, InCallback
      <4>6. Echo'
        BY <1>0, <4>5 DEF Echo
      <4> QED BY <1>0, <2>1, <4>3, <4>6 DEF ProgInv
    <3> QED BY <3>1, <3>8, <3>9 DEF read_wrap
  <2>9. CASE close_wrap(s)
    <3>1. /\ sock' = [sock EXCEPT ![s].handle = "closed", ![s].peer = "down"]
          /\ stack' = Call("on_close", s, "ok") /\ sock[s].handle = "closing" /\ cut' = cut
      BY <2>9 DEF close_wrap
    <3>2. /\ sock'[s].obj = sock[s].obj /\ sock'[s].handle = "closed"
          /\ sock'[s].proto = sock[s].proto
          /\ sock'[s].creq = sock[s].creq /\ sock'[s].wreq = sock[s].wreq
          /\ sock'[s].msg = sock[s].msg /\ sock'[s].reading = sock[s].reading
          /\ sock'[s].taken = sock[s].taken
          /\ \A t \in Sockets \ {s} : sock'[t] = sock[t]
      BY <2>4, <3>1 DEF Socket
    <3>3. conns' = conns
      BY <2>1, <3>2
    <3>4. EchoRuns' /\ Settled'
      <4>1. CASE s = "server"
        <5>1. /\ sock'["server"].obj = sock["server"].obj
              /\ sock'["server"].handle = "closed" /\ sock["server"].handle = "closing"
              /\ sock'["server"].proto = sock["server"].proto
              /\ sock'["server"].creq = sock["server"].creq
              /\ sock'["server"].wreq = sock["server"].wreq
              /\ sock'["server"].msg = sock["server"].msg
              /\ sock'["client"] = sock["client"]
          BY <1>0, <3>1, <3>2, <4>1
        <5> QED BY <2>1, <3>3, <5>1 DEF EchoRuns, EchoServer, Settled
      <4>2. CASE s = "client"
        <5>1. conns # 0
          BY <3>1, <4>2 DEF EchoRuns, buv_init, NoSocket
        <5>2. /\ sock'["client"].obj = sock["client"].obj
              /\ sock'["client"].handle = "closed"
              /\ sock'["client"].creq = sock["client"].creq
              /\ sock'["client"].wreq = sock["client"].wreq
              /\ sock'["client"].msg = sock["client"].msg
              /\ sock'["client"].reading = sock["client"].reading
              /\ sock'["server"] = sock["server"]
          BY <1>0, <3>2, <4>2
        <5> QED BY <2>1, <3>3, <5>1, <5>2 DEF EchoRuns, EchoServer, Settled
      <4> QED BY <2>3, <4>1, <4>2
    <3>5. /\ HandlersInPlace' /\ Len(stack') = 1 /\ stack'[1].cb = "on_close"
          /\ code' = <<EchoFrom(7), << >> >>
      BY <2>1, <2>3, <2>4, <3>1, LoopCalls DEF Set
    <3>6. Always'
      BY <1>0, <2>1, <2>3, <2>6, <3>1, <3>2, <3>3, <3>5, ProgFacts, AlwaysAfter DEF Always
    <3>7. EchoClose'
      BY <3>4, <3>5 DEF EchoClose, InCallback
    <3>8. Echo'
      BY <1>0, <3>7 DEF Echo
    <3> QED BY <1>0, <2>1, <3>6, <3>8 DEF ProgInv
  <2>10. CASE s = "client" /\ PeerDown(s)
    <3>1. /\ sock' = [sock EXCEPT !["client"].peer = "down"] /\ UNCHANGED <<stack, cut>>
          /\ sock["client"].handle = "open"
      BY <2>10 DEF PeerDown
    <3>2. /\ sock'["client"].obj = sock["client"].obj
          /\ sock'["client"].handle = sock["client"].handle
          /\ sock'["client"].creq = sock["client"].creq
          /\ sock'["client"].wreq = sock["client"].wreq
          /\ sock'["client"].msg = sock["client"].msg
          /\ sock'["client"].reading = sock["client"].reading
          /\ sock'["client"].taken = sock["client"].taken
          /\ \A t \in Sockets \ {"client"} : sock'[t] = sock[t]
      BY <1>0, <2>4, <3>1 DEF Socket
    <3>3. conns' = conns /\ conns # 0
      BY <2>1, <2>10, <3>1, <3>2 DEF EchoRuns, buv_init, NoSocket
    <3>4. EchoRuns' /\ Settled'
      BY <1>0, <2>1, <3>2, <3>3 DEF EchoRuns, EchoServer, Settled
    <3>5. HandlersInPlace' /\ code' = code /\ stack' = << >>
      BY <1>0, <2>1, <3>1, Stay
    <3>6. Always'
      BY <1>0, <2>1, <2>6, <3>1, <3>2, <3>3, <3>5, ProgFacts, AlwaysAfter DEF Always
    <3>7. InMain(EchoFrom(7))' /\ EchoAt(7)'
      BY <1>0, <3>4, <3>5 DEF InMain, EchoAt
    <3> QED BY <1>0, <2>1, <3>6, <3>7, EchoMainAfter
  <2> QED BY <2>5, <2>7, <2>8, <2>9, <2>10
<1> QED BY <1>1, <1>2, <1>3

-----------------------------------------------------------------------------

\* The programs start in main with no sockets.
LEMMA InitProg == ProgInit => ProgInv
<1> SUFFICES ASSUME ProgInit PROVE ProgInv
  OBVIOUS
<1> USE DEF Server, Client
<1>1. IndInv /\ ~ cut /\ stack = << >> /\ \A s \in Sockets : sock[s] = NoSocket
  BY InitInd DEF ProgInit, Init
<1>2. Always
  BY <1>1, ConnsAssumption DEF Always, ProgInit, HandlersInPlace
<1>3. CASE program = "send_hello"
  <2>1. InMain(HelloFrom(1)) /\ HelloAt(1)
    BY <1>1, <1>3, HelloCalls, Names DEF ProgInit, main, InMain, HelloAt
  <2>2. Hello
    BY <1>1, <1>3, <2>1, Names DEF Hello
  <2> QED BY <1>2, <2>2 DEF ProgInv, ProgInit
<1>4. CASE program = "echo_server"
  <2>1. InMain(EchoFrom(1)) /\ EchoAt(1)
    BY <1>1, <1>4, EchoCalls, Names DEF ProgInit, main, InMain, EchoAt
  <2>2. \E k \in 1 .. 10 : InMain(EchoFrom(k)) /\ EchoAt(k)
    BY <2>1
  <2>3. Echo
    BY <1>4, <2>2, Zenon DEF Echo
  <2> QED BY <1>2, <2>3 DEF ProgInv, ProgInit
<1> QED BY <1>3, <1>4 DEF ProgInit

\* Every step of a program, from each of its places.
LEMMA NextProg == ProgInv /\ [ProgNext]_allVars => ProgInv'
<1> SUFFICES ASSUME ProgInv, [ProgNext]_allVars PROVE ProgInv'
  OBVIOUS
<1>1. CASE ProgNext
  <2>1. Always /\ proc = "running"
    BY <1>1, OnlyRunning DEF ProgInv
  <2>2. ASSUME conns = 0, Hello PROVE ProgInv'
    <3>1. program = "send_hello" /\ Server = NoSocket
      BY <2>2 DEF Hello
    <3>2. ASSUME NEW k \in 1 .. 6, InMain(HelloFrom(k)), HelloAt(k) PROVE ProgInv'
      <4>1. CASE k = 4
        BY <1>1, <2>1, <2>2, <3>1, <3>2, <4>1, HelloPoll DEF HelloAt
      <4>2. CASE k # 4
        <5>1. k \in {1, 2, 3, 5, 6}
          BY <4>2
        <5> QED BY <1>1, <2>1, <2>2, <3>1, <3>2, <5>1, HelloMain
      <4> QED BY <4>1, <4>2
    <3>3. CASE HelloSend \/ \E calls \in {<< >>, hello_on_connect} : HelloConnect(calls)
      BY <1>1, <2>1, <2>2, <3>1, <3>3, HelloCallbacks
    <3> QED BY <2>2, <3>2, <3>3 DEF Hello
  <2>3. ASSUME Echo PROVE ProgInv'
    <3>1. program = "echo_server"
      BY <2>3 DEF Echo
    <3>2. ASSUME NEW k \in 1 .. 10, InMain(EchoFrom(k)), EchoAt(k) PROVE ProgInv'
      <4>1. CASE k = 7
        BY <1>1, <2>1, <3>1, <3>2, <4>1, EchoPoll DEF EchoAt
      <4>2. CASE k \in {1, 2, 3, 4, 5, 6}
        BY <1>1, <2>1, <3>1, <3>2, <4>2, EchoStarts
      <4>3. CASE k \in {8, 9, 10}
        BY <1>1, <2>1, <3>1, <3>2, <4>3, EchoEnds
      <4> QED BY <4>1, <4>2, <4>3
    <3>3. ASSUME NEW calls \in {<< >>, echo_on_connection("error"), echo_on_connection("ok")},
                 EchoConnection(calls)
          PROVE  ProgInv'
      BY <1>1, <2>1, <3>1, <3>3, EchoInConnection
    <3>4. CASE EchoAccept
      BY <1>1, <2>1, <3>1, <3>4, EchoInAccept
    <3>5. ASSUME NEW calls \in {<< >>, echo_on_recv("error", TRUE),
                                echo_on_recv("ok", TRUE), echo_then},
                 EchoReceive(calls)
          PROVE  ProgInv'
      BY <1>1, <2>1, <3>1, <3>5, EchoInReceive
    <3>6. CASE EchoClose
      BY <1>1, <2>1, <3>1, <3>6, EchoReturns DEF EchoClose
    <3> QED BY <2>3, <3>2, <3>3, <3>4, <3>5, <3>6 DEF Echo
  <2> QED BY <2>1, <2>2, <2>3 DEF ProgInv
<1>2. CASE UNCHANGED allVars
  <2> USE <1>2 DEF allVars
  <2>1. IndInv'
    BY NoChangeInd DEF vars, ProgInv, Always
  <2>2. Always'
    BY <2>1 DEF ProgInv, Always, HandlersInPlace
  <2>3. Hello => Hello'
    BY DEF Hello, InMain, InCallback, HelloAt, HelloRuns, HelloConnect, HelloSend, Quiet,
           Made, Server, Client
  <2>4. Echo => Echo'
    <3>1. \A k : InMain(EchoFrom(k)) /\ EchoAt(k) => InMain(EchoFrom(k))' /\ EchoAt(k)'
      BY DEF InMain, EchoAt, Made, Quiet, EchoServer, EchoRuns, Settled, Server, Client
    <3>2. /\ \A calls : EchoConnection(calls) => EchoConnection(calls)'
          /\ \A calls : EchoReceive(calls) => EchoReceive(calls)'
      BY DEF InCallback, EchoServer, EchoRuns, Settled, EchoConnection, EchoReceive,
             Server, Client
    <3>3. program' = program
      OBVIOUS
    <3> SUFFICES ASSUME Echo PROVE Echo'
      OBVIOUS
    <3>4. ASSUME NEW k \in 1 .. 10, InMain(EchoFrom(k)), EchoAt(k) PROVE Echo'
      <4>1. InMain(EchoFrom(k))' /\ EchoAt(k)'
        BY <3>1, <3>4
      <4> QED BY <3>3, <4>1 DEF Echo
    <3>5. ASSUME NEW calls \in {<< >>, echo_on_connection("error"), echo_on_connection("ok")},
                 EchoConnection(calls)
          PROVE  Echo'
      <4>1. EchoConnection(calls)'
        BY <3>2, <3>5
      <4> QED BY <3>3, <4>1 DEF Echo
    <3>6. ASSUME NEW calls \in {<< >>, echo_on_recv("error", TRUE),
                                echo_on_recv("ok", TRUE), echo_then},
                 EchoReceive(calls)
          PROVE  Echo'
      <4>1. EchoReceive(calls)'
        BY <3>2, <3>6
      <4> QED BY <3>3, <4>1 DEF Echo
    <3>7. CASE EchoAccept
      <4>1. EchoAccept'
        BY <3>7 DEF EchoAccept, EchoServer, EchoRuns, Settled, Server, Client
      <4> QED BY <3>3, <4>1 DEF Echo
    <3>8. CASE EchoClose
      <4>1. EchoClose'
        BY <3>8 DEF EchoClose, InCallback, EchoServer, EchoRuns, Settled, Server, Client
      <4> QED BY <3>3, <4>1 DEF Echo
    <3> QED BY <3>4, <3>5, <3>6, <3>7, <3>8 DEF Echo
  <2> QED BY <2>2, <2>3, <2>4 DEF ProgInv
<1> QED BY <1>1, <1>2

\* Where the programs are and what their sockets look like there, whatever
\* fails, for any number of peers and messages; a call that must not be made
\* comes only after a second peer, or after sc_socket_new gave null or
\* sc_socket_bind left the handle uninitialised.
THEOREM ProgramsInvariance == ProgSpec => []ProgInv
BY InitProg, NextProg, PTL DEF ProgSpec

\* When main of src/test/echo_server.c or src/test/send_hello.c returns nothing
\* is left on the heap and no callback is owed, on every path through errors
\* and ends and for any number of peers.
THEOREM ProgramsNothingLeft == ProgSpec => []NothingLeft
<1>1. ProgInv => NothingLeft
  <2> SUFFICES ASSUME ProgInv, proc = "returned"
               PROVE  /\ uris = 0 /\ msgs = 0
                      /\ \A s \in Sockets :
                           sock[s].obj = "none" /\ \A p \in Promised : due[s][p] = 0
    BY DEF NothingLeft
  <2>1. IndInv /\ ~ cut /\ \A s \in Sockets : sock[s] = NoSocket
    BY DEF ProgInv, Always
  <2>2. WithUri = {} /\ WithMsg = {}
    BY <2>1 DEF WithUri, WithMsg, NoSocket
  <2>3. uris = 0 /\ msgs = 0
    BY <2>1, <2>2, FS_EmptySet DEF IndInv, Heap
  <2>4. ASSUME NEW s \in Sockets
        PROVE  sock[s].obj = "none" /\ \A p \in Promised : due[s][p] = 0
    BY <2>1, Facts DEF Good, NoSocket, Promised
  <2> QED BY <2>3, <2>4
<1> QED BY <1>1, ProgramsInvariance, PTL

\* With one peer, as in the test of src/test/echo_server.c, a call of the
\* programs is outside what libuv demands only after sc_socket_new gave null or
\* sc_socket_bind left the handle uninitialised, which they ignore; and the
\* noops of src/src/watcher.c are called only for callbacks the programs do not
\* need, for any number of messages and every error of the library.
THEOREM ProgramsRightUse ==
  ASSUME MaxConns <= 1
  PROVE  ProgSpec => []RightUse
<1>1. ProgInv => RightUse
  BY ProgFacts, ConnsAssumption DEF ProgInv, Always, RightUse, MisuseOnlyUnmade
<1> QED BY <1>1, ProgramsInvariance, PTL
=============================================================================
