------------------------------- MODULE Programs -------------------------------
(***************************************************************************)
(* The two small programs of the test suite, src/test/echo_server.c and    *)
(* src/test/send_hello.c, on top of the library as Sockets describes it,   *)
(* with the watcher: which callbacks the program has set and which are the *)
(* noop of src/src/watcher.c.                                              *)
(*                                                                         *)
(* A program is a sequence of calls per function: main, and one handler    *)
(* per callback.  code holds the calls that main and the callbacks being   *)
(* executed have still to make, parallel to the stack of Sockets.  Unlike  *)
(* the arbitrary application of Sockets a program checks nothing before a  *)
(* call; a call outside the conditions of Sockets, or with the null        *)
(* pointer for a socket, makes proc "misuse".                              *)
(*                                                                         *)
(* Both programs ignore the results of sc_socket_new, bind, listen and     *)
(* connect.  Their URIs are right, so that sc_uri_new refuses one only for *)
(* want of memory.                                                         *)
(***************************************************************************)
EXTENDS Sockets

CONSTANT MaxConns   \* bound: connections made to the server

ASSUME NamesAssumption == {"server", "client"} \subseteq Sockets
ASSUME ConnsAssumption == MaxConns \in Nat

VARIABLES
  program,  \* "echo_server" or "send_hello"
  code,     \* calls to make: code[1] by main, code[i + 1] by stack[i]
  watcher,  \* callbacks of each socket that are not the noop
  warned,   \* history: callbacks whose noop was called
  conns,    \* connections made so far
  failed,   \* history: calls that gave no socket, or left its handle as it was
  proc      \* "running", "returned", "fatal" or "misuse"

allVars == <<sock, stack, uris, msgs, due, cut,
             program, code, watcher, warned, conns, failed, proc>>

Calls ==
  {<<"uv_run">>, <<"fatal">>}
    \cup ({"new", "bind", "listen", "connect", "send", "close", "del"} \X Sockets)
    \cup ({"on"} \X Sockets \X Callbacks)
    \cup ({"accept"} \X Sockets \X Sockets)

ProgTypeOK ==
  /\ TypeOK
  /\ program \in {"echo_server", "send_hello"}
  /\ code \in Seq(Seq(Calls)) /\ Len(code) = Len(stack) + 1
  /\ watcher \in [Sockets -> SUBSET Callbacks]
  /\ warned \subseteq Callbacks \X Sockets
  /\ conns \in 0 .. MaxConns
  /\ failed \subseteq {"new", "bind", "connect"}
  /\ proc \in {"running", "returned", "fatal", "misuse"}

-----------------------------------------------------------------------------
(* The programs.                                                           *)

echo_main ==
  << <<"new", "server">>, <<"on", "server", "on_connection">>,
     <<"bind", "server">>, <<"listen", "server">>,
     <<"new", "client">>, <<"on", "client", "on_recv">>,
     <<"uv_run">>,
     <<"del", "server">>, <<"del", "client">> >>

\* Mutant: the connection is accepted twice.
Mutant_echo_accepts_twice(err) ==
  IF err # "ok" THEN << <<"fatal">> >>
  ELSE << <<"accept", "server", "client">>, <<"accept", "server", "client">> >>

echo_on_connection(err) ==
  IF err # "ok" THEN << <<"fatal">> >> ELSE << <<"accept", "server", "client">> >>

\* Mutant: only the connection is closed.
Mutant_echo_keeps_listening(err, end) ==
  CASE err # "ok" -> << <<"fatal">> >>
    [] err = "ok" /\ end -> << <<"close", "client">> >>
    [] OTHER -> << >>

\* close_socket twice at the end of the stream; a message is only printed.
echo_on_recv(err, end) ==
  CASE err # "ok" -> << <<"fatal">> >>
    [] err = "ok" /\ end -> << <<"close", "client">>, <<"close", "server">> >>
    [] OTHER -> << >>

hello_main ==
  << <<"new", "client">>, <<"on", "client", "on_connect">>,
     <<"connect", "client">>, <<"uv_run">>, <<"del", "client">> >>

\* The error code is not looked at.
hello_on_connect == << <<"send", "client">> >>

main == IF program = "echo_server" THEN echo_main ELSE hello_main

\* What the application does in callback f; end says whether the stream of
\* its socket ended.
Handler(f, end) ==
  CASE f.cb \notin watcher[f.sock] -> << >>
    [] f.cb = "on_connection" -> echo_on_connection(f.err)
    [] f.cb = "on_recv" -> echo_on_recv(f.err, end)
    [] f.cb = "on_connect" -> hello_on_connect

-----------------------------------------------------------------------------

ProgInit ==
  /\ Init
  /\ program \in {"echo_server", "send_hello"}
  /\ code = <<main>>
  /\ watcher = [s \in Sockets |-> {}]
  /\ warned = {} /\ conns = 0 /\ failed = {} /\ proc = "running"

\* The calls of the innermost function after its next one.
Rest == Append(Front(code), Tail(Last(code)))

\* A callback that was entered in this step starts its handler or, when the
\* application has not set it, the noop that warns.
Continue(rest) ==
  LET f == Last(stack')
  IN IF Len(stack') > Len(stack)
       THEN /\ code' = Append(rest, Handler(f, sock'[f.sock].reading = "ended"))
            /\ warned' = IF f.cb \in watcher[f.sock] THEN warned
                         ELSE warned \cup {<<f.cb, f.sock>>}
       ELSE code' = rest /\ UNCHANGED warned

\* The program that runs is the same throughout.
Runs == proc = "running" /\ program' = program

Next_is(call) ==
  Runs /\ Last(code) # << >> /\ Head(Last(code)) = call

\* A library call whose condition does not hold.
Misuse == proc' = "misuse" /\ UNCHANGED <<vars, code, watcher, warned, conns, failed>>

\* sc_watcher_init: all callbacks are the noop.
sc_watcher_init(s) == watcher' = [watcher EXCEPT ![s] = {}]

New(s) ==
  /\ Next_is(<<"new", s>>)
  /\ \/ sc_socket_new(s) /\ sc_watcher_init(s) /\ UNCHANGED failed
     \/ \* no memory, and the program gets null; what backend->alloc
        \* then leaves behind is counted in Setup
        failed' = failed \cup {"new"} /\ UNCHANGED <<vars, watcher>>
  /\ Continue(Rest) /\ UNCHANGED <<conns, proc>>

\* The six setters sc_socket_on_connect, ..., sc_socket_on_close.
sc_socket_on(s, cb) == watcher' = [watcher EXCEPT ![s] = @ \cup {cb}]

On(s, cb) ==
  /\ Next_is(<<"on", s, cb>>)
  /\ IF sock[s].obj = "live"
       THEN /\ sc_socket_on(s, cb)
            /\ UNCHANGED vars /\ Continue(Rest) /\ UNCHANGED <<conns, failed, proc>>
       ELSE Misuse

\* Bind and connect: sc_uri_new may find no memory ("bad"), and they may fail
\* before or after uv_tcp_init, which the program does not learn.
Attempt(call, s) ==
  failed' = IF sock'[s].handle = "raw" THEN failed \cup {call} ELSE failed

Bind(s) ==
  /\ Next_is(<<"bind", s>>)
  /\ IF MayName(s)
       THEN /\ \E u \in {"tcp", "bad"} : sc_socket_bind(s, u)
            /\ Attempt("bind", s)
            /\ Continue(Rest) /\ UNCHANGED <<watcher, conns, proc>>
       ELSE Misuse

\* After a bind that failed libuv listens on a port of its choice, but a handle
\* that was never initialised must not get there.
Listen(s) ==
  /\ Next_is(<<"listen", s>>)
  /\ CASE sock[s].handle = "bound" ->
            /\ sc_socket_listen(s)
            /\ Continue(Rest) /\ UNCHANGED <<watcher, conns, failed, proc>>
       [] sock[s].handle = "init" ->
            /\ \/ UNCHANGED sock
               \/ sock' = [sock EXCEPT ![s].handle = "listening"]
            /\ UNCHANGED <<stack, uris, msgs, due, cut>>
            /\ Continue(Rest) /\ UNCHANGED <<watcher, conns, failed, proc>>
       [] OTHER -> Misuse

Connect(s) ==
  /\ Next_is(<<"connect", s>>)
  /\ IF MayName(s)
       THEN /\ \E u \in {"tcp", "bad"} : sc_socket_connect(s, u)
            /\ Attempt("connect", s)
            /\ Continue(Rest) /\ UNCHANGED <<watcher, conns, proc>>
       ELSE Misuse

Accept(srv, clt) ==
  /\ Next_is(<<"accept", srv, clt>>)
  /\ IF Listener(srv) /\ MayOpen(clt)
       THEN /\ buv_accept(srv, clt)
            /\ Continue(Rest) /\ UNCHANGED <<watcher, conns, failed, proc>>
       ELSE Misuse

Send(s) ==
  /\ Next_is(<<"send", s>>)
  /\ IF MaySend(s)
       THEN buv_send(s) /\ Continue(Rest) /\ UNCHANGED <<watcher, conns, failed, proc>>
       ELSE Misuse

Close(s) ==
  /\ Next_is(<<"close", s>>)
  /\ IF MayClose(s)
       THEN /\ sc_socket_close(s)
            /\ Continue(Rest) /\ UNCHANGED <<watcher, conns, failed, proc>>
       ELSE Misuse

\* main deletes its sockets after uv_run, closed or not: the loop does not
\* run again.
Del(s) ==
  /\ Next_is(<<"del", s>>)
  /\ IF sock[s].obj = "live"
       THEN FreeSocket(s) /\ Continue(Rest) /\ UNCHANGED <<watcher, conns, failed, proc>>
       ELSE Misuse

Fatal ==
  /\ Next_is(<<"fatal">>)
  /\ proc' = "fatal"
  /\ UNCHANGED vars /\ UNCHANGED <<code, watcher, warned, conns, failed>>

\* A handler is done.
Done ==
  /\ Runs /\ stack # << >> /\ Last(code) = << >>
  /\ Return /\ code' = Front(code)
  /\ UNCHANGED <<watcher, warned, conns, failed, proc>>

-----------------------------------------------------------------------------
(* The loop.                                                               *)

LoopAlive ==
  \E s \in Sockets :
    \/ sock[s].handle \in {"listening", "closing"}
    \/ sock[s].reading = "yes"
    \/ sock[s].creq = "pending" \/ sock[s].wreq = "pending"

Poll(s) ==
  /\ Next_is(<<"uv_run">>) /\ stack = << >>
  /\ Loop(s)
  /\ Continue(code)
  /\ conns' = IF sock'[s].taken = "yes" /\ sock[s].taken = "no"
                THEN conns + 1 ELSE conns
  /\ conns' <= MaxConns
  /\ UNCHANGED <<watcher, failed, proc>>

RunEnds ==
  /\ Next_is(<<"uv_run">>) /\ stack = << >> /\ ~ LoopAlive
  /\ code' = Rest
  /\ UNCHANGED vars /\ UNCHANGED <<watcher, warned, conns, failed, proc>>

MainReturns ==
  /\ Runs /\ code = << << >> >>
  /\ proc' = "returned"
  /\ UNCHANGED vars /\ UNCHANGED <<code, watcher, warned, conns, failed>>

Step ==
  \/ \E s \in Sockets : New(s) \/ Bind(s) \/ Listen(s) \/ Connect(s)
  \/ \E s \in Sockets : Send(s) \/ Close(s) \/ Del(s)
  \/ \E s \in Sockets, cb \in Callbacks : On(s, cb)
  \/ \E srv, clt \in Sockets : Accept(srv, clt)
  \/ Fatal \/ Done \/ RunEnds \/ MainReturns

ProgNext == Step \/ \E s \in Sockets : Poll(s)

ProgSpec == ProgInit /\ [][ProgNext]_allVars

\* The program runs on, and the loop serves what is ready, also the end of a
\* stream that follows any number of messages; nine bytes are written at
\* once, peers owe nothing.
ProgLive ==
  /\ ProgSpec
  /\ WF_allVars(Step)
  /\ \A s \in Sockets :
       /\ SF_allVars(Poll(s) /\ Served(s))
       /\ SF_allVars(Poll(s) /\ write_wrap(s))

-----------------------------------------------------------------------------

\* No call of the programs hands libuv a handle or a request that is in use
\* or was never initialised, or the library a null pointer, as long as the
\* echo server has one peer: except after an allocation or an initialisation
\* in sc_socket_new or sc_socket_bind that failed.  An error of connect, an
\* address in use, errors of listen and accept are ignored without harm.
MisuseOnlyUnmade == proc = "misuse" => failed \cap {"new", "bind"} # {}

\* The callbacks that the programs rely on are never the noop; those for
\* which src/src/watcher.c prints its warning are others.
HandlersInPlace ==
  \A w \in warned : w[1] \notin {"on_connect", "on_connection", "on_recv"}

\* The two together: the programs use the library as it demands, but for the
\* results they do not look at.
RightUse == MisuseOnlyUnmade /\ HandlersInPlace

\* When main returns nothing is left on the heap and no callback is owed, on
\* every path through errors and ends: the tests run with
\* -DUSE_SANITIZER='Address;Undefined' (src/.github/workflows/test.yml:21).
NothingLeft ==
  proc = "returned" =>
    /\ uris = 0 /\ msgs = 0
    /\ \A s \in Sockets : sock[s].obj = "none" /\ \A p \in Promised : due[s][p] = 0

\* send_hello ends by itself, connected or not, if only it has a socket, and
\* the echo server when the peer it reads from has gone.
ProgramsEnd ==
  /\ proc = "running"
  /\ \/ program = "send_hello"
     \/ sock["client"].reading = "yes" /\ sock["client"].peer = "down"
  ~> \/ proc = "returned"
     \/ program = "echo_server" /\ proc = "fatal"
     \/ program = "send_hello" /\ proc = "misuse" /\ "new" \in failed
=============================================================================
