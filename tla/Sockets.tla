------------------------------- MODULE Sockets -------------------------------
(***************************************************************************)
(* The life of sockets: src/src/socket.c, the operations and the libuv     *)
(* callbacks of src/src/backend_uv.c and the watcher through which they    *)
(* reach the application (src/src/watcher.c).                              *)
(*                                                                         *)
(* Everything runs on the thread of one libuv loop.  A callback of libuv   *)
(* is a *_wrap function of the backend, which calls the application; the   *)
(* application may call the library from there, and sc_socket_accept calls *)
(* the application back before it returns.  stack holds the application    *)
(* callbacks that have not returned; the loop goes on when it is empty.    *)
(*                                                                         *)
(* The application is any program that keeps to MayOpen, MaySend, MayClose *)
(* and MayDelete, the conditions under which the calls are defined at all: *)
(* libuv handles and requests live inside struct socket_uv and the library *)
(* checks nothing before it hands them over.  MayName, which includes      *)
(* MayOpen, also keeps connect and bind from losing the URI of a socket.   *)
(*                                                                         *)
(* libuv is external and modelled from its use: requests complete once,    *)
(* those pending at uv_close are cancelled before the close callback, and  *)
(* a connection taken from the backlog waits for uv_accept.  Messages are  *)
(* those of MsgStream; here they are only allocated and freed.             *)
(***************************************************************************)
EXTENDS Integers, Sequences, FiniteSets, SequencesExt

CONSTANTS
  Sockets,     \* the sc_socket objects the application may create
  UriStrings,  \* the URIs the application may use, by what sc_uri_new makes
               \* of them: "pipe", "tcp", or "bad" for one it refuses
  MaxNesting,  \* bound: callbacks executed inside one another
  MaxMsgs      \* bound: messages on the heap when a socket is closed in the
               \* middle of one, which may then be lost

ASSUME SocketsAssumption == IsFiniteSet(Sockets)
ASSUME UrisAssumption == UriStrings \subseteq {"pipe", "tcp", "bad"}
ASSUME NestingAssumption == MaxNesting \in Nat
ASSUME MaxMsgsAssumption == MaxMsgs \in Nat

VARIABLES
  sock,   \* [Sockets -> Socket]
  stack,  \* the application callbacks being executed, innermost last
  uris,   \* number of struct uri objects on the heap
  msgs,   \* number of messages alloc_wrap has on the heap
  due,    \* history: callbacks promised to the application and not yet made
  cut     \* history: a socket was closed outside its on_recv in the middle
          \* of a message

vars == <<sock, stack, uris, msgs, due, cut>>

Protocols == {"pipe", "tcp"}

Handles == {"raw",         \* memory never handed to uv_tcp_init or uv_pipe_init
            "init", "bound", "listening", "connecting",
            "failed",      \* connect failed
            "open", "closing", "closed"}

Socket ==
  [obj : {"none", "live"},             \* the sc_socket and its backend
   handle : Handles,                   \* uv->stream
   proto : Protocols \cup {"noset"},   \* uv->proto
   uri : {"null", "set"},              \* socket->uri
   reading : {"no", "yes", "ended"},   \* uv_read_start in effect, or at its end
   msg : {"null", "alloc"},            \* uv->msg
   creq : {"idle", "pending"},         \* uv->connect_request
   wreq : {"idle", "pending"},         \* uv->write_request
   taken : {"no", "yes"},              \* a connection waits for uv_accept
   peer : {"up", "down"}]              \* the other end of an open stream

Promised == {"on_connect", "on_send", "on_close"}

Callbacks == Promised \cup {"on_connection", "on_accept", "on_recv"}

Frame == [cb : Callbacks, sock : Sockets, err : {"ok", "error", "ECANCELED"}]

TypeOK ==
  /\ sock \in [Sockets -> Socket]
  /\ stack \in Seq(Frame)
  /\ uris \in Nat
  /\ msgs \in Nat
  /\ due \in [Sockets -> [Promised -> Int]]
  /\ cut \in BOOLEAN

\* A socket that does not exist.
NoSocket ==
  [obj |-> "none", handle |-> "raw", proto |-> "noset", uri |-> "null",
   reading |-> "no", msg |-> "null", creq |-> "idle", wreq |-> "idle", taken |-> "no",
   peer |-> "down"]

\* sc_socket_new: buv_init and sc_watcher_init on fresh memory.
buv_init == [NoSocket EXCEPT !.obj = "live"]

Init ==
  /\ sock = [s \in Sockets |-> NoSocket]
  /\ stack = << >>
  /\ uris = 0
  /\ msgs = 0
  /\ due = [s \in Sockets |-> [p \in Promised |-> 0]]
  /\ cut = FALSE

-----------------------------------------------------------------------------
(* Calling the application, and what the application may call.             *)

Call(cb, s, err) == Append(stack, [cb |-> cb, sock |-> s, err |-> err])

\* The application is inside this callback of the socket.
Executing(cb, s) == \E i \in DOMAIN stack : stack[i].cb = cb /\ stack[i].sock = s

\* Connect, bind and accept initialise the handle, which must not be in use.
MayOpen(s) == sock[s].obj = "live" /\ sock[s].handle \in {"raw", "closed"}

\* A socket whose connect or bind failed before its handle was initialised
\* keeps its URI and cannot be closed: it is deleted, not tried again.
MayName(s) == MayOpen(s) /\ sock[s].uri = "null"

\* Connections are accepted from a listening socket, or in its on_connection
\* even if it was closed there.
Listener(s) ==
  \/ sock[s].handle = "listening"
  \/ sock[s].handle = "closing" /\ Executing("on_connection", s)

\* There is one write_request.
MaySend(s) ==
  /\ sock[s].obj = "live"
  /\ sock[s].handle \in {"connecting", "failed", "open"}
  /\ sock[s].wreq = "idle"

MayClose(s) ==
  sock[s].obj = "live" /\ sock[s].handle \notin {"raw", "closing", "closed"}

\* To close the socket now cuts a message short that read_wrap will not free.
Cuts(s) == sock[s].msg = "alloc" /\ ~ Executing("on_recv", s)

\* read_wrap touches the socket after on_recv returns, so a socket is not
\* deleted while it is open; from on_close on it may be.
MayDelete(s) == MayOpen(s)

-----------------------------------------------------------------------------
(* Calls of the application.                                               *)

sc_socket_new(s) ==
  /\ sock[s].obj = "none"
  /\ sock' = [sock EXCEPT ![s] = buv_init]
  /\ UNCHANGED <<stack, uris, due, msgs, cut>>

\* Mutant: the URI is freed without a look whether there is one.
Mutant_del_without_check(s) ==
  /\ uris' = uris - 1
  /\ sock' = [sock EXCEPT ![s] = NoSocket]
  /\ UNCHANGED <<stack, due, msgs, cut>>

\* The URI goes with the socket, a message left in uv->msg does not.
FreeSocket(s) ==
  /\ uris' = IF sock[s].uri = "set" THEN uris - 1 ELSE uris
  /\ sock' = [sock EXCEPT ![s] = NoSocket]
  /\ UNCHANGED <<stack, due, msgs, cut>>

sc_socket_del(s) == MayDelete(s) /\ FreeSocket(s)

\* connect_pipe and connect_tcp.  uv_pipe_connect reports every error to the
\* callback; uv_ip4_addr and uv_tcp_connect may fail at once.
buv_connect(s, u) ==
  \/ \* uv_pipe_init or uv_tcp_init fails
     /\ sock' = [sock EXCEPT ![s].uri = "set"]
     /\ UNCHANGED due
  \/ \* uv_ip4_addr or uv_tcp_connect fails
     /\ u = "tcp"
     /\ sock' = [sock EXCEPT ![s].uri = "set", ![s].handle = "init"]
     /\ UNCHANGED due
  \/ \* the request is under way
     /\ sock' = [sock EXCEPT ![s].uri = "set", ![s].handle = "connecting",
                             ![s].creq = "pending"]
     /\ due' = [due EXCEPT ![s]["on_connect"] = @ + 1]

\* Mutant: the protocol is left for later.
Mutant_bind_without_proto(s, u) ==
  /\ \E h \in {sock[s].handle, "init", "bound"} :
       sock' = [sock EXCEPT ![s].uri = "set", ![s].handle = h]
  /\ UNCHANGED due

\* srv->proto is set before anything can fail.
buv_bind(s, u) ==
  /\ \E h \in {sock[s].handle, "init", "bound"} :
       \* uv_*_init fails, uv_ip4_addr or uv_*_bind fails, or all is well
       sock' = [sock EXCEPT ![s].uri = "set", ![s].proto = u, ![s].handle = h]
  /\ UNCHANGED due

\* A URI that sc_uri_new refuses leaves the socket without one.
sc_socket_connect(s, u) ==
  /\ MayName(s)
  /\ \/ u = "bad" /\ UNCHANGED <<sock, uris, due>>
     \/ u # "bad" /\ uris' = uris + 1 /\ buv_connect(s, u)
  /\ UNCHANGED <<stack, msgs, cut>>

sc_socket_bind(s, u) ==
  /\ MayName(s)
  /\ \/ u = "bad" /\ UNCHANGED <<sock, uris, due>>
     \/ u # "bad" /\ uris' = uris + 1 /\ buv_bind(s, u)
  /\ UNCHANGED <<stack, msgs, cut>>

\* uv_listen may fail, also because of an address that is in use.
sc_socket_listen(s) ==
  /\ sock[s].obj = "live" /\ sock[s].handle = "bound"
  /\ \/ UNCHANGED sock
     \/ sock' = [sock EXCEPT ![s].handle = "listening"]
  /\ UNCHANGED <<stack, uris, due, msgs, cut>>

\* sc_socket_accept.  on_accept is called before it returns, once, whatever
\* happens.  uv_accept fails when no connection waits.
buv_accept(srv, clt) ==
  /\ Listener(srv) /\ MayOpen(clt) /\ Len(stack) < MaxNesting
  /\ LET accepted(h, r) ==
           [sock EXCEPT ![clt].proto = sock[srv].proto, ![clt].handle = h,
                        ![clt].reading = r, ![srv].taken = "no",
                        ![clt].peer = IF h = "open" THEN "up" ELSE "down"]
     IN
     \/ \* uv_pipe_init or uv_tcp_init fails
        UNCHANGED sock /\ stack' = Call("on_accept", clt, "error")
     \/ \* uv_accept fails
        sock' = accepted("init", "no") /\ stack' = Call("on_accept", clt, "error")
     \/ \* uv_read_start fails
        /\ sock[srv].taken = "yes"
        /\ sock' = accepted("open", "no")
        /\ stack' = Call("on_accept", clt, "error")
     \/ /\ sock[srv].taken = "yes"
        /\ sock' = accepted("open", "yes")
        /\ stack' = Call("on_accept", clt, "ok")
  /\ UNCHANGED <<uris, due, msgs, cut>>

\* sc_socket_send: uv_write queues the message or refuses it.
buv_send(s) ==
  /\ MaySend(s)
  /\ \/ UNCHANGED <<sock, due>>
     \/ /\ sock' = [sock EXCEPT ![s].wreq = "pending"]
        /\ due' = [due EXCEPT ![s]["on_send"] = @ + 1]
  /\ UNCHANGED <<stack, uris, msgs, cut>>

\* Mutant: on_close is called by sc_socket_close itself.
Mutant_close_at_once(s) ==
  /\ MayClose(s)
  /\ sock[s].creq = "idle" /\ sock[s].wreq = "idle"
  /\ sock' = [sock EXCEPT ![s].handle = "closed", ![s].reading = "no",
                          ![s].taken = "no", ![s].uri = "null"]
  /\ uris' = IF sock[s].uri = "set" THEN uris - 1 ELSE uris
  /\ stack' = Call("on_close", s, "ok")
  /\ UNCHANGED <<due, msgs, cut>>

\* Mutant: the URI is forgotten but not freed.
Mutant_close_keeps_uri(s) ==
  /\ MayClose(s)
  /\ sock' = [sock EXCEPT ![s].handle = "closing", ![s].reading = "no",
                          ![s].taken = "no", ![s].uri = "null"]
  /\ due' = [due EXCEPT ![s]["on_close"] = @ + 1]
  /\ UNCHANGED <<stack, uris, msgs, cut>>

\* buv_close and the release of the URI.  uv_close stops reading and drops a
\* connection that waits for uv_accept; pending requests stay pending and
\* uv->msg stays what it is.
sc_socket_close(s) ==
  /\ MayClose(s)
  /\ Cuts(s) => msgs <= MaxMsgs
  /\ sock' = [sock EXCEPT ![s].handle = "closing", ![s].reading = "no",
                          ![s].taken = "no", ![s].uri = "null"]
  /\ uris' = IF sock[s].uri = "set" THEN uris - 1 ELSE uris
  /\ due' = [due EXCEPT ![s]["on_close"] = @ + 1]
  /\ cut' = (cut \/ Cuts(s))
  /\ UNCHANGED <<stack, msgs>>

\* Mutant: the message is forgotten but not freed.
Mutant_return_keeps_msg ==
  /\ stack # << >>
  /\ LET f == Last(stack)
         held == f.cb = "on_recv" /\ sock[f.sock].msg = "alloc"
     IN sock' = IF held THEN [sock EXCEPT ![f.sock].msg = "null"] ELSE sock
  /\ stack' = Front(stack)
  /\ UNCHANGED <<uris, msgs, due, cut>>

\* The innermost callback returns to its *_wrap function.  Only read_wrap has
\* something left to do: sc_msg_free(uv->msg) and uv->msg = 0.
Return ==
  /\ stack # << >>
  /\ LET f == Last(stack)
         held == f.cb = "on_recv" /\ sock[f.sock].msg = "alloc"
     IN /\ sock' = IF held THEN [sock EXCEPT ![f.sock].msg = "null"] ELSE sock
        /\ msgs' = IF held THEN msgs - 1 ELSE msgs
  /\ stack' = Front(stack)
  /\ UNCHANGED <<uris, due, cut>>

-----------------------------------------------------------------------------
(* The loop.                                                               *)

\* Mutant: an error is not passed on.
Mutant_on_connect_wrap_silent(s) ==
  /\ stack = << >>
  /\ sock[s].handle = "connecting" /\ sock[s].creq = "pending"
  /\ \/ /\ sock' = [sock EXCEPT ![s].creq = "idle", ![s].handle = "failed"]
        /\ UNCHANGED <<stack, due>>
     \/ /\ sock' = [sock EXCEPT ![s].creq = "idle", ![s].handle = "open",
                                ![s].peer = "up"]
        /\ stack' = Call("on_connect", s, "ok")
        /\ due' = [due EXCEPT ![s]["on_connect"] = @ - 1]
  /\ UNCHANGED <<uris, msgs, cut>>

on_connect_wrap(s) ==
  /\ stack = << >>
  /\ sock[s].handle = "connecting" /\ sock[s].creq = "pending"
  /\ \E ok \in BOOLEAN :
       /\ sock' = [sock EXCEPT ![s].creq = "idle",
                               ![s].handle = IF ok THEN "open" ELSE "failed",
                               ![s].peer = IF ok THEN "up" ELSE "down"]
       /\ stack' = Call("on_connect", s, IF ok THEN "ok" ELSE "error")
  /\ due' = [due EXCEPT ![s]["on_connect"] = @ - 1]
  /\ UNCHANGED <<uris, msgs, cut>>

\* A write is done or failed; when the connect failed it is cancelled, or
\* fails if it came later.
write_wrap(s) ==
  /\ stack = << >>
  /\ sock[s].wreq = "pending" /\ sock[s].handle \in {"open", "failed"}
  /\ \E err \in IF sock[s].handle = "failed" THEN {"ECANCELED", "error"}
                                            ELSE {"ok", "error"} :
       stack' = Call("on_send", s, err)
  /\ sock' = [sock EXCEPT ![s].wreq = "idle"]
  /\ due' = [due EXCEPT ![s]["on_send"] = @ - 1]
  /\ UNCHANGED <<uris, msgs, cut>>

\* A connection is taken from the backlog, or taking it fails.
on_connection_wrap(s) ==
  /\ stack = << >>
  /\ sock[s].handle = "listening" /\ sock[s].taken = "no"
  /\ \/ /\ sock' = [sock EXCEPT ![s].taken = "yes"]
        /\ stack' = Call("on_connection", s, "ok")
     \/ UNCHANGED sock /\ stack' = Call("on_connection", s, "error")
  /\ UNCHANGED <<uris, due, msgs, cut>>

\* Mutant: a negative nread is ignored.
Mutant_read_wrap_ignores_end(s, what) ==
  /\ stack = << >>
  /\ sock[s].handle = "open" /\ sock[s].reading = "yes"
  /\ \/ what = "part" /\ UNCHANGED stack
     \/ what = "msg" /\ stack' = Call("on_recv", s, "ok")
  /\ sock' = [sock EXCEPT ![s].msg = "alloc"]
  /\ msgs' = IF sock[s].msg = "null" THEN msgs + 1 ELSE msgs
  /\ UNCHANGED <<uris, due, cut>>

\* alloc_wrap provides a message; then part of one is read, or the rest of
\* it, or the end of the stream or an error, when reading stops.  What
\* read_wrap does after on_recv is in Return.
read_wrap(s, what) ==
  /\ stack = << >>
  /\ sock[s].handle = "open" /\ sock[s].reading = "yes"
  /\ \/ what = "part" /\ UNCHANGED stack
     \/ what = "msg" /\ stack' = Call("on_recv", s, "ok")
     \/ /\ what = "end" /\ sock[s].peer = "down"
        /\ \E err \in {"ok", "error"} : stack' = Call("on_recv", s, err)
  /\ sock' = [sock EXCEPT ![s].msg = "alloc",
                          ![s].reading = IF what = "end" THEN "ended" ELSE @]
  /\ msgs' = IF sock[s].msg = "null" THEN msgs + 1 ELSE msgs
  /\ UNCHANGED <<uris, due, cut>>

\* uv__finish_close: the pending requests are cancelled, then close_wrap.
cancel_wrap(s) ==
  /\ stack = << >>
  /\ sock[s].handle = "closing"
  /\ \/ /\ sock[s].creq = "pending"
        /\ sock' = [sock EXCEPT ![s].creq = "idle"]
        /\ stack' = Call("on_connect", s, "ECANCELED")
        /\ due' = [due EXCEPT ![s]["on_connect"] = @ - 1]
     \/ /\ sock[s].creq = "idle" /\ sock[s].wreq = "pending"
        /\ sock' = [sock EXCEPT ![s].wreq = "idle"]
        /\ stack' = Call("on_send", s, "ECANCELED")
        /\ due' = [due EXCEPT ![s]["on_send"] = @ - 1]
  /\ UNCHANGED <<uris, msgs, cut>>

\* Mutant: the close callback does not wait for the pending requests.
Mutant_close_wrap_early(s) ==
  /\ stack = << >>
  /\ sock[s].handle = "closing"
  /\ sock' = [sock EXCEPT ![s].handle = "closed", ![s].peer = "down"]
  /\ stack' = Call("on_close", s, "ok")
  /\ due' = [due EXCEPT ![s]["on_close"] = @ - 1]
  /\ UNCHANGED <<uris, msgs, cut>>

\* Mutant: on_close is not called.
Mutant_close_wrap_silent(s) ==
  /\ stack = << >>
  /\ sock[s].handle = "closing"
  /\ sock[s].creq = "idle" /\ sock[s].wreq = "idle"
  /\ sock' = [sock EXCEPT ![s].handle = "closed", ![s].peer = "down"]
  /\ UNCHANGED <<stack, uris, due, msgs, cut>>

close_wrap(s) ==
  /\ stack = << >>
  /\ sock[s].handle = "closing"
  /\ sock[s].creq = "idle" /\ sock[s].wreq = "idle"
  /\ sock' = [sock EXCEPT ![s].handle = "closed", ![s].peer = "down"]
  /\ stack' = Call("on_close", s, "ok")
  /\ due' = [due EXCEPT ![s]["on_close"] = @ - 1]
  /\ UNCHANGED <<uris, msgs, cut>>

\* The other end of an open stream goes away.
PeerDown(s) ==
  /\ sock[s].handle = "open" /\ sock[s].peer = "up"
  /\ sock' = [sock EXCEPT ![s].peer = "down"]
  /\ UNCHANGED <<stack, uris, due, msgs, cut>>

-----------------------------------------------------------------------------

Application(s) ==
  \/ sc_socket_new(s)
  \/ sc_socket_del(s)
  \/ \E u \in UriStrings : sc_socket_connect(s, u)
  \/ \E u \in UriStrings : sc_socket_bind(s, u)
  \/ sc_socket_listen(s)
  \/ \E clt \in Sockets : buv_accept(s, clt)
  \/ buv_send(s)
  \/ sc_socket_close(s)

Loop(s) ==
  \/ on_connect_wrap(s)
  \/ write_wrap(s)
  \/ on_connection_wrap(s)
  \/ \E what \in {"part", "msg", "end"} : read_wrap(s, what)
  \/ cancel_wrap(s)
  \/ close_wrap(s)
  \/ PeerDown(s)

\* What the loop owes a socket; in each state of its handle this is one step.
Served(s) ==
  \/ on_connect_wrap(s)
  \/ read_wrap(s, "end")
  \/ cancel_wrap(s)
  \/ close_wrap(s)

Next == Return \/ \E s \in Sockets : Application(s) \/ Loop(s)

Spec == Init /\ [][Next]_vars

\* The callbacks of the application return, each after finitely many calls,
\* at whatever depth of nesting, and every iteration of the loop
\* serves all the handles that are ready.  A connect ends, if only by a
\* timeout of the kernel.  A write need not: the peer may never read.
Fairness ==
  /\ \A d \in 1 .. MaxNesting : SF_vars(Len(stack) = d /\ Return)
  /\ \A s \in Sockets : SF_vars(Served(s))

LiveSpec == Spec /\ Fairness

-----------------------------------------------------------------------------
(* Safety.                                                                 *)

\* Each connect and each send that was accepted gets exactly one answer, and
\* gets it before on_close: a socket that was never opened, or whose on_close
\* was called, owes its application nothing, and no request, reader or
\* waiting connection of its last use is left for the next one.
AnsweredBeforeClosed ==
  \A s \in Sockets :
    /\ due[s]["on_connect"] = (IF sock[s].creq = "pending" THEN 1 ELSE 0)
    /\ due[s]["on_send"] = (IF sock[s].wreq = "pending" THEN 1 ELSE 0)
    /\ due[s]["on_close"] = (IF sock[s].handle = "closing" THEN 1 ELSE 0)
    /\ sock[s].handle \in {"raw", "closed"} =>
         /\ sock[s].creq = "idle" /\ sock[s].wreq = "idle"
         /\ sock[s].reading = "no" /\ sock[s].taken = "no"

\* Every struct uri on the heap belongs to one socket: sc_socket_connect and
\* sc_socket_bind lose none, sc_socket_close and sc_socket_del free none twice.
UrisOwned == uris = Cardinality({s \in Sockets : sock[s].uri = "set"})

\* Every message alloc_wrap took from the heap is in the uv->msg of one socket,
\* to be freed by read_wrap, and a socket that is not open holds none that its
\* next connection would inherit or its deletion lose: as long as sockets
\* are not closed outside their on_recv in the middle of a message.
MsgsOwned ==
  ~ cut =>
    /\ msgs = Cardinality({s \in Sockets : sock[s].msg = "alloc"})
    /\ \A s \in Sockets :
         sock[s].handle \in {"raw", "closed"} => sock[s].msg = "null"

\* read_wrap frees uv->msg after on_recv returned: until then the socket
\* exists, whatever the application did in on_recv.
AliveAfterRecv ==
  \A i \in DOMAIN stack :
    stack[i].cb = "on_recv" =>
      /\ sock[stack[i].sock].obj = "live"
      /\ sock[stack[i].sock].handle \in {"open", "closing"}

\* The assertion at the start of buv_accept: the protocol of a socket from
\* which connections are accepted is known, also when it was closed meanwhile
\* or had failed to bind to another address before.
ListenerHasProto ==
  \A s \in Sockets : Listener(s) => sock[s].proto \in Protocols

-----------------------------------------------------------------------------
(* Liveness.                                                               *)

\* sc_socket_close is always followed by on_close.
CloseCompletes ==
  \A s \in Sockets : due[s]["on_close"] > 0 ~> due[s]["on_close"] = 0

\* sc_socket_connect that returned 0 is always followed by on_connect, be it
\* with success, with an error or because the socket was closed.
ConnectAnswered ==
  \A s \in Sockets : due[s]["on_connect"] > 0 ~> due[s]["on_connect"] = 0

\* A socket that reads is told of the end of the connection by read_wrap.
EndReported ==
  \A s \in Sockets :
    sock[s].reading = "yes" /\ sock[s].peer = "down" ~> sock[s].reading # "yes"

\* on_recv without a message ends the life of any connection whose peer is
\* gone, unless the application closes it first: src/test/client.c waits for
\* it on a socket it connected.
EndOfAnyConnectionReported ==
  \A s \in Sockets :
    sock[s].handle = "open" /\ sock[s].peer = "down"
      ~> sock[s].reading = "ended" \/ sock[s].handle # "open"
=============================================================================
