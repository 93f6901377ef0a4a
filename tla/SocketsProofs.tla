---------------------------- MODULE SocketsProofs ----------------------------
(***************************************************************************)
(* The safety of Sockets for any number of sockets, any depth of nesting   *)
(* and any number of messages on the heap.                                 *)
(*                                                                         *)
(* Almost every action changes one socket; OneSocket says what such a step *)
(* has to show.  Return and buv_accept have arguments of their own.        *)
(***************************************************************************)
EXTENDS Sockets, FiniteSetTheorems, TLAPS

Types ==
  /\ sock \in [Sockets -> Socket]
  /\ stack \in Seq(Frame)
  /\ due \in [Sockets -> [Promised -> Int]]
  /\ cut \in BOOLEAN

\* A socket r and the callbacks d it owes: what is under way in which state of
\* the handle.
Good(r, d) ==
  /\ r.obj = "none" => r = NoSocket
  /\ r.creq = "pending" => r.handle \in {"connecting", "closing"}
  /\ r.wreq = "pending" => r.handle \in {"connecting", "failed", "open", "closing"}
  /\ r.reading # "no" => r.handle = "open"
  /\ r.taken = "yes" => r.handle = "listening"
  /\ r.handle \in {"bound", "listening"} => r.proto \in Protocols
  /\ d["on_connect"] = (IF r.creq = "pending" THEN 1 ELSE 0)
  /\ d["on_send"] = (IF r.wreq = "pending" THEN 1 ELSE 0)
  /\ d["on_close"] = (IF r.handle = "closing" THEN 1 ELSE 0)

\* A callback that is executed, and its socket r.
Held(cb, r) ==
  /\ cb = "on_recv" => r.obj = "live" /\ r.handle \in {"open", "closing"}
  /\ cb = "on_connection" => r.handle \in {"listening", "closing"} /\ r.proto \in Protocols

Frames == \A i \in DOMAIN stack : Held(stack[i].cb, sock[stack[i].sock])

WithUri == {s \in Sockets : sock[s].uri = "set"}
WithMsg == {s \in Sockets : sock[s].msg = "alloc"}

\* Messages may be lost once a socket was closed in the middle of one, and
\* only then.
Heap ==
  /\ uris = Cardinality(WithUri)
  /\ msgs \in Nat /\ Cardinality(WithMsg) <= msgs
  /\ ~ cut => msgs = Cardinality(WithMsg)

\* A message is in the hands of read_wrap, which frees it after on_recv.
Freed ==
  ~ cut => \A s \in WithMsg :
    \/ sock[s].handle = "open"
    \/ sock[s].handle = "closing" /\ Executing("on_recv", s)

IndInv ==
  /\ Types /\ (\A s \in Sockets : Good(sock[s], due[s])) /\ Frames /\ Heap /\ Freed

-----------------------------------------------------------------------------

\* Sets of sockets can be counted.
LEMMA SetsFinite ==
  ASSUME NEW S \in SUBSET Sockets
  PROVE  IsFiniteSet(S) /\ Cardinality(S) \in Nat
BY SocketsAssumption, FS_Subset, FS_CardinalityType

\* A socket that gets a URI or a message is counted once.
LEMMA OneMore ==
  ASSUME NEW S \in SUBSET Sockets, NEW s \in Sockets
  PROVE  Cardinality(S \cup {s}) = IF s \in S THEN Cardinality(S) ELSE Cardinality(S) + 1
BY SetsFinite, FS_AddElement

\* A socket that gives one up was counted.
LEMMA OneLess ==
  ASSUME NEW S \in SUBSET Sockets, NEW s \in Sockets
  PROVE  /\ Cardinality(S \ {s}) = IF s \in S THEN Cardinality(S) - 1 ELSE Cardinality(S)
         /\ s \in S => Cardinality(S) > 0
<1>1. Cardinality(S \ {s}) \in Nat /\ Cardinality(S) \in Nat
  BY SetsFinite
<1>2. Cardinality(S \ {s}) = IF s \in S THEN Cardinality(S) - 1 ELSE Cardinality(S)
  BY SetsFinite, FS_RemoveElement
<1> QED BY <1>1, <1>2

\* At the start there is no socket and nothing on the heap.
LEMMA InitInd == Init => IndInv
<1> SUFFICES ASSUME Init PROVE IndInv OBVIOUS
<1> USE DEF Init
<1>1. NoSocket \in Socket
  BY DEF NoSocket, Socket, Handles, Protocols
<1>2. Types
  <2>1. sock \in [Sockets -> Socket] /\ due \in [Sockets -> [Promised -> Int]]
    BY <1>1
  <2>2. stack \in Seq(Frame)
    OBVIOUS
  <2>3. cut \in BOOLEAN
    OBVIOUS
  <2> QED BY <2>1, <2>2, <2>3 DEF Types
<1>3. \A s \in Sockets : Good(sock[s], due[s])
  BY DEF Good, NoSocket, Promised
<1>4. WithUri = {} /\ WithMsg = {}
  BY DEF WithUri, WithMsg, NoSocket
<1>5. Heap /\ Freed
  BY <1>4, FS_EmptySet DEF Heap, Freed
<1>6. Frames
  BY DEF Frames
<1> QED BY <1>2, <1>3, <1>5, <1>6 DEF IndInv

-----------------------------------------------------------------------------
(* Records and counters.                                                   *)

\* The states of the handle that the actions set, and the two sockets that
\* sc_socket_new and sc_socket_del leave.
LEMMA Values ==
  /\ "init" \in Handles /\ "bound" \in Handles /\ "listening" \in Handles
  /\ "connecting" \in Handles /\ "failed" \in Handles /\ "open" \in Handles
  /\ "closing" \in Handles /\ "closed" \in Handles
  /\ NoSocket \in Socket /\ buv_init \in Socket
BY DEF Handles, NoSocket, buv_init, Socket, Protocols

\* A socket whose fields are set to values of their types is a socket.
LEMMA Updates ==
  ASSUME NEW q \in Socket
  PROVE  /\ \A uri \in {"null", "set"} :
              [q EXCEPT !.uri = uri] \in Socket
         /\ \A uri \in {"null", "set"}, h \in Handles :
              [q EXCEPT !.uri = uri, !.handle = h] \in Socket
         /\ \A uri \in {"null", "set"}, h \in Handles, creq \in {"idle", "pending"} :
              [q EXCEPT !.uri = uri, !.handle = h, !.creq = creq] \in Socket
         /\ \A uri \in {"null", "set"}, proto \in Protocols \cup {"noset"}, h \in Handles :
              [q EXCEPT !.uri = uri, !.proto = proto, !.handle = h] \in Socket
         /\ \A h \in Handles :
              [q EXCEPT !.handle = h] \in Socket
         /\ \A proto \in Protocols \cup {"noset"}, h \in Handles, reading \in {"no", "yes", "ended"}, peer \in {"up", "down"} :
              [q EXCEPT !.proto = proto, !.handle = h, !.reading = reading, !.peer = peer] \in Socket
         /\ \A taken \in {"no", "yes"} :
              [q EXCEPT !.taken = taken] \in Socket
         /\ \A wreq \in {"idle", "pending"} :
              [q EXCEPT !.wreq = wreq] \in Socket
         /\ \A creq \in {"idle", "pending"} :
              [q EXCEPT !.creq = creq] \in Socket
         /\ \A h \in Handles, reading \in {"no", "yes", "ended"}, taken \in {"no", "yes"}, uri \in {"null", "set"} :
              [q EXCEPT !.handle = h, !.reading = reading, !.taken = taken, !.uri = uri] \in Socket
         /\ \A msg \in {"null", "alloc"} :
              [q EXCEPT !.msg = msg] \in Socket
         /\ \A creq \in {"idle", "pending"}, h \in Handles, peer \in {"up", "down"} :
              [q EXCEPT !.creq = creq, !.handle = h, !.peer = peer] \in Socket
         /\ \A msg \in {"null", "alloc"}, reading \in {"no", "yes", "ended"} :
              [q EXCEPT !.msg = msg, !.reading = reading] \in Socket
         /\ \A h \in Handles, peer \in {"up", "down"} :
              [q EXCEPT !.handle = h, !.peer = peer] \in Socket
         /\ \A peer \in {"up", "down"} :
              [q EXCEPT !.peer = peer] \in Socket
<1>1. \A uri \in {"null", "set"} :
        [q EXCEPT !.uri = uri] \in Socket
  BY Zenon DEF Socket
<1>2. \A uri \in {"null", "set"}, h \in Handles :
        [q EXCEPT !.uri = uri, !.handle = h] \in Socket
  BY Zenon DEF Socket
<1>3. \A uri \in {"null", "set"}, h \in Handles, creq \in {"idle", "pending"} :
        [q EXCEPT !.uri = uri, !.handle = h, !.creq = creq] \in Socket
  BY Zenon DEF Socket
<1>4. \A uri \in {"null", "set"}, proto \in Protocols \cup {"noset"}, h \in Handles :
        [q EXCEPT !.uri = uri, !.proto = proto, !.handle = h] \in Socket
  BY Zenon DEF Socket
<1>5. \A h \in Handles :
        [q EXCEPT !.handle = h] \in Socket
  BY Zenon DEF Socket
<1>6. \A proto \in Protocols \cup {"noset"}, h \in Handles, reading \in {"no", "yes", "ended"}, peer \in {"up", "down"} :
        [q EXCEPT !.proto = proto, !.handle = h, !.reading = reading, !.peer = peer] \in Socket
  BY Zenon DEF Socket
<1>7. \A taken \in {"no", "yes"} :
        [q EXCEPT !.taken = taken] \in Socket
  BY Zenon DEF Socket
<1>8. \A wreq \in {"idle", "pending"} :
        [q EXCEPT !.wreq = wreq] \in Socket
  BY Zenon DEF Socket
<1>9. \A creq \in {"idle", "pending"} :
        [q EXCEPT !.creq = creq] \in Socket
  BY Zenon DEF Socket
<1>10. \A h \in Handles, reading \in {"no", "yes", "ended"}, taken \in {"no", "yes"}, uri \in {"null", "set"} :
        [q EXCEPT !.handle = h, !.reading = reading, !.taken = taken, !.uri = uri] \in Socket
  BY Zenon DEF Socket
<1>11. \A msg \in {"null", "alloc"} :
        [q EXCEPT !.msg = msg] \in Socket
  BY Zenon DEF Socket
<1>12. \A creq \in {"idle", "pending"}, h \in Handles, peer \in {"up", "down"} :
        [q EXCEPT !.creq = creq, !.handle = h, !.peer = peer] \in Socket
  BY Zenon DEF Socket
<1>13. \A msg \in {"null", "alloc"}, reading \in {"no", "yes", "ended"} :
        [q EXCEPT !.msg = msg, !.reading = reading] \in Socket
  BY Zenon DEF Socket
<1>14. \A h \in Handles, peer \in {"up", "down"} :
        [q EXCEPT !.handle = h, !.peer = peer] \in Socket
  BY Zenon DEF Socket
<1>15. \A peer \in {"up", "down"} :
        [q EXCEPT !.peer = peer] \in Socket
  BY Zenon DEF Socket
<1> QED
  BY <1>1, <1>2, <1>3, <1>4, <1>5, <1>6, <1>7, <1>8, <1>9, <1>10,
     <1>11, <1>12, <1>13, <1>14, <1>15

\* What an action may take from the invariant about its socket.
LEMMA Facts ==
  ASSUME IndInv, NEW s \in Sockets
  PROVE  /\ sock \in [Sockets -> Socket] /\ sock[s] \in Socket
         /\ due \in [Sockets -> [Promised -> Int]] /\ due[s] \in [Promised -> Int]
         /\ stack \in Seq(Frame) /\ cut \in BOOLEAN
         /\ Good(sock[s], due[s])
         /\ uris \in Nat /\ msgs \in Nat
<1>1. uris \in Nat /\ msgs \in Nat
  BY SetsFinite DEF IndInv, Heap, WithUri
<1> QED BY <1>1 DEF IndInv, Types

\* A socket whose handle is in use exists.
LEMMA InUse ==
  ASSUME IndInv, NEW s \in Sockets, sock[s].handle # "raw"
  PROVE  sock[s].obj = "live"
BY Facts DEF Good, NoSocket, Socket

-----------------------------------------------------------------------------
(* What an action that changes one socket must show.                       *)

One(P) == IF P THEN 1 ELSE 0

\* Each URI and each message that a socket gets or gives up is counted, if q
\* was its state and r is its new one; once messages may be lost, one may be
\* given up without.
UriCount(q, r) == uris' = uris + One(r.uri = "set") - One(q.uri = "set")

MsgCount(q, r) ==
  \/ msgs' = msgs + One(r.msg = "alloc") - One(q.msg = "alloc")
  \/ msgs' = msgs /\ cut /\ r.msg = "null"

\* The sets after the step.
LEMMA SetsAfter ==
  ASSUME sock \in [Sockets -> Socket], NEW s \in Sockets, NEW r,
         sock' = [sock EXCEPT ![s] = r]
  PROVE  /\ WithUri' = IF r.uri = "set" THEN WithUri \cup {s} ELSE WithUri \ {s}
         /\ WithMsg' = IF r.msg = "alloc" THEN WithMsg \cup {s} ELSE WithMsg \ {s}
BY DEF WithUri, WithMsg

\* The counters of URIs and messages stay those of the owners.
LEMMA HeapAfter ==
  ASSUME IndInv, NEW s \in Sockets, NEW r \in Socket, sock' = [sock EXCEPT ![s] = r],
         UriCount(sock[s], r), MsgCount(sock[s], r), cut => cut'
  PROVE  Heap'
<1> USE DEF IndInv, Heap, UriCount, MsgCount, One
<1>0. sock \in [Sockets -> Socket]
  BY DEF Types
<1>1. WithUri \in SUBSET Sockets /\ WithMsg \in SUBSET Sockets
  BY DEF WithUri, WithMsg
<1>2. /\ sock[s].uri = "set" <=> s \in WithUri
      /\ sock[s].msg = "alloc" <=> s \in WithMsg
  BY DEF WithUri, WithMsg
<1>3. Cardinality(WithUri) \in Nat /\ Cardinality(WithMsg) \in Nat
  BY <1>1, SetsFinite
<1>4. /\ WithUri' = IF r.uri = "set" THEN WithUri \cup {s} ELSE WithUri \ {s}
      /\ WithMsg' = IF r.msg = "alloc" THEN WithMsg \cup {s} ELSE WithMsg \ {s}
  BY <1>0, SetsAfter
<1>5. uris' = Cardinality(WithUri')
  BY <1>1, <1>2, <1>3, <1>4, OneMore, OneLess
<1>6. /\ Cardinality(WithMsg') = Cardinality(WithMsg)
             + (IF r.msg = "alloc" THEN 1 ELSE 0)
             - (IF sock[s].msg = "alloc" THEN 1 ELSE 0)
      /\ Cardinality(WithMsg') \in Nat
  BY <1>1, <1>2, <1>3, <1>4, OneMore, OneLess
<1>7. msgs' \in Nat /\ Cardinality(WithMsg') <= msgs'
  BY <1>3, <1>6
<1>8. ~ cut' => msgs' = Cardinality(WithMsg')
  BY <1>3, <1>6
<1> QED BY <1>5, <1>7, <1>8

\* The callbacks of socket s that are being executed still find what they need
\* when it changes to r.
Keeps(s, r) ==
  \A cb \in Callbacks : Executing(cb, s) /\ Held(cb, sock[s]) => Held(cb, r)

\* No callback returns; one of socket s, which is now r, may be called.
Enters(s, r) ==
  \/ stack' = stack
  \/ \E cb \in Callbacks, err \in {"ok", "error", "ECANCELED"} :
       stack' = Call(cb, s, err) /\ Held(cb, r)

\* The callbacks being executed, and the new one, keep what they need.
LEMMA FramesAfter ==
  ASSUME IndInv, NEW s \in Sockets, Enters(s, sock'[s]),
         \A t \in Sockets : Keeps(t, sock'[t])
  PROVE  /\ Frames'
         /\ stack' \in Seq(Frame)
         /\ \A cb \in Callbacks, t \in Sockets : Executing(cb, t) => Executing(cb, t)'
<1>0. stack \in Seq(Frame)
  BY DEF IndInv, Types
<1>1. ASSUME NEW i \in DOMAIN stack
      PROVE  Held(stack[i].cb, sock'[stack[i].sock])
  <2>0. stack[i] \in Frame
    BY <1>0
  <2>1. stack[i].cb \in Callbacks /\ stack[i].sock \in Sockets
    BY <2>0 DEF Frame
  <2>2. Held(stack[i].cb, sock[stack[i].sock])
    BY DEF IndInv, Frames
  <2>3. Executing(stack[i].cb, stack[i].sock)
    BY DEF Executing
  <2> QED BY <2>1, <2>2, <2>3 DEF Keeps
<1>2. CASE stack' = stack
  BY <1>0, <1>1, <1>2 DEF Frames, Executing
<1>3. ASSUME NEW cb \in Callbacks, NEW err \in {"ok", "error", "ECANCELED"},
             stack' = Call(cb, s, err), Held(cb, sock'[s])
      PROVE  /\ Frames'
             /\ stack' \in Seq(Frame)
             /\ \A c \in Callbacks, t \in Sockets : Executing(c, t) => Executing(c, t)'
  <2> DEFINE f == [cb |-> cb, sock |-> s, err |-> err]
  <2>0. stack' = Append(stack, f)
    BY <1>3 DEF Call
  <2>1. f.cb = cb /\ f.sock = s /\ f \in Frame
    BY DEF Frame
  <2> HIDE DEF f
  <2>2. /\ DOMAIN stack' = 1 .. Len(stack) + 1
        /\ DOMAIN stack = 1 .. Len(stack) /\ Len(stack) \in Nat
        /\ \A i \in DOMAIN stack : stack'[i] = stack[i]
        /\ stack'[Len(stack) + 1] = f
        /\ stack' \in Seq(Frame)
    BY <1>0, <2>0, <2>1
  <2>3. ASSUME NEW i \in DOMAIN stack'
        PROVE  Held(stack'[i].cb, sock'[stack'[i].sock])
    <3>1. CASE i = Len(stack) + 1
      BY <3>1, <2>1, <2>2, <1>3
    <3>2. CASE i # Len(stack) + 1
      BY <3>2, <2>2, <1>1
    <3> QED BY <3>1, <3>2
  <2>4. Frames'
    BY <2>3 DEF Frames
  <2>5. ASSUME NEW c \in Callbacks, NEW t \in Sockets, Executing(c, t)
        PROVE  Executing(c, t)'
    BY <2>2, <2>5 DEF Executing
  <2> QED BY <2>2, <2>4, <2>5
<1> QED BY <1>2, <1>3 DEF Enters

\* A message that socket s has at the end of the step is still to be freed.
FreedAfter(s, r) ==
  ~ cut' /\ r.msg = "alloc" =>
    \/ r.handle = "open"
    \/ r.handle = "closing" /\ Executing("on_recv", s)
    \/ r.handle = sock[s].handle /\ sock[s].msg = "alloc"

\* A step that changes one socket in these ways keeps the invariant.
LEMMA OneSocket ==
  ASSUME IndInv, NEW s \in Sockets, NEW r \in Socket, NEW d \in [Promised -> Int],
         sock' = [sock EXCEPT ![s] = r], due' = [due EXCEPT ![s] = d],
         cut' \in BOOLEAN, cut => cut',
         Good(r, d), Keeps(s, r), Enters(s, r),
         UriCount(sock[s], r), MsgCount(sock[s], r), FreedAfter(s, r)
  PROVE  IndInv'
<1>0. sock \in [Sockets -> Socket] /\ due \in [Sockets -> [Promised -> Int]]
  BY Facts
<1>1. /\ sock'[s] = r /\ due'[s] = d
      /\ \A t \in Sockets \ {s} : sock'[t] = sock[t] /\ due'[t] = due[t]
      /\ sock' \in [Sockets -> Socket] /\ due' \in [Sockets -> [Promised -> Int]]
  BY <1>0
<1>2. \A t \in Sockets : Good(sock'[t], due'[t])
  BY <1>1, Facts
<1>3. /\ Frames' /\ stack' \in Seq(Frame)
      /\ \A cb \in Callbacks, t \in Sockets : Executing(cb, t) => Executing(cb, t)'
  <2>1. \A t \in Sockets : Keeps(t, sock'[t])
    BY <1>1 DEF Keeps
  <2>2. Enters(s, sock'[s])
    BY <1>1
  <2> QED BY <2>1, <2>2, FramesAfter
<1>4. Heap'
  BY HeapAfter
<1>5. ASSUME NEW t \in WithMsg', ~ cut'
      PROVE  \/ sock'[t].handle = "open"
             \/ sock'[t].handle = "closing" /\ Executing("on_recv", t)'
  <2>1. t \in Sockets /\ sock'[t].msg = "alloc" /\ ~ cut
    BY <1>5 DEF WithMsg
  <2>2. Executing("on_recv", t) => Executing("on_recv", t)'
    BY <2>1, <1>3 DEF Callbacks
  <2>3. CASE t = s
    BY <1>1, <1>5, <2>1, <2>2, <2>3 DEF FreedAfter, IndInv, Freed, WithMsg
  <2>4. CASE t # s
    BY <1>1, <2>1, <2>2, <2>4 DEF IndInv, Freed, WithMsg
  <2> QED BY <2>3, <2>4
<1>6. Freed'
  BY <1>5 DEF Freed
<1>7. Types'
  BY <1>1, <1>3 DEF Types
<1> QED BY <1>2, <1>3, <1>4, <1>6, <1>7 DEF IndInv

\* Nothing changes but the callbacks that are executed.
LEMMA NoSocketChanged ==
  ASSUME IndInv, NEW s \in Sockets, UNCHANGED <<sock, due, uris, msgs, cut>>,
         Enters(s, sock[s])
  PROVE  IndInv'
<1>1. sock' = [sock EXCEPT ![s] = sock[s]] /\ due' = [due EXCEPT ![s] = due[s]]
  BY Facts
<1>2. UriCount(sock[s], sock[s]) /\ MsgCount(sock[s], sock[s])
  BY Facts DEF UriCount, MsgCount, One
<1> QED
  BY <1>1, <1>2, Facts, OneSocket DEF Keeps, FreedAfter

\* The URI and the message of the socket stay, and its handle does not leave a
\* state in which its message is safe.
LEMMA QuietInd ==
  ASSUME IndInv, NEW s \in Sockets, NEW r \in Socket, NEW d \in [Promised -> Int],
         sock' = [sock EXCEPT ![s] = r], due' = [due EXCEPT ![s] = d],
         UNCHANGED <<uris, msgs, cut>>,
         r.uri = sock[s].uri, r.msg = sock[s].msg,
         \/ r.handle = sock[s].handle
         \/ sock[s].handle \notin {"open", "closing"}
         \/ sock[s].handle = "closing" /\ stack = << >>,
         Good(r, d), Keeps(s, r), Enters(s, r)
  PROVE  IndInv'
<1>1. UriCount(sock[s], r) /\ MsgCount(sock[s], r)
  BY Facts DEF UriCount, MsgCount, One
<1>2. FreedAfter(s, r)
  <2>1. stack = << >> => ~ Executing("on_recv", s)
    BY DEF Executing
  <2> QED BY <2>1 DEF FreedAfter, IndInv, Freed, WithMsg
<1> QED BY <1>1, <1>2, Facts, OneSocket

-----------------------------------------------------------------------------
(* The calls of the application.                                           *)

\* sc_socket_new: the socket was none.
LEMMA NewInd ==
  ASSUME IndInv, NEW s \in Sockets, sc_socket_new(s) PROVE IndInv'
<1> USE DEF sc_socket_new
<1>1. sock[s] = NoSocket /\ Good(sock[s], due[s]) /\ uris \in Nat /\ msgs \in Nat
  BY Facts DEF Good
<1>2. due' = [due EXCEPT ![s] = due[s]]
  BY Facts
<1>3. Good(buv_init, due[s])
  BY <1>1 DEF Good, buv_init, NoSocket
<1>4. Keeps(s, buv_init) /\ Enters(s, buv_init) /\ FreedAfter(s, buv_init)
  BY <1>1 DEF Keeps, Enters, Held, FreedAfter, buv_init, NoSocket
<1>5. UriCount(sock[s], buv_init) /\ MsgCount(sock[s], buv_init)
  BY <1>1 DEF UriCount, MsgCount, One, buv_init, NoSocket
<1> QED BY <1>2, <1>3, <1>4, <1>5, Values, Facts, OneSocket

\* sc_socket_del: the socket is not open, so that no callback needs it, and its
\* URI is freed with it.
LEMMA DelInd ==
  ASSUME IndInv, NEW s \in Sockets, sc_socket_del(s) PROVE IndInv'
<1> USE DEF sc_socket_del, MayDelete, MayOpen, FreeSocket
<1>1. sock[s] \in Socket /\ Good(sock[s], due[s]) /\ uris \in Nat /\ msgs \in Nat
  BY Facts
<1>2. due' = [due EXCEPT ![s] = due[s]]
  BY Facts
<1>3. Good(NoSocket, due[s])
  BY <1>1 DEF Good, NoSocket, Socket
<1>4. Keeps(s, NoSocket) /\ Enters(s, NoSocket) /\ FreedAfter(s, NoSocket)
  BY <1>1 DEF Keeps, Enters, Held, FreedAfter, NoSocket
<1>5. UriCount(sock[s], NoSocket)
  BY <1>1 DEF UriCount, One, NoSocket, Socket
<1>6. MsgCount(sock[s], NoSocket)
  <2>1. ~ cut => sock[s].msg = "null"
    BY <1>1 DEF IndInv, Freed, WithMsg, Socket
  <2> QED BY <1>1, <2>1, Facts DEF MsgCount, One, NoSocket
<1> QED BY <1>2, <1>3, <1>4, <1>5, <1>6, Values, Facts, OneSocket

\* A socket that is given a URI by connect or bind is in no callback that needs
\* it, and has a message only if one was lost before.
LEMMA NamedInd ==
  ASSUME IndInv, NEW s \in Sockets, NEW r \in Socket, NEW d \in [Promised -> Int],
         MayName(s), sock' = [sock EXCEPT ![s] = r], due' = [due EXCEPT ![s] = d],
         uris' = uris + 1, UNCHANGED <<stack, msgs, cut>>,
         r.uri = "set", r.msg = sock[s].msg, Good(r, d)
  PROVE  IndInv'
<1> USE DEF MayName, MayOpen
<1>1. Keeps(s, r) /\ Enters(s, r)
  BY DEF Keeps, Enters, Held
<1>2. FreedAfter(s, r)
  BY Facts DEF FreedAfter, IndInv, Freed, WithMsg
<1>3. UriCount(sock[s], r) /\ MsgCount(sock[s], r)
  BY Facts DEF UriCount, MsgCount, One
<1> QED BY <1>1, <1>2, <1>3, Facts, OneSocket

\* sc_socket_connect, on each of its error paths.
LEMMA ConnectInd ==
  ASSUME IndInv, NEW s \in Sockets, NEW u \in Protocols \cup {"bad"}, sc_socket_connect(s, u)
  PROVE  IndInv'
<1> USE DEF sc_socket_connect
<1>1. CASE u = "bad" /\ UNCHANGED <<sock, uris, due>>
  BY <1>1, NoSocketChanged DEF Enters
<1>2. CASE u # "bad" /\ uris' = uris + 1 /\ buv_connect(s, u)
  <2> DEFINE q == sock[s]
             r1 == [q EXCEPT !.uri = "set"]
             r2 == [q EXCEPT !.uri = "set", !.handle = "init"]
             r3 == [q EXCEPT !.uri = "set", !.handle = "connecting", !.creq = "pending"]
             d3 == [due[s] EXCEPT !["on_connect"] = due[s]["on_connect"] + 1]
  <2>1. /\ MayName(s) /\ UNCHANGED <<stack, msgs, cut>> /\ uris' = uris + 1
        /\ q \in Socket /\ due[s] \in [Promised -> Int] /\ Good(q, due[s])
        /\ q.obj = "live" /\ q.handle \in {"raw", "closed"}
    BY <1>2, Facts DEF MayName, MayOpen
  <2>2. r1 \in Socket /\ r2 \in Socket /\ r3 \in Socket
    BY <2>1, Values, Updates
  <2>3. d3 \in [Promised -> Int]
    BY <2>1 DEF Promised
  <2>4. /\ r1.uri = "set" /\ r1.msg = q.msg /\ Good(r1, due[s])
        /\ r2.uri = "set" /\ r2.msg = q.msg /\ Good(r2, due[s])
        /\ r3.uri = "set" /\ r3.msg = q.msg /\ Good(r3, d3)
    BY <2>1 DEF Good, Socket, Promised
  <2>5. \/ sock' = [sock EXCEPT ![s] = r1] /\ due' = [due EXCEPT ![s] = due[s]]
        \/ sock' = [sock EXCEPT ![s] = r2] /\ due' = [due EXCEPT ![s] = due[s]]
        \/ sock' = [sock EXCEPT ![s] = r3] /\ due' = [due EXCEPT ![s] = d3]
    BY <1>2, Facts DEF buv_connect
  <2> HIDE DEF r1, r2, r3, d3
  <2> QED BY <2>1, <2>2, <2>3, <2>4, <2>5, NamedInd
<1> QED BY <1>1, <1>2

\* sc_socket_bind, on each of its error paths: the protocol is known before the
\* handle is bound.
LEMMA BindInd ==
  ASSUME IndInv, NEW s \in Sockets, NEW u \in Protocols \cup {"bad"}, sc_socket_bind(s, u)
  PROVE  IndInv'
<1> USE DEF sc_socket_bind
<1>1. CASE u = "bad" /\ UNCHANGED <<sock, uris, due>>
  BY <1>1, NoSocketChanged DEF Enters
<1>2. CASE u # "bad" /\ uris' = uris + 1 /\ buv_bind(s, u)
  <2>1. PICK h \in {sock[s].handle, "init", "bound"} :
          sock' = [sock EXCEPT ![s].uri = "set", ![s].proto = u, ![s].handle = h]
    BY <1>2 DEF buv_bind
  <2> DEFINE q == sock[s]
             r == [q EXCEPT !.uri = "set", !.proto = u, !.handle = h]
  <2>2. /\ MayName(s) /\ UNCHANGED <<stack, msgs, cut>> /\ uris' = uris + 1
        /\ q \in Socket /\ due[s] \in [Promised -> Int] /\ Good(q, due[s])
        /\ q.obj = "live" /\ q.handle \in {"raw", "closed"}
    BY <1>2, Facts DEF MayName, MayOpen
  <2>3. h \in Handles /\ u \in Protocols /\ u \in Protocols \cup {"noset"}
    BY <1>2, <2>2, Values DEF Protocols, Socket
  <2>4. r \in Socket
    BY <2>2, <2>3, Updates
  <2>5. r.uri = "set" /\ r.msg = q.msg /\ Good(r, due[s])
    BY <2>2, <2>3 DEF Good, Socket
  <2>6. sock' = [sock EXCEPT ![s] = r] /\ due' = [due EXCEPT ![s] = due[s]]
    BY <1>2, <2>1, Facts DEF buv_bind
  <2> HIDE DEF r
  <2> QED BY <2>2, <2>4, <2>5, <2>6, NamedInd
<1> QED BY <1>1, <1>2

\* sc_socket_listen: a bound handle has its protocol.
LEMMA ListenInd ==
  ASSUME IndInv, NEW s \in Sockets, sc_socket_listen(s) PROVE IndInv'
<1> USE DEF sc_socket_listen
<1>1. CASE UNCHANGED sock
  BY <1>1, NoSocketChanged DEF Enters
<1>2. CASE sock' = [sock EXCEPT ![s].handle = "listening"]
  <2> DEFINE r == [sock[s] EXCEPT !.handle = "listening"]
  <2>1. r \in Socket
    BY Facts, Values, Updates
  <2>2. sock' = [sock EXCEPT ![s] = r] /\ due' = [due EXCEPT ![s] = due[s]]
    BY <1>2, Facts
  <2>3. /\ r.uri = sock[s].uri /\ r.msg = sock[s].msg
        /\ Good(r, due[s]) /\ Keeps(s, r)
    BY Facts DEF Good, Keeps, Held, Socket
  <2>4. Enters(s, r)
    BY DEF Enters
  <2> HIDE DEF r
  <2> QED BY <2>1, <2>2, <2>3, <2>4, Facts, QuietInd
<1> QED BY <1>1, <1>2

\* buv_send: the write request was idle, so that nothing was owed for it.
LEMMA SendInd ==
  ASSUME IndInv, NEW s \in Sockets, buv_send(s) PROVE IndInv'
<1> USE DEF buv_send, MaySend
<1>1. CASE UNCHANGED <<sock, due>>
  BY <1>1, NoSocketChanged DEF Enters
<1>2. CASE /\ sock' = [sock EXCEPT ![s].wreq = "pending"]
           /\ due' = [due EXCEPT ![s]["on_send"] = @ + 1]
  <2> DEFINE r == [sock[s] EXCEPT !.wreq = "pending"]
             d == [due[s] EXCEPT !["on_send"] = due[s]["on_send"] + 1]
  <2>0. r \in Socket
    BY Facts, Updates
  <2>1. d \in [Promised -> Int]
    BY Facts DEF Promised
  <2>2. sock' = [sock EXCEPT ![s] = r] /\ due' = [due EXCEPT ![s] = d]
    BY <1>2, Facts
  <2>3. /\ r.uri = sock[s].uri /\ r.msg = sock[s].msg /\ r.handle = sock[s].handle
        /\ Good(r, d) /\ Keeps(s, r)
    BY Facts DEF Good, Keeps, Held, Socket, Promised
  <2>4. Enters(s, r)
    BY DEF Enters
  <2> HIDE DEF r, d
  <2> QED BY <2>0, <2>1, <2>2, <2>3, <2>4, QuietInd
<1> QED BY <1>1, <1>2

\* sc_socket_close: pending requests stay owed, a message stays with its on_recv
\* or is cut.
LEMMA CloseInd ==
  ASSUME IndInv, NEW s \in Sockets, sc_socket_close(s) PROVE IndInv'
<1> USE DEF sc_socket_close, MayClose
<1> DEFINE r == [sock[s] EXCEPT !.handle = "closing", !.reading = "no",
                                !.taken = "no", !.uri = "null"]
           d == [due[s] EXCEPT !["on_close"] = due[s]["on_close"] + 1]
<1>1. r \in Socket
  BY Facts, Values, Updates
<1>2. d \in [Promised -> Int]
  BY Facts DEF Promised
<1>3. sock' = [sock EXCEPT ![s] = r] /\ due' = [due EXCEPT ![s] = d]
  BY Facts
<1>4. /\ r.uri = "null" /\ r.msg = sock[s].msg /\ r.handle = "closing"
      /\ r.obj = "live" /\ r.proto = sock[s].proto
  BY Facts DEF Socket
<1>5. Good(r, d)
  BY Facts DEF Good, Socket, Promised
<1> HIDE DEF r, d
<1>6. Keeps(s, r) /\ Enters(s, r)
  BY <1>4 DEF Keeps, Enters, Held
<1>7. FreedAfter(s, r)
  BY <1>4 DEF FreedAfter, Cuts
<1>8. UriCount(sock[s], r) /\ MsgCount(sock[s], r)
  BY <1>4, Facts DEF UriCount, MsgCount, One, Socket
<1>9. cut' \in BOOLEAN /\ (cut => cut')
  BY Facts
<1> QED BY <1>1, <1>2, <1>3, <1>5, <1>6, <1>7, <1>8, <1>9, OneSocket

-----------------------------------------------------------------------------
(* The loop.                                                               *)

\* The other end goes away.
LEMMA PeerDownInd ==
  ASSUME IndInv, NEW s \in Sockets, PeerDown(s) PROVE IndInv'
<1> USE DEF PeerDown
<1> DEFINE r == [sock[s] EXCEPT !.peer = "down"]
<1>1. r \in Socket
  BY Facts, Updates
<1>2. sock' = [sock EXCEPT ![s] = r] /\ due' = [due EXCEPT ![s] = due[s]]
  BY Facts
<1>3. sock[s].obj = "live"
  BY InUse
<1>4. /\ r.uri = sock[s].uri /\ r.msg = sock[s].msg /\ r.handle = sock[s].handle
      /\ Good(r, due[s]) /\ Keeps(s, r) /\ Enters(s, r)
  BY <1>3, Facts DEF Good, Keeps, Enters, Held, Socket
<1> HIDE DEF r
<1> QED BY <1>1, <1>2, <1>4, Facts, QuietInd

\* on_connect_wrap answers the one connect.
LEMMA OnConnectWrapInd ==
  ASSUME IndInv, NEW s \in Sockets, on_connect_wrap(s) PROVE IndInv'
<1> USE DEF on_connect_wrap
<1>1. PICK ok \in BOOLEAN :
        /\ sock' = [sock EXCEPT ![s].creq = "idle",
                                ![s].handle = IF ok THEN "open" ELSE "failed",
                                ![s].peer = IF ok THEN "up" ELSE "down"]
        /\ stack' = Call("on_connect", s, IF ok THEN "ok" ELSE "error")
  OBVIOUS
<1> DEFINE h == IF ok THEN "open" ELSE "failed"
           p == IF ok THEN "up" ELSE "down"
           r == [sock[s] EXCEPT !.creq = "idle", !.handle = h, !.peer = p]
           d == [due[s] EXCEPT !["on_connect"] = due[s]["on_connect"] - 1]
<1>2. h \in Handles /\ p \in {"up", "down"} /\ h \in {"open", "failed"}
  BY Values
<1>3. sock' = [sock EXCEPT ![s] = r] /\ due' = [due EXCEPT ![s] = d]
  BY <1>1, Facts
<1> HIDE DEF h, p
<1>4. r \in Socket
  BY <1>2, Facts, Updates
<1>5. d \in [Promised -> Int]
  BY Facts DEF Promised
<1>6. sock[s].obj = "live"
  BY InUse
<1>7. r.uri = sock[s].uri /\ r.msg = sock[s].msg /\ Good(r, d)
  BY <1>2, <1>6, Facts DEF Good, Socket, Promised
<1>8. Keeps(s, r)
  BY DEF Keeps, Executing
<1>9. Enters(s, r)
  BY <1>1 DEF Enters, Callbacks, Promised, Held
<1> HIDE DEF r, d
<1> QED BY <1>3, <1>4, <1>5, <1>7, <1>8, <1>9, QuietInd

\* write_wrap answers the one send.
LEMMA WriteWrapInd ==
  ASSUME IndInv, NEW s \in Sockets, write_wrap(s) PROVE IndInv'
<1> USE DEF write_wrap
<1> DEFINE r == [sock[s] EXCEPT !.wreq = "idle"]
           d == [due[s] EXCEPT !["on_send"] = due[s]["on_send"] - 1]
<1>1. r \in Socket
  BY Facts, Updates
<1>2. d \in [Promised -> Int]
  BY Facts DEF Promised
<1>3. sock' = [sock EXCEPT ![s] = r] /\ due' = [due EXCEPT ![s] = d]
  BY Facts
<1>4. sock[s].obj = "live"
  BY InUse
<1>5. /\ r.uri = sock[s].uri /\ r.msg = sock[s].msg /\ r.handle = sock[s].handle
      /\ Good(r, d)
  BY <1>4, Facts DEF Good, Socket, Promised
<1> HIDE DEF r, d
<1>6. Keeps(s, r)
  BY DEF Keeps, Executing
<1>7. Enters(s, r)
  <2>1. \E err \in {"ok", "error", "ECANCELED"} : stack' = Call("on_send", s, err)
    OBVIOUS
  <2> QED BY <2>1 DEF Enters, Callbacks, Promised, Held
<1> QED BY <1>1, <1>2, <1>3, <1>5, <1>6, <1>7, QuietInd

\* on_connection_wrap: the listener has its protocol.
LEMMA OnConnectionWrapInd ==
  ASSUME IndInv, NEW s \in Sockets, on_connection_wrap(s) PROVE IndInv'
<1> USE DEF on_connection_wrap
<1>1. sock[s].proto \in Protocols /\ sock[s].obj = "live" /\ sock[s].handle = "listening"
  BY InUse, Facts DEF Good
<1>2. CASE sock' = [sock EXCEPT ![s].taken = "yes"] /\ stack' = Call("on_connection", s, "ok")
  <2> DEFINE r == [sock[s] EXCEPT !.taken = "yes"]
  <2>1. r \in Socket
    BY Facts, Updates
  <2>2. sock' = [sock EXCEPT ![s] = r] /\ due' = [due EXCEPT ![s] = due[s]]
    BY <1>2, Facts
  <2>3. /\ r.uri = sock[s].uri /\ r.msg = sock[s].msg /\ r.handle = "listening"
        /\ r.proto \in Protocols /\ Good(r, due[s])
    BY <1>1, Facts DEF Good, Socket
  <2> HIDE DEF r
  <2>4. Keeps(s, r)
    BY DEF Keeps, Executing
  <2>5. Enters(s, r)
    BY <1>2, <2>3 DEF Enters, Callbacks, Held
  <2> QED BY <1>1, <2>1, <2>2, <2>3, <2>4, <2>5, Facts, QuietInd
<1>3. CASE UNCHANGED sock /\ stack' = Call("on_connection", s, "error")
  <2>1. Enters(s, sock[s])
    BY <1>1, <1>3 DEF Enters, Callbacks, Held
  <2> QED BY <1>3, <2>1, NoSocketChanged
<1> QED BY <1>2, <1>3

\* read_wrap: a message comes from the heap unless there was one.
LEMMA ReadWrapInd ==
  ASSUME IndInv, NEW s \in Sockets, NEW what \in {"part", "msg", "end"},
         read_wrap(s, what)
  PROVE  IndInv'
<1> USE DEF read_wrap
<1> DEFINE rd == IF what = "end" THEN "ended" ELSE sock[s].reading
           r == [sock[s] EXCEPT !.msg = "alloc", !.reading = rd]
<1>1. sock' = [sock EXCEPT ![s] = r] /\ due' = [due EXCEPT ![s] = due[s]]
  BY Facts
<1>2. rd \in {"no", "yes", "ended"}
  BY Facts DEF Socket
<1> HIDE DEF rd
<1>3. r \in Socket
  BY <1>2, Facts, Updates
<1>4. sock[s].obj = "live"
  BY InUse
<1>5. /\ r.uri = sock[s].uri /\ r.msg = "alloc" /\ r.handle = "open" /\ r.obj = "live"
      /\ Good(r, due[s])
  BY <1>4, Facts DEF Good, Socket
<1> HIDE DEF r
<1>6. Keeps(s, r) /\ FreedAfter(s, r)
  BY <1>5 DEF Keeps, Executing, FreedAfter
<1>7. Enters(s, r)
  <2>1. stack' = stack \/ \E err \in {"ok", "error", "ECANCELED"} :
                            stack' = Call("on_recv", s, err)
    OBVIOUS
  <2>2. Held("on_recv", r)
    BY <1>5 DEF Held
  <2> QED BY <2>1, <2>2 DEF Enters, Callbacks
<1>8. UriCount(sock[s], r) /\ MsgCount(sock[s], r)
  BY <1>5, Facts DEF UriCount, MsgCount, One, Socket
<1> QED BY <1>1, <1>3, <1>5, <1>6, <1>7, <1>8, Facts, OneSocket

\* The requests pending at uv_close are answered one by one.
LEMMA CancelWrapInd ==
  ASSUME IndInv, NEW s \in Sockets, cancel_wrap(s) PROVE IndInv'
<1> USE DEF cancel_wrap
<1>0. sock[s].obj = "live" /\ "on_connect" \in Callbacks /\ "on_send" \in Callbacks
  BY InUse DEF Callbacks, Promised
<1>1. CASE /\ sock[s].creq = "pending"
           /\ sock' = [sock EXCEPT ![s].creq = "idle"]
           /\ stack' = Call("on_connect", s, "ECANCELED")
           /\ due' = [due EXCEPT ![s]["on_connect"] = @ - 1]
  <2> DEFINE r == [sock[s] EXCEPT !.creq = "idle"]
             d == [due[s] EXCEPT !["on_connect"] = due[s]["on_connect"] - 1]
  <2>1. r \in Socket
    BY Facts, Updates
  <2>2. d \in [Promised -> Int]
    BY Facts DEF Promised
  <2>3. sock' = [sock EXCEPT ![s] = r] /\ due' = [due EXCEPT ![s] = d]
    BY <1>1, Facts
  <2>4. /\ r.uri = sock[s].uri /\ r.msg = sock[s].msg /\ r.handle = sock[s].handle
        /\ Good(r, d)
    BY <1>0, <1>1, Facts DEF Good, Socket, Promised
  <2> HIDE DEF r, d
  <2>5. Keeps(s, r)
    BY DEF Keeps, Executing
  <2>6. Enters(s, r)
    BY <1>0, <1>1 DEF Enters, Held
  <2> QED BY <2>1, <2>2, <2>3, <2>4, <2>5, <2>6, QuietInd
<1>2. CASE /\ sock[s].creq = "idle" /\ sock[s].wreq = "pending"
           /\ sock' = [sock EXCEPT ![s].wreq = "idle"]
           /\ stack' = Call("on_send", s, "ECANCELED")
           /\ due' = [due EXCEPT ![s]["on_send"] = @ - 1]
  <2> DEFINE r == [sock[s] EXCEPT !.wreq = "idle"]
             d == [due[s] EXCEPT !["on_send"] = due[s]["on_send"] - 1]
  <2>1. r \in Socket
    BY Facts, Updates
  <2>2. d \in [Promised -> Int]
    BY Facts DEF Promised
  <2>3. sock' = [sock EXCEPT ![s] = r] /\ due' = [due EXCEPT ![s] = d]
    BY <1>2, Facts
  <2>4. /\ r.uri = sock[s].uri /\ r.msg = sock[s].msg /\ r.handle = sock[s].handle
        /\ Good(r, d)
    BY <1>0, <1>2, Facts DEF Good, Socket, Promised
  <2> HIDE DEF r, d
  <2>5. Keeps(s, r)
    BY DEF Keeps, Executing
  <2>6. Enters(s, r)
    BY <1>0, <1>2 DEF Enters, Held
  <2> QED BY <2>1, <2>2, <2>3, <2>4, <2>5, <2>6, QuietInd
<1> QED BY <1>1, <1>2

\* close_wrap: everything else was answered, and no callback is executed.
LEMMA CloseWrapInd ==
  ASSUME IndInv, NEW s \in Sockets, close_wrap(s) PROVE IndInv'
<1> USE DEF close_wrap
<1> DEFINE r == [sock[s] EXCEPT !.handle = "closed", !.peer = "down"]
           d == [due[s] EXCEPT !["on_close"] = due[s]["on_close"] - 1]
<1>1. r \in Socket
  BY Facts, Values, Updates
<1>2. d \in [Promised -> Int]
  BY Facts DEF Promised
<1>3. sock' = [sock EXCEPT ![s] = r] /\ due' = [due EXCEPT ![s] = d]
  BY Facts
<1>4. sock[s].obj = "live"
  BY InUse
<1>5. r.uri = sock[s].uri /\ r.msg = sock[s].msg /\ Good(r, d)
  BY <1>4, Facts DEF Good, Socket, Promised
<1> HIDE DEF r, d
<1>6. Keeps(s, r)
  BY DEF Keeps, Executing
<1>7. Enters(s, r)
  BY DEF Enters, Callbacks, Promised, Held
<1> QED BY <1>1, <1>2, <1>3, <1>5, <1>6, <1>7, QuietInd

\* The callback that returns is the only one that ends, and if it is the
\* on_recv on which a message waits, the message is freed with it.
LEMMA ReturnInd ==
  ASSUME IndInv, Return PROVE IndInv'
<1> DEFINE f == Last(stack)
           s == f.sock
           held == f.cb = "on_recv" /\ sock[s].msg = "alloc"
           r == IF held THEN [sock[s] EXCEPT !.msg = "null"] ELSE sock[s]
<1>1. /\ stack \in Seq(Frame) /\ stack # << >> /\ cut \in BOOLEAN
      /\ sock \in [Sockets -> Socket] /\ due \in [Sockets -> [Promised -> Int]]
  BY DEF Return, IndInv, Types
<1>2. /\ Len(stack) \in Nat \ {0} /\ DOMAIN stack = 1 .. Len(stack)
      /\ f = stack[Len(stack)] /\ f \in Frame
      /\ stack' = SubSeq(stack, 1, Len(stack) - 1)
  BY <1>1 DEF Return, Last, Front
<1>3. /\ DOMAIN stack' = 1 .. Len(stack) - 1 /\ stack' \in Seq(Frame)
      /\ \A i \in DOMAIN stack' : stack'[i] = stack[i]
  BY <1>1, <1>2
<1>4. f.cb \in Callbacks /\ s \in Sockets
  BY <1>2 DEF Frame
<1>5. Held(f.cb, sock[s])
  BY <1>2 DEF IndInv, Frames
<1>6. /\ sock' = [sock EXCEPT ![s] = r]
      /\ msgs' = IF held THEN msgs - 1 ELSE msgs
      /\ UNCHANGED <<uris, due, cut>>
  BY <1>1, <1>4 DEF Return
<1>7. r \in Socket /\ (~ held => r = sock[s])
  BY <1>1, <1>4, Updates
<1>8. /\ r.uri = sock[s].uri /\ r.handle = sock[s].handle /\ r.obj = sock[s].obj
      /\ r.proto = sock[s].proto /\ r.msg = IF held THEN "null" ELSE sock[s].msg
      /\ r.creq = sock[s].creq /\ r.wreq = sock[s].wreq
      /\ r.reading = sock[s].reading /\ r.taken = sock[s].taken
  <2>1. sock[s] \in Socket
    BY <1>1, <1>4
  <2> HIDE DEF held, f, s
  <2> QED BY <2>1 DEF Socket
<1> HIDE DEF r
<1>9. Good(r, due[s])
  <2>1. CASE held
    <3>1. r.obj = "live"
      BY <2>1, <1>5, <1>8 DEF Held
    <3> QED BY <1>4, <1>8, <3>1, Facts DEF Good
  <2>2. CASE ~ held
    BY <2>2, <1>4, <1>7, Facts
  <2> QED BY <2>1, <2>2
<1> HIDE DEF f, s, held
<1>10. /\ sock'[s] = r /\ \A t \in Sockets \ {s} : sock'[t] = sock[t]
       /\ sock' \in [Sockets -> Socket]
  BY <1>1, <1>4, <1>6, <1>7
<1>11. Types'
  BY <1>1, <1>3, <1>6, <1>10 DEF Types
<1>12. \A t \in Sockets : Good(sock'[t], due'[t])
  BY <1>6, <1>9, <1>10, Facts
<1>13. Frames'
  <2>1. ASSUME NEW i \in DOMAIN stack'
        PROVE  Held(stack'[i].cb, sock'[stack'[i].sock])
    <3>1. i \in DOMAIN stack /\ stack'[i] = stack[i] /\ stack[i] \in Frame
      BY <1>1, <1>2, <1>3
    <3>2. stack[i].sock \in Sockets /\ Held(stack[i].cb, sock[stack[i].sock])
      BY <3>1 DEF Frame, IndInv, Frames
    <3> QED BY <1>8, <1>10, <3>1, <3>2 DEF Held
  <2> QED BY <2>1 DEF Frames
<1>14. Heap'
  <2>1. UriCount(sock[s], r)
    BY <1>4, <1>6, <1>8, Facts DEF UriCount, One
  <2>2. MsgCount(sock[s], r)
    BY <1>4, <1>6, <1>8, Facts DEF MsgCount, One, held
  <2> QED BY <1>4, <1>6, <1>7, <2>1, <2>2, HeapAfter
<1>15. Freed'
  <2>1. ASSUME NEW t \in WithMsg', ~ cut'
        PROVE  \/ sock'[t].handle = "open"
               \/ sock'[t].handle = "closing" /\ Executing("on_recv", t)'
    <3>1. t \in Sockets /\ sock'[t].msg = "alloc" /\ ~ cut
      BY <2>1, <1>6 DEF WithMsg
    <3>2. sock[t].msg = "alloc" /\ sock'[t].handle = sock[t].handle
      BY <3>1, <1>8, <1>10
    <3>3. ~ (f.cb = "on_recv" /\ s = t)
      BY <3>1, <3>2, <1>8, <1>10 DEF held
    <3>4. ASSUME Executing("on_recv", t) PROVE Executing("on_recv", t)'
      <4>1. PICK i \in DOMAIN stack : stack[i].cb = "on_recv" /\ stack[i].sock = t
        BY <3>4 DEF Executing
      <4>2. i # Len(stack)
        BY <4>1, <1>2, <3>3 DEF s
      <4>3. i \in DOMAIN stack'
        BY <4>1, <4>2, <1>2, <1>3
      <4> QED BY <4>1, <4>3, <1>3 DEF Executing
    <3> QED BY <3>1, <3>2, <3>4 DEF IndInv, Freed, WithMsg
  <2> QED BY <2>1 DEF Freed
<1> QED BY <1>11, <1>12, <1>13, <1>14, <1>15 DEF IndInv

-----------------------------------------------------------------------------
(* sc_socket_accept, which changes two sockets.                            *)

\* The listener and the socket it accepts into differ, and neither is in an
\* on_recv or on_connection that would miss what changes.
LEMMA AcceptInd ==
  ASSUME IndInv, NEW srv \in Sockets, NEW clt \in Sockets, buv_accept(srv, clt)
  PROVE  IndInv'
<1>1. /\ srv # clt /\ sock[clt].obj = "live" /\ sock[clt].handle \in {"raw", "closed"}
      /\ sock[srv].handle \in {"listening", "closing"}
      /\ UNCHANGED <<uris, due, msgs, cut>>
  BY DEF buv_accept, Listener, MayOpen
<1>2. \E err \in {"ok", "error", "ECANCELED"} : stack' = Call("on_accept", clt, err)
  BY DEF buv_accept
<1>3. \A q : Enters(clt, q)
  BY <1>2 DEF Enters, Callbacks, Held
<1>4. CASE UNCHANGED sock
  BY <1>1, <1>3, <1>4, NoSocketChanged
<1>5. ASSUME NEW h \in {"init", "open"}, NEW rd \in {"no", "yes"}, rd = "yes" => h = "open",
             sock' = [sock EXCEPT ![clt].proto = sock[srv].proto, ![clt].handle = h,
                                  ![clt].reading = rd, ![srv].taken = "no",
                                  ![clt].peer = IF h = "open" THEN "up" ELSE "down"]
      PROVE  IndInv'
  <2> DEFINE p == IF h = "open" THEN "up" ELSE "down"
             c == [sock[clt] EXCEPT !.proto = sock[srv].proto, !.handle = h,
                                    !.reading = rd, !.peer = p]
             l == [sock[srv] EXCEPT !.taken = "no"]
  <2>1. /\ sock \in [Sockets -> Socket] /\ sock[clt] \in Socket /\ sock[srv] \in Socket
        /\ Good(sock[clt], due[clt]) /\ Good(sock[srv], due[srv])
        /\ sock[srv].obj = "live"
    BY <1>1, Facts, InUse
  <2>2. /\ h \in Handles /\ rd \in {"no", "yes", "ended"} /\ p \in {"up", "down"}
        /\ sock[srv].proto \in Protocols \cup {"noset"}
    BY <2>1, Values DEF Socket
  <2>3. /\ sock'[clt] = c /\ sock'[srv] = l /\ sock' = [t \in Sockets |-> sock'[t]]
        /\ \A t \in Sockets \ {clt, srv} : sock'[t] = sock[t]
    <3>1. sock' = [sock EXCEPT ![clt].proto = sock[srv].proto, ![clt].handle = h,
                               ![clt].reading = rd, ![srv].taken = "no", ![clt].peer = p]
      BY <1>5
    <3> HIDE DEF p
    <3>2. sock'[clt] = c
      BY <1>1, <2>1, <3>1
    <3>3. sock'[srv] = l
      BY <1>1, <2>1, <3>1
    <3>4. sock' = [t \in Sockets |-> sock'[t]]
      BY <2>1, <3>1
    <3>5. \A t \in Sockets \ {clt, srv} : sock'[t] = sock[t]
      BY <2>1, <3>1
    <3> QED BY <3>2, <3>3, <3>4, <3>5
  <2> HIDE DEF p
  <2>4. c \in Socket /\ l \in Socket
    BY <2>1, <2>2, Updates
  <2>5. /\ c.uri = sock[clt].uri /\ c.msg = sock[clt].msg /\ c.handle = h
        /\ Good(c, due[clt])
    BY <1>1, <1>5, <2>1 DEF Good, Socket
  <2>6. /\ l.uri = sock[srv].uri /\ l.msg = sock[srv].msg /\ l.handle = sock[srv].handle
        /\ l.obj = sock[srv].obj /\ l.proto = sock[srv].proto
        /\ Good(l, due[srv])
    BY <1>1, <2>1 DEF Good, Socket
  <2> HIDE DEF c, l
  <2>7. /\ sock'[clt] = c /\ sock'[srv] = l /\ sock' \in [Sockets -> Socket]
        /\ \A t \in Sockets \ {clt, srv} : sock'[t] = sock[t]
    BY <2>1, <2>3, <2>4
  <2>8. \A t \in Sockets : Good(sock'[t], due'[t])
    <3>1. due' = due /\ \A t \in Sockets : Good(sock[t], due[t])
      BY <1>1, Facts
    <3>2. ASSUME NEW t \in Sockets PROVE Good(sock'[t], due[t])
      BY <2>5, <2>6, <2>7, <3>1
    <3> QED BY <3>1, <3>2
  <2>9. \A t \in Sockets : Keeps(t, sock'[t])
    BY <1>1, <2>6, <2>7 DEF Keeps, Held
  <2>10. /\ Frames' /\ stack' \in Seq(Frame)
         /\ \A cb \in Callbacks, t \in Sockets : Executing(cb, t) => Executing(cb, t)'
    BY <1>3, <2>9, FramesAfter
  <2>11. Types'
    BY <1>1, <2>7, <2>10, Facts DEF Types
  <2>12. WithUri' = WithUri /\ WithMsg' = WithMsg
    BY <2>5, <2>6, <2>7 DEF WithUri, WithMsg
  <2>13. Heap'
    BY <1>1, <2>12 DEF IndInv, Heap
  <2>14. ASSUME NEW t \in WithMsg', ~ cut'
         PROVE  \/ sock'[t].handle = "open"
                \/ sock'[t].handle = "closing" /\ Executing("on_recv", t)'
    <3>1. /\ t \in Sockets
          /\ \/ sock[t].handle = "open"
             \/ sock[t].handle = "closing" /\ Executing("on_recv", t)
      BY <1>1, <2>12, <2>14 DEF IndInv, Freed, WithMsg
    <3>2. sock'[t].handle = sock[t].handle
      BY <1>1, <2>6, <2>7, <3>1
    <3>3. Executing("on_recv", t) => Executing("on_recv", t)'
      BY <2>10, <3>1 DEF Callbacks
    <3> QED BY <3>1, <3>2, <3>3
  <2>15. Freed'
    BY <2>14 DEF Freed
  <2> QED BY <2>8, <2>10, <2>11, <2>13, <2>15 DEF IndInv
<1> QED BY <1>4, <1>5 DEF buv_accept

-----------------------------------------------------------------------------

\* Every step keeps the invariant.
LEMMA NextInd == IndInv /\ [Next]_vars => IndInv'
<1> SUFFICES ASSUME IndInv, [Next]_vars PROVE IndInv'
  OBVIOUS
<1>1. CASE Return
  BY <1>1, ReturnInd
<1>2. ASSUME NEW s \in Sockets, Application(s) PROVE IndInv'
  <2>1. UriStrings \subseteq Protocols \cup {"bad"}
    BY UrisAssumption DEF Protocols
  <2> QED
    BY <1>2, <2>1, NewInd, DelInd, ConnectInd, BindInd, ListenInd, AcceptInd, SendInd,
       CloseInd DEF Application
<1>3. ASSUME NEW s \in Sockets, Loop(s) PROVE IndInv'
  BY <1>3, OnConnectWrapInd, WriteWrapInd, OnConnectionWrapInd, ReadWrapInd,
     CancelWrapInd, CloseWrapInd, PeerDownInd DEF Loop
<1>4. CASE UNCHANGED vars
  <2> USE <1>4 DEF vars
  <2>1. Types' /\ (\A s \in Sockets : Good(sock'[s], due'[s])) /\ Frames'
    BY DEF IndInv, Types, Frames
  <2>2. WithUri' = WithUri /\ WithMsg' = WithMsg
    BY DEF WithUri, WithMsg
  <2>3. Heap' /\ Freed'
    BY <2>2 DEF IndInv, Heap, Freed, Executing
  <2> QED BY <2>1, <2>3 DEF IndInv
<1> QED BY <1>1, <1>2, <1>3, <1>4 DEF Next

\* The inductive invariant of the sockets, for any number of them, any depth
\* of nesting and any application that keeps to the conditions of Sockets.
THEOREM SocketsInvariance == Spec => []IndInv
BY InitInd, NextInd, PTL DEF Spec

\* Type correctness: in particular no counter of URIs or messages is ever
\* negative, so that nothing is freed twice.
THEOREM SocketsTypeCorrect == Spec => []TypeOK
<1>1. IndInv => TypeOK
  BY SetsFinite DEF IndInv, Types, Heap, WithUri, TypeOK
<1> QED BY <1>1, SocketsInvariance, PTL

\* Each accepted connect, send and close is answered exactly once, requests
\* before on_close, and nothing of one use of a socket is left for the next.
THEOREM SocketsAnswered == Spec => []AnsweredBeforeClosed
<1>1. IndInv => AnsweredBeforeClosed
  BY Facts DEF Good, Socket, AnsweredBeforeClosed
<1> QED BY <1>1, SocketsInvariance, PTL

\* Every struct uri on the heap belongs to exactly one socket.
THEOREM SocketsUrisOwned == Spec => []UrisOwned
<1>1. IndInv => UrisOwned
  BY DEF IndInv, Heap, WithUri, UrisOwned
<1> QED BY <1>1, SocketsInvariance, PTL

\* Every message on the heap is in the uv->msg of exactly one socket that will
\* free it, unless a socket was closed outside its on_recv in the middle of a
\* message.
THEOREM SocketsMsgsOwned == Spec => []MsgsOwned
<1>1. IndInv => MsgsOwned
  <2> SUFFICES ASSUME IndInv, ~ cut PROVE MsgsOwned
    BY DEF MsgsOwned
  <2>1. msgs = Cardinality({s \in Sockets : sock[s].msg = "alloc"})
    BY DEF IndInv, Heap, WithMsg
  <2>2. ASSUME NEW s \in Sockets, sock[s].handle \in {"raw", "closed"}
        PROVE  sock[s].msg = "null"
    BY <2>2, Facts DEF IndInv, Freed, WithMsg, Socket
  <2> QED BY <2>1, <2>2 DEF MsgsOwned
<1> QED BY <1>1, SocketsInvariance, PTL

\* read_wrap never touches a socket that was deleted during on_recv.
THEOREM SocketsAliveAfterRecv == Spec => []AliveAfterRecv
<1>1. IndInv => AliveAfterRecv
  BY DEF IndInv, Frames, Held, AliveAfterRecv
<1> QED BY <1>1, SocketsInvariance, PTL

\* The assertion at the start of buv_accept holds.
THEOREM SocketsListenerHasProto == Spec => []ListenerHasProto
<1>1. IndInv => ListenerHasProto
  <2> SUFFICES ASSUME IndInv, NEW s \in Sockets, Listener(s)
               PROVE  sock[s].proto \in Protocols
    BY DEF ListenerHasProto
  <2>1. CASE sock[s].handle = "listening"
    BY <2>1, Facts DEF Good
  <2>2. CASE Executing("on_connection", s)
    BY <2>2 DEF Executing, IndInv, Frames, Held
  <2> QED BY <2>1, <2>2 DEF Listener
<1> QED BY <1>1, SocketsInvariance, PTL
=============================================================================
