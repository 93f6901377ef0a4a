# A verification development for short-circuit

Short-circuit is, in the words of its README, "a socket library for loop-based
applications": a C library that sends and receives length-prefixed messages
over pipes and TCP, on top of libuv.  This directory holds TLA+ modules of its
core, the TLC configurations that check them on small instances, and proofs
that TLAPS checks.  Paths below are relative to the repository, which is
mounted as `src/`; `src/src/backend_uv.c` is the file `src/backend_uv.c` of the
repository.

    tlc -config MsgStream.cfg MCMsgStream        # and the other .cfg files
    tlapm MsgReaderProofs.tla
    tlapm MsgStreamProofs.tla
    tlapm SocketsProofs.tla
    tlapm ClientAppProofs.tla
    tlapm ServerAppProofs.tla
    tlapm UriProofs.tla
    tlapm LibraryProofs.tla
    tlapm ProgramsProofs.tla

## 1. The system

Everything runs on the thread of one libuv loop.  There is no lock and no
second thread; what makes the code hard is the order in which the loop calls
it back, the way a stream is cut into reads, and what the application does
inside a callback.

| component | state | operations | interacts with |
|---|---|---|---|
| message format, `msg.c` | `size_be`, `data` | `sc_msg_set_size`, `sc_msg_get_size`, alloc, free | reader, send |
| message reader, `msg_reader.c` | cursors `head_pos`, `body_pos` into a message | `init`, `avail_*`, `parse_*`, `finished` | called by `alloc_wrap` and `read_wrap` |
| libuv backend, `backend_uv.c` | `struct socket_uv`: handle, one connect request, one write request, message under construction, reader, protocol | connect, accept, bind, listen, send, close; callbacks `*_wrap` from the loop | libuv below, watcher above |
| sockets, `socket.c` | backend, URI, watcher | `sc_socket_*` | forwards to the backend; owns the URI |
| watcher, `watcher.c` | six function pointers | set by the application, called by the backend | the application |
| URIs, `uri.c` | the split string | `sc_uri_new`, `sc_uri_del`, accessors | sockets, connect, bind |
| set-up, `sc.c`, `backend.c`, `msg.c` | four global pointers: backend, loop, message allocator | `sc_init` | read by every other part |
| error texts, `sc.c`, `backend_uv.c` | none | `sc_strerror`, `buv_strerror` | numbers of libuv's `uv.h` and `uv/errno.h` |
| libuv's trees, `libs/.../uv/tree.h` | nodes linked into a tree | insert, remove, find, next, min, max | generated by macros for users of the vendored headers |
| test applications, `test/*.c` | flags of a shutdown or send protocol | callbacks, idle, async and signal handlers | the library |

What each part must get right:

* **Messages**: what `on_recv` sees is what was sent, in order and whole,
  however the stream is cut; no byte is stored outside the message; the
  buffer offered to libuv is never empty; at the end of a stream nothing that
  arrived whole is missing.
* **Sockets**: every accepted connect, send and close is answered exactly
  once, requests before `on_close`; nothing is used after it was freed; URIs
  have one owner; a listener knows its protocol; the end of a connection is
  reported.
* **URIs**: the strings of a reference definition are accepted and no others,
  the reason of a refusal is the right one, nothing leaks and nothing is written outside the
  four bytes of an address.
* **Set-up**: changing a global does not break what was made under the old
  value; a failed allocation loses nothing.
* **Error texts**: each error has a number and a text of its own, on every
  platform.
* **Trees**: they are ordered sets, whatever the sequence of operations, and
  their restoring loops end.
* **Applications**: they end when told to, lose nothing of their input, and
  leave no handle open when the loop ends.

The hazards, each with its line and the properties that cover it, are listed
in `PROJECT.json`.

## 2. The modules

### MsgReader: format and reader (operators only)

A reader is a record with the four bytes of the size field, the two cursors
as offsets, and the data stored so far.  `sc_msg_set_size` and
`sc_msg_get_size` convert to and from big-endian bytes; `Base` is the number
of values of a byte, so `Word = Base^4` is the range of the 32-bit `unsigned`
in which `msg_reader_avail_body_size` subtracts (modulo `Word`, as in C).
`msg_reader_parse_head` and `msg_reader_parse_body` take the bytes that libuv
stored at the cursor and move it; the C functions only move it because the
bytes are already in place.  `buffer_len` is the length of the window of
`alloc_wrap`, `parse` the dispatch in `read_wrap`.

### MsgStream: one direction of a connection

A peer sends messages (`buv_send`), the kernel transmits bytes (`Transmit`),
the write completes (`write_wrap`), the peer closes or dies at any point
(`PeerEnd`).  The accepting socket reads any number of bytes that have
arrived and fit the window (`read_data`), reads nothing (`read_again`,
`nread == 0`), or is told the end (`read_end`).  `read_data` is a whole round
of libuv's read: `alloc_wrap`, the bytes, `read_wrap`, `on_recv` if a message
is finished, the close that `on_recv` may do, and the release of the message.
The socket can be closed outside `on_recv` (`buv_close`), and accepted again
(`buv_accept`) with whatever is left in `uv->msg` and `uv->reader`.  The step
from close to the next accept stands for the asynchronous close that Sockets
models.

The sender waits for `on_send` between messages: a socket has one
`write_request`, and this is how `test/client.c` uses it.

Two variables record what went wrong and are read by no action but the guard
that stops after a memory error: `sync` becomes `"split"` when a message is
declared finished with an incomplete size field and `"stale"` when a
connection inherits a half-read message; `mem` becomes `"overrun"` when a byte
is stored past the buffer, after which the socket does nothing any more
(the behaviour is undefined).

### MsgChannel and MsgStreamChannel: what a connection promises

MsgChannel is the abstract specification: messages are sent, have arrived
whole or not, are delivered one by one in order, and then the end is reported.
There are no bytes in it.  MsgStreamChannel maps MsgStream to it: a message
has arrived when its last byte was transmitted.  `ImplementsChannel` says that
every step of the stream that keeps the framing is a step of the channel or
invisible in it; the steps that lose the framing, or leave the buffer, are the
subject of findings 1 and 2 and of the overrun.

### Sockets: life cycle and callbacks

Per socket: whether the object exists, the state of its libuv handle, the
protocol, the URI, reading, the two requests, a connection taken from the
backlog, whether the peer is there, and whether `uv->msg` holds a message that
`alloc_wrap` took from the heap.  `uris` and `msgs` count what is on the heap;
`cut` notes that a socket was closed outside its `on_recv` with a message half
read, after which nobody frees that message.  `stack` holds the application
callbacks that have not returned: the loop runs only when it is empty, the
application may call the library at any depth, and `sc_socket_accept` calls
`on_accept` before it returns.  Every error path of connect, bind, listen,
accept and send is an alternative of its action.

The application is arbitrary within five conditions, which the library does
not check.  Four are what libuv demands; `MayName` adds to `MayOpen` what the
library itself needs, since a bind or connect on a socket that has a URI leaks
it:

| condition | why |
|---|---|
| `MayOpen` | connect, bind and accept initialise the handle, which must not be in use |
| `MayName` | connect and bind overwrite `socket->uri` without freeing it |
| `MaySend` | one write request per socket |
| `MayClose` | `uv_close` needs an initialised handle, once |
| `MayDelete` | libuv holds pointers into the socket until `on_close` |

`cancel_wrap` and `PeerDown` are libuv's and the network's part: pending
requests are cancelled one after the other and then `close_wrap` is called.
libuv does this for one handle without a break; letting other sockets act in
between gives more behaviours, not fewer.

### ClientApp and ServerApp: the test applications

`test/client.c` and `test/server.c` are the only real users of the library in
the repository, and their hard part is the end: a signal, the end of the input
or a peer may start it at any moment, and four or five handles have to be
given up in an order that leaves none behind.  One action is one handler, run
to its end by the loop with the callbacks nested in it; handlers that are
ready run in any order, which includes the order of libuv's loop.  The library
behaves as in Sockets: requests are cancelled by a close and reach the
application as errors, the connecting side does not read, `on_accept` is
called inside `sc_socket_accept`.

`proc` is the state of the process.  Besides `"running"`, `"returned"` and
`"fatal"` it has values for what libuv forbids: `"misuse"` (a closed handle is
used or closed again), `"loop_busy"` (`uv_loop_close` refuses) and, in the
server, `"reinit"` (a handle in use is initialised again).  The program goes on
after any of them, the model does not: what libuv does then is undefined.  None
of them counts as an end of the process, and `HandlesRespected` is about all of
them.  `LoopAlive` is libuv's condition for `uv_run` to go on.

The server does get to `"reinit"`, which is finding 5.  `HandlesRespected` says
that this is the only misuse, and that it takes a second connection, accepted
while the client socket is open or closing; `SignalEnds` has the premise that it
does not happen.

In ClientApp a line of the input is its number.  `uv_write` gets a pointer to
the buffer, so `on_send` records what the buffer holds when the write is done;
`EndSeen` says whether `fgets` meets the end of the file with the last line.
In ServerApp the peers connect, send and go away at will; with `Sequential`
each of them waits for the one before to be gone, as in the test scripts.

### Programs: the small test programs and the watcher

`test/echo_server.c` and `test/send_hello.c` are modelled as what they are,
sequences of library calls in `main` and in a few handlers, executed on top of
the actions of Sockets.  `code` runs parallel to `stack`: what `main` and each
callback being executed have still to call.  `watcher` says which callbacks a
program has set; for the others the noop of `watcher.c` runs, does nothing,
and is noted in `warned`.  The programs ignore the results of `sc_socket_new`,
connect, bind and listen, so every error path of the library is followed by the
program's next call: no memory for the socket, for its backend or for the URI,
no handle, an address in use, and so on.  A call outside the conditions of
Sockets, with a null pointer, or that listens on a handle never initialised,
makes `proc` `"misuse"`, and there the model stops.

`failed` is a history of the failures that leave nothing behind to go on with:
`sc_socket_new` gave null, or bind or connect ended before the handle was
initialised (`socket.c:44`, `:56`, `backend_uv.c:92`, `:101`, `:244`, `:252`).
`MisuseOnlyUnmade` says that the programs make a call they must not make only
after such a failure of `sc_socket_new` or `sc_socket_bind`: the echo server
then listens on an uninitialised handle (`echo_server.c:47`), and either
program sets a callback of a null socket.  After every other error, and after a
failed connect, their calls are right.  The echo server accepts every connection
into its only client socket, so it is given one peer (`MaxConns = 1`), as in its
test; a second one would repeat finding 5.  That there is no other way to such a
call than these two failures and a second peer is proved (section 5).

### Uri: the parser

One call of `sc_uri_new`, one step per statement that can leave the function,
`check_ip4` character by character, then the accessors and `sc_uri_del`.  Both
allocations may fail.  A string is a sequence of symbols in which the names of
the protocols are one symbol each.  `ctb_strtok_s` and `strtol` are external:
the first is modelled as skipping leading delimiters, returning null when
nothing else is left, and cutting at the next delimiter; the second as skipping
blanks, taking a sign and then digits.  `Acceptable` is the reference definition
of the accepted strings, written without a parser.  It is as liberal as these two
functions: colons may come before the protocol and before the address, blanks and
a plus sign before the port, and any characters after its digits.  `Number` is the number that
a row of digits makes, as a function over the positions of the string.  The
sizes are parameters (`digits`, `NS_INADDRSZ`, `OctetMax`, `PortMax`), with the
code's values 10 digits, 4, 255 and 65535; no digit is a dot, a colon, a blank or
a sign (`DigitsAssumption`).

### Setup: globals and memory

`sc_init` with any arguments, any number of times, interleaved with messages
that are allocated and freed and sockets that are made, opened, closed and
deleted, with failing allocations.  The history variables `mispaired` and
`moved` say that the application changed a setting under something that
depends on it; the properties say that only then something can go wrong.

### ErrCodes: numbers and texts

The tables of `uv.h`, `uv/errno.h` and `backend_uv.c`, and the way a number is
chosen: the platform's, with its sign normalised, or libuv's own where the
platform lacks the name, with the special case of `EHOSTDOWN` on BSD.  The
numbers of `<errno.h>` are parameters, one table (`errno`) for the platforms
where they are positive and one (`negative`) for those where they are negative
(`EDOM` of either sign, `errno.h:26`).  A text is known by the name of the error
it belongs to.

### OrderedSet, RBTree, SplayTree, Trees: libuv's trees

`uv/tree.h` is the one vendored header that holds algorithms.  The repository
ships it and nothing under `src/src` uses it; in the other headers `RB_ENTRY`
is a field of `uv_signal_s`.  OrderedSet is the abstract
specification: a set of elements with keys, and calls with their results.  In
RBTree and SplayTree an operation that restores the tree is a step that makes
the change and then one step per turn of the loop, `RB_INSERT_COLOR`,
`RB_REMOVE_COLOR` or the splay.  Left and right are one definition with a side
as parameter, where the header writes both out.  A result is returned with the
last step, and `ImplementsSet` maps the nodes reachable from the root (and,
during a splay, from the two parts and from `__tmp`) to the set.  Trees puts
the two side by side (`kind` says which is used), with one statement of each
property for both.

### MC modules

`MCMsgStream` and `MCTrees` only define sets of values for TLC.  `MCLibrary`
does so for Uri and ErrCodes and puts them and Setup side by side: the three
share no state, so that in a behaviour one of them (`part`) runs and the others
rest.  The constants of the other modules are numbers, names and Booleans,
given in the `.cfg` files.

## 3. The runs

| run | config | expected | states | what it shows |
|---|---|---|---|---|
| `msg_stream` | `MsgStream.cfg` | pass | 411,651 | order, completeness, windows, memory, the inductive invariant; the stream implements the abstract channel; messages are delivered, ends are reported |
| `msg_stream_split` | `MsgStreamSplit.cfg` | violation | | finding 1 |
| `msg_stream_reuse` | `MsgStreamStale.cfg` | violation | | finding 2 |
| `sockets` | `Sockets.cfg` | pass | 91,631 | answers, ownership of URIs and messages, no use after free, the assertion of accept; closes complete, connects are answered, ends reported |
| `sockets_eof` | `SocketsEof.cfg` | violation | | finding 3 |
| `client_app` | `ClientApp.cfg` | pass | 154 | lines in order, nothing lost at the end, handles, termination |
| `client_app_no_newline` | `ClientAppNoNewline.cfg` | violation | | finding 4 |
| `server_app` | `ServerApp.cfg` | pass | 1,441 | order of the shutdown, no misuse of handles but that of finding 5, termination |
| `server_app_busy` | `ServerAppBusy.cfg` | violation | | finding 5 |
| `programs` | `Programs.cfg` | pass | 128 | the small programs use the library as it demands unless a socket or its handle could not be made; they leave nothing, end |
| `library` | `Library.cfg` | pass | 342,923 | Uri: accepted strings against the reference, error codes, heap, bounds of `tmp`; Setup: changes of the globals against what depends on them; ErrCodes: distinct numbers, right texts |
| `trees` | `Trees.cfg` | pass | 101,041 | search order, colours, one flaw at a time, three parts of a splay, ordered set, termination |

Bounds.  `Base = 2` makes four bytes count to 15: leading zero bytes, sizes
after lost framing, and sizes beyond the buffer all occur.  `Suggested = 4`
keeps the relation of libuv, whose suggested size (65536) holds a whole size
field: with a smaller one every size field would be cut after zero bytes and no
message would be read with its framing intact.  The messages are an empty one,
one that fills the buffer and one that does not fit.  Two messages per
connection show every boundary between messages, two connections show reuse.
The theorems below hold for all values.  Two sockets are enough for a listener
and the socket it accepts into, with two callbacks nested in one another, one
message on the heap (`MaxMsgs`) and a URI that is accepted and one that is not.
The safety properties were also checked with three nested callbacks, both
protocols and a message for each socket (213,244 states up to the exchange of
the sockets).

The client is checked with eight lines; three connections with two messages
each let connections arrive before, during and after the one that the server
waits for.

Uri is checked with two digits, addresses of two bytes of at most 2 and ports up to 2,
so that every overflow, a third byte, a missing byte and a port just out of
range need few symbols; its 37,092 strings are all beginnings of up to five
symbols, all TCP paths of up to six, all addresses of six symbols and all
ports of up to four.  Setup has two loops, two
allocators and two sockets, so that one can be exchanged for the other; one
message of each allocator (`MaxMsgs`) and one lost socket (`MaxLost`) suffice
for its properties.  ErrCodes has each kind of platform with no name, any one
name, the two names that Linux lacks, or all names missing, with positive numbers
up to 69 and negative ones near the least of 32 bits.  Seven elements (six
keys, two elements share one) make a red-black tree of height 4, in which every
case of both loops happens on both sides; the same properties hold with eight,
at 39,757 states.  Six elements with five keys let a splay take both kinds of
turns several times.

Deadlock is not checked in MsgStream, where after `MaxConns` connections, or
after an overrun, everything really stops, nor for the applications and for
the parts of MCLibrary, two of which end.  In Sockets and the trees it is
checked.

Fairness.  In MsgStream the kernel goes on transmitting and libuv goes on
polling (weak fairness of `Transmit`, `write_wrap` and `Read`, which is
`read_data` or `read_end`);
the applications owe nothing.  In Sockets the callbacks of the application
return, at every depth, and the loop serves each handle that is ready in every
iteration; serving is enabled only while no callback runs, hence strong
fairness.  A connect always ends, by a timeout of the kernel at the latest; a
write need not, since the peer may never read, and no property asks for it.
In the applications likewise the loop runs what is ready (weak
fairness of each handler), a connect ends, peers and signals owe nothing.
`EndsWithInput` therefore has the premise that writes complete, and the
server's `SignalEnds` the premises that no peer keeps quiet for ever, as the
server does wait for such a peer, and that none is accepted into a socket in
use; it then demands that `main` returns or `fatal()` ends the process.

The small programs run on (weak fairness of `Step`), the loop serves what is
ready as in Sockets, and the nine bytes of `send_hello` are written.  In the
trees only a loop that was entered owes its next turn; callers owe nothing.

Properties that say one thing in two parts are checked as their conjunction
(`ParsesRight`, `SettingsRespected`, `ErrorsTold`, `RightUse`, `Colours`).  Each
property has a mutant: an operator beside the definition it changes
(`Mutant_...`), a plausible slip in that function, under which the property
fails.

## 4. Findings

1. **A size field cut after zero bytes** (`src/src/msg_reader.c:57`).
   `msg_reader_finished` looks only at the data.  While the size field is
   incomplete its missing bytes are zero, and so is the size if the bytes
   received so far are zero; the reader declares an empty message finished.
   For any message below 16 MiB the first byte is zero, so a read that ends
   after one byte is enough.  `InOrder` fails in `msg_stream_split`;
   `InOrderWhileFramed` shows that there is no other way to lose the framing
   within a connection.
2. **A half-read message survives the connection**
   (`src/src/backend_uv.c:326`, `:232`).  Close and accept leave `uv->msg` and
   `uv->reader`; the next connection's bytes complete the old message.
   `test/server.c` does not meet this, it closes only inside `on_recv`; an
   application that closes at another time does.  `ReuseInOrder` fails in
   `msg_stream_reuse`.
3. **The connecting side never reads** (`src/src/backend_uv.c:113`).
   `uv_read_start` is called by `buv_accept` only, so the `on_recv` that
   `test/client.c` installs to learn of the end of its connection is never
   called.  `EndOfAnyConnectionReported` fails in `sockets_eof`.

4. **An input without a final newline** (`src/test/client.c:82`).  `feof` is
   true together with the last line, the branch that starts the termination is
   never taken and the client idles for ever.  `EndsWithInput` fails in
   `client_app_no_newline`.
5. **A connection accepted into a socket in use** (`src/test/server.c:71`).
   The next peer may be accepted before the end of the previous connection was
   read, or before its close completed; `uv_tcp_init` then runs on a handle in
   use.  The test scripts start their peers one after the other without
   waiting for the server, which is enough.  `AcceptsIntoFreeSocket` fails in
   `server_app_busy`.

Also visible in the models, but contradicting no statement of the repository:
a message larger than libuv's suggested size is written past its buffer
(`InAllocation` needs the premise that no such message is sent); a `tcp` URI
with nothing but colons after the slashes makes `check_ip4` read through a null
pointer (`NullOnlyAfterColons` says that only these do); the socket is
leaked when its backend cannot be allocated (`LostOnlyWithoutBackend`); the
small test programs go on with a socket that could not be made, and the echo
server listens on a handle that a failed bind left uninitialised (`RightUse`
says that only this leads to a wrong call); and a
message half read is leaked when its socket is closed from elsewhere than its
`on_recv` and then deleted (`MsgsOwned` has the premise `~ cut`).

## 5. The proofs

`MsgReaderProofs` proves what the operators compute, for every `Base >= 2` and
every `Suggested >= 1`: the size survives the conversion (`SizeRoundTrip`), any
four bytes are a size below `Word`, the window of `alloc_wrap` ends where the
size or the data ends, and what storing bytes does to a message under
construction.

`MsgStreamProofs` proves `Spec => []IndInv` and from it the properties of the
run `msg_stream`, for all constants that satisfy the assumptions
(`BaseAssumption`, `SuggestedAssumption`, `MessagesAssumption`: messages are
sequences of bytes shorter than `Word`, `BoundsAssumption`).

The invariant is needed because `InOrder` says nothing about the bytes still in
the stream or half-way through the reader.  `IndInv` adds

* `StreamInv`: the stream is the concatenation of the frames of `sent`, with
  `starts` indexing their boundaries;
* `ReaderInv`: a message under construction has data only after its size, and
  less of it than announced (this also holds after framing is lost, which is
  why `WindowNotEmpty` has no premise on `sync`);
* `SyncInv`: while framing holds, `delivered` is a prefix of `sent`, and the
  cursors together are the distance of `pos` from the boundary after the last
  message delivered, with the bytes collected equal to those of the stream
  (`CursorInv`);
* `EndInv`: after the end nothing is read, and at a clean end the next frame
  had not arrived whole.

There is one lemma per action.  The difficult one is `ReadDataInv`: a piece
never passes the boundary of a frame, because the window ends there
(`ReadStep`); when a message is finished with a complete size field its size
is that of the frame (`FrameSize`, from `SizeRoundTrip`), so its data is the
next message sent; when it is finished with an incomplete one, `sync` leaves
`"ok"` and the invariant promises nothing more.

The same module proves that the stream implements the channel
(`StreamImplementsChannel`), one lemma per action that the channel can see.
`IndInv` gives the two facts the map needs: a message just sent has not arrived,
because no byte of it has left (`SendRefines`), and what is delivered is the next
message of `sent`, arrived to its last byte (`DeliverRefines`, which uses the
invariant of the state after the step).  The end is reported in its place
because nothing that arrived whole is missing then (`EndRefines`, from
`CompleteAtEof`).

`SocketsProofs` proves all the safety properties of Sockets for any finite set
of sockets, any depth of nested callbacks and any application within the five
conditions.  None of them is inductive by itself: whether a request may be
pending, whether a message is held or a protocol known depends on the state of
the handle, and what a callback may find on its return depends on everything
the application did meanwhile.  `IndInv` says

* for each socket, in which states of the handle a request is pending, it reads,
  holds a connection or has a protocol, and which callbacks it owes (`Good`);
* for each callback being executed, what its socket looks like (`Frames`): the
  socket of an `on_recv` lives and is open or closing, the one of an
  `on_connection` is listening or closing and has a protocol;
* how many URIs and messages are on the heap (`Heap`), and that a message held
  by a closing socket is one whose `on_recv` has not returned (`Freed`).

Nearly every action changes one socket; the lemma `OneSocket` says once what
such a step has to show.  `Return` and `buv_accept`, which changes two sockets
and begins a callback, have arguments of their own.

`ClientAppProofs` and `ServerAppProofs` prove the safety properties of the
applications for any number of lines, connections and messages.  The client's
invariant says in which order the handles are given up (`Order`), that a new
line is read only between two requests (`Requests`), and that unless a signal
came the termination starts only with everything sent (`Cause`).  The server's
says which phase of the shutdown has closed what (`Phases`), and that `active`
is true exactly while the client handle is open or closing, and no longer in
the last phase (`Activity`), and that a client socket that is not raw took a
connection from the backlog, so that one still in the backlog is a second one
(`Counts`).  From the last follows where an accept meets a handle in use
(`ServerHandlesRespected`), and that with one connection it never does
(`ServerOneConnection`, with the hypothesis `MaxConns <= 1`).

`ProgramsProofs` proves `NothingLeft` for any number of peers and messages, and
`RightUse` for one peer, which is its hypothesis `MaxConns <= 1`.  It says more
than the run: neither property needs a bound on the messages, and a second peer,
which can make the echo server accept into a handle in use, still leaves nothing
on the heap on any path that ends.  The argument has three parts.

* The invariant of Sockets holds of the programs as well (`Always`), although
  they call `sc_socket_del` and `sc_socket_listen` without a look at the socket,
  in states that Sockets rules out for its applications: `main` frees sockets
  that were not closed, which loses nothing when no request or message is left
  in them (`FreeInd`), and libuv listens on a port of its own after a bind that
  failed (`ListenUnboundInd`).  For every other call the lemmas of
  `SocketsProofs` are used as they stand; they are stated for any URI.
* A program is in one of a few places (`Hello`, `Echo`): in `main` before its
  k-th call, in `uv_run`, or in one of its handlers with part of the handler's
  calls left.  Each place says what both sockets look like there, the `code` that
  is left, and in the echo server that the client is closing whenever the server
  is (`EchoRuns`), so that `uv_run` returns only when neither is closing, has a
  request pending or holds a message, and the two calls of `sc_socket_del` at the
  end of `main` lose nothing.
* `proc` becomes `"misuse"` only with `conns > 1`, or after `sc_socket_new` or
  `sc_socket_bind` noted its failure in `failed`: a place in `main` knows of each
  socket that it was made or that `"new"` is in `failed` (`Made`), and the client
  socket is untouched until the first connection is accepted into it.

There is one lemma for each place.  The longest are `HelloPoll` and `EchoPoll`,
which say for every callback of the loop which of them can come in that place
and where the handler it runs leaves the program.

`UriProofs` proves all the properties of Uri, for any digits, any number of bytes
of an address, any largest byte and port and any strings.  There are three
inductive invariants, one resting on the other.

* `IndInv`: `check_ip4` stays inside `tmp`, and `sc_uri_new` and `sc_uri_del` free
  what they allocate.  `TpInside` is not inductive: the guard of the code counts
  octets, not positions.  `IndInv` adds that `octets` is `tp`, plus one once a
  digit of the byte was seen (`Counted`), and what is on the heap before each
  step (`HeapAt`).
* `Scanned`: what the parser knows of the string between its steps.  After
  leading colons the protocol was the first token, the path is what follows, and
  the error code is decided by that token.  It rests on the lemma `Token` about
  `ctb_strtok_s` for strings of any length, which finds the end of a token by the
  least-number principle of the library, and on `StringsAssumption`: strings are
  sequences of symbols and the null pointer is none.  From it follow
  `NullOnlyAfterColons` and the half of `ParsesRight` about error codes.
* `Accepting`: what is known of the address while `check_ip4` reads it (`Reading`):
  the dots so far are `tp` in number and separate bytes that are complete and in
  range, the symbols since the last dot are digits, and `tmp[tp]` is the number
  they make; and on which ways out the string is no URI (`Refused`).  From it
  follows the other half, `AcceptsUris`.

The prover has no induction over data, so what the loops and the recursive
function `Number` compute is shown by its least counterexample: `LeastNat` takes
the least element of a set of naturals, and each of these facts (that `Number`
is defined at each position, is a natural number and grows with each digit,
and that a part of an octet is no larger than the octet) is a set of positions
without one.  The
hardest lemmas are `PortRight`, that `check_port` accepts exactly the strings that
begin with a port from 1 to `PortMax` after blanks and a sign, and the four about
a step of `check_ip4` (`ScanStart`, `ScanDigit`, `ScanDot`, `ScanEnd`) with their
counterparts for each way to refuse (`TooLarge`, `NoDigit`, `TooManyDots`,
`EarlyEnd`), each of which says that the whole string is then no address.
`UriUnique` says that a string has one reading, without which a refusal could not
be told from a wrong choice of where the URI begins.

`LibraryProofs` proves the properties of Setup for any loops, allocators and
sockets.  The history speaks of mistakes that were made; the invariant adds what
keeps them from being made, that unless a setting was changed under them the
messages in use belong to the allocator that will free them (`AllocInv`) and
the handles to the loop of the next one (`LoopInv`), and that there is a loop
when there is a backend (`BackendInv`).

The same module proves `ErrorsTold` of ErrCodes for any `<errno.h>` and any set of
platforms, each without any of the names.  `PlatformsAssumption` is what libuv
relies on: the numbers differ, lie below 3000 or, where they are negative,
anywhere but between -4095 and -3000, a name that is not missing has one, and on
BSD nothing but `EHOSTDOWN` is 64 (Linux may use 64 for another error).  A number
comes from one of five sources: fixed by libuv, a macro whose sign is turned, a
negative macro, the special case of BSD, or made up by libuv (`Sources`).  The
ranges of the sources on one platform do not meet except in 64, and within one
source numbers differ, so a number has one name and `buv_strerror` finds it.
That all numbers are above `UV_ERRNO_MAX` holds, and is claimed, only where the
platform's are positive.

Only model-checked:

* the liveness properties, as fairness is outside the prover's reach;
* the trees: their invariants speak of what is reachable along links, over which
  the prover has no induction (positions of a string are numbers, and there a
  least counterexample does).

## 6. What is not modelled

* A failing message allocator: `default_heap_alloc` and `alloc_wrap` write
  through the result at once, so there is no behaviour to describe after it.
* `userdata`, which is stored and returned, and the texts of warnings and
  errors.
* The vendored libuv headers apart from the error numbers and `uv/tree.h`: they
  declare types and functions, and the functions are not in the repository.
  What libuv does is modelled from its use, in Sockets and MsgStream.  In
  `uv/tree.h` the FOREACH macros are loops over the calls that are modelled,
  and `RB_AUGMENT` is empty unless a user defines it.
* The shell scripts and tools of the tests; their expectations are used as
  statements about the programs.
* Applications outside the five conditions of Sockets: their effect is whatever
  libuv does with a handle in use.

## 7. Plan

Done: MsgReader, MsgStream and their proofs; MsgChannel, the refinement and its
proof; Sockets with the heap of URIs and messages, and its proofs; ClientApp,
ServerApp and their proofs; Programs and its proofs; Uri, Setup, ErrCodes and
their proofs; the trees.

Left: the trees' invariants, which would need the set of reachable nodes as an
explicit part of the state of a proof, beginning with the fact that a rotation
keeps the parts apart.
