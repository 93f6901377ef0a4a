-------------------------------- MODULE Setup --------------------------------
(***************************************************************************)
(* The globals of the library and who depends on them: the backend and the *)
(* loop that sc_init chooses (src/src/sc.c, backend.c, backend_uv.c), the  *)
(* allocator of messages (src/src/msg.c), and the memory of sockets        *)
(* (src/src/socket.c), when malloc may fail.                               *)
(*                                                                         *)
(* sc_init may be called any number of times and with any arguments.  What *)
(* was made under one setting (messages, libuv handles) lives on under the *)
(* next; the history variables say when a setting was changed under it.    *)
(***************************************************************************)
EXTENDS Naturals, FiniteSets

CONSTANTS
  Loops,       \* libuv loops of the application
  Allocators,  \* pairs of functions the application may pass to sc_init
  Sockets,     \* the sc_socket objects the application may create
  MaxMsgs,     \* bound: messages of one allocator in use
  MaxLost      \* bound: failures of backend->alloc

ASSUME SetupAssumption ==
  /\ "NULL" \notin Loops \cup Allocators /\ "default" \notin Allocators
  /\ IsFiniteSet(Sockets) /\ MaxMsgs \in Nat /\ MaxLost \in Nat

VARIABLES
  backend,    \* whose functions the pointer backend refers to
  buv_data,   \* the loop for new handles
  msg_alloc,
  msg_free,
  msgs,       \* messages in use, by the allocator they came from
  owner,      \* sockets the application holds
  handle,     \* the loop of each socket's libuv handle
  structs,    \* number of struct sc_socket on the heap
  lost,       \* history: how often backend->alloc failed
  mispaired,  \* history: sc_init mixed two allocators or changed the
              \* allocator of messages in use
  misfreed,   \* history: a message was freed by another allocator
  moved,      \* history: sc_init changed the loop while there were handles
  crossed     \* history: uv_accept got handles of two loops

setting == <<backend, buv_data, msg_alloc, msg_free>>
history == <<lost, mispaired, misfreed, moved, crossed>>
setupVars == <<setting, msgs, owner, handle, structs, history>>

AllocFunctions == Allocators \cup {"default"}

SetupTypeOK ==
  /\ backend \in {"NULL", "buv_funcs"}
  /\ buv_data \in Loops \cup {"NULL"}
  /\ msg_alloc \in AllocFunctions /\ msg_free \in AllocFunctions
  /\ msgs \in [AllocFunctions -> 0 .. MaxMsgs]
  /\ owner \subseteq Sockets
  /\ handle \in [Sockets -> Loops \cup {"NULL"}]
  /\ structs \in Nat /\ lost \in 0 .. MaxLost
  /\ {mispaired, misfreed, moved, crossed} \subseteq BOOLEAN

SetupInit ==
  /\ backend = "NULL" /\ buv_data = "NULL"
  /\ msg_alloc = "default" /\ msg_free = "default"
  /\ msgs = [a \in AllocFunctions |-> 0]
  /\ owner = {} /\ handle = [s \in Sockets |-> "NULL"]
  /\ structs = 0 /\ lost = 0
  /\ mispaired = FALSE /\ misfreed = FALSE /\ moved = FALSE /\ crossed = FALSE

-----------------------------------------------------------------------------

backend_uv_init(data) == buv_data' = data

backend_init(be) == backend' = be

\* An unknown backend is warned about and changes nothing.
Choose(be, data) ==
  IF be = "SC_LIBUV"
    THEN backend_uv_init(data) /\ backend_init("buv_funcs")
    ELSE UNCHANGED <<backend, buv_data>>

\* Mutant: the second pointer depends on the first.
Mutant_allocator_only(alloc, free) ==
  /\ msg_alloc' = IF alloc # "NULL" THEN alloc ELSE msg_alloc
  /\ msg_free' = IF alloc = "NULL" /\ free # "NULL" THEN free ELSE msg_free

\* A null pointer leaves the function what it was.
sc_msg_init_allocator(alloc, free) ==
  /\ msg_alloc' = IF alloc # "NULL" THEN alloc ELSE msg_alloc
  /\ msg_free' = IF free # "NULL" THEN free ELSE msg_free

InUse == \E a \in AllocFunctions : msgs[a] > 0

sc_init(be, data, alloc, free) ==
  /\ Choose(be, data)
  /\ sc_msg_init_allocator(alloc, free)
  /\ mispaired' = (mispaired \/ alloc # free \/ (InUse /\ free \notin {"NULL", msg_free}))
  /\ moved' = (moved \/ (be = "SC_LIBUV" /\ data # buv_data
                           /\ \E s \in Sockets : handle[s] # "NULL"))
  /\ UNCHANGED <<msgs, owner, handle, structs, lost, misfreed, crossed>>

-----------------------------------------------------------------------------

sc_msg_alloc ==
  /\ msgs[msg_alloc] < MaxMsgs
  /\ msgs' = [msgs EXCEPT ![msg_alloc] = @ + 1]
  /\ UNCHANGED <<setting, owner, handle, structs, history>>

\* A message that came from a.
sc_msg_free(a) ==
  /\ msgs[a] > 0
  /\ msgs' = [msgs EXCEPT ![a] = @ - 1]
  /\ misfreed' = (misfreed \/ msg_free # a)
  /\ UNCHANGED <<setting, owner, handle, structs, lost, mispaired, moved, crossed>>

\* Everything about sockets goes through backend, which is not checked.
sc_socket_new(s) ==
  /\ backend # "NULL" /\ s \notin owner
  /\ \/ UNCHANGED <<owner, structs, lost>>   \* no memory for the socket
     \/ /\ lost < MaxLost                    \* none for the backend
        /\ structs' = structs + 1 /\ lost' = lost + 1 /\ UNCHANGED owner
     \/ structs' = structs + 1 /\ owner' = owner \cup {s} /\ UNCHANGED lost
  /\ UNCHANGED <<setting, msgs, handle, mispaired, misfreed, moved, crossed>>

\* Mutant: the socket is not freed.
Mutant_del_backend_only(s) ==
  /\ s \in owner /\ handle[s] = "NULL"
  /\ owner' = owner \ {s}
  /\ UNCHANGED <<setting, msgs, handle, structs, history>>

sc_socket_del(s) ==
  /\ s \in owner /\ handle[s] = "NULL"
  /\ owner' = owner \ {s} /\ structs' = structs - 1
  /\ UNCHANGED <<setting, msgs, handle, history>>

\* uv_tcp_init or uv_pipe_init with buv_data->loop: in sc_socket_connect,
\* sc_socket_bind and, for the client, sc_socket_accept.
InitHandle(s) ==
  s \in owner /\ handle[s] = "NULL" /\ handle' = [handle EXCEPT ![s] = buv_data]

Open(s) ==
  /\ InitHandle(s)
  /\ UNCHANGED <<setting, msgs, owner, structs, history>>

sc_socket_accept(srv, clt) ==
  /\ srv \in owner /\ handle[srv] # "NULL"
  /\ InitHandle(clt)
  /\ crossed' = (crossed \/ handle[srv] # handle'[clt])
  /\ UNCHANGED <<setting, msgs, owner, structs, lost, mispaired, misfreed, moved>>

\* sc_socket_close, up to on_close.
Close(s) ==
  /\ s \in owner /\ handle[s] # "NULL"
  /\ handle' = [handle EXCEPT ![s] = "NULL"]
  /\ UNCHANGED <<setting, msgs, owner, structs, history>>

SetupNext ==
  \/ \E be \in {"SC_LIBUV", "SC_NOTSET"}, data \in Loops,
        alloc, free \in Allocators \cup {"NULL"} : sc_init(be, data, alloc, free)
  \/ sc_msg_alloc \/ \E a \in AllocFunctions : sc_msg_free(a)
  \/ \E s \in Sockets : sc_socket_new(s) \/ sc_socket_del(s) \/ Open(s) \/ Close(s)
  \/ \E srv, clt \in Sockets : sc_socket_accept(srv, clt)

SetupSpec == SetupInit /\ [][SetupNext]_setupVars

-----------------------------------------------------------------------------

\* A message is freed by the allocator it came from, as long as sc_init is
\* given both functions of an allocator or none, and another allocator only
\* when no message is in use: the library keeps no note of where a message
\* came from.
FreedByItsAllocator == ~ mispaired => ~ misfreed

\* The handles that uv_accept is given are of one loop, which it asserts, as
\* long as sc_init does not change the loop while there are handles.
AcceptOnOneLoop == ~ moved => ~ crossed

\* The two together: what was made under one setting of the globals is not
\* used under another unless sc_init was called in between as it must not be.
SettingsRespected == FreedByItsAllocator /\ AcceptOnOneLoop

\* The only struct sc_socket that nobody can free are those whose backend
\* could not be allocated, one for each time that happened.
LostOnlyWithoutBackend == structs = Cardinality(owner) + lost
=============================================================================
