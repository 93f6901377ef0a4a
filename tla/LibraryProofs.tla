---------------------------- MODULE LibraryProofs ----------------------------
(***************************************************************************)
(* Proofs about the parts of the library that MCLibrary runs beside the    *)
(* URIs: the globals (Setup) and the error codes (ErrCodes).               *)
(*                                                                         *)
(* About Setup, for any loops, allocators and sockets, any number of calls *)
(* of sc_init and every failure of malloc.  SettingsRespected speaks of    *)
(* mistakes that were made; what keeps them from being made is that        *)
(* messages and handles agree with the setting they will be used under,    *)
(* which is what the invariant adds.                                       *)
(*                                                                         *)
(* About ErrCodes, for any numbers of <errno.h> and any set of platforms,  *)
(* each without any of the names: a number tells one error, and            *)
(* sc_strerror has its text.                                               *)
(***************************************************************************)
EXTENDS Setup, ErrCodes, FiniteSetTheorems, TLAPS

-----------------------------------------------------------------------------
(* Setup.                                                                  *)

\* The two functions are of one allocator, and the messages in use are its.
AllocInv ==
  ~ mispaired =>
    /\ msg_alloc = msg_free /\ ~ misfreed
    /\ \A a \in AllocFunctions : msgs[a] > 0 => a = msg_free

\* The handles there are belong to the loop for new handles.
LoopInv ==
  ~ moved =>
    /\ ~ crossed
    /\ \A s \in Sockets : handle[s] # "NULL" => handle[s] = buv_data

\* A socket needs the backend, a handle needs a socket, and the backend comes
\* with a loop: InitHandle never takes the loop from a null buv_data.
BackendInv ==
  /\ backend = "NULL" => owner = {}
  /\ backend # "NULL" => buv_data # "NULL"
  /\ \A s \in Sockets : handle[s] # "NULL" => s \in owner

SetupInv ==
  SetupTypeOK /\ AllocInv /\ LoopInv /\ BackendInv /\ LostOnlyWithoutBackend

-----------------------------------------------------------------------------

\* The type correctness of the history, variable by variable.
LEMMA HistoryTypes ==
  ASSUME SetupTypeOK
  PROVE  /\ mispaired \in BOOLEAN /\ misfreed \in BOOLEAN
         /\ moved \in BOOLEAN /\ crossed \in BOOLEAN
BY Zenon DEF SetupTypeOK

\* The sockets of the application are finitely many, and counting them follows
\* sc_socket_new and sc_socket_del.
LEMMA OwnerCounts ==
  ASSUME SetupTypeOK
  PROVE  /\ IsFiniteSet(owner) /\ Cardinality(owner) \in Nat
         /\ \A s \in Sockets \ owner :
              Cardinality(owner \cup {s}) = Cardinality(owner) + 1
         /\ \A s \in owner :
              /\ Cardinality(owner \ {s}) = Cardinality(owner) - 1
              /\ Cardinality(owner) > 0
<1>1. IsFiniteSet(owner)
  BY SetupAssumption, FS_Subset DEF SetupTypeOK
<1>2. Cardinality(owner) \in Nat
  BY <1>1, FS_CardinalityType
<1>3. ASSUME NEW s \in Sockets \ owner
      PROVE  Cardinality(owner \cup {s}) = Cardinality(owner) + 1
  BY <1>1, FS_AddElement
<1>4. ASSUME NEW s \in owner
      PROVE  /\ Cardinality(owner \ {s}) = Cardinality(owner) - 1
             /\ Cardinality(owner) > 0
  <2>1. Cardinality(owner \ {s}) = Cardinality(owner) - 1
    BY <1>1, FS_RemoveElement
  <2>2. Cardinality(owner) # 0
    BY <1>1, FS_EmptySet
  <2> QED BY <1>2, <2>1, <2>2
<1> QED BY <1>1, <1>2, <1>3, <1>4

\* A new setting agrees with the messages and handles there are, or the
\* history says that it does not.
LEMMA InitInd ==
  ASSUME SetupInv,
         NEW be \in {"SC_LIBUV", "SC_NOTSET"}, NEW data \in Loops,
         NEW alloc \in Allocators \cup {"NULL"}, NEW free \in Allocators \cup {"NULL"},
         sc_init(be, data, alloc, free)
  PROVE  SetupInv'
<1>1. /\ Choose(be, data) /\ sc_msg_init_allocator(alloc, free)
      /\ mispaired' = (mispaired \/ alloc # free \/ (InUse /\ free \notin {"NULL", msg_free}))
      /\ moved' = (moved \/ (be = "SC_LIBUV" /\ data # buv_data
                               /\ \E s \in Sockets : handle[s] # "NULL"))
      /\ UNCHANGED <<msgs, owner, handle, structs, lost, misfreed, crossed>>
  BY DEF sc_init
<1>2. SetupTypeOK
  BY DEF SetupInv
<1>3. /\ backend' \in {"NULL", "buv_funcs"} /\ buv_data' \in Loops \cup {"NULL"}
      /\ backend # "NULL" => backend' # "NULL"
      /\ backend' # "NULL" => buv_data' # "NULL"
  BY <1>1, SetupAssumption
  DEF Choose, backend_uv_init, backend_init, SetupInv, SetupTypeOK, BackendInv
<1>4. msg_alloc' \in AllocFunctions /\ msg_free' \in AllocFunctions
  BY <1>1, <1>2 DEF sc_msg_init_allocator, SetupTypeOK, AllocFunctions
<1>5. SetupTypeOK'
  BY <1>1, <1>2, <1>3, <1>4, Zenon DEF SetupTypeOK, AllocFunctions
<1>6. AllocInv'
  <2> SUFFICES ASSUME ~ mispaired' PROVE
        /\ msg_alloc' = msg_free' /\ ~ misfreed'
        /\ \A a \in AllocFunctions : msgs'[a] > 0 => a = msg_free'
    BY DEF AllocInv, AllocFunctions
  <2>1. ~ mispaired /\ alloc = free /\ (InUse => free \in {"NULL", msg_free})
    BY <1>1
  <2>2. /\ msg_alloc = msg_free /\ ~ misfreed
        /\ \A a \in AllocFunctions : msgs[a] > 0 => a = msg_free
    BY <2>1 DEF SetupInv, AllocInv
  <2>3. /\ msg_alloc' = msg_free' /\ (InUse => msg_free' = msg_free)
    BY <1>1, <2>1, <2>2 DEF sc_msg_init_allocator
  <2> QED BY <1>1, <2>2, <2>3 DEF InUse
<1>7. LoopInv'
  <2> SUFFICES ASSUME ~ moved' PROVE
        /\ ~ crossed'
        /\ \A s \in Sockets : handle'[s] # "NULL" => handle'[s] = buv_data'
    BY DEF LoopInv
  <2>1. /\ ~ moved
        /\ be = "SC_LIBUV" /\ data # buv_data => \A s \in Sockets : handle[s] = "NULL"
    BY <1>1
  <2>2. /\ ~ crossed
        /\ \A s \in Sockets : handle[s] # "NULL" => handle[s] = buv_data
    BY <2>1 DEF SetupInv, LoopInv
  <2>3. buv_data' = buv_data \/ \A s \in Sockets : handle[s] = "NULL"
    BY <1>1, <2>1 DEF Choose, backend_uv_init
  <2> QED BY <1>1, <2>2, <2>3
<1>8. BackendInv'
  BY <1>1, <1>3 DEF SetupInv, BackendInv
<1>9. LostOnlyWithoutBackend'
  BY <1>1 DEF SetupInv, LostOnlyWithoutBackend
<1> QED BY <1>5, <1>6, <1>7, <1>8, <1>9 DEF SetupInv

\* A message is made by the allocator that will free it.
LEMMA MsgAllocInd ==
  ASSUME SetupInv, sc_msg_alloc
  PROVE  SetupInv'
<1>1. /\ msgs[msg_alloc] < MaxMsgs /\ msgs' = [msgs EXCEPT ![msg_alloc] = @ + 1]
      /\ UNCHANGED <<backend, buv_data, msg_alloc, msg_free, owner, handle, structs,
                     lost, mispaired, misfreed, moved, crossed>>
  BY DEF sc_msg_alloc, setting, history
<1>2. SetupTypeOK /\ msgs \in [AllocFunctions -> 0 .. MaxMsgs] /\ msg_alloc \in AllocFunctions
  BY DEF SetupInv, SetupTypeOK
<1>3. msgs' \in [AllocFunctions -> 0 .. MaxMsgs]
  BY <1>1, <1>2, SetupAssumption
<1>4. SetupTypeOK'
  BY <1>1, <1>2, <1>3, Zenon DEF SetupTypeOK, AllocFunctions
<1>5. AllocInv'
  <2>1. \A a \in AllocFunctions : a # msg_alloc => msgs'[a] = msgs[a]
    BY <1>1, <1>2
  <2> QED BY <1>1, <2>1 DEF SetupInv, AllocInv, AllocFunctions
<1> QED
  BY <1>1, <1>4, <1>5 DEF SetupInv, LoopInv, BackendInv, LostOnlyWithoutBackend

\* A message that is freed is one of those in use.
LEMMA MsgFreeInd ==
  ASSUME SetupInv, NEW a \in AllocFunctions, sc_msg_free(a)
  PROVE  SetupInv'
<1>1. /\ msgs[a] > 0 /\ msgs' = [msgs EXCEPT ![a] = @ - 1]
      /\ misfreed' = (misfreed \/ msg_free # a)
      /\ UNCHANGED <<backend, buv_data, msg_alloc, msg_free, owner, handle, structs,
                     lost, mispaired, moved, crossed>>
  BY DEF sc_msg_free, setting
<1>2. SetupTypeOK /\ msgs \in [AllocFunctions -> 0 .. MaxMsgs]
  BY DEF SetupInv, SetupTypeOK
<1>3. msgs' \in [AllocFunctions -> 0 .. MaxMsgs]
  BY <1>1, <1>2, SetupAssumption
<1>4. misfreed' \in BOOLEAN
  BY <1>1, Zenon
<1>5. SetupTypeOK'
  BY <1>1, <1>2, <1>3, <1>4, Zenon DEF SetupTypeOK, AllocFunctions
<1>6. AllocInv'
  <2>1. \A b \in AllocFunctions : msgs'[b] > 0 => msgs[b] > 0
    BY <1>1, <1>2, SetupAssumption
  <2> QED BY <1>1, <2>1 DEF SetupInv, AllocInv, AllocFunctions
<1> QED
  BY <1>1, <1>5, <1>6 DEF SetupInv, LoopInv, BackendInv, LostOnlyWithoutBackend

\* Every failure of sc_socket_new leaves the structures accounted for.
LEMMA NewInd ==
  ASSUME SetupInv, NEW s \in Sockets, sc_socket_new(s)
  PROVE  SetupInv'
<1>1. /\ backend # "NULL" /\ s \notin owner
      /\ \/ UNCHANGED <<owner, structs, lost>>
         \/ /\ lost < MaxLost
            /\ structs' = structs + 1 /\ lost' = lost + 1 /\ UNCHANGED owner
         \/ structs' = structs + 1 /\ owner' = owner \cup {s} /\ UNCHANGED lost
      /\ UNCHANGED <<backend, buv_data, msg_alloc, msg_free, msgs, handle,
                     mispaired, misfreed, moved, crossed>>
  BY DEF sc_socket_new, setting
<1>2. SetupTypeOK /\ structs \in Nat /\ lost \in 0 .. MaxLost /\ owner \subseteq Sockets
  BY DEF SetupInv, SetupTypeOK
<1>3. structs' \in Nat /\ lost' \in 0 .. MaxLost /\ owner' \subseteq Sockets
  BY <1>1, <1>2, SetupAssumption
<1>4. SetupTypeOK'
  BY <1>1, <1>2, <1>3, Zenon DEF SetupTypeOK, AllocFunctions
<1>5. LostOnlyWithoutBackend'
  <2>1. Cardinality(owner \cup {s}) = Cardinality(owner) + 1 /\ Cardinality(owner) \in Nat
    BY <1>1, <1>2, OwnerCounts
  <2>2. structs = Cardinality(owner) + lost /\ structs \in Nat /\ lost \in Nat
    BY <1>2, SetupAssumption DEF SetupInv, LostOnlyWithoutBackend
  <2>3. \/ owner' = owner /\ structs' = structs /\ lost' = lost
        \/ owner' = owner /\ structs' = structs + 1 /\ lost' = lost + 1
        \/ Cardinality(owner') = Cardinality(owner) + 1 /\ structs' = structs + 1 /\ lost' = lost
    BY <1>1, <2>1
  <2>4. structs' = Cardinality(owner') + lost'
    BY <2>1, <2>2, <2>3
  <2> QED BY <2>4 DEF LostOnlyWithoutBackend
<1>6. AllocInv' /\ LoopInv'
  BY <1>1 DEF SetupInv, AllocInv, LoopInv, AllocFunctions
<1>7. BackendInv'
  BY <1>1 DEF SetupInv, BackendInv
<1> QED BY <1>4, <1>5, <1>6, <1>7 DEF SetupInv

\* sc_socket_del frees the socket it is given and no other.
LEMMA DelInd ==
  ASSUME SetupInv, NEW s \in Sockets, sc_socket_del(s)
  PROVE  SetupInv'
<1>1. /\ s \in owner /\ handle[s] = "NULL" /\ owner' = owner \ {s} /\ structs' = structs - 1
      /\ UNCHANGED <<backend, buv_data, msg_alloc, msg_free, msgs, handle,
                     lost, mispaired, misfreed, moved, crossed>>
  BY DEF sc_socket_del, setting, history
<1>2. SetupTypeOK /\ structs \in Nat /\ lost \in Nat
  BY SetupAssumption DEF SetupInv, SetupTypeOK
<1>3. /\ Cardinality(owner') = Cardinality(owner) - 1
      /\ Cardinality(owner) > 0 /\ Cardinality(owner) \in Nat
  BY <1>1, <1>2, OwnerCounts
<1>4. structs = Cardinality(owner) + lost
  BY DEF SetupInv, LostOnlyWithoutBackend
<1>5. structs' \in Nat /\ structs' = Cardinality(owner') + lost'
  BY <1>1, <1>2, <1>3, <1>4
<1>6. owner' \subseteq Sockets
  BY <1>1, <1>2 DEF SetupTypeOK
<1>7. SetupTypeOK'
  BY <1>1, <1>2, <1>5, <1>6, Zenon DEF SetupTypeOK, AllocFunctions
<1>8. AllocInv' /\ LoopInv'
  BY <1>1 DEF SetupInv, AllocInv, LoopInv, AllocFunctions
<1>9. BackendInv'
  BY <1>1 DEF SetupInv, BackendInv
<1> QED BY <1>5, <1>7, <1>8, <1>9 DEF SetupInv, LostOnlyWithoutBackend

\* The only handle that changes is the one of s: it stays closed or belongs to
\* a socket of the application and to the loop for new handles.
LEMMA HandleInd ==
  ASSUME SetupInv, NEW s \in owner, NEW l \in {"NULL", buv_data},
         handle' = [handle EXCEPT ![s] = l],
         crossed' \in BOOLEAN, ~ moved => ~ crossed',
         UNCHANGED <<backend, buv_data, msg_alloc, msg_free, msgs, owner, structs,
                     lost, mispaired, misfreed, moved>>
  PROVE  SetupInv'
<1>1. /\ SetupTypeOK /\ handle \in [Sockets -> Loops \cup {"NULL"}] /\ s \in Sockets
      /\ l \in Loops \cup {"NULL"}
  BY DEF SetupInv, SetupTypeOK
<1>2. /\ handle' \in [Sockets -> Loops \cup {"NULL"}] /\ handle'[s] = l
      /\ \A t \in Sockets : t # s => handle'[t] = handle[t]
  BY <1>1
<1>3. SetupTypeOK'
  BY <1>1, <1>2, Zenon DEF SetupTypeOK, AllocFunctions
<1>4. LoopInv'
  <2> SUFFICES ASSUME ~ moved, NEW t \in Sockets, handle'[t] # "NULL"
               PROVE  handle'[t] = buv_data
    BY DEF LoopInv
  <2>1. CASE t = s
    BY <1>2, <2>1
  <2>2. CASE t # s
    BY <1>2, <2>2 DEF SetupInv, LoopInv
  <2> QED BY <2>1, <2>2
<1>5. BackendInv'
  BY <1>2 DEF SetupInv, BackendInv
<1>6. AllocInv' /\ LostOnlyWithoutBackend'
  BY DEF SetupInv, AllocInv, AllocFunctions, LostOnlyWithoutBackend
<1> QED BY <1>3, <1>4, <1>5, <1>6 DEF SetupInv

\* uv_accept is given a listening handle and one of the loop for new handles.
LEMMA AcceptInd ==
  ASSUME SetupInv, NEW srv \in Sockets, NEW clt \in Sockets, sc_socket_accept(srv, clt)
  PROVE  SetupInv'
<1>1. /\ handle[srv] # "NULL" /\ clt \in owner
      /\ handle' = [handle EXCEPT ![clt] = buv_data]
      /\ crossed' = (crossed \/ handle[srv] # handle'[clt])
      /\ UNCHANGED <<backend, buv_data, msg_alloc, msg_free, msgs, owner, structs,
                     lost, mispaired, misfreed, moved>>
  BY DEF sc_socket_accept, InitHandle, setting
<1>2. handle'[clt] = buv_data
  BY <1>1 DEF SetupInv, SetupTypeOK
<1>3. ~ moved => ~ crossed'
  BY <1>1, <1>2 DEF SetupInv, LoopInv
<1>4. crossed' \in BOOLEAN
  BY <1>1, Zenon
<1> QED BY <1>1, <1>3, <1>4, HandleInd

\* Opening and closing a handle outside accept.
LEMMA OpenCloseInd ==
  ASSUME SetupInv, NEW s \in Sockets, Open(s) \/ Close(s)
  PROVE  SetupInv'
<1>1. /\ s \in owner
      /\ \E l \in {"NULL", buv_data} : handle' = [handle EXCEPT ![s] = l]
      /\ UNCHANGED <<backend, buv_data, msg_alloc, msg_free, msgs, owner, structs,
                     lost, mispaired, misfreed, moved, crossed>>
  BY DEF Open, Close, InitHandle, setting, history
<1>2. crossed' \in BOOLEAN
  BY <1>1, HistoryTypes, Zenon DEF SetupInv
<1>3. ~ moved => ~ crossed'
  BY <1>1 DEF SetupInv, LoopInv
<1> QED BY <1>1, <1>2, <1>3, HandleInd

\* Nothing changes.
LEMMA SetupStutter ==
  ASSUME SetupInv, UNCHANGED setupVars
  PROVE  SetupInv'
<1>1. UNCHANGED <<backend, buv_data, msg_alloc, msg_free, msgs, owner, handle, structs,
                  lost, mispaired, misfreed, moved, crossed>>
  BY DEF setupVars, setting, history
<1>2. SetupTypeOK'
  BY <1>1, Zenon DEF SetupInv, SetupTypeOK, AllocFunctions
<1> QED BY <1>1, <1>2
  DEF SetupInv, AllocInv, LoopInv, BackendInv, LostOnlyWithoutBackend, AllocFunctions

\* The globals, the messages and the handles agree in every reachable state.
THEOREM SetupInvariance == SetupSpec => []SetupInv
<1>1. SetupInit => SetupInv
  <2> SUFFICES ASSUME SetupInit PROVE SetupInv
    OBVIOUS
  <2>1. Cardinality({}) = 0
    BY FS_EmptySet
  <2>2. \A b \in {mispaired, misfreed, moved, crossed} : b \in BOOLEAN
    BY Zenon DEF SetupInit
  <2>3. SetupTypeOK
    <3>1. msgs \in [AllocFunctions -> 0 .. MaxMsgs] /\ lost \in 0 .. MaxLost
      BY SetupAssumption DEF SetupInit
    <3>2. /\ backend \in {"NULL", "buv_funcs"} /\ buv_data \in Loops \cup {"NULL"}
          /\ msg_alloc \in AllocFunctions /\ msg_free \in AllocFunctions
          /\ owner \subseteq Sockets /\ handle \in [Sockets -> Loops \cup {"NULL"}]
          /\ structs \in Nat
      BY DEF SetupInit, AllocFunctions
    <3> QED BY <2>2, <3>1, <3>2, Zenon DEF SetupTypeOK
  <2>4. AllocInv /\ LoopInv /\ BackendInv /\ LostOnlyWithoutBackend
    BY <2>1 DEF SetupInit, AllocInv, LoopInv, BackendInv, LostOnlyWithoutBackend
  <2> QED BY <2>3, <2>4 DEF SetupInv
<1>2. SetupInv /\ [SetupNext]_setupVars => SetupInv'
  BY InitInd, MsgAllocInd, MsgFreeInd, NewInd, DelInd, OpenCloseInd, AcceptInd,
     SetupStutter DEF SetupNext
<1> QED BY <1>1, <1>2, PTL DEF SetupSpec

\* A message is freed by the allocator it came from and uv_accept gets handles
\* of one loop, unless sc_init was called in between as it must not be.
THEOREM SetupRespectsSettings == SetupSpec => []SettingsRespected
<1>1. SetupInv => SettingsRespected
  BY DEF SetupInv, AllocInv, LoopInv, SettingsRespected, FreedByItsAllocator,
         AcceptOnOneLoop
<1> QED BY <1>1, SetupInvariance, PTL

\* The structures on the heap are those of the sockets of the application and
\* one for each failure of backend->alloc.
THEOREM SetupLosesOnlyWithoutBackend == SetupSpec => []LostOnlyWithoutBackend
<1>1. SetupInv => LostOnlyWithoutBackend
  BY DEF SetupInv
<1> QED BY <1>1, SetupInvariance, PTL

-----------------------------------------------------------------------------
(* The tables of ErrCodes.                                                 *)

\* The ranges of the numbers, by where they come from.
ErrnoRange == 1 .. 2999
FixedCodes == (-4095 .. -4094) \cup (-3014 .. -3000)
MacroCodes == -2999 .. -1
MadeUpCodes == -4093 .. -4025
LibuvCodes == -4095 .. -3000
NegativeCodes == {c \in Int : c < 0 /\ c \notin LibuvCodes}
AllCodes == {c \in Int : c < 0}
BsdCode == -64
OwnNumbers == {3193, 3194, 3195}

\* They do not meet, and negative numbers are no codes of the library.
LEMMA CodesApart ==
  /\ FixedCodes \cap MacroCodes = {} /\ FixedCodes \cap MadeUpCodes = {}
  /\ MacroCodes \cap MadeUpCodes = {} /\ BsdCode \in MacroCodes
  /\ FixedCodes \cup MadeUpCodes \subseteq LibuvCodes
  /\ NegativeCodes \cap LibuvCodes = {}
  /\ LibuvCodes \cup MacroCodes \cup NegativeCodes \subseteq AllCodes
  /\ \A c \in LibuvCodes \cup MacroCodes : -4096 < c
  /\ 0 \notin AllCodes /\ AllCodes \cap OwnNumbers = {}
<1>1. FixedCodes \cap MacroCodes = {} /\ FixedCodes \cap MadeUpCodes = {}
  BY DEF FixedCodes, MacroCodes, MadeUpCodes
<1>2. MacroCodes \cap MadeUpCodes = {} /\ BsdCode \in MacroCodes
  BY DEF MacroCodes, MadeUpCodes, BsdCode
<1>3. FixedCodes \cup MadeUpCodes \subseteq LibuvCodes /\ NegativeCodes \cap LibuvCodes = {}
  <2>1. \A c \in FixedCodes : c \in LibuvCodes
    BY DEF FixedCodes, LibuvCodes
  <2>2. \A c \in MadeUpCodes : c \in LibuvCodes
    BY DEF MadeUpCodes, LibuvCodes
  <2>3. NegativeCodes \cap LibuvCodes = {}
    BY DEF NegativeCodes
  <2> QED BY <2>1, <2>2, <2>3
<1>4. LibuvCodes \cup MacroCodes \cup NegativeCodes \subseteq AllCodes
  <2>1. \A c \in LibuvCodes : c \in AllCodes
    BY DEF LibuvCodes, AllCodes
  <2>2. \A c \in MacroCodes : c \in AllCodes
    BY DEF MacroCodes, AllCodes
  <2>3. \A c \in NegativeCodes : c \in AllCodes
    BY DEF NegativeCodes, AllCodes
  <2> QED BY <2>1, <2>2, <2>3
<1>6. \A c \in LibuvCodes \cup MacroCodes : -4096 < c
  BY DEF LibuvCodes, MacroCodes
<1>5. 0 \notin AllCodes /\ AllCodes \cap OwnNumbers = {}
  BY DEF AllCodes, OwnNumbers
<1> QED BY <1>1, <1>2, <1>3, <1>4, <1>5, <1>6

\* Turning the sign of a number of <errno.h>.
LEMMA Negation ==
  ASSUME NEW x \in ErrnoRange
  PROVE  - x \in MacroCodes /\ (- x = BsdCode => x = 64)
BY DEF ErrnoRange, MacroCodes, BsdCode

\* The sign turned, two numbers of <errno.h> still differ.
LEMMA NegationInjective ==
  ASSUME NEW x \in ErrnoRange, NEW y \in ErrnoRange, - x = - y
  PROVE  x = y
BY DEF ErrnoRange

\* The numbers that do not depend on the platform, UV__EOF, UV__UNKNOWN and
\* those of getaddrinfo, differ and leave room for the others.
LEMMA FixedNumbers ==
  /\ \A n \in DOMAIN UV__Fixed : UV__Fixed[n] \in FixedCodes
  /\ \A m, n \in DOMAIN UV__Fixed : UV__Fixed[m] = UV__Fixed[n] => m = n
<1>1. \A n \in DOMAIN UV__Fixed : UV__Fixed[n] \in FixedCodes
  BY DEF UV__Fixed, FixedCodes
<1>2. \A m, n \in DOMAIN UV__Fixed : UV__Fixed[m] = UV__Fixed[n] => m = n
  BY DEF UV__Fixed
<1> QED BY <1>1, <1>2

\* The numbers libuv made up for names that a platform lacks, in three parts
\* that do not overlap.
LEMMA FallbackNumbers ==
  /\ \A n \in DOMAIN UV__Fallback_1 : UV__Fallback_1[n] \in -4093 .. -4066
  /\ \A n \in DOMAIN UV__Fallback_2 : UV__Fallback_2[n] \in -4065 .. -4041
  /\ \A n \in DOMAIN UV__Fallback_3 : UV__Fallback_3[n] \in -4040 .. -4025
  /\ \A m, n \in DOMAIN UV__Fallback_1 : UV__Fallback_1[m] = UV__Fallback_1[n] => m = n
  /\ \A m, n \in DOMAIN UV__Fallback_2 : UV__Fallback_2[m] = UV__Fallback_2[n] => m = n
  /\ \A m, n \in DOMAIN UV__Fallback_3 : UV__Fallback_3[m] = UV__Fallback_3[n] => m = n
<1>1. \A n \in DOMAIN UV__Fallback_1 : UV__Fallback_1[n] \in -4093 .. -4066
  BY DEF UV__Fallback_1
<1>2. \A n \in DOMAIN UV__Fallback_2 : UV__Fallback_2[n] \in -4065 .. -4041
  BY DEF UV__Fallback_2
<1>3. \A n \in DOMAIN UV__Fallback_3 : UV__Fallback_3[n] \in -4040 .. -4025
  BY DEF UV__Fallback_3
<1>4. \A m, n \in DOMAIN UV__Fallback_1 : UV__Fallback_1[m] = UV__Fallback_1[n] => m = n
  BY DEF UV__Fallback_1
<1>5. \A m, n \in DOMAIN UV__Fallback_2 : UV__Fallback_2[m] = UV__Fallback_2[n] => m = n
  BY DEF UV__Fallback_2
<1>6. \A m, n \in DOMAIN UV__Fallback_3 : UV__Fallback_3[m] = UV__Fallback_3[n] => m = n
  BY DEF UV__Fallback_3
<1> QED BY <1>1, <1>2, <1>3, <1>4, <1>5, <1>6

\* Every name that depends on the platform is in one of the three parts.
LEMMA FallbackNames ==
  /\ \A n \in PlatformNames :
       \/ n \in DOMAIN UV__Fallback_1
       \/ n \in DOMAIN UV__Fallback_2
       \/ n \in DOMAIN UV__Fallback_3
  /\ \A n \in DOMAIN UV__Fallback_1 : n \notin DOMAIN UV__Fallback_2 \cup DOMAIN UV__Fallback_3
  /\ \A n \in DOMAIN UV__Fallback_2 : n \notin DOMAIN UV__Fallback_3
<1>1. \A n \in UV_ERRNO_MAP :
        \/ n \in DOMAIN UV__Fixed
        \/ n \in DOMAIN UV__Fallback_1
        \/ n \in DOMAIN UV__Fallback_2
        \/ n \in DOMAIN UV__Fallback_3
  BY DEF UV_ERRNO_MAP, UV__Fixed, UV__Fallback_1, UV__Fallback_2, UV__Fallback_3
<1>2. \A n \in DOMAIN UV__Fallback_1 : n \notin DOMAIN UV__Fallback_2 \cup DOMAIN UV__Fallback_3
  BY DEF UV__Fallback_1, UV__Fallback_2, UV__Fallback_3
<1>3. \A n \in DOMAIN UV__Fallback_2 : n \notin DOMAIN UV__Fallback_3
  BY DEF UV__Fallback_2, UV__Fallback_3
<1> QED BY <1>1, <1>2, <1>3 DEF PlatformNames

\* No two names have one number of libuv's own.
LEMMA FallbackInjective ==
  /\ \A n \in PlatformNames : Fallback(n) \in MadeUpCodes
  /\ \A m, n \in PlatformNames : Fallback(m) = Fallback(n) => m = n
<1>1. \A n \in PlatformNames :
        \/ n \in DOMAIN UV__Fallback_1 /\ Fallback(n) = UV__Fallback_1[n]
        \/ n \in DOMAIN UV__Fallback_2 /\ Fallback(n) = UV__Fallback_2[n]
        \/ n \in DOMAIN UV__Fallback_3 /\ Fallback(n) = UV__Fallback_3[n]
  BY FallbackNames DEF Fallback
<1>2. ASSUME NEW n \in PlatformNames PROVE Fallback(n) \in MadeUpCodes
  BY <1>1, FallbackNumbers DEF MadeUpCodes
<1>3. ASSUME NEW m \in PlatformNames, NEW n \in PlatformNames, Fallback(m) = Fallback(n)
      PROVE  m = n
  BY <1>1, <1>3, FallbackNumbers
<1> QED BY <1>2, <1>3

\* The codes of src/include/sc/errcode.h.
LEMMA OwnCodes ==
  /\ Range(SC_Codes) = OwnNumbers
  /\ \A n \in DOMAIN SC_Codes : SC_Codes[n] \in OwnNumbers
  /\ 0 \notin OwnNumbers
<1>1. DOMAIN SC_Codes = {"SC_ENOMEM", "SC_EURIPARSE", "SC_EINVPROTO"}
  BY DEF SC_Codes
<1>2. /\ SC_Codes["SC_ENOMEM"] = 3193 /\ SC_Codes["SC_EURIPARSE"] = 3194
      /\ SC_Codes["SC_EINVPROTO"] = 3195
  BY DEF SC_Codes
<1> QED BY <1>1, <1>2 DEF Range, OwnNumbers

\* The three of them differ.
LEMMA OwnCodesInjective ==
  \A m, n \in DOMAIN SC_Codes : SC_Codes[m] = SC_Codes[n] => m = n
<1>1. DOMAIN SC_Codes = {"SC_ENOMEM", "SC_EURIPARSE", "SC_EINVPROTO"}
  BY DEF SC_Codes
<1>2. /\ SC_Codes["SC_ENOMEM"] = 3193 /\ SC_Codes["SC_EURIPARSE"] = 3194
      /\ SC_Codes["SC_EINVPROTO"] = 3195
  BY DEF SC_Codes
<1> QED BY <1>1, <1>2

\* The last resort of buv_strerror is the text of no error.
LEMMA NoName ==
  /\ "unknown error code" \notin UV_ERRNO_MAP
  /\ "unknown error code" \notin DOMAIN SC_Codes
<1>1. "unknown error code" \notin UV_ERRNO_MAP
  BY DEF UV_ERRNO_MAP
<1>2. "unknown error code" \notin DOMAIN SC_Codes
  BY DEF SC_Codes
<1> QED BY <1>1, <1>2

-----------------------------------------------------------------------------
(* The enumerators of uv_errno_t on one platform.                          *)

\* Where the number c of the name n may come from.
IsFixed(n, c) == n \in DOMAIN UV__Fixed /\ c = UV__Fixed[n]
IsMacro(n, c) == platform.kind # "negative" /\ n \in DOMAIN errno /\ c = - errno[n]
IsNegative(n, c) == platform.kind = "negative" /\ n \in DOMAIN negative /\ c = negative[n]
IsBsd(n, c) == platform.kind = "bsd" /\ n = "EHOSTDOWN" /\ c = BsdCode
IsMadeUp(n, c) == n \in PlatformNames /\ c = Fallback(n)

Source(n, c) ==
  \/ IsFixed(n, c) \/ IsMacro(n, c) \/ IsNegative(n, c)
  \/ IsBsd(n, c) \/ IsMadeUp(n, c)

\* The numbers of <errno.h> are small or negative and not libuv's own, differ,
\* and BSD keeps 64 for EHOSTDOWN.
LEMMA ErrnoNumbers ==
  /\ \A n \in DOMAIN errno : errno[n] \in ErrnoRange
  /\ \A p \in Platforms, n \in DOMAIN errno :
       p.kind = "bsd" /\ errno[n] = 64 => n = "EHOSTDOWN"
  /\ \A m, n \in DOMAIN errno : errno[m] = errno[n] => m = n
  /\ \A n \in DOMAIN negative : negative[n] \in NegativeCodes
  /\ \A m, n \in DOMAIN negative : negative[m] = negative[n] => m = n
  /\ \A p \in Platforms, n \in PlatformNames :
       n \notin p.missing => n \in IF p.kind = "negative" THEN DOMAIN negative ELSE DOMAIN errno
<1>1. \A n \in DOMAIN errno : errno[n] \in ErrnoRange
  BY PlatformsAssumption DEF ErrnoRange
<1>2. \A p \in Platforms, n \in DOMAIN errno :
       p.kind = "bsd" /\ errno[n] = 64 => n = "EHOSTDOWN"
  BY PlatformsAssumption
<1>3. \A m, n \in DOMAIN errno : errno[m] = errno[n] => m = n
  BY PlatformsAssumption
<1>4. \A p \in Platforms, n \in PlatformNames :
       n \notin p.missing => n \in IF p.kind = "negative" THEN DOMAIN negative ELSE DOMAIN errno
  BY PlatformsAssumption
<1>5. \A n \in DOMAIN negative : negative[n] \in NegativeCodes
  BY PlatformsAssumption DEF NegativeCodes, LibuvCodes
<1>6. \A m, n \in DOMAIN negative : negative[m] = negative[n] => m = n
  BY PlatformsAssumption
<1> QED BY <1>1, <1>2, <1>3, <1>4, <1>5, <1>6

\* There is no other source than these five.
LEMMA Sources ==
  ASSUME platform \in Platforms, NEW n \in UV_ERRNO_MAP
  PROVE  Source(n, UV(n))
<1>1. CASE n \in DOMAIN UV__Fixed
  BY <1>1 DEF UV, Source, IsFixed
<1>2. CASE n \notin DOMAIN UV__Fixed /\ IsDefined(n) /\ platform.kind # "windows"
  <2>1. n \in IF platform.kind = "negative" THEN DOMAIN negative ELSE DOMAIN errno
    BY <1>2, ErrnoNumbers DEF PlatformNames, IsDefined
  <2>2. UV(n) = UV__ERR(Macro(n))
    BY <1>2 DEF UV
  <2>3. UV(n) = IF platform.kind = "negative" THEN negative[n] ELSE - errno[n]
    BY <2>2, Zenon DEF UV__ERR, Macro
  <2> QED BY <2>1, <2>3, Zenon DEF Source, IsMacro, IsNegative
<1>3. CASE n \notin DOMAIN UV__Fixed /\ ~ (IsDefined(n) /\ platform.kind # "windows")
  <2>1. n \in PlatformNames
    BY <1>3 DEF PlatformNames
  <2>2. UV(n) = Hidden(n)
    BY <1>3 DEF UV
  <2>3. UV(n) = Fallback(n) \/ (n = "EHOSTDOWN" /\ UV(n) = BsdCode /\ platform.kind = "bsd")
    BY <2>2 DEF Hidden, BsdCode
  <2> QED BY <2>1, <2>3, Zenon DEF Source, IsBsd, IsMadeUp
<1> QED BY <1>1, <1>2, <1>3

\* Each source has its range, and only EHOSTDOWN may have the number 64.
LEMMA SourceCodes ==
  ASSUME platform \in Platforms, NEW n, NEW c
  PROVE  /\ IsFixed(n, c) => c \in FixedCodes
         /\ IsMacro(n, c) => c \in MacroCodes /\ (platform.kind = "bsd" /\ c = BsdCode => n = "EHOSTDOWN")
         /\ IsNegative(n, c) => c \in NegativeCodes
         /\ IsBsd(n, c) => platform.kind = "bsd" /\ c = BsdCode /\ c \in MacroCodes /\ n = "EHOSTDOWN"
         /\ IsMadeUp(n, c) => c \in MadeUpCodes
<1>1. IsFixed(n, c) => c \in FixedCodes
  BY FixedNumbers, Zenon DEF IsFixed
<1>2. ASSUME IsMacro(n, c)
      PROVE  c \in MacroCodes /\ (platform.kind = "bsd" /\ c = BsdCode => n = "EHOSTDOWN")
  <2>1. PICK x \in ErrnoRange : x = errno[n]
    BY <1>2, ErrnoNumbers DEF IsMacro
  <2>2. c = - x
    BY <1>2, <2>1 DEF IsMacro
  <2>3. c \in MacroCodes
    BY <2>2, Negation
  <2>4. c = BsdCode => x = 64
    BY <2>2, Negation
  <2> QED BY <1>2, <2>1, <2>3, <2>4, ErrnoNumbers DEF IsMacro
<1>3. IsBsd(n, c) => platform.kind = "bsd" /\ c = BsdCode /\ c \in MacroCodes /\ n = "EHOSTDOWN"
  <2>1. BsdCode \in MacroCodes
    BY CodesApart
  <2> QED BY <2>1 DEF IsBsd
<1>4. IsMadeUp(n, c) => c \in MadeUpCodes
  BY FallbackInjective, Zenon DEF IsMadeUp
<1>5. IsNegative(n, c) => c \in NegativeCodes
  BY ErrnoNumbers, Zenon DEF IsNegative
<1> QED BY <1>1, <1>2, <1>3, <1>4, <1>5, Zenon

\* The numbers of one source differ.
LEMMA SourcesInjective ==
  ASSUME NEW m, NEW n, NEW c
  PROVE  /\ IsFixed(m, c) /\ IsFixed(n, c) => m = n
         /\ IsMacro(m, c) /\ IsMacro(n, c) => m = n
         /\ IsNegative(m, c) /\ IsNegative(n, c) => m = n
         /\ IsMadeUp(m, c) /\ IsMadeUp(n, c) => m = n
<1>1. IsFixed(m, c) /\ IsFixed(n, c) => m = n
  BY FixedNumbers, Zenon DEF IsFixed
<1>2. IsMacro(m, c) /\ IsMacro(n, c) => m = n
  <2> SUFFICES ASSUME IsMacro(m, c), IsMacro(n, c) PROVE m = n
    OBVIOUS
  <2>1. PICK x \in ErrnoRange : x = errno[m]
    BY ErrnoNumbers DEF IsMacro
  <2>2. PICK y \in ErrnoRange : y = errno[n]
    BY ErrnoNumbers DEF IsMacro
  <2>3. c = - x
    BY <2>1 DEF IsMacro
  <2>4. c = - y
    BY <2>2 DEF IsMacro
  <2>5. x = y
    BY <2>3, <2>4, NegationInjective
  <2> QED BY <2>1, <2>2, <2>5, ErrnoNumbers DEF IsMacro
<1>3. IsMadeUp(m, c) /\ IsMadeUp(n, c) => m = n
  BY FallbackInjective, Zenon DEF IsMadeUp
<1>4. IsNegative(m, c) /\ IsNegative(n, c) => m = n
  BY ErrnoNumbers, Zenon DEF IsNegative
<1> QED BY <1>1, <1>2, <1>3, <1>4

\* The kind of the platform and the range of the number tell the sources apart.
LEMMA SourcesApart ==
  ASSUME platform \in Platforms, NEW m, NEW n, NEW c, IsNegative(m, c)
  PROVE  ~ IsFixed(n, c) /\ ~ IsMacro(n, c) /\ ~ IsBsd(n, c) /\ ~ IsMadeUp(n, c)
<1>1. platform.kind = "negative"
  BY DEF IsNegative
<1>2. ~ IsMacro(n, c) /\ ~ IsBsd(n, c)
  BY <1>1 DEF IsMacro, IsBsd
<1>3. c \notin FixedCodes /\ c \notin MadeUpCodes
  BY SourceCodes, CodesApart
<1> QED BY <1>2, <1>3, SourceCodes, Zenon

\* A number belongs to one name.
LEMMA OneName ==
  ASSUME platform \in Platforms
  PROVE  /\ \A n, c : Source(n, c) => c \in AllCodes
         /\ \A m, n, c : Source(m, c) /\ Source(n, c) => m = n
<1>1. ASSUME NEW n, NEW c, Source(n, c) PROVE c \in AllCodes
  <2>1. c \in FixedCodes \cup MacroCodes \cup NegativeCodes \cup MadeUpCodes
    BY <1>1, SourceCodes DEF Source
  <2> QED BY <2>1, CodesApart
<1>2. ASSUME NEW m, NEW n, NEW c, Source(m, c), Source(n, c) PROVE m = n
  <2>9. CASE IsNegative(m, c) \/ IsNegative(n, c)
    BY <1>2, <2>9, SourcesApart, SourcesInjective, Zenon DEF Source
  <2> SUFFICES ASSUME ~ IsNegative(m, c), ~ IsNegative(n, c) PROVE m = n
    BY <2>9
  <2>1. IsFixed(m, c) \/ IsMacro(m, c) \/ IsBsd(m, c) \/ IsMadeUp(m, c)
    BY <1>2, Zenon DEF Source
  <2>2. IsFixed(n, c) \/ IsMacro(n, c) \/ IsBsd(n, c) \/ IsMadeUp(n, c)
    BY <1>2, Zenon DEF Source
  <2>3. /\ ~ (c \in FixedCodes /\ c \in MacroCodes)
        /\ ~ (c \in FixedCodes /\ c \in MadeUpCodes)
        /\ ~ (c \in MacroCodes /\ c \in MadeUpCodes)
    BY CodesApart
  <2>4. CASE IsFixed(m, c)
    BY <2>2, <2>3, <2>4, SourceCodes, SourcesInjective, Zenon
  <2>5. CASE IsMacro(m, c)
    <3>1. ~ IsFixed(n, c) /\ ~ IsMadeUp(n, c)
      BY <2>3, <2>5, SourceCodes, Zenon
    <3>2. CASE IsBsd(n, c)
      <4>1. platform.kind = "bsd" /\ c = BsdCode /\ n = "EHOSTDOWN"
        BY <3>2, SourceCodes, Zenon
      <4>2. m = "EHOSTDOWN"
        BY <2>5, <4>1, SourceCodes, Zenon
      <4> QED BY <4>1, <4>2
    <3> QED BY <2>2, <2>5, <3>1, <3>2, SourcesInjective, Zenon
  <2>6. CASE IsBsd(m, c)
    <3>1. platform.kind = "bsd" /\ c = BsdCode /\ c \in MacroCodes /\ m = "EHOSTDOWN"
      BY <2>6, SourceCodes, Zenon
    <3>2. ~ IsFixed(n, c) /\ ~ IsMadeUp(n, c)
      BY <2>3, <3>1, SourceCodes, Zenon
    <3>3. CASE IsMacro(n, c)
      <4>1. n = "EHOSTDOWN"
        BY <3>1, <3>3, SourceCodes, Zenon
      <4> QED BY <3>1, <4>1
    <3>4. CASE IsBsd(n, c)
      <4>1. n = "EHOSTDOWN"
        BY <3>4, SourceCodes, Zenon
      <4> QED BY <3>1, <4>1
    <3> QED BY <2>2, <3>2, <3>3, <3>4, Zenon
  <2>7. CASE IsMadeUp(m, c)
    BY <2>2, <2>3, <2>7, SourceCodes, SourcesInjective, Zenon
  <2> QED BY <2>1, <2>4, <2>5, <2>6, <2>7
<1> QED BY <1>1, <1>2

\* Where the numbers of <errno.h> are positive, libuv's are above UV_ERRNO_MAX.
LEMMA AboveMax ==
  ASSUME platform \in Platforms, platform.kind # "negative", NEW n, NEW c, Source(n, c)
  PROVE  -4096 < c
<1>1. c \in FixedCodes \cup MacroCodes \cup MadeUpCodes
  BY SourceCodes DEF Source, IsNegative
<1>2. c \in LibuvCodes \cup MacroCodes
  BY <1>1, CodesApart
<1> QED BY <1>2, CodesApart

\* The enumerators of a platform, as a table.
Numbers == [n \in UV_ERRNO_MAP |-> UV(n)]

\* No two enumerators have one number.
LEMMA UVInjective ==
  ASSUME platform \in Platforms
  PROVE  /\ Numbers \in [UV_ERRNO_MAP -> AllCodes]
         /\ \A m, n \in UV_ERRNO_MAP : Numbers[m] = Numbers[n] => m = n
<1>1. \A n \in UV_ERRNO_MAP : Source(n, Numbers[n])
  BY Sources, Zenon DEF Numbers
<1>2. \A n \in UV_ERRNO_MAP : Numbers[n] \in AllCodes
  BY <1>1, OneName, Zenon
<1>3. Numbers = [n \in UV_ERRNO_MAP |-> Numbers[n]]
  BY Zenon DEF Numbers
<1>4. Numbers \in [UV_ERRNO_MAP -> AllCodes]
  BY <1>2, <1>3
<1>5. \A m, n \in UV_ERRNO_MAP : Numbers[m] = Numbers[n] => m = n
  <2> SUFFICES ASSUME NEW m \in UV_ERRNO_MAP, NEW n \in UV_ERRNO_MAP,
                      Numbers[m] = Numbers[n]
               PROVE  m = n
    OBVIOUS
  <2>1. Source(m, Numbers[m]) /\ Source(n, Numbers[m])
    BY <1>1, Zenon
  <2> QED BY <2>1, OneName, Zenon
<1> QED BY <1>4, <1>5

\* There are finitely many names: libuv made up a number for each.
LEMMA NamesFinite == IsFiniteSet(UV_ERRNO_MAP)
<1> DEFINE made(n) == IF n \in DOMAIN UV__Fixed THEN UV__Fixed[n] ELSE Fallback(n)
           table == [n \in UV_ERRNO_MAP |-> made(n)]
<1>1. \A n \in UV_ERRNO_MAP : n \notin DOMAIN UV__Fixed => n \in PlatformNames
  BY DEF PlatformNames
<1>2. ASSUME NEW n \in UV_ERRNO_MAP
      PROVE  IF n \in DOMAIN UV__Fixed THEN made(n) \in FixedCodes ELSE made(n) \in MadeUpCodes
  BY <1>1, FixedNumbers, FallbackInjective, Zenon
<1>3. \A n \in UV_ERRNO_MAP : made(n) \in LibuvCodes
  BY <1>2, CodesApart
<1>4. ASSUME NEW m \in UV_ERRNO_MAP, NEW n \in UV_ERRNO_MAP, made(m) = made(n)
      PROVE  m = n
  <2>1. m \in DOMAIN UV__Fixed <=> n \in DOMAIN UV__Fixed
    BY <1>2, <1>4, CodesApart
  <2> QED BY <1>1, <1>4, <2>1, FixedNumbers, FallbackInjective, Zenon
<1> HIDE DEF made
<1>5. table \in Injection(UV_ERRNO_MAP, LibuvCodes)
  BY <1>3, <1>4 DEF Injection, IsInjective
<1>6. IsFiniteSet(LibuvCodes)
  <2> DEFINE a == -4095
             b == -3000
  <2>1. LibuvCodes = a .. b /\ a \in Int /\ b \in Int
    BY DEF LibuvCodes
  <2> HIDE DEF a, b
  <2>2. IsFiniteSet(a .. b)
    BY <2>1, FS_Interval
  <2> QED BY <2>1, <2>2, Zenon
<1> QED BY <1>5, <1>6, FS_Injection

\* A property of the enumerators is one of the table.
LEMMA NumberOf ==
  /\ \A n \in UV_ERRNO_MAP : UV(n) = Numbers[n]
  /\ {UV(n) : n \in UV_ERRNO_MAP} = {Numbers[n] : n \in UV_ERRNO_MAP}
<1>1. \A n \in UV_ERRNO_MAP : UV(n) = Numbers[n]
  BY Zenon DEF Numbers
<1> QED BY <1>1, Zenon

\* On every platform the cases of buv_strerror differ.
LEMMA Distinct ==
  ASSUME platform \in Platforms
  PROVE  DistinctCodes
<1> DEFINE uv == {Numbers[n] : n \in UV_ERRNO_MAP}
<1>1. /\ Numbers \in [UV_ERRNO_MAP -> AllCodes]
      /\ \A m, n \in UV_ERRNO_MAP : Numbers[m] = Numbers[n] => m = n
  BY UVInjective
<1>2. ASSUME platform.kind # "negative", NEW n \in UV_ERRNO_MAP PROVE -4096 < Numbers[n]
  <2>1. Source(n, Numbers[n])
    BY Sources, Zenon DEF Numbers
  <2> QED BY <1>2, <2>1, AboveMax
<1>4. Numbers \in Injection(UV_ERRNO_MAP, uv) /\ Numbers \in Surjection(UV_ERRNO_MAP, uv)
  BY <1>1 DEF Injection, IsInjective, Surjection
<1>5. IsFiniteSet(UV_ERRNO_MAP)
  BY NamesFinite
<1>6. Cardinality(uv) = Cardinality(UV_ERRNO_MAP)
  BY <1>4, <1>5, FS_Surjection
<1>7. UV_ERRNO_MAX = -4096
  BY DEF UV_ERRNO_MAX, UV__Fixed
<1>8. uv \subseteq AllCodes
  BY <1>1
<1>9. \A c \in uv : c < 0 /\ (platform.kind # "negative" => -4096 < c)
  <2>1. \A c \in uv : c < 0
    BY <1>8 DEF AllCodes
  <2> QED BY <1>2, <2>1
<1>10. uv \cap Range(SC_Codes) = {}
  BY <1>8, CodesApart, OwnCodes
<1> QED BY <1>6, <1>7, <1>9, <1>10, NumberOf DEF DistinctCodes

\* buv_strerror and sc_strerror find the name of a number in the table.
LEMMA TextOf ==
  ASSUME platform \in Platforms, NEW code
  PROVE  /\ \A n \in DOMAIN SC_Codes : code = SC_Codes[n] => sc_strerror(code) = n
         /\ \A n \in UV_ERRNO_MAP : code = Numbers[n] => sc_strerror(code) = n
         /\ sc_strerror(code) = "unknown error code" <=>
              code \notin Range(SC_Codes) \cup {Numbers[n] : n \in UV_ERRNO_MAP}
<1> DEFINE Buv == IF \E n \in UV_ERRNO_MAP : Numbers[n] = code
                    THEN CHOOSE n \in UV_ERRNO_MAP : Numbers[n] = code
                    ELSE "unknown error code"
           Text == IF \E n \in DOMAIN SC_Codes : SC_Codes[n] = code
                     THEN CHOOSE n \in DOMAIN SC_Codes : SC_Codes[n] = code
                     ELSE Buv
<1>1. BUV_ERRNO_MAP = UV_ERRNO_MAP
  BY DEF BUV_ERRNO_MAP, UV_ERRNO_MAP
<1>2. sc_strerror(code) = Text
  <2>1. buv_strerror(code) = Buv
    BY <1>1, Zenon DEF buv_strerror, Numbers
  <2> HIDE DEF Buv
  <2> QED BY <2>1 DEF sc_strerror
<1>3. CASE \E n \in DOMAIN SC_Codes : SC_Codes[n] = code
  <2>1. PICK n \in DOMAIN SC_Codes : SC_Codes[n] = code
    BY <1>3
  <2>2. Text = n
    <3>1. \A m \in DOMAIN SC_Codes : SC_Codes[m] = code => m = n
      BY <2>1, OwnCodesInjective, Zenon
    <3> QED BY <2>1, <3>1, Zenon
  <2>3. code \in Range(SC_Codes)
    BY <2>1 DEF Range
  <2>4. \A m \in UV_ERRNO_MAP : code # Numbers[m]
    <3>1. code \in OwnNumbers
      BY <2>1, OwnCodes, Zenon
    <3>2. \A m \in UV_ERRNO_MAP : Numbers[m] \in AllCodes
      BY UVInjective
    <3> QED BY <3>1, <3>2, CodesApart
  <2> HIDE DEF Text
  <2> QED BY <1>2, <2>1, <2>2, <2>3, <2>4, OwnCodesInjective, NoName
<1>4. CASE ~ \E n \in DOMAIN SC_Codes : SC_Codes[n] = code
  <2>1. Text = Buv /\ code \notin Range(SC_Codes)
    BY <1>4 DEF Range
  <2> HIDE DEF Text
  <2>2. CASE \E n \in UV_ERRNO_MAP : Numbers[n] = code
    <3>1. PICK n \in UV_ERRNO_MAP : Numbers[n] = code
      BY <2>2
    <3>2. \A m \in UV_ERRNO_MAP : Numbers[m] = code => m = n
      BY <3>1, UVInjective, Zenon
    <3>3. Buv = n
      BY <3>1, <3>2, Zenon
    <3> HIDE DEF Buv
    <3> QED BY <1>2, <1>4, <2>1, <3>1, <3>2, <3>3, NoName
  <2>3. CASE ~ \E n \in UV_ERRNO_MAP : Numbers[n] = code
    <3>1. Buv = "unknown error code"
      BY <2>3
    <3> HIDE DEF Buv
    <3> QED BY <1>2, <1>4, <2>1, <2>3, <3>1
  <2> QED BY <2>2, <2>3
<1> QED BY <1>3, <1>4

-----------------------------------------------------------------------------

\* An error code tells the application which error it was, on every platform
\* and for every number sc_strerror is asked about.
THEOREM ErrCodesTold == ErrSpec => []ErrorsTold
<1> DEFINE Inv == platform \in Platforms /\ RightText
<1>1. ErrInit => Inv
  <2> SUFFICES ASSUME ErrInit PROVE Inv
    OBVIOUS
  <2>1. platform \in Platforms /\ asked = 0 /\ text = "unknown error code"
    BY DEF ErrInit, ErrStart
  <2>2. \A n \in DOMAIN SC_Codes : SC_Codes[n] # 0
    BY OwnCodes
  <2>3. \A n \in UV_ERRNO_MAP : Numbers[n] # 0
    <3>1. \A n \in UV_ERRNO_MAP : Numbers[n] \in AllCodes
      BY <2>1, UVInjective
    <3> QED BY <3>1, CodesApart
  <2>4. 0 \notin Range(SC_Codes)
    BY OwnCodes
  <2> QED BY <2>1, <2>2, <2>3, <2>4, NumberOf DEF RightText
<1>2. Inv /\ [ErrNext]_errVars => Inv'
  <2> SUFFICES ASSUME Inv, [ErrNext]_errVars PROVE Inv'
    OBVIOUS
  <2>1. platform' = platform
    BY DEF ErrNext, Ask, errVars
  <2>2. \A n : UV(n)' = UV(n)
    BY <2>1 DEF UV, IsDefined, UV__ERR, Macro, Hidden
  <2>3. CASE UNCHANGED errVars
    BY <2>2, <2>3 DEF RightText, errVars
  <2>4. CASE ErrNext
    <3>1. text' = sc_strerror(asked')
      BY <2>4 DEF ErrNext, Ask
    <3>2. /\ \A n \in DOMAIN SC_Codes : asked' = SC_Codes[n] => text' = n
          /\ \A n \in UV_ERRNO_MAP : asked' = UV(n) => text' = n
          /\ text' = "unknown error code" <=>
               asked' \notin Range(SC_Codes) \cup {UV(n) : n \in UV_ERRNO_MAP}
      BY <3>1, TextOf, NumberOf
    <3> QED BY <2>1, <2>2, <3>2 DEF RightText
  <2> QED BY <2>3, <2>4
<1>3. Inv => ErrorsTold
  BY Distinct DEF ErrorsTold
<1> QED BY <1>1, <1>2, <1>3, PTL DEF ErrSpec
=============================================================================
