------------------------------ MODULE MCLibrary ------------------------------
(***************************************************************************)
(* The parts of the library that an application calls outside any          *)
(* connection, side by side: the URIs (Uri), the globals (Setup) and the   *)
(* error codes (ErrCodes).  They share no state, so that one of them runs  *)
(* and the others stay as they were.                                       *)
(***************************************************************************)
EXTENDS Uri, Setup, ErrCodes, SequencesExt

VARIABLE part  \* which of them runs

libVars == <<part, vars, setupVars, errVars>>

-----------------------------------------------------------------------------
(* Strings for Uri.  Binary digits, addresses of two bytes of at most 2 and *)
(* ports up to 2: every way to be out of range needs few symbols.           *)

MCdigits == <<"0", "1">>

\* How a string may begin, with a few endings.
Beginnings ==
  {b \o e : b \in SeqOf({":", "/", "x", "pipe", "tcp"}, 5),
            e \in {<< >>, <<"x">>, <<":">>, <<"1", ".", "1", ":", "1">>}}

TcpPaths ==
  {<<"tcp", ":", "/", "/">> \o s : s \in SeqOf({".", ":", "x", "0", "1"}, 6)}

\* Addresses of three bytes, or with a dot at the end, or too large.
LongAddresses ==
  {<<"tcp", ":", "/", "/">> \o s \o <<":", "1">> : s \in [1 .. 6 -> {".", "0", "1"}]}

Ports ==
  {<<"tcp", ":", "/", "/", "1", ".", "0", ":">> \o s :
     s \in SeqOf({" ", "+", "-", "0", "1", "x", ":"}, 4)}

MCStrings == Beginnings \cup TcpPaths \cup LongAddresses \cup Ports

-----------------------------------------------------------------------------
(* Platforms for ErrCodes: they lack any one name, or the two that Linux    *)
(* lacks, or all.                                                           *)

\* Numbers from 1 to 69, with 64 for EHOSTDOWN.
MCerrno ==
  [n \in PlatformNames |-> CASE n = "EHOSTDOWN" -> 64
                             [] n = "EREMOTEIO" -> 63
                             [] OTHER -> 4094 + Fallback(n)]

\* Numbers near the least one of 32 bits.
MCnegative == [n \in PlatformNames |-> Fallback(n) - 2147450000]

MCPlatforms ==
  [kind : {"linux", "bsd", "negative", "windows"},
   missing : {{n} : n \in PlatformNames} \cup {{}, {"EFTYPE", "ECHARSET"}, PlatformNames}]

Linux == [kind |-> "linux", missing |-> {"EFTYPE", "ECHARSET"}]

-----------------------------------------------------------------------------

LibInit ==
  \/ part = "uri" /\ Init /\ SetupInit /\ ErrStart(Linux)
  \/ part = "globals" /\ Start(<< >>) /\ SetupInit /\ ErrStart(Linux)
  \/ part = "errors" /\ Start(<< >>) /\ SetupInit /\ ErrInit

LibNext ==
  /\ \/ part = "uri" /\ Next /\ UNCHANGED <<setupVars, errVars>>
     \/ part = "globals" /\ SetupNext /\ UNCHANGED <<vars, errVars>>
     \/ part = "errors" /\ ErrNext /\ UNCHANGED <<vars, setupVars>>
  /\ UNCHANGED part

LibSpec == LibInit /\ [][LibNext]_libVars
=============================================================================
