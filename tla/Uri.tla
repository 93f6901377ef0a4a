--------------------------------- MODULE Uri ---------------------------------
(***************************************************************************)
(* URIs: src/src/uri.c.  One call of sc_uri_new, the accessors on what it  *)
(* returns, and sc_uri_del, for one string of a given set.                 *)
(*                                                                         *)
(* A string is a sequence of symbols: the names of the protocols, and the  *)
(* other characters one by one.  ctb_strtok_s and strtol are external and  *)
(* modelled from their use: the first skips leading delimiters and leaves  *)
(* its pointer alone when no delimiter ends the token.                     *)
(***************************************************************************)
EXTENDS Integers, Sequences, FiniteSets

CONSTANTS
  Strings,      \* the strings sc_uri_new is called with
  digits,       \* the digits, in the order of their values
  NS_INADDRSZ,  \* bytes of an address
  OctetMax,     \* 255
  PortMax,      \* 65535
  NULL          \* the null pointer

ASSUME DigitsAssumption ==
  /\ digits \in Seq(STRING) /\ Len(digits) > 0
  /\ \A i, j \in DOMAIN digits : digits[i] = digits[j] => i = j
  /\ \A i \in DOMAIN digits : digits[i] \notin {".", ":", " ", "+", "-"}
ASSUME StringsAssumption == Strings \subseteq Seq(STRING) /\ NULL \notin Seq(STRING)
ASSUME SizeAssumption == NS_INADDRSZ \in Nat \ {0} /\ OctetMax \in Nat /\ PortMax \in Nat

VARIABLES
  instr,     \* the argument of sc_uri_new
  pc,        \* the next step of sc_uri_new, or what became of the URI
  heap,      \* what is allocated: the struct uri and its copy of the string
  errcode,
  proto,     \* uri->proto
  path,      \* the local path
  ip4,       \* uri->tcp.ip4
  port,      \* uri->tcp.port
  src,       \* check_ip4: what is left to read
  tmp,       \* check_ip4: the bytes of the address
  tp,        \* check_ip4: index of the byte being read
  saw_digit,
  octets

parse == <<proto, path, ip4, port>>
loop == <<src, tmp, tp, saw_digit, octets>>
vars == <<instr, pc, heap, errcode, parse, loop>>

-----------------------------------------------------------------------------
(* Strings.                                                                *)

Protocols == {"pipe", "tcp"}

\* The number of symbols at the start of s that satisfy In.
Lead(s, In(_)) ==
  CHOOSE n \in 0 .. Len(s) :
    /\ \A i \in 1 .. n : In(s[i])
    /\ n < Len(s) => ~ In(s[n + 1])

From(s, i) == SubSeq(s, i, Len(s))

\* The token of s, and what follows its delimiter.
ctb_strtok_s(s) ==
  LET t == From(s, Lead(s, LAMBDA c : c = ":") + 1)
      n == Lead(t, LAMBDA c : c # ":")
  IN [tok |-> IF t = << >> THEN NULL ELSE SubSeq(t, 1, n),
      ptr |-> IF n = Len(t) THEN NULL ELSE From(t, n + 2)]

IsDigit(c) == \E i \in DOMAIN digits : digits[i] = c

\* pch - digits
Value(c) == (CHOOSE i \in DOMAIN digits : digits[i] = c) - 1

\* A number that gets one more digit.
Shift(n, c) == n * Len(digits) + Value(c)

\* The number that the digits of s after i make, up to each position.
Number(s, i) ==
  LET num[n \in i .. Len(s)] == IF n = i THEN 0 ELSE Shift(num[n - 1], s[n])
  IN num

\* White space, a sign, digits, anything; end is where the digits end.
strtol(s) ==
  LET blanks == Lead(s, LAMBDA c : c = " ")
      signed == blanks < Len(s) /\ s[blanks + 1] \in {"+", "-"}
      start == IF signed THEN blanks + 1 ELSE blanks
      n == Lead(From(s, start + 1), IsDigit)
      num == Number(s, start)[start + n]
  IN [num |-> IF signed /\ s[start] = "-" THEN - num ELSE num,
      end |-> IF n = 0 THEN 0 ELSE start + n]

\* Mutant: the port 0 is let through.
Mutant_check_port_zero(s) ==
  LET r == strtol(s) IN r.end # 0 /\ r.num >= 0 /\ r.num <= PortMax

check_port(s) ==
  LET r == strtol(s) IN r.end # 0 /\ ~ (r.num < 1 \/ r.num > PortMax)

is_protocol_known(p) == p \in {<<"pipe">>, <<"tcp">>}

sc_uri_protocol == IF proto = <<"pipe">> THEN "PROTO_PIPE" ELSE "PROTO_TCP"

sc_uri_tcp_port == strtol(port).num

-----------------------------------------------------------------------------

Steps == {"malloc", "strdup", "protocol", "path", "check_ip4", "check_port",
          "cleanup"}

\* "failed": sc_uri_new returned 0; "null": it read through a null pointer.
Ends == {"made", "failed", "null", "deleted"}

\* sc_uri_new is called with s.
Start(s) ==
  /\ instr = s
  /\ pc = "malloc" /\ heap = {} /\ errcode = "SC_EURIPARSE"
  /\ proto = NULL /\ path = NULL /\ ip4 = NULL /\ port = NULL
  /\ src = << >> /\ tmp = [i \in 0 .. NS_INADDRSZ - 1 |-> 0]
  /\ tp = 0 /\ saw_digit = FALSE /\ octets = 0

Init == \E s \in Strings : Start(s)

Malloc ==
  /\ pc = "malloc"
  /\ \/ heap' = {"uri"} /\ pc' = "strdup" /\ UNCHANGED errcode
     \/ errcode' = "SC_ENOMEM" /\ pc' = "failed" /\ UNCHANGED heap
  /\ UNCHANGED <<instr, parse, loop>>

\* Mutant: the structure is kept when the string cannot be copied.
Mutant_Strdup_leaks ==
  /\ pc = "strdup"
  /\ \/ heap' = heap \cup {"str"} /\ pc' = "protocol" /\ UNCHANGED errcode
     \/ errcode' = "SC_ENOMEM" /\ pc' = "failed" /\ UNCHANGED heap
  /\ UNCHANGED <<instr, parse, loop>>

Strdup ==
  /\ pc = "strdup"
  /\ \/ heap' = heap \cup {"str"} /\ pc' = "protocol" /\ UNCHANGED errcode
     \/ errcode' = "SC_ENOMEM" /\ heap' = heap \ {"uri"} /\ pc' = "failed"
  /\ UNCHANGED <<instr, parse, loop>>

\* The part before the first ":".
Protocol ==
  /\ pc = "protocol"
  /\ LET t == ctb_strtok_s(instr)
     IN /\ proto' = t.tok /\ path' = t.ptr
        /\ CASE t.ptr = NULL -> pc' = "cleanup" /\ UNCHANGED errcode
             [] t.ptr # NULL /\ ~ is_protocol_known(t.tok) ->
                  pc' = "cleanup" /\ errcode' = "SC_EINVPROTO"
             [] OTHER -> pc' = "path" /\ UNCHANGED errcode
  /\ UNCHANGED <<instr, heap, ip4, port, loop>>

\* Mutant: check_ip4 is given the port.
Mutant_Path_checks_port ==
  /\ pc = "path"
  /\ LET rest == From(path, 3)
         t == ctb_strtok_s(rest)
     IN CASE Len(path) <= 2 \/ path[1] # "/" \/ path[2] # "/" ->
               pc' = "cleanup" /\ UNCHANGED <<path, ip4, port, src>>
          [] OTHER ->
               /\ path' = rest
               /\ IF proto = <<"pipe">>
                    THEN pc' = "made" /\ UNCHANGED <<ip4, port, src>>
                    ELSE /\ ip4' = t.tok /\ port' = t.ptr
                         /\ IF t.ptr = NULL
                              THEN pc' = "null" /\ UNCHANGED src
                              ELSE pc' = "check_ip4" /\ src' = t.ptr
  /\ UNCHANGED <<instr, heap, errcode, proto, tmp, tp, saw_digit, octets>>

\* Two slashes and something after them; for tcp the address is the part
\* before the next ":", and check_ip4 begins with it.
Path ==
  /\ pc = "path"
  /\ LET rest == From(path, 3)
         t == ctb_strtok_s(rest)
     IN CASE Len(path) <= 2 \/ path[1] # "/" \/ path[2] # "/" ->
               pc' = "cleanup" /\ UNCHANGED <<path, ip4, port, src>>
          [] OTHER ->
               /\ path' = rest
               /\ IF proto = <<"pipe">>
                    THEN pc' = "made" /\ UNCHANGED <<ip4, port, src>>
                    ELSE /\ ip4' = t.tok /\ port' = t.ptr
                         /\ IF t.tok = NULL
                              THEN pc' = "null" /\ UNCHANGED src
                              ELSE pc' = "check_ip4" /\ src' = t.tok
  /\ UNCHANGED <<instr, heap, errcode, proto, tmp, tp, saw_digit, octets>>

Refuse == pc' = "cleanup" /\ UNCHANGED <<tmp, tp, saw_digit, octets>>

\* A digit, unless the byte would overflow or there are too many bytes.
Digit(d) ==
  LET new == tmp[tp] * Len(digits) + d
  IN IF new > OctetMax \/ (~ saw_digit /\ octets + 1 > NS_INADDRSZ)
       THEN Refuse
       ELSE /\ tmp' = [tmp EXCEPT ![tp] = new]
            /\ saw_digit' = TRUE
            /\ octets' = IF saw_digit THEN octets ELSE octets + 1
            /\ UNCHANGED <<tp, pc>>

\* Mutant: a dot is allowed after the last byte.
Mutant_Dot_unchecked ==
  /\ tp' = tp + 1
  /\ tmp' = [tmp EXCEPT ![tp + 1] = 0]
  /\ saw_digit' = FALSE
  /\ UNCHANGED <<octets, pc>>

Dot ==
  IF octets = NS_INADDRSZ
    THEN Refuse
    ELSE /\ tp' = tp + 1
         /\ tmp' = [tmp EXCEPT ![tp + 1] = 0]
         /\ saw_digit' = FALSE
         /\ UNCHANGED <<octets, pc>>

\* One turn of the loop of check_ip4.
Check_ip4 ==
  /\ pc = "check_ip4" /\ src # << >>
  /\ CASE IsDigit(Head(src)) -> Digit(Value(Head(src)))
       [] ~ IsDigit(Head(src)) /\ Head(src) = "." /\ saw_digit -> Dot
       [] OTHER -> Refuse
  /\ src' = Tail(src)
  /\ UNCHANGED <<instr, heap, errcode, parse>>

\* The end of check_ip4.
Checked_ip4 ==
  /\ pc = "check_ip4" /\ src = << >>
  /\ pc' = IF octets < NS_INADDRSZ THEN "cleanup" ELSE "check_port"
  /\ UNCHANGED <<instr, heap, errcode, parse, loop>>

Check_port ==
  /\ pc = "check_port"
  /\ pc' = IF port # NULL /\ check_port(port) THEN "made" ELSE "cleanup"
  /\ UNCHANGED <<instr, heap, errcode, parse, loop>>

Cleanup ==
  /\ pc = "cleanup"
  /\ heap' = {} /\ pc' = "failed"
  /\ UNCHANGED <<instr, errcode, parse, loop>>

sc_uri_del ==
  /\ pc = "made"
  /\ heap' = {} /\ pc' = "deleted"
  /\ UNCHANGED <<instr, errcode, parse, loop>>

Next ==
  \/ Malloc \/ Strdup \/ Protocol \/ Path
  \/ Check_ip4 \/ Checked_ip4 \/ Check_port \/ Cleanup
  \/ sc_uri_del

Spec == Init /\ [][Next]_vars

-----------------------------------------------------------------------------

TypeOK ==
  /\ pc \in Steps \cup Ends
  /\ heap \subseteq {"uri", "str"}
  /\ errcode \in {"SC_EURIPARSE", "SC_EINVPROTO", "SC_ENOMEM"}
  /\ tmp \in [0 .. NS_INADDRSZ - 1 -> 0 .. OctetMax]
  /\ saw_digit \in BOOLEAN /\ octets \in 0 .. NS_INADDRSZ

\* The pointer tp of check_ip4 stays inside tmp: "*tp" and "*++tp" touch no
\* byte beyond it, whatever the string.
TpInside == tp \in 0 .. NS_INADDRSZ - 1

\* sc_uri_new keeps nothing when it fails, wherever that is, and a URI it made
\* holds both its parts until sc_uri_del.
HeapOwned ==
  /\ pc \in {"failed", "deleted"} => heap = {}
  /\ pc = "made" => heap = {"uri", "str"}

-----------------------------------------------------------------------------
(* What sc_uri_new accepts, said without its steps.                        *)

Colons(s) == \A i \in DOMAIN s : s[i] = ":"

\* Between the positions i and j of s.
IsOctet(s, i, j) ==
  /\ i + 1 < j
  /\ \A k \in i + 1 .. j - 1 : IsDigit(s[k])
  /\ Number(s, i)[j - 1] <= OctetMax

Dots(s) == {i \in 1 .. Len(s) : s[i] = "."}

\* NS_INADDRSZ octets with dots between them.
IsAddress(s) ==
  /\ Cardinality(Dots(s)) = NS_INADDRSZ - 1
  /\ \A i \in Dots(s) \cup {0}, j \in Dots(s) \cup {Len(s) + 1} :
       i < j /\ (\A k \in Dots(s) : ~ (i < k /\ k < j)) => IsOctet(s, i, j)

\* A port number, after blanks and a plus sign perhaps, before anything.
StartsWithPort(s, num) ==
  \E i \in 0 .. Len(s), k \in 1 .. Len(s) :
    /\ i < k
    /\ \A j \in 1 .. i : s[j] = " " \/ (j = i /\ s[j] = "+")
    /\ \A j \in i + 1 .. k : IsDigit(s[j])
    /\ k < Len(s) => ~ IsDigit(s[k + 1])
    /\ num = Number(s, i)[k]

\* addr:num, after colons perhaps.
IsTcpPath(s, addr, num) ==
  \E i \in 0 .. Len(s), k \in 1 .. Len(s) :
    /\ i < k /\ s[k] = ":" /\ Colons(SubSeq(s, 1, i))
    /\ addr = SubSeq(s, i + 1, k - 1) /\ IsAddress(addr)
    /\ StartsWithPort(From(s, k + 1), num)

\* instr is p://s, after colons perhaps.
IsUri(p, s) ==
  \E i \in 0 .. Len(instr) :
    /\ Colons(SubSeq(instr, 1, i))
    /\ From(instr, i + 1) = <<p, ":", "/", "/">> \o s

Ending == {From(instr, i) : i \in 1 .. Len(instr)}

\* The strings that sc_uri_new is to accept, more than a strict grammar would.
Acceptable ==
  \E s \in Ending :
    \/ IsUri("pipe", s)
    \/ /\ IsUri("tcp", s)
       /\ \E i, j \in DOMAIN s, num \in 1 .. PortMax :
            IsTcpPath(s, SubSeq(s, i, j), num)

\* sc_uri_new makes a URI of the strings "pipe://path" and "tcp://address:port"
\* with a port from 1 to PortMax, and of no others, and the accessors of
\* src/src/uri.h give back the parts of that string.  As ctb_strtok_s and strtol
\* read, colons may precede the protocol and the address, blanks and a "+" the
\* port, and anything may follow its digits.
AcceptsUris ==
  /\ pc = "made" =>
       /\ Acceptable /\ IsUri(proto[1], path)
       /\ sc_uri_protocol = "PROTO_TCP" => IsTcpPath(path, ip4, sc_uri_tcp_port)
  /\ pc = "failed" /\ errcode # "SC_ENOMEM" => ~ Acceptable

\* The error code that sc_socket_connect and sc_socket_bind pass on says why
\* there is no URI: a name before a ":" that is no protocol comes first.
ErrcodeTellsWhy ==
  pc = "failed" /\ errcode # "SC_ENOMEM" =>
    (errcode = "SC_EINVPROTO" <=>
       \E i \in 0 .. Len(instr), k \in 1 .. Len(instr) :
         /\ i + 1 < k /\ Colons(SubSeq(instr, 1, i)) /\ instr[k] = ":"
         /\ \A j \in i + 1 .. k - 1 : instr[j] # ":"
         /\ SubSeq(instr, i + 1, k - 1) \notin {<<p>> : p \in Protocols})

\* The two together: every string is accepted, or refused for the right reason.
ParsesRight == AcceptsUris /\ ErrcodeTellsWhy

\* check_ip4 is called with a null pointer when nothing but colons follows
\* "tcp://", and never otherwise: the check of uri->tcp.port comes too late.
NullOnlyAfterColons ==
  /\ pc = "null" => IsUri("tcp", path) /\ Colons(path)
  /\ pc = "check_ip4" => ip4 # NULL
=============================================================================
