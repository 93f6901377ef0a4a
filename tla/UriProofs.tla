------------------------------ MODULE UriProofs ------------------------------
(***************************************************************************)
(* check_ip4 writes inside tmp and sc_uri_new leaks nothing, for addresses *)
(* of any number of bytes, any digits and any strings.  Then what the      *)
(* tokens of a string are, from which follow when check_ip4 is given a     *)
(* null pointer and when the protocol is refused; and last what strtol and *)
(* the loop of check_ip4 read, so that sc_uri_new accepts the strings of   *)
(* the reference definition Acceptable and no others.                      *)
(*                                                                         *)
(* Induction over the positions of a string goes by the least position at  *)
(* which a claim fails (LeastNat).                                         *)
(***************************************************************************)
EXTENDS Uri, SequenceTheorems, FiniteSetTheorems, WellFoundedInduction, TLAPS

\* The byte being read is the last of the octets seen, or the one after them
\* when no digit of it has been seen.
Counted == octets = IF saw_digit THEN tp + 1 ELSE tp

\* What is allocated before each step.
HeapAt ==
  /\ pc \in {"malloc", "failed", "deleted"} => heap = {}
  /\ pc = "strdup" => heap = {"uri"}
  /\ pc \in (Steps \cup Ends) \ {"malloc", "failed", "deleted", "strdup"} =>
       heap = {"uri", "str"}

IndInv == TypeOK /\ TpInside /\ Counted /\ HeapAt

\* The value of a digit, pch - digits, is a natural number.
LEMMA ValueNat == ASSUME NEW c, IsDigit(c) PROVE Value(c) \in Nat
<1>1. Len(digits) \in Nat /\ DOMAIN digits = 1 .. Len(digits)
  BY DigitsAssumption, LenProperties
<1> DEFINE i == CHOOSE j \in DOMAIN digits : digits[j] = c
<1>2. i \in DOMAIN digits
  BY Zenon DEF IsDigit
<1> HIDE DEF i
<1>3. i - 1 \in Nat
  BY <1>1, <1>2
<1> QED BY <1>3 DEF Value, i

\* The two factors of the new value of a byte.
LEMMA ProductNat == ASSUME NEW a \in Nat, NEW b \in Nat PROVE a * b \in Nat
OBVIOUS

\* Nothing is allocated when sc_uri_new is called.
LEMMA InitInd == Init => IndInv
BY SizeAssumption DEF Init, Start, IndInv, TypeOK, TpInside, Counted, HeapAt, Steps, Ends

\* A digit of check_ip4 keeps the byte in range and counts its octet once.
LEMMA DigitInd ==
  ASSUME IndInv, NEW d \in Nat, pc = "check_ip4", Digit(d)
  PROVE  /\ tmp' \in [0 .. NS_INADDRSZ - 1 -> 0 .. OctetMax]
         /\ pc' \in {"check_ip4", "cleanup"}
         /\ saw_digit' \in BOOLEAN /\ octets' \in 0 .. NS_INADDRSZ
         /\ TpInside' /\ Counted'
<1> DEFINE new == tmp[tp] * Len(digits) + d
<1>1. new \in Nat
  <2>1. tmp[tp] \in Nat
    BY SizeAssumption DEF IndInv, TypeOK, TpInside
  <2>2. Len(digits) \in Nat
    BY DigitsAssumption, LenProperties
  <2>3. tmp[tp] * Len(digits) \in Nat
    BY <2>1, <2>2, ProductNat
  <2> HIDE DEF new
  <2> QED BY <2>3 DEF new
<1>2. CASE new > OctetMax \/ (~ saw_digit /\ octets + 1 > NS_INADDRSZ)
  BY <1>2 DEF IndInv, TypeOK, TpInside, Counted, Digit, Refuse
<1>3. CASE ~ (new > OctetMax \/ (~ saw_digit /\ octets + 1 > NS_INADDRSZ))
  <2>1. /\ tmp' = [tmp EXCEPT ![tp] = new] /\ saw_digit' = TRUE
        /\ octets' = (IF saw_digit THEN octets ELSE octets + 1)
        /\ tp' = tp /\ pc' = pc
    BY <1>3 DEF Digit
  <2>2. new \in 0 .. OctetMax
    BY <1>1, <1>3, SizeAssumption
  <2> HIDE DEF new
  <2> QED
    BY <1>3, <2>1, <2>2, SizeAssumption DEF IndInv, TypeOK, TpInside, Counted
<1> QED BY <1>2, <1>3

\* A dot moves tp to a byte of tmp: the check of octets before it is what
\* keeps it there.
LEMMA DotInd ==
  ASSUME IndInv, pc = "check_ip4", saw_digit, Dot
  PROVE  /\ tmp' \in [0 .. NS_INADDRSZ - 1 -> 0 .. OctetMax]
         /\ pc' \in {"check_ip4", "cleanup"}
         /\ saw_digit' \in BOOLEAN /\ octets' \in 0 .. NS_INADDRSZ
         /\ TpInside' /\ Counted'
<1>0. octets = tp + 1
  BY DEF IndInv, Counted
<1>1. CASE octets = NS_INADDRSZ
  BY <1>1 DEF IndInv, TypeOK, TpInside, Counted, Dot, Refuse
<1>2. CASE octets # NS_INADDRSZ
  <2>1. /\ tp' = tp + 1 /\ tmp' = [tmp EXCEPT ![tp + 1] = 0]
        /\ saw_digit' = FALSE /\ octets' = octets /\ pc' = pc
    BY <1>2 DEF Dot
  <2>2. tp + 1 \in 0 .. NS_INADDRSZ - 1
    BY <1>0, <1>2, SizeAssumption DEF IndInv, TypeOK, TpInside
  <2>3. tmp' \in [0 .. NS_INADDRSZ - 1 -> 0 .. OctetMax]
    BY <2>1, <2>2, SizeAssumption DEF IndInv, TypeOK
  <2>4. TpInside' /\ Counted'
    BY <1>0, <2>1, <2>2 DEF TpInside, Counted
  <2> QED
    BY <2>1, <2>3, <2>4 DEF IndInv, TypeOK
<1> QED BY <1>1, <1>2

\* Every step of sc_uri_new keeps the invariant.
LEMMA NextInd == IndInv /\ [Next]_vars => IndInv'
<1> SUFFICES ASSUME IndInv, [Next]_vars PROVE IndInv'
  OBVIOUS
<1> USE DEF IndInv, TypeOK, TpInside, Counted, HeapAt, Steps, Ends
<1>1. CASE Malloc
  BY <1>1 DEF Malloc, loop
<1>2. CASE Strdup
  BY <1>2 DEF Strdup, loop
<1>3. CASE Protocol
  BY <1>3 DEF Protocol, loop
<1>4. CASE Path
  <2>1. pc = "path" /\ pc' \in {"cleanup", "made", "null", "check_ip4"}
    BY <1>4 DEF Path
  <2> QED
    BY <1>4, <2>1 DEF Path
<1>5. CASE Check_ip4
  <2>1. /\ tmp' \in [0 .. NS_INADDRSZ - 1 -> 0 .. OctetMax]
        /\ pc' \in {"check_ip4", "cleanup"}
        /\ saw_digit' \in BOOLEAN /\ octets' \in 0 .. NS_INADDRSZ
        /\ TpInside' /\ Counted'
    <3>1. CASE IsDigit(Head(src)) /\ Digit(Value(Head(src)))
      BY <1>5, <3>1, ValueNat, DigitInd DEF Check_ip4
    <3>2. CASE saw_digit /\ Dot
      BY <1>5, <3>2, DotInd DEF Check_ip4
    <3>3. CASE Refuse
      BY <3>3 DEF Refuse
    <3> QED
      BY <1>5, <3>1, <3>2, <3>3 DEF Check_ip4
  <2>2. pc = "check_ip4" /\ heap' = heap /\ errcode' = errcode
    BY <1>5 DEF Check_ip4
  <2> QED BY <2>1, <2>2
<1>6. CASE Checked_ip4
  BY <1>6 DEF Checked_ip4, loop
<1>7. CASE Check_port
  BY <1>7 DEF Check_port, loop
<1>8. CASE Cleanup
  BY <1>8 DEF Cleanup, loop
<1>9. CASE sc_uri_del
  BY <1>9 DEF sc_uri_del, loop
<1>10. CASE UNCHANGED vars
  BY <1>10 DEF vars, loop
<1> QED
  BY <1>1, <1>2, <1>3, <1>4, <1>5, <1>6, <1>7, <1>8, <1>9, <1>10 DEF Next

\* The inductive invariant of sc_uri_new.
THEOREM UriInvariance == Spec => []IndInv
BY InitInd, NextInd, PTL DEF Spec

\* The pointer tp of check_ip4 never leaves tmp, for addresses of any number
\* of bytes and any string.
THEOREM TpStaysInside == Spec => []TpInside
BY UriInvariance, PTL DEF IndInv

\* sc_uri_new leaks nothing on any of its error paths and sc_uri_del frees
\* what it made.
THEOREM HeapIsOwned == Spec => []HeapOwned
<1>1. IndInv => HeapOwned
  BY DEF IndInv, HeapAt, HeapOwned, Steps, Ends
<1> QED BY UriInvariance, <1>1, PTL

\* Type correctness of sc_uri_new: no byte of tmp overflows.
THEOREM UriTypeCorrect == Spec => []TypeOK
BY UriInvariance, PTL DEF IndInv

-----------------------------------------------------------------------------
(* What the tokens of a string are.                                        *)

\* A set of natural numbers that is not empty has a least element.
LEMMA LeastNat ==
  ASSUME NEW T, T \subseteq Nat, T # {}
  PROVE  \E x \in T : \A y \in T : x <= y
<1>1. PICK x \in T : \A y \in T : ~ (<<y, x>> \in OpToRel(<, Nat))
  BY NatLessThanWellFounded, WFMin
<1>2. \A y \in T : ~ (y < x)
  BY <1>1 DEF OpToRel
<1> QED BY <1>2

\* The symbols at the start of a string that are in C.
LEMMA LeadExists ==
  ASSUME NEW s \in Seq(STRING), NEW C
  PROVE  \E n \in 0 .. Len(s) :
           /\ \A i \in 1 .. n : s[i] \in C
           /\ n < Len(s) => s[n + 1] \notin C
<1> DEFINE T == {n \in 0 .. Len(s) : n < Len(s) => s[n + 1] \notin C}
<1>1. Len(s) \in Nat
  BY LenProperties
<1>2. T \subseteq Nat /\ Len(s) \in T
  BY <1>1
<1>3. PICK n \in T : \A m \in T : n <= m
  BY <1>2, LeastNat
<1>4. ASSUME NEW i \in 1 .. n PROVE s[i] \in C
  <2>1. n \in 0 .. Len(s) /\ i - 1 \in 0 .. Len(s) /\ i - 1 < Len(s) /\ (i - 1) + 1 = i
    BY <1>1
  <2>2. i - 1 \notin T
    BY <1>1, <1>3, <2>1
  <2> QED BY <2>1, <2>2
<1> QED BY <1>3, <1>4

\* A string of colons only has no token.
NoToken(s) ==
  /\ \A j \in 1 .. Len(s) : s[j] = ":"
  /\ ctb_strtok_s(s).tok = NULL /\ ctb_strtok_s(s).ptr = NULL

\* The token of s comes after i colons and ends before the next one, at k, or
\* at the end of the string.
TokenAt(s, i, k) ==
  /\ \A j \in 1 .. i : s[j] = ":"
  /\ \A j \in i + 1 .. k - 1 : s[j] # ":"
  /\ ctb_strtok_s(s).tok = SubSeq(s, i + 1, k - 1)
  /\ \/ k = Len(s) + 1 /\ ctb_strtok_s(s).ptr = NULL
     \/ k <= Len(s) /\ s[k] = ":" /\ ctb_strtok_s(s).ptr = From(s, k + 1)

\* The end of a string from i on.
LEMMA FromProperties ==
  ASSUME NEW s \in Seq(STRING), NEW i \in Nat, 1 <= i, i <= Len(s) + 1
  PROVE  /\ From(s, i) \in Seq(STRING) /\ Len(From(s, i)) = Len(s) - i + 1
         /\ \A j \in 1 .. Len(s) - i + 1 : From(s, i)[j] = s[i + j - 1]
<1>1. Len(s) \in Nat /\ \A j \in i .. Len(s) : s[j] \in STRING
  BY LenProperties, ElementOfSeq
<1>2. /\ SubSeq(s, i, Len(s)) \in Seq(STRING)
      /\ Len(SubSeq(s, i, Len(s))) = IF i <= Len(s) THEN Len(s) - i + 1 ELSE 0
      /\ \A j \in 1 .. Len(s) - i + 1 : SubSeq(s, i, Len(s))[j] = s[i + j - 1]
  BY <1>1, SubSeqProperties
<1> QED BY <1>1, <1>2 DEF From

\* ctb_strtok_s finds the token, if there is one.
LEMMA Token ==
  ASSUME NEW s \in Seq(STRING)
  PROVE  \/ NoToken(s)
         \/ \E i \in 0 .. Len(s), k \in 1 .. Len(s) + 1 : i + 1 < k /\ TokenAt(s, i, k)
<1> DEFINE i == CHOOSE n \in 0 .. Len(s) :
                  /\ \A j \in 1 .. n : s[j] = ":"
                  /\ n < Len(s) => ~ (s[n + 1] = ":")
           t == SubSeq(s, i + 1, Len(s))
           n == CHOOSE m \in 0 .. Len(t) :
                  /\ \A j \in 1 .. m : t[j] # ":"
                  /\ m < Len(t) => ~ (t[m + 1] # ":")
<1>0. ctb_strtok_s(s) = [tok |-> IF t = << >> THEN NULL ELSE SubSeq(t, 1, n),
                         ptr |-> IF n = Len(t) THEN NULL ELSE SubSeq(t, n + 2, Len(t))]
  BY DEF ctb_strtok_s, Lead, From
<1>1. /\ i \in 0 .. Len(s) /\ \A j \in 1 .. i : s[j] = ":"
      /\ i < Len(s) => s[i + 1] # ":"
  <2>1. \E m \in 0 .. Len(s) : /\ \A j \in 1 .. m : s[j] = ":"
                               /\ m < Len(s) => ~ (s[m + 1] = ":")
    <3>1. PICK m \in 0 .. Len(s) : /\ \A j \in 1 .. m : s[j] \in {":"}
                                   /\ m < Len(s) => s[m + 1] \notin {":"}
      BY LeadExists
    <3> QED BY <3>1
  <2> QED BY <2>1
<1> HIDE DEF i
<1>2. Len(s) \in Nat /\ i \in Nat /\ \A j \in 1 .. Len(s) : s[j] \in STRING
  BY <1>1, LenProperties, ElementOfSeq
<1>3. /\ t \in Seq(STRING) /\ Len(t) = Len(s) - i
      /\ \A j \in 1 .. Len(s) - i : t[j] = s[i + j]
  <2>1. \A j \in i + 1 .. Len(s) : s[j] \in STRING
    BY <1>2
  <2>2. /\ t \in Seq(STRING) /\ Len(t) = IF i + 1 <= Len(s) THEN Len(s) - (i + 1) + 1 ELSE 0
        /\ \A j \in 1 .. Len(s) - (i + 1) + 1 : t[j] = s[(i + 1) + j - 1]
    BY <1>2, <2>1, SubSeqProperties
  <2> QED BY <1>1, <1>2, <2>2
<1> HIDE DEF t
<1>4. /\ n \in 0 .. Len(t) /\ \A j \in 1 .. n : t[j] # ":"
      /\ n < Len(t) => t[n + 1] = ":"
  <2>1. \E m \in 0 .. Len(t) : /\ \A j \in 1 .. m : t[j] # ":"
                               /\ m < Len(t) => ~ (t[m + 1] # ":")
    <3>1. PICK m \in 0 .. Len(t) : /\ \A j \in 1 .. m : t[j] \in STRING \ {":"}
                                   /\ m < Len(t) => t[m + 1] \notin STRING \ {":"}
      BY <1>3, LeadExists
    <3>2. \A j \in 1 .. Len(t) : t[j] \in STRING
      BY <1>3, ElementOfSeq
    <3>3. m < Len(t) => m + 1 \in 1 .. Len(t)
      BY <1>2, <1>3
    <3> QED BY <3>1, <3>2, <3>3
  <2> QED BY <2>1
<1> HIDE DEF n
<1>5. /\ Len(t) \in Nat /\ n \in Nat /\ i \in Nat /\ Len(s) \in Nat
      /\ Len(s) = i + Len(t) /\ (n = Len(t) \/ n < Len(t))
  <2>1. i \in 0 .. Len(s) /\ Len(s) \in Nat /\ Len(t) = Len(s) - i /\ n \in 0 .. Len(t)
    BY <1>1, <1>2, <1>3, <1>4
  <2> QED BY <2>1
<1>6. /\ ctb_strtok_s(s).tok = IF t = << >> THEN NULL ELSE SubSeq(t, 1, n)
      /\ ctb_strtok_s(s).ptr = IF n = Len(t) THEN NULL ELSE SubSeq(t, n + 2, Len(t))
  <2> DEFINE a == IF t = << >> THEN NULL ELSE SubSeq(t, 1, n)
             b == IF n = Len(t) THEN NULL ELSE SubSeq(t, n + 2, Len(t))
  <2>1. ctb_strtok_s(s) = [tok |-> a, ptr |-> b]
    BY <1>0
  <2> HIDE DEF a, b
  <2>2. ctb_strtok_s(s).tok = a /\ ctb_strtok_s(s).ptr = b
    BY <2>1
  <2> QED BY <2>2 DEF a, b
<1>7. CASE i = Len(s)
  <2>1. Len(t) = 0 /\ n = Len(t) /\ t = << >>
    BY <1>2, <1>3, <1>4, <1>7, EmptySeq
  <2> QED BY <1>1, <1>6, <1>7, <2>1 DEF NoToken
<1>8. CASE i < Len(s)
  <2> DEFINE k == i + n + 1
  <2>1. Len(t) > 0 /\ t # << >> /\ n \in Nat /\ n # 0
    <3>1. Len(t) > 0 /\ n \in Nat
      BY <1>2, <1>3, <1>4, <1>8
    <3>2. t[1] # ":"
      BY <1>1, <1>2, <1>3, <1>8
    <3> QED BY <1>4, <3>1, <3>2, EmptySeq
  <2>2. k \in i + 2 .. Len(s) + 1 /\ \A j \in i + 1 .. k - 1 : s[j] # ":"
    <3>1. k \in i + 2 .. Len(s) + 1
      BY <1>2, <1>3, <1>4, <2>1
    <3>2. ASSUME NEW j \in i + 1 .. k - 1 PROVE s[j] # ":"
      <4>1. j - i \in 1 .. n /\ j - i \in 1 .. Len(s) - i /\ i + (j - i) = j
        BY <1>2, <1>3, <1>4, <2>1
      <4> QED BY <1>3, <1>4, <4>1
    <3> QED BY <3>1, <3>2
  <2>3. SubSeq(t, 1, n) = SubSeq(s, i + 1, k - 1)
    <3>1. \A j \in 1 .. n : t[j] = s[i + j]
      BY <1>2, <1>3, <1>4
    <3>2. /\ SubSeq(t, 1, n) \in Seq(STRING) /\ Len(SubSeq(t, 1, n)) = n
          /\ \A j \in 1 .. n : SubSeq(t, 1, n)[j] = t[j]
      <4>1. \A j \in 1 .. n : t[j] \in STRING
        BY <1>2, <1>3, <1>4, ElementOfSeq
      <4>2. /\ SubSeq(t, 1, n) \in Seq(STRING)
            /\ Len(SubSeq(t, 1, n)) = IF 1 <= n THEN n - 1 + 1 ELSE 0
            /\ \A j \in 1 .. n - 1 + 1 : SubSeq(t, 1, n)[j] = t[1 + j - 1]
        BY <2>1, <4>1, SubSeqProperties
      <4> QED BY <2>1, <4>2
    <3>3. /\ SubSeq(s, i + 1, k - 1) \in Seq(STRING) /\ Len(SubSeq(s, i + 1, k - 1)) = n
          /\ \A j \in 1 .. n : SubSeq(s, i + 1, k - 1)[j] = s[i + j]
      <4> DEFINE a == i + 1
                 b == k - 1
      <4>1. a \in Int /\ b \in Int /\ \A j \in a .. b : s[j] \in STRING
        BY <1>2, <2>1, <2>2
      <4>2. a <= b /\ b - a + 1 = n
        BY <1>2, <2>1
      <4> HIDE DEF a, b
      <4>3. /\ SubSeq(s, a, b) \in Seq(STRING)
            /\ Len(SubSeq(s, a, b)) = IF a <= b THEN b - a + 1 ELSE 0
            /\ \A j \in 1 .. b - a + 1 : SubSeq(s, a, b)[j] = s[a + j - 1]
        BY <4>1, SubSeqProperties
      <4>4. \A j \in 1 .. n : a + j - 1 = i + j
        BY <1>2, <2>1 DEF a
      <4>5. /\ SubSeq(s, a, b) \in Seq(STRING) /\ Len(SubSeq(s, a, b)) = n
            /\ \A j \in 1 .. n : SubSeq(s, a, b)[j] = s[i + j]
        BY <4>2, <4>3, <4>4
      <4> QED BY <4>5 DEF a, b
    <3> QED BY <3>1, <3>2, <3>3, SeqEqual
  <2>4. ASSUME n = Len(t) PROVE TokenAt(s, i, k)
    <3>1. k = Len(s) + 1
      BY <1>2, <1>3, <2>4
    <3>2. /\ ctb_strtok_s(s).tok = SubSeq(s, i + 1, k - 1)
          /\ ctb_strtok_s(s).ptr = NULL
      BY <1>6, <2>1, <2>3, <2>4
    <3> QED BY <1>1, <2>2, <3>1, <3>2 DEF TokenAt
  <2>5. ASSUME n < Len(t) PROVE TokenAt(s, i, k)
    <3>1. k <= Len(s) /\ s[k] = ":"
      <4>1. n + 1 \in 1 .. Len(s) - i /\ i + (n + 1) = k
        BY <1>2, <1>3, <2>1, <2>5
      <4> QED BY <1>2, <1>3, <1>4, <2>5, <4>1
    <3>2. From(t, n + 2) = From(s, k + 1)
      <4> DEFINE a == n + 2
                 b == k + 1
      <4>1. /\ a \in Nat /\ 1 <= a /\ a <= Len(t) + 1
            /\ b \in Nat /\ 1 <= b /\ b <= Len(s) + 1 /\ b = i + a
        BY <1>5, <2>5, <3>1
      <4> HIDE DEF a, b
      <4>2. /\ From(t, a) \in Seq(STRING) /\ Len(From(t, a)) = Len(t) - a + 1
            /\ \A j \in 1 .. Len(t) - a + 1 : From(t, a)[j] = t[a + j - 1]
        BY <1>3, <4>1, FromProperties
      <4>3. /\ From(s, b) \in Seq(STRING) /\ Len(From(s, b)) = Len(s) - b + 1
            /\ \A j \in 1 .. Len(s) - b + 1 : From(s, b)[j] = s[b + j - 1]
        BY <4>1, FromProperties
      <4>4. Len(s) - b + 1 = Len(t) - a + 1
        BY <1>5, <4>1
      <4>5. ASSUME NEW j \in 1 .. Len(t) - a + 1 PROVE From(t, a)[j] = From(s, b)[j]
        <5>1. a + j - 1 \in 1 .. Len(s) - i /\ i + (a + j - 1) = b + j - 1
          BY <1>5, <4>1
        <5> QED BY <1>3, <4>2, <4>3, <4>4, <5>1
      <4>6. From(t, a) = From(s, b)
        BY <4>2, <4>3, <4>4, <4>5, SeqEqual
      <4> QED BY <4>6 DEF a, b
    <3>3. n # Len(t)
      BY <1>2, <1>3, <2>1, <2>5
    <3>4. /\ ctb_strtok_s(s).tok = SubSeq(s, i + 1, k - 1)
          /\ ctb_strtok_s(s).ptr = From(s, k + 1)
      BY <1>6, <2>1, <2>3, <3>2, <3>3 DEF From
    <3> QED BY <1>1, <2>2, <3>1, <3>4 DEF TokenAt
  <2>6. TokenAt(s, i, k)
    BY <1>5, <2>4, <2>5
  <2>7. k \in 1 .. Len(s) + 1 /\ i + 1 < k
    BY <1>2, <2>1, <2>2
  <2> QED BY <1>1, <2>6, <2>7
<1> QED BY <1>1, <1>2, <1>7, <1>8

\* A name in s comes after i colons and ends before the colon at k.
NameAt(s, i, k) ==
  /\ i + 1 < k /\ s[k] = ":" /\ \A j \in 1 .. i : s[j] = ":"
  /\ \A j \in i + 1 .. k - 1 : s[j] # ":"

\* The name before a colon is the token: colons and other symbols delimit it
\* from both sides.
LEMMA NameIsToken ==
  ASSUME NEW s \in Seq(STRING), NEW i \in 0 .. Len(s), NEW k \in 1 .. Len(s), NameAt(s, i, k)
  PROVE  /\ ~ NoToken(s)
         /\ \A a \in 0 .. Len(s), b \in 1 .. Len(s) + 1 :
              a + 1 < b /\ TokenAt(s, a, b) => a = i /\ b = k
<1>1. /\ i + 1 < k /\ s[k] = ":" /\ \A j \in 1 .. i : s[j] = ":"
      /\ \A j \in i + 1 .. k - 1 : s[j] # ":"
  BY DEF NameAt
<1>2. Len(s) \in Nat
  BY LenProperties
<1>3. s[i + 1] # ":" /\ i + 1 \in 1 .. Len(s)
  BY <1>1, <1>2
<1>4. ~ NoToken(s)
  BY <1>3 DEF NoToken
<1>5. ASSUME NEW a \in 0 .. Len(s), NEW b \in 1 .. Len(s) + 1, a + 1 < b, TokenAt(s, a, b)
      PROVE  a = i /\ b = k
  <2>1. /\ \A j \in 1 .. a : s[j] = ":"
        /\ \A j \in a + 1 .. b - 1 : s[j] # ":"
        /\ b = Len(s) + 1 \/ (b <= Len(s) /\ s[b] = ":")
    BY <1>5 DEF TokenAt
  <2>2. s[a + 1] # ":"
    BY <1>2, <1>5, <2>1
  <2>3. a = i
    <3>1. ~ (a < i)
      BY <1>1, <1>2, <2>2
    <3>2. ~ (i < a)
      BY <1>2, <1>3, <2>1
    <3> QED BY <1>2, <3>1, <3>2
  <2>4. ~ (b < k)
    <3>1. ASSUME b < k PROVE FALSE
      <4>1. b <= Len(s) /\ b \in i + 1 .. k - 1
        BY <1>2, <1>5, <2>3, <3>1
      <4> QED BY <1>1, <1>2, <2>1, <4>1
    <3> QED BY <3>1
  <2>5. ~ (k < b)
    <3>1. ASSUME k < b PROVE FALSE
      <4>1. k \in a + 1 .. b - 1
        BY <1>1, <1>2, <2>3, <3>1
      <4> QED BY <1>1, <2>1, <4>1
    <3> QED BY <3>1
  <2> QED BY <1>2, <2>3, <2>4, <2>5
<1> QED BY <1>4, <1>5

-----------------------------------------------------------------------------
(* What the parser knows of the string between its steps.                  *)

\* instr is, after i colons, a protocol, a colon and the path.
ProtocolAt(i) ==
  /\ i + 2 <= Len(instr) /\ \A j \in 1 .. i : instr[j] = ":"
  /\ proto = <<instr[i + 1]>> /\ instr[i + 2] = ":"
  /\ path = From(instr, i + 3)

\* The name before the first colon, after colons perhaps, is no protocol.
BadNameAt(i, k) ==
  /\ i + 1 < k /\ Colons(SubSeq(instr, 1, i)) /\ instr[k] = ":"
  /\ \A j \in i + 1 .. k - 1 : instr[j] # ":"
  /\ SubSeq(instr, i + 1, k - 1) \notin {<<p>> : p \in Protocols}

BadName == \E i \in 0 .. Len(instr), k \in 1 .. Len(instr) : BadNameAt(i, k)

\* The error code is decided as soon as the protocol has been looked at.
Reasons ==
  /\ pc \in {"malloc", "strdup", "protocol"} => errcode = "SC_EURIPARSE"
  /\ pc \in {"path", "check_ip4", "check_port", "cleanup", "made", "null", "deleted"} =>
       errcode # "SC_ENOMEM"
  /\ pc \notin {"malloc", "strdup", "protocol"} /\ errcode # "SC_ENOMEM" =>
       (errcode = "SC_EINVPROTO" <=> BadName)

Scanned ==
  /\ instr \in Seq(STRING)
  /\ pc = "path" => is_protocol_known(proto) /\ \E i \in 0 .. Len(instr) : ProtocolAt(i)
  /\ NullOnlyAfterColons
  /\ Reasons

\* Colons speaks of the symbols at the start of a string.
LEMMA ColonsPrefix ==
  ASSUME NEW s \in Seq(STRING), NEW i \in 0 .. Len(s)
  PROVE  Colons(SubSeq(s, 1, i)) <=> \A j \in 1 .. i : s[j] = ":"
<1>1. Len(s) \in Nat /\ i \in Nat /\ \A j \in 1 .. i : s[j] \in STRING
  BY LenProperties, ElementOfSeq
<1> DEFINE t == SubSeq(s, 1, i)
<1>2. /\ t \in Seq(STRING) /\ Len(t) = IF 1 <= i THEN i - 1 + 1 ELSE 0
      /\ \A j \in 1 .. i - 1 + 1 : t[j] = s[1 + j - 1]
  BY <1>1, SubSeqProperties
<1> HIDE DEF t
<1>3. DOMAIN t = 1 .. i /\ \A j \in 1 .. i : t[j] = s[j]
  BY <1>1, <1>2, LenProperties
<1>4. Colons(t) <=> \A j \in 1 .. i : s[j] = ":"
  BY <1>3 DEF Colons
<1> QED BY <1>4 DEF t

\* After the first token the error code and the path are decided.
LEMMA ProtocolScans ==
  ASSUME Scanned, Protocol
  PROVE  Scanned'
<1> DEFINE t == ctb_strtok_s(instr)
<1>1. /\ pc = "protocol" /\ instr' = instr /\ proto' = t.tok /\ path' = t.ptr
      /\ CASE t.ptr = NULL -> pc' = "cleanup" /\ UNCHANGED errcode
           [] t.ptr # NULL /\ ~ is_protocol_known(t.tok) ->
                pc' = "cleanup" /\ errcode' = "SC_EINVPROTO"
           [] OTHER -> pc' = "path" /\ UNCHANGED errcode
  BY DEF Protocol
<1> HIDE DEF t
<1>2. instr \in Seq(STRING) /\ errcode = "SC_EURIPARSE" /\ Len(instr) \in Nat
  BY <1>1, LenProperties DEF Scanned, Reasons
<1>3. BadName' = BadName
  BY <1>1 DEF BadName, BadNameAt, Colons
<1>4. CASE t.ptr = NULL
  <2>1. pc' = "cleanup" /\ errcode' = "SC_EURIPARSE"
    BY <1>1, <1>2, <1>4
  <2>2. ~ BadName
    <3> SUFFICES ASSUME NEW i \in 0 .. Len(instr), NEW k \in 1 .. Len(instr), BadNameAt(i, k)
                 PROVE  FALSE
      BY DEF BadName
    <3>0. NameAt(instr, i, k)
      BY <1>2, ColonsPrefix DEF BadNameAt, NameAt
    <3>1. PICK a \in 0 .. Len(instr), b \in 1 .. Len(instr) + 1 :
            a + 1 < b /\ TokenAt(instr, a, b)
      BY <1>2, <3>0, Token, NameIsToken
    <3>2. b = k
      BY <1>2, <3>0, <3>1, NameIsToken
    <3>3. t.ptr = From(instr, k + 1)
      BY <1>2, <3>1, <3>2 DEF TokenAt, t
    <3>4. From(instr, k + 1) \in Seq(STRING)
      BY <1>2, FromProperties
    <3> QED BY <1>4, <3>3, <3>4, StringsAssumption
  <2> QED BY <1>1, <1>2, <1>3, <2>1, <2>2 DEF Scanned, Reasons, NullOnlyAfterColons
<1>5. ASSUME t.ptr # NULL
      PROVE  \E i \in 0 .. Len(instr), k \in 1 .. Len(instr) :
               i + 1 < k /\ TokenAt(instr, i, k)
  <2>1. PICK i \in 0 .. Len(instr), k \in 1 .. Len(instr) + 1 :
          i + 1 < k /\ TokenAt(instr, i, k)
    BY <1>2, <1>5, Token DEF NoToken, t
  <2>2. k <= Len(instr)
    BY <1>5, <2>1 DEF TokenAt, t
  <2> QED BY <1>2, <2>1, <2>2
<1>6. CASE t.ptr # NULL /\ ~ is_protocol_known(t.tok)
  <2>1. pc' = "cleanup" /\ errcode' = "SC_EINVPROTO"
    BY <1>1, <1>6
  <2>2. PICK i \in 0 .. Len(instr), k \in 1 .. Len(instr) :
          i + 1 < k /\ TokenAt(instr, i, k)
    BY <1>5, <1>6
  <2>3. SubSeq(instr, i + 1, k - 1) \notin {<<p>> : p \in Protocols}
    BY <1>6, <2>2 DEF TokenAt, t, is_protocol_known, Protocols
  <2>4. Colons(SubSeq(instr, 1, i))
    BY <1>2, <2>2, ColonsPrefix DEF TokenAt
  <2>5. instr[k] = ":"
    BY <1>2, <2>2 DEF TokenAt
  <2>6. BadName
    BY <2>2, <2>3, <2>4, <2>5 DEF BadName, BadNameAt, TokenAt
  <2> QED BY <1>1, <1>2, <1>3, <2>1, <2>6 DEF Scanned, Reasons, NullOnlyAfterColons
<1>7. CASE t.ptr # NULL /\ is_protocol_known(t.tok)
  <2>1. pc' = "path" /\ errcode' = "SC_EURIPARSE"
    BY <1>1, <1>2, <1>7
  <2>2. PICK i \in 0 .. Len(instr), k \in 1 .. Len(instr) :
          i + 1 < k /\ TokenAt(instr, i, k)
    BY <1>5, <1>7
  <2>3. SubSeq(instr, i + 1, k - 1) \in {<<p>> : p \in Protocols}
    BY <1>7, <2>2 DEF TokenAt, t, is_protocol_known, Protocols
  <2>4. ~ BadName
    <3> SUFFICES ASSUME NEW a \in 0 .. Len(instr), NEW b \in 1 .. Len(instr), BadNameAt(a, b)
                 PROVE  FALSE
      BY DEF BadName
    <3>0. NameAt(instr, a, b)
      BY <1>2, ColonsPrefix DEF BadNameAt, NameAt
    <3>1. i = a /\ k = b
      BY <1>2, <2>2, <3>0, NameIsToken
    <3> QED BY <2>3, <3>1 DEF BadNameAt
  <2>5. ProtocolAt(i)'
    <3>1. \A j \in i + 1 .. k - 1 : instr[j] \in STRING
      BY <1>2, <2>2, ElementOfSeq
    <3>2. /\ Len(SubSeq(instr, i + 1, k - 1)) = (k - 1) - (i + 1) + 1
          /\ SubSeq(instr, i + 1, k - 1)[1] = instr[(i + 1) + 1 - 1]
      <4> DEFINE u == SubSeq(instr, i + 1, k - 1)
                 a == i + 1
                 b == k - 1
      <4>1. a \in Int /\ b \in Int /\ a <= b
        BY <1>2, <2>2
      <4> HIDE DEF a, b
      <4>2. /\ Len(SubSeq(instr, a, b)) = IF a <= b THEN b - a + 1 ELSE 0
            /\ \A j \in 1 .. b - a + 1 : SubSeq(instr, a, b)[j] = instr[a + j - 1]
        BY <3>1, <4>1, SubSeqProperties DEF a, b
      <4>3. /\ Len(SubSeq(instr, a, b)) = b - a + 1
            /\ SubSeq(instr, a, b)[1] = instr[a + 1 - 1]
        BY <4>1, <4>2
      <4> QED BY <4>3 DEF a, b
    <3>3. PICK p \in Protocols : SubSeq(instr, i + 1, k - 1) = <<p>>
      BY <2>3
    <3>4. k = i + 2 /\ p = instr[i + 1]
      <4>1. Len(<<p>>) = 1 /\ <<p>>[1] = p
        OBVIOUS
      <4>2. (k - 1) - (i + 1) + 1 = 1 /\ p = instr[(i + 1) + 1 - 1]
        BY <3>2, <3>3, <4>1
      <4>3. i \in Int /\ k \in Int /\ (i + 1) + 1 - 1 = i + 1
        BY <1>2
      <4>4. k = i + 2
        BY <4>2, <4>3
      <4> QED BY <4>2, <4>3, <4>4
    <3>5. proto' = <<instr[i + 1]>> /\ path' = From(instr, i + 3) /\ instr[i + 2] = ":"
      <4>1. /\ t.tok = SubSeq(instr, i + 1, k - 1) /\ t.ptr = From(instr, k + 1)
            /\ instr[k] = ":"
        BY <1>2, <2>2 DEF TokenAt, t
      <4>2. k + 1 = i + 3
        BY <1>2, <3>4
      <4> QED BY <1>1, <3>3, <3>4, <4>1, <4>2
    <3>6. i + 2 <= Len(instr) /\ \A j \in 1 .. i : instr[j] = ":"
      BY <1>2, <2>2, <3>4 DEF TokenAt
    <3> QED BY <1>1, <3>5, <3>6 DEF ProtocolAt, From
  <2>6. is_protocol_known(proto')
    BY <1>1, <1>7
  <2>7. Reasons' /\ NullOnlyAfterColons'
    BY <1>1, <1>2, <1>3, <2>1, <2>4 DEF Reasons, NullOnlyAfterColons
  <2> QED BY <1>1, <1>2, <2>5, <2>6, <2>7 DEF Scanned, is_protocol_known
<1> QED BY <1>4, <1>6, <1>7

\* instr is, after i colons, p, "://" and s.
UriAt(i, p, s) ==
  /\ i + 4 <= Len(instr) /\ \A j \in 1 .. i : instr[j] = ":"
  /\ instr[i + 1] = p /\ instr[i + 2] = ":" /\ instr[i + 3] = "/" /\ instr[i + 4] = "/"
  /\ s = From(instr, i + 5)

\* Four symbols are a string.
LEMMA FourSymbols ==
  ASSUME NEW S, NEW a \in S, NEW b \in S, NEW c \in S, NEW d \in S
  PROVE  <<a, b, c, d>> \in Seq(S)
OBVIOUS

\* A string is one over more symbols, too.
LEMMA SeqWider ==
  ASSUME NEW S, NEW T, S \subseteq T, NEW s \in Seq(S)
  PROVE  s \in Seq(T)
<1>1. Len(s) \in Nat /\ s = [i \in 1 .. Len(s) |-> s[i]] /\ \A i \in 1 .. Len(s) : s[i] \in S
  BY LenProperties, ElementOfSeq
<1>2. s \in [1 .. Len(s) -> T]
  BY <1>1
<1> QED BY <1>1, <1>2

\* p, "://" and s, symbol by symbol.
LEMMA HeadAndRest ==
  ASSUME NEW p, NEW s \in Seq(STRING)
  PROVE  LET h == <<p, ":", "/", "/">>
         IN /\ DOMAIN (h \o s) = 1 .. 4 + Len(s) /\ Len(h \o s) = 4 + Len(s)
            /\ (h \o s)[1] = p /\ (h \o s)[2] = ":" /\ (h \o s)[3] = "/" /\ (h \o s)[4] = "/"
            /\ \A j \in 1 .. Len(s) : (h \o s)[4 + j] = s[j]
            /\ \E S : STRING \subseteq S /\ h \o s \in Seq(S)
<1> DEFINE h == <<p, ":", "/", "/">>
           S == STRING \cup {p, ":", "/"}
<1>1. h \in Seq(S) /\ s \in Seq(S)
  BY FourSymbols, SeqWider
<1>2. Len(h) = 4 /\ h[1] = p /\ h[2] = ":" /\ h[3] = "/" /\ h[4] = "/"
  OBVIOUS
<1>3. Len(s) \in Nat
  BY LenProperties
<1>4. STRING \subseteq S
  OBVIOUS
<1> HIDE DEF h, S
<1> DEFINE u == h \o s
<1>5. /\ u \in Seq(S) /\ Len(u) = Len(h) + Len(s)
      /\ \A j \in 1 .. Len(h) + Len(s) : u[j] = IF j <= Len(h) THEN h[j] ELSE s[j - Len(h)]
  BY <1>1, ConcatProperties
<1> HIDE DEF u
<1>6. Len(u) = 4 + Len(s) /\ DOMAIN u = 1 .. 4 + Len(s)
  BY <1>2, <1>5, LenProperties
<1>7. \A j \in 1 .. 4 + Len(s) : u[j] = IF j <= 4 THEN h[j] ELSE s[j - 4]
  BY <1>2, <1>5
<1>8. u[1] = p /\ u[2] = ":" /\ u[3] = "/" /\ u[4] = "/"
  BY <1>2, <1>3, <1>7
<1>9. ASSUME NEW j \in 1 .. Len(s) PROVE u[4 + j] = s[j]
  <2>1. 4 + j \in 1 .. 4 + Len(s) /\ ~ (4 + j <= 4) /\ (4 + j) - 4 = j
    BY <1>3
  <2> QED BY <1>7, <2>1
<1> QED BY <1>4, <1>5, <1>6, <1>8, <1>9 DEF u, h

\* Where the parts of a URI are in instr.
LEMMA UriIsAt ==
  ASSUME instr \in Seq(STRING), NEW p, NEW s \in Seq(STRING)
  PROVE  IsUri(p, s) <=> \E i \in 0 .. Len(instr) : UriAt(i, p, s)
<1> SUFFICES ASSUME NEW i \in 0 .. Len(instr)
             PROVE  Colons(SubSeq(instr, 1, i)) /\ From(instr, i + 1) = <<p, ":", "/", "/">> \o s
                      <=> UriAt(i, p, s)
  BY DEF IsUri
<1> DEFINE w == <<p, ":", "/", "/">> \o s
           u == From(instr, i + 1)
           n == Len(instr)
<1>1. n \in Nat /\ i \in Nat /\ i <= n /\ Len(s) \in Nat
  BY LenProperties
<1>2. Colons(SubSeq(instr, 1, i)) <=> \A j \in 1 .. i : instr[j] = ":"
  BY ColonsPrefix
<1>3. /\ u \in Seq(STRING) /\ Len(u) = n - i /\ \A j \in 1 .. n - i : u[j] = instr[i + j]
  <2> DEFINE c == i + 1
  <2>1. c \in Nat /\ 1 <= c /\ c <= n + 1 /\ n - c + 1 = n - i
    BY <1>1
  <2>2. \A j \in 1 .. n - i : c + j - 1 = i + j
    BY <1>1
  <2> HIDE DEF c
  <2>3. /\ From(instr, c) \in Seq(STRING) /\ Len(From(instr, c)) = n - c + 1
        /\ \A j \in 1 .. n - c + 1 : From(instr, c)[j] = instr[c + j - 1]
    BY <2>1, FromProperties
  <2>4. From(instr, c) = u
    BY DEF c
  <2> QED BY <2>1, <2>2, <2>3, <2>4
<1>4. /\ Len(w) = 4 + Len(s)
      /\ w[1] = p /\ w[2] = ":" /\ w[3] = "/" /\ w[4] = "/"
      /\ \A j \in 1 .. Len(s) : w[4 + j] = s[j]
      /\ \E S : STRING \subseteq S /\ w \in Seq(S)
  BY HeadAndRest
<1> HIDE DEF w, u
<1>5. ASSUME i + 4 <= n
      PROVE  LET v == From(instr, i + 5)
             IN v \in Seq(STRING) /\ Len(v) = n - i - 4 /\ \A j \in 1 .. n - i - 4 : v[j] = instr[i + 4 + j]
  <2> DEFINE c == i + 5
  <2>1. c \in Nat /\ 1 <= c /\ c <= n + 1 /\ n - c + 1 = n - i - 4
    BY <1>1, <1>5
  <2>2. \A j \in 1 .. n - i - 4 : c + j - 1 = i + 4 + j
    BY <1>1
  <2> HIDE DEF c
  <2>3. /\ From(instr, c) \in Seq(STRING) /\ Len(From(instr, c)) = n - c + 1
        /\ \A j \in 1 .. n - c + 1 : From(instr, c)[j] = instr[c + j - 1]
    BY <2>1, FromProperties
  <2>4. From(instr, i + 5) = From(instr, c)
    BY DEF c
  <2> QED BY <2>1, <2>2, <2>3, <2>4
<1>6. ASSUME \A j \in 1 .. i : instr[j] = ":", u = w PROVE UriAt(i, p, s)
  <2>1. n - i = 4 + Len(s)
    BY <1>3, <1>4, <1>6
  <2>2. i + 4 <= n /\ n - i - 4 = Len(s) /\ \A j \in 1 .. 4 : j \in 1 .. n - i
    BY <1>1, <2>1
  <2>3. instr[i + 1] = p /\ instr[i + 2] = ":" /\ instr[i + 3] = "/" /\ instr[i + 4] = "/"
    BY <1>3, <1>4, <1>6, <2>2
  <2> DEFINE v == From(instr, i + 5)
  <2>4. v \in Seq(STRING) /\ Len(v) = Len(s) /\ \A j \in 1 .. Len(s) : v[j] = instr[i + 4 + j]
    BY <1>5, <2>2
  <2> HIDE DEF v
  <2>5. ASSUME NEW j \in 1 .. Len(s) PROVE v[j] = s[j]
    <3>1. 4 + j \in 1 .. n - i /\ i + (4 + j) = i + 4 + j
      BY <1>1, <2>1
    <3> QED BY <1>3, <1>4, <1>6, <2>4, <3>1
  <2>6. v = s
    BY <2>4, <2>5, SeqEqual
  <2> QED BY <1>6, <2>2, <2>3, <2>6 DEF UriAt, v
<1>7. ASSUME UriAt(i, p, s) PROVE u = w
  <2>1. /\ i + 4 <= n /\ s = From(instr, i + 5)
        /\ instr[i + 1] = p /\ instr[i + 2] = ":" /\ instr[i + 3] = "/" /\ instr[i + 4] = "/"
    BY <1>7 DEF UriAt
  <2>2. Len(s) = n - i - 4 /\ \A j \in 1 .. n - i - 4 : s[j] = instr[i + 4 + j]
    BY <1>5, <2>1
  <2>3. Len(u) = Len(w)
    BY <1>1, <1>3, <1>4, <2>2
  <2>4. ASSUME NEW j \in 1 .. Len(u) PROVE u[j] = w[j]
    <3>1. j \in 1 .. n - i /\ u[j] = instr[i + j]
      BY <1>3
    <3>2. CASE j > 4
      <4> DEFINE l == j - 4
      <4>1. l \in 1 .. Len(s) /\ 4 + l = j /\ i + 4 + l = i + j
        BY <1>1, <2>2, <3>1, <3>2
      <4> HIDE DEF l
      <4>2. s[l] = instr[i + 4 + l] /\ w[4 + l] = s[l]
        BY <1>4, <2>2, <4>1
      <4> QED BY <3>1, <4>1, <4>2
    <3>3. CASE ~ (j > 4)
      <4>1. j = 1 \/ j = 2 \/ j = 3 \/ j = 4
        BY <1>1, <3>1, <3>3
      <4> QED BY <1>4, <2>1, <3>1, <4>1
    <3> QED BY <3>2, <3>3
  <2>5. PICK S : STRING \subseteq S /\ w \in Seq(S)
    BY <1>4
  <2>6. u \in Seq(S)
    BY <1>3, <2>5, SeqWider
  <2> QED BY <2>3, <2>4, <2>5, <2>6, SeqEqual
<1> QED BY <1>2, <1>6, <1>7 DEF UriAt, u, w

\* Two slashes after the protocol make the rest of the string the path.
LEMMA PathOfUri ==
  ASSUME instr \in Seq(STRING), NEW i \in 0 .. Len(instr), ProtocolAt(i),
         Len(path) > 2, path[1] = "/", path[2] = "/"
  PROVE  /\ From(path, 3) \in Seq(STRING) /\ From(path, 3) \in Ending
         /\ IsUri(proto[1], From(path, 3))
<1> DEFINE r == From(path, 3)
           v == From(instr, i + 5)
           n == Len(instr)
<1>1. /\ i + 2 <= n /\ path = From(instr, i + 3) /\ proto = <<instr[i + 1]>>
      /\ instr[i + 2] = ":" /\ \A j \in 1 .. i : instr[j] = ":"
  BY DEF ProtocolAt
<1>2. n \in Nat /\ i \in Nat
  BY LenProperties
<1>3. /\ path \in Seq(STRING) /\ Len(path) = n - i - 2
      /\ \A j \in 1 .. n - i - 2 : path[j] = instr[i + 2 + j]
  <2> DEFINE c == i + 3
  <2>1. /\ c \in Nat /\ 1 <= c /\ c <= n + 1 /\ path = From(instr, c) /\ n - c + 1 = n - i - 2
        /\ \A j \in 1 .. n - i - 2 : c + j - 1 = i + 2 + j
    BY <1>1, <1>2
  <2> HIDE DEF c
  <2>2. /\ path \in Seq(STRING) /\ Len(path) = n - c + 1
        /\ \A j \in 1 .. n - c + 1 : path[j] = instr[c + j - 1]
    BY <2>1, FromProperties
  <2> QED BY <2>1, <2>2
<1>4. i + 5 <= n /\ Len(path) \in Nat
  BY <1>2, <1>3
<1>5. /\ r \in Seq(STRING) /\ Len(r) = n - i - 4
      /\ \A j \in 1 .. n - i - 4 : r[j] = path[2 + j]
  <2>1. /\ 3 \in Nat /\ 1 <= 3 /\ 3 <= Len(path) + 1 /\ Len(path) - 3 + 1 = n - i - 4
        /\ \A j \in 1 .. n - i - 4 : 3 + j - 1 = 2 + j
    BY <1>2, <1>3, <1>4
  <2>2. /\ r \in Seq(STRING) /\ Len(r) = Len(path) - 3 + 1
        /\ \A j \in 1 .. Len(path) - 3 + 1 : r[j] = path[3 + j - 1]
    BY <1>3, <2>1, FromProperties
  <2> HIDE DEF r
  <2> QED BY <2>1, <2>2
<1>6. /\ v \in Seq(STRING) /\ Len(v) = n - i - 4
      /\ \A j \in 1 .. n - i - 4 : v[j] = instr[i + 4 + j]
  <2> DEFINE c == i + 5
  <2>1. /\ c \in Nat /\ 1 <= c /\ c <= n + 1 /\ v = From(instr, c) /\ n - c + 1 = n - i - 4
        /\ \A j \in 1 .. n - i - 4 : c + j - 1 = i + 4 + j
    BY <1>2, <1>4
  <2> HIDE DEF c, v
  <2>2. /\ v \in Seq(STRING) /\ Len(v) = n - c + 1
        /\ \A j \in 1 .. n - c + 1 : v[j] = instr[c + j - 1]
    BY <2>1, FromProperties
  <2> QED BY <2>1, <2>2
<1> HIDE DEF r, v
<1>7. ASSUME NEW j \in 1 .. n - i - 4 PROVE r[j] = v[j]
  <2>1. 2 + j \in 1 .. n - i - 2 /\ i + 2 + (2 + j) = i + 4 + j
    BY <1>2, <1>4
  <2> QED BY <1>3, <1>5, <1>6, <2>1
<1>8. r = v
  BY <1>5, <1>6, <1>7, SeqEqual
<1>9. instr[i + 3] = "/" /\ instr[i + 4] = "/"
  <2>1. 1 \in 1 .. n - i - 2 /\ 2 \in 1 .. n - i - 2 /\ i + 2 + 1 = i + 3 /\ i + 2 + 2 = i + 4
    BY <1>2, <1>4
  <2> QED BY <1>3, <2>1
<1>10. proto[1] = instr[i + 1]
  BY <1>1
<1>11. UriAt(i, proto[1], r)
  <2>1. i + 4 <= n
    BY <1>2, <1>4
  <2> QED BY <1>1, <1>8, <1>9, <1>10, <2>1 DEF UriAt, v
<1>12. r \in Ending
  <2>1. i + 5 \in 1 .. n
    BY <1>2, <1>4
  <2> QED BY <1>8, <2>1 DEF Ending, v
<1> QED BY <1>5, <1>11, <1>12, UriIsAt DEF r

\* check_ip4 gets a null pointer only when colons are all that is left.
LEMMA PathScans ==
  ASSUME Scanned, Path
  PROVE  Scanned'
<1> DEFINE r == From(path, 3)
           t == ctb_strtok_s(r)
<1>1. /\ pc = "path" /\ UNCHANGED <<instr, errcode, proto>>
      /\ \/ pc' \in {"cleanup", "made"}
         \/ /\ Len(path) > 2 /\ path[1] = "/" /\ path[2] = "/"
            /\ path' = r /\ proto # <<"pipe">>
            /\ \/ pc' = "null" /\ t.tok = NULL
               \/ pc' = "check_ip4" /\ ip4' = t.tok /\ t.tok # NULL
  <2>1. path \in Seq(STRING) /\ Len(path) \in Nat
    <3>1. pc = "path" /\ instr \in Seq(STRING)
      BY DEF Path, Scanned
    <3>2. PICK i \in 0 .. Len(instr) : ProtocolAt(i)
      BY <3>1 DEF Scanned
    <3>3. path \in Seq(STRING)
      <4>1. Len(instr) \in Nat
        BY <3>1, LenProperties
      <4> QED BY <3>1, <3>2, <4>1, FromProperties DEF ProtocolAt
    <3> QED BY <3>3, LenProperties
  <2> QED BY <2>1 DEF Path
<1> HIDE DEF t
<1>2. /\ instr \in Seq(STRING) /\ is_protocol_known(proto)
      /\ \E i \in 0 .. Len(instr) : ProtocolAt(i)
  BY <1>1 DEF Scanned
<1>3. BadName' = BadName
  BY <1>1 DEF BadName, BadNameAt, Colons
<1>4. Reasons'
  BY <1>1, <1>3 DEF Scanned, Reasons
<1>5. NullOnlyAfterColons'
  <2>1. CASE pc' \in {"cleanup", "made"}
    BY <2>1 DEF NullOnlyAfterColons
  <2>2. CASE pc' = "check_ip4" /\ ip4' = t.tok /\ t.tok # NULL
    BY <2>2 DEF NullOnlyAfterColons
  <2>3. CASE /\ Len(path) > 2 /\ path[1] = "/" /\ path[2] = "/"
             /\ path' = r /\ proto # <<"pipe">> /\ pc' = "null" /\ t.tok = NULL
    <3>1. proto = <<"tcp">>
      BY <1>2, <2>3 DEF is_protocol_known
    <3>2. r \in Seq(STRING) /\ IsUri("tcp", r)
      <4>1. r \in Seq(STRING) /\ IsUri(proto[1], r)
        BY <1>2, <2>3, PathOfUri
      <4> QED BY <3>1, <4>1
    <3> HIDE DEF r
    <3>3. NoToken(r)
      <4> SUFFICES ASSUME NEW i \in 0 .. Len(r), NEW k \in 1 .. Len(r) + 1,
                          i + 1 < k, TokenAt(r, i, k)
                   PROVE  FALSE
        BY <3>2, Token
      <4> DEFINE a == i + 1
                 b == k - 1
      <4>1. t.tok = SubSeq(r, a, b)
        BY DEF TokenAt, t
      <4>2. a \in Int /\ b \in Int /\ \A j \in a .. b : r[j] \in STRING
        <5>1. Len(r) \in Nat
          BY <3>2, LenProperties
        <5>2. a \in Int /\ b \in Int /\ \A j \in a .. b : j \in 1 .. Len(r)
          BY <5>1
        <5> QED BY <3>2, <5>2, ElementOfSeq
      <4> HIDE DEF a, b
      <4>3. SubSeq(r, a, b) \in Seq(STRING)
        BY <4>2, SubSeqProperties
      <4> QED BY <2>3, <4>1, <4>3, StringsAssumption
    <3>4. Colons(r)
      BY <3>2, <3>3, LenProperties DEF NoToken, Colons
    <3> QED BY <1>1, <2>3, <3>2, <3>4 DEF NullOnlyAfterColons, IsUri, Colons, From
  <2> QED BY <1>1, <2>1, <2>2, <2>3
<1>6. pc' # "path"
  BY <1>1
<1> QED BY <1>1, <1>2, <1>4, <1>5, <1>6 DEF Scanned

\* The other steps neither read the string nor call check_ip4.
LEMMA OthersScan ==
  ASSUME Scanned, TypeOK,
         \/ Malloc \/ Strdup \/ Check_ip4 \/ Checked_ip4 \/ Check_port
         \/ Cleanup \/ sc_uri_del \/ UNCHANGED vars
  PROVE  Scanned'
<1>1. UNCHANGED <<instr, proto, path, ip4>>
  BY DEF Malloc, Strdup, Check_ip4, Checked_ip4, Check_port, Cleanup, sc_uri_del,
         vars, parse
<1>2. \/ pc = "malloc" /\ pc' = "strdup" /\ errcode' = errcode
      \/ pc = "strdup" /\ pc' = "protocol" /\ errcode' = errcode
      \/ pc' = "failed" /\ errcode' = "SC_ENOMEM"
      \/ /\ pc \in {"check_ip4", "check_port", "cleanup", "made"} /\ errcode' = errcode
         /\ pc' \in {"check_ip4", "check_port", "cleanup", "made", "failed", "deleted"}
         /\ pc' = "check_ip4" => pc = "check_ip4"
      \/ pc' = pc /\ errcode' = errcode
  BY DEF Malloc, Strdup, Check_ip4, Checked_ip4, Check_port, Cleanup, sc_uri_del,
         Digit, Dot, Refuse, vars
<1>3. BadName' = BadName
  BY <1>1 DEF BadName, BadNameAt, Colons
<1>4. Reasons'
  BY <1>2, <1>3 DEF Scanned, Reasons
<1>5. NullOnlyAfterColons'
  BY <1>1, <1>2 DEF Scanned, NullOnlyAfterColons, IsUri, Colons, From
<1>6. pc' = "path" => pc = "path"
  BY <1>2
<1>7. \A i \in 0 .. Len(instr) : ProtocolAt(i) => ProtocolAt(i)'
  BY <1>1 DEF ProtocolAt, From
<1> QED BY <1>1, <1>4, <1>5, <1>6, <1>7 DEF Scanned, is_protocol_known

\* What the parser knows of the string holds between all its steps.
THEOREM UriScans == Spec => []Scanned
<1>1. Init => Scanned
  BY StringsAssumption DEF Init, Start, Scanned, NullOnlyAfterColons, Reasons
<1>2. Scanned /\ IndInv /\ [Next]_vars => Scanned'
  BY ProtocolScans, PathScans, OthersScan DEF Next, IndInv
<1> QED BY <1>1, <1>2, UriInvariance, PTL DEF Spec

\* check_ip4 is called with a null pointer only when nothing but colons
\* follows "tcp://", for strings of any length over any symbols.
THEOREM UriNullOnlyAfterColons == Spec => []NullOnlyAfterColons
BY UriScans, PTL DEF Scanned

\* SC_EINVPROTO is given for a name before a colon that is no protocol, and
\* for nothing else.
THEOREM UriErrcodeTellsWhy == Spec => []ErrcodeTellsWhy
<1>1. Scanned => ErrcodeTellsWhy
  BY DEF Scanned, Reasons, BadName, BadNameAt, ErrcodeTellsWhy
<1> QED BY <1>1, UriScans, PTL

-----------------------------------------------------------------------------
(* What a number is, and what strtol and check_port make of a string.       *)

\* The numbers that digits make exist: they are defined from position to
\* position.
LEMMA NumberExists ==
  ASSUME NEW s, NEW i \in Nat, NEW m \in Nat
  PROVE  \E g : g = [n \in i .. i + m |-> IF n = i THEN 0 ELSE Shift(g[n - 1], s[n])]
<1> DEFINE Is(g, k) == g = [n \in i .. i + k |-> IF n = i THEN 0 ELSE Shift(g[n - 1], s[n])]
           T == {k \in Nat : ~ \E g : Is(g, k)}
<1>1. CASE T = {}
  BY <1>1
<1>2. CASE T # {}
  <2>1. PICK k \in T : \A l \in T : k <= l
    BY <1>2, LeastNat
  <2>2. k # 0
    <3>1. i .. i + 0 = {i}
      OBVIOUS
    <3> DEFINE g == [n \in {i} |-> 0]
    <3>2. g = [n \in {i} |-> IF n = i THEN 0 ELSE Shift(g[n - 1], s[n])]
      OBVIOUS
    <3>3. Is(g, 0)
      BY <3>1, <3>2
    <3> QED BY <2>1, <3>3
  <2>3. k \in Nat /\ k - 1 \in Nat /\ k - 1 \notin T
    BY <2>1, <2>2
  <2>4. PICK f : Is(f, k - 1)
    BY <2>3
  <2> DEFINE g == [n \in i .. i + k |-> IF n = i + k THEN Shift(f[i + k - 1], s[n]) ELSE f[n]]
  <2>5. ASSUME NEW n \in i .. i + k
        PROVE  g[n] = IF n = i THEN 0 ELSE Shift(g[n - 1], s[n])
    <3>1. CASE n = i + k
      <4>1. n # i /\ n - 1 \in i .. i + k /\ n - 1 # i + k /\ n - 1 = i + k - 1
        BY <2>2, <2>3, <3>1
      <4>2. g[n] = Shift(f[i + k - 1], s[n]) /\ g[n - 1] = f[i + k - 1]
        BY <3>1, <4>1
      <4> QED BY <4>1, <4>2
    <3>2. CASE n # i + k
      <4>1. n \in i .. i + (k - 1)
        BY <2>3, <3>2
      <4>2. g[n] = f[n] /\ f[n] = IF n = i THEN 0 ELSE Shift(f[n - 1], s[n])
        BY <2>4, <3>2, <4>1
      <4>3. CASE n = i
        BY <4>2, <4>3
      <4>4. CASE n # i
        <5>1. n - 1 \in i .. i + k /\ n - 1 # i + k
          BY <2>3, <4>1, <4>4
        <5> QED BY <4>2, <4>4, <5>1
      <4> QED BY <4>3, <4>4
    <3> QED BY <3>1, <3>2
  <2>6. g = [n \in i .. i + k |-> g[n]]
    OBVIOUS
  <2> HIDE DEF g
  <2>7. [n \in i .. i + k |-> g[n]] = [n \in i .. i + k |-> IF n = i THEN 0 ELSE Shift(g[n - 1], s[n])]
    BY <2>5
  <2>8. Is(g, k)
    BY <2>6, <2>7
  <2> QED BY <2>1, <2>8
<1> QED BY <1>1, <1>2

\* What the digits of s after i make, up to each position.
LEMMA NumberDef ==
  ASSUME NEW s \in Seq(STRING), NEW i \in 0 .. Len(s)
  PROVE  /\ Number(s, i)[i] = 0
         /\ \A n \in i + 1 .. Len(s) : Number(s, i)[n] = Shift(Number(s, i)[n - 1], s[n])
<1>1. Len(s) \in Nat /\ i \in Nat /\ Len(s) - i \in Nat /\ i + (Len(s) - i) = Len(s)
  BY LenProperties
<1>2. \E g : g = [n \in i .. i + (Len(s) - i) |-> IF n = i THEN 0 ELSE Shift(g[n - 1], s[n])]
  BY <1>1, NumberExists
<1> DEFINE N == Number(s, i)
<1>3. N = [n \in i .. Len(s) |-> IF n = i THEN 0 ELSE Shift(N[n - 1], s[n])]
  <2>1. \E g : g = [n \in i .. Len(s) |-> IF n = i THEN 0 ELSE Shift(g[n - 1], s[n])]
    BY <1>1, <1>2
  <2>2. N = CHOOSE g : g = [n \in i .. Len(s) |-> IF n = i THEN 0 ELSE Shift(g[n - 1], s[n])]
    BY DEF Number
  <2> HIDE DEF N
  <2> QED BY <2>1, <2>2, Zenon
<1> HIDE DEF N
<1>4. N[i] = 0 /\ \A n \in i + 1 .. Len(s) : N[n] = Shift(N[n - 1], s[n])
  BY <1>1, <1>3
<1> QED BY <1>4 DEF N

\* A digit more makes a number no smaller.
LEMMA ShiftGrows ==
  ASSUME NEW n \in Nat, NEW c, IsDigit(c)
  PROVE  Shift(n, c) \in Nat /\ n <= Shift(n, c)
<1> DEFINE b == Len(digits)
           v == Value(c)
<1>1. b \in Nat /\ 1 <= b /\ v \in Nat
  <2>1. b \in Nat /\ b > 0
    BY DigitsAssumption, LenProperties
  <2>2. v \in Nat
    BY ValueNat
  <2> HIDE DEF b, v
  <2> QED BY <2>1, <2>2
<1>2. Shift(n, c) = n * b + v
  BY DEF Shift
<1> HIDE DEF b, v
<1>3. n * b \in Nat /\ n <= n * b
  BY <1>1
<1> DEFINE p == n * b
<1>4. p \in Nat /\ n <= p /\ Shift(n, c) = p + v
  BY <1>2, <1>3
<1> HIDE DEF p
<1> QED BY <1>1, <1>4

\* Digits make a natural number, and no smaller one with more of them.
LEMMA NumberGrows ==
  ASSUME NEW s \in Seq(STRING), NEW i \in 0 .. Len(s), NEW k \in i .. Len(s),
         \A j \in i + 1 .. k : IsDigit(s[j])
  PROVE  /\ Number(s, i)[k] \in Nat
         /\ \A m \in i .. k : Number(s, i)[m] <= Number(s, i)[k]
<1> DEFINE N == Number(s, i)
           Good(l) == N[l] \in Nat /\ \A m \in i .. l : N[m] <= N[l]
           T == {l \in i .. k : ~ Good(l)}
<1>1. Len(s) \in Nat /\ i \in Nat /\ k \in Nat /\ T \subseteq Nat
  BY LenProperties
<1>2. N[i] = 0 /\ \A n \in i + 1 .. Len(s) : N[n] = Shift(N[n - 1], s[n])
  BY NumberDef
<1> HIDE DEF N
<1>3. CASE T = {}
  BY <1>1, <1>3 DEF N
<1>4. CASE T # {}
  <2>1. PICK l \in T : \A m \in T : l <= m
    BY <1>1, <1>4, LeastNat
  <2>2. l # i
    <3>1. Good(i)
      BY <1>1, <1>2
    <3> QED BY <2>1, <3>1
  <2>3. l - 1 \in i .. k /\ l - 1 \notin T /\ l \in i + 1 .. k /\ l \in i + 1 .. Len(s)
    BY <1>1, <2>1, <2>2
  <2>4. Good(l - 1)
    BY <2>3
  <2> DEFINE a == N[l - 1]
  <2>5. a \in Nat /\ N[l] = Shift(a, s[l]) /\ IsDigit(s[l])
    BY <1>2, <2>3, <2>4
  <2> HIDE DEF a
  <2>6. N[l] \in Nat /\ a <= N[l]
    BY <2>5, ShiftGrows
  <2>7. ASSUME NEW m \in i .. l PROVE N[m] <= N[l]
    <3>1. CASE m = l
      BY <2>6, <3>1
    <3>2. CASE m # l
      <4>1. m \in i .. l - 1
        BY <1>1, <2>3, <3>2
      <4>2. N[m] <= a
        BY <2>4, <4>1 DEF a
      <4>3. N[m] \in Nat
        <5>1. m \in i .. k /\ m \notin T
          BY <1>1, <2>1, <2>3, <4>1
        <5> QED BY <5>1
      <4> QED BY <2>5, <2>6, <4>2, <4>3
    <3> QED BY <3>1, <3>2
  <2> QED BY <2>1, <2>6, <2>7
<1> QED BY <1>3, <1>4

\* The digits.
Digital == {c \in STRING : IsDigit(c)}

\* What strtol reads of s: b blanks, a sign perhaps, and the digits from a on.
Reads(s, b, a, n) ==
  /\ \A j \in 1 .. b : s[j] = " "
  /\ b < Len(s) => s[b + 1] # " "
  /\ a = IF b < Len(s) /\ s[b + 1] \in {"+", "-"} THEN b + 1 ELSE b
  /\ \A j \in a + 1 .. a + n : IsDigit(s[j])
  /\ a + n < Len(s) => ~ IsDigit(s[a + n + 1])
  /\ strtol(s).num = IF (b < Len(s) /\ s[b + 1] \in {"+", "-"}) /\ s[a] = "-"
                       THEN - Number(s, a)[a + n] ELSE Number(s, a)[a + n]
  /\ strtol(s).end = IF n = 0 THEN 0 ELSE a + n

\* strtol reads blanks, a sign and digits.
LEMMA StrtolReads ==
  ASSUME NEW s \in Seq(STRING)
  PROVE  \E b \in 0 .. Len(s), a \in 0 .. Len(s), n \in 0 .. Len(s) :
           a + n <= Len(s) /\ Reads(s, b, a, n)
<1> DEFINE b == CHOOSE n \in 0 .. Len(s) :
                  /\ \A j \in 1 .. n : s[j] = " "
                  /\ n < Len(s) => ~ (s[n + 1] = " ")
           signed == b < Len(s) /\ s[b + 1] \in {"+", "-"}
           a == IF signed THEN b + 1 ELSE b
           t == SubSeq(s, a + 1, Len(s))
           n == CHOOSE m \in 0 .. Len(t) :
                  /\ \A j \in 1 .. m : IsDigit(t[j])
                  /\ m < Len(t) => ~ IsDigit(t[m + 1])
           num == Number(s, a)[a + n]
<1>0. strtol(s) = [num |-> IF signed /\ s[a] = "-" THEN - num ELSE num,
                   end |-> IF n = 0 THEN 0 ELSE a + n]
  BY DEF strtol, Lead, From
<1>1. /\ b \in 0 .. Len(s) /\ \A j \in 1 .. b : s[j] = " "
      /\ b < Len(s) => s[b + 1] # " "
  <2>1. \E m \in 0 .. Len(s) : /\ \A j \in 1 .. m : s[j] = " "
                               /\ m < Len(s) => ~ (s[m + 1] = " ")
    <3>1. PICK m \in 0 .. Len(s) : /\ \A j \in 1 .. m : s[j] \in {" "}
                                   /\ m < Len(s) => s[m + 1] \notin {" "}
      BY LeadExists
    <3> QED BY <3>1
  <2> QED BY <2>1
<1> HIDE DEF b
<1>2. Len(s) \in Nat /\ b \in Nat /\ a \in Nat /\ a <= Len(s)
  <2>1. Len(s) \in Nat
    BY LenProperties
  <2>2. b \in Nat /\ b <= Len(s)
    <3>1. b \in 0 .. Len(s)
      BY <1>1
    <3> QED BY <2>1, <3>1
  <2>3. signed => b < Len(s)
    OBVIOUS
  <2> HIDE DEF signed
  <2> QED BY <2>1, <2>2, <2>3
<1>2a. a = IF b < Len(s) /\ s[b + 1] \in {"+", "-"} THEN b + 1 ELSE b
  OBVIOUS
<1> HIDE DEF a
<1>3. /\ t \in Seq(STRING) /\ Len(t) = Len(s) - a
      /\ \A j \in 1 .. Len(s) - a : t[j] = s[a + j]
  <2> DEFINE c == a + 1
  <2>1. c \in Nat /\ 1 <= c /\ c <= Len(s) + 1
    BY <1>2
  <2> HIDE DEF c
  <2>2. /\ From(s, c) \in Seq(STRING) /\ Len(From(s, c)) = Len(s) - c + 1
        /\ \A j \in 1 .. Len(s) - c + 1 : From(s, c)[j] = s[c + j - 1]
    BY <2>1, FromProperties
  <2>3. t = From(s, c) /\ Len(s) - c + 1 = Len(s) - a
    BY <1>2 DEF From, c
  <2>4. \A j \in 1 .. Len(s) - a : c + j - 1 = a + j
    BY <1>2 DEF c
  <2> QED BY <2>2, <2>3, <2>4
<1> HIDE DEF t
<1>4. /\ n \in 0 .. Len(t) /\ \A j \in 1 .. n : IsDigit(t[j])
      /\ n < Len(t) => ~ IsDigit(t[n + 1])
  <2>1. \E m \in 0 .. Len(t) : /\ \A j \in 1 .. m : IsDigit(t[j])
                               /\ m < Len(t) => ~ IsDigit(t[m + 1])
    <3>1. PICK m \in 0 .. Len(t) : /\ \A j \in 1 .. m : t[j] \in Digital
                                   /\ m < Len(t) => t[m + 1] \notin Digital
      BY <1>3, LeadExists
    <3>2. \A j \in 1 .. Len(t) : t[j] \in STRING
      BY <1>3, ElementOfSeq
    <3>3. m < Len(t) => m + 1 \in 1 .. Len(t)
      BY <1>2, <1>3
    <3> QED BY <3>1, <3>2, <3>3 DEF Digital
  <2> QED BY <2>1
<1> HIDE DEF n
<1>5. n \in 0 .. Len(s) /\ a + n <= Len(s) /\ n \in Nat
  BY <1>2, <1>3, <1>4
<1>6. ASSUME NEW j \in a + 1 .. a + n PROVE IsDigit(s[j])
  <2>1. j - a \in 1 .. n /\ j - a \in 1 .. Len(s) - a /\ a + (j - a) = j
    BY <1>2, <1>5
  <2> QED BY <1>3, <1>4, <2>1
<1>7. ASSUME a + n < Len(s) PROVE ~ IsDigit(s[a + n + 1])
  <2>1. n < Len(t) /\ n + 1 \in 1 .. Len(s) - a /\ a + (n + 1) = a + n + 1
    BY <1>2, <1>3, <1>5, <1>7
  <2> QED BY <1>3, <1>4, <2>1
<1>8. /\ strtol(s).num = IF signed /\ s[a] = "-" THEN - num ELSE num
      /\ strtol(s).end = IF n = 0 THEN 0 ELSE a + n
  <2> DEFINE x == IF signed /\ s[a] = "-" THEN - num ELSE num
             y == IF n = 0 THEN 0 ELSE a + n
  <2>1. strtol(s) = [num |-> x, end |-> y]
    BY <1>0
  <2> HIDE DEF x, y
  <2>2. strtol(s).num = x /\ strtol(s).end = y
    BY <2>1
  <2> QED BY <2>2 DEF x, y
<1>9. Reads(s, b, a, n)
  BY <1>1, <1>2a, <1>6, <1>7, <1>8, Zenon DEF Reads
<1>10. a \in 0 .. Len(s)
  BY <1>2
<1> QED BY <1>1, <1>5, <1>9, <1>10

\* The digits are none of the symbols that delimit numbers.
LEMMA DigitsApart ==
  ASSUME NEW c, IsDigit(c)
  PROVE  c # "." /\ c # ":" /\ c # " " /\ c # "+" /\ c # "-"
BY DigitsAssumption DEF IsDigit

\* check_port lets through the strings that start with a port, and strtol
\* gives its number.
LEMMA PortRight ==
  ASSUME NEW s \in Seq(STRING)
  PROVE  /\ check_port(s) =>
              StartsWithPort(s, strtol(s).num) /\ strtol(s).num \in 1 .. PortMax
         /\ \A num \in 1 .. PortMax : StartsWithPort(s, num) => check_port(s)
<1>1. PICK b \in 0 .. Len(s), a \in 0 .. Len(s), n \in 0 .. Len(s) :
        a + n <= Len(s) /\ Reads(s, b, a, n)
  BY StrtolReads
<1> DEFINE signed == b < Len(s) /\ s[b + 1] \in {"+", "-"}
           N == Number(s, a)[a + n]
           minus == signed /\ s[a] = "-"
<1>2. Len(s) \in Nat /\ b \in Nat /\ a \in Nat /\ n \in Nat
  BY LenProperties
<1>3. /\ \A j \in 1 .. b : s[j] = " "
      /\ b < Len(s) => s[b + 1] # " "
      /\ a = IF signed THEN b + 1 ELSE b
      /\ \A j \in a + 1 .. a + n : IsDigit(s[j])
      /\ a + n < Len(s) => ~ IsDigit(s[a + n + 1])
  BY <1>1, Zenon DEF Reads
<1>4. /\ strtol(s).num = (IF minus THEN - N ELSE N)
      /\ strtol(s).end = (IF n = 0 THEN 0 ELSE a + n)
  BY <1>1, Zenon DEF Reads
<1>5. N \in Nat
  <2>1. a + n \in a .. Len(s)
    BY <1>1, <1>2
  <2> QED BY <1>3, <2>1, NumberGrows
<1>6. check_port(s) <=> strtol(s).end # 0 /\ ~ (strtol(s).num < 1 \/ strtol(s).num > PortMax)
  BY DEF check_port
<1>7. PortMax \in Nat
  BY SizeAssumption
<1> HIDE DEF N
<1>8. ASSUME check_port(s)
      PROVE  StartsWithPort(s, strtol(s).num) /\ strtol(s).num \in 1 .. PortMax
  <2>1. n # 0
    BY <1>4, <1>6, <1>8
  <2>2. ~ minus
    <3>1. ASSUME minus PROVE FALSE
      <4>1. strtol(s).num = - N
        BY <1>4, <3>1
      <4>2. - N < 1
        BY <1>5
      <4> QED BY <1>6, <1>8, <4>1, <4>2
    <3> QED BY <3>1
  <2>3. strtol(s).num = N
    BY <1>4, <2>2
  <2>4. N \in 1 .. PortMax
    BY <1>5, <1>6, <1>7, <1>8, <2>3
  <2>5. ASSUME NEW j \in 1 .. a PROVE s[j] = " " \/ (j = a /\ s[j] = "+")
    <3>1. CASE ~ signed
      BY <1>3, <3>1
    <3>2. CASE signed
      <4>1. a = b + 1 /\ s[a] \in {"+", "-"} /\ s[a] # "-"
        BY <1>3, <2>2, <3>2
      <4>2. j \in 1 .. b \/ j = a
        BY <1>2, <4>1
      <4> QED BY <1>3, <4>1, <4>2
    <3> QED BY <3>1, <3>2
  <2>6. a + n \in 1 .. Len(s) /\ a < a + n
    BY <1>1, <1>2, <2>1
  <2>7. StartsWithPort(s, N)
    BY <1>3, <2>5, <2>6 DEF StartsWithPort, N
  <2> QED BY <2>3, <2>4, <2>7
<1>9. ASSUME NEW num \in 1 .. PortMax, StartsWithPort(s, num)
      PROVE  check_port(s)
  <2>1. PICK i \in 0 .. Len(s), k \in 1 .. Len(s) :
          /\ i < k
          /\ \A j \in 1 .. i : s[j] = " " \/ (j = i /\ s[j] = "+")
          /\ \A j \in i + 1 .. k : IsDigit(s[j])
          /\ k < Len(s) => ~ IsDigit(s[k + 1])
          /\ num = Number(s, i)[k]
    BY <1>9 DEF StartsWithPort
  <2>2. i + 1 \in i + 1 .. k /\ i + 1 \in 1 .. Len(s) /\ i < Len(s) /\ i \in Nat /\ k \in Nat
        /\ i < k /\ k <= Len(s)
    <3>1. i < k
      BY <2>1
    <3> QED BY <1>2, <3>1
  <2>3. s[i + 1] # " " /\ s[i + 1] # "+" /\ s[i + 1] # "-" /\ IsDigit(s[i + 1])
    BY <2>1, <2>2, DigitsApart
  <2>4. a = i /\ ~ minus
    <3>1. CASE \A j \in 1 .. i : s[j] = " "
      <4>1. b = i
        <5>1. ~ (b < i)
          <6>1. b < i => b + 1 \in 1 .. i /\ b < Len(s)
            BY <1>2, <2>2
          <6> QED BY <1>3, <3>1, <6>1
        <5>2. ~ (i < b)
          <6>1. i < b => i + 1 \in 1 .. b
            BY <1>2, <2>2
          <6> QED BY <1>3, <2>3, <6>1
        <5> QED BY <1>2, <2>2, <5>1, <5>2
      <4>2. ~ signed
        BY <2>3, <4>1
      <4> QED BY <1>3, <4>1, <4>2
    <3>2. CASE ~ \A j \in 1 .. i : s[j] = " "
      <4>1. PICK j \in 1 .. i : s[j] # " "
        BY <3>2
      <4>2. j = i /\ s[i] = "+"
        BY <2>1, <4>1
      <4>3. i - 1 \in 0 .. Len(s) /\ i - 1 < Len(s) /\ (i - 1) + 1 = i
        BY <2>2, <4>2
      <4>4. \A l \in 1 .. i - 1 : s[l] = " "
        <5>1. \A l \in 1 .. i - 1 : l \in 1 .. i /\ l # i
          BY <2>2
        <5> QED BY <2>1, <5>1
      <4>5. b = i - 1
        <5>1. ~ (b < i - 1)
          <6>1. b < i - 1 => b + 1 \in 1 .. i - 1 /\ b < Len(s)
            BY <1>2, <2>2
          <6> QED BY <1>3, <4>4, <6>1
        <5>2. ~ (i - 1 < b)
          <6>1. i - 1 < b => i \in 1 .. b
            BY <1>2, <2>2, <4>3
          <6>2. s[i] # " "
            BY <4>1, <4>2
          <6> QED BY <1>3, <6>1, <6>2
        <5> QED BY <1>2, <2>2, <5>1, <5>2
      <4>6. signed /\ b + 1 = i
        BY <4>2, <4>3, <4>5
      <4> QED BY <1>3, <4>2, <4>6
    <3> QED BY <3>1, <3>2
  <2>5. a + n = k
    <3>1. ~ (a + n < k)
      <4>1. ASSUME a + n < k PROVE FALSE
        <5>1. a + n + 1 \in i + 1 .. k /\ a + n < Len(s)
          BY <1>2, <2>2, <2>4, <4>1
        <5> QED BY <1>3, <2>1, <5>1
      <4> QED BY <4>1
    <3>2. ~ (k < a + n)
      <4>1. ASSUME k < a + n PROVE FALSE
        <5>1. k + 1 \in a + 1 .. a + n /\ k < Len(s)
          BY <1>1, <1>2, <2>2, <2>4, <4>1
        <5> QED BY <1>3, <2>1, <5>1
      <4> QED BY <4>1
    <3> QED BY <1>2, <2>2, <3>1, <3>2
  <2>6. strtol(s).num = num
    <3>1. N = num
      BY <2>1, <2>4, <2>5 DEF N
    <3> QED BY <1>4, <2>4, <3>1
  <2>7. strtol(s).end # 0
    <3>1. n # 0 /\ a + n # 0
      BY <1>2, <2>2, <2>4, <2>5
    <3> QED BY <1>4, <3>1
  <2> QED BY <1>6, <1>7, <2>6, <2>7
<1> QED BY <1>8, <1>9

-----------------------------------------------------------------------------
(* What check_ip4 makes of a string.                                        *)

\* The dots of s up to the position p.
DotsTo(s, p) == {k \in 1 .. p : s[k] = "."}

\* What check_ip4 knows of s after p symbols: the byte being read, of value
\* num, began after d, there were cnt dots, and octets between them.
Scan(s, p, d, num, cnt) ==
  /\ d = 0 \/ s[d] = "."
  /\ \A k \in d + 1 .. p : IsDigit(s[k])
  /\ num = Number(s, d)[p]
  /\ cnt = Cardinality(DotsTo(s, p))
  /\ \A i \in DotsTo(s, p) \cup {0}, j \in DotsTo(s, p) :
       i < j /\ (\A k \in DotsTo(s, p) : ~ (i < k /\ k < j)) => IsOctet(s, i, j)

\* The dots can be counted.
LEMMA DotsCount ==
  ASSUME NEW s, NEW p \in Nat
  PROVE  /\ IsFiniteSet(DotsTo(s, p)) /\ Cardinality(DotsTo(s, p)) \in Nat
         /\ s[p + 1] = "." =>
              /\ DotsTo(s, p + 1) = DotsTo(s, p) \cup {p + 1}
              /\ Cardinality(DotsTo(s, p + 1)) = Cardinality(DotsTo(s, p)) + 1
         /\ s[p + 1] # "." => DotsTo(s, p + 1) = DotsTo(s, p)
<1>1. IsFiniteSet(DotsTo(s, p)) /\ Cardinality(DotsTo(s, p)) \in Nat
  <2>1. IsFiniteSet(1 .. p)
    BY FS_Interval
  <2>2. DotsTo(s, p) \subseteq 1 .. p
    BY DEF DotsTo
  <2> QED BY <2>1, <2>2, FS_Subset, FS_CardinalityType
<1>2. ASSUME s[p + 1] = "." PROVE DotsTo(s, p + 1) = DotsTo(s, p) \cup {p + 1}
  BY <1>2 DEF DotsTo
<1>3. p + 1 \notin DotsTo(s, p)
  BY DEF DotsTo
<1>4. ASSUME s[p + 1] = "."
      PROVE  Cardinality(DotsTo(s, p + 1)) = Cardinality(DotsTo(s, p)) + 1
  <2> DEFINE D == DotsTo(s, p)
             x == p + 1
  <2>1. IsFiniteSet(D) /\ x \notin D /\ DotsTo(s, p + 1) = D \cup {x}
    BY <1>1, <1>2, <1>3, <1>4
  <2> HIDE DEF D, x
  <2>2. Cardinality(D \cup {x}) = Cardinality(D) + 1
    BY <2>1, FS_AddElement
  <2> QED BY <2>1, <2>2 DEF D
<1>5. ASSUME s[p + 1] # "." PROVE DotsTo(s, p + 1) = DotsTo(s, p)
  BY <1>5 DEF DotsTo
<1> QED BY <1>1, <1>2, <1>4, <1>5

\* Nothing is read yet.
LEMMA ScanStart ==
  ASSUME NEW s \in Seq(STRING)
  PROVE  Scan(s, 0, 0, 0, 0)
<1>1. DotsTo(s, 0) = {} /\ Cardinality({}) = 0
  BY FS_EmptySet DEF DotsTo
<1>2. Number(s, 0)[0] = 0
  <2>1. 0 \in 0 .. Len(s)
    BY LenProperties
  <2> QED BY <2>1, NumberDef
<1>3. /\ \A k \in 0 + 1 .. 0 : IsDigit(s[k])
      /\ \A i \in DotsTo(s, 0) \cup {0}, j \in DotsTo(s, 0) :
           i < j /\ (\A k \in DotsTo(s, 0) : ~ (i < k /\ k < j)) => IsOctet(s, i, j)
  <2>1. 0 + 1 .. 0 = {}
    OBVIOUS
  <2> QED BY <1>1, <2>1, Zenon
<1> QED BY <1>1, <1>2, <1>3, Zenon DEF Scan

\* A digit is added to the byte being read.
LEMMA ScanDigit ==
  ASSUME NEW s \in Seq(STRING), NEW p \in 0 .. Len(s), NEW d \in 0 .. p, NEW num, NEW cnt,
         Scan(s, p, d, num, cnt), p < Len(s), IsDigit(s[p + 1])
  PROVE  Scan(s, p + 1, d, Shift(num, s[p + 1]), cnt)
<1>1. Len(s) \in Nat /\ p \in Nat /\ d \in Nat
  BY LenProperties
<1>2. DotsTo(s, p + 1) = DotsTo(s, p)
  BY <1>1, DotsCount, DigitsApart
<1>3. Shift(num, s[p + 1]) = Number(s, d)[p + 1]
  <2>1. d \in 0 .. Len(s) /\ p + 1 \in d + 1 .. Len(s) /\ (p + 1) - 1 = p
    BY <1>1
  <2>2. Number(s, d)[p + 1] = Shift(Number(s, d)[(p + 1) - 1], s[p + 1])
    BY <2>1, NumberDef
  <2> QED BY <2>1, <2>2 DEF Scan
<1>4. \A k \in d + 1 .. p + 1 : IsDigit(s[k])
  <2>1. \A k \in d + 1 .. p + 1 : k \in d + 1 .. p \/ k = p + 1
    BY <1>1
  <2> QED BY <2>1 DEF Scan
<1> QED BY <1>2, <1>3, <1>4, Zenon DEF Scan

\* A dot ends an octet.
LEMMA ScanDot ==
  ASSUME NEW s \in Seq(STRING), NEW p \in 0 .. Len(s), NEW d \in 0 .. p, NEW num, NEW cnt,
         Scan(s, p, d, num, cnt), p < Len(s), s[p + 1] = ".", d < p, num <= OctetMax
  PROVE  Scan(s, p + 1, p + 1, 0, cnt + 1)
<1> DEFINE q == p + 1
           D == DotsTo(s, p)
<1>1. Len(s) \in Nat /\ p \in Nat /\ d \in Nat /\ q \in 0 .. Len(s) /\ q \in Nat
      /\ q - 1 = p /\ p < q
  BY LenProperties
<1>2. DotsTo(s, q) = D \cup {q} /\ cnt + 1 = Cardinality(DotsTo(s, q))
  BY <1>1, DotsCount DEF Scan
<1>3. Number(s, q)[q] = 0
  BY <1>1, NumberDef
<1>4. \A k \in q + 1 .. q : IsDigit(s[k])
  BY <1>1
<1>5. s[q] = "."
  OBVIOUS
<1>6. D \subseteq 1 .. p
  BY DEF DotsTo
<1>7. d = 0 \/ d \in D
  BY <1>1 DEF Scan, DotsTo
<1>8. \A k \in D : k <= d
  <2> SUFFICES ASSUME NEW k \in D, ~ (k <= d) PROVE FALSE
    OBVIOUS
  <2>1. k \in d + 1 .. p /\ s[k] = "."
    BY <1>1, <1>6 DEF DotsTo
  <2>2. IsDigit(s[k])
    BY <2>1 DEF Scan
  <2> QED BY <2>1, <2>2, DigitsApart
<1>9. IsOctet(s, d, q)
  <2>1. \A k \in d + 1 .. q - 1 : IsDigit(s[k])
    BY <1>1 DEF Scan
  <2>2. Number(s, d)[q - 1] <= OctetMax
    BY <1>1 DEF Scan
  <2>3. d + 1 < q
    BY <1>1
  <2> HIDE DEF q
  <2> QED BY <2>1, <2>2, <2>3, Zenon DEF IsOctet
<1> HIDE DEF q, D
<1>10. ASSUME NEW i \in (D \cup {q}) \cup {0}, NEW j \in D \cup {q}, i < j,
              \A k \in D \cup {q} : ~ (i < k /\ k < j)
       PROVE  IsOctet(s, i, j)
  <2>1. CASE j = q
    <3>1. i \in Nat /\ i <= d
      <4>1. i # q
        BY <1>1, <1>10, <2>1
      <4>2. i = 0 \/ i \in D
        BY <4>1
      <4> QED BY <1>1, <1>6, <1>8, <4>2
    <3>2. ~ (i < d)
      <4>1. d < q
        BY <1>1
      <4>2. i < d => d \in D
        BY <1>1, <1>7, <3>1
      <4> QED BY <1>10, <2>1, <4>1, <4>2
    <3>3. i = d
      BY <1>1, <3>1, <3>2
    <3> QED BY <1>9, <2>1, <3>3
  <2>2. CASE j # q
    <3>1. j \in D
      BY <2>2
    <3>2. i # q
      BY <1>1, <1>6, <1>10, <3>1
    <3>3. i \in D \cup {0} /\ \A k \in D : ~ (i < k /\ k < j)
      BY <1>10, <3>2
    <3> QED BY <1>10, <3>1, <3>3 DEF Scan, D
  <2> QED BY <2>1, <2>2
<1>11. Scan(s, q, q, 0, cnt + 1)
  BY <1>2, <1>3, <1>4, <1>5, <1>10 DEF Scan, q
<1> QED BY <1>11 DEF q

\* In an address the byte being read goes on to the next dot or to the end.
LEMMA OctetAt ==
  ASSUME NEW s \in Seq(STRING), NEW p \in 0 .. Len(s), NEW d \in 0 .. p, NEW num, NEW cnt,
         Scan(s, p, d, num, cnt), IsAddress(s)
  PROVE  \E j \in p + 1 .. Len(s) + 1 :
           (j = Len(s) + 1 \/ s[j] = ".") /\ IsOctet(s, d, j)
<1> DEFINE T == {j \in p + 1 .. Len(s) + 1 : j = Len(s) + 1 \/ s[j] = "."}
<1>1. Len(s) \in Nat /\ p \in Nat /\ d \in Nat /\ p <= Len(s) /\ d <= p
  BY LenProperties
<1>2. T \subseteq Nat /\ Len(s) + 1 \in T
  BY <1>1
<1>3. PICK j \in T : \A k \in T : j <= k
  BY <1>2, LeastNat
<1>4. /\ j \in Nat /\ p < j /\ j <= Len(s) + 1 /\ j \in p + 1 .. Len(s) + 1 /\ d < j
      /\ j = Len(s) + 1 \/ s[j] = "."
  <2>1. j \in p + 1 .. Len(s) + 1
    OBVIOUS
  <2> QED BY <1>1, <2>1
<1>5. d \in Dots(s) \cup {0}
  BY <1>1 DEF Scan, Dots
<1>6. j \in Dots(s) \cup {Len(s) + 1}
  BY <1>1, <1>4 DEF Dots
<1>7. ASSUME NEW k \in Dots(s), d < k, k < j PROVE FALSE
  <2>1. k \in 1 .. Len(s) /\ s[k] = "."
    BY DEF Dots
  <2>2. k \in d + 1 .. p \/ k \in p + 1 .. Len(s) + 1
    BY <1>1, <1>7, <2>1
  <2>3. CASE k \in d + 1 .. p
    BY <2>1, <2>3, DigitsApart DEF Scan
  <2>4. CASE k \in p + 1 .. Len(s) + 1
    <3>1. j <= k
      BY <1>3, <2>1, <2>4
    <3>2. k \in Nat
      BY <2>1
    <3> QED BY <1>4, <1>7, <3>1, <3>2
  <2> QED BY <2>2, <2>3, <2>4
<1> HIDE DEF T
<1>8. IsOctet(s, d, j)
  BY <1>4, <1>5, <1>6, <1>7, Zenon DEF IsAddress
<1> QED BY <1>4, <1>8

\* A byte that overflows with the next digit is no octet.
LEMMA TooLarge ==
  ASSUME NEW s \in Seq(STRING), NEW p \in 0 .. Len(s), NEW d \in 0 .. p, NEW num, NEW cnt,
         Scan(s, p, d, num, cnt), p < Len(s), IsDigit(s[p + 1]),
         Shift(num, s[p + 1]) > OctetMax
  PROVE  ~ IsAddress(s)
<1> SUFFICES ASSUME IsAddress(s) PROVE FALSE
  OBVIOUS
<1>1. Len(s) \in Nat /\ p \in Nat /\ d \in Nat /\ OctetMax \in Nat
  BY LenProperties, SizeAssumption
<1>2. PICK j \in p + 1 .. Len(s) + 1 : (j = Len(s) + 1 \/ s[j] = ".") /\ IsOctet(s, d, j)
  BY OctetAt
<1>3. j # p + 1
  <2>1. s[p + 1] # "."
    BY DigitsApart
  <2>2. p + 1 # Len(s) + 1
    BY <1>1
  <2> QED BY <1>2, <2>1, <2>2
<1>4. j - 1 \in d .. Len(s) /\ p + 1 \in d .. j - 1 /\ d \in 0 .. Len(s)
  BY <1>1, <1>3
<1>5. /\ Number(s, d)[j - 1] \in Nat /\ Number(s, d)[j - 1] <= OctetMax
      /\ Number(s, d)[p + 1] <= Number(s, d)[j - 1]
  BY <1>2, <1>4, NumberGrows DEF IsOctet
<1>6. Number(s, d)[p + 1] = Shift(num, s[p + 1])
  BY ScanDigit DEF Scan
<1>7. Number(s, d)[p + 1] \in Nat
  <2>1. p + 1 \in d .. Len(s)
    BY <1>1
  <2>2. \A k \in d + 1 .. p + 1 : k \in d + 1 .. p \/ k = p + 1
    BY <1>1
  <2>3. \A k \in d + 1 .. p + 1 : IsDigit(s[k])
    BY <2>2 DEF Scan
  <2> QED BY <1>4, <2>1, <2>3, NumberGrows
<1> QED BY <1>1, <1>5, <1>6, <1>7

\* A symbol that is neither a digit nor a dot after one is in no address.
LEMMA NoDigit ==
  ASSUME NEW s \in Seq(STRING), NEW p \in 0 .. Len(s), NEW d \in 0 .. p, NEW num, NEW cnt,
         Scan(s, p, d, num, cnt), p < Len(s), ~ IsDigit(s[p + 1]),
         s[p + 1] = "." => d = p
  PROVE  ~ IsAddress(s)
<1> SUFFICES ASSUME IsAddress(s) PROVE FALSE
  OBVIOUS
<1>1. Len(s) \in Nat /\ p \in Nat /\ d \in Nat
  BY LenProperties
<1>2. PICK j \in p + 1 .. Len(s) + 1 : (j = Len(s) + 1 \/ s[j] = ".") /\ IsOctet(s, d, j)
  BY OctetAt
<1>3. d + 1 < j /\ \A k \in d + 1 .. j - 1 : IsDigit(s[k])
  BY <1>2 DEF IsOctet
<1>4. CASE j = p + 1
  <2>1. d = p
    BY <1>1, <1>2, <1>4
  <2> QED BY <1>1, <1>3, <1>4, <2>1
<1>5. CASE j # p + 1
  <2>1. p + 1 \in d + 1 .. j - 1
    BY <1>1, <1>5
  <2> QED BY <1>3, <2>1
<1> QED BY <1>4, <1>5

\* The dots of a string are the dots up to its end, and no fewer than those
\* up to a position.
LEMMA DotsAll ==
  ASSUME NEW s \in Seq(STRING), NEW p \in 0 .. Len(s)
  PROVE  /\ Dots(s) = DotsTo(s, Len(s))
         /\ Cardinality(DotsTo(s, p)) \in Nat
         /\ Cardinality(DotsTo(s, p)) <= Cardinality(Dots(s))
<1>1. Len(s) \in Nat /\ p \in Nat
  BY LenProperties
<1>2. Dots(s) = DotsTo(s, Len(s))
  BY DEF Dots, DotsTo
<1>3. DotsTo(s, p) \subseteq Dots(s)
  BY <1>1 DEF Dots, DotsTo
<1>4. IsFiniteSet(Dots(s)) /\ Cardinality(DotsTo(s, p)) \in Nat
  BY <1>1, <1>2, DotsCount
<1> QED BY <1>2, <1>3, <1>4, FS_Subset

\* One dot more than an address has.
LEMMA TooManyDots ==
  ASSUME NEW s \in Seq(STRING), NEW p \in 0 .. Len(s), NEW d, NEW num, NEW cnt,
         Scan(s, p, d, num, cnt), p < Len(s), s[p + 1] = ".", cnt = NS_INADDRSZ - 1
  PROVE  ~ IsAddress(s)
<1>1. Len(s) \in Nat /\ p \in Nat /\ p + 1 \in 0 .. Len(s) /\ NS_INADDRSZ \in Nat
  BY LenProperties, SizeAssumption
<1>2. Cardinality(DotsTo(s, p + 1)) = NS_INADDRSZ
  <2>1. Cardinality(DotsTo(s, p + 1)) = Cardinality(DotsTo(s, p)) + 1
    BY <1>1, DotsCount
  <2>2. Cardinality(DotsTo(s, p)) = NS_INADDRSZ - 1
    BY DEF Scan
  <2>3. (NS_INADDRSZ - 1) + 1 = NS_INADDRSZ
    BY <1>1
  <2> QED BY <2>1, <2>2, <2>3
<1>3. NS_INADDRSZ <= Cardinality(Dots(s))
  BY <1>1, <1>2, DotsAll
<1>4. IsAddress(s) => Cardinality(Dots(s)) = NS_INADDRSZ - 1
  BY DEF IsAddress
<1> QED BY <1>1, <1>3, <1>4

\* The string ends too early.
LEMMA EarlyEnd ==
  ASSUME NEW s \in Seq(STRING), NEW d \in 0 .. Len(s), NEW num, NEW cnt,
         Scan(s, Len(s), d, num, cnt), cnt # NS_INADDRSZ - 1 \/ d = Len(s)
  PROVE  ~ IsAddress(s)
<1> SUFFICES ASSUME IsAddress(s) PROVE FALSE
  OBVIOUS
<1>1. Len(s) \in Nat /\ Len(s) \in 0 .. Len(s)
  BY LenProperties
<1>2. cnt = NS_INADDRSZ - 1
  BY <1>1, DotsAll DEF Scan, IsAddress
<1>3. PICK j \in Len(s) + 1 .. Len(s) + 1 : IsOctet(s, d, j)
  BY <1>1, OctetAt
<1>4. d + 1 < Len(s) + 1
  BY <1>1, <1>3 DEF IsOctet
<1> QED BY <1>1, <1>2, <1>4

\* All of the string is read, and the last byte has a digit.
LEMMA ScanEnd ==
  ASSUME NEW s \in Seq(STRING), NEW d \in 0 .. Len(s), NEW num, NEW cnt,
         Scan(s, Len(s), d, num, cnt), d < Len(s), num <= OctetMax, cnt = NS_INADDRSZ - 1
  PROVE  IsAddress(s)
<1> DEFINE e == Len(s) + 1
           D == Dots(s)
<1>1. Len(s) \in Nat /\ Len(s) \in 0 .. Len(s) /\ d \in Nat /\ e \in Nat /\ e - 1 = Len(s) /\ Len(s) < e
  BY LenProperties
<1>2. D = DotsTo(s, Len(s)) /\ Cardinality(D) = NS_INADDRSZ - 1
  BY <1>1, DotsAll DEF Scan
<1>3. D \subseteq 1 .. Len(s)
  BY DEF Dots
<1>4. d = 0 \/ d \in D
  BY <1>1 DEF Scan, Dots
<1>5. \A k \in D : k <= d
  <2> SUFFICES ASSUME NEW k \in D, ~ (k <= d) PROVE FALSE
    OBVIOUS
  <2>1. k \in d + 1 .. Len(s) /\ s[k] = "."
    BY <1>1, <1>3 DEF Dots
  <2> QED BY <2>1, DigitsApart DEF Scan
<1>6. IsOctet(s, d, e)
  <2>1. \A k \in d + 1 .. e - 1 : IsDigit(s[k])
    BY <1>1 DEF Scan
  <2>2. Number(s, d)[e - 1] <= OctetMax
    BY <1>1 DEF Scan
  <2>3. d + 1 < e
    BY <1>1
  <2> HIDE DEF e
  <2> QED BY <2>1, <2>2, <2>3, Zenon DEF IsOctet
<1>7. \A i \in D \cup {0}, j \in D :
        i < j /\ (\A k \in D : ~ (i < k /\ k < j)) => IsOctet(s, i, j)
  BY <1>2, Zenon DEF Scan
<1> HIDE DEF e, D
<1>8. ASSUME NEW i \in D \cup {0}, NEW j \in D \cup {e}, i < j,
             \A k \in D : ~ (i < k /\ k < j)
      PROVE  IsOctet(s, i, j)
  <2>1. CASE j = e
    <3>1. i \in Nat /\ i <= d
      BY <1>1, <1>3, <1>5
    <3>2. ~ (i < d)
      <4>1. d < e
        BY <1>1
      <4>2. i < d => d \in D
        BY <1>1, <1>4, <3>1
      <4> QED BY <1>8, <2>1, <4>1, <4>2
    <3>3. i = d
      BY <1>1, <3>1, <3>2
    <3> QED BY <1>6, <2>1, <3>3
  <2>2. CASE j # e
    BY <1>7, <1>8, <2>2
  <2> QED BY <2>1, <2>2
<1> QED BY <1>2, <1>8, Zenon DEF IsAddress, D, e

-----------------------------------------------------------------------------
(* What can be accepted.                                                    *)

\* The token of a string, as a string.
LEMMA TokenString ==
  ASSUME NEW s \in Seq(STRING), NEW a \in 0 .. Len(s), NEW b \in 1 .. Len(s) + 1, a + 1 < b
  PROVE  LET t == SubSeq(s, a + 1, b - 1)
         IN t \in Seq(STRING) /\ Len(t) = b - a - 1 /\ \A j \in 1 .. b - a - 1 : t[j] = s[a + j]
<1> DEFINE c == a + 1
           e == b - 1
<1>1. Len(s) \in Nat /\ a \in Nat /\ b \in Nat
  BY LenProperties
<1>2. /\ c \in Int /\ e \in Int /\ c <= e /\ e - c + 1 = b - a - 1
      /\ \A j \in c .. e : j \in 1 .. Len(s)
      /\ \A j \in 1 .. b - a - 1 : c + j - 1 = a + j
  BY <1>1
<1>3. \A j \in c .. e : s[j] \in STRING
  BY <1>2, ElementOfSeq
<1> HIDE DEF c, e
<1>4. /\ SubSeq(s, c, e) \in Seq(STRING)
      /\ Len(SubSeq(s, c, e)) = IF c <= e THEN e - c + 1 ELSE 0
      /\ \A j \in 1 .. e - c + 1 : SubSeq(s, c, e)[j] = s[c + j - 1]
  BY <1>2, <1>3, SubSeqProperties
<1>5. /\ SubSeq(s, c, e) \in Seq(STRING) /\ Len(SubSeq(s, c, e)) = b - a - 1
      /\ \A j \in 1 .. b - a - 1 : SubSeq(s, c, e)[j] = s[a + j]
  BY <1>2, <1>4
<1> QED BY <1>5 DEF c, e

\* A URI's protocol is the token of instr.
LEMMA UriToken ==
  ASSUME instr \in Seq(STRING), NEW i \in 0 .. Len(instr), NEW p, NEW s, UriAt(i, p, s), p # ":"
  PROVE  /\ i + 2 \in 1 .. Len(instr) /\ NameAt(instr, i, i + 2)
         /\ ctb_strtok_s(instr).tok = <<p>> /\ ctb_strtok_s(instr).ptr = From(instr, i + 3)
         /\ From(instr, i + 3) \in Seq(STRING)
<1>1. /\ i + 4 <= Len(instr) /\ \A j \in 1 .. i : instr[j] = ":"
      /\ instr[i + 1] = p /\ instr[i + 2] = ":"
  BY DEF UriAt
<1>2. Len(instr) \in Nat /\ i \in Nat
  BY LenProperties
<1>3. i + 2 \in 1 .. Len(instr) /\ \A j \in i + 1 .. (i + 2) - 1 : j = i + 1
  BY <1>1, <1>2
<1>4. NameAt(instr, i, i + 2)
  BY <1>1, <1>2, <1>3 DEF NameAt
<1>5. PICK a \in 0 .. Len(instr), b \in 1 .. Len(instr) + 1 : a + 1 < b /\ TokenAt(instr, a, b)
  BY <1>3, <1>4, Token, NameIsToken
<1>6. a = i /\ b = i + 2
  BY <1>3, <1>4, <1>5, NameIsToken
<1>7. ctb_strtok_s(instr).tok = <<p>>
  <2> DEFINE t == SubSeq(instr, i + 1, (i + 2) - 1)
  <2>1. t \in Seq(STRING) /\ Len(t) = (i + 2) - i - 1 /\ \A j \in 1 .. (i + 2) - i - 1 : t[j] = instr[i + j]
    BY <1>5, <1>6, TokenString
  <2>2. ctb_strtok_s(instr).tok = t
    BY <1>5, <1>6, Zenon DEF TokenAt
  <2> HIDE DEF t
  <2>3. (i + 2) - i - 1 = 1 /\ 1 \in 1 .. 1
    BY <1>2
  <2>4. Len(t) = 1 /\ t[1] = p
    BY <1>1, <2>1, <2>3
  <2>5. p \in STRING
    BY <1>1, <1>3, <2>1, <2>4, ElementOfSeq
  <2>6. t = <<p>>
    BY <2>1, <2>4, <2>5, SeqEqual
  <2> QED BY <2>2, <2>6
<1>8. ctb_strtok_s(instr).ptr = From(instr, i + 3)
  <2>1. ctb_strtok_s(instr).ptr = From(instr, (i + 2) + 1)
    <3>1. ~ (b = Len(instr) + 1)
      BY <1>1, <1>2, <1>6
    <3> QED BY <1>5, <1>6, <3>1, Zenon DEF TokenAt
  <2>2. (i + 2) + 1 = i + 3
    BY <1>2
  <2> QED BY <2>1, <2>2
<1>9. From(instr, i + 3) \in Seq(STRING)
  <2> DEFINE c == i + 3
  <2>1. c \in Nat /\ 1 <= c /\ c <= Len(instr) + 1
    BY <1>1, <1>2
  <2> HIDE DEF c
  <2>2. From(instr, c) \in Seq(STRING)
    BY <2>1, FromProperties
  <2> QED BY <2>2 DEF c
<1> QED BY <1>3, <1>4, <1>7, <1>8, <1>9

\* There is one way only to take instr apart as a URI.
LEMMA UriUnique ==
  ASSUME instr \in Seq(STRING), NEW i \in 0 .. Len(instr), NEW k \in 0 .. Len(instr),
         \A j \in 1 .. i : instr[j] = ":", i < Len(instr), instr[i + 1] # ":",
         \A j \in 1 .. k : instr[j] = ":", k < Len(instr), instr[k + 1] # ":"
  PROVE  i = k
<1>1. Len(instr) \in Nat
  BY LenProperties
<1>2. i < k => i + 1 \in 1 .. k
  BY <1>1
<1>3. k < i => k + 1 \in 1 .. i
  BY <1>1
<1>4. ~ (i < k) /\ ~ (k < i)
  BY <1>2, <1>3
<1> QED BY <1>1, <1>4

\* An address is not empty and has no colon.
LEMMA AddressSymbols ==
  ASSUME NEW s \in Seq(STRING), IsAddress(s)
  PROVE  Len(s) > 0 /\ \A j \in 1 .. Len(s) : s[j] # ":"
<1>1. Len(s) \in Nat
  BY LenProperties
<1>2. Len(s) > 0
  <2>1. PICK j \in 0 + 1 .. Len(s) + 1 : IsOctet(s, 0, j)
    <3>1. 0 \in 0 .. Len(s) /\ 0 \in 0 .. 0
      BY <1>1
    <3> QED BY <3>1, ScanStart, OctetAt
  <2>2. 0 + 1 < j
    BY <2>1 DEF IsOctet
  <2> QED BY <1>1, <2>2
<1>3. ASSUME NEW m \in 1 .. Len(s), s[m] = ":" PROVE FALSE
  <2> DEFINE T == {j \in m .. Len(s) + 1 : j = Len(s) + 1 \/ s[j] = "."}
             U == {n \in 1 .. m : n = m \/ s[m - n] = "."}
  <2>1. T \subseteq Nat /\ Len(s) + 1 \in T /\ U \subseteq Nat /\ m \in U
    BY <1>1
  <2>2. PICK e \in T : \A k \in T : e <= k
    BY <2>1, LeastNat
  <2>3. PICK n \in U : \A k \in U : n <= k
    BY <2>1, LeastNat
  <2> DEFINE d == m - n
  <2>4. /\ d \in Nat /\ d < m /\ m <= Len(s) /\ m \in Nat /\ m <= e /\ e <= Len(s) + 1
        /\ e \in Nat /\ (d = 0 \/ s[d] = ".") /\ (e = Len(s) + 1 \/ s[e] = ".") /\ n \in Nat
    <3>1. n \in 1 .. m /\ (n = m \/ s[m - n] = ".")
      OBVIOUS
    <3>2. e \in m .. Len(s) + 1 /\ (e = Len(s) + 1 \/ s[e] = ".")
      OBVIOUS
    <3> QED BY <1>1, <3>1, <3>2
  <2>5. ASSUME NEW k \in Dots(s), d < k, k < e PROVE FALSE
    <3>1. k \in 1 .. Len(s) /\ s[k] = "." /\ k \in Nat
      BY DEF Dots
    <3>2. k # m
      BY <1>3, <3>1
    <3>3. CASE k > m
      <4>1. k \in T
        BY <1>1, <3>1, <3>3
      <4>2. e <= k
        BY <2>2, <4>1
      <4> HIDE DEF d, T
      <4> QED BY <2>4, <2>5, <3>1, <4>2
    <3>4. CASE k < m
      <4>1. m - k \in 1 .. m /\ m - (m - k) = k
        BY <2>4, <3>1, <3>4
      <4>2. m - k \in U
        BY <3>1, <4>1
      <4>3. n <= m - k
        BY <2>3, <4>2
      <4>4. d < k
        BY <2>5
      <4> HIDE DEF U, T
      <4> QED BY <2>4, <3>1, <4>3, <4>4
    <3> QED BY <2>4, <3>1, <3>2, <3>3, <3>4
  <2> HIDE DEF T, U, d
  <2>6. d < e /\ d \in Dots(s) \cup {0} /\ e \in Dots(s) \cup {Len(s) + 1}
    BY <1>1, <2>4 DEF Dots
  <2>7. IsOctet(s, d, e)
    BY <2>5, <2>6, Zenon DEF IsAddress
  <2>8. e # m
    BY <1>1, <1>3, <2>4
  <2>9. m \in d + 1 .. e - 1
    BY <2>4, <2>8
  <2>10. IsDigit(s[m])
    BY <2>7, <2>9 DEF IsOctet
  <2> QED BY <1>3, <2>10, DigitsApart
<1> QED BY <1>2, <1>3

\* s is an address and a port.
TcpGood(s) == \E i, j \in DOMAIN s, num \in 1 .. PortMax : IsTcpPath(s, SubSeq(s, i, j), num)

\* The token of a path and what follows it decide whether it is an address
\* and a port.
LEMMA TcpPathRight ==
  ASSUME NEW s \in Seq(STRING), NEW a \in 0 .. Len(s), NEW b \in 1 .. Len(s) + 1,
         a + 1 < b, TokenAt(s, a, b)
  PROVE  LET addr == ctb_strtok_s(s).tok
             rest == ctb_strtok_s(s).ptr
         IN /\ addr \in Seq(STRING) /\ (rest # NULL => rest \in Seq(STRING))
            /\ TcpGood(s) => IsAddress(addr) /\ rest # NULL /\ check_port(rest)
            /\ IsAddress(addr) /\ rest # NULL /\ check_port(rest) =>
                 TcpGood(s) /\ IsTcpPath(s, addr, strtol(rest).num)
<1> DEFINE addr == ctb_strtok_s(s).tok
           rest == ctb_strtok_s(s).ptr
<1>1. Len(s) \in Nat /\ a \in Nat /\ b \in Nat
  BY LenProperties
<1>2. addr = SubSeq(s, a + 1, b - 1) /\ addr \in Seq(STRING)
  BY TokenString DEF TokenAt
<1>3. \/ b = Len(s) + 1 /\ rest = NULL
      \/ b <= Len(s) /\ s[b] = ":" /\ rest = From(s, b + 1)
  BY DEF TokenAt
<1>4. ASSUME NEW k \in 1 .. Len(s) PROVE From(s, k + 1) \in Seq(STRING) /\ From(s, k + 1) # NULL
  <2> DEFINE c == k + 1
  <2>1. c \in Nat /\ 1 <= c /\ c <= Len(s) + 1
    BY <1>1
  <2> HIDE DEF c
  <2>2. From(s, c) \in Seq(STRING)
    BY <2>1, FromProperties
  <2> QED BY <2>2, StringsAssumption DEF c
<1>5. rest # NULL => rest \in Seq(STRING)
  <2>1. b <= Len(s) => b \in 1 .. Len(s)
    BY <1>1
  <2> QED BY <1>3, <1>4, <2>1
<1> HIDE DEF addr, rest
<1>6. ASSUME TcpGood(s) PROVE IsAddress(addr) /\ rest # NULL /\ check_port(rest)
  <2>0. PICK u, v \in DOMAIN s, num \in 1 .. PortMax : IsTcpPath(s, SubSeq(s, u, v), num)
    BY <1>6 DEF TcpGood
  <2> DEFINE x == SubSeq(s, u, v)
  <2>1. IsTcpPath(s, x, num)
    BY <2>0
  <2> HIDE DEF x
  <2>2. PICK i \in 0 .. Len(s), k \in 1 .. Len(s) :
          /\ i < k /\ s[k] = ":" /\ Colons(SubSeq(s, 1, i))
          /\ x = SubSeq(s, i + 1, k - 1) /\ IsAddress(x)
          /\ StartsWithPort(From(s, k + 1), num)
    BY <2>1 DEF IsTcpPath
  <2>3. i + 1 < k
    <3>1. i < k /\ i \in Nat /\ k \in Nat
      BY <1>1, <2>2
    <3>2. ASSUME k = i + 1 PROVE FALSE
      <4>1. x = SubSeq(s, k, k - 1)
        BY <2>2, <3>2
      <4>2. k \in Int /\ k - 1 \in Int /\ ~ (k <= k - 1) /\ k .. k - 1 = {}
        BY <3>1
      <4> DEFINE e == k - 1
      <4> HIDE DEF e
      <4>3. \A j \in k .. e : s[j] \in STRING
        BY <4>2 DEF e
      <4>4. /\ SubSeq(s, k, e) \in Seq(STRING)
            /\ Len(SubSeq(s, k, e)) = IF k <= e THEN e - k + 1 ELSE 0
        BY <4>2, <4>3, SubSeqProperties DEF e
      <4>5. x \in Seq(STRING) /\ Len(x) = 0
        BY <4>1, <4>2, <4>4 DEF e
      <4>6. IsAddress(x)
        BY <2>2
      <4>7. Len(x) > 0
        BY <4>5, <4>6, AddressSymbols
      <4> QED BY <4>5, <4>7
    <3> QED BY <3>1, <3>2
  <2>4. k \in 1 .. Len(s) + 1
    BY <1>1
  <2>5. /\ x \in Seq(STRING) /\ Len(x) = k - i - 1 /\ \A j \in 1 .. k - i - 1 : x[j] = s[i + j]
    BY <2>2, <2>3, <2>4, TokenString
  <2>6. ASSUME NEW j \in i + 1 .. k - 1 PROVE s[j] # ":"
    <3>1. j - i \in 1 .. k - i - 1 /\ i + (j - i) = j
      BY <1>1
    <3> QED BY <2>2, <2>5, <3>1, AddressSymbols
  <2>7. NameAt(s, i, k)
    BY <2>2, <2>3, <2>6, ColonsPrefix DEF NameAt
  <2>8. a = i /\ b = k
    BY <2>7, NameIsToken
  <2>9. IsAddress(addr)
    BY <1>2, <2>2, <2>8
  <2>10. rest = From(s, k + 1)
    BY <1>1, <1>3, <2>8
  <2>11. rest \in Seq(STRING) /\ rest # NULL
    BY <1>4, <2>10
  <2>12. check_port(rest)
    BY <2>2, <2>10, <2>11, PortRight
  <2> QED BY <2>9, <2>11, <2>12
<1>7. ASSUME IsAddress(addr), rest # NULL, check_port(rest)
      PROVE  TcpGood(s) /\ IsTcpPath(s, addr, strtol(rest).num)
  <2> DEFINE num == strtol(rest).num
  <2>1. b \in 1 .. Len(s) /\ s[b] = ":" /\ rest = From(s, b + 1) /\ rest \in Seq(STRING)
    BY <1>1, <1>3, <1>4, <1>7
  <2>2. StartsWithPort(rest, num) /\ num \in 1 .. PortMax
    BY <1>7, <2>1, PortRight
  <2>3. Colons(SubSeq(s, 1, a))
    BY ColonsPrefix DEF TokenAt
  <2> HIDE DEF num
  <2>4. a < b /\ a + 1 \in 1 .. Len(s) /\ b - 1 \in 1 .. Len(s)
    BY <1>1, <2>1
  <2>5. IsTcpPath(s, addr, num)
    BY <1>2, <1>7, <2>1, <2>2, <2>3, <2>4, Zenon DEF IsTcpPath
  <2>6. a + 1 \in DOMAIN s /\ b - 1 \in DOMAIN s
    BY <2>4, LenProperties
  <2>7. TcpGood(s)
    BY <1>2, <2>2, <2>5, <2>6, Zenon DEF TcpGood
  <2> QED BY <2>5, <2>7 DEF num
<1> QED BY <1>2, <1>5, <1>6, <1>7 DEF addr, rest

\* What can be accepted begins with a protocol, "://" and something more.
LEMMA AcceptableAt ==
  ASSUME instr \in Seq(STRING), Acceptable
  PROVE  \E i \in 0 .. Len(instr), p \in Protocols :
           /\ i + 5 <= Len(instr) /\ UriAt(i, p, From(instr, i + 5))
           /\ p = "tcp" => TcpGood(From(instr, i + 5))
<1>1. PICK s \in Ending : \/ IsUri("pipe", s)
                          \/ IsUri("tcp", s) /\ TcpGood(s)
  BY Zenon DEF Acceptable, TcpGood
<1>2. Len(instr) \in Nat
  BY LenProperties
<1>3. PICK m \in 1 .. Len(instr) : s = From(instr, m)
  BY DEF Ending
<1>4. m \in Nat /\ 1 <= m /\ m <= Len(instr) + 1
  BY <1>2
<1>5. s \in Seq(STRING) /\ Len(s) = Len(instr) - m + 1
  BY <1>3, <1>4, FromProperties
<1>6. PICK p \in Protocols : IsUri(p, s) /\ (p = "tcp" => TcpGood(s))
  BY <1>1 DEF Protocols
<1>7. PICK i \in 0 .. Len(instr) : UriAt(i, p, s)
  BY <1>5, <1>6, UriIsAt
<1>8. i + 4 <= Len(instr) /\ s = From(instr, i + 5)
  BY <1>7 DEF UriAt
<1>9. Len(s) = Len(instr) - (i + 5) + 1
  <2> DEFINE c == i + 5
  <2>1. c \in Nat /\ 1 <= c /\ c <= Len(instr) + 1
    BY <1>2, <1>8
  <2> HIDE DEF c
  <2>2. Len(From(instr, c)) = Len(instr) - c + 1
    BY <2>1, FromProperties
  <2> QED BY <1>8, <2>2 DEF c
<1>10. i + 5 <= Len(instr)
  BY <1>2, <1>5, <1>9
<1> QED BY <1>6, <1>7, <1>8, <1>10

\* No protocol is a colon.
LEMMA ProtocolApart == \A p \in Protocols : p # ":"
BY DEF Protocols

\* Whether a tcp URI can be accepted is a question about its path.
LEMMA AcceptableTcp ==
  ASSUME instr \in Seq(STRING), NEW s \in Ending, s \in Seq(STRING), IsUri("tcp", s)
  PROVE  Acceptable <=> TcpGood(s)
<1>1. TcpGood(s) => Acceptable
  BY Zenon DEF Acceptable, TcpGood
<1>2. ASSUME Acceptable PROVE TcpGood(s)
  <2>1. PICK i \in 0 .. Len(instr), p \in Protocols :
           /\ i + 5 <= Len(instr) /\ UriAt(i, p, From(instr, i + 5))
           /\ p = "tcp" => TcpGood(From(instr, i + 5))
    BY <1>2, AcceptableAt
  <2>2. PICK k \in 0 .. Len(instr) : UriAt(k, "tcp", s)
    BY UriIsAt
  <2>3. /\ i + 4 <= Len(instr) /\ \A j \in 1 .. i : instr[j] = ":"
        /\ instr[i + 1] = p
    BY <2>1 DEF UriAt
  <2>4. /\ k + 4 <= Len(instr) /\ \A j \in 1 .. k : instr[j] = ":"
        /\ instr[k + 1] = "tcp" /\ s = From(instr, k + 5)
    BY <2>2 DEF UriAt
  <2>5. Len(instr) \in Nat /\ i < Len(instr) /\ k < Len(instr)
    BY <2>3, <2>4, LenProperties
  <2>6. i = k
    BY <2>3, <2>4, <2>5, UriUnique, ProtocolApart
  <2> QED BY <2>1, <2>3, <2>4, <2>6
<1> QED BY <1>1, <1>2

-----------------------------------------------------------------------------
(* What has been read is right: sc_uri_new accepts what it should.          *)

\* check_ip4 starts with a byte that is 0.
Fresh ==
  pc \in {"malloc", "strdup", "protocol", "path"} =>
    tp = 0 /\ tmp[0] = 0 /\ saw_digit = FALSE

IsTcp == pc \in {"check_ip4", "check_port"} \/ (pc = "made" /\ proto # <<"pipe">>)

\* From the path on, instr is proto://path.
Known ==
  pc \in {"check_ip4", "check_port", "made"} =>
    /\ path \in Seq(STRING) /\ path \in Ending
    /\ is_protocol_known(proto) /\ IsUri(proto[1], path)
    /\ IsTcp => proto = <<"tcp">>

\* The address and the port are the parts of the path.
Split ==
  IsTcp =>
    \E a \in 0 .. Len(path), b \in 1 .. Len(path) + 1 :
      /\ a + 1 < b /\ TokenAt(path, a, b)
      /\ ip4 = ctb_strtok_s(path).tok /\ port = ctb_strtok_s(path).ptr

\* check_ip4 has read p symbols of the address.
ReadAt(p, d) ==
  /\ src = From(ip4, p + 1) /\ Scan(ip4, p, d, tmp[tp], tp)
  /\ saw_digit = (d < p)

Reading == pc = "check_ip4" => \E p \in 0 .. Len(ip4) : \E d \in 0 .. p : ReadAt(p, d)

\* What has been checked is right.
Checked ==
  /\ pc = "check_port" => IsAddress(ip4)
  /\ pc = "made" /\ proto # <<"pipe">> => IsAddress(ip4) /\ port # NULL /\ check_port(port)

\* What is refused is no URI.
Refused ==
  /\ pc = "cleanup" => ~ Acceptable
  /\ pc = "failed" /\ errcode # "SC_ENOMEM" => ~ Acceptable

Accepting == Fresh /\ Known /\ Split /\ Reading /\ Checked /\ Refused

\* Without two slashes and something after them there is no URI.
LEMMA PathRefused ==
  ASSUME instr \in Seq(STRING), NEW i \in 0 .. Len(instr), ProtocolAt(i),
         is_protocol_known(proto), Acceptable
  PROVE  Len(path) > 2 /\ path[1] = "/" /\ path[2] = "/"
<1>1. PICK k \in 0 .. Len(instr), p \in Protocols :
         k + 5 <= Len(instr) /\ UriAt(k, p, From(instr, k + 5))
  BY AcceptableAt
<1>2. /\ i + 2 <= Len(instr) /\ path = From(instr, i + 3) /\ proto = <<instr[i + 1]>>
      /\ \A j \in 1 .. i : instr[j] = ":"
  BY DEF ProtocolAt
<1>3. /\ \A j \in 1 .. k : instr[j] = ":"
      /\ instr[k + 1] # ":" /\ instr[k + 3] = "/" /\ instr[k + 4] = "/"
  BY <1>1, ProtocolApart DEF UriAt
<1>4. instr[i + 1] # ":"
  BY <1>2 DEF is_protocol_known
<1>5. Len(instr) \in Nat /\ i \in Nat /\ i < Len(instr) /\ k < Len(instr)
  BY <1>1, <1>2, LenProperties
<1>6. i = k
  BY <1>2, <1>3, <1>4, <1>5, UriUnique
<1> DEFINE c == i + 3
<1>7. /\ c \in Nat /\ 1 <= c /\ c <= Len(instr) + 1 /\ Len(instr) - c + 1 > 2
      /\ 1 \in 1 .. Len(instr) - c + 1 /\ 2 \in 1 .. Len(instr) - c + 1
      /\ c + 1 - 1 = i + 3 /\ c + 2 - 1 = i + 4
  BY <1>1, <1>5, <1>6
<1>8. path = From(instr, c)
  BY <1>2
<1> HIDE DEF c
<1>9. /\ Len(path) = Len(instr) - c + 1
      /\ \A j \in 1 .. Len(instr) - c + 1 : path[j] = instr[c + j - 1]
  BY <1>7, <1>8, FromProperties
<1> QED BY <1>3, <1>6, <1>7, <1>9

\* check_ip4 begins with a byte of tmp that is 0.
LEMMA InitAccepts == Init => Accepting
<1> SUFFICES ASSUME Init PROVE Accepting
  OBVIOUS
<1>1. pc = "malloc" /\ tp = 0 /\ saw_digit = FALSE /\ tmp = [j \in 0 .. NS_INADDRSZ - 1 |-> 0]
  BY DEF Init, Start
<1>2. tmp[0] = 0
  <2>1. 0 \in 0 .. NS_INADDRSZ - 1
    BY SizeAssumption
  <2> QED BY <1>1, <2>1
<1> QED
  BY <1>1, <1>2 DEF Accepting, Fresh, Known, IsTcp, Split, Reading, Checked, Refused

\* A string is only refused for its protocol when it is no URI.
LEMMA ProtocolAccepts ==
  ASSUME Accepting, Scanned, Protocol
  PROVE  Accepting'
<1> DEFINE t == ctb_strtok_s(instr)
<1>1. /\ pc = "protocol" /\ instr' = instr /\ UNCHANGED <<tmp, tp, saw_digit>>
      /\ \/ pc' = "cleanup" /\ t.ptr = NULL
         \/ pc' = "cleanup" /\ ~ is_protocol_known(t.tok)
         \/ pc' = "path"
  BY DEF Protocol, loop
<1> HIDE DEF t
<1>2. instr \in Seq(STRING)
  BY DEF Scanned
<1>3. Fresh'
  BY <1>1 DEF Accepting, Fresh
<1>4. Acceptable' = Acceptable
  BY <1>1 DEF Acceptable, Ending, IsUri
<1>5. ASSUME Acceptable PROVE t.ptr # NULL /\ is_protocol_known(t.tok)
  <2>1. PICK i \in 0 .. Len(instr), p \in Protocols : UriAt(i, p, From(instr, i + 5))
    BY <1>2, <1>5, AcceptableAt
  <2>2. p # ":"
    BY ProtocolApart
  <2>3. t.tok = <<p>> /\ t.ptr \in Seq(STRING)
    BY <1>2, <2>1, <2>2, UriToken DEF t
  <2> QED BY <2>3, StringsAssumption DEF is_protocol_known, Protocols
<1>6. Refused'
  BY <1>1, <1>4, <1>5 DEF Refused
<1> QED BY <1>1, <1>3, <1>6 DEF Accepting, Known, IsTcp, Split, Reading, Checked

\* The whole of a string.
LEMMA FromStart ==
  ASSUME NEW s \in Seq(STRING) PROVE From(s, 1) = s
<1>1. Len(s) \in Nat /\ 1 \in Nat /\ 1 <= 1 /\ 1 <= Len(s) + 1 /\ Len(s) - 1 + 1 = Len(s)
  BY LenProperties
<1>2. /\ From(s, 1) \in Seq(STRING) /\ Len(From(s, 1)) = Len(s) - 1 + 1
      /\ \A j \in 1 .. Len(s) - 1 + 1 : From(s, 1)[j] = s[1 + j - 1]
  BY <1>1, FromProperties
<1>3. \A j \in 1 .. Len(s) : 1 + j - 1 = j
  BY <1>1
<1> QED BY <1>1, <1>2, <1>3, SeqEqual

\* The path is what follows the slashes; for tcp its parts are the address
\* and the port, and check_ip4 begins with all of the address.
LEMMA PathAccepts ==
  ASSUME Accepting, Scanned, Path
  PROVE  Accepting'
<1> DEFINE r == From(path, 3)
           t == ctb_strtok_s(r)
           good == Len(path) > 2 /\ path[1] = "/" /\ path[2] = "/"
<1>1. pc = "path" /\ instr \in Seq(STRING) /\ is_protocol_known(proto)
  BY DEF Path, Scanned
<1>2. PICK i \in 0 .. Len(instr) : ProtocolAt(i)
  BY <1>1 DEF Scanned
<1>3. path \in Seq(STRING) /\ Len(path) \in Nat
  <2>1. Len(instr) \in Nat
    BY <1>1, LenProperties
  <2>2. path \in Seq(STRING)
    BY <1>1, <1>2, <2>1, FromProperties DEF ProtocolAt
  <2> QED BY <2>2, LenProperties
<1>4. /\ UNCHANGED <<instr, proto, errcode, tmp, tp, saw_digit>>
      /\ \/ pc' = "cleanup" /\ ~ good
         \/ pc' = "made" /\ good /\ path' = r /\ proto = <<"pipe">>
         \/ pc' = "null"
         \/ /\ pc' = "check_ip4" /\ good /\ path' = r /\ proto # <<"pipe">>
            /\ ip4' = t.tok /\ port' = t.ptr /\ src' = t.tok /\ t.tok # NULL
  BY <1>3 DEF Path
<1>5. good => /\ r \in Seq(STRING) /\ r \in Ending /\ IsUri(proto[1], r)
  BY <1>1, <1>2, PathOfUri
<1>6. Acceptable => good
  BY <1>1, <1>2, PathRefused
<1>7. tp = 0 /\ tmp[0] = 0 /\ saw_digit = FALSE
  BY <1>1 DEF Accepting, Fresh
<1> HIDE DEF r, t, good
<1>8. Acceptable' = Acceptable
  BY <1>4 DEF Acceptable, Ending, IsUri
<1>9. CASE pc' = "cleanup" /\ ~ good
  BY <1>6, <1>8, <1>9 DEF Accepting, Fresh, Known, IsTcp, Split, Reading, Checked, Refused
<1>10. CASE pc' = "null"
  BY <1>10 DEF Accepting, Fresh, Known, IsTcp, Split, Reading, Checked, Refused
<1>11. CASE pc' = "made" /\ good /\ path' = r /\ proto = <<"pipe">>
  <2>1. Known'
    BY <1>1, <1>4, <1>5, <1>11 DEF Known, IsTcp, Ending, IsUri, is_protocol_known
  <2> QED BY <1>4, <1>11, <2>1 DEF Accepting, Fresh, IsTcp, Split, Reading, Checked, Refused
<1>12. CASE /\ pc' = "check_ip4" /\ good /\ path' = r /\ proto # <<"pipe">>
            /\ ip4' = t.tok /\ port' = t.ptr /\ src' = t.tok /\ t.tok # NULL
  <2>1. proto = <<"tcp">>
    BY <1>1, <1>12 DEF is_protocol_known
  <2>2. Known'
    BY <1>1, <1>4, <1>5, <1>12, <2>1 DEF Known, IsTcp, Ending, IsUri, is_protocol_known
  <2>3. PICK a \in 0 .. Len(r), b \in 1 .. Len(r) + 1 : a + 1 < b /\ TokenAt(r, a, b)
    BY <1>5, <1>12, Token DEF NoToken, t
  <2>4. Split'
    BY <1>12, <2>3 DEF Split, t
  <2>5. t.tok \in Seq(STRING)
    BY <1>5, <1>12, <2>3, TcpPathRight DEF t
  <2>6. From(t.tok, 1) = t.tok /\ Scan(t.tok, 0, 0, 0, 0)
    BY <2>5, FromStart, ScanStart
  <2>7. tmp'[tp'] = 0 /\ tp' = 0 /\ saw_digit' = FALSE
    BY <1>4, <1>7
  <2>8. ReadAt(0, 0)'
    <3>1. (0 < 0) = FALSE /\ 0 + 1 = 1
      OBVIOUS
    <3> QED BY <1>12, <2>6, <2>7, <3>1 DEF ReadAt
  <2>9. Reading'
    <3>1. 0 \in 0 .. Len(ip4') /\ 0 \in 0 .. 0
      BY <1>12, <2>5, LenProperties
    <3> QED BY <2>8, <3>1 DEF Reading
  <2> QED BY <1>12, <2>2, <2>4, <2>9 DEF Accepting, Fresh, Checked, Refused
<1> QED BY <1>4, <1>9, <1>10, <1>11, <1>12

\* A part of the path that is wrong refutes the URI.
LEMMA PartsDecide ==
  ASSUME Accepting, Scanned, pc \in {"check_ip4", "check_port"}
  PROVE  /\ ip4 \in Seq(STRING) /\ (port # NULL => port \in Seq(STRING))
         /\ Acceptable => IsAddress(ip4) /\ port # NULL /\ check_port(port)
<1>1. /\ instr \in Seq(STRING) /\ path \in Seq(STRING) /\ path \in Ending
      /\ IsUri("tcp", path)
  BY DEF Accepting, Scanned, Known, IsTcp
<1>2. PICK a \in 0 .. Len(path), b \in 1 .. Len(path) + 1 :
        /\ a + 1 < b /\ TokenAt(path, a, b)
        /\ ip4 = ctb_strtok_s(path).tok /\ port = ctb_strtok_s(path).ptr
  BY DEF Accepting, Split, IsTcp
<1>3. Acceptable <=> TcpGood(path)
  BY <1>1, AcceptableTcp
<1> QED BY <1>1, <1>2, <1>3, TcpPathRight

\* One turn of the loop reads one symbol.
LEMMA ReadOne ==
  ASSUME NEW s \in Seq(STRING), NEW p \in 0 .. Len(s), From(s, p + 1) # << >>
  PROVE  /\ p < Len(s) /\ Head(From(s, p + 1)) = s[p + 1]
         /\ Tail(From(s, p + 1)) = From(s, (p + 1) + 1)
<1> DEFINE c == p + 1
           u == From(s, c)
           v == From(s, c + 1)
           n == Len(s)
<1>1. n \in Nat /\ p \in Nat /\ c \in Nat /\ 1 <= c /\ c <= n + 1 /\ n - c + 1 \in Nat
  BY LenProperties
<1> HIDE DEF c
<1>2. /\ u \in Seq(STRING) /\ Len(u) = n - c + 1
      /\ \A j \in 1 .. n - c + 1 : u[j] = s[c + j - 1]
  BY <1>1, FromProperties
<1>3. u # << >>
  BY DEF c
<1> HIDE DEF u
<1>4. Len(u) # 0 /\ c <= n
  <2>1. Len(u) # 0
    BY <1>2, <1>3, EmptySeq
  <2> QED BY <1>1, <1>2, <2>1
<1>5. Head(u) = s[c]
  <2>1. 1 \in 1 .. n - c + 1 /\ c + 1 - 1 = c
    BY <1>1, <1>4
  <2>2. Head(u) = u[1]
    BY <1>2, <1>3, HeadTailProperties
  <2> QED BY <1>2, <2>1, <2>2
<1>6. /\ Tail(u) \in Seq(STRING) /\ Len(Tail(u)) = Len(u) - 1
      /\ \A j \in 1 .. Len(Tail(u)) : Tail(u)[j] = u[j + 1]
  BY <1>2, <1>3, HeadTailProperties
<1>7. /\ v \in Seq(STRING) /\ Len(v) = n - (c + 1) + 1
      /\ \A j \in 1 .. n - (c + 1) + 1 : v[j] = s[(c + 1) + j - 1]
  <2> DEFINE e == c + 1
  <2>1. e \in Nat /\ 1 <= e /\ e <= n + 1
    BY <1>1, <1>4
  <2> HIDE DEF e
  <2>2. /\ From(s, e) \in Seq(STRING) /\ Len(From(s, e)) = n - e + 1
        /\ \A j \in 1 .. n - e + 1 : From(s, e)[j] = s[e + j - 1]
    BY <2>1, FromProperties
  <2> QED BY <2>2 DEF e
<1> HIDE DEF v
<1>8. Len(Tail(u)) = Len(v) /\ Len(v) = n - c
  <2>1. Len(v) = n - (c + 1) + 1
    BY <1>7
  <2>2. Len(Tail(u)) = (n - c + 1) - 1
    BY <1>2, <1>6
  <2> QED BY <1>1, <2>1, <2>2
<1>9. ASSUME NEW j \in 1 .. Len(v) PROVE Tail(u)[j] = v[j]
  <2>1. /\ j \in 1 .. n - (c + 1) + 1 /\ j + 1 \in 1 .. n - c + 1
        /\ c + (j + 1) - 1 = (c + 1) + j - 1
    BY <1>1, <1>8
  <2> QED BY <1>2, <1>6, <1>7, <1>8, <2>1
<1>10. Tail(u) = v
  BY <1>6, <1>7, <1>8, <1>9, SeqEqual
<1>11. p < Len(s)
  BY <1>1, <1>4 DEF c
<1> QED BY <1>5, <1>10, <1>11 DEF u, v, c

\* A digit goes on with the octet, or refutes the address.
LEMMA DigitReads ==
  ASSUME IndInv, ip4 \in Seq(STRING), NEW p \in 0 .. Len(ip4), NEW d \in 0 .. p,
         ReadAt(p, d), p < Len(ip4), pc = "check_ip4",
         IsDigit(ip4[p + 1]), Digit(Value(ip4[p + 1]))
  PROVE  \/ pc' = "cleanup" /\ ~ IsAddress(ip4)
         \/ /\ pc' = "check_ip4" /\ saw_digit' = TRUE
            /\ Scan(ip4, p + 1, d, tmp'[tp'], tp')
<1> DEFINE c == ip4[p + 1]
           num == tmp[tp]
<1>1. Scan(ip4, p, d, num, tp)
  BY DEF ReadAt
<1>2. num * Len(digits) + Value(c) = Shift(num, c)
  BY DEF Shift
<1>3. tp \in 0 .. NS_INADDRSZ - 1 /\ num \in 0 .. OctetMax
  BY DEF IndInv, TypeOK, TpInside
<1>4. ~ (~ saw_digit /\ octets + 1 > NS_INADDRSZ)
  <2>1. ~ saw_digit => octets = tp
    BY DEF IndInv, Counted
  <2>2. tp + 1 <= NS_INADDRSZ /\ tp + 1 \in Nat /\ NS_INADDRSZ \in Nat
    BY <1>3, SizeAssumption
  <2> QED BY <2>1, <2>2
<1>5. CASE num * Len(digits) + Value(c) > OctetMax
  <2>1. pc' = "cleanup"
    BY <1>5 DEF Digit, Refuse
  <2>2. Shift(num, c) > OctetMax
    BY <1>2, <1>5
  <2>3. ~ IsAddress(ip4)
    BY <1>1, <2>2, TooLarge
  <2> QED BY <2>1, <2>3
<1>6. CASE ~ (num * Len(digits) + Value(c) > OctetMax)
  <2>1. /\ tmp' = [tmp EXCEPT ![tp] = num * Len(digits) + Value(c)] /\ saw_digit' = TRUE
        /\ tp' = tp /\ pc' = pc
    BY <1>4, <1>6 DEF Digit
  <2>2. tmp' = [tmp EXCEPT ![tp] = Shift(num, c)]
    BY <1>2, <2>1
  <2>3. tp \in DOMAIN tmp
    BY <1>3 DEF IndInv, TypeOK
  <2>4. tmp'[tp'] = Shift(num, c)
    BY <2>1, <2>2, <2>3
  <2>5. Scan(ip4, p + 1, d, Shift(num, c), tp)
    BY <1>1, ScanDigit
  <2> QED BY <2>1, <2>4, <2>5
<1> QED BY <1>5, <1>6

\* A dot ends the octet, or is one too many.
LEMMA DotReads ==
  ASSUME IndInv, ip4 \in Seq(STRING), NEW p \in 0 .. Len(ip4), NEW d \in 0 .. p,
         ReadAt(p, d), p < Len(ip4), pc = "check_ip4",
         ip4[p + 1] = ".", saw_digit, Dot
  PROVE  \/ pc' = "cleanup" /\ ~ IsAddress(ip4)
         \/ /\ pc' = "check_ip4" /\ saw_digit' = FALSE
            /\ Scan(ip4, p + 1, p + 1, tmp'[tp'], tp')
<1> DEFINE num == tmp[tp]
<1>1. Scan(ip4, p, d, num, tp) /\ d < p
  BY DEF ReadAt
<1>2. tp \in 0 .. NS_INADDRSZ - 1 /\ num \in 0 .. OctetMax /\ octets = tp + 1
  BY DEF IndInv, TypeOK, TpInside, Counted
<1>3. NS_INADDRSZ \in Nat /\ OctetMax \in Nat /\ tp \in Nat
  BY <1>2, SizeAssumption
<1>4. CASE octets = NS_INADDRSZ
  <2>1. pc' = "cleanup"
    BY <1>4 DEF Dot, Refuse
  <2>2. tp = NS_INADDRSZ - 1
    BY <1>2, <1>3, <1>4
  <2>3. ~ IsAddress(ip4)
    BY <1>1, <2>2, TooManyDots
  <2> QED BY <2>1, <2>3
<1>5. CASE octets # NS_INADDRSZ
  <2>1. /\ tp' = tp + 1 /\ tmp' = [tmp EXCEPT ![tp + 1] = 0]
        /\ saw_digit' = FALSE /\ pc' = pc
    BY <1>5 DEF Dot
  <2>2. tp + 1 \in 0 .. NS_INADDRSZ - 1
    BY <1>2, <1>3, <1>5
  <2>3. tp + 1 \in DOMAIN tmp
    BY <2>2 DEF IndInv, TypeOK
  <2>4. tmp'[tp'] = 0
    BY <2>1, <2>3
  <2>5. num <= OctetMax
    BY <1>2, <1>3
  <2>6. Scan(ip4, p + 1, p + 1, 0, tp + 1)
    BY <1>1, <2>5, ScanDot
  <2> QED BY <2>1, <2>4, <2>6
<1> QED BY <1>4, <1>5

\* A turn of check_ip4 reads one more symbol of the address, or refutes it.
LEMMA Check_ip4Accepts ==
  ASSUME Accepting, Scanned, IndInv, Check_ip4
  PROVE  Accepting'
<1>1. /\ pc = "check_ip4" /\ src # << >> /\ src' = Tail(src)
      /\ UNCHANGED <<instr, errcode, proto, path, ip4, port>>
  BY DEF Check_ip4, parse
<1>0. PICK p \in 0 .. Len(ip4) : \E e \in 0 .. p : ReadAt(p, e)
  BY <1>1 DEF Accepting, Reading
<1>2. PICK d \in 0 .. p : ReadAt(p, d)
  BY <1>0
<1>3. ip4 \in Seq(STRING) /\ (Acceptable => IsAddress(ip4))
  BY <1>1, PartsDecide
<1>4. /\ p < Len(ip4) /\ Head(src) = ip4[p + 1] /\ src' = From(ip4, (p + 1) + 1)
  BY <1>1, <1>2, <1>3, ReadOne DEF ReadAt
<1>5. Len(ip4) \in Nat /\ p \in Nat /\ d \in Nat /\ d <= p
  BY <1>3, LenProperties
<1>6. \/ pc' = "cleanup" /\ ~ IsAddress(ip4)
      \/ /\ pc' = "check_ip4" /\ saw_digit' = TRUE
         /\ Scan(ip4, p + 1, d, tmp'[tp'], tp')
      \/ /\ pc' = "check_ip4" /\ saw_digit' = FALSE
         /\ Scan(ip4, p + 1, p + 1, tmp'[tp'], tp')
  <2>1. CASE IsDigit(Head(src)) /\ Digit(Value(Head(src)))
    BY <1>1, <1>2, <1>3, <1>4, <2>1, DigitReads
  <2>2. CASE ~ IsDigit(Head(src)) /\ Head(src) = "." /\ saw_digit /\ Dot
    BY <1>1, <1>2, <1>3, <1>4, <2>2, DotReads
  <2>3. CASE ~ IsDigit(Head(src)) /\ ~ (Head(src) = "." /\ saw_digit) /\ Refuse
    <3>1. pc' = "cleanup"
      BY <2>3 DEF Refuse
    <3>2. Scan(ip4, p, d, tmp[tp], tp) /\ saw_digit = (d < p)
      BY <1>2 DEF ReadAt
    <3>3. ip4[p + 1] = "." => d = p
      <4>1. ~ saw_digit => ~ (d < p)
        BY <3>2
      <4> QED BY <1>4, <1>5, <2>3, <4>1
    <3>4. ~ IsAddress(ip4)
      BY <1>3, <1>4, <2>3, <3>2, <3>3, NoDigit
    <3> QED BY <3>1, <3>4
  <2> QED BY <2>1, <2>2, <2>3 DEF Check_ip4
<1>7. Acceptable' = Acceptable
  BY <1>1 DEF Acceptable, Ending, IsUri
<1>8. CASE pc' = "cleanup" /\ ~ IsAddress(ip4)
  BY <1>3, <1>7, <1>8 DEF Accepting, Fresh, Known, IsTcp, Split, Reading, Checked, Refused
<1>9. CASE pc' = "check_ip4"
  <2>1. Known'
    BY <1>1, <1>9 DEF Accepting, Known, IsTcp, Ending, IsUri, is_protocol_known
  <2>2. Split'
    BY <1>1, <1>9 DEF Accepting, Split, IsTcp
  <2>3. Reading'
    <3>1. /\ p + 1 \in 0 .. Len(ip4) /\ d \in 0 .. p + 1 /\ p + 1 \in 0 .. p + 1
          /\ (d < p + 1) = TRUE /\ (p + 1 < p + 1) = FALSE
      BY <1>4, <1>5
    <3>2. ReadAt(p + 1, d)' \/ ReadAt(p + 1, p + 1)'
      BY <1>1, <1>4, <1>6, <1>9, <3>1 DEF ReadAt
    <3>3. ip4' = ip4
      BY <1>1
    <3> QED BY <3>1, <3>2, <3>3 DEF Reading
  <2> QED BY <1>9, <2>1, <2>2, <2>3 DEF Accepting, Fresh, Checked, Refused
<1> QED BY <1>6, <1>8, <1>9

\* At the end of check_ip4 the address is right, or it is none.
LEMMA Checked_ip4Accepts ==
  ASSUME Accepting, Scanned, IndInv, Checked_ip4
  PROVE  Accepting'
<1>1. /\ pc = "check_ip4" /\ src = << >>
      /\ pc' = IF octets < NS_INADDRSZ THEN "cleanup" ELSE "check_port"
      /\ UNCHANGED <<instr, errcode, proto, path, ip4, port>>
  BY DEF Checked_ip4, parse
<1>0. PICK p \in 0 .. Len(ip4) : \E e \in 0 .. p : ReadAt(p, e)
  BY <1>1 DEF Accepting, Reading
<1>2. PICK d \in 0 .. p : ReadAt(p, d)
  BY <1>0
<1>3. ip4 \in Seq(STRING) /\ (Acceptable => IsAddress(ip4))
  BY <1>1, PartsDecide
<1>4. Len(ip4) \in Nat /\ p \in Nat /\ d \in Nat /\ d <= p
  BY <1>3, LenProperties
<1>5. p = Len(ip4)
  <2> DEFINE c == p + 1
  <2>1. c \in Nat /\ 1 <= c /\ c <= Len(ip4) + 1 /\ From(ip4, c) = << >>
    BY <1>1, <1>2, <1>4 DEF ReadAt
  <2> HIDE DEF c
  <2>2. Len(From(ip4, c)) = Len(ip4) - c + 1
    BY <1>3, <2>1, FromProperties
  <2>3. Len(ip4) - c + 1 = 0
    BY <2>1, <2>2, EmptySeq
  <2> QED BY <1>4, <2>1, <2>3 DEF c
<1>6. Scan(ip4, Len(ip4), d, tmp[tp], tp) /\ saw_digit = (d < Len(ip4)) /\ d \in 0 .. Len(ip4)
  BY <1>2, <1>5 DEF ReadAt
<1>7. /\ tp \in 0 .. NS_INADDRSZ - 1 /\ tmp[tp] \in 0 .. OctetMax
      /\ octets = (IF saw_digit THEN tp + 1 ELSE tp)
  BY DEF IndInv, TypeOK, TpInside, Counted
<1>8. NS_INADDRSZ \in Nat /\ OctetMax \in Nat /\ tp \in Nat
  BY <1>7, SizeAssumption
<1>9. Acceptable' = Acceptable
  BY <1>1 DEF Acceptable, Ending, IsUri
<1>10. CASE octets < NS_INADDRSZ
  <2>1. tp # NS_INADDRSZ - 1 \/ d = Len(ip4)
    <3>1. CASE saw_digit
      BY <1>7, <1>8, <1>10, <3>1
    <3>2. CASE ~ saw_digit
      <4>1. ~ (d < Len(ip4))
        BY <1>6, <3>2, Zenon
      <4> QED BY <1>4, <1>5, <4>1
    <3> QED BY <3>1, <3>2
  <2>2. ~ IsAddress(ip4)
    BY <1>3, <1>6, <2>1, EarlyEnd
  <2>3. pc' = "cleanup"
    BY <1>1, <1>10
  <2> QED BY <1>3, <1>9, <2>2, <2>3 DEF Accepting, Fresh, Known, IsTcp, Split, Reading, Checked, Refused
<1>11. CASE ~ (octets < NS_INADDRSZ)
  <2>1. saw_digit /\ tp = NS_INADDRSZ - 1
    <3>1. saw_digit
      BY <1>7, <1>8, <1>11
    <3> QED BY <1>7, <1>8, <1>11, <3>1
  <2>2. d < Len(ip4) /\ tmp[tp] <= OctetMax
    <3>1. d < Len(ip4)
      BY <1>6, <2>1, Zenon
    <3>2. tmp[tp] <= OctetMax
      BY <1>7, <1>8
    <3> QED BY <3>1, <3>2
  <2>3. IsAddress(ip4)
    BY <1>3, <1>6, <2>1, <2>2, ScanEnd
  <2>4. pc' = "check_port"
    BY <1>1, <1>11
  <2>5. Known' /\ Split'
    BY <1>1, <2>4 DEF Accepting, Known, Split, IsTcp, Ending, IsUri, is_protocol_known
  <2> QED BY <1>1, <2>3, <2>4, <2>5 DEF Accepting, Fresh, Reading, Checked, Refused
<1> QED BY <1>10, <1>11

\* The port decides about an address that is right.
LEMMA Check_portAccepts ==
  ASSUME Accepting, Scanned, Check_port
  PROVE  Accepting'
<1>1. /\ pc = "check_port" /\ pc' = IF port # NULL /\ check_port(port) THEN "made" ELSE "cleanup"
      /\ UNCHANGED <<instr, errcode, proto, path, ip4, port>>
  BY DEF Check_port, parse
<1>2. Acceptable => port # NULL /\ check_port(port)
  BY <1>1, PartsDecide
<1>3. Acceptable' = Acceptable
  BY <1>1 DEF Acceptable, Ending, IsUri
<1>4. CASE port # NULL /\ check_port(port)
  <2>1. pc' = "made" /\ IsAddress(ip4)
    BY <1>1, <1>4 DEF Accepting, Checked
  <2>2. Known' /\ Split'
    BY <1>1, <2>1 DEF Accepting, Known, Split, IsTcp, Ending, IsUri, is_protocol_known
  <2> QED BY <1>1, <1>4, <2>1, <2>2 DEF Accepting, Fresh, Reading, Checked, Refused
<1>5. CASE ~ (port # NULL /\ check_port(port))
  BY <1>1, <1>2, <1>3, <1>5 DEF Accepting, Fresh, Known, IsTcp, Split, Reading, Checked, Refused
<1> QED BY <1>4, <1>5

\* The other steps change nothing that has been read.
LEMMA OthersAccept ==
  ASSUME Accepting, Scanned, Malloc \/ Strdup \/ Cleanup \/ sc_uri_del \/ UNCHANGED vars
  PROVE  Accepting'
<1>1. UNCHANGED <<instr, proto, path, ip4, port, src, tmp, tp, saw_digit>>
  BY DEF Malloc, Strdup, Cleanup, sc_uri_del, vars, parse, loop
<1>2. \/ pc \in {"malloc", "strdup"} /\ pc' \in {"strdup", "protocol"}
      \/ pc' = "failed" /\ errcode' = "SC_ENOMEM"
      \/ pc = "cleanup" /\ pc' = "failed"
      \/ pc' = "deleted"
      \/ pc' = pc /\ errcode' = errcode
  BY DEF Malloc, Strdup, Cleanup, sc_uri_del, vars
<1>3. Acceptable' = Acceptable
  BY <1>1 DEF Acceptable, Ending, IsUri
<1>4. Fresh' /\ Refused'
  BY <1>1, <1>2, <1>3 DEF Accepting, Fresh, Refused
<1>5. CASE pc' = pc
  <2>1. Known' /\ Split'
    BY <1>1, <1>5 DEF Accepting, Known, Split, IsTcp, Ending, IsUri, is_protocol_known
  <2>2. Reading' /\ Checked'
    BY <1>1, <1>5 DEF Accepting, Reading, ReadAt, Checked
  <2> QED BY <1>4, <2>1, <2>2 DEF Accepting
<1>6. CASE pc' \in {"strdup", "protocol", "failed", "deleted"}
  BY <1>4, <1>6 DEF Accepting, Known, IsTcp, Split, Reading, Checked
<1> QED BY <1>2, <1>5, <1>6

\* What has been read, checked and refused is right between all the steps.
THEOREM UriAccepting == Spec => []Accepting
<1>1. Accepting /\ Scanned /\ IndInv /\ [Next]_vars => Accepting'
  BY ProtocolAccepts, PathAccepts, Check_ip4Accepts, Checked_ip4Accepts,
     Check_portAccepts, OthersAccept DEF Next
<1> QED BY <1>1, InitAccepts, UriScans, UriInvariance, PTL DEF Spec

\* sc_uri_new makes a URI of the strings of Acceptable and no others, and the
\* accessors give back its parts.
THEOREM UriAcceptsUris == Spec => []AcceptsUris
<1>1. Accepting /\ Scanned => AcceptsUris
  <2> SUFFICES ASSUME Accepting, Scanned PROVE AcceptsUris
    OBVIOUS
  <2>1. pc = "failed" /\ errcode # "SC_ENOMEM" => ~ Acceptable
    BY DEF Accepting, Refused
  <2>2. ASSUME pc = "made"
        PROVE  /\ Acceptable /\ IsUri(proto[1], path)
               /\ sc_uri_protocol = "PROTO_TCP" => IsTcpPath(path, ip4, sc_uri_tcp_port)
    <3>1. /\ path \in Seq(STRING) /\ path \in Ending /\ instr \in Seq(STRING)
          /\ is_protocol_known(proto) /\ IsUri(proto[1], path)
      BY <2>2 DEF Accepting, Known, Scanned
    <3>2. CASE proto = <<"pipe">>
      <4>1. proto[1] = "pipe" /\ sc_uri_protocol = "PROTO_PIPE"
        BY <3>2 DEF sc_uri_protocol
      <4>2. Acceptable
        BY <3>1, <4>1 DEF Acceptable
      <4> QED BY <3>1, <4>1, <4>2
    <3>3. CASE proto # <<"pipe">>
      <4>1. proto[1] = "tcp"
        BY <3>1, <3>3 DEF is_protocol_known
      <4>2. PICK a \in 0 .. Len(path), b \in 1 .. Len(path) + 1 :
              /\ a + 1 < b /\ TokenAt(path, a, b)
              /\ ip4 = ctb_strtok_s(path).tok /\ port = ctb_strtok_s(path).ptr
        BY <2>2, <3>3 DEF Accepting, Split, IsTcp
      <4>3. IsAddress(ip4) /\ port # NULL /\ check_port(port)
        BY <2>2, <3>3 DEF Accepting, Checked
      <4>4. TcpGood(path) /\ IsTcpPath(path, ip4, strtol(port).num)
        BY <3>1, <4>2, <4>3, TcpPathRight
      <4>5. Acceptable
        BY <3>1, <4>1, <4>4, AcceptableTcp
      <4> QED BY <3>1, <4>4, <4>5 DEF sc_uri_tcp_port
    <3> QED BY <3>2, <3>3
  <2> QED BY <2>1, <2>2 DEF AcceptsUris
<1> QED BY <1>1, UriAccepting, UriScans, PTL

\* Every string of the reference definition is made a URI by sc_uri_new, with
\* the right parts, and every other is refused for the right reason.
THEOREM UriParsesRight == Spec => []ParsesRight
BY UriAcceptsUris, UriErrcodeTellsWhy, PTL DEF ParsesRight
=============================================================================
