--------------------------- MODULE MsgReaderProofs ---------------------------
(***************************************************************************)
(* Facts about the message format and the reader's operators, for every    *)
(* value of the constants.                                                 *)
(***************************************************************************)
EXTENDS MsgReader, SequenceTheorems, TLAPS

-----------------------------------------------------------------------------
(* Sequences.                                                              *)

\* Three sequences in a row: a stream, a size field and the data after it.
LEMMA ThreeInARow ==
  ASSUME NEW S, NEW s \in Seq(S), NEW f \in Seq(S), NEW m \in Seq(S),
         NEW u, u = (s \o f) \o m
  PROVE  /\ u \in Seq(S) /\ Len(u) = Len(s) + Len(f) + Len(m)
         /\ \A j \in 1 .. Len(s) : u[j] = s[j]
         /\ \A j \in 1 .. Len(f) : u[Len(s) + j] = f[j]
         /\ \A j \in 1 .. Len(m) : u[Len(s) + Len(f) + j] = m[j]
<1> DEFINE t == s \o f
<1>1. Len(s) \in Nat /\ Len(f) \in Nat /\ Len(m) \in Nat
  BY LenProperties
<1>2. /\ t \in Seq(S) /\ Len(t) = Len(s) + Len(f)
      /\ \A i \in 1 .. Len(s) + Len(f) :
           t[i] = IF i <= Len(s) THEN s[i] ELSE f[i - Len(s)]
  BY ConcatProperties, Zenon
<1>3. u = t \o m
  OBVIOUS
<1> HIDE DEF t
<1>4. /\ u \in Seq(S) /\ Len(u) = Len(t) + Len(m)
      /\ \A i \in 1 .. Len(t) + Len(m) :
           u[i] = IF i <= Len(t) THEN t[i] ELSE m[i - Len(t)]
  <2>1. t \in Seq(S)
    BY <1>2
  <2>2. /\ t \o m \in Seq(S) /\ Len(t \o m) = Len(t) + Len(m)
        /\ \A i \in 1 .. Len(t) + Len(m) :
             (t \o m)[i] = IF i <= Len(t) THEN t[i] ELSE m[i - Len(t)]
    BY <2>1, ConcatProperties, Zenon
  <2> QED BY <2>2, <1>3, Zenon
<1>5. ASSUME NEW j \in 1 .. Len(s) PROVE u[j] = s[j]
  <2>1. /\ j \in 1 .. Len(t) + Len(m) /\ j \in 1 .. Len(s) + Len(f)
        /\ j <= Len(s) /\ j <= Len(t)
    BY <1>1, <1>2
  <2> QED BY <2>1, <1>2, <1>4
<1>6. ASSUME NEW j \in 1 .. Len(f) PROVE u[Len(s) + j] = f[j]
  <2>1. /\ Len(s) + j \in 1 .. Len(t) + Len(m)
        /\ Len(s) + j \in 1 .. Len(s) + Len(f)
        /\ ~ (Len(s) + j <= Len(s)) /\ Len(s) + j <= Len(t)
        /\ (Len(s) + j) - Len(s) = j
    BY <1>1, <1>2
  <2> QED BY <2>1, <1>2, <1>4
<1>7. ASSUME NEW j \in 1 .. Len(m) PROVE u[Len(s) + Len(f) + j] = m[j]
  <2> DEFINE k == Len(s) + Len(f) + j
  <2>1. k \in 1 .. Len(t) + Len(m) /\ ~ (k <= Len(t)) /\ k - Len(t) = j
    BY <1>1, <1>2
  <2> HIDE DEF k
  <2>2. u[k] = m[j]
    BY <2>1, <1>4
  <2> QED BY <2>2 DEF k
<1> QED BY <1>1, <1>2, <1>4, <1>5, <1>6, <1>7

\* A piece of n bytes of a sequence, after the first p.
LEMMA Piece ==
  ASSUME NEW S, NEW s \in Seq(S), NEW p \in Nat, NEW n \in Nat,
         p + n <= Len(s)
  PROVE  /\ SubSeq(s, p + 1, p + n) \in Seq(S)
         /\ Len(SubSeq(s, p + 1, p + n)) = n
         /\ \A i \in 1 .. n : SubSeq(s, p + 1, p + n)[i] = s[p + i]
<1>1. Len(s) \in Nat
  BY LenProperties
<1>2. \A i \in p + 1 .. p + n : s[i] \in S
  BY <1>1, ElementOfSeq
<1> DEFINE a == p + 1
           b == p + n
<1>3. a \in Int /\ b \in Int /\ \A i \in a .. b : s[i] \in S
  BY <1>2
<1>4. a = p + 1 /\ b = p + n
  OBVIOUS
<1> HIDE DEF a, b
<1>5. /\ SubSeq(s, a, b) \in Seq(S)
      /\ Len(SubSeq(s, a, b)) = IF a <= b THEN b - a + 1 ELSE 0
      /\ \A i \in 1 .. b - a + 1 : SubSeq(s, a, b)[i] = s[a + i - 1]
  BY <1>3, SubSeqProperties
<1>6. b - a + 1 = n
  BY <1>4
<1>7. Len(SubSeq(s, a, b)) = n
  BY <1>4, <1>5
<1>8. ASSUME NEW i \in 1 .. n PROVE SubSeq(s, a, b)[i] = s[p + i]
  <2>1. i \in 1 .. b - a + 1 /\ a + i - 1 = p + i
    BY <1>4, <1>6
  <2> QED BY <2>1, <1>5
<1> QED BY <1>4, <1>5, <1>7, <1>8

-----------------------------------------------------------------------------
(* Arithmetic on the digits of a size.                                     *)

\* Multiplication is monotone; stated apart because it is not linear.
LEMMA ProductMonotone ==
  ASSUME NEW a \in Nat, NEW b \in Nat, NEW c \in Nat, a <= b
  PROVE  a * c <= b * c
<1>1. PICK d \in Nat : b = a + d
  <2>1. b - a \in Nat /\ b = a + (b - a)
    OBVIOUS
  <2> QED BY <2>1
<1>2. d * c \in Nat /\ b * c = a * c + d * c
  BY <1>1
<1> QED BY <1>2

\* Quotient and remainder by the number of byte values.
LEMMA DivMod ==
  ASSUME NEW n \in Nat
  PROVE  /\ n \div Base \in Nat
         /\ n % Base \in Byte
         /\ n = ((n \div Base) * Base) + (n % Base)
BY BaseAssumption, SMT DEF Byte

\* A quotient is below a bound when the number is below that many bases.
LEMMA DivBound ==
  ASSUME NEW n \in Nat, NEW m \in Nat, n < m * Base
  PROVE  n \div Base < m
<1> DEFINE q == n \div Base
<1>1. q \in Nat /\ n % Base \in Nat /\ n = (q * Base) + (n % Base)
  BY DivMod DEF Byte
<1>2. SUFFICES ASSUME q >= m PROVE FALSE
  BY <1>1
<1>3. m * Base <= q * Base
  BY <1>1, <1>2, ProductMonotone, BaseAssumption
<1> HIDE DEF q
<1>4. q * Base \in Nat /\ m * Base \in Nat
  BY <1>1, BaseAssumption
<1> QED BY <1>1, <1>3, <1>4

\* One step of the Horner scheme stays below the next bound.
LEMMA HornerBound ==
  ASSUME NEW a \in Nat, NEW m \in Nat, a < m, NEW b \in Byte
  PROVE  a * Base + b \in Nat /\ a * Base + b < m * Base
<1>1. (a + 1) * Base <= m * Base
  BY ProductMonotone, BaseAssumption
<1>2. (a + 1) * Base = a * Base + Base
  BY BaseAssumption
<1>3. a * Base \in Nat /\ m * Base \in Nat
  BY BaseAssumption
<1> QED BY <1>1, <1>2, <1>3, BaseAssumption DEF Byte

\* sc_msg_set_size fills four bytes.
LEMMA SizeBytes ==
  ASSUME NEW n \in Nat
  PROVE  /\ sc_msg_set_size(n) \in Seq(Byte)
         /\ Len(sc_msg_set_size(n)) = SC_MSG_SIZE_BYTES
         /\ sc_msg_set_size(n) \in [1 .. SC_MSG_SIZE_BYTES -> Byte]
<1> DEFINE q1 == n \div Base
           q2 == q1 \div Base
           q3 == q2 \div Base
<1>1. q1 \in Nat /\ n % Base \in Byte
  BY DivMod
<1>2. q2 \in Nat /\ q1 % Base \in Byte
  BY <1>1, DivMod
<1>3. q3 \in Nat /\ q2 % Base \in Byte
  BY <1>2, DivMod
<1>4. q3 % Base \in Byte
  BY <1>3, DivMod
<1>5. sc_msg_set_size(n) = <<q3 % Base, q2 % Base, q1 % Base, n % Base>>
  BY DEF sc_msg_set_size
<1> HIDE DEF q1, q2, q3
<1> QED BY <1>1, <1>2, <1>3, <1>4, <1>5 DEF SC_MSG_SIZE_BYTES

\* The conversion to big-endian bytes loses nothing below Word.
THEOREM SizeRoundTrip ==
  ASSUME NEW n \in Nat, n < Word
  PROVE  sc_msg_get_size(sc_msg_set_size(n)) = n
<1> DEFINE q1 == n \div Base
           q2 == q1 \div Base
           q3 == q2 \div Base
<1>0. Base \in Nat /\ Base * Base \in Nat /\ Base * Base * Base \in Nat
  BY BaseAssumption
<1>1. q1 \in Nat /\ n = (q1 * Base) + (n % Base) /\ q1 < Base * Base * Base
  BY <1>0, DivMod, DivBound DEF Word
<1>2. q2 \in Nat /\ q1 = (q2 * Base) + (q1 % Base) /\ q2 < Base * Base
  BY <1>0, <1>1, DivMod, DivBound
<1>3. q3 \in Nat /\ q2 = (q3 * Base) + (q2 % Base) /\ q3 < Base
  BY <1>0, <1>2, DivMod, DivBound
<1>4. q3 % Base = q3
  BY <1>3, <1>0, BaseAssumption
<1>5. sc_msg_set_size(n) = <<q3 % Base, q2 % Base, q1 % Base, n % Base>>
  BY DEF sc_msg_set_size
<1> HIDE DEF q1, q2, q3
<1>6. sc_msg_get_size(sc_msg_set_size(n))
        = ((q3 * Base + (q2 % Base)) * Base + (q1 % Base)) * Base + (n % Base)
  BY <1>4, <1>5 DEF sc_msg_get_size
<1>7. (q3 * Base) + (q2 % Base) = q2
  BY <1>3
<1>8. (q2 * Base) + (q1 % Base) = q1
  BY <1>2
<1> QED BY <1>1, <1>6, <1>7, <1>8

\* Any four bytes announce a size below Word.
LEMMA SizeRange ==
  ASSUME NEW be \in [1 .. SC_MSG_SIZE_BYTES -> Byte]
  PROVE  sc_msg_get_size(be) \in Nat /\ sc_msg_get_size(be) < Word
<1> DEFINE h2 == be[1] * Base + be[2]
           h3 == h2 * Base + be[3]
           h4 == h3 * Base + be[4]
<1>1. be[1] \in Byte /\ be[2] \in Byte /\ be[3] \in Byte /\ be[4] \in Byte
  BY DEF SC_MSG_SIZE_BYTES
<1>2. Base \in Nat /\ Base * Base \in Nat /\ Base * Base * Base \in Nat
  BY BaseAssumption
<1>3. be[1] \in Nat /\ be[1] < Base
  BY <1>1, BaseAssumption DEF Byte
<1>4. h2 \in Nat /\ h2 < Base * Base
  BY <1>1, <1>2, <1>3, HornerBound
<1>5. h3 \in Nat /\ h3 < Base * Base * Base
  <2> HIDE DEF h2
  <2> QED BY <1>1, <1>2, <1>4, HornerBound
<1>6. h4 \in Nat /\ h4 < Base * Base * Base * Base
  <2> HIDE DEF h3
  <2> QED BY <1>1, <1>2, <1>5, HornerBound
<1> QED BY <1>6 DEF sc_msg_get_size, Word

-----------------------------------------------------------------------------
(* The reader's cursors.                                                   *)

\* While the data cursor has not passed the announced size, the unsigned
\* subtraction of msg_reader_avail_body_size does not wrap.
LEMMA AvailBody ==
  ASSUME NEW r \in Reader, r.body_pos <= sc_msg_get_size(r.size_be)
  PROVE  msg_reader_avail_body_size(r)
           = sc_msg_get_size(r.size_be) - r.body_pos
<1> DEFINE s == sc_msg_get_size(r.size_be)
<1>1. s \in Nat /\ s < Word /\ r.body_pos \in Nat
  BY SizeRange DEF Reader
<1>2. Word \in Nat
  BY BaseAssumption DEF Word
<1> HIDE DEF s
<1>3. (s - r.body_pos) % Word = s - r.body_pos
  BY <1>1, <1>2 DEF s
<1> QED BY <1>3 DEF msg_reader_avail_body_size, s

\* alloc_wrap's window is not empty, and ends where the size field, or else
\* the data of the message, ends.
LEMMA Window ==
  ASSUME NEW r \in Reader, UnderConstruction(r)
  PROVE  /\ buffer_len(r) \in Nat
         /\ buffer_len(r) > 0
         /\ r.head_pos < SC_MSG_SIZE_BYTES
              => buffer_len(r) <= SC_MSG_SIZE_BYTES - r.head_pos
         /\ r.head_pos = SC_MSG_SIZE_BYTES
              => buffer_len(r) <= sc_msg_get_size(r.size_be) - r.body_pos
<1>1. r.head_pos \in 0 .. 4 /\ r.body_pos \in Nat
  BY DEF Reader, SC_MSG_SIZE_BYTES
<1>2. sc_msg_get_size(r.size_be) \in Nat
  BY SizeRange DEF Reader
<1>3. CASE r.head_pos < SC_MSG_SIZE_BYTES
  BY <1>1, <1>3, SuggestedAssumption
  DEF buffer_len, msg_reader_avail_head_size, Smaller, SC_MSG_SIZE_BYTES
<1>4. CASE r.head_pos = SC_MSG_SIZE_BYTES
  <2>1. r.body_pos < sc_msg_get_size(r.size_be)
    BY <1>4 DEF UnderConstruction
  <2>2. msg_reader_avail_body_size(r)
          = sc_msg_get_size(r.size_be) - r.body_pos
    BY <2>1, <1>1, <1>2, AvailBody
  <2>3. buffer_len(r)
          = Smaller(sc_msg_get_size(r.size_be) - r.body_pos, Suggested)
    BY <1>4, <2>2
    DEF buffer_len, msg_reader_avail_head_size, SC_MSG_SIZE_BYTES
  <2> QED BY <1>1, <1>2, <1>4, <2>1, <2>3, SuggestedAssumption DEF Smaller,
       SC_MSG_SIZE_BYTES
<1> QED BY <1>1, <1>3, <1>4 DEF SC_MSG_SIZE_BYTES

\* Bytes stored in the size field.
LEMMA ParseHead ==
  ASSUME NEW r \in Reader, UnderConstruction(r),
         r.head_pos < SC_MSG_SIZE_BYTES,
         NEW bs \in Seq(Byte), Len(bs) <= buffer_len(r),
         NEW q, q = parse(r, bs)
  PROVE  /\ q \in Reader
         /\ q.head_pos = r.head_pos + Len(bs)
         /\ q.data = << >> /\ q.body_pos = 0
         /\ \A j \in 1 .. r.head_pos : q.size_be[j] = r.size_be[j]
         /\ \A j \in r.head_pos + 1 .. q.head_pos :
              q.size_be[j] = bs[j - r.head_pos]
<1>1. /\ r.head_pos \in 0 .. 4 /\ r.body_pos = 0 /\ r.data \in Seq(Byte)
      /\ r.size_be \in [1 .. 4 -> Byte] /\ Len(r.data) = 0
  BY DEF Reader, SC_MSG_SIZE_BYTES, UnderConstruction
<1>2. Len(bs) \in Nat /\ Len(bs) <= 4 - r.head_pos
  BY <1>1, Window DEF SC_MSG_SIZE_BYTES
<1>3. r.data = << >>
  BY <1>1, EmptySeq
<1>4. q = msg_reader_parse_head(r, bs)
  BY <1>1 DEF parse, msg_reader_avail_head_size, SC_MSG_SIZE_BYTES
<1> DEFINE be == [i \in 1 .. 4 |->
                    IF r.head_pos < i /\ i <= r.head_pos + Len(bs)
                      THEN bs[i - r.head_pos] ELSE r.size_be[i]]
<1>5. be \in [1 .. 4 -> Byte]
  <2>1. ASSUME NEW i \in 1 .. 4, r.head_pos < i, i <= r.head_pos + Len(bs)
        PROVE  bs[i - r.head_pos] \in Byte
    <3>1. i - r.head_pos \in 1 .. Len(bs)
      BY <2>1, <1>1, <1>2
    <3> QED BY <3>1, ElementOfSeq
  <2> QED BY <2>1, <1>1
<1>6. skip_pos(r.head_pos, msg_reader_avail_head_size(r), Len(bs))
        = r.head_pos + Len(bs)
  BY <1>1, <1>2 DEF skip_pos, Smaller, msg_reader_avail_head_size,
                    SC_MSG_SIZE_BYTES
<1>7. q = [r EXCEPT !.size_be = be, !.head_pos = r.head_pos + Len(bs)]
  BY <1>4, <1>6 DEF msg_reader_parse_head, SC_MSG_SIZE_BYTES
<1>8. q = [size_be |-> be, head_pos |-> r.head_pos + Len(bs),
           data |-> << >>, body_pos |-> 0]
  <2> HIDE DEF be
  <2> QED BY <1>7, <1>1, <1>3 DEF Reader
<1>9. /\ q.size_be = be /\ q.head_pos = r.head_pos + Len(bs)
      /\ q.data = << >> /\ q.body_pos = 0
  <2> HIDE DEF be
  <2> QED BY <1>8
<1>10. q \in Reader
  <2> HIDE DEF be
  <2>1. r.head_pos + Len(bs) \in 0 .. 4
    BY <1>1, <1>2
  <2> QED BY <1>5, <1>8, <2>1 DEF Reader, SC_MSG_SIZE_BYTES
<1>11. \A j \in 1 .. r.head_pos : be[j] = r.size_be[j]
  BY <1>1, <1>2
<1>12. \A j \in r.head_pos + 1 .. r.head_pos + Len(bs) :
         be[j] = bs[j - r.head_pos]
  BY <1>1, <1>2
<1> HIDE DEF be
<1> QED BY <1>9, <1>10, <1>11, <1>12

\* Bytes stored in the data.
LEMMA ParseBody ==
  ASSUME NEW r \in Reader, UnderConstruction(r),
         r.head_pos = SC_MSG_SIZE_BYTES,
         NEW bs \in Seq(Byte), Len(bs) <= buffer_len(r),
         NEW q, q = parse(r, bs)
  PROVE  /\ q \in Reader
         /\ q.head_pos = r.head_pos /\ q.size_be = r.size_be
         /\ q.data = r.data \o bs
         /\ q.body_pos = r.body_pos + Len(bs) /\ Len(q.data) = q.body_pos
         /\ q.body_pos <= sc_msg_get_size(r.size_be)
<1>1. /\ r.body_pos \in Nat /\ r.data \in Seq(Byte)
      /\ Len(r.data) = r.body_pos
      /\ r.body_pos < sc_msg_get_size(r.size_be)
  BY DEF Reader, UnderConstruction
<1>2. sc_msg_get_size(r.size_be) \in Nat
  BY SizeRange DEF Reader
<1>3. /\ Len(bs) \in Nat
      /\ Len(bs) <= sc_msg_get_size(r.size_be) - r.body_pos
  BY <1>1, <1>2, Window
<1>4. q = msg_reader_parse_body(r, bs)
  BY DEF parse, msg_reader_avail_head_size, SC_MSG_SIZE_BYTES
<1>5. skip_pos(r.body_pos, msg_reader_avail_body_size(r), Len(bs))
        = r.body_pos + Len(bs)
  <2>1. msg_reader_avail_body_size(r)
          = sc_msg_get_size(r.size_be) - r.body_pos
    BY <1>1, <1>2, AvailBody
  <2> QED BY <2>1, <1>1, <1>2, <1>3 DEF skip_pos, Smaller
<1>6. SubSeq(r.data, 1, r.body_pos) = r.data
  BY <1>1, SubSeqFull
<1>7. q = [r EXCEPT !.data = r.data \o bs, !.body_pos = r.body_pos + Len(bs)]
  BY <1>4, <1>5, <1>6 DEF msg_reader_parse_body
<1>8. r.data \o bs \in Seq(Byte) /\ Len(r.data \o bs) = Len(r.data) + Len(bs)
  BY <1>1, ConcatProperties
<1>9. /\ q.head_pos = r.head_pos /\ q.size_be = r.size_be
      /\ q.data = r.data \o bs /\ q.body_pos = r.body_pos + Len(bs)
  BY <1>7 DEF Reader
<1>10. q \in Reader
  <2> DEFINE d == r.data \o bs
             p == r.body_pos + Len(bs)
  <2>1. d \in Seq(Byte) /\ p \in Nat /\ q = [r EXCEPT !.data = d, !.body_pos = p]
    BY <1>1, <1>3, <1>7, <1>8
  <2> HIDE DEF d, p
  <2> QED BY <2>1 DEF Reader
<1> QED BY <1>1, <1>2, <1>3, <1>8, <1>9, <1>10

\* msg_reader_finished compares the data cursor with the size announced.
LEMMA Finished ==
  ASSUME NEW q \in Reader, q.body_pos <= sc_msg_get_size(q.size_be)
  PROVE  msg_reader_finished(q) <=> q.body_pos = sc_msg_get_size(q.size_be)
<1>1. q.body_pos \in Nat /\ sc_msg_get_size(q.size_be) \in Nat
  BY SizeRange DEF Reader
<1> QED BY <1>1, AvailBody DEF msg_reader_finished
=============================================================================
