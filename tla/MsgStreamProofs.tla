--------------------------- MODULE MsgStreamProofs ---------------------------
(***************************************************************************)
(* The safety of MsgStream for every byte size, every set of messages,     *)
(* every suggested size and any number of connections.                     *)
(***************************************************************************)
EXTENDS MsgStreamChannel, MsgReaderProofs

-----------------------------------------------------------------------------
(* Facts about one state.                                                  *)

\* A message sent is a sequence of bytes whose length fits the size field.
LEMMA SentMessage ==
  ASSUME TypeOK, NEW i \in 1 .. Len(sent)
  PROVE  /\ sent[i] \in Seq(Byte)
         /\ Len(sent[i]) \in Nat
         /\ Len(sent[i]) < Word
<1>1. sent[i] \in Messages
  BY ElementOfSeq DEF TypeOK
<1> QED BY <1>1, MessagesAssumption, LenProperties

\* The four bytes at the beginning of a frame announce its message's length.
LEMMA FrameSize ==
  ASSUME TypeOK, StreamInv, NEW i \in 1 .. Len(sent),
         NEW be \in [1 .. SC_MSG_SIZE_BYTES -> Byte],
         \A j \in 1 .. SC_MSG_SIZE_BYTES : be[j] = stream[starts[i] + j]
  PROVE  sc_msg_get_size(be) = Len(sent[i])
<1> DEFINE f == sc_msg_set_size(Len(sent[i]))
<1>1. Len(sent[i]) \in Nat /\ Len(sent[i]) < Word
  BY SentMessage
<1>2. f \in [1 .. SC_MSG_SIZE_BYTES -> Byte]
  BY <1>1, SizeBytes
<1>3. ASSUME NEW j \in 1 .. SC_MSG_SIZE_BYTES PROVE be[j] = f[j]
  <2>1. stream[starts[i] + j] = f[j]
    BY DEF StreamInv
  <2> QED BY <2>1
<1>4. sc_msg_get_size(f) = Len(sent[i])
  BY <1>1, SizeRoundTrip
<1> HIDE DEF f
<1>5. be = f
  <2>1. be = [j \in 1 .. SC_MSG_SIZE_BYTES |-> be[j]]
    OBVIOUS
  <2>2. f = [j \in 1 .. SC_MSG_SIZE_BYTES |-> f[j]]
    BY <1>2
  <2> QED BY <1>3, <2>1, <2>2, Zenon
<1> QED BY <1>4, <1>5

\* What alloc_wrap works on: a message under construction whose bytes are
\* those of the stream from base to pos.
LEMMA AllocWrap ==
  ASSUME IndInv, rx = "reading", mem = "ok", NEW w, w = alloc_wrap
  PROVE  /\ w \in Reader /\ UnderConstruction(w)
         /\ sync = "ok" =>
              /\ Len(delivered) \in Nat /\ Len(delivered) <= Len(sent)
              /\ base \in Nat
              /\ pos = base + w.head_pos + w.body_pos
              /\ \A j \in 1 .. w.head_pos : w.size_be[j] = stream[base + j]
              /\ \A j \in 1 .. w.body_pos :
                   w.data[j] = stream[base + SC_MSG_SIZE_BYTES + j]
<1> USE DEF IndInv
<1> DEFINE z == msg_reader_init
<1>1. /\ z.head_pos = 0 /\ z.body_pos = 0 /\ z.data = << >>
      /\ z.size_be = <<0, 0, 0, 0>>
  BY DEF msg_reader_init
<1>2. z \in Reader /\ UnderConstruction(z)
  <2>1. 0 \in Byte
    BY BaseAssumption DEF Byte
  <2>2. <<0, 0, 0, 0>> \in [1 .. 4 -> Byte]
    BY <2>1
  <2>3. z \in Reader
    BY <2>2 DEF msg_reader_init, Reader, SC_MSG_SIZE_BYTES
  <2>4. UnderConstruction(z)
    BY <1>1 DEF UnderConstruction, SC_MSG_SIZE_BYTES
  <2> QED BY <2>3, <2>4
<1>3. Len(delivered) \in Nat
  BY LenProperties DEF TypeOK
<1>4. sync = "ok" => Len(delivered) <= Len(sent) /\ CursorInv
  BY DEF SyncInv, Framed, EndInv, TypeOK
<1>5. sync = "ok" => base \in Nat
  <2>1. SUFFICES ASSUME sync = "ok" PROVE base \in Nat
    OBVIOUS
  <2>2. Len(delivered) + 1 \in 1 .. Len(starts)
    BY <1>3, <1>4, <2>1, LenProperties DEF StreamInv, TypeOK
  <2> QED BY <2>2, ElementOfSeq DEF base, TypeOK
<1>6. CASE msg = "null"
  <2>1. w = z
    BY <1>6 DEF alloc_wrap
  <2> HIDE DEF z
  <2>2. w \in Reader /\ UnderConstruction(w)
    BY <1>2, <2>1
  <2>3. w.head_pos = 0 /\ w.body_pos = 0
    BY <1>1, <2>1
  <2> QED BY <1>3, <1>4, <1>5, <1>6, <2>2, <2>3 DEF CursorInv
<1>7. CASE msg = "alloc"
  <2>1. w = reader
    BY <1>7 DEF alloc_wrap
  <2> QED BY <1>3, <1>4, <1>5, <1>7, <2>1 DEF CursorInv, ReaderInv, TypeOK
<1> QED BY <1>6, <1>7 DEF TypeOK

\* What read_wrap has after n more bytes: a reader whose data cursor did not
\* pass the announced size, and whose bytes are those of the stream.
LEMMA ReadStep ==
  ASSUME IndInv, rx = "reading", mem = "ok",
         NEW n \in Nat, n > 0, n <= buffer_len(alloc_wrap), pos + n <= flown,
         NEW r, r = parse(alloc_wrap, SubSeq(stream, pos + 1, pos + n))
  PROVE  /\ r \in Reader
         /\ Len(r.data) = r.body_pos
         /\ r.head_pos < SC_MSG_SIZE_BYTES => r.body_pos = 0
         /\ r.body_pos <= sc_msg_get_size(r.size_be)
         /\ sync = "ok" =>
              /\ Len(delivered) < Len(sent)
              /\ pos + n = base + r.head_pos + r.body_pos
              /\ \A j \in 1 .. r.head_pos : r.size_be[j] = stream[base + j]
              /\ \A j \in 1 .. r.body_pos :
                   r.data[j] = stream[base + SC_MSG_SIZE_BYTES + j]
              /\ r.head_pos = SC_MSG_SIZE_BYTES =>
                   sc_msg_get_size(r.size_be) = Len(sent[Len(delivered) + 1])
<1> DEFINE w == alloc_wrap
           bs == SubSeq(stream, pos + 1, pos + n)
<1>1. w \in Reader /\ UnderConstruction(w)
  BY AllocWrap
<1>2. /\ pos \in Nat /\ flown \in Nat /\ pos + n <= Len(stream)
      /\ Len(stream) \in Nat /\ stream \in Seq(Byte)
  BY LenProperties DEF IndInv, TypeOK
<1>3. /\ bs \in Seq(Byte) /\ Len(bs) = n
      /\ \A i \in 1 .. n : bs[i] = stream[pos + i]
  BY <1>2, Piece
<1>4. r = parse(w, bs) /\ Len(bs) <= buffer_len(w)
  BY <1>3
<1>5. sync = "ok" =>
        /\ Len(delivered) \in Nat /\ Len(delivered) <= Len(sent)
        /\ base \in Nat
        /\ pos = base + w.head_pos + w.body_pos
        /\ \A j \in 1 .. w.head_pos : w.size_be[j] = stream[base + j]
        /\ \A j \in 1 .. w.body_pos :
             w.data[j] = stream[base + SC_MSG_SIZE_BYTES + j]
  BY AllocWrap
<1> HIDE DEF w, bs
<1>6. w.head_pos \in 0 .. 4 /\ w.head_pos \in Nat /\ w.body_pos \in Nat
  BY <1>1 DEF Reader, SC_MSG_SIZE_BYTES
<1>a. sync = "ok" => base \in Nat /\ pos = base + w.head_pos + w.body_pos
  BY <1>5
<1>b. pos \in Nat /\ Len(bs) = n
  BY <1>2, <1>3
<1>7. sync = "ok" => Len(delivered) < Len(sent)
  <2>1. SUFFICES ASSUME sync = "ok", Len(delivered) = Len(sent) PROVE FALSE
    BY <1>5, LenProperties DEF IndInv, TypeOK
  <2>2. base = Len(stream)
    BY <2>1 DEF base, IndInv, StreamInv
  <2> QED BY <2>1, <2>2, <1>2, <1>5, <1>6
<1> DEFINE D == Len(delivered)
<1>8. ASSUME sync = "ok", NEW be \in [1 .. SC_MSG_SIZE_BYTES -> Byte],
             \A j \in 1 .. SC_MSG_SIZE_BYTES : be[j] = stream[base + j]
      PROVE  sc_msg_get_size(be) = Len(sent[D + 1])
  <2>1. D + 1 \in 1 .. Len(sent)
    BY <1>5, <1>7, <1>8, LenProperties DEF IndInv, TypeOK
  <2> QED BY <1>8, <2>1, FrameSize DEF base, IndInv
<1>9. CASE w.head_pos < SC_MSG_SIZE_BYTES
  <2>1. /\ r \in Reader
        /\ r.head_pos = w.head_pos + Len(bs)
        /\ r.data = << >> /\ r.body_pos = 0
        /\ \A j \in 1 .. w.head_pos : r.size_be[j] = w.size_be[j]
        /\ \A j \in w.head_pos + 1 .. r.head_pos :
             r.size_be[j] = bs[j - w.head_pos]
    BY <1>1, <1>3, <1>4, <1>9, ParseHead
  <2>2. r.size_be \in [1 .. SC_MSG_SIZE_BYTES -> Byte]
    BY <2>1 DEF Reader
  <2>3. w.body_pos = 0
    BY <1>1, <1>9 DEF UnderConstruction
  <2>4. ASSUME sync = "ok", NEW j \in 1 .. r.head_pos
        PROVE  r.size_be[j] = stream[base + j]
    <3>1. CASE j <= w.head_pos
      <4>1. j \in 1 .. w.head_pos
        BY <1>6, <3>1
      <4>2. r.size_be[j] = w.size_be[j]
        BY <2>1, <4>1
      <4> QED BY <1>5, <2>4, <4>1, <4>2
    <3>2. CASE j > w.head_pos
      <4>1. j - w.head_pos \in 1 .. n /\ j \in w.head_pos + 1 .. r.head_pos
        BY <1>3, <1>6, <2>1, <3>2
      <4>2. pos + (j - w.head_pos) = base + j
        BY <1>a, <1>b, <1>6, <2>3, <2>4
      <4> QED BY <4>1, <4>2, <2>1, <1>3
    <3> QED BY <3>1, <3>2, <1>6
  <2>5. sc_msg_get_size(r.size_be) \in Nat
    BY <2>2, SizeRange
  <2>6. sync = "ok" => pos + n = base + r.head_pos + r.body_pos
    <3>1. r.head_pos = w.head_pos + n /\ r.body_pos = 0
      BY <2>1, <1>b
    <3>2. ASSUME sync = "ok" PROVE pos + n = base + r.head_pos + r.body_pos
      <4>1. base \in Nat /\ pos = base + w.head_pos
        BY <3>2, <2>3, <1>a, <1>6
      <4> QED BY <4>1, <3>1, <1>b, <1>6
    <3> QED BY <3>2
  <2>7. sync = "ok" /\ r.head_pos = SC_MSG_SIZE_BYTES
          => sc_msg_get_size(r.size_be) = Len(sent[D + 1])
    BY <1>8, <2>2, <2>4
  <2>8. Len(r.data) = r.body_pos
    BY <2>1
  <2> QED BY <1>7, <2>1, <2>4, <2>5, <2>6, <2>7, <2>8
<1>10. CASE w.head_pos = SC_MSG_SIZE_BYTES
  <2>1. /\ r \in Reader
        /\ r.head_pos = w.head_pos /\ r.size_be = w.size_be
        /\ r.data = w.data \o bs
        /\ r.body_pos = w.body_pos + Len(bs) /\ Len(r.data) = r.body_pos
        /\ r.body_pos <= sc_msg_get_size(w.size_be)
    BY <1>1, <1>3, <1>4, <1>10, ParseBody
  <2>2. r.size_be \in [1 .. SC_MSG_SIZE_BYTES -> Byte]
    BY <2>1 DEF Reader
  <2>3. w.data \in Seq(Byte) /\ Len(w.data) = w.body_pos
    BY <1>1 DEF Reader, UnderConstruction
  <2>4. ASSUME sync = "ok", NEW j \in 1 .. r.body_pos
        PROVE  r.data[j] = stream[base + SC_MSG_SIZE_BYTES + j]
    <3>1. r.data[j] = IF j <= Len(w.data) THEN w.data[j] ELSE bs[j - Len(w.data)]
      <4>1. j \in 1 .. Len(w.data) + Len(bs)
        BY <2>1, <2>3, <1>3, <1>6
      <4>2. \A i \in 1 .. Len(w.data) + Len(bs) : (w.data \o bs)[i] =
              IF i <= Len(w.data) THEN w.data[i] ELSE bs[i - Len(w.data)]
        BY <2>3, <1>3, ConcatProperties, Zenon
      <4>3. r.data = w.data \o bs
        BY <2>1
      <4> QED BY <4>1, <4>2, <4>3, Zenon
    <3>2. CASE j <= w.body_pos
      BY <1>5, <1>6, <2>3, <2>4, <3>1, <3>2
    <3>3. CASE j > w.body_pos
      <4>1. j - w.body_pos \in 1 .. n
        BY <1>3, <1>6, <2>1, <3>3
      <4>2. pos + (j - w.body_pos) = base + SC_MSG_SIZE_BYTES + j
        <5>1. j \in Nat
          BY <1>6, <4>1
        <5> QED BY <1>a, <1>b, <1>6, <1>10, <2>4, <5>1 DEF SC_MSG_SIZE_BYTES
      <4>3. r.data[j] = bs[j - w.body_pos]
        BY <3>1, <3>3, <2>3, <1>6
      <4> QED BY <4>1, <4>2, <4>3, <1>3
    <3> QED BY <3>2, <3>3, <1>6
  <2>5. sync = "ok" => pos + n = base + r.head_pos + r.body_pos
    <3>1. r.head_pos = w.head_pos /\ r.body_pos = w.body_pos + n
      BY <2>1, <1>b
    <3>2. ASSUME sync = "ok" PROVE pos + n = base + r.head_pos + r.body_pos
      <4>1. base \in Nat /\ pos = base + w.head_pos + w.body_pos
        BY <3>2, <1>a
      <4> QED BY <4>1, <3>1, <1>b, <1>6
    <3> QED BY <3>2
  <2>6. sync = "ok" => sc_msg_get_size(r.size_be) = Len(sent[D + 1])
    BY <1>5, <1>8, <1>10, <2>1, <2>2
  <2>7. sync = "ok" =>
          \A j \in 1 .. r.head_pos : r.size_be[j] = stream[base + j]
    BY <1>5, <2>1
  <2>8. ~ (r.head_pos < SC_MSG_SIZE_BYTES)
    BY <2>1, <1>10 DEF SC_MSG_SIZE_BYTES
  <2> QED BY <1>7, <2>1, <2>4, <2>5, <2>6, <2>7, <2>8
<1> QED BY <1>6, <1>9, <1>10 DEF SC_MSG_SIZE_BYTES

-----------------------------------------------------------------------------
(* Every step preserves the invariant.                                     *)

\* Before the first connection there is no stream and no message.
LEMMA InitInv == Init => IndInv
<1> SUFFICES ASSUME Init PROVE IndInv
  OBVIOUS
<1> USE DEF Init
<1>1. << >> \in Seq(Byte) /\ << >> \in Seq(Messages) /\ << >> \in Seq(Seq(Byte))
  BY EmptySeq
<1>2. reader \in Reader
  <2>1. 0 \in Byte
    BY BaseAssumption DEF Byte
  <2>2. <<0, 0, 0, 0>> \in [1 .. 4 -> Byte]
    BY <2>1
  <2> QED BY <2>2 DEF msg_reader_init, Reader, SC_MSG_SIZE_BYTES
<1>3. TypeOK
  BY <1>1, <1>2 DEF TypeOK
<1>4. StreamInv
  BY DEF StreamInv
<1>5. ReaderInv /\ EndInv /\ InAllocation
  BY DEF ReaderInv, EndInv, InAllocation
<1>6. SyncInv
  BY DEF SyncInv, CursorInv, base
<1> QED BY <1>3, <1>4, <1>5, <1>6 DEF IndInv

\* A piece of n bytes after the first a ends inside a stream that is as long.
LEMMA Within ==
  ASSUME NEW a \in Nat, NEW n \in Nat, NEW l \in Nat, a + n <= l,
         NEW j \in 1 .. n
  PROVE  a + j \in 1 .. l
  OBVIOUS

\* buv_send appends one frame to the stream; the earlier ones keep their place.
LEMMA SendInv ==
  ASSUME IndInv, NEW m \in Messages, buv_send(m)
  PROVE  IndInv'
<1> USE DEF IndInv
<1> DEFINE f == sc_msg_set_size(Len(m))
           L == Len(stream)
           K == Len(sent)
<1>1. m \in Seq(Byte) /\ Len(m) \in Nat
  BY MessagesAssumption, LenProperties
<1>2. f \in Seq(Byte) /\ Len(f) = 4
  BY <1>1, SizeBytes DEF SC_MSG_SIZE_BYTES
<1>3. /\ stream \in Seq(Byte) /\ L \in Nat /\ K \in Nat /\ sent \in Seq(Messages)
      /\ starts \in Seq(Nat) /\ Len(starts) = K + 1 /\ starts[K + 1] = L
      /\ flown \in 0 .. L /\ pos \in 0 .. flown
  BY LenProperties DEF TypeOK, StreamInv
<1>4. /\ stream' = (stream \o f) \o m
      /\ sent' = Append(sent, m)
      /\ starts' = Append(starts, L + 4 + Len(m))
      /\ peer = "open" /\ wreq' = "writing"
      /\ UNCHANGED <<flown, peer>> /\ UNCHANGED sockVars
  BY DEF buv_send, SC_MSG_SIZE_BYTES
<1> HIDE DEF f
<1>5. /\ stream' \in Seq(Byte) /\ Len(stream') = L + 4 + Len(m)
      /\ \A j \in 1 .. L : stream'[j] = stream[j]
      /\ \A j \in 1 .. 4 : stream'[L + j] = f[j]
      /\ \A j \in 1 .. Len(m) : stream'[L + 4 + j] = m[j]
  <2>1. /\ stream' \in Seq(Byte) /\ Len(stream') = Len(stream) + Len(f) + Len(m)
        /\ \A j \in 1 .. Len(stream) : stream'[j] = stream[j]
        /\ \A j \in 1 .. Len(f) : stream'[Len(stream) + j] = f[j]
        /\ \A j \in 1 .. Len(m) : stream'[Len(stream) + Len(f) + j] = m[j]
    <3> DEFINE u == (stream \o f) \o m
    <3>1. /\ u \in Seq(Byte) /\ Len(u) = Len(stream) + Len(f) + Len(m)
          /\ \A j \in 1 .. Len(stream) : u[j] = stream[j]
          /\ \A j \in 1 .. Len(f) : u[Len(stream) + j] = f[j]
          /\ \A j \in 1 .. Len(m) : u[Len(stream) + Len(f) + j] = m[j]
      <4>1. u = (stream \o f) \o m
        OBVIOUS
      <4> HIDE DEF u
      <4>2. stream \in Seq(Byte) /\ f \in Seq(Byte) /\ m \in Seq(Byte)
        BY <1>1, <1>2, <1>3
      <4> QED BY <4>1, <4>2, ThreeInARow
    <3>2. stream' = u
      BY <1>4
    <3> HIDE DEF u
    <3> QED BY <3>1, <3>2, Zenon
  <2>2. Len(f) = 4
    BY <1>2
  <2> QED BY <2>1, <2>2
<1>6. /\ sent' \in Seq(Messages) /\ Len(sent') = K + 1
      /\ \A i \in 1 .. K : sent'[i] = sent[i]
      /\ sent'[K + 1] = m
  BY <1>3, <1>4, AppendProperties
<1>7. /\ starts' \in Seq(Nat) /\ Len(starts') = K + 2
      /\ \A i \in 1 .. K + 1 : starts'[i] = starts[i]
      /\ starts'[K + 2] = L + 4 + Len(m)
  <2>1. L + 4 + Len(m) \in Nat
    BY <1>1, <1>3
  <2> QED BY <2>1, <1>3, <1>4, AppendProperties
<1> HIDE DEF L, K
<1>8. TypeOK'
  <2>1. flown' \in 0 .. Len(stream') /\ pos' \in 0 .. flown'
    BY <1>1, <1>3, <1>4, <1>5 DEF sockVars
  <2> QED BY <2>1, <1>4, <1>5, <1>6, <1>7 DEF TypeOK, sockVars
<1>9. \A i \in 1 .. K + 1 : starts[i] \in Nat /\ starts[i] <= L
  BY <1>3, ElementOfSeq DEF StreamInv, K, L
<1>10. StreamInv'
  <2>1. Len(starts') = Len(sent') + 1 /\ starts'[1] = 0
    <3>1. 1 \in 1 .. K + 1 /\ starts[1] = 0
      BY <1>3 DEF StreamInv
    <3>2. starts'[1] = 0
      BY <3>1, <1>7
    <3>3. K \in Nat /\ Len(sent') = K + 1 /\ Len(starts') = K + 2
      BY <1>3, <1>6, <1>7
    <3> QED BY <3>2, <3>3
  <2>2. starts'[Len(sent') + 1] = Len(stream')
    <3>1. K \in Nat /\ Len(sent') = K + 1
      BY <1>3, <1>6
    <3>2. Len(sent') + 1 = K + 2
      BY <3>1
    <3> QED BY <3>2, <1>5, <1>7
  <2>3. ASSUME NEW i \in 1 .. Len(sent') + 1, NEW j \in 1 .. Len(sent') + 1,
               i <= j
        PROVE  starts'[i] <= starts'[j]
    <3>0. i \in 1 .. K + 2 /\ j \in 1 .. K + 2
      BY <1>3, <1>6
    <3>1. CASE j \in 1 .. K + 1
      <4>1. i \in 1 .. K + 1
        BY <1>3, <2>3, <3>0, <3>1
      <4>2. starts[i] <= starts[j]
        BY <2>3, <3>1, <4>1 DEF StreamInv, K
      <4> QED BY <4>1, <4>2, <3>1, <1>7
    <3>2. CASE j = K + 2
      <4>1. starts'[j] = L + 4 + Len(m)
        BY <3>2, <1>7
      <4>2. CASE i = K + 2
        BY <4>1, <4>2, <3>2, <1>1, <1>3
      <4>3. CASE i \in 1 .. K + 1
        BY <4>1, <4>3, <1>1, <1>3, <1>7, <1>9
      <4> QED BY <4>2, <4>3, <3>0, <1>3
    <3> QED BY <3>0, <3>1, <3>2, <1>3
  <2>4. ASSUME NEW i \in 1 .. Len(sent')
        PROVE  /\ starts'[i + 1] = starts'[i] + 4 + Len(sent'[i])
               /\ \A j \in 1 .. 4 :
                    stream'[starts'[i] + j] = sc_msg_set_size(Len(sent'[i]))[j]
               /\ \A j \in 1 .. Len(sent'[i]) :
                    stream'[starts'[i] + 4 + j] = sent'[i][j]
    <3>1. CASE i \in 1 .. K
      <4>1. /\ sent'[i] = sent[i] /\ starts'[i] = starts[i]
            /\ starts'[i + 1] = starts[i + 1]
            /\ i + 1 \in 1 .. K + 1 /\ i \in 1 .. K + 1
        <5>1. i + 1 \in 1 .. K + 1 /\ i \in 1 .. K + 1
          BY <3>1, <1>3
        <5> QED BY <5>1, <3>1, <1>6, <1>7
      <4>2. /\ starts[i + 1] = starts[i] + 4 + Len(sent[i])
            /\ \A j \in 1 .. 4 :
                 stream[starts[i] + j] = sc_msg_set_size(Len(sent[i]))[j]
            /\ \A j \in 1 .. Len(sent[i]) :
                 stream[starts[i] + 4 + j] = sent[i][j]
        BY <3>1 DEF StreamInv, K, SC_MSG_SIZE_BYTES
      <4>3. Len(sent[i]) \in Nat
        BY <3>1, SentMessage DEF K
      <4>4. /\ starts[i] \in Nat /\ starts[i + 1] \in Nat
            /\ starts[i + 1] <= L
        BY <4>1, <1>9
      <4>e. starts[i + 1] = starts[i] + 4 + Len(sent[i]) /\ L \in Nat
        BY <4>2, <1>3
      <4>5. ASSUME NEW j \in 1 .. 4
            PROVE  stream'[starts[i] + j] = stream[starts[i] + j]
        <5>0. 4 \in Nat /\ L \in Nat /\ starts[i] + 4 <= L
          BY <4>e, <4>3, <4>4
        <5>1. starts[i] + j \in 1 .. L
          BY <5>0, <4>4, Within
        <5> QED BY <5>1, <1>5
      <4>6. ASSUME NEW j \in 1 .. Len(sent[i])
            PROVE  stream'[starts[i] + 4 + j] = stream[starts[i] + 4 + j]
        <5>0. /\ L \in Nat /\ starts[i] + 4 \in Nat
              /\ (starts[i] + 4) + Len(sent[i]) <= L
          BY <4>e, <4>3, <4>4
        <5>1. starts[i] + 4 + j \in 1 .. L
          BY <5>0, <4>3, Within
        <5> QED BY <5>1, <1>5
      <4> QED BY <4>1, <4>2, <4>5, <4>6
    <3>2. CASE i = K + 1
      <4>1. sent'[i] = m /\ starts'[i] = L /\ starts'[i + 1] = L + 4 + Len(m)
        <5>1. i + 1 = K + 2 /\ K + 1 \in 1 .. K + 1
          BY <3>2, <1>3
        <5> QED BY <5>1, <3>2, <1>3, <1>6, <1>7
      <4> QED BY <4>1, <1>5 DEF f
    <3> QED BY <3>1, <3>2, <1>3, <1>6
  <2> QED BY <2>1, <2>2, <2>3, <2>4 DEF StreamInv, SC_MSG_SIZE_BYTES
<1>11. ReaderInv'
  BY <1>4 DEF ReaderInv, sockVars
<1>12. ended = "no"
  BY <1>4 DEF EndInv
<1>13. EndInv'
  BY <1>4, <1>12 DEF EndInv, sockVars
<1>14. InAllocation'
  <2>1. SUFFICES ASSUME sync = "ok", \A i \in 1 .. Len(sent') :
                                         Len(sent'[i]) <= Suggested
                 PROVE  mem = "ok"
    BY <1>4 DEF InAllocation, sockVars
  <2>2. \A i \in 1 .. K : Len(sent[i]) <= Suggested
    BY <2>1, <1>3, <1>6
  <2> QED BY <2>1, <2>2 DEF InAllocation, K
<1>15. SyncInv'
  <2>1. SUFFICES ASSUME Framed
                 PROVE  /\ Len(delivered) <= Len(sent')
                        /\ \A i \in 1 .. Len(delivered) : delivered[i] = sent'[i]
                        /\ CursorInv'
    BY <1>4, <1>12 DEF SyncInv, Framed, sockVars
  <2> DEFINE D == Len(delivered)
  <2>2. D \in Nat
    BY LenProperties DEF TypeOK
  <2>3. /\ D <= K /\ \A i \in 1 .. D : delivered[i] = sent[i]
        /\ CursorInv
    BY <2>1, <1>12 DEF SyncInv, K
  <2> HIDE DEF D
  <2>4. D <= Len(sent')
    BY <1>3, <1>6, <2>2, <2>3
  <2>5. \A i \in 1 .. D : delivered[i] = sent'[i]
    BY <1>3, <1>6, <2>2, <2>3
  <2>6. base' = base /\ base \in Nat
    <3>1. D + 1 \in 1 .. K + 1
      BY <1>3, <2>2, <2>3
    <3>2. base' = starts'[D + 1] /\ base = starts[D + 1]
      BY <1>4 DEF base, sockVars, D
    <3> QED BY <3>1, <3>2, <1>7, <1>9
  <2>s. msg' = msg /\ reader' = reader /\ pos' = pos
    BY <1>4 DEF sockVars
  <2>7. ASSUME msg = "null" PROVE CursorInv'
    BY <2>3, <2>6, <2>7, <2>s DEF CursorInv
  <2>8. ASSUME msg = "alloc" PROVE CursorInv'
    <3>1. /\ reader.head_pos \in 0 .. 4 /\ reader.body_pos \in Nat
          /\ reader.head_pos < 4 => reader.body_pos = 0
      BY <2>8 DEF TypeOK, Reader, ReaderInv, UnderConstruction, SC_MSG_SIZE_BYTES
    <3>2. /\ pos = base + reader.head_pos + reader.body_pos
          /\ \A j \in 1 .. reader.head_pos : reader.size_be[j] = stream[base + j]
          /\ \A j \in 1 .. reader.body_pos :
               reader.data[j] = stream[base + 4 + j]
      BY <2>3, <2>8 DEF CursorInv, SC_MSG_SIZE_BYTES
    <3>3. ASSUME NEW j \in 1 .. reader.head_pos
          PROVE  stream'[base + j] = stream[base + j]
      <4>0. /\ reader.head_pos \in Nat /\ base \in Nat /\ L \in Nat
            /\ base + reader.head_pos <= L
        <5>1. pos \in Nat /\ pos <= L /\ L \in Nat
          BY <1>3
        <5> QED BY <5>1, <3>1, <3>2, <2>6
      <4>1. base + j \in 1 .. L
        BY <4>0, Within
      <4> QED BY <4>1, <1>5
    <3>4. ASSUME NEW j \in 1 .. reader.body_pos
          PROVE  stream'[base + 4 + j] = stream[base + 4 + j]
      <4>1. reader.head_pos = 4
        BY <3>1
      <4>2. base + 4 + j \in 1 .. L
        <5>1. pos = base + 4 + reader.body_pos /\ base \in Nat
          BY <4>1, <3>2, <2>6
        <5>2. pos \in Nat /\ pos <= L /\ L \in Nat
          BY <1>3
        <5> QED BY <5>1, <5>2, <3>1
      <4> QED BY <4>2, <1>5
    <3> QED BY <2>6, <2>8, <2>s, <3>2, <3>3, <3>4
            DEF CursorInv, SC_MSG_SIZE_BYTES
  <2>9. CursorInv'
    BY <2>7, <2>8 DEF TypeOK
  <2> QED BY <2>4, <2>5, <2>9 DEF D
<1> QED BY <1>8, <1>10, <1>11, <1>13, <1>14, <1>15

\* Transmit, write_wrap and PeerEnd move neither a frame nor a cursor.
LEMMA WireInv ==
  ASSUME IndInv,
         (\E n \in 1 .. Len(stream) : Transmit(n)) \/ write_wrap \/ PeerEnd
  PROVE  IndInv'
<1> USE DEF IndInv
<1>1. /\ UNCHANGED <<stream, sent, starts>>
      /\ UNCHANGED <<rx, msg, reader, pos, delivered, ended, conns, sync, mem>>
      /\ peer = "open"
  BY DEF Transmit, write_wrap, PeerEnd, sockVars
<1>2. Len(stream) \in Nat
  BY LenProperties DEF TypeOK
<1>3. /\ flown' \in 0 .. Len(stream) /\ pos \in 0 .. flown'
      /\ wreq' \in {"idle", "writing"} /\ peer' \in {"open", "closed", "reset"}
  <2>1. CASE \E n \in 1 .. Len(stream) : Transmit(n)
    BY <2>1, <1>2 DEF Transmit, TypeOK
  <2>2. CASE write_wrap
    BY <2>2 DEF write_wrap, TypeOK
  <2>3. CASE PeerEnd
    BY <2>3 DEF PeerEnd, TypeOK
  <2> QED BY <2>1, <2>2, <2>3
<1>4. TypeOK'
  BY <1>1, <1>3 DEF TypeOK
<1>5. StreamInv'
  BY <1>1 DEF StreamInv
<1>6. ReaderInv'
  BY <1>1 DEF ReaderInv
<1>7. SyncInv'
  BY <1>1 DEF SyncInv, CursorInv, base, Framed
<1>8. ended = "no"
  BY <1>1 DEF EndInv
<1>9. EndInv'
  BY <1>1, <1>8 DEF EndInv
<1>10. InAllocation'
  BY <1>1 DEF InAllocation
<1> QED BY <1>4, <1>5, <1>6, <1>7, <1>9, <1>10

\* buv_accept begins an empty stream; a message it inherits makes sync "stale".
LEMMA AcceptInv ==
  ASSUME IndInv, buv_accept
  PROVE  IndInv'
<1> USE DEF IndInv, buv_accept
<1>1. << >> \in Seq(Byte) /\ << >> \in Seq(Messages) /\ << >> \in Seq(Seq(Byte))
  BY EmptySeq
<1>2. TypeOK'
  <2>1. <<0>> \in Seq(Nat)
    OBVIOUS
  <2> QED BY <1>1, <2>1 DEF TypeOK
<1>3. StreamInv'
  BY DEF StreamInv
<1>4. ReaderInv'
  BY DEF ReaderInv
<1>5. EndInv' /\ InAllocation'
  BY DEF EndInv, InAllocation
<1>6. SyncInv'
  <2>1. SUFFICES ASSUME sync' = "ok" PROVE CursorInv'
    BY DEF SyncInv, Framed
  <2>2. base' = 0 /\ pos' = 0 /\ msg' = msg /\ reader' = reader
    BY DEF base
  <2>3. CASE msg = "null"
    BY <2>2, <2>3 DEF CursorInv
  <2>4. CASE msg = "alloc"
    <3>1. reader.head_pos \in 0 .. 4 /\ ~ (reader.head_pos > 0)
      BY <2>1, <2>4 DEF TypeOK, Reader, SC_MSG_SIZE_BYTES
    <3>2. reader.head_pos = 0 /\ reader.body_pos = 0
      BY <2>4, <3>1 DEF ReaderInv, UnderConstruction, SC_MSG_SIZE_BYTES
    <3> QED BY <2>2, <2>4, <3>2 DEF CursorInv
  <2> QED BY <2>3, <2>4 DEF TypeOK
<1> QED BY <1>2, <1>3, <1>4, <1>5, <1>6

\* buv_close leaves the reader and the stream as they are.
LEMMA CloseInv ==
  ASSUME IndInv, buv_close
  PROVE  IndInv'
<1> USE DEF IndInv
<1>1. /\ rx' = "closed"
      /\ UNCHANGED <<stream, sent, starts, flown, wreq, peer>>
      /\ UNCHANGED <<msg, reader, pos, delivered, ended, conns, sync, mem>>
  BY DEF buv_close, wireVars
<1>2. TypeOK'
  BY <1>1 DEF TypeOK
<1>3. StreamInv'
  BY <1>1 DEF StreamInv
<1>4. ReaderInv' /\ EndInv' /\ InAllocation'
  BY <1>1 DEF ReaderInv, EndInv, InAllocation, Framed
<1>5. SyncInv'
  BY <1>1 DEF SyncInv, CursorInv, base, Framed
<1> QED BY <1>2, <1>3, <1>4, <1>5

\* A read of nothing may only allocate the message under construction.
LEMMA ReadAgainInv ==
  ASSUME IndInv, read_again
  PROVE  IndInv'
<1> USE DEF IndInv
<1>1. /\ rx = "reading" /\ mem = "ok" /\ msg' = "alloc" /\ reader' = alloc_wrap
      /\ UNCHANGED <<stream, sent, starts, flown, wreq, peer>>
      /\ UNCHANGED <<rx, pos, delivered, ended, conns, sync, mem>>
  BY DEF read_again, wireVars
<1>2. /\ reader' \in Reader /\ UnderConstruction(reader')
      /\ sync = "ok" =>
              /\ pos = base + reader'.head_pos + reader'.body_pos
              /\ \A j \in 1 .. reader'.head_pos :
                   reader'.size_be[j] = stream[base + j]
              /\ \A j \in 1 .. reader'.body_pos :
                   reader'.data[j] = stream[base + SC_MSG_SIZE_BYTES + j]
  BY <1>1, AllocWrap
<1>3. TypeOK'
  BY <1>1, <1>2 DEF TypeOK
<1>4. StreamInv'
  BY <1>1 DEF StreamInv
<1>5. ReaderInv' /\ EndInv' /\ InAllocation'
  BY <1>1, <1>2 DEF ReaderInv, EndInv, InAllocation, Framed
<1>6. SyncInv'
  <2>1. SUFFICES ASSUME Framed
                 PROVE  /\ Len(delivered) <= Len(sent)
                        /\ \A i \in 1 .. Len(delivered) : delivered[i] = sent[i]
                        /\ CursorInv'
    BY <1>1 DEF SyncInv, Framed
  <2>2. base' = base
    BY <1>1 DEF base
  <2>3. CursorInv'
    BY <1>1, <1>2, <2>1, <2>2 DEF CursorInv, Framed
  <2> QED BY <2>1, <2>3 DEF SyncInv
<1> QED BY <1>3, <1>4, <1>5, <1>6

\* The end of the stream inside the frame of the next message.
LEMMA ReadEndInv ==
  ASSUME IndInv, NEW c \in BOOLEAN, read_end(c)
  PROVE  IndInv'
<1> USE DEF IndInv
<1>1. /\ rx = "reading" /\ mem = "ok" /\ msg' = "null"
      /\ \/ peer = "closed" /\ pos = flown /\ ended' = "eof"
         \/ peer = "reset" /\ ended' = "error"
      /\ rx' \in {"closed", "stopped"}
      /\ UNCHANGED <<stream, sent, starts, flown, wreq, peer>>
      /\ UNCHANGED <<reader, pos, delivered, conns, sync, mem>>
  BY DEF read_end, wireVars
<1>2. TypeOK'
  BY <1>1 DEF TypeOK
<1>3. StreamInv'
  BY <1>1 DEF StreamInv
<1>4. ReaderInv' /\ InAllocation'
  BY <1>1 DEF ReaderInv, InAllocation
<1>5. SyncInv'
  BY <1>1 DEF SyncInv, Framed
<1>6. ASSUME Framed, ended' = "eof", Len(delivered) < Len(sent)
      PROVE  flown < starts[Len(delivered) + 2]
  <2> DEFINE w == alloc_wrap
             D == Len(delivered)
  <2>1. /\ w \in Reader /\ UnderConstruction(w)
        /\ D \in Nat /\ base \in Nat
        /\ pos = base + w.head_pos + w.body_pos
        /\ \A j \in 1 .. w.head_pos : w.size_be[j] = stream[base + j]
    BY <1>1, <1>6, AllocWrap DEF Framed
  <2> HIDE DEF w, D
  <2>2. D + 1 \in 1 .. Len(sent)
    BY <1>6, <2>1, LenProperties DEF D, TypeOK
  <2>3. /\ base = starts[D + 1]
        /\ starts[(D + 1) + 1] = starts[D + 1] + 4 + Len(sent[D + 1])
    BY <2>2 DEF base, StreamInv, SC_MSG_SIZE_BYTES, D
  <2>4. (D + 1) + 1 = D + 2
    BY <2>1
  <2>5. starts[D + 2] = base + 4 + Len(sent[D + 1])
    BY <2>3, <2>4
  <2>6. Len(sent[D + 1]) \in Nat
    BY <2>2, SentMessage
  <2>7. flown = pos
    BY <1>1, <1>6
  <2>8. w.head_pos \in 0 .. 4 /\ w.head_pos \in Nat /\ w.body_pos \in Nat
    BY <2>1 DEF Reader, SC_MSG_SIZE_BYTES
  <2>9. CASE w.head_pos < 4
    <3>1. w.body_pos = 0
      BY <2>1, <2>9 DEF UnderConstruction, SC_MSG_SIZE_BYTES
    <3>2. pos = base + w.head_pos /\ base \in Nat
      BY <2>1, <2>8, <3>1
    <3>3. base + w.head_pos < base + 4 + Len(sent[D + 1])
      <4> DEFINE h == w.head_pos
                 k == Len(sent[D + 1])
                 b == base
      <4>1. h \in Nat /\ k \in Nat /\ b \in Nat /\ h < 4
        BY <2>6, <2>8, <2>9, <3>2
      <4> HIDE DEF h, k, b
      <4>2. b + h < b + 4 + k
        BY <4>1
      <4> QED BY <4>2 DEF h, k, b
    <3> QED BY <2>5, <2>7, <3>2, <3>3 DEF D
  <2>10. CASE w.head_pos = 4
    <3>1. w.body_pos < sc_msg_get_size(w.size_be)
      BY <2>1, <2>10 DEF UnderConstruction, SC_MSG_SIZE_BYTES
    <3>2. sc_msg_get_size(w.size_be) = Len(sent[D + 1])
      <4>1. w.size_be \in [1 .. SC_MSG_SIZE_BYTES -> Byte]
        BY <2>1 DEF Reader
      <4>2. \A j \in 1 .. SC_MSG_SIZE_BYTES :
              w.size_be[j] = stream[starts[D + 1] + j]
        BY <2>1, <2>3, <2>10 DEF SC_MSG_SIZE_BYTES
      <4> QED BY <4>1, <4>2, <2>2, FrameSize
    <3>3. w.body_pos < Len(sent[D + 1])
      BY <3>1, <3>2
    <3>4. pos = base + 4 + w.body_pos /\ base \in Nat
      BY <2>1, <2>10
    <3>5. base + 4 + w.body_pos < base + 4 + Len(sent[D + 1])
      <4> DEFINE d == w.body_pos
                 k == Len(sent[D + 1])
                 b == base
      <4>1. d \in Nat /\ k \in Nat /\ b \in Nat /\ d < k
        BY <2>6, <2>8, <3>3, <3>4
      <4> HIDE DEF d, k, b
      <4>2. b + 4 + d < b + 4 + k
        BY <4>1
      <4> QED BY <4>2 DEF d, k, b
    <3> QED BY <2>5, <2>7, <3>4, <3>5 DEF D
  <2> QED BY <2>8, <2>9, <2>10
<1>7. EndInv'
  BY <1>1, <1>6 DEF EndInv, Framed
<1> QED BY <1>2, <1>3, <1>4, <1>5, <1>7

\* The heart of the proof: a read moves the cursors along the frame of the
\* next message, and a message finished with its size complete is that frame.
LEMMA ReadDataInv ==
  ASSUME IndInv, NEW n \in 1 .. Len(stream), NEW c \in BOOLEAN, read_data(n, c)
  PROVE  IndInv'
<1> USE DEF IndInv
<1> DEFINE r == parse(alloc_wrap, SubSeq(stream, pos + 1, pos + n))
           D == Len(delivered)
           size == sc_msg_get_size(r.size_be)
<1>1. /\ rx = "reading" /\ mem = "ok"
      /\ n <= buffer_len(alloc_wrap) /\ pos + n <= flown
      /\ pos' = pos + n /\ reader' = r
      /\ mem' = (IF Len(r.data) > Suggested THEN "overrun" ELSE "ok")
      /\ \/ /\ msg_reader_finished(r)
            /\ delivered' = Append(delivered, payload(r))
            /\ msg' = "null" /\ rx' \in {"closed", "reading"}
            /\ sync' = (IF sync = "ok" /\ r.head_pos < SC_MSG_SIZE_BYTES
                          THEN "split" ELSE sync)
         \/ /\ ~ msg_reader_finished(r)
            /\ msg' = "alloc" /\ UNCHANGED <<delivered, rx, sync>>
      /\ UNCHANGED <<stream, sent, starts, flown, wreq, peer, ended, conns>>
  BY DEF read_data, wireVars
<1>2. /\ n \in Nat /\ n > 0 /\ pos \in Nat /\ flown \in Nat /\ D \in Nat
      /\ Len(sent) \in Nat /\ delivered \in Seq(Seq(Byte))
  BY LenProperties DEF TypeOK
<1>3. /\ r \in Reader
      /\ Len(r.data) = r.body_pos
      /\ r.head_pos < SC_MSG_SIZE_BYTES => r.body_pos = 0
      /\ r.body_pos <= size
      /\ sync = "ok" =>
           /\ D < Len(sent)
           /\ pos + n = base + r.head_pos + r.body_pos
           /\ \A j \in 1 .. r.head_pos : r.size_be[j] = stream[base + j]
           /\ \A j \in 1 .. r.body_pos :
                r.data[j] = stream[base + SC_MSG_SIZE_BYTES + j]
           /\ r.head_pos = SC_MSG_SIZE_BYTES => size = Len(sent[D + 1])
  BY <1>1, <1>2, ReadStep
<1> HIDE DEF r, D, size
<1>4. /\ r.body_pos \in Nat /\ r.head_pos \in Nat /\ r.head_pos \in 0 .. 4
      /\ r.data \in Seq(Byte) /\ size \in Nat
  BY <1>3, SizeRange DEF Reader, SC_MSG_SIZE_BYTES, size
<1>5. msg_reader_finished(r) <=> r.body_pos = size
  BY <1>3, Finished DEF size
<1>6. msg_reader_finished(r) => payload(r) = r.data
  <2>1. SUFFICES ASSUME msg_reader_finished(r) PROVE payload(r) = r.data
    OBVIOUS
  <2>2. size = Len(r.data)
    BY <1>3, <1>5, <2>1
  <2> QED BY <2>2, <1>4, SubSeqFull DEF payload, size
<1>7. msg_reader_finished(r) =>
        /\ delivered' \in Seq(Seq(Byte)) /\ Len(delivered') = D + 1
        /\ \A i \in 1 .. D : delivered'[i] = delivered[i]
        /\ delivered'[D + 1] = r.data
  <2>1. SUFFICES ASSUME msg_reader_finished(r)
                 PROVE  /\ delivered' \in Seq(Seq(Byte)) /\ Len(delivered') = D + 1
                        /\ \A i \in 1 .. D : delivered'[i] = delivered[i]
                        /\ delivered'[D + 1] = r.data
    OBVIOUS
  <2>2. delivered' = Append(delivered, r.data)
    BY <1>1, <1>6, <2>1
  <2> QED BY <2>2, <1>2, <1>4, AppendProperties DEF D
<1>8. TypeOK'
  <2>1. delivered' \in Seq(Seq(Byte))
    BY <1>1, <1>2, <1>7
  <2>2. pos' \in 0 .. flown' /\ flown' \in 0 .. Len(stream')
    BY <1>1, <1>2 DEF TypeOK
  <2>3. /\ rx' \in {"closed", "reading", "stopped"} /\ msg' \in {"null", "alloc"}
        /\ sync' \in {"ok", "split", "stale"} /\ mem' \in {"ok", "overrun"}
    BY <1>1 DEF TypeOK
  <2> QED BY <2>1, <2>2, <2>3, <1>1, <1>3 DEF TypeOK
<1>9. StreamInv'
  BY <1>1 DEF StreamInv
<1>10. ReaderInv'
  <2>1. SUFFICES ASSUME msg' = "alloc" PROVE UnderConstruction(r)
    BY <1>1 DEF ReaderInv
  <2>2. r.body_pos < size
    BY <2>1, <1>1, <1>3, <1>4, <1>5
  <2> QED BY <2>2, <1>3 DEF UnderConstruction, size
<1>11. ended = "no" /\ ended' = "no"
  BY <1>1 DEF EndInv, TypeOK
<1>12. EndInv'
  BY <1>11 DEF EndInv
<1>13. sync' = "ok" => sync = "ok"
  BY <1>1
<1>14. InAllocation'
  <2>1. SUFFICES ASSUME sync = "ok",
                        \A i \in 1 .. Len(sent) : Len(sent[i]) <= Suggested
                 PROVE  ~ (Len(r.data) > Suggested)
    BY <1>1, <1>13 DEF InAllocation
  <2>2. D + 1 \in 1 .. Len(sent)
    BY <1>2, <1>3, <2>1
  <2>3. Len(sent[D + 1]) \in Nat /\ Len(sent[D + 1]) <= Suggested
    BY <2>1, <2>2, SentMessage
  <2>4. CASE r.head_pos = SC_MSG_SIZE_BYTES
    <3>1. size = Len(sent[D + 1])
      BY <1>3, <2>1, <2>4
    <3>2. size <= Suggested /\ r.body_pos <= size /\ Len(r.data) = r.body_pos
      BY <3>1, <2>3, <1>3
    <3> QED BY <3>2, <1>4, SuggestedAssumption
  <2>5. CASE r.head_pos < SC_MSG_SIZE_BYTES
    BY <2>5, <1>3, SuggestedAssumption
  <2> QED BY <2>4, <2>5, <1>4 DEF SC_MSG_SIZE_BYTES
<1>15. SyncInv'
  <2>1. SUFFICES ASSUME sync = "ok", sync' = "ok"
                 PROVE  /\ Len(delivered') <= Len(sent)
                        /\ \A i \in 1 .. Len(delivered') : delivered'[i] = sent[i]
                        /\ CursorInv'
    BY <1>1, <1>13 DEF SyncInv, Framed
  <2>2. D < Len(sent) /\ D + 1 \in 1 .. Len(sent)
    BY <1>2, <1>3, <2>1
  <2>3. \A i \in 1 .. D : delivered[i] = sent[i]
    BY <1>1, <2>1 DEF SyncInv, Framed, D
  <2>4. CASE ~ msg_reader_finished(r)
    <3>1. /\ delivered' = delivered /\ msg' = "alloc" /\ reader' = r
          /\ pos' = pos + n /\ stream' = stream /\ starts' = starts
      BY <1>1, <2>4
    <3>2. base' = base
      BY <3>1 DEF base
    <3>3. CursorInv'
      BY <3>1, <3>2, <1>3, <2>1 DEF CursorInv
    <3>4. Len(delivered) <= Len(sent)
      BY <1>2, <2>2 DEF D
    <3> QED BY <3>1, <3>3, <3>4, <2>3 DEF D
  <2>5. CASE msg_reader_finished(r)
    <3>1. r.head_pos = 4
      BY <1>1, <1>4, <2>1, <2>5 DEF SC_MSG_SIZE_BYTES
    <3>2. /\ size = Len(sent[D + 1]) /\ r.body_pos = size
          /\ Len(r.data) = Len(sent[D + 1])
          /\ pos + n = base + r.head_pos + r.body_pos
      BY <1>3, <1>5, <2>1, <2>5, <3>1 DEF SC_MSG_SIZE_BYTES
    <3>3. sent[D + 1] \in Seq(Byte) /\ Len(sent[D + 1]) \in Nat
      BY <2>2, SentMessage
    <3>4. /\ starts[(D + 1) + 1] = starts[D + 1] + 4 + Len(sent[D + 1])
          /\ base = starts[D + 1]
          /\ \A j \in 1 .. Len(sent[D + 1]) :
               stream[base + 4 + j] = sent[D + 1][j]
      BY <2>2 DEF StreamInv, base, SC_MSG_SIZE_BYTES, D
    <3>5. r.data = sent[D + 1]
      <4>1. \A j \in 1 .. Len(r.data) : r.data[j] = sent[D + 1][j]
        BY <1>3, <2>1, <3>2, <3>4 DEF SC_MSG_SIZE_BYTES
      <4> QED BY <4>1, <3>2, <3>3, <1>4, SeqEqual
    <3>6. Len(delivered') = D + 1
      BY <1>7, <2>5
    <3>7. Len(delivered') <= Len(sent)
      BY <1>2, <2>2, <3>6
    <3>8. ASSUME NEW i \in 1 .. Len(delivered')
          PROVE  delivered'[i] = sent[i]
      <4>1. i \in 1 .. D \/ i = D + 1
        BY <1>2, <3>6
      <4>2. CASE i \in 1 .. D
        BY <4>2, <1>7, <2>3, <2>5
      <4>3. CASE i = D + 1
        BY <4>3, <1>7, <2>5, <3>5
      <4> QED BY <4>1, <4>2, <4>3
    <3>9. base' = starts[(D + 1) + 1]
      BY <1>1, <3>6 DEF base
    <3>10. pos' = base'
      <4>1. pos' = base + r.head_pos + r.body_pos
        BY <1>1, <3>2
      <4>2. base' = base + 4 + Len(sent[D + 1])
        BY <3>4, <3>9
      <4>3. r.head_pos = 4 /\ r.body_pos = Len(sent[D + 1])
        BY <3>1, <3>2
      <4> QED BY <4>1, <4>2, <4>3
    <3>11. CursorInv'
      <4>1. msg' = "null"
        BY <1>1, <2>5
      <4> QED BY <4>1, <3>10 DEF CursorInv
    <3> QED BY <3>7, <3>8, <3>11
  <2> QED BY <2>4, <2>5
<1> QED BY <1>8, <1>9, <1>10, <1>12, <1>14, <1>15

\* IndInv holds in every state the code can reach: the invariant all the
\* theorems below rest on.
THEOREM Invariance == Spec => []IndInv
<1>1. Init => IndInv
  BY InitInv
<1>2. IndInv /\ [Next]_vars => IndInv'
  <2> SUFFICES ASSUME IndInv, [Next]_vars PROVE IndInv'
    OBVIOUS
  <2>1. CASE \E m \in Messages : buv_send(m)
    BY <2>1, SendInv
  <2>2. CASE (\E n \in 1 .. Len(stream) : Transmit(n)) \/ write_wrap \/ PeerEnd
    BY <2>2, WireInv
  <2>3. CASE buv_accept
    BY <2>3, AcceptInv
  <2>4. CASE \E n \in 1 .. Len(stream), c \in BOOLEAN : read_data(n, c)
    BY <2>4, ReadDataInv
  <2>5. CASE read_again
    BY <2>5, ReadAgainInv
  <2>6. CASE \E c \in BOOLEAN : read_end(c)
    BY <2>6, ReadEndInv
  <2>7. CASE buv_close
    BY <2>7, CloseInv
  <2>8. CASE UNCHANGED vars
    <3> USE <2>8 DEF vars
    <3>1. TypeOK' /\ ReaderInv' /\ EndInv' /\ InAllocation'
      BY DEF IndInv, TypeOK, ReaderInv, EndInv, InAllocation, Framed
    <3>2. StreamInv'
      BY DEF IndInv, StreamInv
    <3>3. SyncInv'
      BY DEF IndInv, SyncInv, CursorInv, base, Framed
    <3> QED BY <3>1, <3>2, <3>3 DEF IndInv
  <2> QED BY <2>1, <2>2, <2>3, <2>4, <2>5, <2>6, <2>7, <2>8 DEF Next
<1> QED BY <1>1, <1>2, PTL DEF Spec

-----------------------------------------------------------------------------
(* The theorems.                                                           *)

\* The variables keep their types: no cursor of alloc_wrap and read_wrap
\* leaves its buffer's index range.
THEOREM TypeCorrect == Spec => []TypeOK
<1>1. IndInv => TypeOK
  BY DEF IndInv
<1> QED BY <1>1, Invariance, PTL

\* read_wrap delivers a prefix of the messages sent, however the stream is
\* cut, until a size field is split after leading zeros or a half-read
\* message is inherited.
THEOREM DeliversInOrder == Spec => []InOrderWhileFramed
<1>1. IndInv => InOrderWhileFramed
  <2> SUFFICES ASSUME IndInv, Framed PROVE IsPrefix(delivered, sent)
    BY DEF InOrderWhileFramed, InOrder
  <2>1. /\ Len(delivered) <= Len(sent) /\ Len(delivered) \in Nat
        /\ Len(sent) \in Nat
        /\ \A i \in 1 .. Len(delivered) : delivered[i] = sent[i]
    BY LenProperties DEF IndInv, SyncInv, TypeOK
  <2>2. SubSeq(delivered, 1, Len(delivered)) = SubSeq(sent, 1, Len(delivered))
    BY <2>1
  <2> QED BY <2>1, <2>2 DEF IsPrefix
<1> QED BY <1>1, Invariance, PTL

\* alloc_wrap never offers libuv an empty window, even after framing is lost.
THEOREM OffersAWindow == Spec => []WindowNotEmpty
<1>1. IndInv => WindowNotEmpty
  <2> SUFFICES ASSUME IndInv, rx = "reading", mem = "ok"
               PROVE  buffer_len(alloc_wrap) > 0
    BY DEF WindowNotEmpty
  <2>1. alloc_wrap \in Reader /\ UnderConstruction(alloc_wrap)
    BY AllocWrap
  <2> QED BY <2>1, Window
<1> QED BY <1>1, Invariance, PTL

\* The data of a message stays inside the allocation of alloc_wrap as long as
\* no peer announces more than the suggested size.
THEOREM StaysInAllocation == Spec => []InAllocation
<1>1. IndInv => InAllocation
  BY DEF IndInv
<1> QED BY <1>1, Invariance, PTL

\* At a clean end the invariant leaves no message that arrived whole undelivered.
LEMMA EofComplete == IndInv => CompleteAtEof
<1> SUFFICES ASSUME IndInv, Framed, ended = "eof",
                    NEW i \in 1 .. Len(sent), starts[i + 1] <= flown,
                    ~ (i <= Len(delivered))
             PROVE  FALSE
  BY DEF CompleteAtEof
<1> DEFINE D == Len(delivered)
<1>1. D \in Nat /\ Len(sent) \in Nat /\ flown \in Nat
  BY LenProperties DEF IndInv, TypeOK
<1>2. /\ D + 2 \in 1 .. Len(sent) + 1 /\ i + 1 \in 1 .. Len(sent) + 1
      /\ D + 2 <= i + 1 /\ D < Len(sent)
  BY <1>1
<1>3. flown < starts[D + 2]
  BY <1>2 DEF IndInv, EndInv
<1>4. starts[D + 2] <= starts[i + 1]
  BY <1>2 DEF IndInv, StreamInv
<1>5. starts[D + 2] \in Nat /\ starts[i + 1] \in Nat
  BY <1>2, ElementOfSeq DEF IndInv, TypeOK, StreamInv
<1> QED BY <1>1, <1>3, <1>4, <1>5

\* At a clean end of the stream no message that arrived whole is missing.
THEOREM CompletesAtEof == Spec => []CompleteAtEof
BY EofComplete, Invariance, PTL

-----------------------------------------------------------------------------
(* What libuv delivers byte by byte and what alloc_wrap and read_wrap make *)
(* of it is a channel of whole messages, as long as the message boundaries *)
(* are not lost.  The invariant does the work: where the next message      *)
(* begins, and which bytes of it are in.                                   *)

\* Where the messages sent begin, and which of them have arrived.
LEMMA StartsNat ==
  ASSUME IndInv
  PROVE  /\ Len(sent) \in Nat /\ Len(delivered) \in Nat /\ flown \in Nat
         /\ \A i \in 1 .. Len(sent) + 1 : starts[i] \in Nat
<1>1. starts \in Seq(Nat) /\ Len(starts) = Len(sent) + 1
  BY DEF IndInv, TypeOK, StreamInv
<1>2. Len(sent) \in Nat /\ Len(delivered) \in Nat /\ flown \in Nat
  BY LenProperties DEF IndInv, TypeOK
<1> QED BY <1>1, <1>2, ElementOfSeq

\* buv_send: the new message has not arrived, as no byte of it has left.
LEMMA SendRefines ==
  ASSUME IndInv, IndInv', NEW m \in Messages, buv_send(m)
  PROVE  Channel!Send(m)
<1> DEFINE K == Len(sent)
<1>1. /\ peer = "open" /\ sent' = Append(sent, m)
      /\ starts' = Append(starts, Len(stream) + SC_MSG_SIZE_BYTES + Len(m))
      /\ UNCHANGED <<flown, delivered, peer, rx, ended>>
  BY DEF buv_send, sockVars
<1>2. K \in Nat /\ flown \in Nat /\ Len(stream) \in Nat /\ flown <= Len(stream)
      /\ Len(m) \in Nat
  BY StartsNat, LenProperties, MessagesAssumption DEF IndInv, TypeOK
<1>3. /\ Len(sent') = K + 1 /\ starts \in Seq(Nat) /\ Len(starts) = K + 1
  BY <1>1, LenProperties DEF IndInv, TypeOK, StreamInv
<1>4. /\ \A i \in 1 .. K : starts'[i + 1] = starts[i + 1]
      /\ starts'[K + 2] = Len(stream) + 4 + Len(m)
  BY <1>1, <1>2, <1>3 DEF SC_MSG_SIZE_BYTES
<1>5. Arrived' = Arrived
  <2>1. ASSUME NEW i \in 1 .. K + 1
        PROVE  starts'[i + 1] <= flown <=> i \in 1 .. K /\ starts[i + 1] <= flown
    BY <1>2, <1>4
  <2> QED BY <1>1, <1>2, <1>3, <2>1 DEF Arrived
<1> QED BY <1>1, <1>5 DEF Channel!Send

\* Bytes that leave the peer let messages arrive, in order.
LEMMA TransmitRefines ==
  ASSUME IndInv, NEW n \in 1 .. Len(stream), Transmit(n)
  PROVE  Channel!Arrive
<1>1. /\ peer = "open" /\ flown' = flown + n /\ n \in Nat
      /\ UNCHANGED <<sent, starts, delivered, peer, rx, ended>>
  BY DEF Transmit, sockVars
<1>2. /\ Len(sent) \in Nat /\ flown \in Nat
      /\ \A i \in 1 .. Len(sent) + 1 : starts[i] \in Nat
      /\ \A i, j \in 1 .. Len(sent) + 1 : i <= j => starts[i] <= starts[j]
  BY StartsNat DEF IndInv, StreamInv
<1>3. Arrived' = {i \in 1 .. Len(sent) : starts[i + 1] <= flown + n}
  BY <1>1 DEF Arrived
<1>4. Arrived' \subseteq 1 .. Len(sent)
  BY <1>3
<1>5. Arrived \subseteq Arrived'
  BY <1>1, <1>2, <1>3 DEF Arrived
<1>6. ASSUME NEW i \in Arrived', NEW j \in 1 .. i PROVE j \in Arrived'
  <2>1. i \in 1 .. Len(sent) /\ starts[i + 1] <= flown + n
    BY <1>3
  <2>2. j \in 1 .. Len(sent) /\ starts[j + 1] <= starts[i + 1]
    BY <1>2, <2>1
  <2> QED BY <1>1, <1>2, <1>3, <2>1, <2>2
<1> QED BY <1>1, <1>4, <1>5, <1>6 DEF Channel!Arrive

\* A finished message is the next one sent, and it has arrived: the invariant
\* after the step says where read_wrap stands in the stream.
LEMMA DeliverRefines ==
  ASSUME IndInv, IndInv', Framed', NEW n \in 1 .. Len(stream), NEW c \in BOOLEAN,
         read_data(n, c)
  PROVE  Channel!Deliver \/ UNCHANGED Channel!vars
<1> DEFINE r == parse(alloc_wrap, SubSeq(stream, pos + 1, pos + n))
           D == Len(delivered)
<1>1. /\ rx = "reading" /\ UNCHANGED <<sent, starts, flown, peer, ended>>
      /\ \/ delivered' = Append(delivered, payload(r)) /\ msg' = "null"
            /\ rx' \in {"closed", "reading"}
         \/ UNCHANGED <<delivered, rx>>
  BY DEF read_data, wireVars
<1> HIDE DEF r
<1>2. Arrived' = Arrived
  BY <1>1 DEF Arrived
<1>3. CASE UNCHANGED <<delivered, rx>>
  BY <1>1, <1>2, <1>3 DEF Channel!vars
<1>4. CASE delivered' = Append(delivered, payload(r)) /\ msg' = "null"
           /\ rx' \in {"closed", "reading"}
  <2>1. ended' = "no"
    BY <1>1 DEF IndInv, TypeOK, EndInv
  <2>2. /\ Len(delivered') <= Len(sent') /\ CursorInv'
        /\ \A i \in 1 .. Len(delivered') : delivered'[i] = sent'[i]
    BY <2>1 DEF IndInv, SyncInv
  <2>3. D \in Nat /\ Len(sent) \in Nat /\ delivered \in Seq(Seq(Byte))
    BY StartsNat DEF IndInv, TypeOK
  <2>4. Len(delivered') = D + 1 /\ delivered'[D + 1] = payload(r)
    BY <1>4, <2>3
  <2>5. D + 1 \in 1 .. Len(sent) /\ payload(r) = sent[D + 1]
    BY <1>1, <2>2, <2>3, <2>4
  <2>6. pos' = starts[(D + 1) + 1]
    <3>1. pos' = starts'[Len(delivered') + 1]
      BY <1>4, <2>2 DEF CursorInv, base
    <3> QED BY <1>1, <2>4, <3>1
  <2>7. pos' <= flown
    <3>1. pos' \in 0 .. flown' /\ flown' = flown /\ flown \in Nat
      BY <1>1, StartsNat DEF IndInv, TypeOK
    <3> QED BY <3>1
  <2>8. D + 1 \in Arrived
    BY <2>3, <2>5, <2>6, <2>7 DEF Arrived
  <2> QED BY <1>1, <1>2, <1>4, <2>5, <2>8 DEF Channel!Deliver
<1> QED BY <1>1, <1>3, <1>4

\* At a clean end everything that arrived had been delivered.
LEMMA EndRefines ==
  ASSUME IndInv, IndInv', Framed', NEW c \in BOOLEAN, read_end(c)
  PROVE  Channel!End
<1>1. /\ rx = "reading" /\ rx' \in {"stopped", "closed"}
      /\ UNCHANGED <<sent, starts, flown, peer, delivered>>
      /\ \/ peer = "closed" /\ ended' = "eof"
         \/ peer = "reset" /\ ended' = "error"
  BY DEF read_end, wireVars
<1>2. Arrived' = Arrived
  BY <1>1 DEF Arrived
<1>3. ended' = "eof" => \A i \in Arrived : i <= Len(delivered)
  <2>1. CompleteAtEof'
    BY EofComplete, PTL
  <2> QED BY <1>1, <2>1 DEF CompleteAtEof, Arrived
<1> QED BY <1>1, <1>2, <1>3 DEF Channel!End

\* The other steps: a new connection has nothing sent, and what happens to the
\* requests of the peer or to an empty read is not seen.
LEMMA OthersRefine ==
  ASSUME IndInv, write_wrap \/ PeerEnd \/ buv_accept \/ read_again \/ buv_close
  PROVE  Channel!Next \/ UNCHANGED Channel!vars
<1>1. CASE write_wrap
  BY <1>1 DEF write_wrap, sockVars, Arrived, Channel!vars
<1>2. CASE PeerEnd
  BY <1>2 DEF PeerEnd, sockVars, Arrived, Channel!Next, Channel!PeerEnd
<1>3. CASE buv_accept
  <2>1. Arrived' = {}
    BY <1>3 DEF buv_accept, Arrived
  <2> QED BY <1>3, <2>1 DEF buv_accept, Channel!Next, Channel!Connect
<1>4. CASE read_again
  BY <1>4 DEF read_again, wireVars, Arrived, Channel!vars
<1>5. CASE buv_close
  BY <1>5 DEF buv_close, wireVars, Arrived, Channel!Next, Channel!Close
<1> QED BY <1>1, <1>2, <1>3, <1>4, <1>5

\* buv_send, alloc_wrap and read_wrap implement a channel of whole messages.
THEOREM StreamImplementsChannel == Spec => ImplementsChannel
<1>1. Init => Channel!Init
  BY DEF Init, Channel!Init, Arrived
<1>2. IndInv /\ IndInv' /\ [Next]_vars
        => [Framed' => Channel!Next \/ UNCHANGED Channel!vars]_vars
  <2> SUFFICES ASSUME IndInv, IndInv', Next, Framed'
               PROVE  Channel!Next \/ UNCHANGED Channel!vars
    OBVIOUS
  <2>1. CASE \E m \in Messages : buv_send(m)
    BY <2>1, SendRefines DEF Channel!Next
  <2>2. CASE \E n \in 1 .. Len(stream) : Transmit(n)
    BY <2>2, TransmitRefines DEF Channel!Next
  <2>3. CASE \E n \in 1 .. Len(stream), c \in BOOLEAN : read_data(n, c)
    BY <2>3, DeliverRefines DEF Channel!Next
  <2>4. CASE \E c \in BOOLEAN : read_end(c)
    BY <2>4, EndRefines DEF Channel!Next
  <2> QED BY <2>1, <2>2, <2>3, <2>4, OthersRefine DEF Next
<1> QED BY <1>1, <1>2, Invariance, PTL DEF Spec, ImplementsChannel
=============================================================================
