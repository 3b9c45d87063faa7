--------------------------- MODULE TcpStream_proofs ---------------------------
(***************************************************************************)
(* The packets handled on a connection are the packets sent, for every     *)
(* capacity, header size and packet set that the assumptions allow.        *)
(*                                                                         *)
(* The argument is that of IInv: until a push is refused, the buffer holds *)
(* exactly what has arrived behind the last packet handled, so its head is *)
(* the head of the next packet sent; and a push is refused only when that  *)
(* packet is malformed.                                                    *)
(***************************************************************************)
EXTENDS TcpStream, RingBuffer_proofs, SequenceTheorems

-----------------------------------------------------------------------------
(* Subsequences given by the offsets of their ends. *)

\* The elements of a subsequence.
LEMMA SubSeqAt ==
  ASSUME NEW S, NEW s \in Seq(S), NEW a \in Nat, NEW b \in Nat,
         a <= b, b <= Len(s)
  PROVE  /\ SubSeq(s, a + 1, b) \in Seq(S)
         /\ Len(SubSeq(s, a + 1, b)) = b - a
         /\ \A i \in 1 .. b - a : SubSeq(s, a + 1, b)[i] = s[a + i]
<1>1. Len(s) \in Nat /\ a + 1 \in Int /\ b \in Int
  BY LenProperties
<1>2. \A i \in a + 1 .. b : s[i] \in S
  BY <1>1, ElementOfSeq
<1>3. /\ SubSeq(s, a + 1, b) \in Seq(S)
      /\ Len(SubSeq(s, a + 1, b)) = IF a + 1 <= b THEN b - (a + 1) + 1 ELSE 0
      /\ \A i \in 1 .. b - (a + 1) + 1 : SubSeq(s, a + 1, b)[i] = s[(a + 1) + i - 1]
  BY <1>1, <1>2, SubSeqProperties
<1>4. b - (a + 1) + 1 = b - a
  BY <1>1
<1>5. Len(SubSeq(s, a + 1, b)) = b - a
  BY <1>3, <1>4
<1>6. ASSUME NEW i \in 1 .. b - a PROVE SubSeq(s, a + 1, b)[i] = s[a + i]
  <2>1. i \in 1 .. b - (a + 1) + 1 /\ (a + 1) + i - 1 = a + i
    BY <1>4
  <2> QED BY <1>3, <2>1
<1> QED BY <1>3, <1>5, <1>6

\* A subsequence is not changed by what is appended behind it.
LEMMA SubSeqOfPrefix ==
  ASSUME NEW S, NEW s \in Seq(S), NEW t \in Seq(S), NEW a \in Nat, NEW b \in Nat,
         a <= b, b <= Len(s)
  PROVE  SubSeq(s \o t, a + 1, b) = SubSeq(s, a + 1, b)
<1>1. Len(s) \in Nat /\ Len(t) \in Nat
  BY LenProperties
<1>2. /\ s \o t \in Seq(S) /\ Len(s \o t) = Len(s) + Len(t)
      /\ \A i \in 1 .. Len(s) + Len(t) :
           (s \o t)[i] = IF i <= Len(s) THEN s[i] ELSE t[i - Len(s)]
  BY ConcatProperties
<1>3. b <= Len(s \o t)
  BY <1>1, <1>2
<1>4. /\ SubSeq(s \o t, a + 1, b) \in Seq(S)
      /\ Len(SubSeq(s \o t, a + 1, b)) = b - a
      /\ \A i \in 1 .. b - a : SubSeq(s \o t, a + 1, b)[i] = (s \o t)[a + i]
  <2> DEFINE w == s \o t
  <2>1. w \in Seq(S) /\ b <= Len(w)
    BY <1>2, <1>3
  <2> HIDE DEF w
  <2>2. /\ SubSeq(w, a + 1, b) \in Seq(S)
        /\ Len(SubSeq(w, a + 1, b)) = b - a
        /\ \A i \in 1 .. b - a : SubSeq(w, a + 1, b)[i] = w[a + i]
    BY <2>1, SubSeqAt
  <2> QED BY <2>2 DEF w
<1>5. /\ SubSeq(s, a + 1, b) \in Seq(S)
      /\ Len(SubSeq(s, a + 1, b)) = b - a
      /\ \A i \in 1 .. b - a : SubSeq(s, a + 1, b)[i] = s[a + i]
  BY SubSeqAt
<1>6. ASSUME NEW i \in 1 .. b - a PROVE (s \o t)[a + i] = s[a + i]
  <2>1. a + i \in 1 .. Len(s) + Len(t) /\ a + i <= Len(s)
    BY <1>1
  <2> QED BY <1>2, <2>1
<1> QED BY <1>4, <1>5, <1>6, SeqEqual

\* Behind s, s \o t reads t.
LEMMA SubSeqOfSuffix ==
  ASSUME NEW S, NEW s \in Seq(S), NEW t \in Seq(S)
  PROVE  SubSeq(s \o t, Len(s) + 1, Len(s) + Len(t)) = t
<1>1. Len(s) \in Nat /\ Len(t) \in Nat /\ Len(s) + Len(t) \in Nat
  BY LenProperties
<1>2. /\ s \o t \in Seq(S) /\ Len(s \o t) = Len(s) + Len(t)
      /\ \A i \in 1 .. Len(s) + Len(t) :
           (s \o t)[i] = IF i <= Len(s) THEN s[i] ELSE t[i - Len(s)]
  BY ConcatProperties
<1> DEFINE u == SubSeq(s \o t, Len(s) + 1, Len(s) + Len(t))
<1>3. /\ u \in Seq(S)
      /\ Len(u) = (Len(s) + Len(t)) - Len(s)
      /\ \A i \in 1 .. (Len(s) + Len(t)) - Len(s) : u[i] = (s \o t)[Len(s) + i]
  <2>1. Len(s) <= Len(s) + Len(t) /\ Len(s) + Len(t) <= Len(s \o t)
    BY <1>1, <1>2
  <2> QED BY <1>1, <1>2, <2>1, SubSeqAt
<1>4. (Len(s) + Len(t)) - Len(s) = Len(t)
  BY <1>1
<1>5. ASSUME NEW i \in 1 .. Len(t) PROVE (s \o t)[Len(s) + i] = t[i]
  <2>1. /\ Len(s) + i \in 1 .. Len(s) + Len(t) /\ ~(Len(s) + i <= Len(s))
        /\ (Len(s) + i) - Len(s) = i
    BY <1>1
  <2> QED BY <1>2, <2>1
<1> QED BY <1>3, <1>4, <1>5, SeqEqual

\* Dropping the first n elements of a subsequence moves its first offset by n.
LEMMA SubSeqDrop ==
  ASSUME NEW S, NEW s \in Seq(S), NEW a \in Nat, NEW b \in Nat, NEW n \in Nat,
         a + n <= b, b <= Len(s)
  PROVE  SubSeq(SubSeq(s, a + 1, b), n + 1, Len(SubSeq(s, a + 1, b)))
           = SubSeq(s, (a + n) + 1, b)
<1> DEFINE c == SubSeq(s, a + 1, b)
<1>1. /\ c \in Seq(S) /\ Len(c) = b - a
      /\ \A i \in 1 .. b - a : c[i] = s[a + i]
  <2>1. a <= b
    OBVIOUS
  <2> QED BY <2>1, SubSeqAt
<1> HIDE DEF c
<1>2. /\ SubSeq(c, n + 1, b - a) \in Seq(S)
      /\ Len(SubSeq(c, n + 1, b - a)) = (b - a) - n
      /\ \A i \in 1 .. (b - a) - n : SubSeq(c, n + 1, b - a)[i] = c[n + i]
  <2>1. b - a \in Nat /\ n <= b - a /\ b - a <= Len(c)
    BY <1>1
  <2> QED BY <1>1, <2>1, SubSeqAt
<1>3. /\ SubSeq(s, (a + n) + 1, b) \in Seq(S)
      /\ Len(SubSeq(s, (a + n) + 1, b)) = b - (a + n)
      /\ \A i \in 1 .. b - (a + n) : SubSeq(s, (a + n) + 1, b)[i] = s[(a + n) + i]
  <2>1. a + n \in Nat
    OBVIOUS
  <2> QED BY <2>1, SubSeqAt
<1>4. (b - a) - n = b - (a + n)
  OBVIOUS
<1>5. ASSUME NEW i \in 1 .. b - (a + n) PROVE c[n + i] = s[(a + n) + i]
  <2>1. n + i \in 1 .. b - a /\ a + (n + i) = (a + n) + i
    OBVIOUS
  <2> QED BY <1>1, <2>1
<1>6. SubSeq(c, n + 1, b - a) = SubSeq(s, (a + n) + 1, b)
  <2> DEFINE u == SubSeq(c, n + 1, b - a)
             v == SubSeq(s, (a + n) + 1, b)
  <2>1. u \in Seq(S) /\ v \in Seq(S) /\ Len(u) = Len(v) /\ Len(u) = b - (a + n)
    BY <1>2, <1>3, <1>4
  <2>2. \A i \in 1 .. b - (a + n) : u[i] = v[i]
    BY <1>2, <1>3, <1>4, <1>5
  <2> HIDE DEF u, v
  <2>3. u = v
    BY <2>1, <2>2, SeqEqual
  <2> QED BY <2>3 DEF u, v
<1> QED BY <1>1, <1>6 DEF c

\* Two subsequences that meet at an offset make one.
LEMMA SubSeqJoin ==
  ASSUME NEW S, NEW s \in Seq(S), NEW a \in Nat, NEW b \in Nat, NEW c \in Nat,
         a <= b, b <= c, c <= Len(s)
  PROVE  SubSeq(s, a + 1, b) \o SubSeq(s, b + 1, c) = SubSeq(s, a + 1, c)
<1>1. Len(s) \in Nat
  BY LenProperties
<1>2. /\ a + 1 \in 1 .. Len(s) + 1 /\ b \in (a + 1) - 1 .. Len(s) /\ c \in b .. Len(s)
  BY <1>1
<1> QED BY <1>2, ConcatAdjacentSubSeq

-----------------------------------------------------------------------------
(* The operators of TcpStream. *)

\* What the assumptions on the packets say of a single one.
LEMMA PacketProperties ==
  ASSUME NEW p \in Packets
  PROVE  /\ p \in Seq(Byte) /\ Len(p) \in Nat /\ HeaderSize <= Len(p) /\ 1 <= Len(p)
         /\ p[1] \in Nat
         /\ p \in GoodPackets => p[1] = Len(p)
         /\ p \in MalformedPackets => p[1] < HeaderSize
<1>1. p \in Seq(Byte) /\ HeaderSize <= Len(p)
  BY PacketAssumption DEF Packets
<1>2. Len(p) \in Nat /\ 1 <= Len(p)
  BY <1>1, HeaderAssumption, LenProperties
<1>3. p[1] \in Byte
  BY <1>1, <1>2, ElementOfSeq
<1>4. p[1] \in Nat
  <2>1. \A b \in Byte : b \in Nat
    BY LengthAssumption
  <2> QED BY <1>3, <2>1
<1>5. (p \in GoodPackets => p[1] = Len(p)) /\ (p \in MalformedPackets => p[1] < HeaderSize)
  BY PacketAssumption
<1> QED BY <1>1, <1>2, <1>4, <1>5

\* The byte at offset i of the buffer is element i + 1 of its contents.
LEMMA GetIsContents ==
  ASSUME NEW b, WellFormed(b), NEW i \in Nat, i < Len(Contents(b))
  PROVE  Get(b, i) = Contents(b)[i + 1]
<1>1. /\ b.start \in Nat /\ b.end \in Nat /\ b.start <= b.end
      /\ Len(Contents(b)) = b.end - b.start
  BY LengthOfWellFormed
<1>2. i + 1 \in 1 .. b.end - b.start /\ b.start + (i + 1) - 1 = b.start + i
  BY <1>1
<1> QED BY <1>2 DEF Contents, Get

\* A packet is complete when its length byte is a length and that many bytes are there.
LEMMA CompleteMeaning ==
  ASSUME TypeOK
  PROVE  /\ Contents(rb) \in Seq(Byte) /\ Len(Contents(rb)) \in Nat
         /\ Len(Contents(rb)) = rb.end - rb.start
         /\ HeaderSize <= Len(Contents(rb)) =>
              /\ Contents(rb)[1] \in 0 .. MaxLength
              /\ Get(rb, 0) = Contents(rb)[1]
         /\ Complete <=> /\ HeaderSize <= Len(Contents(rb))
                         /\ HeaderSize <= Contents(rb)[1]
                         /\ Contents(rb)[1] <= Len(Contents(rb))
<1> DEFINE c == Contents(rb)
<1>1. /\ c \in Seq(Byte) /\ Len(c) \in Nat
      /\ Len(c) = rb.end - rb.start /\ CurrentLength(rb) = Len(c)
  BY LengthOfWellFormed, LenProperties DEF TypeOK
<1>2. ASSUME HeaderSize <= Len(c)
      PROVE  c[1] \in 0 .. MaxLength /\ Get(rb, 0) = c[1]
  <2>1. 1 \in 1 .. Len(c) /\ 0 < Len(c)
    BY <1>1, <1>2, HeaderAssumption
  <2>2. c[1] \in Byte
    BY <1>1, <2>1, ElementOfSeq
  <2>3. Get(rb, 0) = c[0 + 1] /\ 0 + 1 = 1
    BY <2>1, GetIsContents DEF TypeOK
  <2> QED BY <2>2, <2>3, LengthAssumption
<1>3. ASSUME HeaderSize <= Len(c)
      PROVE  Complete <=> HeaderSize <= c[1] /\ c[1] <= Len(c)
  <2>1. ~(Len(c) < HeaderSize) /\ c[1] \in Nat
    BY <1>1, <1>2, <1>3, HeaderAssumption
  <2>2. Complete <=> 0 <= Parse(c[1], Len(c))
    BY <1>1, <1>2, <1>3 DEF Complete
  <2>3. CASE c[1] < HeaderSize
    <3>1. Parse(c[1], Len(c)) = -1
      BY <2>3 DEF Parse, ParseFailed
    <3>2. ~(HeaderSize <= c[1])
      BY <2>1, <2>3, HeaderAssumption
    <3> QED BY <2>2, <3>1, <3>2
  <2>4. CASE ~(c[1] < HeaderSize)
    <3>1. Parse(c[1], Len(c)) = Len(c) - c[1]
      BY <2>1, <2>4 DEF Parse
    <3>2. 0 <= Len(c) - c[1] <=> c[1] <= Len(c)
      BY <1>1, <2>1
    <3>3. HeaderSize <= c[1]
      BY <2>1, <2>4, HeaderAssumption
    <3> QED BY <2>2, <3>1, <3>2, <3>3
  <2> QED BY <2>3, <2>4
<1>4. Complete => HeaderSize <= Len(c)
  BY <1>1 DEF Complete
<1> QED BY <1>1, <1>2, <1>3, <1>4

\* Waiting for bytes, the server has an incomplete packet or a malformed one.
LEMMA IncompleteIsShort ==
  ASSUME TypeOK, ~Complete, ~Stalled
  PROVE  Len(Contents(rb)) < MaxLength
<1>1. CASE HeaderSize <= Len(Contents(rb))
  <2>1. ~(Contents(rb)[1] < HeaderSize) /\ Contents(rb)[1] \in Nat
    BY <1>1, CompleteMeaning DEF Stalled
  <2>2. ~(Contents(rb)[1] <= Len(Contents(rb)))
    BY <1>1, <2>1, CompleteMeaning, HeaderAssumption
  <2> QED BY <1>1, <2>1, <2>2, CompleteMeaning, LengthAssumption
<1>2. CASE ~(HeaderSize <= Len(Contents(rb)))
  BY <1>2, CompleteMeaning, HeaderAssumption, LengthAssumption
<1> QED BY <1>1, <1>2

\* A malformed head never becomes a packet.
LEMMA StalledIncomplete ==
  ASSUME TypeOK, Stalled PROVE ~Complete
<1>1. /\ HeaderSize <= Len(Contents(rb)) /\ Contents(rb)[1] < HeaderSize
      /\ Contents(rb)[1] \in Nat
  BY CompleteMeaning DEF Stalled
<1> QED BY <1>1, CompleteMeaning, HeaderAssumption

-----------------------------------------------------------------------------
(* The inductive invariant. *)

\* Where a packet of length n that starts at offset a ends.
LEMMA NextOffset ==
  ASSUME NEW a \in Nat, NEW n \in Nat, NEW b, b = a + n
  PROVE  b \in Nat /\ a <= b /\ b - a = n
OBVIOUS

\* The packets start and end inside the stream.
LEMMA OffsetsInStream ==
  ASSUME TypeOK, Framing, NEW i \in 0 .. Len(sent)
  PROVE  Offset(bound, i) \in Nat /\ Offset(bound, i) <= Len(stream)
<1>1. Len(stream) \in Nat /\ Len(sent) \in Nat /\ Len(bound) = Len(sent)
  BY LenProperties DEF TypeOK, Framing
<1>2. CASE i = 0
  BY <1>1, <1>2 DEF Offset
<1>3. CASE i # 0
  <2>1. i \in 1 .. Len(bound) /\ i \in 1 .. Len(sent)
    BY <1>1, <1>3
  <2>2. Offset(bound, i) \in Nat
    BY <1>3, <2>1, ElementOfSeq DEF TypeOK, Offset
  <2> QED BY <2>1, <2>2 DEF Framing
<1> QED BY <1>2, <1>3

\* While nothing was refused, a header in the buffer is that of the next packet sent.
LEMMA NextPacket ==
  ASSUME TypeOK, HandledInOrder, Framing, BufferHoldsRest,
         dropped = 0, HeaderSize <= Len(Contents(rb))
  PROVE  /\ Len(handled) + 1 \in 1 .. Len(sent)
         /\ Offset(bound, Len(handled)) + Len(Contents(rb)) = arrived
         /\ \A i \in 1 .. Len(Contents(rb)) :
               Contents(rb)[i] = stream[Offset(bound, Len(handled)) + i]
         /\ \A i \in 1 .. Len(sent[Len(handled) + 1]) :
               sent[Len(handled) + 1][i] = stream[Offset(bound, Len(handled)) + i]
         /\ Contents(rb)[1] = sent[Len(handled) + 1][1]
<1> DEFINE k == Len(handled)
           c == Contents(rb)
           p == sent[k + 1]
<1>1. /\ k \in Nat /\ Len(sent) \in Nat /\ k <= Len(sent) /\ k \in 0 .. Len(sent)
      /\ Len(stream) \in Nat /\ stream \in Seq(Byte)
      /\ arrived \in Nat /\ arrived <= Len(stream)
  BY LenProperties DEF TypeOK, HandledInOrder
<1>2. Offset(bound, k) \in Nat /\ Offset(bound, k) <= Len(stream)
  BY <1>1, OffsetsInStream
<1>3. Offset(bound, k) <= arrived /\ c = SubSeq(stream, Offset(bound, k) + 1, arrived)
  BY DEF BufferHoldsRest
<1>4. Len(c) = arrived - Offset(bound, k) /\ (\A i \in 1 .. arrived - Offset(bound, k) : c[i] = stream[Offset(bound, k) + i])
  BY <1>1, <1>2, <1>3, SubSeqAt
<1>5. Offset(bound, k) < Len(stream) /\ 1 \in 1 .. Len(c) /\ Len(c) \in Nat
  BY <1>1, <1>2, <1>4, HeaderAssumption
<1>6. k # Len(sent)
  BY <1>1, <1>2, <1>5 DEF Framing
<1>7. k + 1 \in 1 .. Len(sent) /\ k + 1 # 0 /\ (k + 1) - 1 = k /\ k + 1 \in 0 .. Len(sent)
  BY <1>1, <1>6
<1>8. p \in Packets
  BY <1>7, ElementOfSeq DEF TypeOK
<1>9. /\ Offset(bound, k + 1) = Offset(bound, k) + Len(p) /\ Offset(bound, k + 1) <= Len(stream)
      /\ p = SubSeq(stream, Offset(bound, k) + 1, Offset(bound, k + 1))
  BY <1>7 DEF Framing
<1>10. Len(p) \in Nat /\ 1 <= Len(p)
  BY <1>8, PacketProperties
<1>11. /\ Offset(bound, k + 1) \in Nat /\ Offset(bound, k) <= Offset(bound, k + 1) /\ Offset(bound, k + 1) - Offset(bound, k) = Len(p)
  <2> DEFINE a == Offset(bound, k)
             b == Offset(bound, k + 1)
             m == Len(p)
  <2>1. a \in Nat /\ m \in Nat /\ b = a + m
    BY <1>2, <1>9, <1>10
  <2> HIDE DEF a, b, m
  <2>2. b \in Nat /\ a <= b /\ b - a = m
    BY <2>1
  <2> QED BY <2>2 DEF a, b, m
<1>12. \A i \in 1 .. Len(p) : p[i] = stream[Offset(bound, k) + i]
  <2> DEFINE a == Offset(bound, k)
             b == Offset(bound, k + 1)
  <2>1. a \in Nat /\ b \in Nat /\ a <= b /\ b <= Len(stream) /\ b - a = Len(p)
    BY <1>2, <1>9, <1>11
  <2>2. p = SubSeq(stream, a + 1, b)
    BY <1>9
  <2> HIDE DEF a, b, p
  <2>3. \A i \in 1 .. b - a : SubSeq(stream, a + 1, b)[i] = stream[a + i]
    BY <1>1, <2>1, SubSeqAt
  <2>4. \A i \in 1 .. Len(p) : p[i] = stream[a + i]
    BY <2>1, <2>2, <2>3
  <2> QED BY <2>4 DEF a, p
<1>13. p[1] = stream[Offset(bound, k) + 1] /\ c[1] = stream[Offset(bound, k) + 1]
  BY <1>4, <1>5, <1>10, <1>12
<1>14. Offset(bound, k) + Len(c) = arrived
  BY <1>1, <1>2, <1>4
<1> QED BY <1>4, <1>7, <1>12, <1>13, <1>14

\* An accepted connection satisfies the invariant.
LEMMA InitIInv == Init => IInv
<1> SUFFICES ASSUME Init PROVE IInv
  OBVIOUS
<1>1. /\ sent = << >> /\ stream = << >> /\ bound = << >> /\ handled = << >>
      /\ arrived = 0 /\ dropped = 0 /\ pc = "select" /\ peer = "open"
  BY DEF Init
<1>2. WellFormed(rb) /\ Contents(rb) = << >>
  BY EmptyBufferWellFormed DEF Init
<1>3. TypeOK
  BY <1>1, <1>2 DEF TypeOK
<1>4. HandledInOrder
  BY <1>1 DEF HandledInOrder
<1>5. Framing
  BY <1>1 DEF Framing, Offset
<1>6. BufferHoldsRest /\ DropsOnlyWhenStalled /\ GoneAtEnd
  BY <1>1, <1>2 DEF BufferHoldsRest, DropsOnlyWhenStalled, GoneAtEnd, Offset
<1>7. NothingLeftBehind
  <2>1. Len(Contents(rb)) = 0
    BY <1>2
  <2>2. ~(HeaderSize <= Len(Contents(rb)))
    BY <2>1, HeaderAssumption
  <2> QED BY <1>3, <2>2, CompleteMeaning DEF NothingLeftBehind
<1> QED BY <1>3, <1>4, <1>5, <1>6, <1>7 DEF IInv

\* What the peer sends lies behind everything the invariant speaks of.
LEMMA PeerSendIInv ==
  ASSUME IInv, NEW p \in Packets, PeerSend(p)
  PROVE  IInv'
<1> DEFINE n == Len(sent)
           k == Len(handled)
<1>1. /\ sent \in Seq(Packets) /\ stream \in Seq(Byte) /\ bound \in Seq(Nat)
      /\ n \in Nat /\ Len(stream) \in Nat /\ Len(bound) = n /\ k \in Nat /\ k <= n
      /\ arrived \in Nat /\ arrived <= Len(stream)
  BY LenProperties DEF IInv, TypeOK, HandledInOrder, Framing
<1>2. /\ p \in Seq(Byte) /\ Len(p) \in Nat
      /\ Len(stream) + Len(p) \in Nat
  BY <1>1, PacketProperties
<1>3. /\ peer = "open" /\ sent' = Append(sent, p) /\ stream' = stream \o p
      /\ bound' = Append(bound, Len(stream) + Len(p))
      /\ UNCHANGED <<peer, arrived, rb, pc, handled, dropped>>
  BY DEF PeerSend
<1>4. /\ sent' \in Seq(Packets) /\ Len(sent') = n + 1
      /\ \A i \in 1 .. n : sent'[i] = sent[i]
      /\ sent'[n + 1] = p
  BY <1>1, <1>3, AppendProperties
<1>5. /\ bound' \in Seq(Nat) /\ Len(bound') = n + 1
      /\ \A i \in 1 .. n : bound'[i] = bound[i]
      /\ bound'[n + 1] = Len(stream) + Len(p)
  BY <1>1, <1>2, <1>3, AppendProperties
<1>6. stream' \in Seq(Byte) /\ Len(stream') = Len(stream) + Len(p)
  BY <1>1, <1>2, <1>3, ConcatProperties
<1>7. TypeOK'
  BY <1>1, <1>2, <1>3, <1>4, <1>5, <1>6 DEF IInv, TypeOK
<1>8. HandledInOrder'
  BY <1>1, <1>3, <1>4 DEF IInv, HandledInOrder
<1>9. \A i \in 0 .. n : Offset(bound', i) = Offset(bound, i)
  BY <1>1, <1>5 DEF Offset
<1>10. Offset(bound', n + 1) = Len(stream) + Len(p)
  BY <1>1, <1>5 DEF Offset
<1>11. \A i \in 0 .. n : Offset(bound, i) \in Nat /\ Offset(bound, i) <= Len(stream)
  BY OffsetsInStream DEF IInv
<1>12. Framing'
  <2>1. Len(bound') = Len(sent') /\ Offset(bound', Len(sent')) = Len(stream')
    BY <1>1, <1>4, <1>5, <1>6, <1>9, <1>10
  <2>2. ASSUME NEW i \in 1 .. n
        PROVE  /\ Offset(bound', i) = Offset(bound', i - 1) + Len(sent'[i])
               /\ Offset(bound', i) <= Len(stream')
               /\ sent'[i] = SubSeq(stream', Offset(bound', i - 1) + 1, Offset(bound', i))
    <3>1. i \in 0 .. n /\ i - 1 \in 0 .. n
      BY <1>1
    <3>2. /\ Offset(bound', i) = Offset(bound, i)
          /\ Offset(bound', i - 1) = Offset(bound, i - 1)
          /\ sent'[i] = sent[i]
      BY <1>4, <1>9, <3>1
    <3>3. /\ Offset(bound, i) \in Nat /\ Offset(bound, i - 1) \in Nat /\ Offset(bound, i) <= Len(stream)
      BY <1>11, <3>1
    <3>4. /\ Offset(bound, i) = Offset(bound, i - 1) + Len(sent[i])
          /\ sent[i] = SubSeq(stream, Offset(bound, i - 1) + 1, Offset(bound, i))
      BY DEF IInv, Framing
    <3>5. Len(sent[i]) \in Nat
      BY <1>1, ElementOfSeq, PacketProperties
    <3>6. Offset(bound, i - 1) <= Offset(bound, i)
      <4>1. Offset(bound, i) = Offset(bound, i - 1) + Len(sent[i])
        BY <3>4
      <4> QED BY <3>3, <3>5, <4>1, NextOffset
    <3>7. SubSeq(stream \o p, Offset(bound, i - 1) + 1, Offset(bound, i))
            = SubSeq(stream, Offset(bound, i - 1) + 1, Offset(bound, i))
      <4> DEFINE a == Offset(bound, i - 1)
                 b == Offset(bound, i)
      <4>1. /\ a \in Nat /\ b \in Nat /\ a <= b /\ b <= Len(stream)
            /\ stream \in Seq(Byte) /\ p \in Seq(Byte)
        BY <1>1, <1>2, <3>3, <3>6
      <4> HIDE DEF a, b
      <4>2. SubSeq(stream \o p, a + 1, b) = SubSeq(stream, a + 1, b)
        BY <4>1, SubSeqOfPrefix
      <4> QED BY <4>2 DEF a, b
    <3>8. Offset(bound, i) <= Len(stream')
      BY <1>1, <1>2, <1>6, <3>3
    <3> QED BY <1>3, <3>2, <3>4, <3>7, <3>8
  <2>3. /\ Offset(bound', n + 1) = Offset(bound', n) + Len(sent'[n + 1])
        /\ Offset(bound', n + 1) <= Len(stream')
        /\ sent'[n + 1] = SubSeq(stream', Offset(bound', n) + 1, Offset(bound', n + 1))
    <3>1. Offset(bound', n) = Len(stream)
      <4>1. n \in 0 .. n
        BY <1>1
      <4> QED BY <1>9, <4>1 DEF IInv, Framing
    <3>2. SubSeq(stream', Len(stream) + 1, Len(stream) + Len(p)) = p
      BY <1>1, <1>2, <1>3, SubSeqOfSuffix
    <3>3. Len(stream) + Len(p) <= Len(stream')
      BY <1>2, <1>6
    <3> QED BY <1>3, <1>4, <1>10, <3>1, <3>2, <3>3
  <2>4. \A i \in 1 .. n + 1 :
          /\ Offset(bound', i) = Offset(bound', i - 1) + Len(sent'[i])
          /\ Offset(bound', i) <= Len(stream')
          /\ sent'[i] = SubSeq(stream', Offset(bound', i - 1) + 1, Offset(bound', i))
    <3> SUFFICES ASSUME NEW i \in 1 .. n + 1
                 PROVE  /\ Offset(bound', i) = Offset(bound', i - 1) + Len(sent'[i])
                        /\ Offset(bound', i) <= Len(stream')
                        /\ sent'[i] = SubSeq(stream', Offset(bound', i - 1) + 1, Offset(bound', i))
      OBVIOUS
    <3>1. CASE i = n + 1
      <4>1. i - 1 = n
        BY <1>1, <3>1
      <4> QED BY <2>3, <3>1, <4>1
    <3>2. CASE i # n + 1
      <4>1. i \in 1 .. n
        BY <1>1, <3>2
      <4> QED BY <2>2, <4>1
    <3> QED BY <3>1, <3>2
  <2> QED BY <1>4, <2>1, <2>4 DEF Framing
<1>13. BufferHoldsRest'
  <2>1. k \in 0 .. n /\ k' = k
    BY <1>1, <1>3
  <2>2. Offset(bound', k) = Offset(bound, k) /\ Offset(bound, k) \in Nat
    BY <1>9, <1>11, <2>1
  <2>3. ASSUME dropped' = 0
        PROVE  /\ Offset(bound', k) <= arrived'
               /\ Contents(rb)' = SubSeq(stream', Offset(bound', k) + 1, arrived')
    <3>1. Offset(bound, k) <= arrived /\ Contents(rb) = SubSeq(stream, Offset(bound, k) + 1, arrived)
      BY <1>3, <2>3 DEF IInv, BufferHoldsRest
    <3>2. SubSeq(stream \o p, Offset(bound, k) + 1, arrived)
            = SubSeq(stream, Offset(bound, k) + 1, arrived)
      <4> DEFINE o == Offset(bound, k)
      <4>1. /\ stream \in Seq(Byte) /\ p \in Seq(Byte) /\ o \in Nat /\ arrived \in Nat
            /\ o <= arrived /\ arrived <= Len(stream)
        BY <1>1, <1>2, <2>2, <3>1
      <4> HIDE DEF o
      <4>2. SubSeq(stream \o p, o + 1, arrived) = SubSeq(stream, o + 1, arrived)
        BY <4>1, SubSeqOfPrefix
      <4> QED BY <4>2 DEF o
    <3> QED BY <1>3, <2>2, <3>1, <3>2
  <2>4. ASSUME dropped' # 0
        PROVE  Len(handled') < Len(sent') /\ sent'[Len(handled') + 1] \in MalformedPackets
    <3>1. k < n /\ sent[k + 1] \in MalformedPackets
      BY <1>3, <2>4 DEF IInv, BufferHoldsRest
    <3>2. k + 1 \in 1 .. n /\ k < n + 1
      BY <1>1, <3>1
    <3> QED BY <1>3, <1>4, <3>1, <3>2
  <2> QED BY <1>3, <2>1, <2>2, <2>3, <2>4 DEF BufferHoldsRest
<1>14. DropsOnlyWhenStalled' /\ NothingLeftBehind' /\ GoneAtEnd'
  BY <1>3 DEF IInv, DropsOnlyWhenStalled, Stalled, NothingLeftBehind, Complete, GoneAtEnd
<1> QED BY <1>7, <1>8, <1>12, <1>13, <1>14 DEF IInv

\* A step that only moves the server's control or the peer's side of the socket.
LEMMA ControlIInv ==
  ASSUME IInv,
         UNCHANGED <<sent, stream, bound, arrived, rb, handled, dropped>>,
         pc' \in {"select", "drain", "gone"}, peer' \in {"open", "closed", "reset"},
         pc' # "drain" => ~Complete,
         pc' = "gone" => peer' = "reset" \/ (peer' = "closed" /\ arrived = Len(stream))
  PROVE  IInv'
<1>1. TypeOK'
  BY DEF IInv, TypeOK
<1>2. HandledInOrder' /\ Framing' /\ BufferHoldsRest'
  BY DEF IInv, HandledInOrder, Framing, BufferHoldsRest
<1>3. DropsOnlyWhenStalled' /\ NothingLeftBehind' /\ GoneAtEnd'
  BY DEF IInv, DropsOnlyWhenStalled, Stalled, NothingLeftBehind, Complete, GoneAtEnd
<1> QED BY <1>1, <1>2, <1>3 DEF IInv

\* The block recv() returns is a block ring_buffer_push() is made for.
LEMMA RecvBlock ==
  ASSUME TypeOK, NEW n \in 1 .. MaxRecv, RecvData(n)
  PROVE  LET data == SubSeq(stream, arrived + 1, arrived + n)
             push == Push(rb, data)
         IN  /\ data \in Seq(Byte) /\ Len(data) = n
             /\ rb' = push.rb /\ WellFormed(rb')
             /\ push.ok \in BOOLEAN
             /\ push.ok <=> Len(Contents(rb)) + n < Capacity
             /\ push.ok => Contents(rb') = Contents(rb) \o data
             /\ ~push.ok => Contents(rb') = Contents(rb)
             /\ dropped' = IF push.ok THEN dropped ELSE dropped + n
<1> DEFINE data == SubSeq(stream, arrived + 1, arrived + n)
<1>1. /\ n \in Nat /\ arrived \in Nat /\ arrived + n \in Nat /\ arrived <= arrived + n
      /\ (arrived + n) - arrived = n /\ arrived + n <= Len(stream)
      /\ stream \in Seq(Byte)
  BY RecvAssumption DEF TypeOK, RecvData
<1>2. data \in Seq(Byte) /\ Len(data) = n
  BY <1>1, SubSeqAt
<1>3. n <= Capacity
  BY RecvAssumption, LengthAssumption, CapacityAssumption
<1>4. rb' = Push(rb, data).rb /\ dropped' = IF Push(rb, data).ok THEN dropped ELSE dropped + n
  BY DEF RecvData
<1> HIDE DEF data
<1>5. /\ WellFormed(Push(rb, data).rb)
      /\ Push(rb, data).ok \in BOOLEAN
      /\ Push(rb, data).ok <=> Len(Contents(rb)) + Len(data) < Capacity
      /\ Push(rb, data).ok => Contents(Push(rb, data).rb) = Contents(rb) \o data
      /\ ~Push(rb, data).ok => Contents(Push(rb, data).rb) = Contents(rb)
  BY <1>2, <1>3, PushCorrect DEF TypeOK
<1>6. /\ data \in Seq(Byte) /\ Len(data) = n
      /\ rb' = Push(rb, data).rb /\ WellFormed(rb')
      /\ Push(rb, data).ok \in BOOLEAN
      /\ Push(rb, data).ok <=> Len(Contents(rb)) + n < Capacity
      /\ Push(rb, data).ok => Contents(rb') = Contents(rb) \o data
      /\ ~Push(rb, data).ok => Contents(rb') = Contents(rb)
      /\ dropped' = IF Push(rb, data).ok THEN dropped ELSE dropped + n
  BY <1>2, <1>4, <1>5
<1> QED BY <1>6 DEF data

\* Bytes behind a malformed head do not repair it.
LEMMA StalledUnderRecv ==
  ASSUME TypeOK, Stalled, NEW n \in 1 .. MaxRecv, RecvData(n)
  PROVE  Stalled'
<1> DEFINE data == SubSeq(stream, arrived + 1, arrived + n)
           c == Contents(rb)
<1>1. /\ c \in Seq(Byte) /\ Len(c) \in Nat /\ HeaderSize <= Len(c) /\ c[1] < HeaderSize
  BY CompleteMeaning DEF Stalled
<1>2. /\ data \in Seq(Byte) /\ Len(data) = n /\ n \in Nat
      /\ Contents(rb') = c \o data \/ Contents(rb') = c
  BY RecvBlock
<1>3. CASE Contents(rb') = c
  BY <1>1, <1>3 DEF Stalled
<1>4. CASE Contents(rb') = c \o data
  <2> HIDE DEF c, data
  <2>1. /\ Len(c \o data) = Len(c) + Len(data)
        /\ \A i \in 1 .. Len(c) + Len(data) :
             (c \o data)[i] = IF i <= Len(c) THEN c[i] ELSE data[i - Len(c)]
    BY <1>1, <1>2, ConcatProperties
  <2>2. 1 <= Len(c) /\ 1 \in 1 .. Len(c) + Len(data)
    BY <1>1, <1>2, HeaderAssumption
  <2>4. (c \o data)[1] = c[1]
    BY <2>1, <2>2
  <2>3. HeaderSize <= Len(c \o data)
    BY <1>1, <1>2, <2>1, HeaderAssumption
  <2> QED BY <1>1, <1>4, <2>4, <2>3 DEF Stalled
<1> QED BY <1>2, <1>3, <1>4

\* A buffer that stalls before anything was refused stalls at a malformed packet.
LEMMA StalledAtMalformed ==
  ASSUME IInv, Stalled
  PROVE  Len(handled) < Len(sent) /\ sent[Len(handled) + 1] \in MalformedPackets
<1> DEFINE k == Len(handled)
           p == sent[k + 1]
<1>1. CASE dropped # 0
  BY <1>1 DEF IInv, BufferHoldsRest
<1>2. CASE dropped = 0
  <2>1. /\ HeaderSize <= Len(Contents(rb)) /\ Contents(rb)[1] < HeaderSize
    BY DEF Stalled
  <2>2. k + 1 \in 1 .. Len(sent) /\ Contents(rb)[1] = p[1]
    BY <1>2, <2>1, NextPacket DEF IInv
  <2>3. p \in Packets
    BY <2>2, ElementOfSeq DEF IInv, TypeOK
  <2>4. p \notin GoodPackets
    <3>1. ASSUME p \in GoodPackets PROVE FALSE
      <4>1. p[1] = Len(p) /\ Len(p) \in Nat /\ HeaderSize <= Len(p) /\ p[1] < HeaderSize
        BY <2>1, <2>2, <2>3, <3>1, PacketProperties
      <4> QED BY <4>1, HeaderAssumption
    <3> QED BY <3>1
  <2>5. k < Len(sent)
    BY <2>2, LenProperties DEF IInv, TypeOK
  <2> QED BY <2>3, <2>4, <2>5 DEF Packets
<1> QED BY <1>1, <1>2

\* A read keeps the buffer the rest of the stream, or is refused behind a stall.
LEMMA RecvDataIInv ==
  ASSUME IInv, NEW n \in 1 .. MaxRecv, RecvData(n)
  PROVE  IInv'
<1> DEFINE data == SubSeq(stream, arrived + 1, arrived + n)
           ok == Push(rb, data).ok
           c == Contents(rb)
           off == Offset(bound, Len(handled))
<1>1. /\ TypeOK /\ HandledInOrder /\ Framing /\ BufferHoldsRest
      /\ DropsOnlyWhenStalled /\ NothingLeftBehind
  BY DEF IInv
<1>2. /\ pc = "select" /\ pc' = "drain" /\ arrived' = arrived + n
      /\ arrived + n <= Len(stream)
      /\ UNCHANGED <<sent, stream, bound, peer, handled>>
  BY DEF RecvData
<1>3. /\ WellFormed(rb') /\ ok \in BOOLEAN
      /\ ok <=> Len(c) + n < Capacity
      /\ ok => Contents(rb') = c \o data
      /\ dropped' = IF ok THEN dropped ELSE dropped + n
  BY <1>1, RecvBlock
<1>4. /\ n \in Nat /\ n # 0 /\ arrived \in Nat /\ dropped \in Nat
      /\ stream \in Seq(Byte) /\ Len(stream) \in Nat
  BY <1>1, RecvAssumption, LenProperties DEF TypeOK
<1>5. TypeOK'
  <2>1. arrived' \in 0 .. Len(stream') /\ dropped' \in Nat
    BY <1>2, <1>3, <1>4
  <2> QED BY <1>1, <1>2, <1>3, <2>1 DEF TypeOK
<1>6. HandledInOrder' /\ Framing' /\ NothingLeftBehind' /\ GoneAtEnd'
  BY <1>1, <1>2 DEF HandledInOrder, Framing, NothingLeftBehind, GoneAtEnd
\* A push that is refused finds the buffer stalled: an incomplete packet and one
\* more block fit into the capacity.
<1>7. ASSUME ~ok PROVE Stalled
  <2>1. SUFFICES ASSUME ~Stalled PROVE FALSE
    OBVIOUS
  <2>2. Len(c) \in Nat /\ Len(c) < MaxLength
    BY <1>1, <1>2, <2>1, IncompleteIsShort, CompleteMeaning DEF NothingLeftBehind
  <2>3. n <= MaxRecv
    BY RecvAssumption
  <2>4. Len(c) + n < Capacity
    <3> DEFINE l == Len(c)
    <3>1. l \in Nat /\ l < MaxLength
      BY <2>2
    <3> HIDE DEF l
    <3>2. l + n < MaxLength + MaxRecv
      BY <1>4, <2>3, <3>1, RecvAssumption, LengthAssumption
    <3>3. l + n < Capacity
      BY <1>4, <3>1, <3>2, RecvAssumption, LengthAssumption, CapacityAssumption
    <3> QED BY <3>3 DEF l
  <2> QED BY <1>3, <1>7, <2>4
<1>8. ASSUME dropped' # 0 PROVE Stalled
  <2>1. CASE ok
    <3>1. dropped # 0
      BY <1>3, <1>8, <2>1
    <3> QED BY <1>1, <3>1 DEF DropsOnlyWhenStalled
  <2>2. CASE ~ok
    BY <1>7, <2>2
  <2> QED BY <2>1, <2>2
<1>9. DropsOnlyWhenStalled'
  BY <1>1, <1>8, StalledUnderRecv DEF DropsOnlyWhenStalled
<1>10. BufferHoldsRest'
  <2>1. ASSUME dropped' = 0
        PROVE  off <= arrived' /\ Contents(rb') = SubSeq(stream, off + 1, arrived')
    <3>1. ok /\ dropped = 0
      BY <1>3, <1>4, <2>1
    <3>2. off <= arrived /\ c = SubSeq(stream, off + 1, arrived)
      BY <1>1, <3>1 DEF BufferHoldsRest
    <3>3. off \in Nat
      <4>1. Len(handled) \in 0 .. Len(sent)
        BY <1>1, LenProperties DEF TypeOK, HandledInOrder
      <4> QED BY <1>1, <4>1, OffsetsInStream
    <3>4. Contents(rb') = c \o data
      BY <1>3, <3>1
    <3> HIDE DEF off
    <3>5. arrived + n \in Nat /\ arrived <= arrived + n /\ off <= arrived + n
      BY <1>4, <3>2, <3>3
    <3>6. SubSeq(stream, off + 1, arrived) \o data = SubSeq(stream, off + 1, arrived + n)
      BY <1>2, <1>4, <3>2, <3>3, <3>5, SubSeqJoin
    <3> QED BY <1>2, <3>2, <3>4, <3>5, <3>6
  <2>2. ASSUME dropped' # 0
        PROVE  Len(handled) < Len(sent) /\ sent[Len(handled) + 1] \in MalformedPackets
    BY <1>8, <2>2, StalledAtMalformed
  <2> QED BY <1>2, <2>1, <2>2 DEF BufferHoldsRest
<1> QED BY <1>5, <1>6, <1>9, <1>10 DEF IInv

\* Stepping over n bytes of the buffer.
LEMMA AdvanceByPacket ==
  ASSUME TypeOK, NEW n \in Nat, n <= Len(Contents(rb)), rb' = Advance(rb, n)
  PROVE  /\ WellFormed(rb')
         /\ Contents(rb') = SubSeq(Contents(rb), n + 1, Len(Contents(rb)))
<1>1. n \in 0 .. rb.end - rb.start
  BY CompleteMeaning
<1> QED BY <1>1, AdvanceCorrect DEF TypeOK

\* The packet taken off the buffer is the next packet sent.
LEMMA HandledIsNext ==
  ASSUME IInv, HandlePacket
  PROVE  LET k == Len(handled)
             p == sent[k + 1]
         IN  /\ dropped = 0
             /\ k \in Nat /\ k + 1 \in 1 .. Len(sent)
             /\ p \in GoodPackets /\ p \in Seq(Byte)
             /\ Len(p) \in Nat /\ Len(p) <= Len(Contents(rb))
             /\ handled' = Append(handled, p)
             /\ rb' = Advance(rb, Len(p))
             /\ Offset(bound, k) \in Nat
             /\ Offset(bound, k) + Len(Contents(rb)) = arrived
             /\ Offset(bound, k + 1) = Offset(bound, k) + Len(p)
<1> DEFINE k == Len(handled)
           p == sent[k + 1]
           c == Contents(rb)
           off == Offset(bound, k)
<1>1. /\ TypeOK /\ HandledInOrder /\ Framing /\ BufferHoldsRest
      /\ DropsOnlyWhenStalled
  BY DEF IInv
<1>2. /\ HeaderSize <= Len(c) /\ HeaderSize <= c[1] /\ c[1] <= Len(c)
      /\ c[1] \in Nat /\ Len(c) \in Nat /\ c \in Seq(Byte)
      /\ Get(rb, 0) = c[1]
  BY <1>1, CompleteMeaning DEF HandlePacket
<1>3. dropped = 0
  <2>1. ~Stalled
    BY <1>2, HeaderAssumption DEF Stalled
  <2> QED BY <1>1, <2>1 DEF DropsOnlyWhenStalled
<1>4. /\ k + 1 \in 1 .. Len(sent)
      /\ off + Len(c) = arrived
      /\ \A i \in 1 .. Len(c) : c[i] = stream[off + i]
      /\ \A i \in 1 .. Len(p) : p[i] = stream[off + i]
      /\ c[1] = p[1]
  BY <1>1, <1>2, <1>3, NextPacket
<1>5. k \in Nat /\ k \in 0 .. Len(sent) /\ (k + 1) - 1 = k
  BY <1>1, <1>4, LenProperties DEF TypeOK, HandledInOrder
<1>6. p \in Packets
  BY <1>1, <1>4, ElementOfSeq DEF TypeOK
<1>7. p \in GoodPackets
  <2>1. ASSUME p \in MalformedPackets PROVE FALSE
    <3>1. p[1] < HeaderSize
      BY <1>6, <2>1, PacketProperties
    <3> QED BY <1>2, <1>4, <3>1, HeaderAssumption
  <2> QED BY <1>6, <2>1 DEF Packets
<1>8. p \in Seq(Byte) /\ Len(p) \in Nat /\ Len(p) = c[1]
  BY <1>4, <1>6, <1>7, PacketProperties
<1>9. handled' = Append(handled, p)
  <2>1. handled' = Append(handled, [i \in 1 .. Len(p) |-> Get(rb, i - 1)])
    BY <1>2, <1>8 DEF HandlePacket
  <2>2. ASSUME NEW i \in 1 .. Len(p) PROVE Get(rb, i - 1) = p[i]
    <3>1. i - 1 \in Nat /\ i - 1 < Len(c) /\ (i - 1) + 1 = i /\ i \in 1 .. Len(c)
      BY <1>2, <1>8
    <3>2. Get(rb, i - 1) = c[i]
      BY <1>1, <3>1, GetIsContents DEF TypeOK
    <3> QED BY <1>4, <3>1, <3>2
  <2>3. p = [i \in 1 .. Len(p) |-> p[i]]
    BY <1>8
  <2>4. [i \in 1 .. Len(p) |-> Get(rb, i - 1)] = [i \in 1 .. Len(p) |-> p[i]]
    BY <2>2
  <2> QED BY <2>1, <2>3, <2>4
<1>10. rb' = Advance(rb, Len(p))
  BY <1>2, <1>8 DEF HandlePacket
<1>11. off \in Nat /\ Offset(bound, k + 1) = off + Len(p)
  BY <1>1, <1>4, <1>5, OffsetsInStream DEF Framing
<1>12. Len(p) <= Len(c)
  BY <1>2, <1>8
<1> QED BY <1>3, <1>4, <1>5, <1>7, <1>8, <1>9, <1>10, <1>11, <1>12

\* A packet taken off the buffer moves the boundary to the next packet sent.
LEMMA HandlePacketIInv ==
  ASSUME IInv, HandlePacket
  PROVE  IInv'
<1> DEFINE k == Len(handled)
           p == sent[k + 1]
           c == Contents(rb)
           off == Offset(bound, k)
<1>1. /\ TypeOK /\ HandledInOrder /\ Framing /\ BufferHoldsRest
  BY DEF IInv
<1>2. /\ pc = "drain"
      /\ UNCHANGED <<sent, stream, bound, peer, arrived, pc, dropped>>
  BY DEF HandlePacket
<1>3. /\ dropped = 0 /\ k \in Nat /\ k + 1 \in 1 .. Len(sent)
      /\ p \in Seq(Byte) /\ Len(p) \in Nat /\ Len(p) <= Len(c)
      /\ handled' = Append(handled, p) /\ rb' = Advance(rb, Len(p))
      /\ off \in Nat /\ off + Len(c) = arrived
      /\ Offset(bound, k + 1) = off + Len(p)
  BY HandledIsNext
<1>4. /\ handled' \in Seq(Seq(Byte)) /\ Len(handled') = k + 1
      /\ \A i \in 1 .. k : handled'[i] = handled[i]
      /\ handled'[k + 1] = p
  BY <1>1, <1>3, AppendProperties DEF TypeOK
<1>5. WellFormed(rb') /\ Contents(rb') = SubSeq(c, Len(p) + 1, Len(c))
  BY <1>1, <1>3, AdvanceByPacket
<1>6. TypeOK'
  BY <1>1, <1>2, <1>4, <1>5 DEF TypeOK
<1>7. HandledInOrder'
  <2>1. k + 1 <= Len(sent)
    BY <1>3
  <2>2. ASSUME NEW i \in 1 .. k + 1 PROVE handled'[i] = sent[i]
    <3>1. CASE i = k + 1
      BY <1>4, <3>1
    <3>2. CASE i # k + 1
      <4>1. i \in 1 .. k
        BY <1>3, <3>2
      <4> QED BY <1>1, <1>4, <4>1 DEF HandledInOrder
    <3> QED BY <3>1, <3>2
  <2> QED BY <1>2, <1>4, <2>1, <2>2 DEF HandledInOrder
<1>8. Framing' /\ NothingLeftBehind' /\ GoneAtEnd'
  BY <1>1, <1>2 DEF Framing, NothingLeftBehind, GoneAtEnd
<1>9. DropsOnlyWhenStalled'
  BY <1>2, <1>3 DEF DropsOnlyWhenStalled
<1>10. BufferHoldsRest'
  <2>1. c = SubSeq(stream, off + 1, arrived)
    BY <1>1, <1>3 DEF BufferHoldsRest
  <2>2. /\ stream \in Seq(Byte) /\ arrived \in Nat /\ arrived <= Len(stream)
        /\ Len(c) \in Nat
    BY <1>1, LenProperties, CompleteMeaning DEF TypeOK
  <2> DEFINE m == Len(p)
             l == Len(c)
  <2>3. m \in Nat /\ l \in Nat /\ m <= l /\ off + l = arrived /\ off \in Nat
    BY <1>3, <2>2
  <2> HIDE DEF off, m, l
  <2>4. off + m <= arrived /\ off + m \in Nat
    BY <2>3
  <2>5. SubSeq(SubSeq(stream, off + 1, arrived), m + 1, Len(SubSeq(stream, off + 1, arrived)))
          = SubSeq(stream, (off + m) + 1, arrived)
    BY <2>2, <2>3, <2>4, SubSeqDrop
  <2>6. Contents(rb') = SubSeq(stream, (off + m) + 1, arrived)
    BY <1>5, <2>1, <2>5 DEF m
  <2>7. Offset(bound, k + 1) = off + m
    BY <1>3 DEF off, m
  <2> QED BY <1>2, <1>3, <1>4, <2>4, <2>6, <2>7 DEF BufferHoldsRest
<1> QED BY <1>6, <1>7, <1>8, <1>9, <1>10 DEF IInv

\* Every step of the peer and of the server preserves the invariant.
LEMMA NextIInv == IInv /\ [Next]_vars => IInv'
<1> SUFFICES ASSUME IInv, [Next]_vars PROVE IInv'
  OBVIOUS
<1>1. ASSUME NEW p \in Packets, PeerSend(p) PROVE IInv'
  BY <1>1, PeerSendIInv
<1>2. ASSUME PeerClose \/ PeerReset PROVE IInv'
  <2>1. pc # "gone" /\ pc' = pc /\ peer' \in {"open", "closed", "reset"}
    BY <1>2 DEF PeerClose, PeerReset, IInv, GoneAtEnd
  <2>2. UNCHANGED <<sent, stream, bound, arrived, rb, handled, dropped>>
    BY <1>2 DEF PeerClose, PeerReset
  <2> QED BY <2>1, <2>2, ControlIInv DEF IInv, TypeOK, NothingLeftBehind
<1>3. ASSUME NEW n \in 1 .. MaxRecv, RecvData(n) PROVE IInv'
  BY <1>3, RecvDataIInv
<1>4. ASSUME HandlePacket PROVE IInv'
  BY <1>4, HandlePacketIInv
<1>5. ASSUME StopDrain PROVE IInv'
  BY <1>5, ControlIInv DEF StopDrain, IInv, TypeOK
<1>6. ASSUME RecvEof \/ RecvError PROVE IInv'
  <2>1. /\ ~Complete /\ pc' = "gone" /\ peer' = peer
        /\ UNCHANGED <<sent, stream, bound, arrived, rb, handled, dropped>>
    BY <1>6 DEF RecvEof, RecvError, IInv, NothingLeftBehind
  <2>2. peer = "reset" \/ (peer = "closed" /\ arrived = Len(stream))
    BY <1>6 DEF RecvEof, RecvError
  <2> QED BY <2>1, <2>2, ControlIInv DEF IInv, TypeOK
<1>7. CASE UNCHANGED vars
  BY <1>7, ControlIInv DEF vars, IInv, TypeOK, NothingLeftBehind, GoneAtEnd
<1> QED BY <1>1, <1>2, <1>3, <1>4, <1>5, <1>6, <1>7 DEF Next, Server

\* The inductive invariant: the buffer always stands at a packet boundary of the
\* stream, whatever the blocks recv() cuts it into.
THEOREM TcpStreamInvariant == Spec => []IInv
<1>1. Init => IInv
  BY InitIInv
<1>2. IInv /\ [Next]_vars => IInv'
  BY NextIInv
<1> QED BY <1>1, <1>2, PTL DEF Spec

-----------------------------------------------------------------------------
(* What follows from it. *)

\* Type correctness: no cursor of the ring buffer leaves its storage.
THEOREM TcpStreamTypeCorrect == Spec => []TypeOK
<1>1. IInv => TypeOK
  BY DEF IInv
<1> QED BY <1>1, TcpStreamInvariant, PTL

\* The packets handled are the packets sent: whole, in order, none twice.
THEOREM PacketsHandledInOrder == Spec => []HandledInOrder
<1>1. IInv => HandledInOrder
  BY DEF IInv
<1> QED BY <1>1, TcpStreamInvariant, PTL

\* The answer of ring_buffer_push() may be ignored: with a buffer that holds an
\* incomplete packet and one read, bytes are lost only behind a malformed packet.
THEOREM PushFailureIsHarmless == Spec => []DropsOnlyWhenStalled
<1>1. IInv => DropsOnlyWhenStalled
  BY DEF IInv
<1> QED BY <1>1, TcpStreamInvariant, PTL

\* The server never waits in select() with a whole packet in the buffer.
THEOREM BufferIsDrained == Spec => []NothingLeftBehind
<1>1. IInv => NothingLeftBehind
  BY DEF IInv
<1> QED BY <1>1, TcpStreamInvariant, PTL

\* Where the stream has been read to its end, every well-formed packet was handled.
LEMMA CloseStep == IInv => CloseLosesNothing
<1> SUFFICES ASSUME IInv, pc = "gone", peer = "closed",
                    \A i \in 1 .. Len(sent) : sent[i] \in GoodPackets
             PROVE  handled = sent
  BY DEF CloseLosesNothing
<1> DEFINE k == Len(handled)
           p == sent[k + 1]
           off == Offset(bound, k)
<1>1. /\ TypeOK /\ HandledInOrder /\ Framing /\ BufferHoldsRest
      /\ ~Complete /\ arrived = Len(stream)
  BY DEF IInv, NothingLeftBehind, GoneAtEnd
<1>2. /\ k \in Nat /\ Len(sent) \in Nat /\ k <= Len(sent)
      /\ sent \in Seq(Packets) /\ stream \in Seq(Byte) /\ Len(stream) \in Nat
  BY <1>1, LenProperties DEF TypeOK, HandledInOrder
<1>3. ASSUME k < Len(sent) PROVE FALSE
  <2>1. k + 1 \in 1 .. Len(sent) /\ (k + 1) - 1 = k /\ k \in 0 .. Len(sent)
    BY <1>2, <1>3
  <2>2. p \in GoodPackets /\ p \in Packets
    BY <2>1 DEF Packets
  <2>3. Len(p) \in Nat /\ HeaderSize <= Len(p) /\ p[1] = Len(p) /\ 1 <= Len(p)
    BY <2>2, PacketProperties
  <2>4. p \notin MalformedPackets
    <3>1. ASSUME p \in MalformedPackets PROVE FALSE
      BY <2>2, <2>3, <3>1, PacketProperties, HeaderAssumption
    <3> QED BY <3>1
  <2>5. dropped = 0
    BY <1>1, <2>4 DEF BufferHoldsRest
  <2>6. off \in Nat /\ off <= Len(stream) /\ Contents(rb) = SubSeq(stream, off + 1, Len(stream))
    BY <1>1, <2>1, <2>5, OffsetsInStream DEF BufferHoldsRest
  <2>7. Len(Contents(rb)) = Len(stream) - off
    <3> HIDE DEF off
    <3> QED BY <1>2, <2>6, SubSeqAt
  <2>8. Offset(bound, k + 1) = off + Len(p) /\ Offset(bound, k + 1) <= Len(stream)
    BY <1>1, <2>1 DEF Framing
  <2>9. Len(p) <= Len(Contents(rb))
    <3> DEFINE m == Len(p)
               l == Len(stream)
    <3>1. m \in Nat /\ l \in Nat /\ off \in Nat /\ off + m <= l
      BY <1>2, <2>3, <2>6, <2>8
    <3> HIDE DEF m, l, off
    <3>2. m <= l - off
      BY <3>1
    <3> QED BY <2>7, <3>2 DEF m, l
  <2>10. HeaderSize <= Len(Contents(rb))
    BY <1>1, <2>3, <2>9, HeaderAssumption, CompleteMeaning
  <2>11. Contents(rb)[1] = p[1]
    BY <1>1, <2>5, <2>10, NextPacket
  <2> QED BY <1>1, <2>3, <2>9, <2>10, <2>11, CompleteMeaning
<1>4. k = Len(sent)
  BY <1>2, <1>3
<1>5. handled = [i \in 1 .. Len(sent) |-> sent[i]]
  <2>1. handled = [i \in 1 .. Len(handled) |-> handled[i]]
    BY <1>1 DEF TypeOK
  <2>2. \A i \in 1 .. Len(handled) : handled[i] = sent[i]
    BY <1>1 DEF HandledInOrder
  <2> QED BY <1>4, <2>1, <2>2
<1>6. sent = [i \in 1 .. Len(sent) |-> sent[i]]
  BY <1>2
<1> QED BY <1>5, <1>6

\* A peer that closes its side normally has had all its packets handled.
THEOREM CloseIsGraceful == Spec => []CloseLosesNothing
BY CloseStep, TcpStreamInvariant, PTL

\* A malformed packet at the head of the buffer ends the connection's useful life.
THEOREM StallPermanence == Spec => StallIsPermanent
<1>1. IInv /\ [Next]_vars => [Stalled => Stalled' /\ UNCHANGED handled]_vars
  <2> SUFFICES ASSUME IInv, Next, Stalled PROVE Stalled' /\ UNCHANGED handled
    OBVIOUS
  <2>1. ASSUME UNCHANGED <<rb, handled>> PROVE Stalled' /\ UNCHANGED handled
    BY <2>1 DEF Stalled
  <2>2. ASSUME NEW p \in Packets, PeerSend(p) PROVE UNCHANGED <<rb, handled>>
    BY <2>2 DEF PeerSend
  <2>3. ASSUME PeerClose \/ PeerReset PROVE UNCHANGED <<rb, handled>>
    BY <2>3 DEF PeerClose, PeerReset
  <2>4. ASSUME NEW n \in 1 .. MaxRecv, RecvData(n) PROVE Stalled' /\ UNCHANGED handled
    BY <2>4, StalledUnderRecv DEF IInv, RecvData
  <2>5. ASSUME HandlePacket PROVE FALSE
    BY <2>5, StalledIncomplete DEF IInv, HandlePacket
  <2>6. ASSUME StopDrain \/ RecvEof \/ RecvError PROVE UNCHANGED <<rb, handled>>
    BY <2>6 DEF StopDrain, RecvEof, RecvError
  <2> QED BY <2>1, <2>2, <2>3, <2>4, <2>5, <2>6 DEF Next, Server
<1> QED BY <1>1, TcpStreamInvariant, PTL DEF Spec, StallIsPermanent

\* The connection implements the safety part of an ideal packet channel.
THEOREM ImplementsChannelSafely == Spec => Channel!SafeSpec
<1>1. Init => Channel!Init
  BY DEF Init, Channel!Init
<1>2. IInv /\ [Next]_vars => [Channel!Next]_(Channel!vars)
  <2> SUFFICES ASSUME IInv, [Next]_vars PROVE [Channel!Next]_(Channel!vars)
    OBVIOUS
  <2>1. ASSUME NEW p \in Packets, PeerSend(p) PROVE Channel!Send(p)
    BY <2>1 DEF PeerSend, Channel!Send
  <2>2. ASSUME PeerClose PROVE UNCHANGED Channel!vars
    BY <2>2 DEF PeerClose, Channel!vars
  <2>3. ASSUME PeerReset PROVE Channel!Break
    BY <2>3 DEF PeerReset, Channel!Break
  <2>4. ASSUME UNCHANGED <<sent, handled, peer>> PROVE UNCHANGED Channel!vars
    BY <2>4 DEF Channel!vars
  <2>5. ASSUME NEW n \in 1 .. MaxRecv, RecvData(n) PROVE UNCHANGED <<sent, handled, peer>>
    BY <2>5 DEF RecvData
  <2>6. ASSUME HandlePacket PROVE Channel!Handle
    <3>1. /\ Len(handled) + 1 \in 1 .. Len(sent)
          /\ sent[Len(handled) + 1] \in GoodPackets
          /\ handled' = Append(handled, sent[Len(handled) + 1])
          /\ Len(handled) \in Nat
      BY <2>6, HandledIsNext
    <3>2. Len(handled) < Len(sent)
      BY <3>1, LenProperties DEF IInv, TypeOK
    <3>3. UNCHANGED <<sent, peer>>
      BY <2>6 DEF HandlePacket
    <3> QED BY <3>1, <3>2, <3>3 DEF Channel!Handle, Channel!NextUp
  <2>7. ASSUME StopDrain \/ RecvEof \/ RecvError \/ UNCHANGED vars
        PROVE  UNCHANGED <<sent, handled, peer>>
    BY <2>7 DEF StopDrain, RecvEof, RecvError, vars
  <2> QED
    BY <2>1, <2>2, <2>3, <2>4, <2>5, <2>6, <2>7
       DEF Next, Server, Packets, Channel!Next
<1> QED BY <1>1, <1>2, TcpStreamInvariant, PTL DEF Spec, Channel!SafeSpec
=============================================================================
