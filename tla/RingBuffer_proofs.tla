--------------------------- MODULE RingBuffer_proofs ---------------------------
(***************************************************************************)
(* What each operation of the ring buffer does to its cursors and to its   *)
(* contents, for every capacity and every byte set.                        *)
(***************************************************************************)
EXTENDS RingBuffer, TLAPS

\* uint32 arithmetic is ordinary arithmetic below UintRange.
LEMMA UintSmall ==
  ASSUME NEW n \in Nat, n < UintRange
  PROVE  U(n) = n
BY UintAssumption DEF U

\* A record whose fields are in range is a well-formed buffer.
LEMMA WellFormedRecord ==
  ASSUME NEW b \in Storage, NEW s \in Nat, NEW e \in Nat, s <= e, e < Capacity
  PROVE  /\ WellFormed([buffer |-> b, start |-> s, end |-> e])
         /\ Contents([buffer |-> b, start |-> s, end |-> e])
              = [i \in 1 .. e - s |-> b[s + i - 1]]
<1>1. s \in 0 .. UintRange - 1 /\ e \in 0 .. UintRange - 1
  BY UintAssumption, CapacityAssumption
<1> QED BY <1>1 DEF WellFormed, Buffer, Contents

\* ring_buffer_init() makes a well-formed buffer that holds nothing.
LEMMA EmptyBufferWellFormed ==
  WellFormed(EmptyBuffer) /\ Contents(EmptyBuffer) = << >>
BY ByteAssumption, CapacityAssumption, UintAssumption
   DEF WellFormed, EmptyBuffer, Buffer, Storage, Contents

\* The cursors of a well-formed buffer are small enough not to wrap.
LEMMA LengthOfWellFormed ==
  ASSUME NEW rb, WellFormed(rb)
  PROVE  /\ rb.start \in Nat /\ rb.end \in Nat
         /\ rb.start <= rb.end /\ rb.end < Capacity
         /\ rb.buffer \in Storage
         /\ CurrentLength(rb) = rb.end - rb.start
         /\ Contents(rb) \in Seq(Byte)
         /\ Len(Contents(rb)) = rb.end - rb.start
<1>1. /\ rb.start \in Nat /\ rb.end \in Nat /\ rb.start <= rb.end /\ rb.end < Capacity
      /\ rb.buffer \in Storage
  BY UintAssumption DEF WellFormed, Buffer
<1>2. rb.end - rb.start \in Nat /\ rb.end - rb.start < UintRange
  BY <1>1, UintAssumption, CapacityAssumption
<1>3. CurrentLength(rb) = rb.end - rb.start
  BY <1>2, UintSmall DEF CurrentLength
<1>4. \A i \in 1 .. rb.end - rb.start : rb.buffer[rb.start + i - 1] \in Byte
  BY <1>1, CapacityAssumption DEF Storage
<1>5. Contents(rb) \in Seq(Byte) /\ Len(Contents(rb)) = rb.end - rb.start
  BY <1>2, <1>4 DEF Contents
<1> QED BY <1>1, <1>3, <1>5

\* The indices of the live bytes.
LEMMA LiveIndex ==
  ASSUME NEW s \in Nat, NEW e \in Nat, NEW c \in Nat, NEW i \in Int,
         e < c, 1 <= i, i <= e - s
  PROVE  s + i - 1 \in 0 .. c - 1 /\ s + i - 1 < e
OBVIOUS

\* The indices of n bytes behind the live ones, and where they come from.
LEMMA FreshIndex ==
  ASSUME NEW s \in Nat, NEW e \in Nat, NEW n \in Nat, NEW c \in Nat, NEW i \in Int,
         s <= e, e + n < c, 1 <= i, ~(i <= e - s), i <= (e + n) - s
  PROVE  /\ s + i - 1 \in 0 .. c - 1
         /\ e <= s + i - 1 /\ s + i - 1 < e + n
         /\ ((s + i - 1) - e) + 1 = i - (e - s)
<1>1. /\ 0 <= s + i - 1 /\ s + i - 1 <= c - 1
      /\ e <= s + i - 1 /\ s + i - 1 < e + n
  OBVIOUS
<1>2. ((s + i - 1) - e) + 1 = i - (e - s)
  OBVIOUS
<1> QED BY <1>1, <1>2

\* A roll moves the live bytes to the front and changes none of them.
LEMMA RollCorrect ==
  ASSUME NEW rb, WellFormed(rb)
  PROVE  /\ WellFormed(Roll(rb))
         /\ Roll(rb).start = 0
         /\ Roll(rb).end = rb.end - rb.start
         /\ Contents(Roll(rb)) = Contents(rb)
<1> DEFINE length == rb.end - rb.start
           r == Roll(rb)
<1>1. /\ rb.start \in Nat /\ rb.end \in Nat /\ rb.start <= rb.end /\ rb.end < Capacity
      /\ rb.buffer \in Storage
      /\ CurrentLength(rb) = length
  BY LengthOfWellFormed
<1> DEFINE b == [i \in 0 .. Capacity - 1 |->
                    IF i < length THEN rb.buffer[rb.start + i] ELSE rb.buffer[i]]
<1>2. r = [buffer |-> b, start |-> 0, end |-> length]
  BY <1>1 DEF Roll
<1>3. b \in Storage
  <2>1. ASSUME NEW i \in 0 .. Capacity - 1, i < length
        PROVE  rb.start + i \in 0 .. Capacity - 1
    BY <1>1, <2>1, CapacityAssumption
  <2> QED BY <1>1, <2>1 DEF Storage
<1>4. length \in Nat /\ 0 <= length /\ length < Capacity
  BY <1>1, CapacityAssumption
<1> HIDE DEF b
<1>5. /\ WellFormed(r)
      /\ Contents(r) = [i \in 1 .. length - 0 |-> b[0 + i - 1]]
  BY <1>2, <1>3, <1>4, WellFormedRecord
<1>6. \A i \in 1 .. length : b[0 + i - 1] = rb.buffer[rb.start + i - 1]
  BY <1>1, <1>4, CapacityAssumption DEF b
<1>7. Contents(r) = [i \in 1 .. length |-> rb.buffer[rb.start + i - 1]]
  BY <1>4, <1>5, <1>6
<1>8. r.start = 0 /\ r.end = length
  BY <1>2
<1> QED BY <1>5, <1>7, <1>8 DEF Contents

\* Where there is room behind the live bytes, the block is appended to them.
LEMMA PutCorrect ==
  ASSUME NEW rb, WellFormed(rb),
         NEW data \in Seq(Byte), rb.end + Len(data) < Capacity
  PROVE  /\ WellFormed(Put(rb, data))
         /\ Contents(Put(rb, data)) = Contents(rb) \o data
<1> DEFINE n == Len(data)
           p == Put(rb, data)
<1>1. /\ rb.start \in Nat /\ rb.end \in Nat /\ rb.start <= rb.end /\ rb.end < Capacity
      /\ rb.buffer \in Storage /\ n \in Nat
      /\ Contents(rb) \in Seq(Byte) /\ Len(Contents(rb)) = rb.end - rb.start
  BY LengthOfWellFormed
<1>2. rb.end + n \in Nat /\ U(rb.end + n) = rb.end + n
  BY <1>1, UintSmall, UintAssumption, CapacityAssumption
<1> DEFINE b == [i \in 0 .. Capacity - 1 |->
                    IF rb.end <= i /\ i < rb.end + n
                    THEN data[(i - rb.end) + 1] ELSE rb.buffer[i]]
<1>3. p = [buffer |-> b, start |-> rb.start, end |-> rb.end + n]
  BY <1>2 DEF Put
<1>4. b \in Storage
  BY <1>1, CapacityAssumption DEF Storage
<1>4a. /\ rb.end + n \in Nat /\ rb.start <= rb.end + n
       /\ rb.end + n < Capacity
  BY <1>1, CapacityAssumption
<1> HIDE DEF b, p, n
<1>5. /\ WellFormed(p)
      /\ Contents(p) = [i \in 1 .. (rb.end + n) - rb.start |-> b[rb.start + i - 1]]
  <2> DEFINE e == rb.end + n
  <2>1. e \in Nat /\ rb.start <= e /\ e < Capacity /\ p = [buffer |-> b, start |-> rb.start, end |-> e]
    BY <1>3, <1>4a
  <2> HIDE DEF e
  <2>2. /\ WellFormed(p)
        /\ Contents(p) = [i \in 1 .. e - rb.start |-> b[rb.start + i - 1]]
    BY <1>1, <1>4, <2>1, WellFormedRecord
  <2> QED BY <2>2 DEF e
<1>6. /\ Contents(p) \in Seq(Byte) /\ Len(Contents(p)) = (rb.end + n) - rb.start
  BY <1>3, <1>5, LengthOfWellFormed
<1>7. /\ Contents(rb) \o data \in Seq(Byte)
      /\ Len(Contents(rb) \o data) = (rb.end + n) - rb.start
  BY <1>1 DEF n
<1>8. ASSUME NEW i \in 1 .. (rb.end + n) - rb.start
      PROVE  Contents(p)[i] = (Contents(rb) \o data)[i]
  <2>0. /\ i \in Int /\ 1 <= i /\ (rb.end + n) - rb.start \in Int
        /\ i <= (rb.end + n) - rb.start
    BY <1>1
  <2>1. Contents(p)[i] = b[rb.start + i - 1]
    BY <1>5
  <2>2. CASE i <= rb.end - rb.start
    <3>1. /\ rb.start + i - 1 \in 0 .. Capacity - 1
          /\ rb.start + i - 1 < rb.end
      BY <1>1, <2>0, <2>2, CapacityAssumption, LiveIndex
    <3>2. b[rb.start + i - 1] = rb.buffer[rb.start + i - 1]
      BY <1>1, <3>1 DEF b
    <3>3. Contents(rb)[i] = rb.buffer[rb.start + i - 1]
      BY <1>1, <2>2 DEF Contents
    <3> QED BY <1>1, <2>1, <2>2, <3>2, <3>3
  <2>3. CASE ~(i <= rb.end - rb.start)
    <3> DEFINE j == rb.start + i - 1
               l == rb.end - rb.start
               c == Contents(rb)
    <3>1. /\ rb.start \in Nat /\ rb.end \in Nat /\ n \in Nat /\ Capacity \in Nat /\ i \in Int
          /\ rb.start <= rb.end /\ rb.end + n < Capacity /\ 1 <= i
          /\ ~(i <= rb.end - rb.start) /\ i <= (rb.end + n) - rb.start
      BY <1>1, <1>4a, <2>0, <2>3, CapacityAssumption
    <3>2. /\ j \in 0 .. Capacity - 1 /\ rb.end <= j /\ j < rb.end + n
          /\ (j - rb.end) + 1 = i - l
      <4> DEFINE start == rb.start
                 end == rb.end
      <4>1. /\ start \in Nat /\ end \in Nat /\ n \in Nat /\ Capacity \in Nat /\ i \in Int
            /\ start <= end /\ end + n < Capacity /\ 1 <= i
            /\ ~(i <= end - start) /\ i <= (end + n) - start
        BY <3>1
      <4> HIDE DEF start, end
      <4>2. /\ start + i - 1 \in 0 .. Capacity - 1
            /\ end <= start + i - 1 /\ start + i - 1 < end + n
            /\ ((start + i - 1) - end) + 1 = i - (end - start)
        BY <4>1, FreshIndex
      <4> QED BY <4>2 DEF start, end
    <3>3. Contents(p)[i] = b[j]
      BY <2>1
    <3>4. /\ c \in Seq(Byte) /\ Len(c) = l /\ l \in Nat
          /\ i \in 1 .. l + n /\ ~(i <= l)
      BY <1>1, <3>1
    <3> HIDE DEF j, l, c
    <3>5. b[j] = data[i - l]
      BY <3>2 DEF b
    <3>6. (c \o data)[i] = data[i - l]
      BY <3>4 DEF n
    <3> QED BY <3>3, <3>5, <3>6 DEF c
  <2> QED BY <1>1, <2>0, <2>2, <2>3
<1>9. Contents(p) = Contents(rb) \o data
  BY <1>6, <1>7, <1>8
<1> QED BY <1>5, <1>9 DEF p

\* A push is refused exactly when the live bytes and the block together reach the
\* capacity; whatever it answers, the buffer holds what a queue would hold.
LEMMA PushCorrect ==
  ASSUME NEW rb, WellFormed(rb),
         NEW data \in Seq(Byte), Len(data) <= Capacity
  PROVE  /\ WellFormed(Push(rb, data).rb)
         /\ Push(rb, data).ok \in BOOLEAN
         /\ Push(rb, data).ok <=> Len(Contents(rb)) + Len(data) < Capacity
         /\ Push(rb, data).ok => Contents(Push(rb, data).rb) = Contents(rb) \o data
         /\ ~Push(rb, data).ok => Contents(Push(rb, data).rb) = Contents(rb)
<1> DEFINE n == Len(data)
           room == IF Fits(rb, n) THEN rb ELSE Roll(rb)
<1>1. /\ rb.start \in Nat /\ rb.end \in Nat /\ rb.start <= rb.end /\ rb.end < Capacity
      /\ n \in Nat /\ Len(Contents(rb)) = rb.end - rb.start
  BY LengthOfWellFormed
<1>2. ASSUME NEW b, WellFormed(b)
      PROVE  Fits(b, n) <=> b.end + n < Capacity
  <2>1. b.end \in Nat /\ b.end < Capacity
    BY <1>2, LengthOfWellFormed
  <2>2. b.end + n \in Nat /\ b.end + n < UintRange
    BY <1>1, <2>1, UintAssumption, CapacityAssumption
  <2> QED BY <2>2, UintSmall DEF Fits
<1>3. /\ WellFormed(Roll(rb)) /\ Roll(rb).end = rb.end - rb.start
      /\ Contents(Roll(rb)) = Contents(rb)
  BY RollCorrect
<1>4. WellFormed(room) /\ Contents(room) = Contents(rb)
  BY <1>3
<1>5. Fits(room, n) <=> Len(Contents(rb)) + n < Capacity
  <2>1. CASE Fits(rb, n)
    BY <1>1, <1>2, <2>1, CapacityAssumption
  <2>2. CASE ~Fits(rb, n)
    <3>1. room = Roll(rb)
      BY <2>2
    <3> QED BY <1>1, <1>2, <1>3, <3>1
  <2> QED BY <2>1, <2>2
<1>6. CASE Fits(room, n)
  <2>1. Push(rb, data) = [ok |-> TRUE, rb |-> Put(room, data)]
    BY <1>6 DEF Push
  <2>2. /\ WellFormed(Put(room, data))
        /\ Contents(Put(room, data)) = Contents(rb) \o data
    BY <1>2, <1>4, <1>6, PutCorrect
  <2> QED BY <1>5, <1>6, <2>1, <2>2
<1>7. CASE ~Fits(room, n)
  <2>1. Push(rb, data) = [ok |-> FALSE, rb |-> room]
    BY <1>7 DEF Push
  <2> QED BY <1>4, <1>5, <1>7, <2>1
<1> QED BY <1>6, <1>7

\* Advancing by no more than what is there drops exactly that many bytes.
LEMMA AdvanceCorrect ==
  ASSUME NEW rb, WellFormed(rb),
         NEW n \in 0 .. rb.end - rb.start
  PROVE  /\ WellFormed(Advance(rb, n))
         /\ Contents(Advance(rb, n)) = SubSeq(Contents(rb), n + 1, Len(Contents(rb)))
<1> DEFINE a == Advance(rb, n)
<1>1. /\ rb.start \in Nat /\ rb.end \in Nat /\ rb.start <= rb.end /\ rb.end < Capacity
      /\ rb.buffer \in Storage
      /\ Contents(rb) \in Seq(Byte) /\ Len(Contents(rb)) = rb.end - rb.start
  BY LengthOfWellFormed
<1>2. n \in Nat /\ U(rb.start + n) = rb.start + n
  BY <1>1, UintSmall, UintAssumption, CapacityAssumption
<1>3. rb = [buffer |-> rb.buffer, start |-> rb.start, end |-> rb.end]
  BY DEF WellFormed, Buffer
<1>4. a = [buffer |-> rb.buffer, start |-> rb.start + n, end |-> rb.end]
  BY <1>2, <1>3 DEF Advance
<1>4a. rb.start + n \in Nat /\ rb.start + n <= rb.end
  BY <1>1, <1>2
<1> HIDE DEF a
<1>5. /\ WellFormed(a)
      /\ Contents(a) = [i \in 1 .. rb.end - (rb.start + n) |->
                           rb.buffer[(rb.start + n) + i - 1]]
  BY <1>1, <1>4, <1>4a, WellFormedRecord
<1>6. Contents(a) \in Seq(Byte) /\ Len(Contents(a)) = rb.end - rb.start - n
  BY <1>1, <1>2, <1>4, <1>5, LengthOfWellFormed
<1>7. ASSUME NEW i \in 1 .. rb.end - rb.start - n
      PROVE  Contents(a)[i] = Contents(rb)[i + n]
  <2>1. /\ i \in 1 .. rb.end - (rb.start + n)
        /\ i + n \in 1 .. rb.end - rb.start
        /\ (rb.start + n) + i - 1 = rb.start + (i + n) - 1
    BY <1>1, <1>2
  <2> QED BY <1>5, <2>1 DEF Contents
<1>8. /\ SubSeq(Contents(rb), n + 1, Len(Contents(rb)))
           = [i \in 1 .. rb.end - rb.start - n |-> Contents(rb)[i + n]]
  BY <1>1, <1>2
<1>9. Contents(a) = [i \in 1 .. rb.end - rb.start - n |-> Contents(a)[i]]
  <2>1. rb.end - (rb.start + n) = rb.end - rb.start - n
    BY <1>1, <1>2
  <2> QED BY <1>5, <2>1
<1> QED BY <1>5, <1>7, <1>8, <1>9 DEF a
=============================================================================
