------------------------------ MODULE RingBuffer ------------------------------
(***************************************************************************)
(* The byte buffer that each client record keeps between two reads of its  *)
(* TCP socket (src/src/net/ring_buffer.c).  Despite its name it is not a   *)
(* circular buffer: start and end only grow, and a push that would reach   *)
(* the end of the storage first moves the live bytes back to offset 0.     *)
(*                                                                         *)
(* A buffer is a value, so that a client record can hold one; the          *)
(* operators below are the functions of the source.  RingBufferSpec makes  *)
(* a state machine of them and TcpStream uses them inside a connection.    *)
(***************************************************************************)
EXTENDS Naturals, Integers, Sequences

CONSTANTS
    Byte,       \* the values of a byte
    ZeroByte,   \* what bzero() stores
    Capacity,   \* ring_buffer.capacity
    UintRange   \* 2^32: start, end and every length are uint32

ASSUME ByteAssumption == ZeroByte \in Byte
ASSUME CapacityAssumption == Capacity \in Nat \ {0}
ASSUME UintAssumption == UintRange \in Nat /\ UintRange > 2 * Capacity

\* Arithmetic on uint32.
U(n) == n % UintRange

Storage == [0 .. Capacity - 1 -> Byte]

Buffer == [buffer : Storage, start : 0 .. UintRange - 1, end : 0 .. UintRange - 1]

EmptyBuffer == [buffer |-> [i \in 0 .. Capacity - 1 |-> ZeroByte], start |-> 0, end |-> 0]

CurrentLength(rb) == U(rb.end - rb.start)

\* Mutant of Roll: the cursors are reset, the bytes are not moved.
RollWithoutMove(rb) == [rb EXCEPT !.start = 0, !.end = CurrentLength(rb)]

\* memmove() the live bytes to offset 0; the bytes behind them keep their value.
Roll(rb) ==
    LET length == CurrentLength(rb)
    IN  [buffer |-> [i \in 0 .. Capacity - 1 |->
                        IF i < length THEN rb.buffer[rb.start + i] ELSE rb.buffer[i]],
         start |-> 0,
         end |-> length]

\* The test of push is >=: one byte of the storage is never used.
Fits(rb, n) == U(rb.end + n) < Capacity

\* memcpy() the data behind the live bytes.
Put(rb, data) ==
    [buffer |-> [i \in 0 .. Capacity - 1 |->
                    IF rb.end <= i /\ i < rb.end + Len(data)
                    THEN data[i - rb.end + 1]
                    ELSE rb.buffer[i]],
     start |-> rb.start,
     end |-> U(rb.end + Len(data))]

\* Mutant of Push: a block that does not fit behind the live bytes is refused.
PushWithoutRoll(rb, data) ==
    IF Fits(rb, Len(data))
    THEN [ok |-> TRUE,  rb |-> Put(rb, data)]
    ELSE [ok |-> FALSE, rb |-> rb]

\* A failed push has rolled the buffer all the same.
Push(rb, data) ==
    LET room == IF Fits(rb, Len(data)) THEN rb ELSE Roll(rb)
    IN  IF Fits(room, Len(data))
        THEN [ok |-> TRUE,  rb |-> Put(room, data)]
        ELSE [ok |-> FALSE, rb |-> room]

\* advance() checks nothing: it is the caller that keeps start <= end.
Advance(rb, n) == [rb EXCEPT !.start = U(@ + n)]

\* The byte at offset i of what ring_buffer_get() points to.
Get(rb, i) == rb.buffer[rb.start + i]

-----------------------------------------------------------------------------
\* The cursors stay in the storage and in order, so no operation wraps around
\* and none touches memory outside the storage.
WellFormed(rb) == rb \in Buffer /\ rb.start <= rb.end /\ rb.end < Capacity

\* What the buffer holds for its user.
Contents(rb) == [i \in 1 .. rb.end - rb.start |-> rb.buffer[rb.start + i - 1]]
=============================================================================
