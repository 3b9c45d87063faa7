---------------------------- MODULE RingBufferSpec ----------------------------
(***************************************************************************)
(* A ring buffer under the calls the server makes: blocks of bytes are     *)
(* pushed, and no more than what is there is consumed.  It implements      *)
(* ByteQueue.                                                              *)
(***************************************************************************)
EXTENDS RingBuffer

\* The blocks recv() may return: one at least, for 0 is the end of the stream.
Block == { d \in Seq(Byte) : Len(d) > 0 /\ Len(d) <= Capacity }

VARIABLES
    rb,         \* the ring_buffer
    accepted    \* what the last ring_buffer_push() returned

vars == <<rb, accepted>>

Init == rb = EmptyBuffer /\ accepted = TRUE

PushBlock(data) ==
    /\ rb' = Push(rb, data).rb
    /\ accepted' = Push(rb, data).ok

AdvanceBy(n) ==
    /\ n <= CurrentLength(rb)
    /\ rb' = Advance(rb, n)
    /\ UNCHANGED accepted

Next ==
    \/ \E data \in Block : PushBlock(data)
    \/ \E n \in 1 .. CurrentLength(rb) : AdvanceBy(n)

Spec == Init /\ [][Next]_vars

-----------------------------------------------------------------------------
\* The cursors stay in order and inside the storage: memmove, memcpy and the
\* reads of the parser never leave the malloc-ed block, and no uint32 wraps.
TypeOK == WellFormed(rb) /\ accepted \in BOOLEAN

\* Every push and advance is the step of an ideal byte queue of the same
\* capacity.  In particular the garbage left in front of start never makes a
\* push fail, and moving the live bytes never loses or reorders one.
Queue == INSTANCE ByteQueue WITH queue <- Contents(rb)
ImplementsQueue == Queue!Spec
=============================================================================
