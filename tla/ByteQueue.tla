------------------------------- MODULE ByteQueue -------------------------------
(***************************************************************************)
(* What the ring buffer promises to the server: a first-in first-out queue *)
(* of bytes that takes a block whole exactly when it stays below Capacity  *)
(* bytes, and refuses it whole otherwise.  Where the bytes lie in the      *)
(* storage, and when they are moved, cannot be observed.                   *)
(***************************************************************************)
EXTENDS Naturals, Sequences

CONSTANTS
    Byte,
    Capacity,
    Block       \* the blocks of bytes that may be pushed

VARIABLES
    queue,      \* the bytes pushed and not yet consumed
    accepted    \* the answer of the last push

Init == queue = << >> /\ accepted = TRUE

HasRoom(data) == Len(queue) + Len(data) < Capacity

Accept(data) == HasRoom(data) /\ queue' = queue \o data /\ accepted' = TRUE

Refuse(data) == ~HasRoom(data) /\ UNCHANGED queue /\ accepted' = FALSE

Dequeue(n) ==
    /\ queue' = SubSeq(queue, n + 1, Len(queue))
    /\ UNCHANGED accepted

Next ==
    \/ \E data \in Block : Accept(data) \/ Refuse(data)
    \/ \E n \in 1 .. Len(queue) : Dequeue(n)

Spec == Init /\ [][Next]_<<queue, accepted>>
=============================================================================
