------------------------- MODULE RingBufferSpec_proofs -------------------------
(***************************************************************************)
(* The ring buffer stays well formed, and it implements a byte queue.      *)
(***************************************************************************)
EXTENDS RingBufferSpec, RingBuffer_proofs

\* The buffer of a new client is well formed.
LEMMA InitTypeOK == Init => TypeOK
BY EmptyBufferWellFormed DEF Init, TypeOK

\* What recv() returns is a block that PushCorrect speaks of.
LEMMA BlockIsData ==
  ASSUME NEW data \in Block
  PROVE  data \in Seq(Byte) /\ Len(data) <= Capacity
BY DEF Block

\* No push and no advance of what is there leaves the storage.
LEMMA NextTypeOK == TypeOK /\ [Next]_vars => TypeOK'
<1> SUFFICES ASSUME TypeOK, [Next]_vars PROVE TypeOK'
  OBVIOUS
<1>1. ASSUME NEW data \in Block, PushBlock(data) PROVE TypeOK'
  BY <1>1, BlockIsData, PushCorrect DEF TypeOK, PushBlock
<1>2. ASSUME NEW n \in 1 .. CurrentLength(rb), AdvanceBy(n) PROVE TypeOK'
  <2>1. n \in 0 .. rb.end - rb.start
    BY LengthOfWellFormed DEF TypeOK
  <2> QED BY <1>2, <2>1, AdvanceCorrect DEF TypeOK, AdvanceBy
<1>3. CASE UNCHANGED vars
  BY <1>3 DEF vars, TypeOK
<1> QED BY <1>1, <1>2, <1>3 DEF Next

\* The cursors never leave the storage, whatever is pushed and consumed.
THEOREM RingBufferTypeCorrect == Spec => []TypeOK
<1>1. Init => TypeOK
  BY InitTypeOK
<1>2. TypeOK /\ [Next]_vars => TypeOK'
  BY NextTypeOK
<1> QED BY <1>1, <1>2, PTL DEF Spec

\* The ring buffer is a byte queue: no push is lost to garbage in front of start,
\* and rolling, refusing and advancing never lose, repeat or reorder a byte.
THEOREM RingBufferImplementsQueue == Spec => ImplementsQueue
<1>1. Init => Queue!Init
  BY EmptyBufferWellFormed DEF Init, Queue!Init
<1>2. TypeOK /\ [Next]_vars => [Queue!Next]_<<Contents(rb), accepted>>
  <2> SUFFICES ASSUME TypeOK, [Next]_vars
               PROVE  [Queue!Next]_<<Contents(rb), accepted>>
    OBVIOUS
  <2>1. ASSUME NEW data \in Block, PushBlock(data)
        PROVE  Queue!Accept(data) \/ Queue!Refuse(data)
    <3>1. data \in Seq(Byte) /\ Len(data) <= Capacity
      BY BlockIsData
    <3>2. CASE Push(rb, data).ok
      <4>1. accepted' = TRUE
        BY <2>1, <3>2, <3>1, PushCorrect DEF TypeOK, PushBlock
      <4>2. Contents(rb)' = Contents(rb) \o data /\ Queue!HasRoom(data)
        BY <2>1, <3>1, <3>2, PushCorrect DEF TypeOK, PushBlock, Queue!HasRoom
      <4> QED BY <4>1, <4>2 DEF Queue!Accept
    <3>3. CASE ~Push(rb, data).ok
      <4>1. accepted' = FALSE
        BY <2>1, <3>3, <3>1, PushCorrect DEF TypeOK, PushBlock
      <4>2. Contents(rb)' = Contents(rb) /\ ~Queue!HasRoom(data)
        BY <2>1, <3>1, <3>3, PushCorrect DEF TypeOK, PushBlock, Queue!HasRoom
      <4> QED BY <4>1, <4>2 DEF Queue!Refuse
    <3> QED BY <3>2, <3>3
  <2>2. ASSUME NEW n \in 1 .. CurrentLength(rb), AdvanceBy(n)
        PROVE  n \in 1 .. Len(Contents(rb)) /\ Queue!Dequeue(n)
    <3>1. n \in 0 .. rb.end - rb.start /\ n \in 1 .. Len(Contents(rb))
      BY LengthOfWellFormed DEF TypeOK
    <3> QED BY <2>2, <3>1, AdvanceCorrect DEF TypeOK, AdvanceBy, Queue!Dequeue
  <2>3. CASE UNCHANGED vars
    BY <2>3 DEF vars
  <2> QED BY <2>1, <2>2, <2>3 DEF Next, Queue!Next
<1> QED BY <1>1, <1>2, RingBufferTypeCorrect, PTL DEF Spec, ImplementsQueue, Queue!Spec
=============================================================================
