------------------------------- MODULE TcpStream -------------------------------
(***************************************************************************)
(* One TCP connection of the server, from accept() to the removal of its   *)
(* client record (src/src/server/minimote_server.c).  TCP delivers a       *)
(* stream of bytes that recv() cuts anywhere; the server collects them in  *)
(* the ring buffer of the client record and takes the packets off it.      *)
(*                                                                         *)
(* The server takes one pass of its loop over a connection as              *)
(*   RecvData . (HandlePacket)* . StopDrain                                *)
(* and the peer may send, close or reset at any moment in between.         *)
(***************************************************************************)
EXTENDS RingBuffer, MinimotePacket

CONSTANTS
    GoodPackets,        \* the packets the peer may send ...
    MalformedPackets,   \* ... and those whose length byte is below HeaderSize
    MaxLength,          \* the largest value of a byte: no packet is longer
    MaxRecv,            \* MAX_PACKET_LENGTH: the most one recv() returns
    MaxPackets          \* bound: how many packets the peer sends

ASSUME LengthAssumption ==
    /\ MaxLength \in Nat /\ HeaderSize <= MaxLength
    /\ Byte \subseteq 0 .. MaxLength

ASSUME PacketAssumption ==
    /\ GoodPackets \subseteq
         { p \in Seq(Byte) : HeaderSize <= Len(p) /\ p[1] = Len(p) }
    /\ MalformedPackets \subseteq
         { p \in Seq(Byte) : HeaderSize <= Len(p) /\ p[1] < HeaderSize }

\* The buffer holds an incomplete packet and one more read: 8192 against 255 + 64.
ASSUME RecvAssumption ==
    /\ MaxRecv \in Nat \ {0}
    /\ MaxPackets \in Nat
    /\ MaxLength + MaxRecv <= Capacity

VARIABLES
    sent,       \* history: the packets the peer has sent
    stream,     \* history: their bytes, one behind the other
    bound,      \* history: bound[i] is how many bytes the first i packets have
    peer,       \* what the peer did to the connection: "open", "closed", "reset"
    arrived,    \* how many bytes of the stream recv() has returned
    rb,         \* client->tcp_buffer
    pc,         \* where the server is: "select", "drain", "gone"
    handled,    \* history: the packets handed to handle_packet_from_client()
    dropped     \* history: how many bytes ring_buffer_push() has refused

vars == <<sent, stream, bound, peer, arrived, rb, pc, handled, dropped>>

Packets == GoodPackets \cup MalformedPackets

Init ==
    /\ sent = << >> /\ stream = << >> /\ bound = << >> /\ peer = "open"
    /\ arrived = 0
    /\ rb = EmptyBuffer
    /\ pc = "select"
    /\ handled = << >>
    /\ dropped = 0

-----------------------------------------------------------------------------
(* The peer and TCP. *)

PeerSend(p) ==
    /\ peer = "open"
    /\ Len(sent) < MaxPackets
    /\ sent' = Append(sent, p)
    /\ stream' = stream \o p
    /\ bound' = Append(bound, Len(stream) + Len(p))
    /\ UNCHANGED <<peer, arrived, rb, pc, handled, dropped>>

PeerClose ==
    /\ peer = "open"
    /\ peer' = "closed"
    /\ UNCHANGED <<sent, stream, bound, arrived, rb, pc, handled, dropped>>

PeerReset ==
    /\ peer = "open"
    /\ peer' = "reset"
    /\ UNCHANGED <<sent, stream, bound, arrived, rb, pc, handled, dropped>>

-----------------------------------------------------------------------------
(* The server. *)

\* recv() returned n bytes: they are pushed, and what push answers is ignored.
RecvData(n) ==
    LET push == Push(rb, SubSeq(stream, arrived + 1, arrived + n))
    IN  /\ pc = "select"
        /\ arrived + n <= Len(stream)
        /\ arrived' = arrived + n
        /\ rb' = push.rb
        /\ dropped' = IF push.ok THEN dropped ELSE dropped + n
        /\ pc' = "drain"
        /\ UNCHANGED <<sent, stream, bound, peer, handled>>

\* The buffer starts with a whole packet.
Complete == HeaderSize <= CurrentLength(rb) /\ 0 <= Parse(Get(rb, 0), CurrentLength(rb))

\* The packet at the head is stepped over, then handled.
HandlePacket ==
    LET length == Get(rb, 0)
    IN  /\ pc = "drain"
        /\ Complete
        /\ rb' = Advance(rb, length)
        /\ handled' = Append(handled, [i \in 1 .. length |-> Get(rb, i - 1)])
        /\ UNCHANGED <<sent, stream, bound, peer, arrived, pc, dropped>>

\* Mutant of StopDrain: one packet per read, an if in place of the while.
StopAfterOne ==
    /\ pc = "drain"
    /\ pc' = "select"
    /\ UNCHANGED <<sent, stream, bound, peer, arrived, rb, handled, dropped>>

\* Nothing more to handle in the buffer: back to select().
StopDrain ==
    /\ pc = "drain"
    /\ ~Complete
    /\ pc' = "select"
    /\ UNCHANGED <<sent, stream, bound, peer, arrived, rb, handled, dropped>>

\* Mutant of RecvEof: the end of the stream overtakes the bytes before it.
EofEarly ==
    /\ pc = "select"
    /\ peer = "closed"
    /\ pc' = "gone"
    /\ UNCHANGED <<sent, stream, bound, peer, arrived, rb, handled, dropped>>

\* recv() returned 0: the record is removed, what its buffer holds is lost.
RecvEof ==
    /\ pc = "select"
    /\ peer = "closed"
    /\ arrived = Len(stream)
    /\ pc' = "gone"
    /\ UNCHANGED <<sent, stream, bound, peer, arrived, rb, handled, dropped>>

\* recv() failed: the record is removed in the same way, unread bytes included.
RecvError ==
    /\ pc = "select"
    /\ peer = "reset"
    /\ pc' = "gone"
    /\ UNCHANGED <<sent, stream, bound, peer, arrived, rb, handled, dropped>>

Server ==
    \/ \E n \in 1 .. MaxRecv : RecvData(n)
    \/ HandlePacket \/ StopDrain
    \/ RecvEof \/ RecvError

Next ==
    \/ \E p \in Packets : PeerSend(p)
    \/ PeerClose \/ PeerReset
    \/ Server

Spec == Init /\ [][Next]_vars

\* select() returns as long as a socket is readable, and every pass serves every
\* ready client: the server keeps taking steps.  Nothing obliges the peer.
FairSpec == Spec /\ WF_vars(Server)

-----------------------------------------------------------------------------
TypeOK ==
    /\ sent \in Seq(Packets)
    /\ stream \in Seq(Byte)
    /\ bound \in Seq(Nat)
    /\ peer \in {"open", "closed", "reset"}
    /\ arrived \in 0 .. Len(stream)
    /\ WellFormed(rb)
    /\ pc \in {"select", "drain", "gone"}
    /\ handled \in Seq(Seq(Byte))
    /\ dropped \in Nat

\* The head of the buffer has a length no packet can have.
Stalled == HeaderSize <= Len(Contents(rb)) /\ Contents(rb)[1] < HeaderSize

\* However the stream is cut, rolled and buffered, the packets handled are the
\* packets sent: whole, in order, none twice, none skipped.
HandledInOrder ==
    /\ Len(handled) <= Len(sent)
    /\ \A i \in 1 .. Len(handled) : handled[i] = sent[i]

\* handle_client_ready() ignores a refused push.  That is harmless to a peer whose
\* packets are well formed: a push is refused only behind a malformed packet.
DropsOnlyWhenStalled == dropped # 0 => Stalled

\* select() watches the socket, not the buffer: a whole packet left in the buffer
\* would wait for the next bytes of the peer.
NothingLeftBehind == pc # "drain" => ~Complete

\* A peer that closes its side after its last packet has had every one handled.
CloseLosesNothing ==
    pc = "gone" /\ peer = "closed" /\ (\A i \in 1 .. Len(sent) : sent[i] \in GoodPackets)
        => handled = sent

-----------------------------------------------------------------------------
(* The inductive invariant: where in the stream the buffer stands. *)

\* Where the first i packets end in the stream, given the bounds b.
Offset(b, i) == IF i = 0 THEN 0 ELSE b[i]

\* The stream is the concatenation of the packets sent.
Framing ==
    /\ Len(bound) = Len(sent)
    /\ Offset(bound, Len(sent)) = Len(stream)
    /\ \A i \in 1 .. Len(sent) :
          /\ Offset(bound, i) = Offset(bound, i - 1) + Len(sent[i])
          /\ Offset(bound, i) <= Len(stream)
          /\ sent[i] = SubSeq(stream, Offset(bound, i - 1) + 1, Offset(bound, i))

\* Until a push is refused the buffer holds what has arrived behind the packets
\* handled.  Afterwards it is stalled, at a packet that really is malformed.
BufferHoldsRest ==
    /\ dropped = 0 =>
         /\ Offset(bound, Len(handled)) <= arrived
         /\ Contents(rb) = SubSeq(stream, Offset(bound, Len(handled)) + 1, arrived)
    /\ dropped # 0 =>
         /\ Len(handled) < Len(sent)
         /\ sent[Len(handled) + 1] \in MalformedPackets

\* The record goes away only after the peer closed, with the stream read to its
\* end, or after a reset.
GoneAtEnd ==
    pc = "gone" => peer = "reset" \/ (peer = "closed" /\ arrived = Len(stream))

IInv ==
    /\ TypeOK
    /\ HandledInOrder
    /\ Framing
    /\ BufferHoldsRest
    /\ DropsOnlyWhenStalled
    /\ NothingLeftBehind
    /\ GoneAtEnd

-----------------------------------------------------------------------------
\* Once the head of the buffer is malformed, no later byte of the connection is
\* ever acted upon, whatever the peer sends.
StallIsPermanent == [][Stalled => Stalled' /\ UNCHANGED handled]_vars

\* An ideal packet channel is what the connection implements.
Channel == INSTANCE PacketChannel WITH broken <- peer = "reset"
ImplementsChannel == Channel!Spec

\* The comment of minimote_packet_parse() reads a negative result as "the bytecount
\* is lower than the expected packet length", and try_handle_client_buffer() logs
\* "Not enough data ..., waiting for new data": a server that waits with a header
\* in the buffer is short of bytes.
WaitsOnlyForData ==
    pc = "select" /\ HeaderSize <= CurrentLength(rb)
        => CurrentLength(rb) < Get(rb, 0)
=============================================================================
