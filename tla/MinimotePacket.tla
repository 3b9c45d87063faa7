---------------------------- MODULE MinimotePacket ----------------------------
(***************************************************************************)
(* The header of a packet as the server reads it                           *)
(* (src/src/packet/minimote_packet.c).  Byte 0 holds the length of the     *)
(* whole packet, byte 1 its type, bytes 2-7 the time of the event.         *)
(***************************************************************************)
EXTENDS Naturals, Integers

CONSTANT HeaderSize     \* MINIMOTE_PACKET_HEADER_SIZE = MINIMOTE_PACKET_MINIMUM_SIZE

ASSUME HeaderAssumption == HeaderSize \in Nat \ {0}

ParseFailed == -1

\* Mutant of Parse: the length byte is not checked.
ParseUnchecked(length, bytecount) ==
    IF bytecount < HeaderSize THEN ParseFailed ELSE bytecount - length

\* What minimote_packet_parse() returns for bytecount bytes whose first one is
\* length: how many bytes there are beyond the packet.  A negative number stands
\* both for an incomplete packet and for a length no packet can have.
Parse(length, bytecount) ==
    IF bytecount < HeaderSize \/ length < HeaderSize
    THEN ParseFailed
    ELSE bytecount - length
=============================================================================
