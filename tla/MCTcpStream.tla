------------------------------ MODULE MCTcpStream ------------------------------
(***************************************************************************)
(* TcpStream for TLC.  The header is two bytes long and packets two to     *)
(* four.  The payload bytes are themselves possible lengths, good and bad, *)
(* so that a stream read from a wrong offset does not go unnoticed.  The   *)
(* capacity is the least that RecvAssumption allows: three packets overrun *)
(* it, and make the buffer roll.                                           *)
(***************************************************************************)
EXTENDS TcpStream

MCByte == 0 .. 4
MCGoodPackets == {<<2, 0>>, <<3, 2, 1>>, <<4, 2, 3, 2>>}
MCMalformedPackets == {<<1, 2>>, <<0, 3, 2, 4>>}
=============================================================================
