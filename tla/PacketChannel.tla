----------------------------- MODULE PacketChannel -----------------------------
(***************************************************************************)
(* What the server promises to the peer of a TCP connection: the packets   *)
(* are handled once each and in the order in which they were sent, up to   *)
(* the first malformed one, and every one of them is handled unless the    *)
(* connection is reset.  How the bytes were cut on the way is not visible. *)
(***************************************************************************)
EXTENDS Naturals, Sequences

CONSTANTS
    GoodPackets,        \* the packets whose length field is right
    MalformedPackets    \* the packets whose length field is below the header's

VARIABLES
    sent,       \* the packets the peer has sent
    handled,    \* the packets the server has handled
    broken      \* the connection was reset

vars == <<sent, handled, broken>>

Init == sent = << >> /\ handled = << >> /\ broken = FALSE

Send(p) == sent' = Append(sent, p) /\ UNCHANGED <<handled, broken>>

NextUp == sent[Len(handled) + 1]

Handle ==
    /\ Len(handled) < Len(sent)
    /\ NextUp \in GoodPackets
    /\ handled' = Append(handled, NextUp)
    /\ UNCHANGED <<sent, broken>>

Break == broken' = TRUE /\ UNCHANGED <<sent, handled>>

Next == (\E p \in GoodPackets \cup MalformedPackets : Send(p)) \/ Handle \/ Break

SafeSpec == Init /\ [][Next]_vars

Spec == SafeSpec /\ WF_vars(~broken /\ Handle)
=============================================================================
