-------------------------------- MODULE Pointer --------------------------------
(***************************************************************************)
(* The controller of a client (src/src/controller): its MOVE packets carry *)
(* absolute positions of a finger, from which it makes relative motions of *)
(* the mouse.                                                              *)
(*                                                                         *)
(* MOVE packets travel as datagrams: they are lost, repeated, overtaken.   *)
(***************************************************************************)
EXTENDS Integers

CONSTANTS
    Positions,      \* the positions of a finger on the touch pad
    Num, Den,       \* mouse_sensibility is Num/Den
    IdSpace,        \* how many movement ids there are: 256
    MaxTime,        \* bound: milliseconds of the client's clock
    MaxTouches,     \* bound: how often a finger comes down
    MaxHandled      \* bound: how many MOVE packets are handled

ASSUME PositionAssumption == Positions \subseteq [x : 0 .. 4095, y : 0 .. 4095]
ASSUME SensibilityAssumption == Num \in Nat /\ Den \in Nat \ {0}
ASSUME IdAssumption == IdSpace \in 1 .. 256
ASSUME BoundAssumption == MaxTime \in Nat \ {0} /\ MaxTouches \in Nat /\ MaxHandled \in Nat

\* touch tells apart what mid, which is a byte, need not.
Packet == [time : 1 .. MaxTime, touch : 0 .. MaxTouches, at : Positions]
Mid(touch) == touch % IdSpace

VARIABLES
    clock,      \* the client's time, and
    touch,      \* the number of its finger's contact with the touch pad
    sent,       \* the MOVE packets that the client has sent
    last,       \* controller->last_move
    cursor,     \* the sums of the REL_X and of the REL_Y events
    handled,    \* how many MOVE packets were handled, and
    seen,       \* history: which, since the record was made
    anchor      \* history: position and cursor when the tracking began, and its moves

vars == <<clock, touch, sent, last, cursor, handled, seen, anchor>>

Origin == [x |-> 0, y |-> 0]
NoMove == [time |-> 0, mid |-> 0, at |-> Origin]

Init ==
    /\ clock = 1 /\ touch = 0 /\ sent = {}
    /\ last = NoMove
    /\ cursor = Origin
    /\ handled = 0 /\ seen = {}
    /\ anchor = [at |-> Origin, cursor |-> Origin, moves |-> 0]

-----------------------------------------------------------------------------
(* The client. *)

SendMove(at) ==
    /\ sent' = sent \cup {[time |-> clock, touch |-> touch, at |-> at]}
    /\ UNCHANGED <<clock, touch, last, cursor, handled, seen, anchor>>

\* The payload: a byte of the movement id, twelve bits of each coordinate.
Payload(p) ==
    <<Mid(p.touch), p.at.x \div 16, (p.at.x % 16) * 16 + p.at.y \div 256, p.at.y % 256>>

\* Its clock goes on; it need not do so between two packets.
Wait ==
    /\ clock < MaxTime
    /\ clock' = clock + 1
    /\ UNCHANGED <<touch, sent, last, cursor, handled, seen, anchor>>

LiftFinger ==
    /\ touch < MaxTouches /\ clock < MaxTime
    /\ touch' = touch + 1 /\ clock' = clock + 1
    /\ UNCHANGED <<sent, last, cursor, handled, seen, anchor>>

-----------------------------------------------------------------------------
(* What the server reads in a payload. *)

\* bytes_to_uint32()
Value(bytes) == ((bytes[1] * 256 + bytes[2]) * 256 + bytes[3]) * 256 + bytes[4]

\* A coordinate has twelve bits.
Field == 4096

MidIn(value) == (value \div (Field * Field)) % 256

\* Mutant of PositionIn: the first coordinate has a byte and a half of its own.
PositionInHalf(value) == [x |-> (value \div (16 * Field)) % 256, y |-> value % Field]

PositionIn(value) == [x |-> (value \div Field) % Field, y |-> value % Field]

-----------------------------------------------------------------------------
(* The controller. *)

\* Mutant of Scaled: the difference of two uint16 stays one.
ScaledUnsigned(d) == (Num * (d % 65536)) \div Den

\* (int) (d * mouse_sensibility): towards zero.
Scaled(d) == IF d < 0 THEN -((Num * (-d)) \div Den) ELSE (Num * d) \div Den

\* From one position to another.
Delta(from, to) == [x |-> Scaled(to.x - from.x), y |-> Scaled(to.y - from.y)]

\* minimote_display_move()
Moved(by) == [x |-> cursor.x + by.x, y |-> cursor.y + by.y]

\* Mutant of Discards: the time of a packet is not looked at.
DiscardsNothing(time) == FALSE

Discards(time) == time < last.time

\* Mutant of SamePointer: the movement id is not looked at.
AnyPointer(mid) == last.time > 0

\* The packet continues the movement of the last one.
SamePointer(mid) == last.time > 0 /\ last.mid = mid

\* What is kept of a packet.
LastMove(time, mid, at) == [time |-> time, mid |-> mid, at |-> at]

Discard(time) ==
    /\ Discards(time)
    /\ UNCHANGED <<last, cursor, anchor>>

Follow(time, mid, at) ==
    /\ ~Discards(time) /\ SamePointer(mid)
    /\ cursor' = Moved(Delta(last.at, at))
    /\ last' = LastMove(time, mid, at)
    /\ anchor' = [anchor EXCEPT !.moves = @ + 1]

NewPointer(time, mid, at) ==
    /\ ~Discards(time) /\ ~SamePointer(mid)
    /\ last' = LastMove(time, mid, at)
    /\ anchor' = [at |-> at, cursor |-> cursor, moves |-> 0]
    /\ UNCHANGED cursor

\* A datagram that was sent arrives, once more perhaps.
Move(p) ==
    /\ p \in sent
    /\ handled < MaxHandled
    /\ LET value == Value(Payload(p))
           mid == MidIn(value)
           at == PositionIn(value)
       IN  Discard(p.time) \/ Follow(p.time, mid, at) \/ NewPointer(p.time, mid, at)
    /\ handled' = handled + 1
    /\ seen' = seen \cup {p}
    /\ UNCHANGED <<clock, touch, sent>>

\* The client's record goes with its TCP connection, and is made again.
NewRecord ==
    /\ last # NoMove
    /\ last' = NoMove
    /\ seen' = {}
    /\ UNCHANGED <<clock, touch, sent, cursor, handled, anchor>>

Next ==
    \/ \E at \in Positions : SendMove(at)
    \/ Wait \/ LiftFinger
    \/ \E p \in sent : Move(p)
    \/ NewRecord

Spec == Init /\ [][Next]_vars

-----------------------------------------------------------------------------
TypeOK ==
    /\ clock \in 1 .. MaxTime /\ touch \in 0 .. MaxTouches
    /\ sent \subseteq Packet /\ seen \subseteq sent
    /\ \/ last = NoMove
       \/ last \in [time : 1 .. MaxTime, mid : 0 .. IdSpace - 1, at : Positions]
    /\ cursor \in [x : Int, y : Int]
    /\ handled \in 0 .. MaxHandled
    /\ anchor \in [at : Positions \cup {Origin}, cursor : [x : Int, y : Int], moves : Nat]

\* However many packets are lost, repeated or overtaken, the cursor has moved as far
\* as the finger did since it was put down, up to a fraction of a pixel for each
\* packet that was followed.
Tracks ==
    last # NoMove => \A axis \in {"x", "y"} :
        LET error == Den * (cursor[axis] - anchor.cursor[axis])
                     - Num * (last.at[axis] - anchor.at[axis])
            bound == (Den - 1) * anchor.moves
        IN  -bound <= error /\ error <= bound

\* A packet that a later one has overtaken moves nothing.
LateMovesNothing ==
    [][\A p \in sent :
        Move(p) /\ (\E q \in seen : p.time < q.time) => UNCHANGED <<cursor, last>>]_vars

\* Two contacts with one movement id, between which every packet was lost.
Wrapped(p, q) ==
    /\ p.touch + IdSpace <= q.touch /\ Mid(p.touch) = Mid(q.touch)
    /\ \A r \in seen : ~(p.touch < r.touch /\ r.touch < q.touch)

\* The cursor only ever moves as the finger did between two packets of one contact: it
\* does not jump when the finger is lifted and put down elsewhere, as long as one packet
\* arrives before the movement id, which is a byte, has gone round.
NoJump ==
    [][cursor' # cursor =>
        \E p, q \in sent : /\ p.touch = q.touch \/ Wrapped(p, q)
                           /\ p.time <= q.time
                           /\ cursor' = Moved(Delta(p.at, q.at))]_vars
=============================================================================
