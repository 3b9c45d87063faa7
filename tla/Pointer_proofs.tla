----------------------------- MODULE Pointer_proofs -----------------------------
(***************************************************************************)
(* Proofs about Pointer: whatever the network does with the datagrams of a *)
(* client, a late one moves nothing, and the cursor never jumps.           *)
(***************************************************************************)
EXTENDS Pointer, TLAPS

-----------------------------------------------------------------------------
(* The payload. *)

\* The server reads in a payload what the client put there: the two coordinates, which
\* share a byte, come apart again.
LEMMA PayloadIsRead ==
    ASSUME NEW p \in Packet
    PROVE  /\ MidIn(Value(Payload(p))) = Mid(p.touch)
           /\ PositionIn(Value(Payload(p))) = p.at
<1>1. PICK at \in [x : 0 .. 4095, y : 0 .. 4095] : at = p.at
  BY PositionAssumption DEF Packet
<1> DEFINE m == Mid(p.touch)
           x == at.x
           y == at.y
<1>2. x \in 0 .. 4095 /\ y \in 0 .. 4095 /\ at = [x |-> x, y |-> y]
  OBVIOUS
<1>3. m \in 0 .. 255
  <2> DEFINE touched == p.touch
  <2>1. touched \in Nat
    BY BoundAssumption DEF Packet
  <2> HIDE DEF touched
  <2>2. touched % IdSpace \in 0 .. IdSpace - 1
    BY <2>1, IdAssumption
  <2> QED BY <2>2, IdAssumption DEF Mid, touched
<1>4. Value(Payload(p)) = Field * Field * m + Field * x + y
  <2>1. Value(Payload(p)) = ((m * 256 + x \div 16) * 256 + ((x % 16) * 16 + y \div 256)) * 256 + (y % 256)
    <3>1. Payload(p) = <<m, x \div 16, (x % 16) * 16 + y \div 256, y % 256>>
      BY <1>1 DEF Payload
    <3> HIDE DEF m, x, y
    <3> QED BY <3>1 DEF Value
  <2> HIDE DEF m, x, y
  <2>2. x = 16 * (x \div 16) + (x % 16) /\ y = 256 * (y \div 256) + (y % 256)
    BY <1>2, SMT
  <2>3. x \div 16 \in Int /\ x % 16 \in Int /\ y \div 256 \in Int /\ y % 256 \in Int
    BY <1>2, SMT
  <2> QED BY <2>1, <2>2, <2>3, <1>2, <1>3, SMTT(60) DEF Field
<1> HIDE DEF m, x, y
<1> DEFINE value == Field * Field * m + Field * x + y
<1>5. value \div (Field * Field) = m /\ m % 256 = m
  BY <1>2, <1>3, SMTT(60) DEF Field
<1>6. value % Field = y
  BY <1>2, <1>3, SMTT(60) DEF Field
<1>7. value \div Field = Field * m + x /\ (Field * m + x) % Field = x
  BY <1>2, <1>3, SMTT(60) DEF Field
<1> HIDE DEF value
<1>8. Value(Payload(p)) = value
  BY <1>4 DEF value
<1>9. MidIn(Value(Payload(p))) = m
  BY <1>5, <1>8 DEF MidIn
<1>10. PositionIn(Value(Payload(p))) = [x |-> x, y |-> y]
  BY <1>6, <1>7, <1>8 DEF PositionIn
<1> QED BY <1>9, <1>10, <1>1, <1>2 DEF m

\* Two contacts with one movement id are the same, or as many apart as there are ids.
LEMMA IdsGoRound ==
    ASSUME NEW a \in Nat, NEW b \in Nat, a < b, Mid(a) = Mid(b)
    PROVE  a + IdSpace <= b
<1> DEFINE n == IdSpace
           qa == a \div n
           qb == b \div n
<1>1. n \in Nat \ {0}
  BY IdAssumption
<1>2. /\ qa \in Int /\ qb \in Int /\ Mid(a) \in Int
      /\ a = n * qa + Mid(a) /\ b = n * qb + Mid(b)
  <2> HIDE DEF n
  <2>1. a \div n \in Int /\ b \div n \in Int /\ a % n \in Int
    BY <1>1
  <2>2. a = n * (a \div n) + (a % n) /\ b = n * (b \div n) + (b % n)
    BY <1>1
  <2> QED BY <2>1, <2>2 DEF Mid, n
<1> HIDE DEF n, qa, qb
<1>3. b - a = n * (qb - qa)
  BY <1>1, <1>2
<1>4. qb - qa >= 1
  <2>1. CASE qb - qa <= 0
    <3>1. n * (qb - qa) <= 0
      BY <1>1, <1>2, <2>1
    <3> QED BY <1>3, <3>1
  <2> QED BY <2>1, <1>2
<1>5. n * (qb - qa) >= n
  BY <1>1, <1>2, <1>4
<1> QED BY <1>1, <1>3, <1>5 DEF n

-----------------------------------------------------------------------------
(* The invariant. *)

\* Later contacts have later packets.
Ordered ==
    /\ \A p \in sent : p.time <= clock /\ p.touch <= touch
    /\ \A p \in sent : p.touch < touch => p.time < clock
    /\ \A p, q \in sent : p.touch < q.touch => p.time < q.time

\* What the controller keeps is the latest of the packets that it has seen.
LastIsLatest ==
    /\ \A p \in seen : p.time <= last.time
    /\ last # NoMove => \E p \in seen :
          p.time = last.time /\ Mid(p.touch) = last.mid /\ p.at = last.at

Types ==
    /\ clock \in Nat \ {0} /\ clock <= MaxTime /\ touch \in 0 .. MaxTouches
    /\ sent \subseteq Packet /\ seen \subseteq sent
    /\ last = NoMove \/ last \in [time : Nat \ {0}, mid : Nat, at : Positions]

IInv == Types /\ Ordered /\ LastIsLatest

LEMMA InitIInv == Init => IInv
BY BoundAssumption DEF Init, IInv, Types, Ordered, LastIsLatest

\* The client keeps it.
LEMMA ClientIInv ==
    ASSUME IInv, (\E at \in Positions : SendMove(at)) \/ Wait \/ LiftFinger
    PROVE  IInv'
<1> USE BoundAssumption DEF IInv, Types, Ordered, LastIsLatest
<1>1. ASSUME NEW at \in Positions, SendMove(at) PROVE IInv'
  <2> DEFINE new == [time |-> clock, touch |-> touch, at |-> at]
  <2>1. new \in Packet /\ sent' = sent \cup {new}
    BY <1>1 DEF SendMove, Packet
  <2>2. clock' = clock /\ touch' = touch /\ last' = last /\ seen' = seen
    BY <1>1 DEF SendMove
  <2>3. \A p \in sent : p.time \in Nat /\ p.touch \in Nat
    BY DEF Packet
  <2>4. Types'
    BY <2>1, <2>2
  <2>5. new.time = clock /\ new.touch = touch
    OBVIOUS
  <2>6. Ordered'
    BY <2>1, <2>2, <2>3, <2>5
  <2>7. LastIsLatest'
    BY <2>2
  <2> QED BY <2>4, <2>6, <2>7
<1>2. ASSUME Wait PROVE IInv'
  <2>1. \A p \in sent : p.time \in Nat /\ p.touch \in Nat
    BY DEF Packet
  <2> QED BY <1>2, <2>1 DEF Wait
<1>3. ASSUME LiftFinger PROVE IInv'
  <2>1. \A p \in sent : p.time \in Nat /\ p.touch \in Nat
    BY DEF Packet
  <2> QED BY <1>3, <2>1 DEF LiftFinger
<1> QED BY <1>1, <1>2, <1>3

\* What a MOVE packet does, in terms of what the client sent.
LEMMA MoveTakes ==
    ASSUME IInv, NEW p \in sent, Move(p)
    PROVE  /\ UNCHANGED <<clock, touch, sent>> /\ seen' = seen \cup {p}
           /\ \/ p.time < last.time /\ UNCHANGED <<last, cursor>>
              \/ /\ last.time <= p.time
                 /\ last' = [time |-> p.time, mid |-> Mid(p.touch), at |-> p.at]
                 /\ \/ UNCHANGED cursor
                    \/ /\ last.time > 0 /\ last.mid = Mid(p.touch)
                       /\ cursor' = Moved(Delta(last.at, p.at))
<1>1. p \in Packet
  BY DEF IInv, Types
<1>2. MidIn(Value(Payload(p))) = Mid(p.touch) /\ PositionIn(Value(Payload(p))) = p.at
  BY <1>1, PayloadIsRead
<1>3. p.time \in Nat /\ last.time \in Nat
  BY <1>1 DEF IInv, Types, Packet, NoMove
<1>4. \/ Discard(p.time) \/ Follow(p.time, Mid(p.touch), p.at)
      \/ NewPointer(p.time, Mid(p.touch), p.at)
  BY <1>2 DEF Move
<1>5. UNCHANGED <<clock, touch, sent>> /\ seen' = seen \cup {p}
  BY DEF Move
<1>6. CASE Discard(p.time)
  BY <1>5, <1>6 DEF Discard, Discards
<1>7. CASE Follow(p.time, Mid(p.touch), p.at)
  BY <1>3, <1>5, <1>7 DEF Follow, Discards, SamePointer, LastMove
<1>8. CASE NewPointer(p.time, Mid(p.touch), p.at)
  BY <1>3, <1>5, <1>8 DEF NewPointer, Discards, LastMove
<1> QED BY <1>4, <1>6, <1>7, <1>8

\* So does the controller, and a new record forgets everything.
LEMMA ControllerIInv ==
    ASSUME IInv, (\E p \in sent : Move(p)) \/ NewRecord
    PROVE  IInv'
<1> USE DEF IInv, Types, Ordered, LastIsLatest
<1>1. ASSUME NEW p \in sent, Move(p) PROVE IInv'
  <2>1. /\ UNCHANGED <<clock, touch, sent>> /\ seen' = seen \cup {p}
        /\ \/ p.time < last.time /\ UNCHANGED last
           \/ /\ last.time <= p.time
              /\ last' = [time |-> p.time, mid |-> Mid(p.touch), at |-> p.at]
    BY <1>1, MoveTakes
  <2>2. p \in Packet /\ p.time \in Nat \ {0} /\ p.at \in Positions
    BY DEF Packet
  <2>3. Mid(p.touch) \in Nat
    BY <2>2, IdAssumption, BoundAssumption DEF Mid, Packet
  <2>4. \A q \in seen : q.time \in Nat
    BY DEF Packet
  <2>5. last.time \in Nat
    BY DEF NoMove
  <2>6. CASE p.time < last.time /\ UNCHANGED last
    <3>1. Types' /\ Ordered'
      BY <2>1, <2>6
    <3>2. LastIsLatest'
      BY <2>1, <2>2, <2>4, <2>5, <2>6
    <3> QED BY <3>1, <3>2
  <2>7. CASE /\ last.time <= p.time
             /\ last' = [time |-> p.time, mid |-> Mid(p.touch), at |-> p.at]
    <3>1. Types' /\ Ordered'
      BY <2>1, <2>2, <2>3, <2>7
    <3>2. last'.time = p.time /\ last'.mid = Mid(p.touch) /\ last'.at = p.at
      BY <2>7
    <3>3. \A q \in seen' : q.time <= last'.time
      BY <2>1, <2>2, <2>4, <2>5, <2>7, <3>2
    <3>4. LastIsLatest'
      BY <2>1, <3>2, <3>3
    <3> QED BY <3>1, <3>4
  <2> QED BY <2>1, <2>6, <2>7
<1>2. ASSUME NewRecord PROVE IInv'
  BY <1>2 DEF NewRecord, NoMove
<1> QED BY <1>1, <1>2

\* The controller keeps the latest packet it has seen, and later contacts have later ones.
THEOREM PointerInvariant == Spec => []IInv
<1>1. IInv /\ [Next]_vars => IInv'
  <2>1. IInv /\ UNCHANGED vars => IInv'
    BY DEF IInv, Types, Ordered, LastIsLatest, vars
  <2> QED BY <2>1, ClientIInv, ControllerIInv DEF Next
<1> QED BY <1>1, InitIInv, PTL DEF Spec

-----------------------------------------------------------------------------
\* A packet that a later one has overtaken moves nothing, in any number of packets.
THEOREM OvertakenMovesNothing == Spec => LateMovesNothing
<1> DEFINE Late == \A p \in sent :
      Move(p) /\ (\E q \in seen : p.time < q.time) => UNCHANGED <<cursor, last>>
<1>1. IInv /\ [Next]_vars => [Late]_vars
  <2> SUFFICES ASSUME IInv, NEW p \in sent, Move(p), NEW q \in seen, p.time < q.time
               PROVE  UNCHANGED <<cursor, last>>
    OBVIOUS
  <2>1. p.time \in Nat /\ q.time \in Nat /\ last.time \in Nat
    BY DEF IInv, Types, Packet, NoMove
  <2>2. p.time < last.time
    BY <2>1 DEF IInv, LastIsLatest
  <2> QED BY <2>1, <2>2, MoveTakes
<1> QED BY <1>1, PointerInvariant, PTL DEF Spec, LateMovesNothing

\* The cursor never jumps, for any positions, sensibility, network and number of contacts.
THEOREM CursorNeverJumps == Spec => NoJump
<1> DEFINE Step == cursor' # cursor =>
      \E p, q \in sent : /\ p.touch = q.touch \/ Wrapped(p, q)
                         /\ p.time <= q.time
                         /\ cursor' = Moved(Delta(p.at, q.at))
<1>1. IInv /\ [Next]_vars => [Step]_vars
  <2> SUFFICES ASSUME IInv, Next, cursor' # cursor PROVE Step
    OBVIOUS
  <2>1. PICK q \in sent : Move(q)
    BY DEF Next, SendMove, Wait, LiftFinger, NewRecord
  <2>2. /\ last.time <= q.time /\ last.time > 0 /\ last.mid = Mid(q.touch)
        /\ cursor' = Moved(Delta(last.at, q.at))
    BY <2>1, MoveTakes
  <2>3. last # NoMove
    BY <2>2 DEF NoMove
  <2>4. PICK p \in seen : p.time = last.time /\ Mid(p.touch) = last.mid /\ p.at = last.at
    BY <2>3 DEF IInv, LastIsLatest
  <2>5. p \in sent /\ p \in Packet /\ q \in Packet
    BY <2>4 DEF IInv, Types
  <2>6. p.time \in Nat /\ q.time \in Nat /\ p.touch \in Nat /\ q.touch \in Nat
    BY <2>5, BoundAssumption DEF Packet
  <2>7. ~(q.touch < p.touch)
    BY <2>2, <2>4, <2>5, <2>6 DEF IInv, Ordered
  <2>8. ASSUME p.touch # q.touch PROVE Wrapped(p, q)
    <3>1. p.touch + IdSpace <= q.touch
      BY <2>2, <2>4, <2>6, <2>7, <2>8, IdsGoRound
    <3>2. ASSUME NEW r \in seen, p.touch < r.touch PROVE FALSE
      <4>1. r \in sent /\ r.time \in Nat
        BY DEF IInv, Types, Packet
      <4>2. p.time < r.time
        BY <2>5, <3>2, <4>1 DEF IInv, Ordered
      <4>3. r.time <= last.time
        BY DEF IInv, LastIsLatest
      <4> QED BY <2>4, <2>6, <4>1, <4>2, <4>3
    <3> QED BY <2>2, <2>4, <3>1, <3>2 DEF Wrapped
  <2> QED BY <2>2, <2>4, <2>5, <2>8
<1> QED BY <1>1, PointerInvariant, PTL DEF Spec, NoJump

-----------------------------------------------------------------------------
(* The fraction that is cut off. *)

\* A scaled difference is off by less than one.
LEMMA ScaledError ==
    ASSUME NEW d \in Int
    PROVE  /\ Scaled(d) \in Int
           /\ -(Den - 1) <= Den * Scaled(d) - Num * d
           /\ Den * Scaled(d) - Num * d <= Den - 1
<1> USE SensibilityAssumption
<1>1. \A n \in Nat : /\ n \div Den \in Int /\ n % Den \in 0 .. Den - 1
                     /\ n = Den * (n \div Den) + (n % Den)
  OBVIOUS
<1>2. CASE d < 0
  <2> DEFINE n == Num * (-d)
  <2>1. n \in Nat /\ Num * d = -n
    BY <1>2
  <2> HIDE DEF n
  <2>2. Scaled(d) = -(n \div Den)
    BY <1>2 DEF Scaled, n
  <2>3. Den * Scaled(d) = -(Den * (n \div Den))
    BY <1>1, <2>1, <2>2
  <2> QED BY <1>1, <2>1, <2>2, <2>3
<1>3. CASE ~(d < 0)
  <2> DEFINE n == Num * d
  <2>1. n \in Nat
    BY <1>3
  <2> HIDE DEF n
  <2>2. Scaled(d) = n \div Den
    BY <1>3 DEF Scaled, n
  <2> QED BY <1>1, <2>1, <2>2 DEF n
<1> QED BY <1>2, <1>3

\* The types, and that the cursor tracks the finger.
TrackInv == TypeOK /\ Tracks

LEMMA InitTracks == Init => TrackInv
BY BoundAssumption DEF Init, TrackInv, TypeOK, Tracks, Origin

\* One packet more is followed on one axis, with one fraction more cut off.
LEMMA AxisTracks ==
    ASSUME NEW c \in Int, NEW c0 \in Int, NEW f \in Int, NEW f0 \in Int, NEW g \in Int,
           NEW k \in Nat,
           -((Den - 1) * k) <= Den * (c - c0) - Num * (f - f0),
           Den * (c - c0) - Num * (f - f0) <= (Den - 1) * k
    PROVE  LET e == Den * ((c + Scaled(g - f)) - c0) - Num * (g - f0)
           IN  -((Den - 1) * (k + 1)) <= e /\ e <= (Den - 1) * (k + 1)
<1> USE SensibilityAssumption
<1> DEFINE s == Scaled(g - f)
           r == Den * s - Num * (g - f)
<1>1. s \in Int /\ -(Den - 1) <= r /\ r <= Den - 1
  BY ScaledError
<1> HIDE DEF s
<1>2. Den * ((c + s) - c0) - Num * (g - f0) = (Den * (c - c0) - Num * (f - f0)) + r
  BY <1>1
<1>3. (Den - 1) * (k + 1) = (Den - 1) * k + (Den - 1)
  OBVIOUS
<1>4. Den * (c - c0) - Num * (f - f0) \in Int /\ r \in Int /\ (Den - 1) * k \in Int
  BY <1>1
<1> HIDE DEF r
<1> QED BY <1>1, <1>2, <1>3, <1>4 DEF s

\* The client's steps and a new record leave it.
LEMMA OthersTrack ==
    ASSUME TrackInv,
           (\E at \in Positions : SendMove(at)) \/ Wait \/ LiftFinger \/ NewRecord
    PROVE  TrackInv'
<1> USE BoundAssumption DEF TrackInv, TypeOK, Tracks
<1>1. ASSUME NEW at \in Positions, SendMove(at) PROVE TrackInv'
  <2>1. sent' \subseteq Packet
    BY <1>1 DEF SendMove, Packet
  <2> QED BY <1>1, <2>1 DEF SendMove
<1>2. CASE Wait
  BY <1>2 DEF Wait
<1>3. CASE LiftFinger
  BY <1>3 DEF LiftFinger
<1>4. CASE NewRecord
  BY <1>4 DEF NewRecord
<1> QED BY <1>1, <1>2, <1>3, <1>4

LEMMA CoordinatesAreInt == \A q \in Positions \cup {Origin} : q.x \in Int /\ q.y \in Int
<1>1. ASSUME NEW q \in [x : 0 .. 4095, y : 0 .. 4095] PROVE q.x \in Int /\ q.y \in Int
  <2>1. q.x \in 0 .. 4095 /\ q.y \in 0 .. 4095
    OBVIOUS
  <2> DEFINE x == q.x
             y == q.y
  <2>2. x \in 0 .. 4095 /\ y \in 0 .. 4095
    BY <2>1
  <2> HIDE DEF x, y
  <2>3. x \in Int /\ y \in Int
    BY <2>2, SMT
  <2> QED BY <2>3 DEF x, y
<1>2. Origin.x \in Int /\ Origin.y \in Int
  BY DEF Origin
<1> QED BY <1>1, <1>2, PositionAssumption

\* A packet that continues a movement adds to both axes.
LEMMA FollowTracks ==
    ASSUME TrackInv, NEW time \in 1 .. MaxTime, NEW mid \in 0 .. IdSpace - 1,
           NEW at \in Positions, Follow(time, mid, at)
    PROVE  /\ last' \in [time : 1 .. MaxTime, mid : 0 .. IdSpace - 1, at : Positions]
           /\ cursor' \in [x : Int, y : Int]
           /\ anchor' \in [at : Positions \cup {Origin}, cursor : [x : Int, y : Int], moves : Nat]
           /\ Tracks'
<1>1. last # NoMove
  BY DEF Follow, SamePointer, NoMove
<1>2. /\ last \in [time : 1 .. MaxTime, mid : 0 .. IdSpace - 1, at : Positions]
      /\ cursor \in [x : Int, y : Int]
      /\ anchor \in [at : Positions \cup {Origin}, cursor : [x : Int, y : Int], moves : Nat]
  BY <1>1 DEF TrackInv, TypeOK
<1> DEFINE by == Delta(last.at, at)
<1>3. /\ last' = [time |-> time, mid |-> mid, at |-> at]
      /\ cursor' = [x |-> cursor.x + by.x, y |-> cursor.y + by.y]
      /\ anchor' = [anchor EXCEPT !.moves = @ + 1]
  BY DEF Follow, LastMove, Moved
<1>4. \A q \in Positions \cup {Origin} : q.x \in Int /\ q.y \in Int
  BY CoordinatesAreInt
<1>5. /\ last.at.x \in Int /\ last.at.y \in Int /\ at.x \in Int /\ at.y \in Int
      /\ anchor.at.x \in Int /\ anchor.at.y \in Int /\ anchor.moves \in Nat
      /\ cursor.x \in Int /\ cursor.y \in Int
      /\ anchor.cursor.x \in Int /\ anchor.cursor.y \in Int
  BY <1>2, <1>4
<1>6. /\ by.x = Scaled(at.x - last.at.x) /\ by.y = Scaled(at.y - last.at.y)
      /\ by.x \in Int /\ by.y \in Int
  BY <1>5, ScaledError DEF Delta
<1> HIDE DEF by
<1>7. /\ cursor'.x = cursor.x + by.x /\ cursor'.y = cursor.y + by.y
      /\ last'.at = at
      /\ anchor'.at = anchor.at /\ anchor'.cursor = anchor.cursor
      /\ anchor'.moves = anchor.moves + 1
  BY <1>2, <1>3
<1> DEFINE Within(error, k) == -((Den - 1) * k) <= error /\ error <= (Den - 1) * k
<1>8. /\ Within(Den * (cursor.x - anchor.cursor.x) - Num * (last.at.x - anchor.at.x), anchor.moves)
      /\ Within(Den * (cursor.y - anchor.cursor.y) - Num * (last.at.y - anchor.at.y), anchor.moves)
  BY <1>1 DEF TrackInv, Tracks
<1>9. Within(Den * ((cursor.x + by.x) - anchor.cursor.x) - Num * (at.x - anchor.at.x), anchor.moves + 1)
  BY <1>5, <1>6, <1>8, AxisTracks
<1>10. Within(Den * ((cursor.y + by.y) - anchor.cursor.y) - Num * (at.y - anchor.at.y), anchor.moves + 1)
  BY <1>5, <1>6, <1>8, AxisTracks
<1>11. Tracks'
  BY <1>7, <1>9, <1>10 DEF Tracks
<1>12. cursor' \in [x : Int, y : Int]
  BY <1>3, <1>5, <1>6
<1> QED BY <1>2, <1>3, <1>11, <1>12

\* A packet that begins one has no error yet.
LEMMA NewPointerTracks ==
    ASSUME TrackInv, NEW time \in 1 .. MaxTime, NEW mid \in 0 .. IdSpace - 1,
           NEW at \in Positions, NewPointer(time, mid, at)
    PROVE  /\ last' \in [time : 1 .. MaxTime, mid : 0 .. IdSpace - 1, at : Positions]
           /\ cursor' \in [x : Int, y : Int]
           /\ anchor' \in [at : Positions \cup {Origin}, cursor : [x : Int, y : Int], moves : Nat]
           /\ Tracks'
<1>1. /\ last' = [time |-> time, mid |-> mid, at |-> at]
      /\ anchor' = [at |-> at, cursor |-> cursor, moves |-> 0] /\ cursor' = cursor
      /\ cursor \in [x : Int, y : Int]
  BY DEF NewPointer, LastMove, TrackInv, TypeOK
<1>2. \A q \in Positions : q.x \in Int /\ q.y \in Int
  BY CoordinatesAreInt
<1>3. /\ cursor'.x - anchor'.cursor.x = 0 /\ cursor'.y - anchor'.cursor.y = 0
      /\ last'.at.x - anchor'.at.x = 0 /\ last'.at.y - anchor'.at.y = 0
      /\ anchor'.moves = 0
  BY <1>1, <1>2
<1>4. Tracks'
  BY <1>3, SensibilityAssumption DEF Tracks
<1> QED BY <1>1, <1>4

LEMMA MoveTracks ==
    ASSUME TrackInv, NEW p \in sent, Move(p)
    PROVE  TrackInv'
<1>1. p \in Packet
  BY DEF TrackInv, TypeOK
<1>2. /\ p.time \in 1 .. MaxTime /\ p.at \in Positions
      /\ Mid(p.touch) \in 0 .. IdSpace - 1
  BY <1>1, IdAssumption, BoundAssumption DEF Packet, Mid
<1>3. MidIn(Value(Payload(p))) = Mid(p.touch) /\ PositionIn(Value(Payload(p))) = p.at
  BY <1>1, PayloadIsRead
<1>4. /\ UNCHANGED <<clock, touch, sent>> /\ seen' \subseteq sent
      /\ handled' \in 0 .. MaxHandled
  BY BoundAssumption DEF Move, TrackInv, TypeOK
<1>5. \/ Discard(p.time) \/ Follow(p.time, Mid(p.touch), p.at)
      \/ NewPointer(p.time, Mid(p.touch), p.at)
  BY <1>3 DEF Move
<1>6. CASE Discard(p.time)
  BY <1>4, <1>6 DEF Discard, TrackInv, TypeOK, Tracks
<1>7. CASE Follow(p.time, Mid(p.touch), p.at)
  BY <1>2, <1>4, <1>7, FollowTracks DEF TrackInv, TypeOK
<1>8. CASE NewPointer(p.time, Mid(p.touch), p.at)
  BY <1>2, <1>4, <1>8, NewPointerTracks DEF TrackInv, TypeOK
<1> QED BY <1>5, <1>6, <1>7, <1>8

LEMMA TrackInvariant == Spec => []TrackInv
<1>1. TrackInv /\ [Next]_vars => TrackInv'
  <2>1. TrackInv /\ UNCHANGED vars => TrackInv'
    BY DEF TrackInv, TypeOK, Tracks, vars
  <2> QED BY <2>1, OthersTrack, MoveTracks DEF Next
<1> QED BY <1>1, InitTracks, PTL DEF Spec

\* The controller and the client keep to their types; the cursor is a pair of integers.
THEOREM PointerTypeCorrect == Spec => []TypeOK
BY TrackInvariant, PTL DEF TrackInv

\* The cursor moves as far as the finger does, less a fraction of a pixel for each packet
\* that was followed, for any sensibility and any number of packets.
THEOREM CursorTracks == Spec => []Tracks
BY TrackInvariant, PTL DEF TrackInv
=============================================================================
