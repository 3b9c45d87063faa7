----------------------------- MODULE Display_proofs -----------------------------
(***************************************************************************)
(* The display from its start to its events.  The keymap of the last seat  *)
(* of a compositor is fetched if that seat has a keyboard; the scan maps   *)
(* every symbol it comes by, with the fewest modifiers; the parser finds   *)
(* the keys of the modifiers; and whatever packets are then handled, a key *)
(* is held if and only if that is what the last packet about it has asked  *)
(* for, and a character is typed as it was asked for.                      *)
(***************************************************************************)
EXTENDS Display, SequenceTheorems, FiniteSetTheorems, WellFoundedInduction, TLAPS

(* The least and the greatest number of a set. *)

LEMMA LeastExists ==
  ASSUME NEW S, S \subseteq Nat, S # {}
  PROVE  \E x \in S : \A y \in S : x <= y
<1>1. PICK x \in S : \A y \in S : ~(<<y, x>> \in OpToRel(<, Nat))
  BY NatLessThanWellFounded, WFMin
<1>2. ASSUME NEW y \in S PROVE x <= y
  <2>1. ~(y < x)
    BY <1>1 DEF OpToRel
  <2> QED BY <2>1
<1> QED BY <1>2

LEMMA MinIsLeast ==
  ASSUME NEW S, S \subseteq Nat, S # {}
  PROVE  Min(S) \in S /\ \A y \in S : Min(S) <= y
BY LeastExists DEF Min

LEMMA FiniteIsBounded ==
  ASSUME NEW S, S \subseteq Nat, IsFiniteSet(S)
  PROVE  \E b \in Nat : \A x \in S : x <= b
<1> DEFINE Unbounded(T) == ~\E b \in Nat : \A x \in T : x <= b
           Bad == { n \in Nat : \E T \in SUBSET S : Cardinality(T) = n /\ Unbounded(T) }
<1>1. SUFFICES Bad = {}
  <2>1. Cardinality(S) \in Nat /\ S \in SUBSET S
    BY FS_CardinalityType
  <2> QED BY <1>1, <2>1
<1>2. SUFFICES ASSUME Bad # {} PROVE FALSE
  OBVIOUS
<1>3. PICK n \in Bad : \A m \in Bad : n <= m
  <2> Bad \subseteq Nat
    OBVIOUS
  <2> HIDE DEF Bad
  <2> QED BY <1>2, LeastExists
<1>4. PICK T \in SUBSET S : Cardinality(T) = n /\ Unbounded(T)
  OBVIOUS
<1>5. IsFiniteSet(T)
  BY FS_Subset
<1>6. PICK x : x \in T
  BY <1>4
<1>7. IsFiniteSet(T \ {x}) /\ Cardinality(T \ {x}) = n - 1 /\ n \in Nat
  BY <1>4, <1>5, <1>6, FS_RemoveElement
<1>8. n - 1 \in Nat
  BY <1>7, FS_CardinalityType
<1>9. n - 1 \notin Bad
  BY <1>3, <1>7
<1>10. PICK b \in Nat : \A y \in T \ {x} : y <= b
  BY <1>7, <1>8, <1>9
<1>11. PICK c \in Nat : b <= c /\ x <= c
  <2>1. x \in Nat
    BY <1>4, <1>6
  <2> QED BY <2>1
<1>12. ASSUME NEW y \in T PROVE y <= c
  BY <1>10, <1>11
<1> QED BY <1>4, <1>12

LEMMA MaxIsGreatest ==
  ASSUME NEW S, S \subseteq Nat, S # {}, IsFiniteSet(S)
  PROVE  Max(S) \in S /\ \A y \in S : y <= Max(S)
<1> DEFINE Above == { b \in Nat : \A x \in S : x <= b }
<1>1. Above # {} /\ Above \subseteq Nat
  BY FiniteIsBounded
<1>2. PICK m \in Above : \A b \in Above : m <= b
  <2> HIDE DEF Above
  <2> QED BY <1>1, LeastExists
<1>3. m \in S
  <2> SUFFICES ASSUME m \notin S PROVE FALSE
    OBVIOUS
  <2>1. \A x \in S : x < m
    OBVIOUS
  <2>2. m # 0
    <3>1. PICK x \in S : x \in Nat
      OBVIOUS
    <3> QED BY <2>1, <3>1
  <2>3. m - 1 \in Nat /\ \A x \in S : x <= m - 1
    BY <2>1, <2>2
  <2>4. m <= m - 1
    BY <1>2, <2>3
  <2> QED BY <2>4
<1>4. \A y \in S : y <= m
  OBVIOUS
<1> QED BY <1>3, <1>4 DEF Max

\* The positions of a sequence are finitely many.
LEMMA PositionsFinite ==
  ASSUME NEW n \in Nat, NEW S, S \subseteq 1 .. n
  PROVE  IsFiniteSet(S) /\ S \subseteq Nat
<1>1. IsFiniteSet(1 .. n) /\ S \in SUBSET (1 .. n)
  BY FS_Interval
<1>2. IsFiniteSet(S)
  BY <1>1, FS_Subset
<1> QED BY <1>2

\* A finite set of numbers can be put in order.
LEMMA AscendingExists ==
  ASSUME NEW S, S \subseteq Nat, IsFiniteSet(S)
  PROVE  \E f \in [1 .. Cardinality(S) -> S] : \A i, j \in DOMAIN f : i < j => f[i] < f[j]
<1> DEFINE Ordered(T) ==
             \E f \in [1 .. Cardinality(T) -> T] : \A i, j \in DOMAIN f : i < j => f[i] < f[j]
           Bad == { n \in Nat : \E T \in SUBSET S : Cardinality(T) = n /\ ~Ordered(T) }
<1>1. SUFFICES Bad = {}
  <2>1. Cardinality(S) \in Nat /\ S \in SUBSET S
    BY FS_CardinalityType
  <2> QED BY <1>1, <2>1
<1>2. SUFFICES ASSUME Bad # {} PROVE FALSE
  OBVIOUS
<1>3. PICK n \in Bad : \A m \in Bad : n <= m
  <2> Bad \subseteq Nat
    OBVIOUS
  <2> HIDE DEF Bad
  <2> QED BY <1>2, LeastExists
<1>4. PICK T \in SUBSET S : Cardinality(T) = n /\ ~Ordered(T)
  OBVIOUS
<1>5. IsFiniteSet(T) /\ T \subseteq Nat
  BY FS_Subset
<1>6. T # {}
  <2> SUFFICES ASSUME T = {} PROVE FALSE
    OBVIOUS
  <2>1. Cardinality(T) = 0
    BY FS_EmptySet
  <2>2. << >> \in [1 .. 0 -> T] /\ DOMAIN << >> = {}
    OBVIOUS
  <2> QED BY <1>4, <2>1, <2>2
<1>7. PICK x : x \in T /\ \A y \in T : y <= x
  BY <1>5, <1>6, MaxIsGreatest
<1>8. PICK U : U = T \ {x}
  OBVIOUS
<1>9. IsFiniteSet(U) /\ Cardinality(U) = n - 1 /\ n \in Nat
  BY <1>4, <1>5, <1>7, <1>8, FS_RemoveElement
<1>10. n - 1 \in Nat
  BY <1>9, FS_CardinalityType
<1>11. U \in SUBSET S /\ n - 1 \notin Bad
  <2>1. ~(n <= n - 1)
    BY <1>9
  <2> HIDE DEF Bad
  <2> QED BY <1>3, <1>8, <2>1
<1>12. Ordered(U)
  BY <1>9, <1>10, <1>11
<1>13. PICK g \in [1 .. n - 1 -> U] : \A i, j \in 1 .. n - 1 : i < j => g[i] < g[j]
  BY <1>9, <1>12
<1>14. PICK f : f = [i \in 1 .. n |-> IF i = n THEN x ELSE g[i]]
  OBVIOUS
<1>15. \A i \in 1 .. n : i # n => i \in 1 .. n - 1
  BY <1>9
<1>16. DOMAIN f = 1 .. n /\ \A i \in 1 .. n : f[i] = IF i = n THEN x ELSE g[i]
  BY <1>14
<1>17. \A i \in 1 .. n - 1 : g[i] \in T /\ g[i] # x
  BY <1>8, <1>13
<1>18. f \in [1 .. n -> T]
  BY <1>7, <1>14, <1>15, <1>17
<1>19. ASSUME NEW i \in 1 .. n, NEW j \in 1 .. n, i < j PROVE f[i] < f[j]
  <2>1. i # n /\ i \in 1 .. n - 1 /\ f[i] = g[i]
    BY <1>9, <1>15, <1>16, <1>19
  <2>2. CASE j = n
    <3>1. g[i] <= x /\ g[i] # x /\ g[i] \in Nat /\ x \in Nat
      BY <1>5, <1>7, <1>17, <2>1
    <3> QED BY <1>16, <2>1, <2>2, <3>1
  <2>3. CASE j # n
    <3>1. j \in 1 .. n - 1 /\ f[j] = g[j]
      BY <1>15, <1>16, <2>3
    <3> QED BY <1>13, <1>19, <2>1, <3>1
  <2> QED BY <2>2, <2>3
<1>20. Ordered(T)
  BY <1>4, <1>16, <1>18, <1>19
<1> QED BY <1>4, <1>20

-----------------------------------------------------------------------------
(* What is said between the program and the compositor: the entries of a queue. *)

\* Only these types; at most one of a type; those of a type before those of another;
\* of a type with one seat only; the last seat that is announced.
Only(q, types) == \A i \in DOMAIN q : q[i].type \in types
Once(q, t) == \A i, j \in DOMAIN q : q[i].type = t /\ q[j].type = t => i = j
Before(q, t, u) == \A i, j \in DOMAIN q : q[i].type = t /\ q[j].type = u => i < j
OfSeat(q, t, s) == \A i \in DOMAIN q : q[i].type = t => q[i].seat = s
LastIs(q, s) == \E i \in SeatsIn(q) : q[i].global = s /\ \A j \in SeatsIn(q) : j <= i

\* A concatenation, by its places.
LEMMA Places ==
  ASSUME NEW T, NEW q \in Seq(T), NEW r \in Seq(T)
  PROVE  /\ q \o r \in Seq(T)
         /\ Len(q) \in Nat /\ Len(r) \in Nat
         /\ DOMAIN q = 1 .. Len(q) /\ DOMAIN r = 1 .. Len(r)
         /\ DOMAIN (q \o r) = 1 .. Len(q) + Len(r)
         /\ \A i \in DOMAIN q : i \in DOMAIN (q \o r) /\ (q \o r)[i] = q[i]
         /\ \A i \in DOMAIN r : /\ Len(q) + i \in DOMAIN (q \o r)
                               /\ (q \o r)[Len(q) + i] = r[i]
         /\ \A i \in DOMAIN (q \o r) :
               i \in DOMAIN q \/ (Len(q) < i /\ i - Len(q) \in DOMAIN r /\ Len(q) + (i - Len(q)) = i)
<1>1. Len(q) \in Nat /\ Len(r) \in Nat /\ DOMAIN q = 1 .. Len(q) /\ DOMAIN r = 1 .. Len(r)
  BY LenProperties
<1>2. q \o r \in Seq(T) /\ Len(q \o r) = Len(q) + Len(r)
      /\ \A i \in 1 .. Len(q) + Len(r) :
            (q \o r)[i] = IF i <= Len(q) THEN q[i] ELSE r[i - Len(q)]
  BY ConcatProperties
<1>3. DOMAIN (q \o r) = 1 .. Len(q) + Len(r)
  BY <1>2, LenProperties
<1>4. ASSUME NEW i \in DOMAIN r
      PROVE  /\ Len(q) + i \in DOMAIN (q \o r) /\ ~(Len(q) + i <= Len(q))
             /\ (Len(q) + i) - Len(q) = i
  BY <1>1, <1>3
<1>5. ASSUME NEW i \in DOMAIN r PROVE (q \o r)[Len(q) + i] = r[i]
  BY <1>2, <1>3, <1>4
<1>6. ASSUME NEW i \in DOMAIN q PROVE i \in DOMAIN (q \o r) /\ (q \o r)[i] = q[i]
  BY <1>1, <1>2, <1>3
<1>7. ASSUME NEW i \in DOMAIN (q \o r)
      PROVE  i \in DOMAIN q \/ (Len(q) < i /\ i - Len(q) \in DOMAIN r /\ Len(q) + (i - Len(q)) = i)
  BY <1>1, <1>3
<1> QED BY <1>1, <1>2, <1>3, <1>4, <1>5, <1>6, <1>7

\* The entries of p are those of q and r.
Entries(p, q, r) ==
    /\ \A i \in DOMAIN q : \E k \in DOMAIN p : p[k] = q[i]
    /\ \A i \in DOMAIN r : \E k \in DOMAIN p : p[k] = r[i]
    /\ \A k \in DOMAIN p : (\E i \in DOMAIN q : q[i] = p[k]) \/ (\E i \in DOMAIN r : r[i] = p[k])

LEMMA EntriesJoined ==
  ASSUME NEW T, NEW q \in Seq(T), NEW r \in Seq(T)
  PROVE  Entries(q \o r, q, r)
<1> DEFINE n == Len(q)
           p == q \o r
<1>1. /\ n \in Nat /\ DOMAIN q = 1 .. n /\ DOMAIN r \subseteq Nat \ {0}
      /\ \A i \in DOMAIN q : i \in DOMAIN p /\ p[i] = q[i]
      /\ \A i \in DOMAIN r : n + i \in DOMAIN p /\ p[n + i] = r[i]
      /\ \A i \in DOMAIN p : i \in DOMAIN q \/ (n < i /\ i - n \in DOMAIN r /\ n + (i - n) = i)
  BY Places
<1> HIDE DEF n, p
<1>2. ASSUME NEW k \in DOMAIN p, k \notin DOMAIN q PROVE \E i \in DOMAIN r : r[i] = p[k]
  <2>1. k - n \in DOMAIN r /\ n + (k - n) = k
    BY <1>1, <1>2
  <2>2. PICK i \in DOMAIN r : n + i = k
    BY <2>1
  <2> QED BY <1>1, <2>2
<1>3. \A k \in DOMAIN p : (\E i \in DOMAIN q : q[i] = p[k]) \/ (\E i \in DOMAIN r : r[i] = p[k])
  BY <1>1, <1>2
<1>4. \A i \in DOMAIN q : \E k \in DOMAIN p : p[k] = q[i]
  BY <1>1
<1>5. \A i \in DOMAIN r : \E k \in DOMAIN p : p[k] = r[i]
  BY <1>1
<1> QED BY <1>3, <1>4, <1>5 DEF p, Entries

LEMMA OnlyJoined ==
  ASSUME NEW T, NEW q \in Seq(T), NEW r \in Seq(T), NEW types
  PROVE  Only(q \o r, types) <=> Only(q, types) /\ Only(r, types)
<1> DEFINE p == q \o r
<1>1. Entries(p, q, r)
  BY EntriesJoined
<1> HIDE DEF p
<1>2. Only(p, types) => Only(q, types) /\ Only(r, types)
  BY <1>1 DEF Only, Entries
<1>3. Only(q, types) /\ Only(r, types) => Only(p, types)
  BY <1>1 DEF Only, Entries
<1> QED BY <1>2, <1>3 DEF p

LEMMA HasJoined ==
  ASSUME NEW T, NEW q \in Seq(T), NEW r \in Seq(T), NEW t
  PROVE  Has(q \o r, t) <=> Has(q, t) \/ Has(r, t)
<1> DEFINE p == q \o r
<1>1. Entries(p, q, r)
  BY EntriesJoined
<1> HIDE DEF p
<1>2. Has(p, t) => Has(q, t) \/ Has(r, t)
  BY <1>1 DEF Has, Entries
<1>3. Has(q, t) \/ Has(r, t) => Has(p, t)
  BY <1>1 DEF Has, Entries
<1> QED BY <1>2, <1>3 DEF p

LEMMA OfSeatJoined ==
  ASSUME NEW T, NEW q \in Seq(T), NEW r \in Seq(T), NEW t, NEW s
  PROVE  OfSeat(q \o r, t, s) <=> OfSeat(q, t, s) /\ OfSeat(r, t, s)
<1> DEFINE p == q \o r
<1>1. Entries(p, q, r)
  BY EntriesJoined
<1> HIDE DEF p
<1>2. OfSeat(p, t, s) => OfSeat(q, t, s) /\ OfSeat(r, t, s)
  BY <1>1 DEF OfSeat, Entries
<1>3. OfSeat(q, t, s) /\ OfSeat(r, t, s) => OfSeat(p, t, s)
  BY <1>1 DEF OfSeat, Entries
<1> QED BY <1>2, <1>3 DEF p

LEMMA OnceJoined ==
  ASSUME NEW T, NEW q \in Seq(T), NEW r \in Seq(T), NEW t
  PROVE  Once(q \o r, t) <=> Once(q, t) /\ Once(r, t) /\ ~(Has(q, t) /\ Has(r, t))
<1> DEFINE n == Len(q)
           p == q \o r
<1>1. /\ n \in Nat /\ DOMAIN q = 1 .. n /\ DOMAIN r \subseteq Nat \ {0}
      /\ \A i \in DOMAIN q : i \in DOMAIN p /\ p[i] = q[i]
      /\ \A i \in DOMAIN r : n + i \in DOMAIN p /\ p[n + i] = r[i]
      /\ \A i \in DOMAIN p : i \in DOMAIN q \/ (n < i /\ i - n \in DOMAIN r /\ n + (i - n) = i)
  BY Places
<1> HIDE DEF n, p
<1>2. ASSUME Once(p, t) PROVE Once(q, t) /\ Once(r, t) /\ ~(Has(q, t) /\ Has(r, t))
  <2>1. Once(q, t)
    BY <1>1, <1>2 DEF Once
  <2>2. Once(r, t)
    <3> SUFFICES ASSUME NEW i \in DOMAIN r, NEW j \in DOMAIN r, r[i].type = t, r[j].type = t
                 PROVE  i = j
      BY DEF Once
    <3>1. n + i = n + j
      BY <1>1, <1>2 DEF Once
    <3> QED BY <1>1, <3>1
  <2>3. ASSUME NEW i \in DOMAIN q, q[i].type = t, NEW j \in DOMAIN r, r[j].type = t PROVE FALSE
    <3>1. i = n + j
      BY <1>1, <1>2, <2>3 DEF Once
    <3> QED BY <1>1, <3>1
  <2> QED BY <2>1, <2>2, <2>3 DEF Has
<1>3. ASSUME Once(q, t), Once(r, t), ~(Has(q, t) /\ Has(r, t)) PROVE Once(p, t)
  <2> SUFFICES ASSUME NEW i \in DOMAIN p, NEW j \in DOMAIN p, p[i].type = t, p[j].type = t
               PROVE  i = j
    BY DEF Once
  <2>1. CASE i \in DOMAIN q /\ j \in DOMAIN q
    BY <1>1, <1>3, <2>1 DEF Once
  <2>2. CASE i \notin DOMAIN q /\ j \notin DOMAIN q
    <3>1. i - n \in DOMAIN r /\ j - n \in DOMAIN r /\ n + (i - n) = i /\ n + (j - n) = j
      BY <1>1, <2>2
    <3>2. r[i - n] = p[i] /\ r[j - n] = p[j]
      BY <1>1, <3>1
    <3>3. i - n = j - n
      BY <1>3, <3>1, <3>2 DEF Once
    <3> QED BY <3>1, <3>3
  <2>3. CASE ~(i \in DOMAIN q <=> j \in DOMAIN q)
    BY <1>1, <1>3, <2>3 DEF Has
  <2> QED BY <2>1, <2>2, <2>3
<1> QED BY <1>2, <1>3 DEF p

LEMMA BeforeJoined ==
  ASSUME NEW T, NEW q \in Seq(T), NEW r \in Seq(T), NEW t, NEW u
  PROVE  Before(q \o r, t, u) <=> Before(q, t, u) /\ Before(r, t, u) /\ ~(Has(q, u) /\ Has(r, t))
<1> DEFINE n == Len(q)
           p == q \o r
<1>1. /\ n \in Nat /\ DOMAIN q = 1 .. n /\ DOMAIN r \subseteq Nat \ {0}
      /\ \A i \in DOMAIN q : i \in DOMAIN p /\ p[i] = q[i]
      /\ \A i \in DOMAIN r : n + i \in DOMAIN p /\ p[n + i] = r[i]
      /\ \A i \in DOMAIN p : i \in DOMAIN q \/ (n < i /\ i - n \in DOMAIN r /\ n + (i - n) = i)
  BY Places
<1> HIDE DEF n, p
<1>2. ASSUME Before(p, t, u)
      PROVE  Before(q, t, u) /\ Before(r, t, u) /\ ~(Has(q, u) /\ Has(r, t))
  <2>1. Before(q, t, u)
    BY <1>1, <1>2 DEF Before
  <2>2. Before(r, t, u)
    <3> SUFFICES ASSUME NEW i \in DOMAIN r, NEW j \in DOMAIN r, r[i].type = t, r[j].type = u
                 PROVE  i < j
      BY DEF Before
    <3>1. n + i < n + j
      BY <1>1, <1>2 DEF Before
    <3> QED BY <1>1, <3>1
  <2>3. ASSUME NEW i \in DOMAIN q, q[i].type = u, NEW j \in DOMAIN r, r[j].type = t PROVE FALSE
    <3>1. n + j < i
      BY <1>1, <1>2, <2>3 DEF Before
    <3> QED BY <1>1, <3>1
  <2> QED BY <2>1, <2>2, <2>3 DEF Has
<1>3. ASSUME Before(q, t, u), Before(r, t, u), ~(Has(q, u) /\ Has(r, t)) PROVE Before(p, t, u)
  <2> SUFFICES ASSUME NEW i \in DOMAIN p, NEW j \in DOMAIN p, p[i].type = t, p[j].type = u
               PROVE  i < j
    BY DEF Before
  <2>1. CASE i \in DOMAIN q /\ j \in DOMAIN q
    BY <1>1, <1>3, <2>1 DEF Before
  <2>2. CASE i \notin DOMAIN q /\ j \notin DOMAIN q
    <3>1. i - n \in DOMAIN r /\ j - n \in DOMAIN r /\ n + (i - n) = i /\ n + (j - n) = j
      BY <1>1, <2>2
    <3>2. r[i - n] = p[i] /\ r[j - n] = p[j]
      BY <1>1, <3>1
    <3>3. i - n < j - n
      BY <1>3, <3>1, <3>2 DEF Before
    <3>4. PICK a, b : a = i - n /\ b = j - n
      OBVIOUS
    <3> QED BY <1>1, <3>1, <3>3, <3>4
  <2>3. CASE i \in DOMAIN q /\ j \notin DOMAIN q
    BY <1>1, <2>3
  <2>4. CASE i \notin DOMAIN q /\ j \in DOMAIN q
    BY <1>1, <1>3, <2>4 DEF Has
  <2> QED BY <2>1, <2>2, <2>3, <2>4
<1> QED BY <1>2, <1>3 DEF p

LEMMA SeatsJoined ==
  ASSUME NEW T, NEW q \in Seq(T), NEW r \in Seq(T), NEW s
  PROVE  /\ SeatsIn(q \o r) = {} <=> SeatsIn(q) = {} /\ SeatsIn(r) = {}
         /\ LastIs(q \o r, s) <=> LastIs(r, s) \/ (SeatsIn(r) = {} /\ LastIs(q, s))
<1> DEFINE n == Len(q)
           p == q \o r
<1>1. /\ n \in Nat /\ DOMAIN q = 1 .. n /\ DOMAIN r \subseteq Nat \ {0}
      /\ \A i \in DOMAIN q : i \in DOMAIN p /\ p[i] = q[i]
      /\ \A i \in DOMAIN r : n + i \in DOMAIN p /\ p[n + i] = r[i]
      /\ \A i \in DOMAIN p : i \in DOMAIN q \/ (n < i /\ i - n \in DOMAIN r /\ n + (i - n) = i)
  BY Places
<1> HIDE DEF n, p
<1>2. /\ \A i \in SeatsIn(q) : i \in SeatsIn(p) /\ i \in 1 .. n /\ p[i] = q[i]
      /\ \A i \in SeatsIn(r) : n + i \in SeatsIn(p) /\ i \in Nat \ {0} /\ p[n + i] = r[i]
      /\ \A i \in SeatsIn(p) : \/ i \in SeatsIn(q)
                               \/ n < i /\ i - n \in SeatsIn(r) /\ n + (i - n) = i
  BY <1>1 DEF SeatsIn
<1>3. SeatsIn(p) = {} <=> SeatsIn(q) = {} /\ SeatsIn(r) = {}
  BY <1>2
<1>4. ASSUME LastIs(p, s) PROVE LastIs(r, s) \/ (SeatsIn(r) = {} /\ LastIs(q, s))
  <2>1. PICK i \in SeatsIn(p) : p[i].global = s /\ \A j \in SeatsIn(p) : j <= i
    BY <1>4 DEF LastIs
  <2>2. CASE i \in SeatsIn(q)
    <3>1. ASSUME NEW j \in SeatsIn(r) PROVE FALSE
      <4>1. n + j <= i
        BY <1>2, <2>1, <3>1
      <4> QED BY <1>1, <1>2, <2>2, <3>1, <4>1
    <3> QED BY <1>2, <2>1, <2>2, <3>1 DEF LastIs
  <2>3. CASE i \notin SeatsIn(q)
    <3>1. n < i /\ i - n \in SeatsIn(r) /\ n + (i - n) = i
      BY <1>2, <2>3
    <3>2. PICK k \in SeatsIn(r) : n + k = i /\ k = i - n
      BY <3>1
    <3>3. ASSUME NEW j \in SeatsIn(r) PROVE j <= k
      <4>1. n + j <= n + k /\ j \in Nat /\ k \in Nat
        BY <1>2, <2>1, <3>2, <3>3
      <4> QED BY <1>1, <4>1
    <3>4. r[k].global = s
      BY <1>2, <2>1, <3>2
    <3> QED BY <3>3, <3>4 DEF LastIs
  <2> QED BY <2>2, <2>3
<1>5. ASSUME LastIs(r, s) PROVE LastIs(p, s)
  <2>1. PICK i \in SeatsIn(r) : r[i].global = s /\ \A j \in SeatsIn(r) : j <= i
    BY <1>5 DEF LastIs
  <2>2. ASSUME NEW j \in SeatsIn(p) PROVE j <= n + i
    <3>1. CASE j \in SeatsIn(q)
      BY <1>1, <1>2, <3>1
    <3>2. CASE j \notin SeatsIn(q)
      <4>1. j - n \in SeatsIn(r) /\ n + (j - n) = j
        BY <1>2, <3>2
      <4>2. PICK k \in SeatsIn(r) : n + k = j
        BY <4>1
      <4>3. k <= i /\ k \in Nat /\ i \in Nat
        BY <1>2, <2>1
      <4> QED BY <1>1, <4>2, <4>3
    <3> QED BY <3>1, <3>2
  <2> QED BY <1>2, <2>1, <2>2 DEF LastIs
<1>6. ASSUME SeatsIn(r) = {}, LastIs(q, s) PROVE LastIs(p, s)
  <2>1. PICK i \in SeatsIn(q) : q[i].global = s /\ \A j \in SeatsIn(q) : j <= i
    BY <1>6 DEF LastIs
  <2>2. \A j \in SeatsIn(p) : j \in SeatsIn(q)
    BY <1>2, <1>6
  <2> QED BY <1>2, <2>1, <2>2 DEF LastIs
<1> QED BY <1>3, <1>4, <1>5, <1>6 DEF p

\* One entry.
LEMMA OneEntry ==
  ASSUME NEW x, NEW types, NEW t, NEW u, NEW s
  PROVE  /\ Only(<<x>>, types) <=> x.type \in types
         /\ Has(<<x>>, t) <=> x.type = t
         /\ Once(<<x>>, t)
         /\ t # u => Before(<<x>>, t, u)
         /\ OfSeat(<<x>>, t, s) <=> (x.type = t => x.seat = s)
         /\ x.type # "global" => SeatsIn(<<x>>) = {}
<1>1. DOMAIN <<x>> = {1} /\ <<x>>[1] = x
  OBVIOUS
<1> QED BY <1>1 DEF Only, Has, Once, Before, OfSeat, SeatsIn

\* A queue, cut in two; and one whose first entry is taken.
LEMMA CutInTwo ==
  ASSUME NEW T, NEW q \in Seq(T), NEW n \in 1 .. Len(q)
  PROVE  /\ SubSeq(q, 1, n) \in Seq(T) /\ SubSeq(q, n + 1, Len(q)) \in Seq(T)
         /\ q = SubSeq(q, 1, n) \o SubSeq(q, n + 1, Len(q))
         /\ Len(SubSeq(q, 1, n)) = n
<1> DEFINE m == Len(q)
           b == SubSeq(q, 1, n)
           r == SubSeq(q, n + 1, m)
<1>1. m \in Nat /\ n \in 1 .. m /\ DOMAIN q = 1 .. m /\ \A i \in 1 .. m : q[i] \in T
  BY LenProperties, ElementOfSeq
<1>2. b \in Seq(T) /\ Len(b) = n /\ \A i \in 1 .. n : b[i] = q[i]
  <2> HIDE DEF m
  <2>1. /\ b \in Seq(T) /\ Len(b) = IF 1 <= n THEN n - 1 + 1 ELSE 0
        /\ \A i \in 1 .. n - 1 + 1 : b[i] = q[1 + i - 1]
    <3>1. \A i \in 1 .. n : q[i] \in T
      BY <1>1
    <3> QED BY <1>1, <3>1, SubSeqProperties
  <2> HIDE DEF b
  <2> QED BY <1>1, <2>1
<1>3. r \in Seq(T) /\ Len(r) = m - n /\ \A i \in 1 .. m - n : r[i] = q[n + i]
  <2> HIDE DEF m
  <2>1. /\ r \in Seq(T) /\ Len(r) = IF n + 1 <= m THEN m - (n + 1) + 1 ELSE 0
        /\ \A i \in 1 .. m - (n + 1) + 1 : r[i] = q[(n + 1) + i - 1]
    <3>1. \A i \in n + 1 .. m : q[i] \in T
      BY <1>1
    <3>2. n + 1 \in Int /\ m \in Int
      BY <1>1
    <3> QED BY <3>1, <3>2, SubSeqProperties
  <2> HIDE DEF r
  <2> QED BY <1>1, <2>1
<1> HIDE DEF b, r
<1>4. b \o r \in Seq(T) /\ Len(b \o r) = n + (m - n)
      /\ \A i \in 1 .. n + (m - n) : (b \o r)[i] = IF i <= n THEN b[i] ELSE r[i - n]
  <2>1. /\ b \o r \in Seq(T) /\ Len(b \o r) = Len(b) + Len(r)
        /\ \A i \in 1 .. Len(b) + Len(r) : (b \o r)[i] = IF i <= Len(b) THEN b[i] ELSE r[i - Len(b)]
    BY <1>2, <1>3, ConcatProperties
  <2>2. Len(b) = n /\ Len(r) = m - n
    BY <1>2, <1>3
  <2> HIDE DEF m
  <2> QED BY ONLY <2>1, <2>2
<1> HIDE DEF m
<1>5. Len(b \o r) = m
  BY <1>1, <1>4
<1>6. ASSUME NEW i \in 1 .. m PROVE (b \o r)[i] = q[i]
  <2>1. i \in 1 .. n + (m - n)
    BY <1>1
  <2>2. CASE i <= n
    BY <1>1, <1>2, <1>4, <2>1, <2>2
  <2>3. CASE ~(i <= n)
    <3>1. i - n \in 1 .. m - n /\ n + (i - n) = i
      BY <1>1, <2>3
    <3>2. r[i - n] = q[i]
      BY <1>3, <3>1
    <3> QED BY <1>4, <2>1, <2>3, <3>2
  <2> QED BY <2>2, <2>3
<1>7. q = b \o r
  BY <1>4, <1>5, <1>6, SeqEqual DEF m
<1> QED BY <1>2, <1>3, <1>7 DEF b, r, m

LEMMA FirstTaken ==
  ASSUME NEW T, NEW q \in Seq(T), q # << >>
  PROVE  /\ Head(q) \in T /\ Tail(q) \in Seq(T) /\ <<Head(q)>> \in Seq(T)
         /\ q = <<Head(q)>> \o Tail(q)
<1>1. Head(q) \in T /\ Tail(q) \in Seq(T)
  BY HeadTailProperties
<1>2. <<Head(q)>> \in Seq(T)
  BY <1>1
<1>3. q = <<Head(q)>> \o Tail(q)
  BY <1>1
<1> QED BY <1>1, <1>2, <1>3

-----------------------------------------------------------------------------
(* The inductive invariant.  First what is said with the compositor. *)

Event ==
    [type : {"global"}, global : Seat \cup {"other"}]
    \cup [type : {"keymap"}, seat : Seat]
    \cup [type : {"done", "capabilities", "error"}]
Request == [type : {"get_registry", "sync", "bind"}] \cup [type : {"get_keyboard"}, seat : Seat]

\* The requests q and the events e under way at each stage, s being the last seat and
\* having a keyboard, st the seat known and fd the keymap received so far.
AskGlobals(q, e, s) ==
    \/ q = <<[type |-> "get_registry"]>> /\ e = << >>
    \/ q = << >> /\ Only(e, {"global"}) /\ LastIs(e, s)

AwaitGlobals(q, e, s, st) ==
    /\ Only(q, {"bind", "sync"}) /\ Only(e, {"global", "capabilities", "done"})
    /\ LastIs(e, s) \/ (SeatsIn(e) = {} /\ st = s)
    /\ Before(e, "global", "done")
    /\ Once(q, "sync") /\ Once(e, "done") /\ ~(Has(q, "sync") /\ Has(e, "done"))

KeymapComes(q, e, s, fd) ==
    /\ OfSeat(q, "get_keyboard", s) /\ OfSeat(e, "keymap", s)
    /\ fd = s \/ Has(e, "keymap") \/ Has(q, "get_keyboard")

AskKeymap(q, e, s, fd) ==
    /\ Only(q, {"bind", "get_keyboard"}) /\ Only(e, {"capabilities", "keymap"})
    /\ KeymapComes(q, e, s, fd)

AwaitKeymap(q, e, s, fd) ==
    /\ Only(q, {"bind", "get_keyboard", "sync"}) /\ Only(e, {"capabilities", "keymap", "done"})
    /\ KeymapComes(q, e, s, fd)
    /\ Before(q, "get_keyboard", "sync") /\ Before(e, "keymap", "done")
    /\ ~(Has(q, "get_keyboard") /\ Has(e, "done"))

Chat(s) ==
    /\ fetch # "failed"
    /\ fetch = "globals" => AskGlobals(requests, events, s)
    /\ fetch = "syncGlobals" => AwaitGlobals(requests, events, s, seat)
    /\ fetch = "keymap" => AskKeymap(requests, events, s, keymapFd)
    /\ fetch = "syncKeymap" => AwaitKeymap(requests, events, s, keymapFd)
    /\ fetch = "open" => keymapFd = s

FetchOK ==
    /\ FetchTypeOK
    /\ requests \in Seq(Request) /\ events \in Seq(Event)
    /\ fetch \in {"x11", "wayland"} => announced = << >> /\ events = << >>
    /\ IF fetch = "fetched" THEN desktop \in Desktops ELSE desktop = None

Chatting == SeatsAnnounced # {} /\ LastSeat \in Keyboards => Chat(LastSeat)

\* The scan and the parser.  What has been seen is mapped; the modifiers are read last.
SeenIsMapped ==
    fetch = "fetched" => \A k \in Keycode : \A m \in Mask :
        k < keycode \/ (k = keycode /\ m \in masks) => Syms[desktop][k][m] \subseteq Mapped

InTurn ==
    /\ fetch # "fetched" => keycode = MinKeycode /\ masks = {} /\ Mapped = {}
    /\ Ready => Scanned
    /\ packet # NoPacket => Ready

ScanOK == ScanTypeOK /\ ParseTypeOK /\ InTurn /\ SeenIsMapped /\ FewestModifiers

\* The events.  The last one about c leaves it as it is asked to be; without one it is.
IsKey(e, c) == e.type = "key" /\ e.code = c
Settles(q, d, a, c) ==
    \/ (\A i \in DOMAIN q : ~IsKey(q[i], c)) /\ (c \in d <=> c \in a)
    \/ \E i \in DOMAIN q :
          /\ IsKey(q[i], c) /\ \A j \in DOMAIN q : i < j => ~IsKey(q[j], c)
          /\ (q[i].value = 1 <=> c \in a)

WillHold == \A c \in Supported : Settles(todo, down, asked, c)

\* A hotkey, k of whose keys are pressed, presses the others next.
Pressing(q, d, keys) ==
    /\ Len(q) <= 2 * Len(keys)
    /\ \A k \in 0 .. Len(keys) : Len(q) + k = 2 * Len(keys) =>
          /\ \A i \in 1 .. k : LinuxKey[keys[i]] \in d
          /\ \A i \in k + 1 .. Len(keys) : q[i - k] = Press(LinuxKey[keys[i]])

HotkeyGoesOn == packet.type = "HOTKEY" => Pressing(todo, down, packet.keys)

\* The codes that a packet names.
Named == { LinuxKey[k] : k \in Key } \cup Button

Input ==
    [type : {"key"}, code : Codomain, value : {0, 1}]
    \cup [type : {"wheel"}, code : {8}, value : {-1, 1}]

DeviceTypeOK ==
    /\ down \subseteq Supported /\ before \subseteq Supported
    /\ packet \in Packets \cup {NoPacket}
    /\ todo \in Seq(Input)
    /\ typed \in Seq([code : Codomain, held : SUBSET Mod])

DeviceOK == DeviceTypeOK /\ asked \subseteq Named /\ WillHold /\ HotkeyGoesOn

IInv == FetchOK /\ Chatting /\ ScanOK /\ DeviceOK

-----------------------------------------------------------------------------
(* The messages. *)

LEMMA Messages ==
  /\ Sync \in Request /\ [type |-> "bind"] \in Request /\ [type |-> "get_registry"] \in Request
  /\ \A s \in Seat : [type |-> "get_keyboard", seat |-> s] \in Request
  /\ \A g \in Seat \cup {"other"} : [type |-> "global", global |-> g] \in Event
  /\ \A s \in Seat : [type |-> "keymap", seat |-> s] \in Event
  /\ \A t \in {"done", "capabilities", "error"} : [type |-> t] \in Event
BY DEF Request, Event, Sync

LEMMA MessageFields ==
  /\ \A e \in Event : /\ e.type = "global" => e.global \in Seat \cup {"other"}
                      /\ e.type = "keymap" => e.seat \in Seat
  /\ \A q \in Request : /\ q.type \in {"get_registry", "sync", "bind", "get_keyboard"}
                        /\ q.type = "get_keyboard" => q.seat \in Seat
BY DEF Request, Event

LEMMA SingletonSeq ==
  ASSUME NEW T, NEW x \in T
  PROVE  <<x>> \in Seq(T)
OBVIOUS

LEMMA BindsTyped ==
  ASSUME NEW b \in Seq(Event)
  PROVE  /\ Binds(b) \in Seq(Request)
         /\ \A i \in DOMAIN Binds(b) : Binds(b)[i].type = "bind"
<1>1. SeatsIn(b) \subseteq 1 .. Len(b) /\ Len(b) \in Nat
  BY LenProperties DEF SeatsIn
<1>2. Cardinality(SeatsIn(b)) \in Nat
  BY <1>1, PositionsFinite, FS_CardinalityType
<1>3. PICK c \in Nat : c = Cardinality(SeatsIn(b))
  BY <1>2
<1>4. Binds(b) = [i \in 1 .. c |-> [type |-> "bind"]]
  BY <1>3 DEF Binds
<1>5. [type |-> "bind"] \in Request
  BY Messages
<1>6. Binds(b) \in Seq(Request)
  BY <1>4, <1>5, IsASeq
<1>7. \A i \in DOMAIN Binds(b) : Binds(b)[i] = [type |-> "bind"]
  BY <1>4
<1> QED BY <1>6, <1>7

LEMMA AnswerTyped ==
  ASSUME NEW q \in Request, announced \in Seq(Seat \cup {"other"})
  PROVE  Answer(q) \in Seq(Event)
<1>1. CASE q.type = "get_registry"
  <2>1. PICK n \in Nat : DOMAIN announced = 1 .. n
    BY LenProperties
  <2>2. \A i \in 1 .. n : announced[i] \in Seat \cup {"other"}
    BY <2>1, ElementOfSeq, LenProperties
  <2>3. [i \in 1 .. n |-> [type |-> "global", global |-> announced[i]]] \in Seq(Event)
    BY <2>2, Messages, IsASeq
  <2> QED BY <1>1, <2>1, <2>3 DEF Answer
<1>2. CASE q.type = "sync"
  <2>1. <<[type |-> "done"]>> \in Seq(Event)
    BY Messages, SingletonSeq
  <2> QED BY <1>2, <2>1 DEF Answer
<1>3. CASE q.type = "bind"
  <2>1. <<[type |-> "capabilities"]>> \in Seq(Event)
    BY Messages, SingletonSeq
  <2> QED BY <1>3, <2>1 DEF Answer
<1>4. CASE q.type = "get_keyboard"
  <2>1. q.seat \in Seat
    BY <1>4, MessageFields
  <2>2. [type |-> "keymap", seat |-> q.seat] \in Event /\ [type |-> "error"] \in Event
    BY <2>1, Messages
  <2>3. <<[type |-> "keymap", seat |-> q.seat]>> \in Seq(Event) /\ <<[type |-> "error"]>> \in Seq(Event)
    BY <2>2, SingletonSeq
  <2> QED BY <1>4, <2>3 DEF Answer
<1> QED BY <1>1, <1>2, <1>3, <1>4, MessageFields

\* What the handlers keep of a batch.
SeatOf(b, st) == IF SeatsIn(b) = {} THEN st ELSE b[Max(SeatsIn(b))].global
KeymapOf(b, fd) == IF KeymapsIn(b) = {} THEN fd ELSE b[Max(KeymapsIn(b))].seat

LEMMA LastPlace ==
  ASSUME NEW b \in Seq(Event), NEW S, S \subseteq DOMAIN b, S # {}
  PROVE  Max(S) \in S /\ \A i \in S : i <= Max(S)
<1>1. DOMAIN b = 1 .. Len(b) /\ Len(b) \in Nat
  BY LenProperties
<1> QED BY <1>1, PositionsFinite, MaxIsGreatest

LEMMA HandlersTyped ==
  ASSUME NEW b \in Seq(Event), NEW st \in Seat \cup {None}, NEW fd \in Seat \cup {None}
  PROVE  SeatOf(b, st) \in Seat \cup {None} /\ KeymapOf(b, fd) \in Seat \cup {None}
<1>1. \A i \in DOMAIN b : b[i] \in Event
  BY ElementOfSeq, LenProperties
<1>2. SeatsIn(b) # {} => b[Max(SeatsIn(b))].global \in Seat
  <2>1. SeatsIn(b) \subseteq DOMAIN b
    BY DEF SeatsIn
  <2>2. SUFFICES ASSUME SeatsIn(b) # {} PROVE b[Max(SeatsIn(b))].global \in Seat
    OBVIOUS
  <2>3. PICK i \in SeatsIn(b) : i = Max(SeatsIn(b))
    BY <2>1, <2>2, LastPlace
  <2>4. b[i] \in Event /\ b[i].type = "global" /\ b[i].global # "other"
    BY <1>1 DEF SeatsIn
  <2> QED BY <2>3, <2>4, MessageFields
<1>3. KeymapsIn(b) # {} => b[Max(KeymapsIn(b))].seat \in Seat
  <2>1. KeymapsIn(b) \subseteq DOMAIN b
    BY DEF KeymapsIn
  <2>2. SUFFICES ASSUME KeymapsIn(b) # {} PROVE b[Max(KeymapsIn(b))].seat \in Seat
    OBVIOUS
  <2>3. PICK i \in KeymapsIn(b) : i = Max(KeymapsIn(b))
    BY <2>1, <2>2, LastPlace
  <2>4. b[i] \in Event /\ b[i].type = "keymap"
    BY <1>1 DEF KeymapsIn
  <2> QED BY <2>3, <2>4, MessageFields
<1> QED BY <1>2, <1>3 DEF SeatOf, KeymapOf

LEMMA SeatKept ==
  ASSUME NEW b \in Seq(Event), NEW s, NEW st
  PROVE  /\ LastIs(b, s) => SeatOf(b, st) = s
         /\ SeatsIn(b) = {} => SeatOf(b, st) = st
<1>1. ASSUME LastIs(b, s) PROVE SeatOf(b, st) = s
  <2>1. PICK i \in SeatsIn(b) : b[i].global = s /\ \A j \in SeatsIn(b) : j <= i
    BY <1>1 DEF LastIs
  <2>2. SeatsIn(b) \subseteq DOMAIN b /\ SeatsIn(b) # {}
    BY <2>1 DEF SeatsIn
  <2>3. PICK m \in SeatsIn(b) : m = Max(SeatsIn(b)) /\ i <= m /\ m <= i
    BY <2>1, <2>2, LastPlace
  <2>4. m \in Nat /\ i \in Nat
    BY <2>2, LenProperties
  <2>5. m = i
    BY <2>3, <2>4
  <2> QED BY <2>1, <2>2, <2>3, <2>5 DEF SeatOf
<1> QED BY <1>1 DEF SeatOf

LEMMA KeymapKept ==
  ASSUME NEW b \in Seq(Event), NEW s, NEW fd, OfSeat(b, "keymap", s)
  PROVE  /\ Has(b, "keymap") => KeymapOf(b, fd) = s
         /\ ~Has(b, "keymap") => KeymapOf(b, fd) = fd
<1>1. KeymapsIn(b) # {} <=> Has(b, "keymap")
  BY DEF KeymapsIn, Has
<1>2. ASSUME Has(b, "keymap") PROVE KeymapOf(b, fd) = s
  <2>1. KeymapsIn(b) \subseteq DOMAIN b /\ KeymapsIn(b) # {}
    BY <1>1, <1>2 DEF KeymapsIn
  <2>2. PICK m \in KeymapsIn(b) : m = Max(KeymapsIn(b))
    BY <2>1, LastPlace
  <2>3. b[m].seat = s
    BY DEF KeymapsIn, OfSeat
  <2> QED BY <2>1, <2>2, <2>3 DEF KeymapOf
<1> QED BY <1>1, <1>2 DEF KeymapOf

-----------------------------------------------------------------------------
(* What a step does to the two queues, stage by stage.  The batch b is handled, *)
(* the events r stay; or the first request h is answered, the requests t stay.  *)

LEMMA OnlyBinds ==
  ASSUME NEW b \in Seq(Event), NEW types, NEW t, NEW u, NEW s
  PROVE  /\ "bind" \in types => Only(Binds(b), types)
         /\ t # "bind" => ~Has(Binds(b), t) /\ Once(Binds(b), t) /\ OfSeat(Binds(b), t, s)
         /\ t # "bind" => Before(Binds(b), t, u) /\ Before(Binds(b), u, t)
BY BindsTyped DEF Only, Has, Once, OfSeat, Before

LEMMA OnlyAmong ==
  ASSUME NEW q, NEW types, NEW more, Only(q, types), types \subseteq more
  PROVE  Only(q, more)
BY DEF Only

LEMMA OnlyWithout ==
  ASSUME NEW q, NEW types, Only(q, types), NEW t, ~Has(q, t)
  PROVE  Only(q, types \ {t})
BY DEF Only, Has

LEMMA LacksGlobals ==
  ASSUME NEW q, ~Has(q, "global")
  PROVE  SeatsIn(q) = {} /\ \A s : ~LastIs(q, s)
BY DEF Has, SeatsIn, LastIs

LEMMA GlobalsHandled ==
  ASSUME NEW s \in Seat, NEW st, NEW b \in Seq(Event), NEW r \in Seq(Event),
         Only(b \o r, {"global"}), LastIs(b \o r, s)
  PROVE  AwaitGlobals((<< >> \o Binds(b)) \o <<Sync>>, r, s, SeatOf(b, st))
<1> DEFINE q == Binds(b)
<1>1. q \in Seq(Request) /\ <<Sync>> \in Seq(Request) /\ << >> \o q = q
  BY BindsTyped, Messages, SingletonSeq
<1>2. Only(r, {"global"})
  BY OnlyJoined
<1>3. Only(r, {"global", "capabilities", "done"}) /\ Once(r, "done") /\ ~Has(r, "done")
      /\ Before(r, "global", "done")
  BY <1>2 DEF Only, Has, Once, Before
<1>4. LastIs(r, s) \/ (SeatsIn(r) = {} /\ SeatOf(b, st) = s)
  BY SeatsJoined, SeatKept
<1>5. Only(q, {"bind", "sync"}) /\ ~Has(q, "sync") /\ Once(q, "sync")
  BY OnlyBinds
<1>6. Only(<<Sync>>, {"bind", "sync"}) /\ Once(<<Sync>>, "sync")
  BY OneEntry DEF Sync
<1> HIDE DEF q
<1>7. Only(q \o <<Sync>>, {"bind", "sync"}) /\ Once(q \o <<Sync>>, "sync")
  BY <1>1, <1>5, <1>6, OnlyJoined, OnceJoined
<1> QED BY <1>1, <1>3, <1>4, <1>7 DEF AwaitGlobals, q

LEMMA GlobalsHandledOn ==
  ASSUME NEW s \in Seat, NEW st, NEW fd, NEW b \in Seq(Event), NEW r \in Seq(Event), NEW q \in Seq(Request),
         AwaitGlobals(q, b \o r, s, st)
  PROVE  /\ AwaitGlobals(q \o Binds(b), r, s, SeatOf(b, st))
         /\ Has(b, "done") =>
              /\ SeatOf(b, st) = s
              /\ \A k : k = [type |-> "get_keyboard", seat |-> s] =>
                    AskKeymap((q \o Binds(b)) \o <<k>>, r, s, fd)
<1> DEFINE p == Binds(b)
<1>1. p \in Seq(Request) /\ q \o p \in Seq(Request)
  BY BindsTyped, ConcatProperties
<1>2. Only(p, {"bind", "sync"}) /\ ~Has(p, "sync") /\ Once(p, "sync")
      /\ OfSeat(p, "get_keyboard", s) /\ Only(p, {"bind", "get_keyboard"})
  BY OnlyBinds
<1> HIDE DEF p
<1>3. /\ Only(q, {"bind", "sync"}) /\ Only(b \o r, {"global", "capabilities", "done"})
      /\ LastIs(b \o r, s) \/ (SeatsIn(b \o r) = {} /\ st = s)
      /\ Before(b \o r, "global", "done")
      /\ Once(q, "sync") /\ Once(b \o r, "done") /\ ~(Has(q, "sync") /\ Has(b \o r, "done"))
  BY DEF AwaitGlobals
<1>4. /\ Only(b, {"global", "capabilities", "done"}) /\ Only(r, {"global", "capabilities", "done"})
      /\ Before(r, "global", "done") /\ ~(Has(b, "done") /\ Has(r, "global"))
      /\ Once(r, "done") /\ ~(Has(b, "done") /\ Has(r, "done"))
      /\ Has(b \o r, "done") <=> Has(b, "done") \/ Has(r, "done")
  BY <1>3, OnlyJoined, BeforeJoined, OnceJoined, HasJoined
<1>5. LastIs(r, s) \/ (SeatsIn(r) = {} /\ SeatOf(b, st) = s)
  BY <1>3, SeatsJoined, SeatKept
<1>6. AwaitGlobals(q \o p, r, s, SeatOf(b, st))
  <2>1. Only(q \o p, {"bind", "sync"}) /\ Once(q \o p, "sync") /\ (Has(q \o p, "sync") => Has(q, "sync"))
    BY <1>1, <1>2, <1>3, OnlyJoined, OnceJoined, HasJoined
  <2> QED BY <1>3, <1>4, <1>5, <2>1 DEF AwaitGlobals
<1>7. ASSUME Has(b, "done"), NEW k, k = [type |-> "get_keyboard", seat |-> s]
      PROVE  SeatOf(b, st) = s /\ AskKeymap((q \o p) \o <<k>>, r, s, fd)
  <2>1. ~Has(r, "global") /\ ~Has(r, "done") /\ ~Has(q, "sync")
    BY <1>3, <1>4, <1>7
  <2>2. SeatOf(b, st) = s
    BY <1>5, <2>1, LacksGlobals
  <2>3. Only(r, {"capabilities", "keymap"})
    <3>1. Only(r, {"global", "capabilities", "done"} \ {"global"})
      BY <1>4, <2>1, OnlyWithout
    <3>2. Only(r, ({"global", "capabilities", "done"} \ {"global"}) \ {"done"})
      BY <2>1, <3>1, OnlyWithout
    <3> QED BY <3>2, OnlyAmong
  <2>4. Only(q, {"bind", "get_keyboard"}) /\ OfSeat(q, "get_keyboard", s)
    <3>1. Only(q, {"bind", "sync"} \ {"sync"})
      BY <1>3, <2>1, OnlyWithout
    <3> QED BY <3>1 DEF Only, OfSeat
  <2>5. k \in Request /\ <<k>> \in Seq(Request)
    BY <1>7, Messages, SingletonSeq
  <2>6. Only(<<k>>, {"bind", "get_keyboard"}) /\ OfSeat(<<k>>, "get_keyboard", s)
        /\ Has(<<k>>, "get_keyboard")
    <3>1. DOMAIN <<k>> = {1} /\ <<k>>[1] = k /\ k.type = "get_keyboard" /\ k.seat = s
      BY <1>7
    <3> QED BY <3>1 DEF Only, OfSeat, Has
  <2>7. Only(q \o p, {"bind", "get_keyboard"}) /\ OfSeat(q \o p, "get_keyboard", s)
    BY <1>1, <1>2, <2>4, OnlyJoined, OfSeatJoined
  <2>8. PICK w \in Seq(Request) : w = q \o p
    BY <1>1
  <2>9. Only(w \o <<k>>, {"bind", "get_keyboard"}) /\ OfSeat(w \o <<k>>, "get_keyboard", s)
        /\ Has(w \o <<k>>, "get_keyboard")
    BY <2>5, <2>6, <2>7, <2>8, OnlyJoined, OfSeatJoined, HasJoined
  <2>10. OfSeat(r, "keymap", s)
    BY <1>4 DEF Only, OfSeat
  <2> QED BY <2>2, <2>3, <2>8, <2>9, <2>10 DEF AskKeymap, KeymapComes
<1> QED BY <1>6, <1>7 DEF p

LEMMA KeymapComesOn ==
  ASSUME NEW s \in Seat, NEW fd, NEW b \in Seq(Event), NEW r \in Seq(Event), NEW q \in Seq(Request),
         KeymapComes(q, b \o r, s, fd)
  PROVE  KeymapComes(q, r, s, KeymapOf(b, fd))
<1>1. /\ OfSeat(q, "get_keyboard", s) /\ OfSeat(b, "keymap", s) /\ OfSeat(r, "keymap", s)
      /\ fd = s \/ Has(b, "keymap") \/ Has(r, "keymap") \/ Has(q, "get_keyboard")
  BY OfSeatJoined, HasJoined DEF KeymapComes
<1>2. KeymapOf(b, fd) = s \/ ~(fd = s \/ Has(b, "keymap"))
  BY <1>1, KeymapKept
<1> QED BY <1>1, <1>2 DEF KeymapComes

LEMMA KeymapHandled ==
  ASSUME NEW s \in Seat, NEW fd, NEW b \in Seq(Event), NEW r \in Seq(Event), NEW q \in Seq(Request),
         AskKeymap(q, b \o r, s, fd)
  PROVE  ~Has(b, "error") /\ AwaitKeymap(q \o <<Sync>>, r, s, KeymapOf(b, fd))
<1>1. PICK k \in Request : k = Sync /\ k.type = "sync" /\ <<k>> \in Seq(Request)
  BY Messages, SingletonSeq DEF Sync
<1>2. /\ Only(q, {"bind", "get_keyboard"})
      /\ Only(b, {"capabilities", "keymap"}) /\ Only(r, {"capabilities", "keymap"})
  BY OnlyJoined DEF AskKeymap
<1>3. KeymapComes(q, r, s, KeymapOf(b, fd))
  BY KeymapComesOn DEF AskKeymap
<1>4. /\ ~Has(b, "error") /\ ~Has(r, "done")
      /\ Only(r, {"capabilities", "keymap", "done"}) /\ Before(r, "keymap", "done")
  BY <1>2 DEF Only, Has, Before
<1>5. /\ Only(q, {"bind", "get_keyboard", "sync"}) /\ Before(q, "get_keyboard", "sync")
      /\ ~Has(q, "sync")
  BY <1>2 DEF Only, Has, Before
<1>6. /\ Only(<<k>>, {"bind", "get_keyboard", "sync"}) /\ Before(<<k>>, "get_keyboard", "sync")
      /\ OfSeat(<<k>>, "get_keyboard", s)
  <2>1. DOMAIN <<k>> = {1} /\ <<k>>[1] = k
    OBVIOUS
  <2> QED BY <1>1, <2>1 DEF Only, Before, OfSeat
<1>7. /\ Only(q \o <<k>>, {"bind", "get_keyboard", "sync"})
      /\ Before(q \o <<k>>, "get_keyboard", "sync")
  BY <1>1, <1>5, <1>6, OnlyJoined, BeforeJoined
<1>8. OfSeat(q \o <<k>>, "get_keyboard", s)
      /\ (Has(q, "get_keyboard") => Has(q \o <<k>>, "get_keyboard"))
  BY <1>1, <1>3, <1>6, OfSeatJoined, HasJoined DEF KeymapComes
<1> QED BY <1>1, <1>3, <1>4, <1>7, <1>8 DEF AwaitKeymap, KeymapComes

LEMMA KeymapHandledOn ==
  ASSUME NEW s \in Seat, NEW fd, NEW b \in Seq(Event), NEW r \in Seq(Event), NEW q \in Seq(Request),
         AwaitKeymap(q, b \o r, s, fd)
  PROVE  /\ ~Has(b, "error") /\ AwaitKeymap(q, r, s, KeymapOf(b, fd))
         /\ Has(b, "done") => KeymapOf(b, fd) = s
<1>1. /\ Only(b, {"capabilities", "keymap", "done"}) /\ Only(r, {"capabilities", "keymap", "done"})
      /\ Before(r, "keymap", "done") /\ ~(Has(b, "done") /\ Has(r, "keymap"))
      /\ Has(b \o r, "done") <=> Has(b, "done") \/ Has(r, "done")
  BY OnlyJoined, BeforeJoined, HasJoined DEF AwaitKeymap
<1>2. KeymapComes(q, r, s, KeymapOf(b, fd))
  BY KeymapComesOn DEF AwaitKeymap
<1>3. ~Has(b, "error")
  BY <1>1 DEF Only, Has
<1> QED BY <1>1, <1>2, <1>3 DEF AwaitKeymap, KeymapComes

LEMMA GlobalsAnswered ==
  ASSUME NEW s \in Seat, NEW st, NEW h \in Request, NEW t \in Seq(Request), NEW e \in Seq(Event),
         AwaitGlobals(<<h>> \o t, e, s, st)
  PROVE  AwaitGlobals(t, e \o Answer(h), s, st)
<1>1. <<h>> \in Seq(Request)
  BY SingletonSeq
<1>2. /\ h.type \in {"bind", "sync"} /\ Only(t, {"bind", "sync"})
      /\ Once(t, "sync") /\ ~(h.type = "sync" /\ Has(t, "sync"))
      /\ Has(<<h>> \o t, "sync") <=> h.type = "sync" \/ Has(t, "sync")
  <2>1. Only(<<h>> \o t, {"bind", "sync"}) /\ Once(<<h>> \o t, "sync")
    BY DEF AwaitGlobals
  <2>2. Only(<<h>>, {"bind", "sync"}) /\ Only(t, {"bind", "sync"})
    BY <1>1, <2>1, OnlyJoined
  <2>3. Once(t, "sync") /\ ~(Has(<<h>>, "sync") /\ Has(t, "sync"))
    BY <1>1, <2>1, OnceJoined
  <2>4. Has(<<h>> \o t, "sync") <=> (Has(<<h>>, "sync") \/ Has(t, "sync"))
    BY <1>1, HasJoined
  <2>5. DOMAIN <<h>> = {1} /\ <<h>>[1] = h
    OBVIOUS
  <2>6. h.type \in {"bind", "sync"} /\ (Has(<<h>>, "sync") <=> h.type = "sync")
    BY <2>2, <2>5 DEF Only, Has
  <2> QED BY <2>2, <2>3, <2>4, <2>6
<1>3. /\ Only(e, {"global", "capabilities", "done"})
      /\ LastIs(e, s) \/ (SeatsIn(e) = {} /\ st = s)
      /\ Before(e, "global", "done") /\ Once(e, "done")
      /\ ~(Has(<<h>> \o t, "sync") /\ Has(e, "done"))
  BY DEF AwaitGlobals
<1>4. PICK a : /\ Answer(h) = <<a>> /\ a \in Event
               /\ a.type = IF h.type = "sync" THEN "done" ELSE "capabilities"
  <2>1. CASE h.type = "sync"
    <3>1. PICK a \in Event : a = [type |-> "done"]
      BY Messages
    <3> QED BY <2>1, <3>1 DEF Answer
  <2>2. CASE h.type = "bind"
    <3>1. PICK a \in Event : a = [type |-> "capabilities"]
      BY Messages
    <3> QED BY <2>2, <3>1 DEF Answer
  <2> QED BY <1>2, <2>1, <2>2
<1>5. <<a>> \in Seq(Event)
  BY <1>4, SingletonSeq
<1>6. DOMAIN <<a>> = {1} /\ <<a>>[1] = a
  OBVIOUS
<1>7. /\ Only(<<a>>, {"global", "capabilities", "done"}) /\ SeatsIn(<<a>>) = {}
      /\ Once(<<a>>, "done") /\ Before(<<a>>, "global", "done")
      /\ Has(<<a>>, "done") => h.type = "sync"
      /\ ~Has(<<a>>, "global")
  BY <1>4, <1>6 DEF Only, SeatsIn, Once, Before, Has
<1>8. LastIs(e \o <<a>>, s) \/ (SeatsIn(e \o <<a>>) = {} /\ st = s)
  BY <1>3, <1>5, <1>7, SeatsJoined
<1>9. /\ Only(e \o <<a>>, {"global", "capabilities", "done"})
      /\ Before(e \o <<a>>, "global", "done")
  BY <1>3, <1>5, <1>7, OnlyJoined, BeforeJoined
<1>10. /\ Once(e \o <<a>>, "done")
       /\ Has(e \o <<a>>, "done") => Has(e, "done") \/ h.type = "sync"
  BY <1>2, <1>3, <1>5, <1>7, OnceJoined, HasJoined
<1> QED BY <1>2, <1>3, <1>4, <1>8, <1>9, <1>10 DEF AwaitGlobals

\* The keyboard that is asked for is there.
LEMMA KeyboardAnswered ==
  ASSUME NEW s \in Seat \cap Keyboards, NEW h \in Request, h.type = "get_keyboard" => h.seat = s,
         h.type \in {"bind", "get_keyboard", "sync"}
  PROVE  \E a \in Event :
            /\ Answer(h) = <<a>>
            /\ h.type = "bind" => a.type = "capabilities"
            /\ h.type = "get_keyboard" => a.type = "keymap" /\ a.seat = s
            /\ h.type = "sync" => a.type = "done"
<1>1. CASE h.type = "sync"
  <2>1. PICK a \in Event : a = [type |-> "done"]
    BY Messages
  <2> QED BY <1>1, <2>1 DEF Answer
<1>2. CASE h.type = "bind"
  <2>1. PICK a \in Event : a = [type |-> "capabilities"]
    BY Messages
  <2> QED BY <1>2, <2>1 DEF Answer
<1>3. CASE h.type = "get_keyboard"
  <2>1. PICK a \in Event : a = [type |-> "keymap", seat |-> s]
    BY Messages
  <2> QED BY <1>3, <2>1 DEF Answer
<1> QED BY <1>1, <1>2, <1>3

LEMMA KeymapComesAnswered ==
  ASSUME NEW s \in Seat, NEW fd, NEW h \in Request, NEW t \in Seq(Request), NEW e \in Seq(Event),
         NEW a \in Event, h.type = "get_keyboard" <=> a.type = "keymap",
         a.type = "keymap" => a.seat = s,
         KeymapComes(<<h>> \o t, e, s, fd)
  PROVE  KeymapComes(t, e \o <<a>>, s, fd)
<1>1. <<h>> \in Seq(Request) /\ <<a>> \in Seq(Event)
  BY SingletonSeq
<1>2. /\ DOMAIN <<a>> = {1} /\ <<a>>[1] = a
      /\ DOMAIN <<h>> = {1} /\ <<h>>[1] = h
  OBVIOUS
<1>3. /\ OfSeat(<<a>>, "keymap", s)
      /\ Has(<<h>>, "get_keyboard") => Has(<<a>>, "keymap")
  BY <1>2 DEF OfSeat, Has
<1>4. /\ OfSeat(t, "get_keyboard", s) /\ OfSeat(e, "keymap", s)
      /\ fd = s \/ Has(e, "keymap") \/ Has(<<h>>, "get_keyboard") \/ Has(t, "get_keyboard")
  BY <1>1, OfSeatJoined, HasJoined DEF KeymapComes
<1>5. /\ OfSeat(e \o <<a>>, "keymap", s)
      /\ Has(e \o <<a>>, "keymap") <=> Has(e, "keymap") \/ Has(<<a>>, "keymap")
  BY <1>1, <1>3, <1>4, OfSeatJoined, HasJoined
<1> QED BY <1>3, <1>4, <1>5 DEF KeymapComes

LEMMA KeymapAnswered ==
  ASSUME NEW s \in Seat \cap Keyboards, NEW fd,
         NEW h \in Request, NEW t \in Seq(Request), NEW e \in Seq(Event),
         AskKeymap(<<h>> \o t, e, s, fd)
  PROVE  AskKeymap(t, e \o Answer(h), s, fd)
<1>1. <<h>> \in Seq(Request)
  BY SingletonSeq
<1>2. Only(<<h>>, {"bind", "get_keyboard"}) /\ Only(t, {"bind", "get_keyboard"})
      /\ OfSeat(<<h>>, "get_keyboard", s)
  BY <1>1, OnlyJoined, OfSeatJoined DEF AskKeymap, KeymapComes
<1>3. h.type \in {"bind", "get_keyboard"} /\ (h.type = "get_keyboard" => h.seat = s)
  <2>1. DOMAIN <<h>> = {1} /\ <<h>>[1] = h
    OBVIOUS
  <2> QED BY <1>2, <2>1 DEF Only, OfSeat
<1>4. PICK a \in Event :
         /\ Answer(h) = <<a>>
         /\ h.type = "bind" => a.type = "capabilities"
         /\ h.type = "get_keyboard" => a.type = "keymap" /\ a.seat = s
  BY <1>3, KeyboardAnswered
<1>5. <<a>> \in Seq(Event) /\ DOMAIN <<a>> = {1} /\ <<a>>[1] = a
  BY SingletonSeq
<1>6. Only(<<a>>, {"capabilities", "keymap"})
  BY <1>3, <1>4, <1>5 DEF Only
<1>7. Only(e \o <<a>>, {"capabilities", "keymap"})
  BY <1>5, <1>6, OnlyJoined DEF AskKeymap
<1>8. KeymapComes(t, e \o <<a>>, s, fd)
  BY <1>3, <1>4, KeymapComesAnswered DEF AskKeymap
<1> QED BY <1>2, <1>4, <1>7, <1>8 DEF AskKeymap

LEMMA KeymapAnsweredOn ==
  ASSUME NEW s \in Seat \cap Keyboards, NEW fd,
         NEW h \in Request, NEW t \in Seq(Request), NEW e \in Seq(Event),
         AwaitKeymap(<<h>> \o t, e, s, fd)
  PROVE  AwaitKeymap(t, e \o Answer(h), s, fd)
<1>1. <<h>> \in Seq(Request) /\ DOMAIN <<h>> = {1} /\ <<h>>[1] = h
  BY SingletonSeq
<1>2. /\ Only(<<h>>, {"bind", "get_keyboard", "sync"}) /\ Only(t, {"bind", "get_keyboard", "sync"})
      /\ OfSeat(<<h>>, "get_keyboard", s)
      /\ Before(t, "get_keyboard", "sync") /\ ~(Has(<<h>>, "sync") /\ Has(t, "get_keyboard"))
      /\ Has(<<h>> \o t, "get_keyboard") <=> Has(<<h>>, "get_keyboard") \/ Has(t, "get_keyboard")
  <2>1. /\ Only(<<h>> \o t, {"bind", "get_keyboard", "sync"})
        /\ OfSeat(<<h>> \o t, "get_keyboard", s) /\ Before(<<h>> \o t, "get_keyboard", "sync")
    BY DEF AwaitKeymap, KeymapComes
  <2>2. Only(<<h>>, {"bind", "get_keyboard", "sync"}) /\ Only(t, {"bind", "get_keyboard", "sync"})
    BY <1>1, <2>1, OnlyJoined
  <2>3. OfSeat(<<h>>, "get_keyboard", s)
    BY <1>1, <2>1, OfSeatJoined
  <2>4. Before(t, "get_keyboard", "sync") /\ ~(Has(<<h>>, "sync") /\ Has(t, "get_keyboard"))
    BY <1>1, <2>1, BeforeJoined
  <2> QED BY <1>1, <2>2, <2>3, <2>4, HasJoined
<1>3. h.type \in {"bind", "get_keyboard", "sync"} /\ (h.type = "get_keyboard" => h.seat = s)
  BY <1>1, <1>2 DEF Only, OfSeat
<1>4. PICK a \in Event :
         /\ Answer(h) = <<a>>
         /\ h.type = "bind" => a.type = "capabilities"
         /\ h.type = "get_keyboard" => a.type = "keymap" /\ a.seat = s
         /\ h.type = "sync" => a.type = "done"
  BY <1>3, KeyboardAnswered
<1>5. <<a>> \in Seq(Event) /\ DOMAIN <<a>> = {1} /\ <<a>>[1] = a
  BY SingletonSeq
<1>6. /\ Only(<<a>>, {"capabilities", "keymap", "done"}) /\ Before(<<a>>, "keymap", "done")
      /\ Has(<<a>>, "keymap") => Has(<<h>>, "get_keyboard")
      /\ Has(<<a>>, "done") => Has(<<h>>, "sync")
  BY <1>1, <1>3, <1>4, <1>5 DEF Only, Before, Has
<1>7. /\ Only(e, {"capabilities", "keymap", "done"}) /\ Before(e, "keymap", "done")
      /\ ~(Has(<<h>> \o t, "get_keyboard") /\ Has(e, "done"))
  BY DEF AwaitKeymap
<1>8. /\ Only(e \o <<a>>, {"capabilities", "keymap", "done"}) /\ Before(e \o <<a>>, "keymap", "done")
      /\ Has(e \o <<a>>, "done") <=> Has(e, "done") \/ Has(<<a>>, "done")
  BY <1>2, <1>5, <1>6, <1>7, OnlyJoined, BeforeJoined, HasJoined
<1>9. KeymapComes(t, e \o <<a>>, s, fd)
  <2>1. h.type = "get_keyboard" <=> a.type = "keymap"
    BY <1>3, <1>4
  <2>2. a.type = "keymap" => a.seat = s
    BY <1>4, <2>1
  <2> QED BY <2>1, <2>2, KeymapComesAnswered DEF AwaitKeymap
<1>10. ~(Has(t, "get_keyboard") /\ Has(e \o <<a>>, "done"))
  BY <1>2, <1>6, <1>7, <1>8
<1> QED BY <1>2, <1>4, <1>8, <1>9, <1>10 DEF AwaitKeymap

-----------------------------------------------------------------------------
(* The steps of the program and of the compositor. *)

LEMMA AnnouncedSeq ==
  ASSUME FetchOK
  PROVE  announced \in Seq(Seat \cup {"other"})
<1>1. << >> \in Seq(Seat \cup {"other"})
  OBVIOUS
<1> QED BY <1>1, AnnouncementAssumption DEF FetchOK, FetchTypeOK

LEMMA DispatchStep ==
  ASSUME FetchOK, NEW n \in 1 .. Len(events), Dispatch(SubSeq(events, 1, n))
  PROVE  \E b, r \in Seq(Event) :
            /\ events = b \o r /\ events' = r
            /\ seat' = SeatOf(b, seat) /\ keymapFd' = KeymapOf(b, keymapFd)
            /\ \/ DispatchGlobals(b) \/ RoundtripGlobals(b)
               \/ DispatchKeymap(b) \/ RoundtripKeymap(b)
            /\ UNCHANGED <<desktop, announced>>
<1>1. events \in Seq(Event)
  BY DEF FetchOK
<1>2. PICK b \in Seq(Event) : b = SubSeq(events, 1, n) /\ Len(b) = n
  BY <1>1, CutInTwo
<1>3. PICK r \in Seq(Event) : r = SubSeq(events, n + 1, Len(events))
  BY <1>1, CutInTwo
<1>4. events = b \o r
  BY <1>1, <1>2, <1>3, CutInTwo
<1>5. /\ \/ DispatchGlobals(b) \/ RoundtripGlobals(b)
         \/ DispatchKeymap(b) \/ RoundtripKeymap(b)
      /\ events' = SubSeq(events, Len(b) + 1, Len(events))
      /\ UNCHANGED <<desktop, announced>>
  BY <1>2 DEF Dispatch
<1>6. events' = r
  BY <1>2, <1>3, <1>5
<1>7. Handlers(b)
  BY <1>5 DEF DispatchGlobals, RoundtripGlobals, DispatchKeymap, RoundtripKeymap
<1>8. seat' = SeatOf(b, seat) /\ keymapFd' = KeymapOf(b, keymapFd)
  BY <1>7 DEF Handlers, SeatOf, KeymapOf
<1> QED BY <1>4, <1>5, <1>6, <1>8

LEMMA FetchKept ==
  ASSUME FetchOK, Fetch
  PROVE  FetchOK'
<1>1. /\ fetch \in Stage /\ desktop \in Desktops \cup {None}
      /\ announced \in Announcements \cup {<< >>}
      /\ seat \in Seat \cup {None} /\ keymapFd \in Seat \cup {None}
      /\ requests \in Seq(Request) /\ events \in Seq(Event)
      /\ fetch \in {"x11", "wayland"} => announced = << >> /\ events = << >>
      /\ IF fetch = "fetched" THEN desktop \in Desktops ELSE desktop = None
  BY DEF FetchOK, FetchTypeOK
<1>2. CASE Fail
  BY <1>1, <1>2 DEF Fail, connection, FetchOK, FetchTypeOK, Stage
<1>3. CASE FetchX11
  BY <1>1, <1>3 DEF FetchX11, connection, FetchOK, FetchTypeOK, Stage
<1>4. CASE Connect
  <2>1. requests' \in Seq(Request)
    BY <1>4, Messages, SingletonSeq DEF Connect
  <2> QED BY <1>1, <1>4, <2>1 DEF Connect, FetchOK, FetchTypeOK, Stage
<1>5. CASE OpenKeymap
  <2>1. << >> \in Seq(Request) /\ << >> \in Seq(Event)
    OBVIOUS
  <2> QED BY <1>1, <1>5, <2>1 DEF OpenKeymap, connection, FetchOK, FetchTypeOK, Stage
<1>6. ASSUME NEW n \in 1 .. Len(events), Dispatch(SubSeq(events, 1, n)) PROVE FetchOK'
  <2>1. PICK b, r \in Seq(Event) :
            /\ events = b \o r /\ events' = r
            /\ seat' = SeatOf(b, seat) /\ keymapFd' = KeymapOf(b, keymapFd)
            /\ \/ DispatchGlobals(b) \/ RoundtripGlobals(b)
               \/ DispatchKeymap(b) \/ RoundtripKeymap(b)
            /\ UNCHANGED <<desktop, announced>>
    BY <1>6, DispatchStep
  <2>2. seat' \in Seat \cup {None} /\ keymapFd' \in Seat \cup {None}
    BY <1>1, <2>1, HandlersTyped
  <2>3. fetch' \in Stage /\ fetch' \notin {"x11", "wayland", "fetched"} /\ fetch # "fetched"
    BY <1>1, <2>1 DEF DispatchGlobals, RoundtripGlobals, DispatchKeymap, RoundtripKeymap, Stage
  <2>4. PICK bs \in Seq(Request) : bs = Binds(b)
    BY BindsTyped
  <2>5. requests' \in Seq(Request)
    <3>1. requests \o bs \in Seq(Request)
      BY <1>1, <2>4, ConcatProperties
    <3>2. <<Sync>> \in Seq(Request)
      BY Messages, SingletonSeq
    <3>3. (requests \o bs) \o <<Sync>> \in Seq(Request) /\ requests \o <<Sync>> \in Seq(Request)
      BY <1>1, <3>1, <3>2, ConcatProperties
    <3>4. Append(requests, Sync) \in Seq(Request)
      BY <1>1, Messages, AppendProperties
    <3>5. ASSUME NEW w \in Seat PROVE (requests \o bs) \o <<[type |-> "get_keyboard", seat |-> w]>> \in Seq(Request)
      <4>1. <<[type |-> "get_keyboard", seat |-> w]>> \in Seq(Request)
        BY Messages, SingletonSeq
      <4> QED BY <3>1, <4>1, ConcatProperties
    <3>6. CASE DispatchGlobals(b)
      BY <2>4, <3>3, <3>6 DEF DispatchGlobals
    <3>7. CASE RoundtripGlobals(b)
      <4>1. PICK w : w = seat'
        OBVIOUS
      <4> QED BY <1>1, <2>2, <2>4, <3>1, <3>5, <3>7, <4>1 DEF RoundtripGlobals
    <3>8. CASE DispatchKeymap(b)
      BY <1>1, <3>4, <3>8 DEF DispatchKeymap
    <3>9. CASE RoundtripKeymap(b)
      BY <1>1, <3>9 DEF RoundtripKeymap
    <3> QED BY <2>1, <3>6, <3>7, <3>8, <3>9
  <2> QED BY <1>1, <2>1, <2>2, <2>3, <2>5 DEF FetchOK, FetchTypeOK
<1> QED BY <1>2, <1>3, <1>4, <1>5, <1>6 DEF Fetch

\* The first request, the others, and the events before and after.
LEMMA CompositorStep ==
  ASSUME FetchOK, Compositor
  PROVE  \E h \in Request : \E t \in Seq(Request) :
            /\ requests = <<h>> \o t /\ requests' = t
            /\ events' = events \o Answer(h) /\ Answer(h) \in Seq(Event)
<1>1. requests \in Seq(Request) /\ requests # << >>
  BY DEF FetchOK, Compositor
<1>2. PICK h \in Request : h = Head(requests)
  BY <1>1, FirstTaken
<1>3. PICK t \in Seq(Request) : t = Tail(requests)
  BY <1>1, FirstTaken
<1>4. requests = <<h>> \o t
  BY <1>1, <1>2, <1>3, FirstTaken
<1>5. Answer(h) \in Seq(Event)
  BY AnnouncedSeq, AnswerTyped
<1> QED BY <1>2, <1>3, <1>4, <1>5 DEF Compositor

LEMMA FetchAnswered ==
  ASSUME FetchOK, Compositor
  PROVE  FetchOK'
<1>1. PICK h \in Request, t \in Seq(Request) :
         /\ requests = <<h>> \o t /\ requests' = t
         /\ events' = events \o Answer(h) /\ Answer(h) \in Seq(Event)
  BY CompositorStep
<1>2. events' \in Seq(Event)
  BY <1>1, ConcatProperties DEF FetchOK
<1>3. UNCHANGED <<fetch, desktop, announced, seat, keymapFd>> /\ fetch \notin {"x11", "wayland"}
  BY DEF Compositor
<1> QED BY <1>1, <1>2, <1>3 DEF FetchOK, FetchTypeOK

LEMMA GlobalsAnnounced ==
  ASSUME FetchOK, SeatsAnnounced # {}, NEW s, s = LastSeat,
         NEW h, h = [type |-> "get_registry"]
  PROVE  s \in Seat /\ Only(Answer(h), {"global"}) /\ LastIs(Answer(h), s)
<1>1. PICK n \in Nat : DOMAIN announced = 1 .. n /\ \A i \in 1 .. n : announced[i] \in Seat \cup {"other"}
  BY AnnouncedSeq, ElementOfSeq, LenProperties
<1>2. Answer(h) = [i \in DOMAIN announced |-> [type |-> "global", global |-> announced[i]]]
  BY DEF Answer
<1>3. PICK a : a = Answer(h)
  OBVIOUS
<1>4. DOMAIN a = 1 .. n /\ \A i \in 1 .. n : a[i].type = "global" /\ a[i].global = announced[i]
  BY <1>1, <1>2, <1>3
<1>5. SeatsAnnounced \subseteq 1 .. n
  BY <1>1 DEF SeatsAnnounced
<1>6. PICK m \in SeatsAnnounced : m = Max(SeatsAnnounced) /\ \A i \in SeatsAnnounced : i <= m
  BY <1>5, PositionsFinite, MaxIsGreatest
<1>7. SeatsIn(a) = SeatsAnnounced
  BY <1>1, <1>4 DEF SeatsIn, SeatsAnnounced
<1>8. announced[m] = s /\ m \in 1 .. n /\ announced[m] # "other"
  BY <1>5, <1>6 DEF LastSeat, SeatsAnnounced
<1>9. Only(a, {"global"})
  BY <1>4 DEF Only
<1>10. LastIs(a, s)
  BY <1>4, <1>6, <1>7, <1>8 DEF LastIs
<1> QED BY <1>1, <1>3, <1>8, <1>9, <1>10

LEMMA ChatDispatched ==
  ASSUME FetchOK, NEW s \in Seat \cap Keyboards, Chat(s),
         NEW n \in 1 .. Len(events), Dispatch(SubSeq(events, 1, n))
  PROVE  Chat(s)'
<1>1. PICK b, r \in Seq(Event) :
          /\ events = b \o r /\ events' = r
          /\ seat' = SeatOf(b, seat) /\ keymapFd' = KeymapOf(b, keymapFd)
          /\ \/ DispatchGlobals(b) \/ RoundtripGlobals(b)
             \/ DispatchKeymap(b) \/ RoundtripKeymap(b)
          /\ UNCHANGED <<desktop, announced>>
  BY DispatchStep
<1>2. requests \in Seq(Request) /\ s # None
  BY SeatAssumption DEF FetchOK
<1>3. CASE DispatchGlobals(b)
  <2>1. fetch = "globals" /\ fetch' = "syncGlobals"
        /\ requests' = requests \o Binds(b) \o <<Sync>>
    BY <1>3 DEF DispatchGlobals
  <2>2. requests = << >> /\ Only(events, {"global"}) /\ LastIs(events, s)
    <3>1. events # << >>
      BY <1>3 DEF DispatchGlobals, Handlers
    <3> QED BY <2>1, <3>1 DEF Chat, AskGlobals
  <2>3. AwaitGlobals(requests', events', s, seat')
    BY <1>1, <2>1, <2>2, GlobalsHandled
  <2> QED BY <2>1, <2>3 DEF Chat
<1>4. CASE RoundtripGlobals(b)
  <2>1. fetch = "syncGlobals" /\ AwaitGlobals(requests, b \o r, s, seat)
    BY <1>1, <1>4 DEF RoundtripGlobals, Chat
  <2>2. CASE ~Has(b, "done")
    <3>1. fetch' = fetch /\ requests' = requests \o Binds(b)
      BY <1>4, <2>2 DEF RoundtripGlobals
    <3>2. AwaitGlobals(requests', events', s, seat')
      BY <1>1, <1>2, <2>1, <3>1, GlobalsHandledOn
    <3> QED BY <2>1, <3>1, <3>2 DEF Chat
  <2>3. CASE Has(b, "done")
    <3>1. seat' = s
      BY <1>1, <1>2, <2>1, <2>3, GlobalsHandledOn
    <3>2. PICK k : k = [type |-> "get_keyboard", seat |-> s]
      OBVIOUS
    <3>3. fetch' = "keymap" /\ requests' = (requests \o Binds(b)) \o <<k>>
      BY <1>2, <1>4, <2>3, <3>1, <3>2 DEF RoundtripGlobals
    <3>4. AskKeymap((requests \o Binds(b)) \o <<k>>, r, s, KeymapOf(b, keymapFd))
      BY <1>2, <2>1, <2>3, <3>2, GlobalsHandledOn
    <3> QED BY <1>1, <3>3, <3>4 DEF Chat
  <2> QED BY <2>2, <2>3
<1>5. CASE DispatchKeymap(b)
  <2>1. fetch = "keymap" /\ AskKeymap(requests, b \o r, s, keymapFd)
    BY <1>1, <1>5 DEF DispatchKeymap, Chat
  <2>2. ~Has(b, "error") /\ AwaitKeymap(requests \o <<Sync>>, r, s, KeymapOf(b, keymapFd))
    BY <1>2, <2>1, KeymapHandled
  <2>3. fetch' = "syncKeymap" /\ requests' = requests \o <<Sync>>
    <3>1. fetch' = "syncKeymap" /\ requests' = Append(requests, Sync)
      BY <1>5, <2>2 DEF DispatchKeymap
    <3>2. Append(requests, Sync) = requests \o <<Sync>>
      BY <1>2, Messages, AppendIsConcat
    <3> QED BY <3>1, <3>2
  <2> QED BY <1>1, <2>2, <2>3 DEF Chat
<1>6. CASE RoundtripKeymap(b)
  <2>1. fetch = "syncKeymap" /\ AwaitKeymap(requests, b \o r, s, keymapFd) /\ requests' = requests
        /\ fetch' = IF Has(b, "done") \/ Has(b, "error") THEN "open" ELSE fetch
    BY <1>1, <1>6 DEF RoundtripKeymap, Chat
  <2>2. ~Has(b, "error") /\ AwaitKeymap(requests, r, s, KeymapOf(b, keymapFd))
        /\ (Has(b, "done") => KeymapOf(b, keymapFd) = s)
    BY <1>2, <2>1, KeymapHandledOn
  <2> QED BY <1>1, <2>1, <2>2 DEF Chat
<1> QED BY <1>1, <1>3, <1>4, <1>5, <1>6

LEMMA ChatAnswered ==
  ASSUME FetchOK, NEW s \in Seat \cap Keyboards, s = LastSeat, SeatsAnnounced # {}, Chat(s), Compositor
  PROVE  Chat(s)'
<1>1. PICK h \in Request, t \in Seq(Request) :
         /\ requests = <<h>> \o t /\ requests' = t
         /\ events' = events \o Answer(h) /\ Answer(h) \in Seq(Event)
  BY CompositorStep
<1>2. UNCHANGED <<fetch, seat, keymapFd>>
      /\ fetch \in {"globals", "syncGlobals", "keymap", "syncKeymap"}
  BY DEF Compositor
<1>3. events \in Seq(Event) /\ requests \in Seq(Request)
  BY DEF FetchOK
<1>4. CASE fetch = "globals"
  <2>1. AskGlobals(requests, events, s) /\ requests # << >>
    BY <1>4 DEF Chat, Compositor
  <2>2. requests = <<[type |-> "get_registry"]>> /\ events = << >>
    BY <2>1 DEF AskGlobals
  <2>3. h = [type |-> "get_registry"] /\ t = << >>
    <3>1. h = Head(requests) /\ t = Tail(requests)
      BY <1>1
    <3> QED BY <2>2, <3>1
  <2>4. Only(Answer(h), {"global"}) /\ LastIs(Answer(h), s)
    BY <2>3, GlobalsAnnounced
  <2>5. events' = Answer(h)
    BY <1>1, <2>2
  <2> QED BY <1>1, <1>2, <1>4, <2>3, <2>4, <2>5 DEF Chat, AskGlobals
<1>5. CASE fetch = "syncGlobals"
  <2>1. AwaitGlobals(<<h>> \o t, events, s, seat)
    BY <1>1, <1>5 DEF Chat
  <2>2. AwaitGlobals(t, events \o Answer(h), s, seat)
    BY <1>3, <2>1, GlobalsAnswered
  <2> QED BY <1>1, <1>2, <1>5, <2>2 DEF Chat
<1>6. CASE fetch = "keymap"
  <2>1. AskKeymap(<<h>> \o t, events, s, keymapFd)
    BY <1>1, <1>6 DEF Chat
  <2>2. AskKeymap(t, events \o Answer(h), s, keymapFd)
    BY <1>3, <2>1, KeymapAnswered
  <2> QED BY <1>1, <1>2, <1>6, <2>2 DEF Chat
<1>7. CASE fetch = "syncKeymap"
  <2>1. AwaitKeymap(<<h>> \o t, events, s, keymapFd)
    BY <1>1, <1>7 DEF Chat
  <2>2. AwaitKeymap(t, events \o Answer(h), s, keymapFd)
    BY <1>3, <2>1, KeymapAnsweredOn
  <2> QED BY <1>1, <1>2, <1>7, <2>2 DEF Chat
<1> QED BY <1>2, <1>4, <1>5, <1>6, <1>7

\* Who is announced changes only when the program connects or leaves.
LEMMA ChattingKept ==
  ASSUME FetchOK, Chatting, Fetch \/ Compositor
  PROVE  Chatting'
<1>1. CASE UNCHANGED announced /\ ~Fail /\ ~FetchX11
  <2>1. SUFFICES ASSUME SeatsAnnounced # {}, LastSeat \in Keyboards PROVE Chat(LastSeat)'
    BY <1>1 DEF Chatting, SeatsAnnounced, LastSeat
  <2>2. PICK s : s = LastSeat
    OBVIOUS
  <2>3. s \in Seat \cap Keyboards
    BY <2>1, <2>2, SeatAssumption
  <2>4. Chat(s)
    BY <2>1, <2>2 DEF Chatting
  <2>5. Chat(s)'
    <3>1. CASE Compositor
      BY <2>1, <2>2, <2>3, <2>4, <3>1, ChatAnswered
    <3>2. CASE \E n \in 1 .. Len(events) : Dispatch(SubSeq(events, 1, n))
      BY <2>3, <2>4, <3>2, ChatDispatched
    <3>3. CASE Connect
      BY <1>1, <2>1, <3>3 DEF Connect, FetchOK, SeatsAnnounced
    <3>4. CASE OpenKeymap
      <4>1. keymapFd = s /\ s # None
        BY <2>3, <2>4, <3>4, SeatAssumption DEF OpenKeymap, Chat
      <4>2. announced' = << >> /\ fetch' = "fetched"
        BY <3>4, <4>1 DEF OpenKeymap
      <4> QED BY <4>2 DEF Chat
    <3> QED BY <1>1, <3>1, <3>2, <3>3, <3>4 DEF Fetch
  <2>6. s = LastSeat'
    BY <1>1, <2>2 DEF LastSeat, SeatsAnnounced
  <2> QED BY <2>5, <2>6
<1>2. CASE Fail \/ FetchX11
  <2>1. announced' = << >>
    BY <1>2 DEF Fail, FetchX11, connection, FetchOK
  <2>2. SeatsAnnounced' = {}
    BY <2>1 DEF SeatsAnnounced
  <2> QED BY <2>2 DEF Chatting
<1>3. CASE announced' # announced
  <2>1. CASE OpenKeymap
    <3>1. announced' = << >>
      BY <1>3, <2>1 DEF OpenKeymap, connection
    <3>2. SeatsAnnounced' = {}
      BY <3>1 DEF SeatsAnnounced
    <3> QED BY <3>2 DEF Chatting
  <2>2. CASE Connect
    <3>1. fetch' = "globals" /\ requests' = <<[type |-> "get_registry"]>> /\ events' = << >>
      BY <2>2 DEF Connect, FetchOK
    <3>2. PICK s : s = LastSeat'
      OBVIOUS
    <3>3. Chat(s)'
      BY <3>1 DEF Chat, AskGlobals
    <3>4. Chat(LastSeat)'
      BY <3>2, <3>3
    <3> QED BY <3>4 DEF Chatting
  <2> QED BY <1>3, <2>1, <2>2 DEF Fetch, Fail, FetchX11, Dispatch, Compositor, connection
<1> QED BY <1>1, <1>2, <1>3

-----------------------------------------------------------------------------
(* The scan. *)

LEMMA ModFacts ==
  /\ Mod \subseteq Nat /\ IsFiniteSet(Mod)
  /\ \A S \in SUBSET Mod : IsFiniteSet(S) /\ S \subseteq Nat /\ Cardinality(S) \in Nat
<1>1. PICK n \in Nat : n = ModifiersNum - 1
  BY ModAssumption
<1>2. Mod = 0 .. n /\ IsFiniteSet(0 .. n)
  BY <1>1, FS_Interval DEF Mod
<1>3. Mod \subseteq Nat /\ IsFiniteSet(Mod)
  BY <1>2
<1>4. ASSUME NEW S \in SUBSET Mod
      PROVE  IsFiniteSet(S) /\ S \subseteq Nat /\ Cardinality(S) \in Nat
  <2>1. IsFiniteSet(S)
    BY <1>3, FS_Subset
  <2> QED BY <1>3, <2>1, FS_CardinalityType
<1> QED BY <1>3, <1>4

LEMMA IndicesType ==
  ASSUME NEW m
  PROVE  Indices(m) \in SUBSET Mod /\ Cardinality(Indices(m)) \in Nat
<1>1. Indices(m) \in SUBSET Mod
  BY DEF Indices
<1> QED BY <1>1, ModFacts

LEMMA KeycodeFacts ==
  /\ MinKeycode \in Keycode /\ \A k \in Keycode : k \in Nat /\ MinKeycode <= k
  /\ MaxKeycode \in Keycode /\ \A k \in Keycode : k <= MaxKeycode
BY KeycodeAssumption, MinIsLeast, MaxIsGreatest DEF MinKeycode, MaxKeycode

\* What a key produces.
LEMMA SymsType ==
  ASSUME desktop \in Desktops, NEW k \in Keycode, NEW m \in Mask
  PROVE  Syms[desktop][k][m] \subseteq Sym
<1>1. Syms[desktop] \in [Keycode -> [Mask -> SUBSET Sym]]
  BY DesktopAssumption
<1>2. Syms[desktop][k] \in [Mask -> SUBSET Sym]
  BY <1>1
<1> QED BY <1>2

\* What is put for a symbol of the mask m, whether it is new or known.
LEMMA Putting ==
  ASSUME NEW k \in Keycode, k = keycode, NEW m,
         NEW old \in [keycode : Keycode, modifiers : SUBSET Mod] \cup {None},
         NEW new, new = IF old = None THEN Inserted(m) ELSE Updated(old, m)
  PROVE  /\ new \in [keycode : Keycode, modifiers : SUBSET Mod] /\ new # None
         /\ Cardinality(new.modifiers) <= Cardinality(Indices(m))
         /\ old # None => Cardinality(new.modifiers) <= Cardinality(old.modifiers)
         /\ new.keycode = IF old = None THEN k ELSE old.keycode
         /\ new.modifiers = Indices(m) \/ (old # None /\ new.modifiers = old.modifiers)
<1>1. PICK i \in SUBSET Mod : i = Indices(m) /\ Cardinality(i) \in Nat
  BY IndicesType
<1>2. CASE old = None
  <2>1. new = [keycode |-> k, modifiers |-> i]
    BY <1>1, <1>2 DEF Inserted
  <2> QED BY <1>1, <1>2, <2>1, MappingAssumption
<1>3. CASE old # None
  <2>1. old \in [keycode : Keycode, modifiers : SUBSET Mod]
    BY <1>3
  <2>2. old.keycode \in Keycode /\ old.modifiers \in SUBSET Mod /\ Cardinality(old.modifiers) \in Nat
    BY <2>1, ModFacts
  <2>3. new = IF Cardinality(i) < Cardinality(old.modifiers)
              THEN [old EXCEPT !.modifiers = i] ELSE old
    BY <1>1, <1>3 DEF Updated, Easier
  <2>4. CASE Cardinality(i) < Cardinality(old.modifiers)
    <3>1. new = [old EXCEPT !.modifiers = i]
      BY <2>3, <2>4
    <3>2. /\ new \in [keycode : Keycode, modifiers : SUBSET Mod]
          /\ new.modifiers = i /\ new.keycode = old.keycode
      BY <1>1, <2>1, <3>1
    <3> QED BY <1>1, <1>3, <2>2, <2>4, <3>2, MappingAssumption
  <2>5. CASE ~(Cardinality(i) < Cardinality(old.modifiers))
    BY <1>1, <1>3, <2>1, <2>2, <2>3, <2>5
  <2> QED BY <2>4, <2>5
<1> QED BY <1>2, <1>3

\* One mask is looked at: what changes is what is put for its symbols.
LEMMA ScanStep ==
  ASSUME ScanTypeOK, desktop \in Desktops, Scan
  PROVE  \E m \in Mask :
            /\ masks' = masks \cup {m} /\ keycode' = keycode /\ keycode \in Keycode
            /\ mapping' \in [Sym -> [keycode : Keycode, modifiers : SUBSET Mod] \cup {None}]
            /\ \A s \in Sym \ Syms[desktop][keycode][m] : mapping'[s] = mapping[s]
            /\ \A s \in Syms[desktop][keycode][m] :
                  /\ s \in Sym /\ mapping'[s] # None
                  /\ Cardinality(mapping'[s].modifiers) <= Cardinality(Indices(m))
                  /\ mapping[s] # None =>
                        Cardinality(mapping'[s].modifiers) <= Cardinality(mapping[s].modifiers)
                  /\ mapping'[s].keycode = IF mapping[s] = None THEN keycode ELSE mapping[s].keycode
                  /\ \/ mapping'[s].modifiers = Indices(m)
                     \/ mapping[s] # None /\ mapping'[s].modifiers = mapping[s].modifiers
<1> DEFINE Entry == [keycode : Keycode, modifiers : SUBSET Mod]
<1>1. PICK m \in MasksOf(keycode) \ masks :
         /\ masks' = masks \cup {m} /\ keycode' = keycode
         /\ mapping' = [s \in Sym |->
               IF s \notin Syms[desktop][keycode][m] THEN mapping[s]
               ELSE IF mapping[s] = None THEN Inserted(m)
               ELSE Updated(mapping[s], m)]
  BY DEF Scan
<1>2. keycode \in Keycode /\ mapping \in [Sym -> Entry \cup {None}]
  BY DEF ScanTypeOK
<1>3. m \in Mask
  BY DEF MasksOf
<1>4. PICK S : S = Syms[desktop][keycode][m]
  OBVIOUS
<1>5. S \subseteq Sym
  BY <1>2, <1>3, <1>4, SymsType
<1>6. ASSUME NEW s \in S
      PROVE  /\ s \in Sym /\ mapping'[s] \in Entry /\ mapping'[s] # None
             /\ Cardinality(mapping'[s].modifiers) <= Cardinality(Indices(m))
             /\ mapping[s] # None =>
                   Cardinality(mapping'[s].modifiers) <= Cardinality(mapping[s].modifiers)
             /\ mapping'[s].keycode = IF mapping[s] = None THEN keycode ELSE mapping[s].keycode
             /\ \/ mapping'[s].modifiers = Indices(m)
                \/ mapping[s] # None /\ mapping'[s].modifiers = mapping[s].modifiers
  <2>1. PICK old \in Entry \cup {None} : old = mapping[s]
    BY <1>2, <1>5
  <2>2. PICK new : new = mapping'[s]
    OBVIOUS
  <2>3. new = IF old = None THEN Inserted(m) ELSE Updated(old, m)
    BY <1>1, <1>4, <1>5, <2>1, <2>2
  <2>4. /\ new \in Entry /\ new # None
        /\ Cardinality(new.modifiers) <= Cardinality(Indices(m))
        /\ old # None => Cardinality(new.modifiers) <= Cardinality(old.modifiers)
        /\ new.keycode = IF old = None THEN keycode ELSE old.keycode
        /\ new.modifiers = Indices(m) \/ (old # None /\ new.modifiers = old.modifiers)
    BY <1>2, <2>1, <2>3, Putting
  <2> QED BY <1>5, <2>1, <2>2, <2>4
<1>7. \A s \in Sym \ S : mapping'[s] = mapping[s]
  BY <1>1, <1>4
<1>8. mapping' \in [Sym -> Entry \cup {None}]
  <2>1. PICK f : f = mapping'
    OBVIOUS
  <2>2. DOMAIN f = Sym /\ f = [s \in Sym |-> f[s]]
    BY <1>1, <2>1
  <2>3. \A s \in Sym : f[s] \in Entry \cup {None}
    BY <1>2, <1>6, <1>7, <2>1
  <2> QED BY <2>1, <2>2, <2>3
<1> QED BY <1>1, <1>2, <1>3, <1>4, <1>6, <1>7, <1>8

LEMMA ScanOne ==
  ASSUME ScanOK, fetch = "fetched", desktop \in Desktops, Scan, UNCHANGED <<desktop, fetch>>
  PROVE  ScanTypeOK' /\ SeenIsMapped' /\ FewestModifiers'
<1>1. ScanTypeOK /\ SeenIsMapped /\ FewestModifiers
  BY DEF ScanOK
<1>2. PICK m \in Mask :
        /\ masks' = masks \cup {m} /\ keycode' = keycode /\ keycode \in Keycode
        /\ mapping' \in [Sym -> [keycode : Keycode, modifiers : SUBSET Mod] \cup {None}]
        /\ \A s \in Sym \ Syms[desktop][keycode][m] : mapping'[s] = mapping[s]
        /\ \A s \in Syms[desktop][keycode][m] :
              /\ s \in Sym /\ mapping'[s] # None
              /\ Cardinality(mapping'[s].modifiers) <= Cardinality(Indices(m))
              /\ mapping[s] # None =>
                    Cardinality(mapping'[s].modifiers) <= Cardinality(mapping[s].modifiers)
  BY <1>1, ScanStep
<1>3. PICK S : S = Syms[desktop][keycode][m]
  OBVIOUS
<1>4. ScanTypeOK'
  BY <1>1, <1>2 DEF ScanTypeOK
<1>5. Mapped' = Mapped \cup S
  BY <1>2, <1>3 DEF Mapped
<1>6. SeenIsMapped'
  <2> SUFFICES ASSUME NEW k \in Keycode, NEW n \in Mask,
                      k < keycode \/ (k = keycode /\ n \in masks \cup {m})
               PROVE  Syms[desktop][k][n] \subseteq Mapped \cup S
    BY <1>2, <1>5 DEF SeenIsMapped
  <2>1. CASE k = keycode /\ n = m
    BY <1>3, <2>1
  <2>2. CASE k < keycode \/ (k = keycode /\ n \in masks)
    BY <1>1, <2>2 DEF SeenIsMapped
  <2> QED BY <2>1, <2>2
<1>7. FewestModifiers'
  <2> SUFFICES ASSUME NEW r \in Mapped \cup S, NEW c \in Keycode \X Mask,
                      r \in Syms[desktop][c[1]][c[2]],
                      c[1] < keycode \/ (c[1] = keycode /\ c[2] \in masks \cup {m})
               PROVE  Cardinality(mapping'[r].modifiers) <= Cardinality(Indices(c[2]))
    BY <1>2, <1>5 DEF FewestModifiers, Seen
  <2>1. CASE c[1] = keycode /\ c[2] = m
    BY <1>2, <2>1
  <2>2. CASE c[1] < keycode \/ (c[1] = keycode /\ c[2] \in masks)
    <3>1. r \in Mapped
      <4>1. c[1] \in Keycode /\ c[2] \in Mask
        OBVIOUS
      <4> QED BY <1>1, <2>2, <4>1 DEF SeenIsMapped
    <3>2. Cardinality(mapping[r].modifiers) <= Cardinality(Indices(c[2]))
      BY <1>1, <2>2, <3>1 DEF FewestModifiers, Seen
    <3>3. r \in Sym /\ mapping[r] # None
      BY <3>1 DEF Mapped
    <3>4. CASE r \in S
      <4>1. Cardinality(Indices(c[2])) \in Nat
        BY IndicesType
      <4>2. \A f \in [keycode : Keycode, modifiers : SUBSET Mod] : Cardinality(f.modifiers) \in Nat
        BY ModFacts
      <4>3. /\ mapping[r] \in [keycode : Keycode, modifiers : SUBSET Mod]
            /\ mapping'[r] \in [keycode : Keycode, modifiers : SUBSET Mod]
        BY <1>1, <1>2, <1>3, <3>3, <3>4 DEF ScanTypeOK
      <4>4. Cardinality(mapping'[r].modifiers) <= Cardinality(mapping[r].modifiers)
        BY <1>2, <1>3, <3>3, <3>4
      <4>5. /\ Cardinality(mapping[r].modifiers) \in Nat
            /\ Cardinality(mapping'[r].modifiers) \in Nat
        BY <4>2, <4>3
      <4> QED BY <3>2, <4>1, <4>4, <4>5
    <3>5. CASE r \notin S
      BY <1>2, <1>3, <3>2, <3>3, <3>5
    <3> QED BY <3>4, <3>5
  <2> QED BY <2>1, <2>2
<1> QED BY <1>4, <1>6, <1>7

\* The next key.
LEMMA ScanNextKey ==
  ASSUME ScanOK, fetch = "fetched", desktop \in Desktops, NextKeycode, UNCHANGED <<desktop, fetch>>
  PROVE  ScanTypeOK' /\ SeenIsMapped' /\ FewestModifiers'
<1>1. PICK l : l = keycode'
  OBVIOUS
<1>2. /\ l \in Keycode /\ keycode < l /\ \A k \in Keycode : keycode < k => l <= k
  <2>1. MaxKeycode \in { k \in Keycode : keycode < k }
    BY KeycodeFacts DEF NextKeycode, More
  <2>2. { k \in Keycode : keycode < k } \subseteq Nat
    BY KeycodeFacts
  <2>3. l = Min({ k \in Keycode : keycode < k })
    BY <1>1 DEF NextKeycode
  <2> QED BY <2>1, <2>2, <2>3, MinIsLeast
<1>3. keycode \in Keycode /\ masks' = {} /\ mapping' = mapping /\ masks = MasksOf(keycode)
      /\ l \in Nat /\ keycode \in Nat
  BY <1>2, KeycodeFacts DEF NextKeycode, ScanOK, ScanTypeOK
<1>4. ScanTypeOK'
  BY <1>1, <1>2, <1>3 DEF ScanOK, ScanTypeOK
<1>5. ASSUME NEW k \in Keycode, k < l PROVE k < keycode \/ k = keycode
  BY <1>2, <1>3, <1>5, KeycodeFacts
<1>6. Mapped' = Mapped
  BY <1>3 DEF Mapped
<1>7. SeenIsMapped'
  <2> SUFFICES ASSUME NEW k \in Keycode, NEW n \in Mask, k < l
               PROVE  Syms[desktop][k][n] \subseteq Mapped
    BY <1>1, <1>3, <1>6 DEF SeenIsMapped
  <2>1. CASE n \in MasksOf(k)
    BY <1>3, <1>5, <2>1 DEF ScanOK, SeenIsMapped
  <2>2. CASE n \notin MasksOf(k)
    BY <2>2 DEF MasksOf
  <2> QED BY <2>1, <2>2
<1>8. FewestModifiers'
  <2> SUFFICES ASSUME NEW r \in Mapped, NEW c \in Keycode \X Mask,
                      r \in Syms[desktop][c[1]][c[2]], c[1] < l
               PROVE  Cardinality(mapping[r].modifiers) <= Cardinality(Indices(c[2]))
    BY <1>1, <1>3, <1>6 DEF FewestModifiers, Seen
  <2>1. c[1] \in Keycode /\ c[2] \in Mask
    OBVIOUS
  <2>2. c[1] < keycode \/ (c[1] = keycode /\ c[2] \in MasksOf(keycode))
    BY <1>5, <2>1 DEF MasksOf
  <2>3. c \in Seen(r)
    BY <1>3, <2>2 DEF Seen
  <2> QED BY <2>3 DEF ScanOK, FewestModifiers
<1> QED BY <1>4, <1>7, <1>8

-----------------------------------------------------------------------------
(* The parser. *)

LEMMA LineTyped ==
  ASSUME desktop \in Desktops, ParseTypeOK, Ahead # {}
  PROVE  /\ Min(Ahead) \in Nat /\ Text[desktop][Min(Ahead)] \in Line
         /\ Text[desktop][Min(Ahead)].kind = "modifier" => Text[desktop][Min(Ahead)].names # << >>
<1>1. Text[desktop] \in Seq(Line)
  BY DesktopAssumption
<1>2. PICK n \in Nat : n = Len(Text[desktop]) /\ DOMAIN Text[desktop] = 1 .. n
  BY <1>1, LenProperties
<1>3. Ahead \subseteq Nat /\ Ahead \subseteq 1 .. n
  BY <1>2 DEF Ahead, ParseTypeOK
<1>4. PICK i \in Ahead : i = Min(Ahead)
  BY <1>3, MinIsLeast
<1>5. i \in 1 .. n /\ Text[desktop][i] \in Line
  BY <1>1, <1>2, <1>3, ElementOfSeq
<1>6. Text[desktop][i].kind = "modifier" => Text[desktop][i].names # << >>
  BY <1>2, <1>5, DesktopAssumption
<1> QED BY <1>4, <1>5, <1>6

LEMMA LineFields ==
  ASSUME NEW l \in Line
  PROVE  /\ l.kind = "key" => l.code \in Keycode
         /\ l.kind = "modifier" => l.mod \in Mod /\ l.names \in Seq(Name)
BY DEF Line

LEMMA ParseKept ==
  ASSUME desktop \in Desktops, ParseTypeOK, ParseNext
  PROVE  ParseTypeOK'
<1>1. CASE ParseLine
  <2>1. PICK i : i = Min(Ahead)
    OBVIOUS
  <2>2. PICK l : l = Text[desktop][i]
    OBVIOUS
  <2>3. i \in Nat /\ l \in Line /\ (l.kind = "modifier" => l.names # << >>)
    BY <1>1, <2>1, <2>2, LineTyped DEF ParseLine
  <2>4. /\ parsing' = ParsingAfter(l) /\ symbols' = SymbolsAfter(l)
        /\ modifiers' = ModifiersAfter(l) /\ lineNum' = i /\ modkeys' = modkeys
    BY <1>1, <2>1, <2>2 DEF ParseLine
  <2>5. parsing' \in BOOLEAN
    BY <2>4 DEF ParsingAfter, ParseTypeOK
  <2>6. \A slot \in DOMAIN symbols' : symbols'[slot] \in Keycode
    <3>1. CASE parsing /\ l.kind = "key"
      <4>1. l.code \in Keycode
        BY <2>3, <3>1, LineFields
      <4>2. PICK c : c = Slot(l.name)
        OBVIOUS
      <4>3. symbols' = [slot \in DOMAIN symbols \cup {c} |-> IF slot = c THEN l.code ELSE symbols[slot]]
        BY <2>4, <3>1, <4>2 DEF SymbolsAfter
      <4> QED BY <4>1, <4>3 DEF ParseTypeOK
    <3>2. CASE ~(parsing /\ l.kind = "key")
      BY <2>4, <3>2 DEF SymbolsAfter, ParseTypeOK
    <3> QED BY <3>1, <3>2
  <2>7. modifiers' \in [Mod -> Name \cup {None}]
    <3>1. CASE ~parsing /\ l.kind = "modifier"
      <4>1. l.mod \in Mod /\ l.names \in Seq(Name) /\ l.names # << >>
        BY <2>3, <3>1, LineFields
      <4>2. Head(l.names) \in Name
        BY <4>1, HeadTailProperties
      <4> QED BY <2>4, <3>1, <4>1, <4>2 DEF ModifiersAfter, ParseTypeOK
    <3>2. CASE ~(~parsing /\ l.kind = "modifier")
      BY <2>4, <3>2 DEF ModifiersAfter, ParseTypeOK
    <3> QED BY <3>1, <3>2
  <2> QED BY <2>3, <2>4, <2>5, <2>6, <2>7 DEF ParseTypeOK
<1>2. CASE Resolve
  <2>1. \A slot \in DOMAIN symbols : symbols[slot] \in Keycode
    BY DEF ParseTypeOK
  <2>2. modkeys' \in [Mod -> Keycode \cup {0}]
    BY <1>2, <2>1 DEF Resolve
  <2> QED BY <1>2, <2>2 DEF Resolve, ParseTypeOK
<1> QED BY <1>1, <1>2 DEF ParseNext

-----------------------------------------------------------------------------
(* The start, one thing after the other. *)

LEMMA ScanOKUnchanged ==
  ASSUME ScanOK, UNCHANGED <<fetch, desktop, scan, parse>>, packet' = packet \/ Ready
  PROVE  ScanOK'
<1>1. UNCHANGED <<fetch, desktop, keycode, masks, mapping, lineNum, parsing, symbols, modifiers, modkeys>>
  BY DEF scan, parse
<1>2. Mapped' = Mapped /\ (Ready' <=> Ready) /\ (Scanned' <=> Scanned)
  BY <1>1 DEF Mapped, Ready, Scanned, More
<1>3. ScanTypeOK' /\ ParseTypeOK'
  BY <1>1 DEF ScanOK, ScanTypeOK, ParseTypeOK
<1>4. InTurn'
  BY <1>1, <1>2 DEF ScanOK, InTurn
<1>5. SeenIsMapped'
  BY <1>1, <1>2 DEF ScanOK, SeenIsMapped
<1>6. FewestModifiers'
  BY <1>1, <1>2 DEF ScanOK, FewestModifiers, Seen
<1> QED BY <1>3, <1>4, <1>5, <1>6 DEF ScanOK

LEMMA ScanOKFetched ==
  ASSUME FetchOK, ScanOK, Fetch, UNCHANGED <<scan, parse>>, packet' = packet
  PROVE  ScanOK'
<1>1. fetch # "fetched"
  BY DEF Fetch, Fail, FetchX11, Connect, OpenKeymap, Dispatch, DispatchGlobals, RoundtripGlobals,
         DispatchKeymap, RoundtripKeymap
<1>2. UNCHANGED <<keycode, masks, mapping, lineNum, parsing, symbols, modifiers, modkeys>>
  BY DEF scan, parse
<1>3. keycode = MinKeycode /\ masks = {} /\ Mapped = {} /\ ~Ready /\ packet = NoPacket
  BY <1>1 DEF ScanOK, InTurn, Scanned
<1>4. Mapped' = {} /\ ~Ready'
  BY <1>2, <1>3 DEF Mapped, Ready
<1>5. ScanTypeOK' /\ ParseTypeOK'
  BY <1>2 DEF ScanOK, ScanTypeOK, ParseTypeOK
<1>6. InTurn'
  BY <1>2, <1>3, <1>4 DEF InTurn
<1>7. SeenIsMapped'
  <2>1. \A k \in Keycode : ~(k < MinKeycode)
    BY KeycodeFacts
  <2> QED BY <1>2, <1>3, <2>1 DEF SeenIsMapped
<1>8. FewestModifiers'
  BY <1>4 DEF FewestModifiers
<1> QED BY <1>5, <1>6, <1>7, <1>8 DEF ScanOK

LEMMA ScanOKScanned ==
  ASSUME FetchOK, ScanOK, fetch = "fetched", ScanNext, UNCHANGED <<fetching, parse>>, packet' = packet
  PROVE  ScanOK'
<1>1. desktop \in Desktops /\ UNCHANGED <<desktop, fetch>>
  BY DEF FetchOK, ScanNext, fetching
<1>2. ScanTypeOK' /\ SeenIsMapped' /\ FewestModifiers'
  BY <1>1, ScanOne, ScanNextKey DEF ScanNext
<1>3. ~Ready /\ packet = NoPacket
  BY DEF ScanOK, InTurn, Scanned, ScanNext, Scan, NextKeycode
<1>4. UNCHANGED <<lineNum, parsing, symbols, modifiers, modkeys>>
  BY DEF parse
<1>5. ParseTypeOK'
  BY <1>4 DEF ScanOK, ParseTypeOK
<1>6. InTurn'
  BY <1>1, <1>3, <1>4 DEF InTurn, Ready
<1> QED BY <1>2, <1>5, <1>6 DEF ScanOK

LEMMA ScanOKParsed ==
  ASSUME FetchOK, ScanOK, Scanned, ParseNext, UNCHANGED <<fetching, scan>>, packet' = packet
  PROVE  ScanOK'
<1>1. desktop \in Desktops /\ UNCHANGED <<desktop, fetch, keycode, masks, mapping>>
  BY DEF FetchOK, Scanned, ParseNext, fetching, scan
<1>2. ParseTypeOK'
  BY <1>1, ParseKept DEF ScanOK
<1>3. ~Ready
  BY DEF ParseNext, ParseLine, Resolve, Ready
<1>4. Mapped' = Mapped /\ Scanned'
  BY <1>1 DEF Mapped, Scanned, More
<1>5. InTurn'
  BY <1>1, <1>3, <1>4 DEF ScanOK, InTurn, Scanned
<1>6. ScanTypeOK'
  BY <1>1 DEF ScanOK, ScanTypeOK
<1>7. SeenIsMapped'
  BY <1>1, <1>4 DEF ScanOK, SeenIsMapped
<1>8. FewestModifiers'
  BY <1>1, <1>4 DEF ScanOK, FewestModifiers, Seen
<1> QED BY <1>2, <1>5, <1>6, <1>7, <1>8 DEF ScanOK

-----------------------------------------------------------------------------
(* The events of a packet. *)

LEMMA Inputs ==
  ASSUME NEW c \in Codomain
  PROVE  /\ Press(c) \in Input /\ IsKey(Press(c), c) /\ Press(c).value = 1
         /\ Release(c) \in Input /\ IsKey(Release(c), c) /\ Release(c).value = 0
         /\ \A d : d # c => ~IsKey(Press(c), d) /\ ~IsKey(Release(c), d)
BY DEF Input, Press, Release, IsKey

\* A chord of n codes: n are pressed, and released from the last to the first.
Chorded(q, codes, n) ==
    /\ q \in Seq(Input) /\ n \in Nat /\ Len(q) = n + n /\ DOMAIN q = 1 .. n + n
    /\ \A i \in 1 .. n : codes[i] \in Codomain /\ q[i] = Press(codes[i])
    /\ \A i \in 1 .. n : q[n + i] = Release(codes[(n - i) + 1])

LEMMA ChordShape ==
  ASSUME NEW codes \in Seq(Codomain)
  PROVE  Chorded(Chord(codes), codes, Len(codes))
<1> DEFINE n == Len(codes)
           q == Chord(codes)
<1>1. n \in Nat /\ \A i \in 1 .. n : codes[i] \in Codomain
  BY LenProperties, ElementOfSeq
<1> HIDE DEF n
<1>2. PICK a : a = [i \in 1 .. n |-> Press(codes[i])]
  OBVIOUS
<1>3. PICK b : b = [i \in 1 .. n |-> Release(codes[(n - i) + 1])]
  OBVIOUS
<1>4. a \in Seq(Input) /\ Len(a) = n
  <2>1. \A i \in 1 .. n : Press(codes[i]) \in Input
    BY <1>1, Inputs
  <2>2. a \in Seq(Input)
    BY <1>1, <1>2, <2>1, IsASeq
  <2> QED BY <1>1, <1>2, <2>2, LenProperties
<1>5. b \in Seq(Input) /\ Len(b) = n
  <2>1. ASSUME NEW i \in 1 .. n PROVE Release(codes[(n - i) + 1]) \in Input
    <3>1. PICK j \in 1 .. n : j = (n - i) + 1
      BY <1>1
    <3> QED BY <1>1, <3>1, Inputs
  <2>2. b \in Seq(Input)
    BY <1>1, <1>3, <2>1, IsASeq
  <2> QED BY <1>1, <1>3, <2>2, LenProperties
<1>6. q = a \o b
  <2>1. ASSUME NEW i \in 1 .. n PROVE Reverse(codes)[i] = codes[(n - i) + 1]
    BY <1>1 DEF Reverse, n
  <2>2. b = [i \in 1 .. n |-> Release(Reverse(codes)[i])]
    BY <1>3, <2>1
  <2> QED BY <1>2, <2>2 DEF Chord, n
<1>7. /\ q \in Seq(Input) /\ DOMAIN q = 1 .. n + n
      /\ \A i \in 1 .. n : q[i] = a[i]
      /\ \A i \in 1 .. n : q[n + i] = b[i]
  <2>1. PICK p : p = a \o b
    OBVIOUS
  <2>2. /\ p \in Seq(Input) /\ DOMAIN a = 1 .. Len(a) /\ DOMAIN b = 1 .. Len(b)
        /\ DOMAIN p = 1 .. Len(a) + Len(b)
        /\ \A i \in DOMAIN a : p[i] = a[i]
        /\ \A i \in DOMAIN b : p[Len(a) + i] = b[i]
    BY <1>4, <1>5, <2>1, Places
  <2> QED BY <1>4, <1>5, <1>6, <2>1, <2>2
<1> HIDE DEF q
<1>8. Len(q) = n + n
  BY <1>1, <1>7, LenProperties
<1> QED BY <1>1, <1>2, <1>3, <1>7, <1>8 DEF Chorded, n, q

\* The last event of each code of a chord is its release.
LEMMA ChordSettles ==
  ASSUME NEW codes \in Seq(Codomain), NEW c, NEW d, NEW a,
         IF c \in ToSet(codes) THEN c \notin a ELSE (c \in d <=> c \in a)
  PROVE  Settles(Chord(codes), d, a, c)
<1>1. PICK q, n : q = Chord(codes) /\ n = Len(codes)
  OBVIOUS
<1>2. /\ n \in Nat /\ DOMAIN q = 1 .. n + n
      /\ \A i \in 1 .. n : codes[i] \in Codomain /\ q[i] = Press(codes[i])
      /\ \A i \in 1 .. n : q[n + i] = Release(codes[(n - i) + 1])
  BY <1>1, ChordShape DEF Chorded
<1>3. DOMAIN codes = 1 .. n
  BY <1>1, LenProperties
\* The places behind n, by the codes they release.
<1>4. ASSUME NEW j \in 1 .. n + n
      PROVE  \/ j \in 1 .. n /\ q[j] = Press(codes[j])
             \/ \E i \in 1 .. n : j + i = n + n + 1 /\ q[j] = Release(codes[i])
  <2>1. CASE j \in 1 .. n
    BY <1>2, <2>1
  <2>2. CASE j \notin 1 .. n
    <3>1. PICK k \in 1 .. n : j = n + k
      <4>1. j - n \in 1 .. n /\ j = n + (j - n)
        BY <1>2, <2>2
      <4> QED BY <4>1
    <3>2. PICK i \in 1 .. n : i = (n - k) + 1
      BY <1>2, <3>1
    <3>3. j + i = n + n + 1
      BY <1>2, <3>1, <3>2
    <3> QED BY <1>2, <3>1, <3>2, <3>3
  <2> QED BY <2>1, <2>2
<1>5. CASE c \notin ToSet(codes)
  <2>1. \A i \in 1 .. n : codes[i] # c
    BY <1>3, <1>5 DEF ToSet
  <2>2. \A j \in DOMAIN q : ~IsKey(q[j], c)
    BY <1>2, <1>4, <2>1, Inputs
  <2> QED BY <1>1, <1>5, <2>2 DEF Settles
<1>6. CASE c \in ToSet(codes)
  <2> DEFINE Where == { i \in 1 .. n : codes[i] = c }
  <2>1. Where # {} /\ Where \subseteq Nat
    BY <1>3, <1>6 DEF ToSet
  <2>2. PICK f \in Where : \A i \in Where : f <= i
    <3> HIDE DEF Where
    <3> QED BY <2>1, LeastExists
  <2>3. f \in 1 .. n /\ codes[f] = c /\ \A i \in 1 .. n : i < f => codes[i] # c
    BY <1>2, <2>2
  <2>4. PICK l \in 1 .. n + n : l + f = n + n + 1 /\ n < l
    <3>1. n + n + 1 - f \in 1 .. n + n /\ (n + n + 1 - f) + f = n + n + 1 /\ n < n + n + 1 - f
      BY <1>2, <2>3
    <3> QED BY <3>1
  <2>5. q[l] = Release(c)
    <3>1. l \notin 1 .. n
      BY <1>2, <2>4
    <3>2. PICK i \in 1 .. n : l + i = n + n + 1 /\ q[l] = Release(codes[i])
      BY <1>4, <3>1
    <3>3. i = f
      BY <1>2, <2>3, <2>4, <3>2
    <3> QED BY <2>3, <3>2, <3>3
  <2>6. ASSUME NEW j \in 1 .. n + n, l < j PROVE ~IsKey(q[j], c)
    <3>1. j \notin 1 .. n
      BY <1>2, <2>4, <2>6
    <3>2. PICK i \in 1 .. n : j + i = n + n + 1 /\ q[j] = Release(codes[i])
      BY <1>4, <3>1
    <3>3. i < f
      BY <1>2, <2>3, <2>4, <2>6, <3>2
    <3>4. codes[i] # c /\ codes[i] \in Codomain
      BY <1>2, <2>3, <3>3
    <3> QED BY <3>2, <3>4, Inputs
  <2>7. c \in Codomain
    BY <1>2, <2>3
  <2>8. IsKey(q[l], c) /\ q[l].value = 0
    BY <2>5, <2>7, Inputs
  <2> QED BY <1>1, <1>2, <1>6, <2>4, <2>6, <2>8 DEF Settles
<1> QED BY <1>5, <1>6

LEMMA SingleSettles ==
  ASSUME NEW e, NEW x, NEW c, NEW d, NEW a, IsKey(e, x),
         IF c = x THEN (e.value = 1 <=> c \in a) ELSE (c \in d <=> c \in a)
  PROVE  Settles(<<e>>, d, a, c)
<1>1. DOMAIN <<e>> = {1} /\ <<e>>[1] = e
  OBVIOUS
<1>2. CASE c = x
  <2>1. \A j \in DOMAIN <<e>> : ~(1 < j)
    BY <1>1
  <2> QED BY <1>1, <1>2, <2>1 DEF Settles
<1>3. CASE c # x
  BY <1>1, <1>3 DEF Settles, IsKey
<1> QED BY <1>2, <1>3

\* One event is written.
LEMMA TailPlaces ==
  ASSUME NEW q \in Seq(Input), q # << >>
  PROVE  /\ Len(q) \in Nat \ {0} /\ DOMAIN q = 1 .. Len(q) /\ q[1] = Head(q) /\ Head(q) \in Input
         /\ Tail(q) \in Seq(Input) /\ Len(Tail(q)) = Len(q) - 1 /\ DOMAIN Tail(q) = 1 .. Len(q) - 1
         /\ \A i \in 1 .. Len(q) - 1 : Tail(q)[i] = q[i + 1]
BY HeadTailProperties, LenProperties, EmptySeq

\* What the kernel makes of e.
Pressed(d, e) ==
    IF e.type # "key" \/ e.code \notin Supported THEN d
    ELSE IF e.value = 1 THEN d \cup {e.code} ELSE d \ {e.code}

LEMMA TailSettles ==
  ASSUME NEW q \in Seq(Input), q # << >>, NEW c \in Supported, NEW d, NEW a, Settles(q, d, a, c)
  PROVE  Settles(Tail(q), Pressed(d, Head(q)), a, c)
<1>1. PICK n, t, h : n = Len(q) /\ t = Tail(q) /\ h = Head(q)
  OBVIOUS
<1>2. /\ n \in Nat \ {0} /\ DOMAIN q = 1 .. n /\ q[1] = h /\ h \in Input
      /\ DOMAIN t = 1 .. n - 1 /\ \A i \in 1 .. n - 1 : t[i] = q[i + 1]
  BY <1>1, TailPlaces
<1>3. \A i \in 1 .. n - 1 : i + 1 \in 1 .. n
  BY <1>2
<1>4. CASE \A i \in DOMAIN q : ~IsKey(q[i], c)
  <2>1. c \in d <=> c \in a
    BY <1>4 DEF Settles
  <2>2. ~IsKey(h, c)
    BY <1>2, <1>4
  <2>3. c \in Pressed(d, h) <=> c \in d
    BY <2>2 DEF Pressed, IsKey
  <2>4. \A i \in DOMAIN t : ~IsKey(t[i], c)
    BY <1>2, <1>3, <1>4
  <2> QED BY <1>1, <2>1, <2>3, <2>4 DEF Settles
<1>5. CASE ~(\A i \in DOMAIN q : ~IsKey(q[i], c))
  <2>1. PICK i \in 1 .. n :
           /\ IsKey(q[i], c) /\ \A j \in 1 .. n : i < j => ~IsKey(q[j], c)
           /\ (q[i].value = 1 <=> c \in a)
    BY <1>2, <1>5 DEF Settles
  <2>2. CASE i = 1
    <3>1. c \in Pressed(d, h) <=> c \in a
      BY <1>2, <2>1, <2>2 DEF Pressed, IsKey
    <3>2. ASSUME NEW j \in DOMAIN t PROVE ~IsKey(t[j], c)
      <4>1. j + 1 \in 1 .. n /\ i < j + 1 /\ t[j] = q[j + 1]
        BY <1>2, <2>2
      <4> QED BY <2>1, <4>1
    <3> QED BY <1>1, <3>1, <3>2 DEF Settles
  <2>3. CASE i # 1
    <3>1. PICK k \in 1 .. n - 1 : i = k + 1
      <4>1. i - 1 \in 1 .. n - 1 /\ i = (i - 1) + 1
        BY <1>2, <2>3
      <4> QED BY <4>1
    <3>2. t[k] = q[i]
      BY <1>2, <3>1
    <3>3. ASSUME NEW j \in DOMAIN t, k < j PROVE ~IsKey(t[j], c)
      <4>1. j + 1 \in 1 .. n /\ i < j + 1 /\ t[j] = q[j + 1]
        BY <1>2, <3>1, <3>3
      <4> QED BY <2>1, <4>1
    <3> QED BY <1>1, <1>2, <2>1, <3>2, <3>3 DEF Settles
  <2> QED BY <2>2, <2>3
<1> QED BY <1>4, <1>5

LEMMA TailPresses ==
  ASSUME NEW keys \in Seq(Key), NEW q \in Seq(Input), q # << >>, NEW d, Pressing(q, d, keys)
  PROVE  Pressing(Tail(q), Pressed(d, Head(q)), keys)
<1>1. PICK n, t, h, m : n = Len(q) /\ t = Tail(q) /\ h = Head(q) /\ m = Len(keys)
  OBVIOUS
<1>2. /\ n \in Nat \ {0} /\ DOMAIN q = 1 .. n /\ q[1] = h
      /\ Len(t) = n - 1 /\ \A i \in 1 .. n - 1 : t[i] = q[i + 1]
  BY <1>1, TailPlaces
<1>3. m \in Nat /\ \A i \in 1 .. m : keys[i] \in Key
  BY <1>1, LenProperties, ElementOfSeq
<1>4. /\ n <= 2 * m
      /\ \A k \in 0 .. m : n + k = 2 * m =>
            /\ \A i \in 1 .. k : LinuxKey[keys[i]] \in d
            /\ \A i \in k + 1 .. m : q[i - k] = Press(LinuxKey[keys[i]])
  BY <1>1 DEF Pressing
<1>5. Len(t) <= 2 * m
  BY <1>2, <1>3, <1>4
<1>6. ASSUME NEW k \in 0 .. m, Len(t) + k = 2 * m
      PROVE  /\ \A i \in 1 .. k : LinuxKey[keys[i]] \in Pressed(d, h)
             /\ \A i \in k + 1 .. m : t[i - k] = Press(LinuxKey[keys[i]])
  <2>1. PICK l \in 0 .. m : k = l + 1 /\ n + l = 2 * m
    <3>1. k - 1 \in 0 .. m /\ k = (k - 1) + 1 /\ n + (k - 1) = 2 * m
      BY <1>2, <1>3, <1>4, <1>6
    <3> QED BY <3>1
  <2>2. /\ \A i \in 1 .. l : LinuxKey[keys[i]] \in d
        /\ \A i \in l + 1 .. m : q[i - l] = Press(LinuxKey[keys[i]])
    BY <1>4, <2>1
  <2>3. h = Press(LinuxKey[keys[k]]) /\ k \in 1 .. m
    <3>1. k \in l + 1 .. m /\ k - l = 1 /\ k \in 1 .. m
      BY <1>3, <2>1
    <3> QED BY <1>2, <2>2, <3>1
  <2>4. LinuxKey[keys[k]] \in Supported
    BY <1>3, <2>3, KeyAssumption DEF Supported
  <2>5. Pressed(d, h) = d \cup {LinuxKey[keys[k]]}
    BY <2>3, <2>4 DEF Pressed, Press
  <2>6. ASSUME NEW i \in 1 .. k PROVE LinuxKey[keys[i]] \in Pressed(d, h)
    <3>1. i \in 1 .. l \/ i = k
      BY <2>1
    <3> QED BY <2>2, <2>5, <3>1
  <2>7. ASSUME NEW i \in k + 1 .. m PROVE t[i - k] = Press(LinuxKey[keys[i]])
    <3>1. i \in l + 1 .. m /\ i - l \in 1 .. n /\ (i - k) + 1 = i - l /\ i - k \in 1 .. n - 1
      BY <1>2, <1>3, <2>1
    <3>2. t[i - k] = q[i - l]
      BY <1>2, <3>1
    <3> QED BY <2>2, <3>1, <3>2
  <2> QED BY <2>6, <2>7
<1> QED BY <1>1, <1>5, <1>6 DEF Pressing

LEMMA CodeSets ==
  /\ Named \subseteq Supported /\ Named \subseteq Codomain
  /\ \A k \in Keycode \cup {0} : LinuxKeycode(k) \in Codomain
  /\ \A k \in Key : KeyCode(k) \in Named
  /\ Button \subseteq Named
BY KeyAssumption DEF Named, Supported, Codomain, KeyCode

LEMMA PacketFields ==
  ASSUME NEW p \in Packets
  PROVE  /\ p.type \in {"DOWN", "UP", "CLICK", "KEY_DOWN", "KEY_UP", "KEY_CLICK", "HOTKEY",
                        "WRITE", "SCROLL_UP", "SCROLL_DOWN"}
         /\ p.type \in {"DOWN", "UP", "CLICK"} => p.button \in Button
         /\ p.type \in {"KEY_DOWN", "KEY_UP", "KEY_CLICK"} => p.key \in Key
         /\ p.type = "HOTKEY" => p.keys \in Hotkeys
         /\ p.type = "WRITE" => p.sym \in Sym
BY DEF Packets

\* The codes that write a symbol.
LEMMA WrittenTyped ==
  ASSUME ScanTypeOK, ParseTypeOK, Ready, NEW s \in Sym
  PROVE  Written(s) \in Seq(Codomain)
<1>1. CASE mapping[s] = None
  <2>1. << >> \in Seq(Codomain)
    OBVIOUS
  <2> QED BY <1>1, <2>1 DEF Written
<1>2. CASE mapping[s] # None
  <2>1. mapping[s].keycode \in Keycode /\ mapping[s].modifiers \in SUBSET Mod
    <3>1. mapping[s] \in [keycode : Keycode, modifiers : SUBSET Mod]
      BY <1>2 DEF ScanTypeOK
    <3> QED BY <3>1
  <2>2. PICK S, n : S = mapping[s].modifiers /\ n = Cardinality(S)
    OBVIOUS
  <2>3. S \subseteq Mod /\ IsFiniteSet(S) /\ S \subseteq Nat /\ n \in Nat
    BY <2>1, <2>2, ModFacts
  <2>4. PICK f : f = Modifiers(s)
    OBVIOUS
  <2>5. f \in [1 .. n -> S]
    <3>1. \E g \in [1 .. Cardinality(S) -> S] : \A i, j \in DOMAIN g : i < j => g[i] < g[j]
      BY <2>3, AscendingExists
    <3>2. \E g \in [1 .. n -> S] : \A i, j \in DOMAIN g : i < j => g[i] < g[j]
      BY <2>2, <3>1
    <3>3. f = CHOOSE g \in [1 .. n -> S] : \A i, j \in DOMAIN g : i < j => g[i] < g[j]
      BY <2>2, <2>4 DEF Modifiers
    <3> QED BY <3>2, <3>3
  <2>6. \A m \in Mod : modkeys[m] \in Keycode \cup {0}
    BY DEF ParseTypeOK, Ready
  <2>7. ModifierCodes(s) = [i \in 1 .. n |-> LinuxKeycode(modkeys[f[i]])]
    BY <2>4, <2>5 DEF ModifierCodes
  <2>8. \A i \in 1 .. n : LinuxKeycode(modkeys[f[i]]) \in Codomain
    BY <2>3, <2>5, <2>6, CodeSets
  <2>9. ModifierCodes(s) \in Seq(Codomain)
    BY <2>3, <2>7, <2>8, IsASeq
  <2>10. <<LinuxKeycode(mapping[s].keycode)>> \in Seq(Codomain)
    BY <2>1, CodeSets, SingletonSeq
  <2>11. WriteCodes(s) \in Seq(Codomain)
    BY <2>9, <2>10, ConcatProperties DEF WriteCodes
  <2> QED BY <1>2, <2>11 DEF Written
<1> QED BY <1>1, <1>2

LEMMA CodesTyped ==
  ASSUME ScanTypeOK, ParseTypeOK, Ready, NEW p \in Packets
  PROVE  /\ Codes(p) \in Seq(Codomain)
         /\ p.type \in {"DOWN", "UP", "CLICK", "KEY_DOWN", "KEY_UP", "KEY_CLICK"} =>
              \E c \in Named : Codes(p) = <<c>>
<1>1. CASE p.type \in {"DOWN", "UP", "CLICK"}
  <2>1. p.button \in Named /\ p.button \in Codomain /\ Codes(p) = <<p.button>>
    BY <1>1, PacketFields, CodeSets DEF Codes
  <2> QED BY <2>1, SingletonSeq
<1>2. CASE p.type \in {"KEY_DOWN", "KEY_UP", "KEY_CLICK"}
  <2>1. KeyCode(p.key) \in Named /\ KeyCode(p.key) \in Codomain /\ Codes(p) = <<KeyCode(p.key)>>
    BY <1>2, PacketFields, CodeSets DEF Codes
  <2> QED BY <2>1, SingletonSeq
<1>3. CASE p.type = "HOTKEY"
  <2>1. p.keys \in Seq(Key)
    BY <1>3, PacketFields, HotkeyAssumption
  <2>2. PICK n \in Nat : n = Len(p.keys) /\ \A i \in 1 .. n : p.keys[i] \in Key
    BY <2>1, LenProperties, ElementOfSeq
  <2>3. \A i \in 1 .. n : KeyCode(p.keys[i]) \in Codomain
    BY <2>2, CodeSets
  <2>4. [i \in 1 .. n |-> KeyCode(p.keys[i])] \in Seq(Codomain)
    BY <2>3, IsASeq
  <2> QED BY <1>3, <2>2, <2>4 DEF Codes
<1>4. CASE p.type = "WRITE"
  BY <1>4, PacketFields, WrittenTyped DEF Codes
<1>5. CASE p.type \in {"SCROLL_UP", "SCROLL_DOWN"}
  BY <1>5 DEF Codes
<1> QED BY <1>1, <1>2, <1>3, <1>4, <1>5, PacketFields

LEMMA ScrollShape ==
  ASSUME NEW up
  PROVE  Scroll(up) \in Seq(Input) /\ \A i \in DOMAIN Scroll(up) : Scroll(up)[i].type = "wheel"
<1>1. PICK n \in Nat : 1 .. n = 1 .. ScrollSensibility
  <2>1. CASE ScrollSensibility \in Nat
    BY <2>1
  <2>2. CASE ScrollSensibility \notin Nat
    <3>1. 1 .. 0 = 1 .. ScrollSensibility
      BY <2>2, ScrollAssumption
    <3> QED BY <3>1
  <2> QED BY <2>1, <2>2
<1>2. Notch(up) \in Input /\ Notch(up).type = "wheel"
  BY DEF Notch, Wheel, Input
<1>3. Scroll(up) = [i \in 1 .. n |-> Notch(up)]
  BY <1>1 DEF Scroll
<1>4. Scroll(up) \in Seq(Input)
  BY <1>2, <1>3, IsASeq
<1> QED BY <1>2, <1>3, <1>4

\* A packet is asked for, its events are put together.
LEMMA EventsTyped ==
  ASSUME ScanTypeOK, ParseTypeOK, Ready, NEW p \in Packets
  PROVE  Events(p) \in Seq(Input)
<1>1. CASE p.type \in {"DOWN", "KEY_DOWN", "UP", "KEY_UP"}
  <2>1. PICK c \in Named : Codes(p) = <<c>>
    BY <1>1, CodesTyped
  <2>2. Press(c) \in Input /\ Release(c) \in Input
    BY CodeSets, Inputs
  <2>3. <<Press(c)>> \in Seq(Input) /\ <<Release(c)>> \in Seq(Input)
    BY <2>2, SingletonSeq
  <2> QED BY <1>1, <2>1, <2>3 DEF Events
<1>2. CASE p.type \in {"SCROLL_UP", "SCROLL_DOWN"}
  BY <1>2, ScrollShape DEF Events
<1>3. CASE p.type \in {"CLICK", "KEY_CLICK", "HOTKEY", "WRITE"}
  <2>1. Chord(Codes(p)) \in Seq(Input)
    BY CodesTyped, ChordShape DEF Chorded
  <2> QED BY <1>3, <2>1 DEF Events
<1> QED BY <1>1, <1>2, <1>3, PacketFields

\* What the packets ask to be held, after p.
AskedAfter(p, a) ==
    (a \ ToSet(Codes(p))) \cup (IF p.type \in {"DOWN", "KEY_DOWN"} THEN ToSet(Codes(p)) ELSE {})

LEMMA OneCode ==
  ASSUME NEW c
  PROVE  ToSet(<<c>>) = {c} /\ <<c>>[1] = c
BY DEF ToSet

LEMMA EventsSettle ==
  ASSUME ScanTypeOK, ParseTypeOK, Ready, NEW p \in Packets, NEW a, NEW c
  PROVE  Settles(Events(p), a, AskedAfter(p, a), c)
<1>1. CASE p.type \in {"DOWN", "KEY_DOWN", "UP", "KEY_UP"}
  <2>1. PICK x \in Named : Codes(p) = <<x>>
    BY <1>1, CodesTyped
  <2>2. ToSet(Codes(p)) = {x} /\ Codes(p)[1] = x
    BY <2>1, OneCode
  <2>3. x \in Codomain
    BY CodeSets
  <2>4. CASE p.type \in {"DOWN", "KEY_DOWN"}
    <3>1. PICK e : e = Press(x) /\ IsKey(e, x) /\ e.value = 1
      BY <2>3, Inputs
    <3>2. Events(p) = <<e>> /\ AskedAfter(p, a) = (a \ {x}) \cup {x}
      BY <2>2, <2>4, <3>1 DEF Events, AskedAfter
    <3>3. IF c = x THEN (e.value = 1 <=> c \in AskedAfter(p, a)) ELSE (c \in a <=> c \in AskedAfter(p, a))
      BY <3>1, <3>2
    <3> QED BY <3>1, <3>2, <3>3, SingleSettles
  <2>5. CASE p.type \in {"UP", "KEY_UP"}
    <3>1. PICK e : e = Release(x) /\ IsKey(e, x) /\ e.value = 0
      BY <2>3, Inputs
    <3>2. Events(p) = <<e>> /\ AskedAfter(p, a) = a \ {x}
      BY <2>2, <2>5, <3>1 DEF Events, AskedAfter
    <3>3. IF c = x THEN (e.value = 1 <=> c \in AskedAfter(p, a)) ELSE (c \in a <=> c \in AskedAfter(p, a))
      BY <3>1, <3>2
    <3> QED BY <3>1, <3>2, <3>3, SingleSettles
  <2> QED BY <1>1, <2>4, <2>5
<1>2. CASE p.type \in {"SCROLL_UP", "SCROLL_DOWN"}
  <2>1. PICK q : q = Events(p) /\ \A i \in DOMAIN q : q[i].type = "wheel"
    BY <1>2, ScrollShape DEF Events
  <2>2. ToSet(Codes(p)) = {}
    <3>1. Codes(p) = << >>
      BY <1>2 DEF Codes
    <3> QED BY <3>1 DEF ToSet
  <2>3. AskedAfter(p, a) = a
    BY <1>2, <2>2 DEF AskedAfter
  <2>4. \A i \in DOMAIN q : ~IsKey(q[i], c)
    BY <2>1 DEF IsKey
  <2> QED BY <2>1, <2>3, <2>4 DEF Settles
<1>3. CASE p.type \in {"CLICK", "KEY_CLICK", "HOTKEY", "WRITE"}
  <2>1. Events(p) = Chord(Codes(p)) /\ AskedAfter(p, a) = a \ ToSet(Codes(p))
    BY <1>3 DEF Events, AskedAfter
  <2>2. IF c \in ToSet(Codes(p)) THEN c \notin AskedAfter(p, a)
        ELSE (c \in a <=> c \in AskedAfter(p, a))
    BY <2>1
  <2>3. Codes(p) \in Seq(Codomain)
    BY CodesTyped
  <2> QED BY <2>1, <2>2, <2>3, ChordSettles
<1> QED BY <1>1, <1>2, <1>3, PacketFields

LEMMA HotkeyPresses ==
  ASSUME ScanTypeOK, ParseTypeOK, Ready, NEW p \in Packets, p.type = "HOTKEY", NEW d
  PROVE  Pressing(Events(p), d, p.keys)
<1>1. PICK q, codes, n : q = Events(p) /\ codes = Codes(p) /\ n = Len(p.keys)
  OBVIOUS
<1>2. p.keys \in Seq(Key) /\ n \in Nat
  BY <1>1, PacketFields, HotkeyAssumption, LenProperties
<1>3. codes = [i \in 1 .. n |-> KeyCode(p.keys[i])] /\ q = Chord(codes) /\ codes \in Seq(Codomain)
  BY <1>1, CodesTyped DEF Codes, Events
<1>4. Len(codes) = n
  BY <1>2, <1>3, LenProperties
<1>5. Chorded(q, codes, n)
  BY <1>3, <1>4, ChordShape
<1>6. Len(q) = n + n /\ \A i \in 1 .. n : q[i] = Press(codes[i]) /\ codes[i] = LinuxKey[p.keys[i]]
  BY <1>3, <1>5 DEF Chorded, KeyCode
<1>7. Len(q) <= 2 * n
  BY <1>2, <1>6
<1>8. ASSUME NEW k \in 0 .. n, Len(q) + k = 2 * n
      PROVE  /\ \A i \in 1 .. k : LinuxKey[p.keys[i]] \in d
             /\ \A i \in k + 1 .. n : q[i - k] = Press(LinuxKey[p.keys[i]])
  <2>1. k = 0
    BY <1>2, <1>6, <1>8
  <2>2. \A i \in k + 1 .. n : i - k = i /\ i \in 1 .. n
    BY <1>2, <2>1
  <2> QED BY <1>6, <2>1, <2>2
<1> QED BY <1>1, <1>7, <1>8 DEF Pressing

LEMMA DeviceHandled ==
  ASSUME ScanOK, DeviceOK, NEW p \in Packets, Handle(p)
  PROVE  DeviceOK'
<1>1. /\ Ready /\ todo = << >> /\ packet' = p /\ todo' = Events(p) /\ down' = down
      /\ before' = down /\ typed' = << >> /\ asked' = AskedAfter(p, asked)
  BY DEF Handle, AskedAfter
<1>2. ScanTypeOK /\ ParseTypeOK
  BY DEF ScanOK
<1>3. DeviceTypeOK'
  <2>1. todo' \in Seq(Input)
    BY <1>1, <1>2, EventsTyped
  <2>2. typed' \in Seq([code : Codomain, held : SUBSET Mod])
    BY <1>1
  <2> QED BY <1>1, <2>1, <2>2 DEF DeviceOK, DeviceTypeOK
<1>4. asked' \subseteq Named
  <2>1. CASE p.type \in {"DOWN", "KEY_DOWN"}
    <3>1. PICK c \in Named : Codes(p) = <<c>>
      BY <1>1, <1>2, <2>1, CodesTyped
    <3>2. ToSet(Codes(p)) = {c}
      BY <3>1, OneCode
    <3> QED BY <1>1, <2>1, <3>1, <3>2 DEF AskedAfter, DeviceOK
  <2>2. CASE p.type \notin {"DOWN", "KEY_DOWN"}
    BY <1>1, <2>2 DEF AskedAfter, DeviceOK
  <2> QED BY <2>1, <2>2
\* Nothing was left to be written, so that what is pressed is what was asked for.
<1>5. \A c \in Supported : c \in down <=> c \in asked
  <2>1. DOMAIN todo = {}
    BY <1>1
  <2> QED BY <2>1 DEF DeviceOK, WillHold, Settles
<1>6. down = asked
  BY <1>5, CodeSets DEF DeviceOK, DeviceTypeOK
<1>7. WillHold'
  <2> SUFFICES ASSUME NEW c \in Supported
               PROVE  Settles(Events(p), asked, AskedAfter(p, asked), c)
    BY <1>1, <1>6 DEF WillHold
  <2> QED BY <1>1, <1>2, EventsSettle
<1>8. HotkeyGoesOn'
  BY <1>1, <1>2, HotkeyPresses DEF HotkeyGoesOn
<1> QED BY <1>3, <1>4, <1>7, <1>8 DEF DeviceOK

LEMMA DeviceEmitted ==
  ASSUME DeviceOK, Emit
  PROVE  DeviceOK'
<1>1. /\ todo # << >> /\ todo \in Seq(Input) /\ todo' = Tail(todo)
      /\ EmitKey(Head(todo)) \/ EmitWheel(Head(todo))
      /\ UNCHANGED <<packet, before, asked>>
  BY DEF Emit, DeviceOK, DeviceTypeOK
<1>2. PICK e : e = Head(todo)
  OBVIOUS
<1>3. e \in Input /\ Tail(todo) \in Seq(Input)
  BY <1>1, <1>2, TailPlaces
<1>4. down' = Pressed(down, e)
  BY <1>1, <1>2 DEF EmitKey, EmitWheel, Pressed
<1>5. DeviceTypeOK'
  <2>1. down \subseteq Supported /\ typed \in Seq([code : Codomain, held : SUBSET Mod])
    BY DEF DeviceOK, DeviceTypeOK
  <2>2. down' \subseteq Supported
    BY <1>4, <2>1 DEF Pressed
  <2>3. typed' \in Seq([code : Codomain, held : SUBSET Mod])
    <3>1. CASE typed' = typed
      BY <2>1, <3>1
    <3>2. CASE e.type = "key" /\ typed' = Append(typed, KeyPress(e.code, down))
      <4>1. e.code \in Codomain
        BY <1>3, <3>2 DEF Input
      <4>2. KeyPress(e.code, down) \in [code : Codomain, held : SUBSET Mod]
        BY <4>1 DEF KeyPress, HeldMods
      <4> QED BY <2>1, <3>2, <4>2, AppendProperties
    <3> QED BY <1>1, <1>2, <3>1, <3>2 DEF EmitKey, EmitWheel
  <2> QED BY <1>1, <1>3, <2>2, <2>3 DEF DeviceOK, DeviceTypeOK
<1>6. WillHold'
  <2> SUFFICES ASSUME NEW c \in Supported
               PROVE  Settles(Tail(todo), Pressed(down, e), asked, c)
    BY <1>1, <1>4 DEF WillHold
  <2>1. Settles(todo, down, asked, c)
    BY DEF DeviceOK, WillHold
  <2> QED BY <1>1, <1>2, <2>1, TailSettles
<1>7. HotkeyGoesOn'
  <2> SUFFICES ASSUME packet.type = "HOTKEY"
               PROVE  Pressing(Tail(todo), Pressed(down, e), packet.keys)
    BY <1>1, <1>4 DEF HotkeyGoesOn
  <2>1. packet \in Packets
    BY DEF DeviceOK, DeviceTypeOK, NoPacket
  <2>2. packet.keys \in Seq(Key)
    BY <2>1, PacketFields, HotkeyAssumption
  <2>3. Pressing(todo, down, packet.keys)
    BY DEF DeviceOK, HotkeyGoesOn
  <2> QED BY <1>1, <1>2, <2>2, <2>3, TailPresses
<1> QED BY <1>1, <1>5, <1>6, <1>7 DEF DeviceOK

LEMMA DeviceUnchanged ==
  ASSUME DeviceOK, UNCHANGED device
  PROVE  DeviceOK'
<1>1. UNCHANGED <<down, packet, todo, before, asked, typed>>
  BY DEF device
<1>2. DeviceTypeOK'
  BY <1>1 DEF DeviceOK, DeviceTypeOK
<1>3. WillHold' /\ HotkeyGoesOn'
  BY <1>1 DEF DeviceOK, WillHold, HotkeyGoesOn
<1> QED BY <1>1, <1>2, <1>3 DEF DeviceOK

-----------------------------------------------------------------------------
(* The whole. *)

LEMMA InitIInv == Init => IInv
<1> SUFFICES ASSUME Init PROVE IInv
  OBVIOUS
<1> USE DEF Init, FetchInit, ScanInit, ParseInit
<1>1. FetchOK
  <2>1. << >> \in Seq(Request) /\ << >> \in Seq(Event)
    OBVIOUS
  <2> QED BY <2>1 DEF FetchOK, FetchTypeOK, Stage
<1>2. Chatting
  <2>1. SeatsAnnounced = {}
    BY DEF SeatsAnnounced
  <2> QED BY <2>1 DEF Chatting
<1>3. ScanOK
  <2>1. Mapped = {}
    BY DEF Mapped
  <2>2. ScanTypeOK
    BY KeycodeFacts DEF ScanTypeOK
  <2>3. ParseTypeOK
    <3>1. DOMAIN symbols = {}
      BY DOMAIN << >> = {}
    <3>2. modifiers \in [Mod -> Name \cup {None}]
      OBVIOUS
    <3> QED BY <3>1, <3>2 DEF ParseTypeOK
  <2>4. InTurn /\ SeenIsMapped /\ FewestModifiers
    BY <2>1 DEF InTurn, SeenIsMapped, FewestModifiers, Ready
  <2> QED BY <2>2, <2>3, <2>4 DEF ScanOK
<1>4. DeviceOK
  <2>1. << >> \in Seq(Input) /\ << >> \in Seq([code : Codomain, held : SUBSET Mod])
    OBVIOUS
  <2>2. DeviceTypeOK
    BY <2>1 DEF DeviceTypeOK
  <2>3. WillHold
    <3>1. DOMAIN todo = {}
      OBVIOUS
    <3> QED BY <3>1 DEF WillHold, Settles
  <2>4. HotkeyGoesOn
    BY DEF HotkeyGoesOn, NoPacket
  <2> QED BY <2>2, <2>3, <2>4 DEF DeviceOK
<1> QED BY <1>1, <1>2, <1>3, <1>4 DEF IInv

LEMMA FetchOKUnchanged ==
  ASSUME FetchOK, Chatting, UNCHANGED fetching, UNCHANGED desktop
  PROVE  FetchOK' /\ Chatting'
<1>1. UNCHANGED <<fetch, desktop, announced, requests, events, seat, keymapFd>>
  BY DEF fetching, connection
<1>2. FetchOK'
  BY <1>1 DEF FetchOK, FetchTypeOK
<1>3. Chatting'
  BY <1>1 DEF Chatting, Chat, SeatsAnnounced, LastSeat
<1> QED BY <1>2, <1>3

LEMMA NextIInv == IInv /\ [Next]_vars => IInv'
<1> SUFFICES ASSUME IInv, [Next]_vars PROVE IInv'
  OBVIOUS
<1>1. FetchOK /\ Chatting /\ ScanOK /\ DeviceOK
  BY DEF IInv
<1>2. CASE Fetch /\ UNCHANGED <<scan, parse>> /\ UNCHANGED device
  <2>1. packet' = packet
    BY <1>2 DEF device
  <2> QED BY <1>1, <1>2, <2>1, FetchKept, ChattingKept, ScanOKFetched, DeviceUnchanged DEF IInv
<1>3. CASE fetch = "fetched" /\ ScanNext /\ UNCHANGED <<fetching, parse>> /\ UNCHANGED device
  <2>1. packet' = packet /\ UNCHANGED desktop
    BY <1>3 DEF device, ScanNext
  <2> QED BY <1>1, <1>3, <2>1, FetchOKUnchanged, ScanOKScanned, DeviceUnchanged DEF IInv
<1>4. CASE Scanned /\ ParseNext /\ UNCHANGED <<fetching, scan>> /\ UNCHANGED device
  <2>1. packet' = packet /\ UNCHANGED desktop
    BY <1>4 DEF device, ParseNext
  <2> QED BY <1>1, <1>4, <2>1, FetchOKUnchanged, ScanOKParsed, DeviceUnchanged DEF IInv
<1>5. CASE Compositor /\ UNCHANGED <<scan, parse, device>>
  <2>1. packet' = packet /\ UNCHANGED <<fetch, desktop, scan, parse>>
    BY <1>5 DEF device, Compositor
  <2> QED BY <1>1, <1>5, <2>1, FetchAnswered, ChattingKept, ScanOKUnchanged, DeviceUnchanged DEF IInv
<1>6. ASSUME NEW p \in Packets, Handle(p) PROVE IInv'
  <2>1. Ready /\ UNCHANGED <<fetching, fetch, desktop, scan, parse>>
    BY <1>6 DEF Handle, startup, fetching
  <2> QED BY <1>1, <1>6, <2>1, FetchOKUnchanged, ScanOKUnchanged, DeviceHandled DEF IInv
<1>7. CASE Emit
  <2>1. packet' = packet /\ UNCHANGED <<fetching, fetch, desktop, scan, parse>>
    BY <1>7 DEF Emit, startup, fetching
  <2> QED BY <1>1, <1>7, <2>1, FetchOKUnchanged, ScanOKUnchanged, DeviceEmitted DEF IInv
<1>8. CASE UNCHANGED vars
  <2>1. packet' = packet /\ UNCHANGED <<fetching, fetch, desktop, scan, parse>> /\ UNCHANGED device
    BY <1>8 DEF vars, startup, fetching, device
  <2> QED BY <1>1, <2>1, FetchOKUnchanged, ScanOKUnchanged, DeviceUnchanged DEF IInv
<1> QED BY <1>2, <1>3, <1>4, <1>5, <1>6, <1>7, <1>8 DEF Next, Start

\* The inductive invariant of the display.
THEOREM DisplayInvariant == Spec => []IInv
<1>1. Init => IInv
  BY InitIInv
<1>2. IInv /\ [Next]_vars => IInv'
  BY NextIInv
<1> QED BY <1>1, <1>2, PTL DEF Spec

\* The state of the display, of its start and of its device keeps its type, whatever
\* desktop it meets and whatever packets come.
THEOREM DisplayTypeCorrect == Spec => []TypeOK
<1>1. IInv => TypeOK
  BY CodeSets DEF IInv, FetchOK, ScanOK, DeviceOK, DeviceTypeOK, TypeOK, Input
<1> QED BY <1>1, DisplayInvariant, PTL

\* If the last seat of the compositor has a keyboard, the start does not fail for want of a
\* keymap and reads the keymap of that seat, whatever else is announced and however the
\* answers are cut into batches.
THEOREM KeymapIsFetched == Spec => []FetchesKeymap
<1>1. IInv => FetchesKeymap
  BY DEF IInv, Chatting, Chat, FetchesKeymap
<1> QED BY <1>1, DisplayInvariant, PTL

\* Of the combinations of key and modifiers that the scan has seen of a symbol, none has
\* fewer modifiers than what is put for it, in any order of the masks.
THEOREM SymbolsNeedFewest == Spec => []FewestModifiers
<1>1. IInv => FewestModifiers
  BY DEF IInv, ScanOK
<1> QED BY <1>1, DisplayInvariant, PTL

LEMMA IInvMapped == IInv => EverySymbolMapped
<1>1. ASSUME IInv, packet # NoPacket, NEW k \in Keycode \ {MaxKeycode}, NEW m \in Mask
      PROVE  Syms[desktop][k][m] \subseteq Mapped
  <2>1. fetch = "fetched" /\ ~(keycode < MaxKeycode) /\ SeenIsMapped /\ keycode \in Keycode
    BY <1>1 DEF IInv, ScanOK, ScanTypeOK, InTurn, Scanned, More
  <2>2. k < keycode
    BY <2>1, KeycodeFacts
  <2> QED BY <2>1, <2>2 DEF SeenIsMapped
<1> QED BY <1>1 DEF EverySymbolMapped

\* When packets are served, every symbol of every key but the last is mapped.
THEOREM SymbolsAreMapped == Spec => []EverySymbolMapped
BY IInvMapped, DisplayInvariant, PTL

\* Between packets exactly those keys and buttons are pressed that the packets ask to be
\* held, whatever the packets of all the clients, the keyboard and its modifiers.
THEOREM NothingStaysPressed == Spec => []HeldAsAsked
<1>1. ASSUME IInv, todo = << >> PROVE down = asked
  <2>1. DOMAIN todo = {}
    BY <1>1
  <2>2. \A c \in Supported : c \in down <=> c \in asked
    BY <1>1, <2>1 DEF IInv, DeviceOK, WillHold, Settles
  <2> QED BY <1>1, <2>2, CodeSets DEF IInv, DeviceOK, DeviceTypeOK
<1>2. IInv => HeldAsAsked
  BY <1>1 DEF HeldAsAsked
<1> QED BY <1>2, DisplayInvariant, PTL

\* When the last key of a hotkey is pressed, all its keys are, of any hotkey, one with a
\* key in it twice included.
THEOREM HotkeysAreChords == Spec => []HotkeyIsAChord
<1>1. ASSUME IInv, packet.type = "HOTKEY", Len(todo) = Len(packet.keys),
             NEW i \in 1 .. Len(packet.keys)
      PROVE  LinuxKey[packet.keys[i]] \in down
  <2>1. packet \in Packets
    BY <1>1 DEF IInv, DeviceOK, DeviceTypeOK, NoPacket
  <2>2. packet.keys \in Seq(Key)
    BY <1>1, <2>1, PacketFields, HotkeyAssumption
  <2>3. PICK n \in Nat : n = Len(packet.keys)
    BY <2>2, LenProperties
  <2>4. n \in 0 .. n /\ Len(todo) + n = 2 * n
    BY <1>1, <2>3
  <2>5. Pressing(todo, down, packet.keys)
    BY <1>1 DEF IInv, DeviceOK, HotkeyGoesOn
  <2> QED BY <1>1, <2>3, <2>4, <2>5 DEF Pressing
<1>2. IInv => HotkeyIsAChord
  BY <1>1 DEF HotkeyIsAChord
<1> QED BY <1>2, DisplayInvariant, PTL

-----------------------------------------------------------------------------
(* The keys of the modifiers. *)

\* What the callback has kept of the lines of t up to lineNum.
Kept(t) ==
    /\ parsing <=> InSection(t, lineNum + 1)
    /\ \A i \in KeyLines(t) : i <= lineNum => Slot(t[i].name) \in DOMAIN symbols
    /\ \A slot \in DOMAIN symbols : \E i \in KeyLines(t) :
          Slot(t[i].name) = slot /\ symbols[slot] = t[i].code
    /\ \A i \in ModifierLines(t) : i <= lineNum => modifiers[t[i].mod] # None
    /\ \A m \in Mod : modifiers[m] # None => \E i \in ModifierLines(t) :
          t[i].mod = m /\ modifiers[m] = Head(t[i].names)

ParseInv ==
    /\ fetch # "fetched" => ParseInit
    /\ fetch = "fetched" => Kept(Text[desktop])
    /\ ModifiersResolved

\* The lines up to i are those up to l, and i: those in between are empty.
LEMMA SectionAfter ==
  ASSUME NEW t \in Seq(Line), NEW l \in Nat, NEW i \in DOMAIN t, l < i,
         \A k \in DOMAIN t : l < k /\ k < i => t[k].kind = "empty"
  PROVE  InSection(t, i + 1) <=>
            IF InSection(t, l + 1) THEN t[i].kind \notin {"end", "modifier"} ELSE t[i].kind = "section"
<1>1. DOMAIN t = 1 .. Len(t) /\ Len(t) \in Nat /\ i \in Nat
  BY LenProperties
<1>2. InSection(t, i) <=> InSection(t, l + 1)
  <2>1. ASSUME InSection(t, i) PROVE InSection(t, l + 1)
    <3>1. PICK j \in DOMAIN t : /\ j < i /\ t[j].kind = "section"
                                /\ \A k \in DOMAIN t : j < k /\ k < i => t[k].kind \notin {"end", "modifier"}
      BY <2>1 DEF InSection
    <3>2. j < l + 1
      BY <1>1, <3>1
    <3>3. \A k \in DOMAIN t : k < l + 1 => k < i
      BY <1>1
    <3> QED BY <3>1, <3>2, <3>3 DEF InSection
  <2>2. ASSUME InSection(t, l + 1) PROVE InSection(t, i)
    <3>1. PICK j \in DOMAIN t : /\ j < l + 1 /\ t[j].kind = "section"
                                /\ \A k \in DOMAIN t : j < k /\ k < l + 1 => t[k].kind \notin {"end", "modifier"}
      BY <2>2 DEF InSection
    <3>2. j < i
      BY <1>1, <3>1
    <3>3. ASSUME NEW k \in DOMAIN t, j < k, k < i PROVE t[k].kind \notin {"end", "modifier"}
      <4>1. k < l + 1 \/ l < k
        BY <1>1
      <4> QED BY <3>1, <3>3, <4>1
    <3> QED BY <3>1, <3>2, <3>3 DEF InSection
  <2> QED BY <2>1, <2>2
<1>3. \A k \in DOMAIN t : k < i + 1 <=> k < i \/ k = i
  BY <1>1
<1>4. ~(i < i)
  BY <1>1
<1>5. ASSUME InSection(t, i) PROVE InSection(t, i + 1) <=> t[i].kind \notin {"end", "modifier"}
  <2>1. PICK j \in DOMAIN t : /\ j < i /\ t[j].kind = "section"
                              /\ \A k \in DOMAIN t : j < k /\ k < i => t[k].kind \notin {"end", "modifier"}
    BY <1>5 DEF InSection
  <2>2. ASSUME t[i].kind \notin {"end", "modifier"} PROVE InSection(t, i + 1)
    BY <1>3, <2>1, <2>2 DEF InSection
  <2>3. ASSUME InSection(t, i + 1) PROVE t[i].kind \notin {"end", "modifier"}
    <3>1. PICK h \in DOMAIN t : /\ h < i + 1 /\ t[h].kind = "section"
                                /\ \A k \in DOMAIN t : h < k /\ k < i + 1 => t[k].kind \notin {"end", "modifier"}
      BY <2>3 DEF InSection
    <3>2. h = i \/ h < i
      BY <1>3, <3>1
    <3> QED BY <1>3, <3>1, <3>2
  <2> QED BY <2>2, <2>3
<1>6. ASSUME ~InSection(t, i) PROVE InSection(t, i + 1) <=> t[i].kind = "section"
  <2>1. ASSUME t[i].kind = "section" PROVE InSection(t, i + 1)
    <3>1. i < i + 1 /\ \A k \in DOMAIN t : ~(i < k /\ k < i + 1)
      BY <1>1
    <3> QED BY <2>1, <3>1 DEF InSection
  <2>2. ASSUME InSection(t, i + 1), t[i].kind # "section" PROVE FALSE
    <3>1. PICK h \in DOMAIN t : /\ h < i + 1 /\ t[h].kind = "section"
                                /\ \A k \in DOMAIN t : h < k /\ k < i + 1 => t[k].kind \notin {"end", "modifier"}
      BY <2>2 DEF InSection
    <3>2. h < i /\ \A k \in DOMAIN t : k < i => k < i + 1
      BY <1>3, <2>2, <3>1
    <3> QED BY <1>6, <3>1, <3>2 DEF InSection
  <2> QED BY <2>1, <2>2
<1> QED BY <1>2, <1>5, <1>6

\* The lines that are left out are empty.
LEMMA LinesTaken ==
  ASSUME desktop \in Desktops, ParseTypeOK, NEW t, t = Text[desktop]
  PROVE  /\ t \in Seq(Line) /\ DOMAIN t \subseteq Nat /\ lineNum \in Nat
         /\ Ahead = { i \in DOMAIN t : lineNum < i /\ t[i].kind # "empty" }
         /\ Ahead # {} => Min(Ahead) \in Ahead /\ \A k \in Ahead : Min(Ahead) <= k
<1>1. t \in Seq(Line)
  BY DesktopAssumption
<1>2. PICK n \in Nat : n = Len(t) /\ DOMAIN t = 1 .. n
  BY <1>1, LenProperties
<1>3. lineNum \in Nat
  BY DEF ParseTypeOK
<1>4. Ahead = { i \in lineNum + 1 .. n : t[i].kind # "empty" }
  BY <1>2 DEF Ahead
<1>5. Ahead = { i \in 1 .. n : lineNum < i /\ t[i].kind # "empty" }
  <2>1. \A i : i \in lineNum + 1 .. n <=> i \in 1 .. n /\ lineNum < i
    BY <1>3
  <2> QED BY <1>4, <2>1
<1>6. Ahead \subseteq Nat
  BY <1>5
<1>7. DOMAIN t \subseteq Nat
  BY <1>2
<1>8. Ahead # {} => Min(Ahead) \in Ahead /\ \A k \in Ahead : Min(Ahead) <= k
  BY <1>6, MinIsLeast
<1>9. Ahead = { i \in DOMAIN t : lineNum < i /\ t[i].kind # "empty" }
  BY <1>2, <1>5
<1> QED BY <1>1, <1>3, <1>7, <1>8, <1>9

LEMMA KeptParsed ==
  ASSUME desktop \in Desktops, ParseTypeOK, NEW t, t = Text[desktop], Kept(t), Orderly(t), ParseLine
  PROVE  Kept(t)'
<1>1. PICK i : i = Min(Ahead)
  OBVIOUS
<1>2. /\ t \in Seq(Line) /\ DOMAIN t \subseteq Nat /\ lineNum \in Nat
      /\ i \in DOMAIN t /\ lineNum < i
      /\ \A k \in DOMAIN t : lineNum < k /\ t[k].kind # "empty" => i <= k
  BY <1>1, LinesTaken DEF ParseLine
<1>3. /\ parsing' = ParsingAfter(t[i]) /\ symbols' = SymbolsAfter(t[i])
      /\ modifiers' = ModifiersAfter(t[i]) /\ lineNum' = i
  BY <1>1 DEF ParseLine
<1>4. \A k \in DOMAIN t : lineNum < k /\ k < i => t[k].kind = "empty"
  BY <1>2
<1>5. /\ t[i] \in Line /\ i \in Nat
      /\ t[i].kind = "modifier" => t[i].mod \in Mod /\ t[i].names \in Seq(Name) /\ t[i].names # << >>
  <2>1. t[i] \in Line
    BY <1>2, LenProperties, ElementOfSeq
  <2> QED BY <1>2, <2>1, LineFields, DesktopAssumption
\* A line that was not there before is i itself, or empty.
<1>6. \A k \in KeyLines(t) \cup ModifierLines(t) : k <= i => k <= lineNum \/ k = i
  <2> SUFFICES ASSUME NEW k \in DOMAIN t, t[k].kind # "empty", k <= i
               PROVE  k <= lineNum \/ k = i
    BY DEF KeyLines, ModifierLines
  <2>1. ~(lineNum < k /\ k < i)
    BY <1>4
  <2> QED BY <1>2, <2>1
<1>7. parsing <=> InSection(t, i)
  <2>1. i \in DOMAIN t
    BY <1>2
  <2> QED BY <1>2, <1>4 DEF Kept, InSection
<1>8. parsing' <=> InSection(t, i + 1)
  BY <1>2, <1>3, <1>4, SectionAfter DEF Kept, ParsingAfter
\* The key lines: in the section, what they give is kept.
<1>9. \A k \in KeyLines(t) : k <= i => Slot(t[k].name) \in DOMAIN symbols'
  <2> SUFFICES ASSUME NEW k \in KeyLines(t), k <= i PROVE Slot(t[k].name) \in DOMAIN symbols'
    OBVIOUS
  <2>1. CASE k <= lineNum
    BY <1>3, <2>1 DEF Kept, SymbolsAfter
  <2>2. CASE k = i
    <3>1. parsing /\ t[i].kind = "key"
      BY <1>7, <2>2 DEF Orderly, KeyLines
    <3> QED BY <1>3, <2>2, <3>1 DEF SymbolsAfter
  <2> QED BY <1>6, <2>1, <2>2
<1>10. ASSUME NEW slot \in DOMAIN symbols'
       PROVE  \E k \in KeyLines(t) : Slot(t[k].name) = slot /\ symbols'[slot] = t[k].code
  <2>1. CASE parsing /\ t[i].kind = "key" /\ slot = Slot(t[i].name)
    <3>1. i \in KeyLines(t)
      BY <1>2, <2>1 DEF KeyLines
    <3>2. symbols'[slot] = t[i].code
      BY <1>3, <1>10, <2>1 DEF SymbolsAfter
    <3> QED BY <2>1, <3>1, <3>2
  <2>2. CASE ~(parsing /\ t[i].kind = "key" /\ slot = Slot(t[i].name))
    <3>1. slot \in DOMAIN symbols /\ symbols'[slot] = symbols[slot]
      BY <1>3, <1>10, <2>2 DEF SymbolsAfter
    <3> QED BY <3>1 DEF Kept
  <2> QED BY <2>1, <2>2
\* The modifier lines: outside of the section, the first name of each is kept.
<1>11. ASSUME t[i].kind = "modifier"
       PROVE  /\ i \in ModifierLines(t) /\ ~parsing
              /\ t[i].mod \in Mod /\ Head(t[i].names) # None
              /\ modifiers' = [modifiers EXCEPT ![t[i].mod] = Head(t[i].names)]
  <2>1. i \in ModifierLines(t)
    BY <1>2, <1>11 DEF ModifierLines
  <2>2. ~parsing
    BY <1>7, <2>1 DEF Orderly
  <2>3. Head(t[i].names) \in Name
    BY <1>5, <1>11, HeadTailProperties
  <2>4. Head(t[i].names) # None
    BY <2>3, NameAssumption
  <2> QED BY <1>3, <1>5, <1>11, <2>1, <2>2, <2>4 DEF ModifiersAfter
<1>12. t[i].kind # "modifier" => modifiers' = modifiers
  BY <1>3 DEF ModifiersAfter
<1>13. modifiers \in [Mod -> Name \cup {None}]
  BY DEF ParseTypeOK
<1>14. ASSUME NEW k \in ModifierLines(t), k <= i PROVE modifiers'[t[k].mod] # None
  <2>1. CASE k = i
    BY <1>11, <1>13, <1>14, <2>1 DEF ModifierLines
  <2>2. CASE k <= lineNum
    <3>1. modifiers[t[k].mod] # None
      BY <1>14, <2>2 DEF Kept
    <3>2. t[k].mod \in Mod
      <4>1. k \in DOMAIN t /\ t[k].kind = "modifier"
        BY DEF ModifierLines
      <4>2. t[k] \in Line
        BY <1>2, <4>1, LenProperties, ElementOfSeq
      <4> QED BY <4>1, <4>2, LineFields
    <3>3. CASE t[i].kind = "modifier"
      BY <1>11, <1>13, <3>1, <3>2, <3>3
    <3> QED BY <1>12, <3>1, <3>3
  <2> QED BY <1>6, <1>14, <2>1, <2>2
<1>15. ASSUME NEW m \in Mod, modifiers'[m] # None
       PROVE  \E k \in ModifierLines(t) : t[k].mod = m /\ modifiers'[m] = Head(t[k].names)
  <2>1. CASE t[i].kind = "modifier" /\ m = t[i].mod
    BY <1>11, <1>13, <2>1
  <2>2. CASE ~(t[i].kind = "modifier" /\ m = t[i].mod)
    <3>1. modifiers'[m] = modifiers[m]
      BY <1>11, <1>12, <1>13, <2>2
    <3> QED BY <1>15, <3>1 DEF Kept
  <2> QED BY <2>1, <2>2
<1> QED BY <1>3, <1>8, <1>9, <1>10, <1>14, <1>15 DEF Kept

LEMMA KeptResolved ==
  ASSUME desktop \in Desktops, ParseTypeOK, NEW t, t = Text[desktop], Kept(t), Orderly(t), NamesApart(t),
         Ahead = {}, NEW m \in Mod, NEW key,
         key = IF modifiers[m] # None /\ Slot(modifiers[m]) \in DOMAIN symbols
               THEN symbols[Slot(modifiers[m])] ELSE 0
  PROVE  IF KeysOf(m) = {} THEN key = 0 ELSE key \in KeysOf(m)
<1>1. \A k \in DOMAIN t : t[k].kind # "empty" => k <= lineNum
  <2>1. \A k \in DOMAIN t : t[k].kind # "empty" => ~(lineNum < k)
    BY LinesTaken
  <2>2. DOMAIN t \subseteq Nat /\ lineNum \in Nat
    BY LinesTaken
  <2> QED BY <2>1, <2>2
<1>2. \A k \in KeyLines(t) \cup ModifierLines(t) : k \in DOMAIN t /\ k <= lineNum
  BY <1>1 DEF KeyLines, ModifierLines
\* What the text gives to m.
<1>3. KeysOf(m) = { l.code : l \in { k \in ToSet(t) : k.kind = "key" /\ \E n \in ToSet(t) :
          n.kind = "modifier" /\ n.mod = m /\ k.name \in ToSet(n.names) } }
  BY DEF KeysOf, KeysIn
<1>4. ToSet(t) = { t[k] : k \in DOMAIN t }
  BY DEF ToSet
<1>5. CASE modifiers[m] = None
  <2>1. \A k \in ModifierLines(t) : t[k].mod # m
    BY <1>2, <1>5 DEF Kept
  <2>2. \A n \in ToSet(t) : ~(n.kind = "modifier" /\ n.mod = m)
    BY <1>4, <2>1 DEF ModifierLines
  <2>3. KeysOf(m) = {}
    BY <1>3, <2>2
  <2> QED BY <1>5, <2>3
<1>6. CASE modifiers[m] # None
  <2>1. PICK i \in ModifierLines(t) : t[i].mod = m /\ modifiers[m] = Head(t[i].names)
    BY <1>6 DEF Kept
  <2>2. PICK k \in KeyLines(t) : t[k].name = Head(t[i].names)
    BY DEF Orderly
  <2>3. PICK slot : slot = Slot(modifiers[m])
    OBVIOUS
  <2>4. slot \in DOMAIN symbols
    BY <1>2, <2>1, <2>2, <2>3 DEF Kept
  <2>5. PICK h \in KeyLines(t) : Slot(t[h].name) = slot /\ symbols[slot] = t[h].code
    BY <2>4 DEF Kept
  <2>6. t[h].name = Head(t[i].names)
    BY <2>1, <2>2, <2>3, <2>5 DEF NamesApart
  <2>7. key = t[h].code
    BY <1>6, <2>3, <2>4, <2>5
  <2>8. Head(t[i].names) \in ToSet(t[i].names)
    <3>1. i \in DOMAIN t /\ t[i].kind = "modifier" /\ t \in Seq(Line)
      BY LinesTaken DEF ModifierLines
    <3>2. t[i] \in Line
      BY <3>1, LenProperties, ElementOfSeq
    <3>3. t[i].names \in Seq(Name) /\ t[i].names # << >>
      BY <3>1, <3>2, LineFields, DesktopAssumption
    <3>4. 1 \in DOMAIN t[i].names /\ Head(t[i].names) = t[i].names[1]
      BY <3>3
    <3> QED BY <3>4 DEF ToSet
  <2>9. t[h] \in ToSet(t) /\ t[i] \in ToSet(t) /\ t[h].kind = "key" /\ t[i].kind = "modifier"
    BY <1>4 DEF KeyLines, ModifierLines
  <2>10. t[h].code \in KeysOf(m)
    BY <1>3, <2>1, <2>6, <2>8, <2>9
  <2> QED BY <2>7, <2>10
<1> QED BY <1>5, <1>6

\* Nothing of the text has been read before the keymap is there.
LEMMA ParseInvFetched ==
  ASSUME FetchOK', ParseInv, fetch # "fetched", UNCHANGED parse
  PROVE  ParseInv'
<1>1. ParseInit'
  BY DEF ParseInv, ParseInit, parse
<1>2. ModifiersResolved'
  BY <1>1 DEF ParseInit, ModifiersResolved
<1>3. ASSUME (fetch = "fetched")' PROVE Kept(Text[desktop])'
  <2>1. PICK t : t = Text[desktop']
    OBVIOUS
  <2>2. t \in Seq(Line)
    BY <1>3, <2>1, DesktopAssumption DEF FetchOK
  <2>3. /\ lineNum' = 0 /\ ~parsing' /\ DOMAIN symbols' = {}
        /\ \A m \in Mod : modifiers'[m] = None
    BY <1>1 DEF ParseInit
  <2>4. \A k \in DOMAIN t : ~(k < 1) /\ ~(k <= 0)
    BY <2>2, LenProperties
  <2>5. ~InSection(t, 0 + 1)
    BY <2>4 DEF InSection
  <2>6. \A k \in KeyLines(t) \cup ModifierLines(t) : ~(k <= 0)
    BY <2>4 DEF KeyLines, ModifierLines
  <2>7. Kept(t)'
    BY <2>3, <2>5, <2>6 DEF Kept
  <2> QED BY <2>1, <2>7 DEF Kept
<1> QED BY <1>1, <1>2, <1>3 DEF ParseInv

LEMMA ParseInvParsed ==
  ASSUME \A d \in Desktops : Orderly(Text[d]) /\ NamesApart(Text[d]), FetchOK, ScanOK, ParseInv,
         fetch = "fetched", ParseNext, UNCHANGED fetch
  PROVE  ParseInv'
<1>1. desktop \in Desktops /\ UNCHANGED desktop /\ ParseTypeOK
  BY DEF FetchOK, ScanOK, ParseNext
<1>2. PICK t : t = Text[desktop]
  OBVIOUS
<1>3. Orderly(t) /\ NamesApart(t) /\ Kept(t)
  BY <1>1, <1>2 DEF ParseInv
<1>4. CASE ParseLine
  <2>1. Kept(t)'
    BY <1>1, <1>2, <1>3, <1>4, KeptParsed
  <2>2. Kept(Text[desktop])'
    BY <1>1, <1>2, <2>1 DEF Kept
  <2>3. modkeys' = None
    BY <1>4 DEF ParseLine
  <2> QED BY <2>2, <2>3 DEF ParseInv, ModifiersResolved
<1>5. CASE Resolve
  <2>1. UNCHANGED <<lineNum, parsing, symbols, modifiers>> /\ Ahead = {}
    BY <1>5 DEF Resolve
  <2>2. Kept(Text[desktop])'
    BY <1>1, <2>1 DEF ParseInv, Kept
  <2>3. ASSUME NEW m \in Mod
        PROVE  IF KeysOf(m) = {} THEN modkeys'[m] = 0 ELSE modkeys'[m] \in KeysOf(m)
    <3>1. PICK key : key = IF modifiers[m] # None /\ Slot(modifiers[m]) \in DOMAIN symbols
                           THEN symbols[Slot(modifiers[m])] ELSE 0
      OBVIOUS
    <3>2. modkeys'[m] = key
      BY <1>5, <3>1 DEF Resolve
    <3> QED BY <1>1, <1>2, <1>3, <2>1, <3>1, <3>2, KeptResolved
  <2>4. ModifiersResolved'
    BY <1>1, <2>3 DEF ModifiersResolved, KeysOf
  <2> QED BY <1>1, <2>2, <2>4 DEF ParseInv
<1> QED BY <1>4, <1>5 DEF ParseNext

LEMMA ParseInvUnchanged ==
  ASSUME ParseInv, UNCHANGED <<fetch, desktop, parse>>
  PROVE  ParseInv'
<1>1. UNCHANGED <<fetch, desktop, lineNum, parsing, symbols, modifiers, modkeys>>
  BY DEF parse
<1> QED BY <1>1 DEF ParseInv, ParseInit, Kept, ModifiersResolved, KeysOf

LEMMA NextParseInv ==
  ASSUME \A d \in Desktops : Orderly(Text[d]) /\ NamesApart(Text[d]), IInv, IInv', ParseInv, [Next]_vars
  PROVE  ParseInv'
<1>1. FetchOK /\ FetchOK' /\ ScanOK
  BY DEF IInv
<1>2. CASE Fetch /\ UNCHANGED <<scan, parse>> /\ UNCHANGED device
  <2>1. fetch # "fetched" /\ UNCHANGED parse
    BY <1>2 DEF Fetch, Fail, FetchX11, Connect, OpenKeymap, Dispatch, DispatchGlobals,
                RoundtripGlobals, DispatchKeymap, RoundtripKeymap
  <2> QED BY <1>1, <2>1, ParseInvFetched
<1>3. CASE fetch = "fetched" /\ ScanNext /\ UNCHANGED <<fetching, parse>> /\ UNCHANGED device
  BY <1>3, ParseInvUnchanged DEF ScanNext, fetching
<1>4. CASE Scanned /\ ParseNext /\ UNCHANGED <<fetching, scan>> /\ UNCHANGED device
  BY <1>1, <1>4, ParseInvParsed DEF Scanned, fetching
<1>5. CASE Compositor /\ UNCHANGED <<scan, parse, device>>
  BY <1>5, ParseInvUnchanged DEF Compositor
<1>6. ASSUME NEW p \in Packets, Handle(p) PROVE ParseInv'
  BY <1>6, ParseInvUnchanged DEF Handle, startup, fetching
<1>7. CASE Emit
  BY <1>7, ParseInvUnchanged DEF Emit, startup, fetching
<1>8. CASE UNCHANGED vars
  BY <1>8, ParseInvUnchanged DEF vars, startup, fetching
<1> QED BY <1>2, <1>3, <1>4, <1>5, <1>6, <1>7, <1>8 DEF Next, Start

\* In the text of any keymap whose lines stand where libxkbcommon puts them, and among whose
\* names no two share a slot of the hash, the key found for a modifier is one that the keymap
\* gives to it, and one is found if there is any.
THEOREM ModifiersAreResolved ==
  ASSUME \A d \in Desktops : Orderly(Text[d]) /\ NamesApart(Text[d])
  PROVE  Spec => []ModifiersResolved
<1>1. Init => ParseInv
  BY DEF Init, FetchInit, ParseInit, ParseInv, ModifiersResolved
<1>2. IInv /\ IInv' /\ ParseInv /\ [Next]_vars => ParseInv'
  BY NextParseInv
<1>3. ParseInv => ModifiersResolved
  BY DEF ParseInv
<1> QED BY <1>1, <1>2, <1>3, DisplayInvariant, PTL DEF Spec

-----------------------------------------------------------------------------
(* A character. *)

\* The key that is put for a symbol produces it, and so do the modifiers, though on a key
\* that may be another one.
PutFor(s) ==
    /\ On(s, mapping[s].keycode)
    /\ \E k \in Keycode : \E m \in Mask :
          s \in Syms[desktop][k][m] /\ mapping[s].modifiers = Indices(m)

PutAsSeen == \A s \in Mapped : PutFor(s)

\* Of the chord of codes, n modifiers and a key, q is to come; d is pressed, b was before,
\* and t has been typed: nothing, until the press of the key.
Typing(q, d, b, t, codes, n, press) ==
    \E j \in 0 .. 2 * (n + 1) :
        /\ Len(q) + j = 2 * (n + 1)
        /\ \A i \in DOMAIN q : q[i] = Chord(codes)[i + j]
        /\ j <= n => t = << >> /\ d = b \cup { codes[i] : i \in 1 .. j }
        /\ n < j => t = <<press>>

Count(s) == Cardinality(mapping[s].modifiers)

\* The press of the key of s, its modifiers being pressed and b from before.
PressOf(s, b) == KeyPress(LinuxKeycode(mapping[s].keycode),
                          b \cup { LinuxKeycode(modkeys[m]) : m \in mapping[s].modifiers })

\* The handling of a packet to write s, no key having been held.
Writing(s) ==
    /\ packet.type = "WRITE" /\ packet.sym = s /\ before \subseteq Button
    /\ OnOneKey(s) /\ \A m \in Mod : KeysOf(m) # {}

WriteGoesOn == \A s \in Sym : Writing(s) =>
    IF mapping[s] = None THEN typed = << >> /\ todo = << >>
    ELSE Typing(todo, down, before, typed, Written(s), Count(s), PressOf(s, before))

WriteInv == PutAsSeen /\ WriteGoesOn

LEMMA TypingStep ==
  ASSUME NEW codes \in Seq(Codomain), NEW n \in Nat, Len(codes) = n + 1, NEW mods,
         \A i \in 1 .. n : codes[i] \in 0 .. 254 /\ codes[i] \in mods,
         codes[n + 1] \in 0 .. 254, codes[n + 1] \notin mods,
         NEW q \in Seq(Input), q # << >>, NEW d, NEW b, b \subseteq mods, NEW t, NEW press,
         Typing(q, d, b, t, codes, n, press),
         NEW t2,
         IF Head(q).type = "key" /\ ~(Pressed(d, Head(q)) \ d \subseteq mods)
         THEN \E p : /\ t2 = Append(t, p)
                     /\ Head(q).code = codes[n + 1] /\ d = b \cup { codes[i] : i \in 1 .. n } => p = press
         ELSE t2 = t
  PROVE  Typing(Tail(q), Pressed(d, Head(q)), b, t2, codes, n, press)
<1>1. PICK l, u, h, c : l = Len(q) /\ u = Tail(q) /\ h = Head(q) /\ c = Chord(codes)
  OBVIOUS
<1>2. /\ l \in Nat \ {0} /\ DOMAIN q = 1 .. l /\ q[1] = h
      /\ Len(u) = l - 1 /\ DOMAIN u = 1 .. l - 1 /\ \A i \in 1 .. l - 1 : u[i] = q[i + 1]
  BY <1>1, TailPlaces
<1>3. Chorded(c, codes, n + 1)
  BY <1>1, ChordShape
<1>4. PICK j \in 0 .. 2 * (n + 1) :
        /\ l + j = 2 * (n + 1)
        /\ \A i \in 1 .. l : q[i] = c[i + j]
        /\ j <= n => t = << >> /\ d = b \cup { codes[i] : i \in 1 .. j }
        /\ n < j => t = <<press>>
  BY <1>1, <1>2 DEF Typing
<1>5. h = c[1 + j] /\ j \in Nat /\ j + 1 \in 0 .. 2 * (n + 1) /\ (l - 1) + (j + 1) = 2 * (n + 1)
  <2>1. l \in Nat \ {0} /\ j \in 0 .. 2 * (n + 1) /\ l + j = 2 * (n + 1)
    BY <1>2, <1>4
  <2>2. j \in Nat /\ j + 1 \in 0 .. 2 * (n + 1) /\ (l - 1) + (j + 1) = 2 * (n + 1) /\ 1 \in 1 .. l
    BY <2>1
  <2>3. q[1] = c[1 + j]
    BY <1>4, <2>2
  <2> QED BY <1>2, <2>2, <2>3
<1>6. ASSUME NEW i \in DOMAIN u PROVE u[i] = c[i + (j + 1)]
  <2>1. i \in 1 .. l - 1
    BY <1>2
  <2>2. l \in Nat /\ j \in Nat
    BY <1>2, <1>5
  <2>3. i \in Int /\ i + 1 \in 1 .. l
    BY <2>1, <2>2
  <2>4. u[i] = q[i + 1] /\ (i + 1) + j = i + (j + 1)
    <3>1. u[i] = q[i + 1]
      BY <1>2, <2>1
    <3>2. (i + 1) + j = i + (j + 1)
      BY <2>2, <2>3
    <3> QED BY <3>1, <3>2
  <2> QED BY <1>4, <2>3, <2>4
<1>7. ASSUME /\ j + 1 <= n => t2 = << >> /\ Pressed(d, h) = b \cup { codes[i] : i \in 1 .. j + 1 }
             /\ n < j + 1 => t2 = <<press>>
      PROVE  Typing(u, Pressed(d, h), b, t2, codes, n, press)
  BY <1>1, <1>2, <1>5, <1>6, <1>7 DEF Typing
<1>8. CASE j < n
  <2>1. j + 1 \in 1 .. n /\ j + 1 \in 1 .. n + 1 /\ 1 + j = j + 1 /\ j <= n /\ ~(n < j + 1)
    BY <1>5, <1>8
  <2>2. h = Press(codes[j + 1]) /\ codes[j + 1] \in Supported /\ codes[j + 1] \in mods
    BY <1>3, <1>5, <2>1 DEF Chorded, Supported
  <2>3. Pressed(d, h) = d \cup {codes[j + 1]}
    BY <2>2 DEF Pressed, Press
  <2>4. t2 = << >>
    BY <1>1, <1>4, <2>1, <2>2, <2>3
  <2>5. \A i : i \in 1 .. j + 1 <=> i \in 1 .. j \/ i = j + 1
    BY <1>5
  <2>6. Pressed(d, h) = b \cup { codes[i] : i \in 1 .. j + 1 }
    BY <1>4, <2>1, <2>3, <2>5
  <2> QED BY <1>1, <1>7, <2>1, <2>4, <2>6
<1>9. CASE j = n
  <2>1. n + 1 \in 1 .. n + 1 /\ 1 + j = n + 1 /\ j <= n /\ ~(j + 1 <= n)
    BY <1>9
  <2>2. h = Press(codes[n + 1])
    BY <1>3, <1>5, <2>1 DEF Chorded
  <2>3. h.code = codes[n + 1] /\ h.type = "key"
    BY <2>2 DEF Press
  <2>4. t = << >> /\ d = b \cup { codes[i] : i \in 1 .. n }
    BY <1>4, <1>9, <2>1
  <2>5. t2 = Append(<< >>, press)
    <3>1. codes[n + 1] \notin d /\ codes[n + 1] \in Supported
      BY <2>4 DEF Supported
    <3>2. Pressed(d, h) = d \cup {codes[n + 1]}
      BY <2>2, <3>1 DEF Pressed, Press
    <3>3. ~(Pressed(d, h) \ d \subseteq mods)
      BY <3>1, <3>2
    <3> QED BY <1>1, <2>3, <2>4, <3>3
  <2>6. Append(<< >>, press) = <<press>>
    OBVIOUS
  <2> QED BY <1>1, <1>7, <2>1, <2>5, <2>6
<1>10. CASE n < j
  <2>1. PICK i \in 1 .. n + 1 : 1 + j = (n + 1) + i
    <3>1. j - n \in 1 .. n + 1 /\ 1 + j = (n + 1) + (j - n)
      BY <1>5, <1>10
    <3> QED BY <3>1
  <2>2. PICK x : h = Release(x)
    BY <1>3, <1>5, <2>1 DEF Chorded
  <2>3. Pressed(d, h) \ d = {}
    BY <2>2 DEF Pressed, Release
  <2>4. t2 = t
    BY <1>1, <2>3
  <2>5. ~(j + 1 <= n)
    BY <1>5, <1>10
  <2> QED BY <1>1, <1>4, <1>7, <1>10, <2>4, <2>5
<1> QED BY <1>5, <1>8, <1>9, <1>10

\* An ascending sequence as long as a set of numbers has all of them.
LEMMA AscendingOnto ==
  ASSUME NEW S, S \subseteq Nat, IsFiniteSet(S),
         NEW f \in [1 .. Cardinality(S) -> S], \A i, j \in DOMAIN f : i < j => f[i] < f[j]
  PROVE  { f[i] : i \in 1 .. Cardinality(S) } = S
<1>1. PICK n \in Nat : n = Cardinality(S)
  BY FS_CardinalityType
<1>2. PICK T : T = { f[i] : i \in 1 .. n }
  OBVIOUS
<1>3. /\ f \in [1 .. n -> S] /\ T \subseteq S
      /\ \A i, j \in 1 .. n : i < j => f[i] < f[j]
  BY <1>1, <1>2
<1>4. f \in Injection(1 .. n, T)
  <2>1. f \in [1 .. n -> T]
    BY <1>2, <1>3
  <2>2. ASSUME NEW i \in 1 .. n, NEW j \in 1 .. n, f[i] = f[j] PROVE i = j
    <3>1. f[i] \in Nat /\ f[j] \in Nat
      BY <1>3
    <3>2. i < j => f[i] < f[j]
      BY <1>3
    <3>3. j < i => f[j] < f[i]
      BY <1>3
    <3> QED BY <2>2, <3>1, <3>2, <3>3
  <2> QED BY <2>1, <2>2 DEF Injection, IsInjective
<1>5. f \in Surjection(1 .. n, T)
  BY <1>2, <1>3 DEF Surjection
<1>6. ExistsBijection(1 .. n, T)
  BY <1>4, <1>5 DEF Bijection, ExistsBijection
<1>7. IsFiniteSet(T) /\ Cardinality(T) = n
  BY <1>3, <1>6, FS_CountingElements, FS_Subset
<1>8. T = S
  BY <1>1, <1>3, <1>7, FS_Subset
<1> QED BY <1>1, <1>2, <1>8

\* What writes s: the keys of its modifiers, in some order, then its key.
Spells(codes, n, s) ==
    /\ n \in Nat /\ codes \in Seq(Codomain) /\ Len(codes) = n + 1
    /\ codes[n + 1] = LinuxKeycode(mapping[s].keycode)
    /\ { codes[i] : i \in 1 .. n } = { LinuxKeycode(modkeys[m]) : m \in mapping[s].modifiers }

LEMMA WrittenSpells ==
  ASSUME ScanTypeOK, ParseTypeOK, Ready, NEW s \in Mapped
  PROVE  Spells(Written(s), Count(s), s)
<1>1. s \in Sym /\ mapping[s] # None
  BY DEF Mapped
<1>2. mapping[s].keycode \in Keycode /\ mapping[s].modifiers \in SUBSET Mod
  <2>1. mapping[s] \in [keycode : Keycode, modifiers : SUBSET Mod]
    BY <1>1 DEF ScanTypeOK
  <2> QED BY <2>1
<1>3. PICK S, n : S = mapping[s].modifiers /\ n = Cardinality(S)
  OBVIOUS
<1>4. S \subseteq Mod /\ IsFiniteSet(S) /\ S \subseteq Nat /\ n \in Nat
  BY <1>2, <1>3, ModFacts
<1>5. PICK f : f = Modifiers(s)
  OBVIOUS
<1>6. f \in [1 .. n -> S] /\ \A i, j \in DOMAIN f : i < j => f[i] < f[j]
  <2>1. \E g \in [1 .. Cardinality(S) -> S] : \A i, j \in DOMAIN g : i < j => g[i] < g[j]
    BY <1>4, AscendingExists
  <2>2. \E g \in [1 .. n -> S] : \A i, j \in DOMAIN g : i < j => g[i] < g[j]
    BY <1>3, <2>1
  <2>3. f = CHOOSE g \in [1 .. n -> S] : \A i, j \in DOMAIN g : i < j => g[i] < g[j]
    BY <1>3, <1>5 DEF Modifiers
  <2> QED BY <2>2, <2>3
<1>7. { f[i] : i \in 1 .. n } = S
  BY <1>3, <1>4, <1>6, AscendingOnto
<1>8. PICK a : a = [i \in 1 .. n |-> LinuxKeycode(modkeys[f[i]])]
  OBVIOUS
<1>9. ModifierCodes(s) = a
  BY <1>5, <1>6, <1>8 DEF ModifierCodes
<1>10. a \in Seq(Codomain) /\ Len(a) = n
  <2>1. \A m \in Mod : modkeys[m] \in Keycode \cup {0}
    BY DEF ParseTypeOK, Ready
  <2>2. \A i \in 1 .. n : LinuxKeycode(modkeys[f[i]]) \in Codomain
    BY <1>4, <1>6, <2>1, CodeSets
  <2>3. a \in Seq(Codomain)
    BY <1>4, <1>8, <2>2, IsASeq
  <2> QED BY <1>4, <1>8, <2>3, LenProperties
<1>11. PICK c \in Codomain : c = LinuxKeycode(mapping[s].keycode)
  BY <1>2, CodeSets
<1>12. PICK w : w = a \o <<c>>
  OBVIOUS
<1>13. Written(s) = w
  BY <1>1, <1>9, <1>11, <1>12 DEF Written, WriteCodes
<1>14. /\ w \in Seq(Codomain) /\ Len(w) = n + 1 /\ w[n + 1] = c
       /\ \A i \in 1 .. n : w[i] = a[i]
  <2>1. <<c>> \in Seq(Codomain) /\ Len(<<c>>) = 1 /\ <<c>>[1] = c
    BY SingletonSeq
  <2>2. /\ w \in Seq(Codomain) /\ DOMAIN a = 1 .. n /\ DOMAIN <<c>> = 1 .. 1
        /\ DOMAIN w = 1 .. n + 1
        /\ \A i \in 1 .. n : w[i] = a[i]
        /\ w[n + 1] = <<c>>[1]
    <3>1. PICK b : b = <<c>>
      OBVIOUS
    <3>2. b \in Seq(Codomain) /\ Len(b) = 1 /\ b[1] = c /\ w = a \o b
      BY <1>12, <2>1, <3>1
    <3>3. PICK v : v = a \o b
      OBVIOUS
    <3>4. /\ v \in Seq(Codomain) /\ DOMAIN a = 1 .. Len(a) /\ DOMAIN b = 1 .. Len(b)
          /\ DOMAIN v = 1 .. Len(a) + Len(b)
          /\ \A i \in DOMAIN a : v[i] = a[i]
          /\ \A i \in DOMAIN b : v[Len(a) + i] = b[i]
      BY <1>10, <3>2, <3>3, Places
    <3>5. /\ w \in Seq(Codomain) /\ DOMAIN a = 1 .. n /\ DOMAIN b = 1 .. 1
          /\ DOMAIN w = 1 .. n + 1
          /\ \A i \in DOMAIN a : w[i] = a[i]
          /\ \A i \in DOMAIN b : w[n + i] = b[i]
      BY <1>10, <3>2, <3>3, <3>4
    <3> QED BY <3>1, <3>5
  <2>3. Len(w) = n + 1
    BY <1>4, <2>2, LenProperties
  <2> QED BY <2>1, <2>2, <2>3
<1>15. { w[i] : i \in 1 .. n } = { LinuxKeycode(modkeys[m]) : m \in S }
  <2>1. \A i \in 1 .. n : w[i] = LinuxKeycode(modkeys[f[i]])
    BY <1>8, <1>14
  <2> QED BY <1>6, <1>7, <2>1
<1> QED BY <1>3, <1>4, <1>11, <1>13, <1>14, <1>15 DEF Spells, Count

LEMMA KeysAreKeycodes ==
  ASSUME NEW d \in Desktops, NEW m \in Mod
  PROVE  KeysIn[d][m] \subseteq Keycode
<1>1. PICK t : t = Text[d]
  OBVIOUS
<1>2. KeysIn[d][m] = { l.code : l \in { k \in ToSet(t) : k.kind = "key" /\ \E n \in ToSet(t) :
          n.kind = "modifier" /\ n.mod = m /\ k.name \in ToSet(n.names) } }
  BY <1>1 DEF KeysIn
<1>3. \A l \in ToSet(t) : l \in Line
  <2>1. t \in Seq(Line)
    BY <1>1, DesktopAssumption
  <2>2. \A i \in DOMAIN t : t[i] \in Line
    BY <2>1, LenProperties, ElementOfSeq
  <2> QED BY <2>2 DEF ToSet
<1>4. \A l \in ToSet(t) : l.kind = "key" => l.code \in Keycode
  BY <1>3, LineFields
<1> QED BY <1>2, <1>4

\* On a regular keyboard, the keys of the modifiers of s hold these, and no others.
LEMMA ModifiersHeld ==
  ASSUME desktop \in Desktops, Regular(desktop), ScanTypeOK, ParseTypeOK, Ready, ModifiersResolved,
         \A m \in Mod : KeysOf(m) # {}, NEW s \in Mapped
  PROVE  /\ \A m \in mapping[s].modifiers :
               /\ m \in Mod /\ modkeys[m] \in KeysOf(m)
               /\ LinuxKeycode(modkeys[m]) \in 0 .. 254 /\ LinuxKeycode(modkeys[m]) \in ModCodes
         /\ \A b \in SUBSET Button :
               HeldMods(b \cup { LinuxKeycode(modkeys[m]) : m \in mapping[s].modifiers })
                  = mapping[s].modifiers
<1>1. PICK S : S = mapping[s].modifiers
  OBVIOUS
<1>2. S \in SUBSET Mod
  <2>1. mapping[s] \in [keycode : Keycode, modifiers : SUBSET Mod]
    BY DEF ScanTypeOK, Mapped
  <2> QED BY <1>1, <2>1
<1>3. \A m \in Mod : modkeys[m] \in KeysOf(m)
  BY DEF ModifiersResolved, Ready
<1>4. \A m \in Mod : \A k \in KeysOf(m) : k \in Nat /\ LinuxKeycode(k) \in 0 .. 254
  BY KeysAreKeycodes, KeycodeAssumption DEF KeysOf, Regular
<1>5. \A m, n \in Mod : \A k \in KeysOf(m) : k \in KeysOf(n) => m = n
  BY DEF KeysOf, Regular
<1>6. \A m \in Mod : \A k \in KeysOf(m) : LinuxKeycode(k) \in ModCodes
  BY DEF ModCodes
<1>7. ASSUME NEW b \in SUBSET Button
      PROVE  HeldMods(b \cup { LinuxKeycode(modkeys[m]) : m \in S }) = S
  <2>1. PICK D : D = b \cup { LinuxKeycode(modkeys[m]) : m \in S }
    OBVIOUS
  <2>2. ASSUME NEW m \in S PROVE m \in Mod /\ \E k \in KeysOf(m) : LinuxKeycode(k) \in D
    BY <1>2, <1>3, <2>1
  <2>3. ASSUME NEW m \in Mod, NEW k \in KeysOf(m), LinuxKeycode(k) \in D PROVE m \in S
    <3>1. LinuxKeycode(k) \notin b
      BY <1>4, ButtonAssumption
    <3>2. PICK n \in S : LinuxKeycode(k) = LinuxKeycode(modkeys[n])
      BY <2>1, <2>3, <3>1
    <3>3. n \in Mod /\ modkeys[n] \in KeysOf(n) /\ modkeys[n] \in Nat /\ k \in Nat
      BY <1>2, <1>3, <1>4
    <3>4. k = modkeys[n]
      BY <3>2, <3>3 DEF LinuxKeycode
    <3> QED BY <1>5, <3>3, <3>4
  <2>4. HeldMods(D) = { m \in Mod : \E k \in KeysOf(m) : LinuxKeycode(k) \in D }
    BY DEF HeldMods
  <2>5. HeldMods(D) = S
    BY <2>2, <2>3, <2>4
  <2> QED BY <2>1, <2>5
<1> QED BY <1>1, <1>2, <1>3, <1>4, <1>6, <1>7

\* The one key of a symbol that types is the one put for it, under the modifiers put for it.
LEMMA SymbolPut ==
  ASSUME MasksAreBinary, ScanTypeOK, NEW s \in Mapped, PutFor(s), OnOneKey(s)
  PROVE  /\ mapping[s].keycode \in TypingKeys
         /\ s \in Syms[desktop][mapping[s].keycode][Held(mapping[s].modifiers)]
<1>1. mapping[s].keycode \in Keycode
  <2>1. mapping[s] \in [keycode : Keycode, modifiers : SUBSET Mod]
    BY DEF ScanTypeOK, Mapped
  <2> QED BY <2>1
<1>2. PICK k \in Keycode, m \in Mask :
         s \in Syms[desktop][k][m] /\ mapping[s].modifiers = Indices(m)
  BY DEF PutFor
<1>3. PICK only \in TypingKeys : \A l \in Keycode : On(s, l) <=> l = only
  BY DEF OnOneKey
<1>4. mapping[s].keycode = only
  BY <1>1, <1>3 DEF PutFor
<1>5. k = only
  BY <1>2, <1>3 DEF On
<1>6. Held(mapping[s].modifiers) = m
  BY <1>2 DEF MasksAreBinary
<1> QED BY <1>2, <1>3, <1>4, <1>5, <1>6

\* The scan.
LEMMA PutAsSeenScanned ==
  ASSUME ScanTypeOK, PutAsSeen, desktop \in Desktops, Scan, UNCHANGED desktop
  PROVE  PutAsSeen'
<1>1. PICK m \in Mask :
        /\ keycode \in Keycode
        /\ \A s \in Sym \ Syms[desktop][keycode][m] : mapping'[s] = mapping[s]
        /\ \A s \in Syms[desktop][keycode][m] :
              /\ s \in Sym
              /\ mapping'[s].keycode = IF mapping[s] = None THEN keycode ELSE mapping[s].keycode
              /\ \/ mapping'[s].modifiers = Indices(m)
                 \/ mapping[s] # None /\ mapping'[s].modifiers = mapping[s].modifiers
  BY ScanStep
<1>2. PICK S : S = Syms[desktop][keycode][m]
  OBVIOUS
<1>3. \A s \in Sym : mapping[s] # None => PutFor(s)
  BY DEF PutAsSeen, Mapped
<1> SUFFICES ASSUME NEW s \in Sym, mapping'[s] # None PROVE PutFor(s)'
  BY DEF PutAsSeen, Mapped
<1>4. CASE s \notin S
  <2>1. mapping'[s] = mapping[s]
    BY <1>1, <1>2, <1>4
  <2>2. PutFor(s)
    BY <1>3, <2>1
  <2> QED BY <2>1, <2>2 DEF PutFor, On
<1>5. CASE s \in S
  <2>1. On(s, mapping'[s].keycode)
    <3>1. CASE mapping[s] = None
      <4>1. mapping'[s].keycode = keycode
        BY <1>1, <1>2, <1>5, <3>1
      <4> QED BY <1>1, <1>2, <1>5, <4>1 DEF On
    <3>2. CASE mapping[s] # None
      <4>1. mapping'[s].keycode = mapping[s].keycode
        BY <1>1, <1>2, <1>5, <3>2
      <4> QED BY <1>3, <3>2, <4>1 DEF PutFor
    <3> QED BY <3>1, <3>2
  <2>2. \E k \in Keycode : \E n \in Mask :
           s \in Syms[desktop][k][n] /\ mapping'[s].modifiers = Indices(n)
    <3>1. CASE mapping'[s].modifiers = Indices(m)
      BY <1>1, <1>2, <1>5, <3>1
    <3>2. CASE mapping[s] # None /\ mapping'[s].modifiers = mapping[s].modifiers
      BY <1>3, <3>2 DEF PutFor
    <3> QED BY <1>1, <1>2, <1>5, <3>1, <3>2
  <2> QED BY <2>1, <2>2 DEF PutFor, On
<1> QED BY <1>4, <1>5

LEMMA PutAsSeenUnchanged ==
  ASSUME PutAsSeen, UNCHANGED <<mapping, desktop>>
  PROVE  PutAsSeen'
BY DEF PutAsSeen, PutFor, On, Mapped

\* What writes a symbol stays what it is once the display is ready.
LEMMA WritingStays ==
  ASSUME UNCHANGED <<desktop, mapping, modkeys>>, NEW s, NEW b
  PROVE  /\ Written(s)' = Written(s) /\ Count(s)' = Count(s) /\ PressOf(s, b)' = PressOf(s, b)
         /\ \A m : KeysOf(m)' = KeysOf(m)
         /\ OnOneKey(s)' <=> OnOneKey(s)
<1>1. \A m : KeysOf(m)' = KeysOf(m)
  BY DEF KeysOf
<1>2. Count(s)' = Count(s)
  BY DEF Count
<1>3. \A c, d : KeyPress(c, d)' = KeyPress(c, d)
  BY DEF KeyPress, HeldMods, KeysOf
<1>4. PressOf(s, b)' = PressOf(s, b)
  BY DEF PressOf, KeyPress, HeldMods, KeysOf
<1>5. Modifiers(s)' = Modifiers(s)
  BY DEF Modifiers
<1>6. ModifierCodes(s)' = ModifierCodes(s)
  BY <1>5 DEF ModifierCodes
<1>7. Written(s)' = Written(s)
  BY <1>6 DEF Written, WriteCodes
<1>8. TypingKeys' = TypingKeys
  BY <1>1 DEF TypingKeys
<1>9. OnOneKey(s)' <=> OnOneKey(s)
  BY <1>8 DEF OnOneKey, On
<1> QED BY <1>1, <1>2, <1>4, <1>7, <1>9

\* A packet comes.
LEMMA WriteHandled ==
  ASSUME ScanTypeOK, ParseTypeOK, NEW p \in Packets, Handle(p)
  PROVE  WriteGoesOn'
<1>1. /\ Ready /\ packet' = p /\ todo' = Events(p) /\ down' = down /\ before' = down /\ typed' = << >>
      /\ UNCHANGED <<desktop, mapping, modkeys>>
  BY DEF Handle, startup, scan, parse
<1> SUFFICES ASSUME NEW s \in Sym, Writing(s)'
             PROVE  (IF mapping[s] = None THEN typed = << >> /\ todo = << >>
                     ELSE Typing(todo, down, before, typed, Written(s), Count(s), PressOf(s, before)))'
  BY DEF WriteGoesOn
<1>2. p.type = "WRITE" /\ p.sym = s
  BY <1>1 DEF Writing
<1>3. PICK codes : codes = Written(s)
  OBVIOUS
<1>4. PICK q : q = Chord(codes)
  OBVIOUS
<1>5. todo' = q /\ codes \in Seq(Codomain)
  BY <1>1, <1>2, <1>3, <1>4, WrittenTyped DEF Events, Codes
<1>6. Chorded(q, codes, Len(codes))
  BY <1>4, <1>5, ChordShape
<1>7. CASE mapping[s] = None
  <2>1. codes = << >>
    BY <1>3, <1>7 DEF Written
  <2>2. q \in Seq(Input) /\ Len(q) = 0
    BY <1>6, <2>1 DEF Chorded
  <2>3. q = << >>
    BY <2>2, EmptySeq
  <2> QED BY <1>1, <1>5, <1>7, <2>3
<1>8. CASE mapping[s] # None
  <2>1. PICK n : n = Count(s)
    OBVIOUS
  <2>2. n \in Nat /\ Len(codes) = n + 1
    <3>1. Spells(codes, n, s)
      BY <1>1, <1>3, <1>8, <2>1, WrittenSpells DEF Mapped
    <3> QED BY <3>1 DEF Spells
  <2>3. Len(q) + 0 = 2 * (n + 1) /\ DOMAIN q = 1 .. (n + 1) + (n + 1)
    BY <1>6, <2>2 DEF Chorded
  <2>4. \A i \in DOMAIN q : q[i] = q[i + 0]
    BY <2>2, <2>3
  <2>5. 0 \in 0 .. 2 * (n + 1) /\ ~(n < 0)
    BY <2>2
  <2>6. down = down \cup { codes[i] : i \in 1 .. 0 }
    OBVIOUS
  <2>7. ASSUME NEW b, NEW press PROVE Typing(q, down, b, << >>, codes, n, press) \/ b # down
    BY <1>4, <2>3, <2>4, <2>5, <2>6 DEF Typing
  <2>8. PICK d : d = down
    OBVIOUS
  <2>9. Typing(q, d, d, << >>, codes, n, PressOf(s, d))
    BY <2>7, <2>8
  <2>10. Written(s)' = codes /\ Count(s)' = n /\ PressOf(s, d)' = PressOf(s, d)
    BY <1>1, <1>3, <2>1, WritingStays
  <2>11. Typing(todo, down, before, typed, Written(s), Count(s), PressOf(s, d))'
    BY <1>1, <1>5, <2>8, <2>9, <2>10
  <2> QED BY <1>1, <1>8, <2>8, <2>11
<1> QED BY <1>7, <1>8

\* An event is written.
LEMMA WriteEmitted ==
  ASSUME desktop \in Desktops, Regular(desktop), ScanTypeOK, ParseTypeOK, InTurn, ModifiersResolved,
         DeviceTypeOK, PutAsSeen, WriteGoesOn, Emit
  PROVE  WriteGoesOn'
<1>1. /\ todo # << >> /\ todo \in Seq(Input) /\ todo' = Tail(todo)
      /\ EmitKey(Head(todo)) \/ EmitWheel(Head(todo))
      /\ UNCHANGED <<packet, before, desktop, mapping, modkeys>>
  BY DEF Emit, DeviceTypeOK, startup, scan, parse
<1> SUFFICES ASSUME NEW s \in Sym, Writing(s)'
             PROVE  (IF mapping[s] = None THEN typed = << >> /\ todo = << >>
                     ELSE Typing(todo, down, before, typed, Written(s), Count(s), PressOf(s, before)))'
  BY DEF WriteGoesOn
<1>2. /\ packet.type = "WRITE" /\ before \subseteq Button
      /\ OnOneKey(s) /\ \A m \in Mod : KeysOf(m) # {}
  BY <1>1, WritingStays DEF Writing
<1>3. Writing(s)
  BY <1>1, <1>2 DEF Writing
<1>4. Ready
  BY <1>2 DEF InTurn, NoPacket
<1>5. mapping[s] # None
  BY <1>1, <1>3 DEF WriteGoesOn
<1>6. s \in Mapped
  BY <1>5 DEF Mapped
<1>7. PICK q, d, b, t, codes, n, press :
         /\ q = todo /\ d = down /\ b = before /\ t = typed
         /\ codes = Written(s) /\ n = Count(s) /\ press = PressOf(s, before)
  OBVIOUS
<1>8. Typing(q, d, b, t, codes, n, press)
  BY <1>3, <1>5, <1>7 DEF WriteGoesOn
<1>9. Spells(codes, n, s)
  BY <1>4, <1>6, <1>7, WrittenSpells
<1>10. PICK mods : mods = ModCodes \cup Button
  OBVIOUS
<1>11. \A i \in 1 .. n : codes[i] \in 0 .. 254 /\ codes[i] \in mods
  <2>1. \A m \in mapping[s].modifiers :
           LinuxKeycode(modkeys[m]) \in 0 .. 254 /\ LinuxKeycode(modkeys[m]) \in ModCodes
    BY <1>2, <1>4, <1>6, ModifiersHeld
  <2>2. \A i \in 1 .. n : codes[i] \in { LinuxKeycode(modkeys[m]) : m \in mapping[s].modifiers }
    BY <1>9 DEF Spells
  <2> QED BY <1>10, <2>1, <2>2
\* The key itself is registered, and is neither a button nor a modifier.
<1>20. codes[n + 1] \in 0 .. 254 /\ codes[n + 1] \notin mods
  <2>1. PICK k \in TypingKeys : k = mapping[s].keycode
    <3>1. mapping[s] \in [keycode : Keycode, modifiers : SUBSET Mod]
      BY <1>6 DEF ScanTypeOK, Mapped
    <3>2. PutFor(s) /\ OnOneKey(s) /\ mapping[s].keycode \in Keycode
      BY <1>2, <1>6, <3>1 DEF PutAsSeen
    <3> QED BY <3>2 DEF PutFor, OnOneKey
  <2>2. /\ k \in Keycode /\ k \in Nat /\ LinuxKeycode(k) \in 0 .. 254
        /\ \A m \in Mod : k \notin KeysOf(m)
    BY KeycodeFacts DEF TypingKeys
  <2>3. ASSUME NEW m \in Mod, NEW l \in KeysOf(m) PROVE LinuxKeycode(l) # LinuxKeycode(k)
    <3>1. l \in Nat /\ l # k
      BY <2>2, KeysAreKeycodes, KeycodeFacts DEF KeysOf
    <3> QED BY <2>2, <3>1 DEF LinuxKeycode
  <2>4. LinuxKeycode(k) \notin ModCodes
    BY <2>3 DEF ModCodes
  <2>5. LinuxKeycode(k) \notin Button
    BY <2>2, ButtonAssumption
  <2>6. codes[n + 1] = LinuxKeycode(k)
    BY <1>9, <2>1 DEF Spells
  <2> QED BY <1>10, <2>2, <2>4, <2>5, <2>6
<1>12. PICK h : h = Head(q)
  OBVIOUS
<1>13. down' = Pressed(d, h)
  BY <1>1, <1>7, <1>12 DEF EmitKey, EmitWheel, Pressed
<1>14. IF h.type = "key" /\ ~(Pressed(d, h) \ d \subseteq mods)
       THEN typed' = Append(t, KeyPress(h.code, d))
       ELSE typed' = t
  BY <1>1, <1>7, <1>10, <1>12, <1>13 DEF EmitKey, EmitWheel
<1>15. h.code = codes[n + 1] /\ d = b \cup { codes[i] : i \in 1 .. n } => KeyPress(h.code, d) = press
  BY <1>7, <1>9 DEF Spells, PressOf
<1>16. PICK t2 : t2 = typed'
  OBVIOUS
<1>17. Typing(Tail(q), Pressed(d, h), b, t2, codes, n, press)
  <2>1. IF h.type = "key" /\ ~(Pressed(d, h) \ d \subseteq mods)
        THEN \E p : /\ t2 = Append(t, p)
                    /\ h.code = codes[n + 1] /\ d = b \cup { codes[i] : i \in 1 .. n } => p = press
        ELSE t2 = t
    BY <1>14, <1>15, <1>16
  <2>2. codes \in Seq(Codomain) /\ n \in Nat /\ Len(codes) = n + 1
    BY <1>9 DEF Spells
  <2>3. q \in Seq(Input) /\ q # << >>
    BY <1>1, <1>7
  <2>4. b \subseteq mods
    BY <1>2, <1>7, <1>10
  <2> QED BY <1>8, <1>11, <1>12, <1>20, <2>1, <2>2, <2>3, <2>4, TypingStep
<1>18. Written(s)' = codes /\ Count(s)' = n /\ PressOf(s, b)' = press
  BY <1>1, <1>7, WritingStays
<1>19. Typing(todo, down, before, typed, Written(s), Count(s), PressOf(s, b))'
  BY <1>1, <1>7, <1>13, <1>16, <1>17, <1>18
<1> QED BY <1>1, <1>5, <1>7, <1>19

LEMMA WriteGoesOnUnchanged ==
  ASSUME WriteGoesOn, UNCHANGED device, UNCHANGED <<desktop, mapping, modkeys>>
  PROVE  WriteGoesOn'
<1>1. UNCHANGED <<todo, down, before, typed, packet>>
  BY DEF device
<1> SUFFICES ASSUME NEW s \in Sym, Writing(s)'
             PROVE  (IF mapping[s] = None THEN typed = << >> /\ todo = << >>
                     ELSE Typing(todo, down, before, typed, Written(s), Count(s), PressOf(s, before)))'
  BY DEF WriteGoesOn
<1>2. PICK b : b = before
  OBVIOUS
<1>3. Writing(s)
  BY <1>1, WritingStays DEF Writing
<1>4. CASE mapping[s] = None
  BY <1>1, <1>3, <1>4 DEF WriteGoesOn
<1>5. CASE mapping[s] # None
  <2>1. Typing(todo, down, before, typed, Written(s), Count(s), PressOf(s, b))
    BY <1>2, <1>3, <1>5 DEF WriteGoesOn
  <2>2. Written(s)' = Written(s) /\ Count(s)' = Count(s) /\ PressOf(s, b)' = PressOf(s, b)
    BY WritingStays
  <2>3. Typing(todo, down, before, typed, Written(s), Count(s), PressOf(s, b))'
    BY <1>1, <2>1, <2>2
  <2> QED BY <1>1, <1>2, <1>5, <2>3
<1> QED BY <1>4, <1>5

\* Before the display is ready no packet is handled.
LEMMA WriteGoesOnStarting ==
  ASSUME InTurn, ~Ready, UNCHANGED device
  PROVE  WriteGoesOn'
<1>1. packet' = NoPacket
  BY DEF InTurn, device
<1> QED BY <1>1 DEF WriteGoesOn, Writing, NoPacket

LEMMA NextWriteInv ==
  ASSUME \A d \in Desktops : Regular(d), IInv, ParseInv, WriteInv, [Next]_vars
  PROVE  WriteInv'
<1>1. FetchOK /\ ScanOK /\ DeviceOK /\ InTurn /\ PutAsSeen /\ WriteGoesOn /\ ModifiersResolved
      /\ ScanTypeOK /\ ParseTypeOK /\ DeviceTypeOK
  BY DEF IInv, ScanOK, DeviceOK, WriteInv, ParseInv
<1>2. CASE Fetch /\ UNCHANGED <<scan, parse>> /\ UNCHANGED device
  <2>1. fetch # "fetched"
    BY <1>2 DEF Fetch, Fail, FetchX11, Connect, OpenKeymap, Dispatch, DispatchGlobals,
                RoundtripGlobals, DispatchKeymap, RoundtripKeymap
  <2>2. ~Ready /\ Mapped = {} /\ mapping' = mapping
    BY <1>1, <1>2, <2>1 DEF InTurn, Scanned, scan
  <2>3. PutAsSeen'
    BY <2>2 DEF PutAsSeen, Mapped
  <2> QED BY <1>1, <1>2, <2>2, <2>3, WriteGoesOnStarting DEF WriteInv
<1>3. CASE fetch = "fetched" /\ ScanNext /\ UNCHANGED <<fetching, parse>> /\ UNCHANGED device
  <2>1. ~Ready
    BY <1>1, <1>3 DEF InTurn, Scanned, ScanNext, Scan, NextKeycode
  <2>2. PutAsSeen'
    <3>1. desktop \in Desktops /\ UNCHANGED desktop
      BY <1>1, <1>3 DEF FetchOK, ScanNext
    <3>2. CASE Scan
      BY <1>1, <3>1, <3>2, PutAsSeenScanned
    <3>3. CASE NextKeycode
      BY <1>1, <3>1, <3>3, PutAsSeenUnchanged DEF NextKeycode
    <3> QED BY <1>3, <3>2, <3>3 DEF ScanNext
  <2> QED BY <1>1, <1>3, <2>1, <2>2, WriteGoesOnStarting DEF WriteInv
<1>4. CASE Scanned /\ ParseNext /\ UNCHANGED <<fetching, scan>> /\ UNCHANGED device
  <2>1. ~Ready /\ UNCHANGED <<mapping, desktop>>
    BY <1>4 DEF ParseNext, ParseLine, Resolve, Ready, scan
  <2> QED BY <1>1, <1>4, <2>1, PutAsSeenUnchanged, WriteGoesOnStarting DEF WriteInv
<1>5. CASE Compositor /\ UNCHANGED <<scan, parse, device>>
  <2>1. UNCHANGED <<desktop, mapping, modkeys>> /\ UNCHANGED device
    BY <1>5 DEF Compositor, scan, parse
  <2> QED BY <1>1, <2>1, PutAsSeenUnchanged, WriteGoesOnUnchanged DEF WriteInv
<1>6. ASSUME NEW p \in Packets, Handle(p) PROVE WriteInv'
  <2>1. UNCHANGED <<mapping, desktop>>
    BY <1>6 DEF Handle, startup, scan
  <2> QED BY <1>1, <1>6, <2>1, PutAsSeenUnchanged, WriteHandled DEF WriteInv
<1>7. CASE Emit
  <2>1. UNCHANGED <<mapping, desktop>>
    BY <1>7 DEF Emit, startup, scan
  <2>2. CASE Ready
    <3>1. desktop \in Desktops
      BY <1>1, <2>2 DEF InTurn, Scanned, FetchOK
    <3>2. WriteGoesOn'
      BY <1>1, <1>7, <3>1, WriteEmitted
    <3> QED BY <1>1, <2>1, <3>2, PutAsSeenUnchanged DEF WriteInv
  <2>3. CASE ~Ready
    <3>1. packet' = NoPacket
      BY <1>1, <1>7, <2>3 DEF InTurn, Emit
    <3>2. WriteGoesOn'
      BY <3>1 DEF WriteGoesOn, Writing, NoPacket
    <3> QED BY <1>1, <2>1, <3>2, PutAsSeenUnchanged DEF WriteInv
  <2> QED BY <2>2, <2>3
<1>8. CASE UNCHANGED vars
  <2>1. UNCHANGED <<desktop, mapping, modkeys>> /\ UNCHANGED device
    BY <1>8 DEF vars, startup, scan, parse
  <2> QED BY <1>1, <2>1, PutAsSeenUnchanged, WriteGoesOnUnchanged DEF WriteInv
<1> QED BY <1>2, <1>3, <1>4, <1>5, <1>6, <1>7, <1>8 DEF Next, Start

\* A character that is on one key of the keyboard, and one that types, is typed, once, and so
\* that the desktop makes that character of it: when every modifier has a key, of its own, that
\* the device is registered for, and nothing but buttons was held when the packet came.  That
\* masks are binary numbers is for TLC to see.
THEOREM CharactersAreTyped ==
  ASSUME MasksAreBinary,
         \A d \in Desktops : Orderly(Text[d]) /\ NamesApart(Text[d]) /\ Regular(d)
  PROVE  Spec => []WritesWhatIsAsked
<1>1. Init => ParseInv
  BY DEF Init, FetchInit, ParseInit, ParseInv, ModifiersResolved
<1>2. IInv /\ IInv' /\ ParseInv /\ [Next]_vars => ParseInv'
  BY NextParseInv
<1>3. Init => WriteInv
  <2>1. Init => PutAsSeen
    BY DEF Init, ScanInit, PutAsSeen, Mapped
  <2>2. Init => WriteGoesOn
    BY DEF Init, WriteGoesOn, Writing, NoPacket
  <2> QED BY <2>1, <2>2 DEF WriteInv
<1>4. IInv /\ ParseInv /\ WriteInv /\ [Next]_vars => WriteInv'
  BY NextWriteInv
<1>5. ASSUME IInv, ParseInv, WriteInv,
             packet.type = "WRITE", todo = << >>,
             OnOneKey(packet.sym), before \subseteq Button, \A m \in Mod : KeysOf(m) # {}
      PROVE  Len(typed) = 1 /\ packet.sym \in Symbols(typed[1])
  <2>1. PICK s : s = packet.sym
    OBVIOUS
  <2>2. packet \in Packets /\ Ready /\ ModifiersResolved /\ ScanTypeOK /\ ParseTypeOK
        /\ PutAsSeen /\ WriteGoesOn
    BY <1>5 DEF IInv, ScanOK, InTurn, DeviceOK, DeviceTypeOK, NoPacket, ParseInv, WriteInv
  <2>3. s \in Sym /\ Writing(s)
    BY <1>5, <2>1, <2>2, PacketFields DEF Writing
  <2>4. desktop \in Desktops /\ Regular(desktop)
    BY <1>5, <2>2 DEF IInv, FetchOK, ScanOK, InTurn, Scanned
  <2>5. s \in Mapped
    <3>1. PICK only \in TypingKeys : On(s, only)
      BY <1>5, <2>1 DEF OnOneKey, TypingKeys
    <3>2. only \in Keycode \ {MaxKeycode} /\ EverySymbolMapped
      BY <1>5, IInvMapped DEF TypingKeys
    <3>3. packet # NoPacket
      BY <1>5 DEF NoPacket
    <3> QED BY <3>1, <3>2, <3>3 DEF EverySymbolMapped, On
  <2>6. PICK codes, n, press : codes = Written(s) /\ n = Count(s) /\ press = PressOf(s, before)
    OBVIOUS
  <2>7. n \in Nat
    <3>1. Spells(codes, n, s)
      BY <2>2, <2>5, <2>6, WrittenSpells
    <3> QED BY <3>1 DEF Spells
  <2>8. Typing(todo, down, before, typed, codes, n, press)
    BY <2>2, <2>3, <2>5, <2>6 DEF WriteGoesOn, Mapped
  <2>9. typed = <<press>>
    <3>1. PICK j \in 0 .. 2 * (n + 1) :
             /\ Len(todo) + j = 2 * (n + 1)
             /\ n < j => typed = <<press>>
      BY <2>8 DEF Typing
    <3>2. Len(todo) = 0
      BY <1>5
    <3>3. n < j
      BY <2>7, <3>1, <3>2
    <3> QED BY <3>1, <3>3
  <2>10. Len(typed) = 1 /\ typed[1] = press
    BY <2>9
  <2>11. PICK k \in Keycode : k = mapping[s].keycode
    <3>1. mapping[s] \in [keycode : Keycode, modifiers : SUBSET Mod]
      BY <2>2, <2>5 DEF ScanTypeOK, Mapped
    <3> QED BY <3>1
  <2>12. press.code + 8 = k
    <3>1. press.code = LinuxKeycode(k)
      BY <2>6, <2>11 DEF PressOf, KeyPress
    <3>2. (k - 8) + 8 = k
      BY KeycodeAssumption
    <3> QED BY <3>1, <3>2 DEF LinuxKeycode
  <2>13. press.held = mapping[s].modifiers
    <3>1. HeldMods(before \cup { LinuxKeycode(modkeys[m]) : m \in mapping[s].modifiers })
             = mapping[s].modifiers
      BY <1>5, <2>2, <2>4, <2>5, ModifiersHeld
    <3> QED BY <2>6, <3>1 DEF PressOf, KeyPress
  <2>14. s \in Syms[desktop][k][Held(mapping[s].modifiers)]
    <3>1. PutFor(s) /\ OnOneKey(s)
      BY <1>5, <2>1, <2>2, <2>5 DEF PutAsSeen
    <3> QED BY <2>2, <2>5, <2>11, <3>1, SymbolPut
  <2>15. s \in Symbols(press)
    BY <2>12, <2>13, <2>14 DEF Symbols
  <2> QED BY <2>1, <2>10, <2>15
<1>6. IInv /\ ParseInv /\ WriteInv => WritesWhatIsAsked
  BY <1>5 DEF WritesWhatIsAsked
<1> QED BY <1>1, <1>2, <1>3, <1>4, <1>6, DisplayInvariant, PTL DEF Spec
=============================================================================
