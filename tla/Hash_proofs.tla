------------------------------ MODULE Hash_proofs ------------------------------
(***************************************************************************)
(* Proofs about Hash, for any keys, hash function and number of buckets:   *)
(* it implements a map, owns or frees each value once, and a walk visits   *)
(* each node once, also when it deletes.                                   *)
(*                                                                         *)
(* The lemmas speak of any table b, so that they hold of buckets before a  *)
(* step and after it.                                                      *)
(***************************************************************************)
EXTENDS Hash, SequenceTheorems, FiniteSetTheorems, TLAPS

Tables == [Index -> Seq(Node)]

Slots(b, k) == { j \in 1 .. Len(b[BucketOf(k)]) : b[BucketOf(k)][j].key = k }
Slot(b, k) == CHOOSE j \in Slots(b, k) : TRUE
KeysIn(b) == { k \in Key : Slots(b, k) # {} }
ValueIn(b, k) == IF Slots(b, k) # {} THEN b[BucketOf(k)][Slot(b, k)].value ELSE None

\* Each node is in the bucket of its key, and the only one with that key.
Proper(b) ==
    \A i \in Index : \A j \in 1 .. Len(b[i]) :
        /\ BucketOf(b[i][j].key) = i
        /\ \A l \in 1 .. Len(b[i]) : b[i][l].key = b[i][j].key => l = j

-----------------------------------------------------------------------------
(* The invariant. *)

\* The values in the table were put, each is in one node; it was not freed, and what is
\* in none was freed once.
Owning ==
    /\ \A k \in KeysIn(buckets) : ValueIn(buckets, k) \in 1 .. made
    /\ \A k, l \in KeysIn(buckets) : ValueIn(buckets, k) = ValueIn(buckets, l) => k = l
    /\ \A v \in Value : v > made => freed[v] = 0
    /\ \A v \in 1 .. made :
          freed[v] = IF \E k \in KeysIn(buckets) : ValueIn(buckets, k) = v THEN 0 ELSE 1

Counted ==
    /\ IsFiniteSet(KeysIn(buckets))
    /\ pc # "destroyed" => size = Cardinality(KeysIn(buckets))

Walking == pc \in {"bucket", "visit", "advance"}

\* The place in its bucket from which the walk goes on.
Cursor ==
    CASE pc = "bucket" -> 1
      [] pc = "visit" -> Slot(buckets, it)
      [] pc = "advance" ->
           IF it \in KeysIn(buckets) THEN Slot(buckets, it) + 1
           ELSE IF link = None THEN Len(buckets[index]) + 1
           ELSE Slot(buckets, link)

\* The keys of b in the order of a walk, from place n of bucket i on.
KeysFrom(b, i, n) ==
    { k \in KeysIn(b) : i < BucketOf(k) \/ (i = BucketOf(k) /\ n <= Slot(b, k)) }

\* The nodes that are still to be visited.
Rest == KeysFrom(buckets, index, Cursor)

VisitedKeys == { visited[i] : i \in 1 .. Len(visited) }

\* The walk is at a node of its bucket, or at one that it has deleted.
AtNode ==
    /\ pc \in {"visit", "advance"} => it \in Key /\ BucketOf(it) = index
    /\ pc = "visit" => it \in KeysIn(buckets)
    /\ pc = "advance" /\ it \notin KeysIn(buckets) /\ link # None =>
          link \in KeysIn(buckets) /\ BucketOf(link) = index

\* What was there when the walk began was visited, or is there and will be.
Complete ==
    /\ IsFiniteSet(present)
    /\ \A i, j \in 1 .. Len(visited) : visited[i] = visited[j] => i = j
    /\ VisitedKeys \subseteq present
    /\ Walking => present = VisitedKeys \cup Rest /\ VisitedKeys \cap Rest = {}

IInv == TypeOK /\ Proper(buckets) /\ Owning /\ Counted /\ AtNode /\ Complete

-----------------------------------------------------------------------------
(* Tables. *)

LEMMA BucketIndex == \A k \in Key : BucketOf(k) \in Index
<1> SUFFICES ASSUME NEW k \in Key PROVE BucketOf(k) \in Index
  OBVIOUS
<1>1. HashOf[k] \in Nat /\ Capacity \in Nat \ {0}
  BY HashAssumption, CapacityAssumption
<1>2. HashOf[k] % Capacity \in 0 .. Capacity - 1
  BY <1>1
<1> QED BY <1>2 DEF BucketOf, Index

LEMMA IndexInt == Index \subseteq Nat
BY CapacityAssumption DEF Index

LEMMA ChainType ==
    ASSUME NEW b \in Tables, NEW i \in Index
    PROVE  b[i] \in Seq(Node) /\ Len(b[i]) \in Nat
BY LenProperties DEF Tables

LEMMA NodeType ==
    ASSUME NEW b \in Tables, NEW i \in Index, NEW j \in 1 .. Len(b[i])
    PROVE  /\ b[i][j] \in Node /\ b[i][j].key \in Key /\ b[i][j].value \in Value
           /\ b[i][j] = [key |-> b[i][j].key, value |-> b[i][j].value]
<1>1. b[i][j] \in Node
  BY ChainType, ElementOfSeq
<1> QED BY <1>1 DEF Node

\* A node is where its key is looked for, and is found there.
LEMMA KeyFound ==
    ASSUME NEW b \in Tables, Proper(b), NEW i \in Index, NEW j \in 1 .. Len(b[i]),
           NEW k, b[i][j].key = k
    PROVE  /\ k \in KeysIn(b) /\ BucketOf(k) = i
           /\ Slots(b, k) = {j} /\ Slot(b, k) = j
           /\ ValueIn(b, k) = b[i][j].value
<1>1. k \in Key
  BY NodeType
<1>2. BucketOf(k) = i
  BY DEF Proper
<1>3. Slots(b, k) = {j}
  BY <1>2 DEF Slots, Proper
<1>4. Slot(b, k) = j
  BY <1>3 DEF Slot
<1> QED BY <1>1, <1>2, <1>3, <1>4 DEF KeysIn, ValueIn

\* The node of a key that is in the table.
LEMMA KeyPlace ==
    ASSUME NEW b \in Tables, Proper(b), NEW k \in KeysIn(b)
    PROVE  /\ k \in Key /\ BucketOf(k) \in Index
           /\ Slot(b, k) \in 1 .. Len(b[BucketOf(k)])
           /\ b[BucketOf(k)][Slot(b, k)] = [key |-> k, value |-> ValueIn(b, k)]
           /\ b[BucketOf(k)][Slot(b, k)].key = k
           /\ b[BucketOf(k)][Slot(b, k)].value = ValueIn(b, k)
           /\ ValueIn(b, k) \in Value /\ Slots(b, k) = {Slot(b, k)}
<1>1. k \in Key /\ BucketOf(k) \in Index /\ Slots(b, k) # {}
  BY BucketIndex DEF KeysIn
<1>2. PICK j \in 1 .. Len(b[BucketOf(k)]) : b[BucketOf(k)][j].key = k
  BY <1>1 DEF Slots
<1>3. Slot(b, k) = j /\ Slots(b, k) = {j} /\ ValueIn(b, k) = b[BucketOf(k)][j].value
  <2>1. Slots(b, k) = {j}
    BY <1>1, <1>2 DEF Slots, Proper
  <2>2. Slot(b, k) = j
    BY <2>1 DEF Slot
  <2> QED BY <1>1, <2>1, <2>2 DEF ValueIn, KeysIn
<1>4. b[BucketOf(k)][j] = [key |-> k, value |-> ValueIn(b, k)] /\ ValueIn(b, k) \in Value
  BY <1>1, <1>2, <1>3, NodeType
<1> QED BY <1>1, <1>2, <1>3, <1>4

\* A key that is not there has no value.
LEMMA KeyAbsent ==
    ASSUME NEW b, NEW k \in Key, k \notin KeysIn(b)
    PROVE  Slots(b, k) = {} /\ ValueIn(b, k) = None
BY DEF KeysIn, ValueIn

LEMMA ValueIsNotNone ==
    ASSUME NEW b \in Tables, Proper(b), NEW k \in Key
    PROVE  (ValueIn(b, k) = None) <=> k \notin KeysIn(b)
<1>1. None \notin Value
  BY NoneAssumption, BoundAssumption DEF Value
<1>2. CASE k \in KeysIn(b)
  <2>1. ValueIn(b, k) \in Value
    BY <1>2, KeyPlace
  <2> QED BY <1>1, <1>2, <2>1
<1>3. CASE k \notin KeysIn(b)
  BY <1>3, KeyAbsent
<1> QED BY <1>2, <1>3

\* Where one chain is replaced, the other buckets keep their keys.
LEMMA OtherBuckets ==
    ASSUME NEW b, NEW c, NEW k, c[BucketOf(k)] = b[BucketOf(k)], k \in Key
    PROVE  /\ Slots(c, k) = Slots(b, k) /\ Slot(c, k) = Slot(b, k)
           /\ ValueIn(c, k) = ValueIn(b, k) /\ (k \in KeysIn(c) <=> k \in KeysIn(b))
<1>1. c[BucketOf(k)] = b[BucketOf(k)]
  OBVIOUS
<1>2. Slots(c, k) = Slots(b, k)
  BY <1>1 DEF Slots
<1>3. Slot(c, k) = Slot(b, k)
  BY <1>2 DEF Slot
<1>4. ValueIn(c, k) = ValueIn(b, k) /\ (k \in KeysIn(c) <=> k \in KeysIn(b))
  BY <1>1, <1>2, <1>3 DEF ValueIn, KeysIn
<1> QED BY <1>2, <1>3, <1>4

\* A chain of one bucket whose keys are all different makes a proper table again.
LEMMA ProperChain ==
    ASSUME NEW b \in Tables, Proper(b), NEW i \in Index, NEW chain \in Seq(Node),
           \A j \in 1 .. Len(chain) :
              /\ BucketOf(chain[j].key) = i
              /\ \A l \in 1 .. Len(chain) : chain[l].key = chain[j].key => l = j
    PROVE  [b EXCEPT ![i] = chain] \in Tables /\ Proper([b EXCEPT ![i] = chain])
<1> DEFINE c == [b EXCEPT ![i] = chain]
<1>1. c \in Tables /\ c[i] = chain /\ \A n \in Index : n # i => c[n] = b[n]
  BY DEF Tables
<1>2. Proper(c)
  BY <1>1 DEF Proper
<1> QED BY <1>1, <1>2

\* The node of a key gets another value.
Replaced(b, k, v) == [b EXCEPT ![BucketOf(k)][Slot(b, k)] = [key |-> k, value |-> v]]

LEMMA ReplaceNode ==
    ASSUME NEW b \in Tables, Proper(b), NEW k \in KeysIn(b), NEW v \in Value
    PROVE  /\ Replaced(b, k, v) \in Tables /\ Proper(Replaced(b, k, v))
           /\ KeysIn(Replaced(b, k, v)) = KeysIn(b)
           /\ \A x \in Key : ValueIn(Replaced(b, k, v), x) = IF x = k THEN v ELSE ValueIn(b, x)
<1> DEFINE i == BucketOf(k)
           n == Slot(b, k)
           node == [key |-> k, value |-> v]
           chain == [b[i] EXCEPT ![n] = node]
           d == [b EXCEPT ![i] = chain]
<1>1. i \in Index /\ n \in 1 .. Len(b[i]) /\ b[i][n].key = k /\ k \in Key
  BY KeyPlace
<1>2. node \in Node /\ node.key = k /\ node.value = v
  BY <1>1 DEF Node
<1>3. Replaced(b, k, v) = d
  BY DEF Replaced
<1> HIDE DEF i, n, node
<1>4. b[i] \in Seq(Node)
  BY <1>1, ChainType
<1>5. /\ chain \in Seq(Node) /\ Len(chain) = Len(b[i])
      /\ \A j \in 1 .. Len(b[i]) : chain[j] = IF j = n THEN node ELSE b[i][j]
  BY <1>1, <1>2, <1>4, ExceptSeq
<1> HIDE DEF chain
<1>6. \A j \in 1 .. Len(b[i]) : chain[j].key = b[i][j].key
  BY <1>1, <1>2, <1>5
<1>7. d \in Tables /\ Proper(d) /\ d[i] = chain
  <2>1. \A j \in 1 .. Len(chain) :
           /\ BucketOf(chain[j].key) = i
           /\ \A l \in 1 .. Len(chain) : chain[l].key = chain[j].key => l = j
    BY <1>1, <1>5, <1>6 DEF Proper
  <2> QED BY <1>1, <1>5, <2>1, ProperChain DEF Tables
<1>8. ASSUME NEW x \in Key
      PROVE  /\ x \in KeysIn(d) <=> x \in KeysIn(b)
             /\ ValueIn(d, x) = IF x = k THEN v ELSE ValueIn(b, x)
  <2>0. BucketOf(x) # i => d[BucketOf(x)] = b[BucketOf(x)]
    BY <1>1, BucketIndex DEF Tables
  <2> HIDE DEF d
  <2>1. CASE BucketOf(x) # i
    <3>1. x # k
      BY <2>1 DEF i
    <3> QED BY <2>0, <2>1, <3>1, OtherBuckets
  <2>2. CASE BucketOf(x) = i /\ x \in KeysIn(b)
    <3> DEFINE j == Slot(b, x)
    <3>1. j \in 1 .. Len(b[i]) /\ b[i][j].key = x /\ ValueIn(b, x) = b[i][j].value
      BY <2>2, KeyPlace
    <3> HIDE DEF j
    <3>2. j \in 1 .. Len(d[i]) /\ d[i][j].key = x
      BY <1>5, <1>6, <1>7, <3>1
    <3>3. x \in KeysIn(d) /\ ValueIn(d, x) = d[i][j].value
      BY <1>1, <1>7, <3>2, KeyFound
    <3>4. x = k <=> j = n
      BY <1>1, <3>1 DEF Proper
    <3> QED BY <1>2, <1>5, <1>7, <2>2, <3>1, <3>3, <3>4
  <2>3. CASE BucketOf(x) = i /\ x \notin KeysIn(b)
    <3>1. Slots(d, x) = {}
      BY <1>5, <1>6, <1>7, <2>3 DEF Slots, KeysIn
    <3> QED BY <2>3, <3>1 DEF KeysIn, ValueIn
  <2> QED BY <2>1, <2>2, <2>3
<1> HIDE DEF d
<1>9. KeysIn(d) = KeysIn(b)
  BY <1>8 DEF KeysIn
<1> QED BY <1>3, <1>7, <1>8, <1>9

\* A key that is not there gets a node.
Appended(b, k, v) == [b EXCEPT ![BucketOf(k)] = Append(@, [key |-> k, value |-> v])]

LEMMA AppendNode ==
    ASSUME NEW b \in Tables, Proper(b), NEW k \in Key, k \notin KeysIn(b), NEW v \in Value
    PROVE  /\ Appended(b, k, v) \in Tables /\ Proper(Appended(b, k, v))
           /\ KeysIn(Appended(b, k, v)) = KeysIn(b) \cup {k}
           /\ \A x \in Key : ValueIn(Appended(b, k, v), x) = IF x = k THEN v ELSE ValueIn(b, x)
<1> DEFINE i == BucketOf(k)
           node == [key |-> k, value |-> v]
           n == Len(b[i])
           chain == Append(b[i], node)
           c == [b EXCEPT ![i] = chain]
<1>1. i \in Index /\ b[i] \in Seq(Node) /\ n \in Nat
  BY BucketIndex, ChainType
<1>2. node \in Node /\ node.key = k /\ node.value = v
  BY DEF Node
<1>3. \A j \in 1 .. n : b[i][j].key # k
  BY DEF KeysIn, Slots
<1>4. Appended(b, k, v) = c
  BY DEF Appended
<1> HIDE DEF i, node
<1>5. /\ chain \in Seq(Node) /\ Len(chain) = n + 1 /\ chain[n + 1] = node
      /\ \A j \in 1 .. n : chain[j] = b[i][j]
  BY <1>1, <1>2, AppendProperties
<1> HIDE DEF chain
<1>6. c \in Tables /\ Proper(c) /\ c[i] = chain
  <2>1. \A j \in 1 .. n : BucketOf(b[i][j].key) = i
    BY <1>1 DEF Proper
  <2>2. \A j, l \in 1 .. n : b[i][l].key = b[i][j].key => l = j
    BY <1>1 DEF Proper
  <2>3. \A j \in 1 .. Len(chain) : j \in 1 .. n \/ j = n + 1
    BY <1>1, <1>5
  <2>4. \A j \in 1 .. Len(chain) :
           /\ BucketOf(chain[j].key) = i
           /\ \A l \in 1 .. Len(chain) : chain[l].key = chain[j].key => l = j
    BY <1>2, <1>3, <1>5, <2>1, <2>2, <2>3 DEF i
  <2> QED BY <1>1, <1>5, <2>4, ProperChain DEF Tables
<1>7. ASSUME NEW x \in Key
      PROVE  /\ x \in KeysIn(c) <=> x \in KeysIn(b) \/ x = k
             /\ ValueIn(c, x) = IF x = k THEN v ELSE ValueIn(b, x)
  <2>0. BucketOf(x) # i => c[BucketOf(x)] = b[BucketOf(x)]
    BY <1>1, BucketIndex DEF Tables
  <2> HIDE DEF c
  <2>1. CASE BucketOf(x) # i
    <3>1. x # k
      BY <2>1 DEF i
    <3> QED BY <2>0, <2>1, <3>1, OtherBuckets
  <2>2. CASE x = k
    <3>1. n + 1 \in 1 .. Len(c[i]) /\ c[i][n + 1].key = k /\ c[i][n + 1].value = v
      BY <1>1, <1>2, <1>5, <1>6
    <3>2. k \in KeysIn(c) /\ ValueIn(c, k) = c[i][n + 1].value
      BY <1>1, <1>6, <3>1, KeyFound
    <3> QED BY <2>2, <3>1, <3>2
  <2>3. CASE BucketOf(x) = i /\ x # k /\ x \in KeysIn(b)
    <3> DEFINE j == Slot(b, x)
    <3>1. j \in 1 .. n /\ b[i][j].key = x /\ ValueIn(b, x) = b[i][j].value
      BY <2>3, KeyPlace
    <3> HIDE DEF j
    <3>2. j \in 1 .. Len(c[i]) /\ c[i][j] = b[i][j]
      BY <1>1, <1>5, <1>6, <3>1
    <3>3. x \in KeysIn(c) /\ ValueIn(c, x) = c[i][j].value
      BY <1>1, <1>6, <3>1, <3>2, KeyFound
    <3> QED BY <2>3, <3>1, <3>2, <3>3
  <2>4. CASE BucketOf(x) = i /\ x # k /\ x \notin KeysIn(b)
    <3>1. \A j \in 1 .. n : b[i][j].key # x
      BY <2>4 DEF KeysIn, Slots
    <3>2. \A j \in 1 .. Len(c[i]) : j \in 1 .. n \/ j = n + 1
      BY <1>1, <1>5, <1>6
    <3>3. \A j \in 1 .. Len(c[i]) : c[i][j].key # x
      BY <1>2, <1>5, <1>6, <2>4, <3>1, <3>2
    <3>4. Slots(c, x) = {}
      BY <2>4, <3>3 DEF Slots
    <3> QED BY <2>4, <3>4 DEF KeysIn, ValueIn
  <2> QED BY <2>1, <2>2, <2>3, <2>4
<1>8. KeysIn(c) = KeysIn(b) \cup {k}
  BY <1>7 DEF KeysIn
<1> HIDE DEF c
<1> QED BY <1>4, <1>6, <1>7, <1>8

\* A chain without one of its nodes.
LEMMA UnlinkChain ==
    ASSUME NEW chain \in Seq(Node), NEW n \in 1 .. Len(chain)
    PROVE  /\ Unlink(chain, n) \in Seq(Node) /\ Len(Unlink(chain, n)) = Len(chain) - 1
           /\ \A j \in 1 .. Len(chain) - 1 :
                 Unlink(chain, n)[j] = IF j < n THEN chain[j] ELSE chain[j + 1]
<1> DEFINE s == SubSeq(chain, 1, n - 1)
           t == SubSeq(chain, n + 1, Len(chain))
<1>1. Len(chain) \in Nat /\ \A j \in 1 .. Len(chain) : chain[j] \in Node
  BY LenProperties, ElementOfSeq
<1>2. /\ s \in Seq(Node) /\ Len(s) = n - 1
      /\ \A j \in 1 .. n - 1 : s[j] = chain[j]
  <2>1. \A j \in 1 .. n - 1 : chain[j] \in Node
    BY <1>1
  <2>2. /\ s \in Seq(Node) /\ Len(s) = IF 1 <= n - 1 THEN (n - 1) - 1 + 1 ELSE 0
        /\ \A j \in 1 .. (n - 1) - 1 + 1 : s[j] = chain[1 + j - 1]
    BY <1>1, <2>1, SubSeqProperties
  <2> HIDE DEF s
  <2> QED BY <1>1, <2>2
<1>3. /\ t \in Seq(Node) /\ Len(t) = Len(chain) - n
      /\ \A j \in 1 .. Len(chain) - n : t[j] = chain[n + j]
  <2>1. \A j \in n + 1 .. Len(chain) : chain[j] \in Node
    BY <1>1
  <2>2. /\ t \in Seq(Node)
        /\ Len(t) = IF n + 1 <= Len(chain) THEN Len(chain) - (n + 1) + 1 ELSE 0
        /\ \A j \in 1 .. Len(chain) - (n + 1) + 1 : t[j] = chain[(n + 1) + j - 1]
    BY <1>1, <2>1, SubSeqProperties
  <2> HIDE DEF t
  <2> QED BY <1>1, <2>2
<1> HIDE DEF s, t
<1>4. /\ s \o t \in Seq(Node) /\ Len(s \o t) = Len(s) + Len(t)
      /\ \A j \in 1 .. Len(s) + Len(t) :
            (s \o t)[j] = IF j <= Len(s) THEN s[j] ELSE t[j - Len(s)]
  BY <1>2, <1>3, ConcatProperties
<1>5. Unlink(chain, n) = s \o t
  BY DEF Unlink, s, t
<1>6. Len(s) + Len(t) = Len(chain) - 1
  BY <1>1, <1>2, <1>3
<1>7. ASSUME NEW j \in 1 .. Len(chain) - 1
      PROVE  (s \o t)[j] = IF j < n THEN chain[j] ELSE chain[j + 1]
  <2>1. CASE j < n
    BY <1>1, <1>2, <1>4, <1>6, <2>1
  <2>2. CASE ~(j < n)
    <3>1. j - Len(s) \in 1 .. Len(chain) - n /\ n + (j - Len(s)) = j + 1 /\ ~(j <= Len(s))
      BY <1>1, <1>2, <2>2
    <3> QED BY <1>3, <1>4, <1>6, <2>2, <3>1
  <2> QED BY <2>1, <2>2
<1> QED BY <1>4, <1>5, <1>6, <1>7

\* A key loses its node; those behind it in the bucket move up.
Unlinked(b, k) == [b EXCEPT ![BucketOf(k)] = Unlink(@, Slot(b, k))]

LEMMA UnlinkNode ==
    ASSUME NEW b \in Tables, Proper(b), NEW k \in KeysIn(b)
    PROVE  /\ Unlinked(b, k) \in Tables /\ Proper(Unlinked(b, k))
           /\ KeysIn(Unlinked(b, k)) = KeysIn(b) \ {k}
           /\ \A x \in Key : ValueIn(Unlinked(b, k), x) = IF x = k THEN None ELSE ValueIn(b, x)
           /\ Len(Unlinked(b, k)[BucketOf(k)]) = Len(b[BucketOf(k)]) - 1
           /\ \A x \in KeysIn(Unlinked(b, k)) :
                 Slot(Unlinked(b, k), x) =
                     IF BucketOf(x) = BucketOf(k) /\ Slot(b, k) < Slot(b, x)
                     THEN Slot(b, x) - 1 ELSE Slot(b, x)
<1> DEFINE i == BucketOf(k)
           n == Slot(b, k)
           chain == Unlink(b[i], n)
           c == [b EXCEPT ![i] = chain]
<1>1. /\ i \in Index /\ b[i] \in Seq(Node) /\ Len(b[i]) \in Nat
      /\ n \in 1 .. Len(b[i]) /\ b[i][n].key = k /\ k \in Key
  BY KeyPlace, ChainType
<1> HIDE DEF i, n
<1>2. /\ chain \in Seq(Node) /\ Len(chain) = Len(b[i]) - 1
      /\ \A j \in 1 .. Len(b[i]) - 1 : chain[j] = IF j < n THEN b[i][j] ELSE b[i][j + 1]
  BY <1>1, UnlinkChain
<1> HIDE DEF chain
\* Where each node of the shorter chain comes from.
<1> DEFINE From(j) == IF j < n THEN j ELSE j + 1
<1>3. \A j \in 1 .. Len(chain) :
         /\ From(j) \in 1 .. Len(b[i]) /\ From(j) # n /\ chain[j] = b[i][From(j)]
         /\ \A l \in 1 .. Len(chain) : From(l) = From(j) => l = j
  BY <1>1, <1>2
<1>4. c \in Tables /\ Proper(c) /\ c[i] = chain
  <2>1. \A j \in 1 .. Len(chain) :
           /\ BucketOf(chain[j].key) = i
           /\ \A l \in 1 .. Len(chain) : chain[l].key = chain[j].key => l = j
    <3> SUFFICES ASSUME NEW j \in 1 .. Len(chain)
                 PROVE  /\ BucketOf(chain[j].key) = i
                        /\ \A l \in 1 .. Len(chain) : chain[l].key = chain[j].key => l = j
      OBVIOUS
    <3> HIDE DEF From
    <3>1. BucketOf(chain[j].key) = i
      BY <1>1, <1>3 DEF Proper
    <3>2. ASSUME NEW l \in 1 .. Len(chain), chain[l].key = chain[j].key PROVE l = j
      <4>1. b[i][From(l)].key = b[i][From(j)].key
        BY <1>3, <3>2
      <4>2. From(l) = From(j)
        BY <1>1, <1>3, <4>1 DEF Proper
      <4> QED BY <1>3, <4>2
    <3> QED BY <3>1, <3>2
  <2> QED BY <1>1, <1>2, <2>1, ProperChain DEF Tables
<1>5. ASSUME NEW x \in Key
      PROVE  /\ x \in KeysIn(c) <=> x \in KeysIn(b) /\ x # k
             /\ ValueIn(c, x) = IF x = k THEN None ELSE ValueIn(b, x)
             /\ x \in KeysIn(c) =>
                   Slot(c, x) = IF BucketOf(x) = i /\ n < Slot(b, x)
                                THEN Slot(b, x) - 1 ELSE Slot(b, x)
  <2>0. BucketOf(x) # i => c[BucketOf(x)] = b[BucketOf(x)]
    BY <1>1, BucketIndex DEF Tables
  <2> HIDE DEF c
  <2>1. CASE BucketOf(x) # i
    <3>1. x # k
      BY <2>1 DEF i
    <3> QED BY <2>0, <2>1, <3>1, OtherBuckets
  <2>2. CASE BucketOf(x) = i /\ x # k /\ x \in KeysIn(b)
    <3> DEFINE j == Slot(b, x)
               l == IF j < n THEN j ELSE j - 1
    <3>1. j \in 1 .. Len(b[i]) /\ b[i][j].key = x /\ b[i][j].value = ValueIn(b, x)
      BY <2>2, KeyPlace
    <3> HIDE DEF j
    <3>2. j # n
      BY <1>1, <2>2, <3>1
    <3>3. l \in 1 .. Len(b[i]) - 1 /\ From(l) = j
      BY <1>1, <3>1, <3>2
    <3>4. l = IF n < j THEN j - 1 ELSE j
      BY <1>1, <3>1, <3>2
    <3> HIDE DEF l, From
    <3>5. l \in 1 .. Len(c[i]) /\ c[i][l] = b[i][j]
      BY <1>2, <1>3, <1>4, <3>3
    <3>6. x \in KeysIn(c) /\ Slot(c, x) = l /\ ValueIn(c, x) = c[i][l].value
      BY <1>1, <1>4, <3>1, <3>5, KeyFound
    <3> QED BY <2>2, <3>1, <3>4, <3>5, <3>6 DEF j
  <2>3. CASE x = k \/ (BucketOf(x) = i /\ x \notin KeysIn(b))
    <3>1. BucketOf(x) = i /\ \A j \in 1 .. Len(b[i]) : b[i][j].key = x => j = n
      <4>1. CASE x = k
        BY <1>1, <4>1 DEF Proper, i
      <4>2. CASE BucketOf(x) = i /\ x \notin KeysIn(b)
        BY <4>2 DEF KeysIn, Slots
      <4> QED BY <2>3, <4>1, <4>2
    <3> HIDE DEF From
    <3>2. \A j \in 1 .. Len(c[i]) : c[i][j].key # x
      BY <1>3, <1>4, <3>1
    <3>3. Slots(c, x) = {}
      BY <3>1, <3>2 DEF Slots
    <3>4. x \notin KeysIn(c) /\ ValueIn(c, x) = None
      BY <3>3 DEF KeysIn, ValueIn
    <3>5. CASE x = k
      BY <3>4, <3>5
    <3>6. CASE x # k
      BY <2>3, <3>4, <3>6, KeyAbsent
    <3> QED BY <3>5, <3>6
  <2> QED BY <2>1, <2>2, <2>3
<1>6. KeysIn(c) = KeysIn(b) \ {k}
  BY <1>5 DEF KeysIn
<1>7. c = Unlinked(b, k)
  BY DEF i, n, chain, Unlinked
<1>8. \A x \in KeysIn(c) : x \in Key
  BY DEF KeysIn
<1> HIDE DEF c
<1> QED BY <1>2, <1>4, <1>5, <1>6, <1>7, <1>8 DEF i, n

\* An empty table.
LEMMA EmptyTable ==
    LET c == [i \in Index |-> << >>]
    IN  /\ c \in Tables /\ Proper(c) /\ KeysIn(c) = {}
        /\ \A x \in Key : ValueIn(c, x) = None
<1> DEFINE c == [i \in Index |-> << >>]
<1>1. c \in Tables /\ \A i \in Index : Len(c[i]) = 0
  BY EmptySeq DEF Tables
<1> HIDE DEF c
<1>2. Proper(c)
  BY <1>1 DEF Proper
<1>3. \A x \in Key : Slots(c, x) = {}
  BY <1>1, BucketIndex DEF Slots
<1>4. KeysIn(c) = {} /\ \A x \in Key : ValueIn(c, x) = None
  BY <1>3 DEF KeysIn, ValueIn
<1> QED BY <1>1, <1>2, <1>4 DEF c

-----------------------------------------------------------------------------
(* The operations. *)

\* What Hash says of a key, in terms of its table.
LEMMA Views ==
    /\ Keys = KeysIn(buckets)
    /\ \A k \in Key : /\ Present(k) <=> k \in KeysIn(buckets)
                      /\ Positions(k) = Slots(buckets, k) /\ Position(k) = Slot(buckets, k)
                      /\ Lookup(k) = ValueIn(buckets, k)
<1>1. \A k \in Key : Positions(k) = Slots(buckets, k)
  BY DEF Positions, Slots
<1>2. \A k \in Key : Present(k) <=> k \in KeysIn(buckets)
  BY <1>1 DEF Present, KeysIn
<1>3. \A k \in Key : Position(k) = Slot(buckets, k)
  BY <1>1 DEF Position, Slot
<1>4. \A k \in Key : Lookup(k) = ValueIn(buckets, k)
  BY <1>1, <1>3 DEF Lookup, ValueIn, Present
<1>5. Keys = KeysIn(buckets)
  BY <1>2 DEF Keys, KeysIn
<1> QED BY <1>1, <1>2, <1>3, <1>4, <1>5

LEMMA PutEffect ==
    ASSUME buckets \in Tables, Proper(buckets), NEW k \in Key, NEW v \in Value, PutNode(k, v)
    PROVE  /\ buckets' \in Tables /\ Proper(buckets')
           /\ KeysIn(buckets') = KeysIn(buckets) \cup {k}
           /\ \A x \in Key : ValueIn(buckets', x) = IF x = k THEN v ELSE ValueIn(buckets, x)
           /\ k \in KeysIn(buckets) =>
                 size' = size /\ freed' = [freed EXCEPT ![ValueIn(buckets, k)] = @ + 1]
           /\ k \notin KeysIn(buckets) => size' = size + 1 /\ freed' = freed
<1>1. CASE k \in KeysIn(buckets)
  <2>1. /\ buckets' = Replaced(buckets, k, v) /\ size' = size
        /\ freed' = [freed EXCEPT ![ValueIn(buckets, k)] = @ + 1]
    BY <1>1, Views DEF PutNode, Replaced
  <2>2. /\ buckets' \in Tables /\ Proper(buckets') /\ KeysIn(buckets') = KeysIn(buckets)
        /\ \A x \in Key : ValueIn(buckets', x) = IF x = k THEN v ELSE ValueIn(buckets, x)
    BY <1>1, <2>1, ReplaceNode
  <2> QED BY <1>1, <2>1, <2>2
<1>2. CASE k \notin KeysIn(buckets)
  <2>1. buckets' = Appended(buckets, k, v) /\ size' = size + 1 /\ freed' = freed
    BY <1>2, Views DEF PutNode, Appended
  <2>2. /\ buckets' \in Tables /\ Proper(buckets') /\ KeysIn(buckets') = KeysIn(buckets) \cup {k}
        /\ \A x \in Key : ValueIn(buckets', x) = IF x = k THEN v ELSE ValueIn(buckets, x)
    BY <1>2, <2>1, AppendNode
  <2> QED BY <1>2, <2>1, <2>2
<1> QED BY <1>1, <1>2

LEMMA DeleteEffect ==
    ASSUME buckets \in Tables, Proper(buckets), NEW k \in Key, DeleteNode(k)
    PROVE  /\ k \in KeysIn(buckets)
           /\ buckets' = Unlinked(buckets, k)
           /\ buckets' \in Tables /\ Proper(buckets')
           /\ KeysIn(buckets') = KeysIn(buckets) \ {k}
           /\ \A x \in Key : ValueIn(buckets', x) = IF x = k THEN None ELSE ValueIn(buckets, x)
           /\ freed' = [freed EXCEPT ![ValueIn(buckets, k)] = @ + 1]
           /\ size' = size - 1 /\ made' = made
<1>1. /\ k \in KeysIn(buckets)
      /\ buckets' = Unlinked(buckets, k)
      /\ freed' = [freed EXCEPT ![ValueIn(buckets, k)] = @ + 1]
      /\ size' = size - 1 /\ made' = made
  BY Views DEF DeleteNode, Unlinked
<1> QED BY <1>1, UnlinkNode

\* A value owned by one key has that key for its only owner.
LEMMA Owners ==
    ASSUME TypeOK, Proper(buckets), Owning, NEW v \in Value
    PROVE  /\ v \in 1 .. made => freed[v] + Cardinality({k \in Keys : Lookup(k) = v}) = 1
           /\ v \notin 1 .. made => freed[v] = 0 /\ {k \in Keys : Lookup(k) = v} = {}
<1> DEFINE owners == {k \in Keys : Lookup(k) = v}
<1>1. owners = {k \in KeysIn(buckets) : ValueIn(buckets, k) = v}
  BY Views DEF Keys
<1>2. v \in Nat \ {0} /\ made \in Nat
  BY BoundAssumption DEF Value, TypeOK
<1> HIDE DEF owners
<1>3. ASSUME v \in 1 .. made PROVE freed[v] + Cardinality(owners) = 1
  <2>1. CASE \E k \in KeysIn(buckets) : ValueIn(buckets, k) = v
    <3>1. PICK k \in KeysIn(buckets) : ValueIn(buckets, k) = v
      BY <2>1
    <3>2. owners = {k}
      BY <1>1, <3>1 DEF Owning
    <3>3. Cardinality(owners) = 1 /\ freed[v] = 0
      BY <1>3, <2>1, <3>2, FS_Singleton DEF Owning
    <3> QED BY <3>3
  <2>2. CASE ~\E k \in KeysIn(buckets) : ValueIn(buckets, k) = v
    <3>1. owners = {}
      BY <1>1, <2>2
    <3>2. Cardinality(owners) = 0 /\ freed[v] = 1
      BY <1>3, <2>2, <3>1, FS_EmptySet DEF Owning
    <3> QED BY <3>2
  <2> QED BY <2>1, <2>2
<1>4. ASSUME v \notin 1 .. made PROVE freed[v] = 0 /\ owners = {}
  <2>1. v > made
    BY <1>2, <1>4
  <2> QED BY <1>1, <1>4, <2>1 DEF Owning
<1> QED BY <1>3, <1>4 DEF owners

\* A value that is put has one owner; the one it replaces is freed.
LEMMA PutOwning ==
    ASSUME TypeOK, Proper(buckets), Owning, Counted, NEW k \in Key, Put(k)
    PROVE  Owning' /\ Counted' /\ size' \in Nat /\ freed' \in [Value -> Nat]
<1> DEFINE v == made + 1
           w == ValueIn(buckets, k)
<1>1. made \in Nat /\ v \in Value /\ v \in Nat /\ made' = v /\ pc' = pc /\ pc = "idle"
  BY BoundAssumption DEF Put, walk, TypeOK, Value
<1>2. /\ buckets \in Tables /\ size \in Nat /\ freed \in [Value -> Nat]
      /\ \A x \in 1 .. made : x \in Value
  BY BoundAssumption DEF TypeOK, Tables, Value
<1>3. /\ KeysIn(buckets') = KeysIn(buckets) \cup {k}
      /\ \A x \in Key : ValueIn(buckets', x) = IF x = k THEN v ELSE ValueIn(buckets, x)
      /\ k \in KeysIn(buckets) => size' = size /\ freed' = [freed EXCEPT ![w] = @ + 1]
      /\ k \notin KeysIn(buckets) => size' = size + 1 /\ freed' = freed
  BY <1>1, <1>2, PutEffect DEF Put
<1>4. \A x \in KeysIn(buckets) : x \in Key
  BY DEF KeysIn
<1>5. Counted' /\ size' \in Nat
  <2>1. IsFiniteSet(KeysIn(buckets)) /\ size = Cardinality(KeysIn(buckets))
    BY <1>1 DEF Counted
  <2>2. /\ IsFiniteSet(KeysIn(buckets'))
        /\ Cardinality(KeysIn(buckets')) = IF k \in KeysIn(buckets) THEN size ELSE size + 1
    BY <1>3, <2>1, FS_AddElement
  <2> QED BY <1>2, <1>3, <2>2 DEF Counted
<1>6. freed' \in [Value -> Nat]
  BY <1>2, <1>3
<1>7. \A x \in KeysIn(buckets) : ValueIn(buckets, x) \in 1 .. made
  BY DEF Owning
<1> HIDE DEF v, w
<1>8. ASSUME NEW x \in KeysIn(buckets') PROVE ValueIn(buckets', x) \in 1 .. made'
  <2>1. CASE x = k
    BY <1>1, <1>3, <2>1 DEF v
  <2>2. CASE x # k
    BY <1>1, <1>3, <1>4, <1>7, <2>2 DEF v
  <2> QED BY <2>1, <2>2
<1>9. ASSUME NEW x \in KeysIn(buckets'), NEW y \in KeysIn(buckets'),
             ValueIn(buckets', x) = ValueIn(buckets', y)
      PROVE  x = y
  <2>1. \A z \in KeysIn(buckets) : ValueIn(buckets, z) # v
    BY <1>1, <1>7 DEF v
  <2> QED BY <1>3, <1>4, <1>9, <2>1 DEF Owning
<1>10. ASSUME NEW x \in Value, x > made' PROVE freed'[x] = 0
  <2>1. x \in Nat /\ x > made /\ freed[x] = 0
    BY <1>1, <1>10, BoundAssumption DEF Owning, Value, v
  <2>2. k \in KeysIn(buckets) => w # x
    BY <1>1, <1>7, <2>1 DEF w
  <2> QED BY <1>2, <1>3, <2>1, <2>2
<1>11. ASSUME NEW x \in 1 .. made'
       PROVE  freed'[x] = IF \E y \in KeysIn(buckets') : ValueIn(buckets', y) = x THEN 0 ELSE 1
  <2>1. CASE x = v
    <3>1. k \in KeysIn(buckets') /\ ValueIn(buckets', k) = x
      BY <1>3, <2>1
    <3>2. freed[x] = 0
      BY <1>1, <2>1 DEF Owning, v
    <3>3. k \in KeysIn(buckets) => w # x
      BY <1>1, <1>7, <2>1 DEF w, v
    <3>4. freed'[x] = 0
      BY <1>1, <1>2, <1>3, <2>1, <3>2, <3>3
    <3> QED BY <3>1, <3>4
  <2>2. CASE x # v
    <3>1. x \in 1 .. made /\ x \in Value
      BY <1>1, <1>2, <2>2 DEF v
    <3>2. freed[x] = IF \E y \in KeysIn(buckets) : ValueIn(buckets, y) = x THEN 0 ELSE 1
      BY <3>1 DEF Owning
    <3>3. CASE k \in KeysIn(buckets) /\ w = x
      <4>1. ~\E y \in KeysIn(buckets') : ValueIn(buckets', y) = x
        BY <1>3, <1>4, <2>2, <3>3 DEF Owning, w
      <4>2. freed[x] = 0
        BY <3>2, <3>3 DEF w
      <4> QED BY <1>2, <1>3, <3>1, <3>3, <4>1, <4>2
    <3>4. CASE ~(k \in KeysIn(buckets) /\ w = x)
      <4>1. (\E y \in KeysIn(buckets') : ValueIn(buckets', y) = x)
              <=> \E y \in KeysIn(buckets) : ValueIn(buckets, y) = x
        BY <1>3, <1>4, <2>2, <3>4 DEF w
      <4>2. freed'[x] = freed[x]
        BY <1>2, <1>3, <3>1, <3>4
      <4> QED BY <3>2, <4>1, <4>2
    <3> QED BY <3>3, <3>4
  <2> QED BY <2>1, <2>2
<1>12. Owning'
  BY <1>8, <1>9, <1>10, <1>11 DEF Owning
<1> QED BY <1>5, <1>6, <1>12

\* A value that is deleted is freed, and was not before.
LEMMA DeleteOwning ==
    ASSUME TypeOK, Proper(buckets), Owning, Counted, pc # "destroyed",
           NEW k \in Key, DeleteNode(k)
    PROVE  Owning' /\ Counted' /\ size' \in Nat /\ freed' \in [Value -> Nat]
<1> DEFINE w == ValueIn(buckets, k)
<1>1. /\ buckets \in Tables /\ size \in Nat /\ freed \in [Value -> Nat] /\ made \in Nat
      /\ \A x \in 1 .. made : x \in Value
  BY BoundAssumption DEF TypeOK, Tables, Value
<1>2. /\ k \in KeysIn(buckets) /\ made' = made /\ size' = size - 1
      /\ KeysIn(buckets') = KeysIn(buckets) \ {k}
      /\ \A x \in Key : ValueIn(buckets', x) = IF x = k THEN None ELSE ValueIn(buckets, x)
      /\ freed' = [freed EXCEPT ![w] = @ + 1]
  BY <1>1, DeleteEffect
<1>3. \A x \in KeysIn(buckets) : x \in Key /\ ValueIn(buckets, x) \in 1 .. made
  BY DEF KeysIn, Owning
<1>4. w \in 1 .. made /\ w \in Value
  BY <1>1, <1>2, <1>3
<1>5. Counted' /\ size' \in Nat
  <2>1. IsFiniteSet(KeysIn(buckets)) /\ size = Cardinality(KeysIn(buckets))
    BY DEF Counted
  <2>2. IsFiniteSet(KeysIn(buckets')) /\ Cardinality(KeysIn(buckets')) = size - 1
    BY <1>2, <2>1, FS_RemoveElement
  <2>3. Cardinality(KeysIn(buckets')) \in Nat
    BY <2>2, FS_CardinalityType
  <2> QED BY <1>2, <2>2, <2>3 DEF Counted
<1>6. freed' \in [Value -> Nat]
  BY <1>1, <1>2, <1>4
<1> HIDE DEF w
<1>7. ASSUME NEW x \in KeysIn(buckets')
      PROVE  /\ x \in KeysIn(buckets) /\ x \in Key /\ x # k
             /\ ValueIn(buckets', x) = ValueIn(buckets, x)
  BY <1>2, <1>3
<1>8. ASSUME NEW x \in Value, x > made' PROVE freed'[x] = 0
  <2>1. x # w /\ freed[x] = 0
    BY <1>1, <1>2, <1>4, <1>8, BoundAssumption DEF Owning, Value
  <2> QED BY <1>1, <1>2, <2>1
<1>9. ASSUME NEW x \in 1 .. made'
      PROVE  freed'[x] = IF \E y \in KeysIn(buckets') : ValueIn(buckets', y) = x THEN 0 ELSE 1
  <2>1. /\ x \in 1 .. made /\ x \in Value
        /\ freed[x] = IF \E y \in KeysIn(buckets) : ValueIn(buckets, y) = x THEN 0 ELSE 1
    BY <1>1, <1>2 DEF Owning
  <2>2. CASE x = w
    <3>1. ~\E y \in KeysIn(buckets') : ValueIn(buckets', y) = x
      BY <1>2, <1>7, <2>2 DEF Owning, w
    <3>2. freed[x] = 0
      BY <1>2, <2>1, <2>2 DEF w
    <3> QED BY <1>1, <1>2, <2>1, <2>2, <3>1, <3>2
  <2>3. CASE x # w
    <3>1. (\E y \in KeysIn(buckets') : ValueIn(buckets', y) = x)
            <=> \E y \in KeysIn(buckets) : ValueIn(buckets, y) = x
      BY <1>2, <1>3, <2>3 DEF w
    <3>2. freed'[x] = freed[x]
      BY <1>1, <1>2, <2>1, <2>3
    <3> QED BY <2>1, <3>1, <3>2
  <2> QED BY <2>2, <2>3
<1>10. Owning'
  <2>1. \A x \in KeysIn(buckets') : ValueIn(buckets', x) \in 1 .. made'
    BY <1>2, <1>3, <1>7
  <2>2. \A x, y \in KeysIn(buckets') : ValueIn(buckets', x) = ValueIn(buckets', y) => x = y
    BY <1>7 DEF Owning
  <2> QED BY <1>8, <1>9, <2>1, <2>2 DEF Owning
<1> QED BY <1>5, <1>6, <1>10

\* Destroying the table frees what it still owns.
LEMMA DestroyOwning ==
    ASSUME TypeOK, Proper(buckets), Owning, Destroy
    PROVE  /\ buckets' \in Tables /\ Proper(buckets')
           /\ Owning' /\ Counted' /\ size' \in Nat /\ freed' \in [Value -> Nat]
<1>1. /\ buckets' = [i \in Index |-> << >>] /\ pc' = "destroyed" /\ size' = size /\ made' = made
      /\ freed' = [v \in Value |-> freed[v] + Cardinality({k \in Keys : Lookup(k) = v})]
      /\ size \in Nat /\ freed \in [Value -> Nat] /\ made \in Nat
      /\ \A x \in 1 .. made : x \in Value
  BY BoundAssumption DEF Destroy, TypeOK, Value
<1>2. buckets' \in Tables /\ Proper(buckets') /\ KeysIn(buckets') = {}
  BY <1>1, EmptyTable
<1>3. ASSUME NEW v \in Value PROVE freed'[v] = IF v \in 1 .. made THEN 1 ELSE 0
  BY <1>1, Owners, FS_EmptySet
<1>4. freed' \in [Value -> Nat]
  <2>1. \A v \in Value : freed'[v] \in Nat
    BY <1>3
  <2> QED BY <1>1, <2>1
<1>5. Owning'
  <2>1. \A v \in Value : v > made' => freed'[v] = 0
    BY <1>1, <1>3, BoundAssumption DEF Value
  <2>2. \A v \in 1 .. made' : freed'[v] = 1
    BY <1>1, <1>3
  <2> QED BY <1>2, <2>1, <2>2 DEF Owning
<1>6. Counted'
  BY <1>1, <1>2, FS_EmptySet DEF Counted
<1> QED BY <1>1, <1>2, <1>4, <1>5, <1>6

-----------------------------------------------------------------------------
(* The walk. *)

\* The numbers that a walk compares.
LEMMA PlaceType ==
    ASSUME NEW b \in Tables, Proper(b), NEW k \in KeysIn(b)
    PROVE  /\ BucketOf(k) \in 0 .. Capacity - 1 /\ BucketOf(k) \in Nat
           /\ Slot(b, k) \in Nat /\ 1 <= Slot(b, k) /\ Slot(b, k) <= Len(b[BucketOf(k)])
           /\ Len(b[BucketOf(k)]) \in Nat
<1> DEFINE i == BucketOf(k)
           n == Slot(b, k)
           m == Len(b[i])
<1>1. i \in Index /\ n \in 1 .. m
  BY KeyPlace
<1>2. m \in Nat
  BY <1>1, ChainType
<1> HIDE DEF i, n, m
<1>3. i \in 0 .. Capacity - 1 /\ i \in Nat /\ n \in Nat /\ 1 <= n /\ n <= m
  BY <1>1, <1>2, CapacityAssumption DEF Index
<1> QED BY <1>2, <1>3 DEF i, n, m

\* At the start every key is ahead, and at the end none.
LEMMA WholeWalk ==
    ASSUME NEW b \in Tables, Proper(b)
    PROVE  KeysFrom(b, 0, 1) = KeysIn(b) /\ KeysFrom(b, Capacity, 1) = {}
<1>1. ASSUME NEW k \in KeysIn(b)
      PROVE  /\ 0 < BucketOf(k) \/ (0 = BucketOf(k) /\ 1 <= Slot(b, k))
             /\ ~(Capacity < BucketOf(k)) /\ Capacity # BucketOf(k)
  BY PlaceType, CapacityAssumption
<1> QED BY <1>1 DEF KeysFrom

\* Behind the last node of a bucket comes the next bucket.
LEMMA NextBucket ==
    ASSUME NEW b \in Tables, Proper(b), NEW i \in Index
    PROVE  KeysFrom(b, i, Len(b[i]) + 1) = KeysFrom(b, i + 1, 1)
<1>1. ASSUME NEW k \in KeysIn(b)
      PROVE  (i < BucketOf(k) \/ (i = BucketOf(k) /\ Len(b[i]) + 1 <= Slot(b, k)))
               <=> (i + 1 < BucketOf(k) \/ (i + 1 = BucketOf(k) /\ 1 <= Slot(b, k)))
  <2>1. i \in Nat
    BY IndexInt
  <2>2. i = BucketOf(k) => ~(Len(b[i]) + 1 <= Slot(b, k))
    BY PlaceType
  <2> QED BY <2>1, <2>2, PlaceType
<1> QED BY <1>1 DEF KeysFrom

\* Behind a node are those that were ahead of it, without its own.
LEMMA NextNode ==
    ASSUME NEW b \in Tables, Proper(b), NEW k \in KeysIn(b)
    PROVE  /\ k \in KeysFrom(b, BucketOf(k), Slot(b, k))
           /\ KeysFrom(b, BucketOf(k), Slot(b, k) + 1)
                = KeysFrom(b, BucketOf(k), Slot(b, k)) \ {k}
<1>1. ASSUME NEW x \in KeysIn(b), BucketOf(x) = BucketOf(k)
      PROVE  Slot(b, k) + 1 <= Slot(b, x) <=> Slot(b, k) <= Slot(b, x) /\ x # k
  <2>1. Slot(b, x) = Slot(b, k) => x = k
    BY <1>1, KeyPlace
  <2> QED BY <2>1, PlaceType
<1>2. ASSUME NEW x \in KeysIn(b), BucketOf(k) < BucketOf(x) PROVE x # k
  BY <1>2, PlaceType
<1>3. k \in KeysFrom(b, BucketOf(k), Slot(b, k))
  BY PlaceType DEF KeysFrom
<1> QED BY <1>1, <1>2, <1>3 DEF KeysFrom

\* So they are when the node was unlinked: what stood behind it has its place now.
LEMMA NextOfUnlinked ==
    ASSUME NEW b \in Tables, Proper(b), NEW k \in KeysIn(b)
    PROVE  KeysFrom(Unlinked(b, k), BucketOf(k), Slot(b, k)) =
               KeysFrom(b, BucketOf(k), Slot(b, k)) \ {k}
<1> DEFINE c == Unlinked(b, k)
<1>1. /\ KeysIn(c) = KeysIn(b) \ {k}
      /\ \A x \in KeysIn(c) :
            Slot(c, x) = IF BucketOf(x) = BucketOf(k) /\ Slot(b, k) < Slot(b, x)
                         THEN Slot(b, x) - 1 ELSE Slot(b, x)
  BY UnlinkNode
<1> HIDE DEF c
<1>2. ASSUME NEW x \in KeysIn(c), BucketOf(x) = BucketOf(k)
      PROVE  Slot(b, k) <= Slot(c, x) <=> Slot(b, k) <= Slot(b, x)
  <2>1. x \in KeysIn(b) /\ x # k
    BY <1>1
  <2>2. Slot(b, x) # Slot(b, k)
    BY <1>2, <2>1, KeyPlace
  <2>3. Slot(b, x) \in Nat /\ Slot(b, k) \in Nat
    BY <2>1, PlaceType
  <2>4. Slot(c, x) = IF Slot(b, k) < Slot(b, x) THEN Slot(b, x) - 1 ELSE Slot(b, x)
    BY <1>1, <1>2
  <2> QED BY <2>2, <2>3, <2>4
<1>3. KeysFrom(c, BucketOf(k), Slot(b, k)) = KeysFrom(b, BucketOf(k), Slot(b, k)) \ {k}
  BY <1>1, <1>2 DEF KeysFrom
<1> QED BY <1>3 DEF c

\* What the walk has visited, after one visit more.
LEMMA VisitOne ==
    ASSUME visited \in Seq(Key), NEW k \in Key, k \notin VisitedKeys,
           \A i, j \in 1 .. Len(visited) : visited[i] = visited[j] => i = j,
           visited' = Append(visited, k)
    PROVE  /\ visited' \in Seq(Key) /\ VisitedKeys' = VisitedKeys \cup {k}
           /\ \A i, j \in 1 .. Len(visited') : visited'[i] = visited'[j] => i = j
<1> DEFINE n == Len(visited)
<1>1. /\ n \in Nat /\ visited' \in Seq(Key) /\ Len(visited') = n + 1
      /\ visited'[n + 1] = k /\ \A i \in 1 .. n : visited'[i] = visited[i]
  BY LenProperties, AppendProperties
<1>2. \A i \in 1 .. n : visited[i] # k
  BY DEF VisitedKeys
<1>3. \A i \in 1 .. n + 1 : i \in 1 .. n \/ i = n + 1
  BY <1>1
<1>4. VisitedKeys' = {visited'[i] : i \in 1 .. n + 1}
  BY <1>1 DEF VisitedKeys
<1>5. VisitedKeys = {visited[i] : i \in 1 .. n}
  BY DEF VisitedKeys
<1>6. \A i, j \in 1 .. n : visited[i] = visited[j] => i = j
  OBVIOUS
<1> HIDE DEF n
<1>7. \A i \in 1 .. n : i \in 1 .. n + 1
  BY <1>1
<1>8. n + 1 \in 1 .. n + 1
  BY <1>1
<1>9. VisitedKeys' = VisitedKeys \cup {k}
  BY <1>1, <1>3, <1>4, <1>5, <1>7, <1>8
<1>10. \A i, j \in 1 .. n + 1 : visited'[i] = visited'[j] => i = j
  BY <1>1, <1>2, <1>3, <1>6
<1> QED BY <1>1, <1>9, <1>10
-----------------------------------------------------------------------------
(* The invariant is inductive. *)

LEMMA InitIInv == Init => IInv
<1> SUFFICES ASSUME Init PROVE IInv
  OBVIOUS
<1>1. /\ buckets = [i \in Index |-> << >>] /\ size = 0 /\ made = 0
      /\ freed = [v \in Value |-> 0] /\ pc = "idle" /\ index = 0
      /\ it = None /\ link = None /\ visited = << >> /\ present = {}
  BY DEF Init
<1>2. /\ buckets \in Tables /\ Proper(buckets) /\ KeysIn(buckets) = {}
  BY <1>1, EmptyTable
<1>3. << >> \in Seq(Key) /\ Len(<< >>) = 0
  BY EmptySeq
<1>4. TypeOK
  BY <1>1, <1>2, <1>3, CapacityAssumption, BoundAssumption DEF TypeOK, Tables
<1>5. Owning
  BY <1>1, <1>2 DEF Owning
<1>6. Counted
  BY <1>1, <1>2, FS_EmptySet DEF Counted
<1>7. AtNode
  BY <1>1 DEF AtNode
<1>8. Complete
  BY <1>1, <1>3, FS_EmptySet DEF Complete, VisitedKeys, Walking
<1> QED BY <1>2, <1>4, <1>5, <1>6, <1>7, <1>8 DEF IInv

LEMMA PutIInv == ASSUME IInv, NEW k \in Key, Put(k) PROVE IInv'
<1>1. TypeOK /\ Proper(buckets) /\ Owning /\ Counted /\ AtNode /\ Complete
  BY DEF IInv
<1>2. Owning' /\ Counted' /\ size' \in Nat /\ freed' \in [Value -> Nat]
  BY <1>1, PutOwning
<1>3. /\ made + 1 \in Value /\ made' \in 0 .. MaxValues /\ buckets \in Tables
      /\ PutNode(k, made + 1)
      /\ pc = "idle" /\ pc' = pc /\ index' = index /\ it' = it /\ link' = link
      /\ visited' = visited /\ present' = present
  BY <1>1, BoundAssumption DEF Put, walk, TypeOK, Value, Tables
<1>4. buckets' \in Tables /\ Proper(buckets')
  BY <1>1, <1>3, PutEffect
<1>5. TypeOK'
  BY <1>1, <1>2, <1>3, <1>4 DEF TypeOK, Tables
<1>6. AtNode'
  BY <1>3 DEF AtNode
<1>7. Complete'
  BY <1>1, <1>3 DEF Complete, VisitedKeys, Walking
<1> QED BY <1>2, <1>4, <1>5, <1>6, <1>7 DEF IInv

LEMMA DeleteIInv == ASSUME IInv, NEW k \in Key, Delete(k) PROVE IInv'
<1>1. TypeOK /\ Proper(buckets) /\ Owning /\ Counted /\ AtNode /\ Complete
  BY DEF IInv
<1>2. /\ DeleteNode(k) /\ buckets \in Tables
      /\ pc = "idle" /\ pc' = pc /\ index' = index /\ it' = it /\ link' = link
      /\ visited' = visited /\ present' = present
  BY <1>1 DEF Delete, walk, TypeOK, Tables
<1>3. Owning' /\ Counted' /\ size' \in Nat /\ freed' \in [Value -> Nat]
  BY <1>1, <1>2, DeleteOwning
<1>4. buckets' \in Tables /\ Proper(buckets') /\ made' = made
  BY <1>1, <1>2, DeleteEffect
<1>5. TypeOK'
  BY <1>1, <1>2, <1>3, <1>4 DEF TypeOK, Tables
<1>6. AtNode'
  BY <1>2 DEF AtNode
<1>7. Complete'
  BY <1>1, <1>2 DEF Complete, VisitedKeys, Walking
<1> QED BY <1>3, <1>4, <1>5, <1>6, <1>7 DEF IInv

LEMMA DestroyIInv == ASSUME IInv, Destroy PROVE IInv'
<1>1. TypeOK /\ Proper(buckets) /\ Owning /\ Counted /\ AtNode /\ Complete
  BY DEF IInv
<1>2. /\ buckets' \in Tables /\ Proper(buckets')
      /\ Owning' /\ Counted' /\ size' \in Nat /\ freed' \in [Value -> Nat]
  BY <1>1, DestroyOwning
<1>3. /\ pc' = "destroyed" /\ made' = made /\ index' = index /\ it' = it /\ link' = link
      /\ visited' = visited /\ present' = present
  BY DEF Destroy
<1>4. TypeOK'
  BY <1>1, <1>2, <1>3 DEF TypeOK, Tables
<1>5. AtNode'
  BY <1>3 DEF AtNode
<1>6. Complete'
  BY <1>1, <1>3 DEF Complete, VisitedKeys, Walking
<1> QED BY <1>2, <1>4, <1>5, <1>6 DEF IInv

LEMMA ForeachIInv == ASSUME IInv, Foreach PROVE IInv'
<1>1. TypeOK /\ Proper(buckets) /\ Owning /\ Counted /\ AtNode /\ Complete
  BY DEF IInv
<1>2. /\ pc = "idle" /\ pc' = "bucket" /\ index' = 0 /\ visited' = << >>
      /\ present' = KeysIn(buckets) /\ buckets' = buckets /\ size' = size /\ made' = made
      /\ freed' = freed /\ it' = it /\ link' = link
  BY Views DEF Foreach, table
<1>3. << >> \in Seq(Key) /\ Len(<< >>) = 0
  BY EmptySeq
<1>4. TypeOK' /\ Proper(buckets') /\ buckets \in Tables
  BY <1>1, <1>2, <1>3, CapacityAssumption DEF TypeOK, KeysIn, Tables
<1>5. Owning' /\ Counted'
  BY <1>1, <1>2 DEF Owning, Counted
<1>6. AtNode'
  BY <1>2 DEF AtNode
<1>7. VisitedKeys' = {}
  BY <1>2, <1>3 DEF VisitedKeys
<1>8. Rest' = KeysIn(buckets)
  BY <1>1, <1>2, <1>4, WholeWalk DEF Rest, Cursor
<1>9. IsFiniteSet(present')
  BY <1>1, <1>2 DEF Counted
<1>10. Complete'
  BY <1>2, <1>3, <1>7, <1>8, <1>9 DEF Complete
<1> QED BY <1>4, <1>5, <1>6, <1>10 DEF IInv

\* A step of the walk that leaves the table alone, and so everything but its place.
LEMMA WalkStep ==
    ASSUME IInv, UNCHANGED table, Walking,
           pc' \in {"idle", "bucket", "visit", "advance"},
           index' \in 0 .. Capacity, it' \in Key \cup {None}, link' \in Key \cup {None},
           visited' \in Seq(Key), present' = present, AtNode', Complete'
    PROVE  IInv'
<1>1. /\ TypeOK /\ Proper(buckets) /\ Owning /\ Counted
      /\ buckets' = buckets /\ size' = size /\ made' = made /\ freed' = freed
      /\ pc # "destroyed" /\ pc' # "destroyed"
  BY DEF IInv, table, Walking
<1>2. TypeOK'
  BY <1>1 DEF TypeOK
<1>3. Proper(buckets') /\ Owning' /\ Counted'
  BY <1>1 DEF Owning, Counted
<1> QED BY <1>2, <1>3 DEF IInv

LEMMA EnterBucketIInv == ASSUME IInv, EnterBucket PROVE IInv'
<1>1. /\ TypeOK /\ Proper(buckets) /\ AtNode /\ Complete /\ buckets \in Tables
      /\ index \in 0 .. Capacity /\ Capacity \in Nat
  BY CapacityAssumption DEF IInv, TypeOK, Tables
<1>2. /\ pc = "bucket" /\ UNCHANGED table /\ buckets' = buckets /\ link' = link
      /\ visited' = visited /\ present' = present /\ VisitedKeys' = VisitedKeys /\ Walking
  BY DEF EnterBucket, table, VisitedKeys, Walking
<1>3. Rest = KeysFrom(buckets, index, 1)
  BY <1>2 DEF Rest, Cursor
<1>4. CASE index < Capacity /\ buckets[index] # << >>
           /\ it' = buckets[index][1].key /\ pc' = "visit" /\ index' = index
  <2>1. index \in Index
    BY <1>1, <1>4 DEF Index
  <2>2. 1 \in 1 .. Len(buckets[index])
    <3>1. buckets[index] \in Seq(Node) /\ Len(buckets[index]) \in Nat
      BY <1>1, <2>1, ChainType
    <3>2. Len(buckets[index]) # 0
      BY <1>4, <3>1, EmptySeq
    <3> QED BY <3>1, <3>2
  <2>3. /\ it' \in KeysIn(buckets) /\ BucketOf(it') = index /\ Slot(buckets, it') = 1
        /\ it' \in Key
    <3> DEFINE x == buckets[index][1].key
    <3>1. x \in KeysIn(buckets) /\ BucketOf(x) = index /\ Slot(buckets, x) = 1
      BY <1>1, <2>1, <2>2, KeyFound
    <3>2. x \in Key
      BY <3>1 DEF KeysIn
    <3>3. it' = x
      BY <1>4
    <3> HIDE DEF x
    <3> QED BY <3>1, <3>2, <3>3
  <2>4. AtNode'
    BY <1>2, <1>4, <2>3 DEF AtNode
  <2>5. Rest' = Rest
    BY <1>2, <1>3, <1>4, <2>3 DEF Rest, Cursor
  <2>6. Complete'
    BY <1>1, <1>2, <2>5 DEF Complete
  <2> QED BY <1>1, <1>2, <1>4, <2>3, <2>4, <2>6, WalkStep DEF TypeOK
<1>5. CASE index < Capacity /\ buckets[index] = << >>
           /\ index' = index + 1 /\ pc' = pc /\ it' = it
  <2>1. index \in Index /\ index' \in 0 .. Capacity
    BY <1>1, <1>5 DEF Index
  <2>2. Len(buckets[index]) = 0
    BY <1>5, EmptySeq
  <2>3. KeysFrom(buckets, index, 1) = KeysFrom(buckets, index + 1, 1)
    <3>1. Len(buckets[index]) + 1 = 1
      BY <2>2
    <3>2. KeysFrom(buckets, index, Len(buckets[index]) + 1) = KeysFrom(buckets, index + 1, 1)
      BY <1>1, <2>1, NextBucket
    <3> QED BY <3>1, <3>2
  <2>4. AtNode'
    BY <1>2, <1>5 DEF AtNode
  <2>5. Rest' = Rest
    BY <1>2, <1>3, <1>5, <2>3 DEF Rest, Cursor
  <2>6. Complete'
    BY <1>1, <1>2, <2>5 DEF Complete
  <2> QED BY <1>1, <1>2, <1>5, <2>1, <2>4, <2>6, WalkStep DEF TypeOK
<1>6. CASE index = Capacity /\ pc' = "idle" /\ index' = index /\ it' = it
  <2>1. AtNode'
    BY <1>6 DEF AtNode
  <2>2. Complete'
    BY <1>1, <1>2, <1>6 DEF Complete, Walking
  <2> QED BY <1>1, <1>2, <1>6, <2>1, <2>2, WalkStep DEF TypeOK
<1> QED BY <1>4, <1>5, <1>6 DEF EnterBucket

LEMMA VisitKeepIInv == ASSUME IInv, VisitKeep PROVE IInv'
<1>1. /\ TypeOK /\ Proper(buckets) /\ AtNode /\ Complete /\ buckets \in Tables
      /\ visited \in Seq(Key)
  BY DEF IInv, TypeOK, Tables
<1>2. /\ pc = "visit" /\ pc' = "advance" /\ UNCHANGED table /\ buckets' = buckets
      /\ visited' = Append(visited, it) /\ present' = present
      /\ index' = index /\ it' = it /\ link' = link /\ Walking
  BY DEF VisitKeep, table, Walking
<1>3. it \in KeysIn(buckets) /\ it \in Key /\ BucketOf(it) = index
  BY <1>1, <1>2 DEF AtNode
<1>4. Rest = KeysFrom(buckets, index, Slot(buckets, it))
  BY <1>2 DEF Rest, Cursor
<1>5. Rest' = Rest \ {it} /\ it \in Rest
  <2>1. Rest' = KeysFrom(buckets, index, Slot(buckets, it) + 1)
    BY <1>2, <1>3 DEF Rest, Cursor
  <2> QED BY <1>1, <1>3, <1>4, <2>1, NextNode
<1>6. it \notin VisitedKeys
  BY <1>1, <1>2, <1>5 DEF Complete
<1>7. /\ visited' \in Seq(Key) /\ VisitedKeys' = VisitedKeys \cup {it}
      /\ \A i, j \in 1 .. Len(visited') : visited'[i] = visited'[j] => i = j
  BY <1>1, <1>2, <1>3, <1>6, VisitOne DEF Complete
<1>8. Complete'
  <2>1. present = VisitedKeys \cup Rest /\ VisitedKeys \cap Rest = {} /\ IsFiniteSet(present)
    BY <1>1, <1>2 DEF Complete
  <2> QED BY <1>2, <1>5, <1>7, <2>1 DEF Complete
<1>9. AtNode'
  BY <1>2, <1>3 DEF AtNode
<1> QED BY <1>1, <1>2, <1>7, <1>8, <1>9, WalkStep DEF TypeOK

\* The link of a node is the key behind it in its bucket.
LEMMA LinkOfNode ==
    ASSUME NEW k \in KeysIn(buckets), buckets \in Tables, Proper(buckets)
    PROVE  /\ NextKey(k) = None => Slot(buckets, k) = Len(buckets[BucketOf(k)])
           /\ NextKey(k) # None =>
                 /\ NextKey(k) \in KeysIn(buckets) /\ NextKey(k) \in Key /\ NextKey(k) # k
                 /\ BucketOf(NextKey(k)) = BucketOf(k)
                 /\ Slot(buckets, NextKey(k)) = Slot(buckets, k) + 1
<1> DEFINE i == BucketOf(k)
           n == Slot(buckets, k)
           x == buckets[i][n + 1].key
<1>1. NextKey(k) = IF n < Len(buckets[i]) THEN x ELSE None
  BY KeyPlace, Views DEF NextKey
<1>2. /\ i \in Index /\ n \in Nat /\ 1 <= n /\ n <= Len(buckets[i]) /\ Len(buckets[i]) \in Nat
  BY KeyPlace, PlaceType
<1> HIDE DEF i, n
<1>3. CASE n < Len(buckets[i])
  <2>1. n + 1 \in 1 .. Len(buckets[i])
    BY <1>2, <1>3
  <2>2. x \in KeysIn(buckets) /\ x \in Key /\ BucketOf(x) = i /\ Slot(buckets, x) = n + 1
    <3> DEFINE j == n + 1
    <3>1. j \in 1 .. Len(buckets[i]) /\ buckets[i][j].key = x
      BY <2>1
    <3> HIDE DEF j, x
    <3>2. x \in KeysIn(buckets) /\ BucketOf(x) = i /\ Slot(buckets, x) = j
      BY <1>2, <3>1, KeyFound
    <3> QED BY <3>2 DEF KeysIn, j
  <2>3. x # k
    BY <1>2, <2>2 DEF n
  <2>4. x # None
    BY <2>2, NoneAssumption
  <2> HIDE DEF x
  <2> QED BY <1>1, <1>3, <2>2, <2>3, <2>4 DEF i, n
<1>4. CASE ~(n < Len(buckets[i]))
  <2>1. n = Len(buckets[i])
    BY <1>2, <1>4
  <2> QED BY <1>1, <1>4, <2>1 DEF i, n
<1> QED BY <1>3, <1>4

LEMMA VisitDeleteIInv == ASSUME IInv, VisitDelete PROVE IInv'
<1>1. /\ TypeOK /\ Proper(buckets) /\ AtNode /\ Complete /\ buckets \in Tables
      /\ visited \in Seq(Key) /\ Owning /\ Counted /\ index \in 0 .. Capacity
  BY DEF IInv, TypeOK, Tables
<1>2. /\ pc = "visit" /\ pc' = "advance" /\ DeleteNode(it) /\ link' = NextKey(it)
      /\ visited' = Append(visited, it) /\ present' = present
      /\ index' = index /\ it' = it
  BY DEF VisitDelete
<1>3. it \in KeysIn(buckets) /\ it \in Key /\ BucketOf(it) = index
  BY <1>1, <1>2 DEF AtNode
<1>4. /\ buckets' = Unlinked(buckets, it)
      /\ buckets' \in Tables /\ Proper(buckets') /\ made' = made
      /\ KeysIn(buckets') = KeysIn(buckets) \ {it}
  BY <1>1, <1>2, <1>3, DeleteEffect
<1>5. Owning' /\ Counted' /\ size' \in Nat /\ freed' \in [Value -> Nat]
  BY <1>1, <1>2, <1>3, DeleteOwning
<1>6. /\ Len(buckets'[index]) = Len(buckets[index]) - 1
      /\ \A x \in KeysIn(buckets') :
            Slot(buckets', x) = IF BucketOf(x) = index /\ Slot(buckets, it) < Slot(buckets, x)
                                THEN Slot(buckets, x) - 1 ELSE Slot(buckets, x)
  BY <1>1, <1>3, <1>4, UnlinkNode
<1>7. /\ link' = None => Slot(buckets, it) = Len(buckets[index])
      /\ link' # None => /\ link' \in KeysIn(buckets') /\ link' \in Key
                         /\ BucketOf(link') = index /\ link' \in KeysIn(buckets)
                         /\ Slot(buckets, link') = Slot(buckets, it) + 1
  <2> DEFINE n == NextKey(it)
  <2>1. /\ n = None => Slot(buckets, it) = Len(buckets[index])
        /\ n # None => /\ n \in KeysIn(buckets) /\ n \in Key /\ n # it
                       /\ BucketOf(n) = index /\ Slot(buckets, n) = Slot(buckets, it) + 1
    BY <1>1, <1>3, LinkOfNode
  <2>2. link' = n
    BY <1>2
  <2> HIDE DEF n
  <2> QED BY <1>4, <2>1, <2>2
<1>8. /\ Slot(buckets, it) \in Nat /\ Len(buckets[index]) \in Nat
  BY <1>1, <1>3, PlaceType
<1>9. Cursor' = Slot(buckets, it)
  <2>1. Cursor' = IF link' = None THEN Len(buckets'[index]) + 1 ELSE Slot(buckets', link')
    <3>1. ~(it' \in KeysIn(buckets')) /\ pc' = "advance" /\ index' = index
      BY <1>2, <1>4
    <3> QED BY <3>1 DEF Cursor
  <2>2. CASE link' = None
    BY <1>6, <1>7, <1>8, <2>1, <2>2
  <2>3. CASE link' # None
    <3> DEFINE x == link'
    <3>1. /\ x \in KeysIn(buckets') /\ BucketOf(x) = index
          /\ Slot(buckets, x) = Slot(buckets, it) + 1 /\ Cursor' = Slot(buckets', x)
      BY <1>7, <2>1, <2>3
    <3> HIDE DEF x
    <3>2. Slot(buckets', x) = Slot(buckets, x) - 1
      BY <1>6, <1>8, <3>1
    <3> QED BY <1>8, <3>1, <3>2
  <2> QED BY <2>2, <2>3
<1>10. Rest = KeysFrom(buckets, index, Slot(buckets, it))
  BY <1>2 DEF Rest, Cursor
<1>11. Rest' = Rest \ {it} /\ it \in Rest
  <2>1. Rest' = KeysFrom(buckets', index, Slot(buckets, it))
    BY <1>2, <1>9 DEF Rest
  <2>2. KeysFrom(buckets', index, Slot(buckets, it))
          = KeysFrom(buckets, index, Slot(buckets, it)) \ {it}
    BY <1>1, <1>3, <1>4, NextOfUnlinked
  <2>3. it \in KeysFrom(buckets, index, Slot(buckets, it))
    BY <1>1, <1>3, NextNode
  <2> QED BY <1>10, <2>1, <2>2, <2>3
<1>12. it \notin VisitedKeys
  BY <1>1, <1>2, <1>11 DEF Complete, Walking
<1>13. /\ visited' \in Seq(Key) /\ VisitedKeys' = VisitedKeys \cup {it}
       /\ \A i, j \in 1 .. Len(visited') : visited'[i] = visited'[j] => i = j
  BY <1>1, <1>2, <1>3, <1>12, VisitOne DEF Complete
<1>14. Complete'
  <2>1. present = VisitedKeys \cup Rest /\ VisitedKeys \cap Rest = {} /\ IsFiniteSet(present)
    BY <1>1, <1>2 DEF Complete, Walking
  <2> QED BY <1>2, <1>11, <1>13, <2>1 DEF Complete
<1>15. AtNode'
  BY <1>2, <1>3, <1>7 DEF AtNode
<1>16. TypeOK'
  BY <1>1, <1>2, <1>4, <1>5, <1>7, <1>13 DEF TypeOK, Tables
<1> QED BY <1>4, <1>5, <1>14, <1>15, <1>16 DEF IInv

LEMMA AdvanceIInv == ASSUME IInv, Advance PROVE IInv'
<1>1. /\ TypeOK /\ Proper(buckets) /\ AtNode /\ Complete /\ buckets \in Tables
      /\ visited \in Seq(Key) /\ index \in 0 .. Capacity
  BY DEF IInv, TypeOK, Tables
<1>2. /\ pc = "advance" /\ UNCHANGED table /\ buckets' = buckets /\ link' = None
      /\ visited' = visited /\ present' = present /\ VisitedKeys' = VisitedKeys /\ Walking
  BY DEF Advance, table, VisitedKeys, Walking
<1>3. it \in Key /\ BucketOf(it) = index /\ index \in Index /\ index + 1 \in 0 .. Capacity
  <2>1. it \in Key /\ BucketOf(it) = index
    BY <1>1, <1>2 DEF AtNode
  <2>2. index \in Index
    BY <2>1, BucketIndex
  <2> QED BY <2>1, <2>2, CapacityAssumption DEF Index
<1>4. /\ Link = None => Cursor = Len(buckets[index]) + 1
      /\ Link # None => /\ Link \in KeysIn(buckets) /\ Link \in Key
                        /\ BucketOf(Link) = index /\ Cursor = Slot(buckets, Link)
  <2>1. CASE it \in KeysIn(buckets)
    <3>1. Link = NextKey(it) /\ Cursor = Slot(buckets, it) + 1
      BY <1>2, <1>3, <2>1, Views DEF Link, Cursor
    <3> QED BY <1>1, <1>3, <2>1, <3>1, LinkOfNode
  <2>2. CASE it \notin KeysIn(buckets)
    <3>1. Link = link
      BY <1>3, <2>2, Views DEF Link
    <3>2. Cursor = IF link = None THEN Len(buckets[index]) + 1 ELSE Slot(buckets, link)
      BY <1>2, <2>2 DEF Cursor
    <3>3. link # None => link \in KeysIn(buckets) /\ BucketOf(link) = index
      BY <1>1, <1>2, <2>2 DEF AtNode
    <3> QED BY <3>1, <3>2, <3>3 DEF KeysIn
  <2> QED BY <2>1, <2>2
<1>5. CASE Link # None /\ it' = Link /\ pc' = "visit" /\ index' = index
  <2>1. AtNode'
    BY <1>2, <1>4, <1>5 DEF AtNode
  <2>2. Rest' = Rest
    BY <1>2, <1>4, <1>5 DEF Rest, Cursor
  <2>3. Complete'
    BY <1>1, <1>2, <2>2 DEF Complete
  <2> QED BY <1>1, <1>2, <1>4, <1>5, <2>1, <2>3, WalkStep
<1>6. CASE Link = None /\ it' = None /\ index' = index + 1 /\ pc' = "bucket"
  <2>1. AtNode'
    BY <1>6 DEF AtNode
  <2>2. Rest = KeysFrom(buckets, index, Len(buckets[index]) + 1)
    BY <1>4, <1>6 DEF Rest
  <2>3. Rest' = KeysFrom(buckets, index + 1, 1)
    BY <1>2, <1>6 DEF Rest, Cursor
  <2>4. Complete'
    BY <1>1, <1>2, <1>3, <2>2, <2>3, NextBucket DEF Complete
  <2> QED BY <1>1, <1>2, <1>3, <1>6, <2>1, <2>4, WalkStep
<1> QED BY <1>5, <1>6 DEF Advance

LEMMA StepIInv == IInv /\ [Next]_vars => IInv'
<1> SUFFICES ASSUME IInv, [Next]_vars PROVE IInv'
  OBVIOUS
<1>1. ASSUME NEW k \in Key, Put(k) PROVE IInv'
  BY <1>1, PutIInv
<1>2. ASSUME NEW k \in Key, Delete(k) PROVE IInv'
  BY <1>2, DeleteIInv
<1>3. CASE UNCHANGED vars
  <2>1. UNCHANGED <<buckets, size, made, freed, pc, index, it, link, visited, present>>
    BY <1>3 DEF vars, table, walk
  <2>2. TypeOK' /\ Proper(buckets')
    BY <2>1 DEF IInv, TypeOK
  <2>3. Owning' /\ Counted' /\ AtNode'
    BY <2>1 DEF IInv, Owning, Counted, AtNode
  <2>4. Cursor' = Cursor
    BY <2>1 DEF Cursor
  <2>5. Rest' = Rest /\ VisitedKeys' = VisitedKeys /\ Walking' = Walking
    BY <2>1, <2>4 DEF Rest, VisitedKeys, Walking
  <2>6. Complete'
    BY <2>1, <2>5 DEF IInv, Complete
  <2> QED BY <2>2, <2>3, <2>6 DEF IInv
<1> QED BY <1>1, <1>2, <1>3, DestroyIInv, ForeachIInv, EnterBucketIInv, VisitKeepIInv,
           VisitDeleteIInv, AdvanceIInv DEF Next

-----------------------------------------------------------------------------
(* The theorems. *)

\* In every reachable state the table is proper, each value has at most one owner, and
\* a walk has visited what was there at its start, without what is ahead of it.
THEOREM HashInvariant == Spec => []IInv
BY InitIInv, StepIInv, PTL DEF Spec

\* The state of the hash has its type.
THEOREM HashTypeCorrect == Spec => []TypeOK
<1>1. IInv => TypeOK
  BY DEF IInv
<1> QED BY <1>1, HashInvariant, PTL

\* hash_put() and hash_delete() leave each key one node, in the bucket where hash_get()
\* looks for it, and count them.
THEOREM TableWellChained == Spec => []WellChained
<1>1. ASSUME IInv PROVE WellChained
  <2>1. buckets \in Tables /\ Proper(buckets) /\ Counted
    BY <1>1 DEF IInv, TypeOK, Tables
  <2>2. ASSUME NEW i \in Index, NEW j \in 1 .. Len(buckets[i])
        PROVE  BucketOf(buckets[i][j].key) = i /\ Positions(buckets[i][j].key) = {j}
    <3> DEFINE k == buckets[i][j].key
    <3> HIDE DEF k
    <3>1. k \in Key /\ BucketOf(k) = i /\ Slots(buckets, k) = {j}
      <4>1. buckets[i][j].key = k
        BY DEF k
      <4>2. k \in KeysIn(buckets) /\ BucketOf(k) = i /\ Slot(buckets, k) = j
        BY <2>1, <4>1, KeyFound
      <4>3. Slots(buckets, k) = {Slot(buckets, k)}
        BY <2>1, <4>2, KeyPlace
      <4> QED BY <4>2, <4>3 DEF KeysIn
    <3>2. BucketOf(k) = i /\ Positions(k) = {j}
      BY <3>1, Views
    <3> QED BY <3>2 DEF k
  <2>3. pc # "destroyed" => size = Cardinality(Keys)
    BY <2>1, Views DEF Counted
  <2> QED BY <2>2, <2>3 DEF WellChained
<1> QED BY <1>1, HashInvariant, PTL

\* A value given to hash_put() is in the table until value_free_func() gets it, once:
\* when it is replaced, deleted, deleted in a walk, or the table destroyed.
THEOREM ValuesOwnedOrFreedOnce == Spec => []OwnedOrFreedOnce
<1>1. ASSUME IInv PROVE OwnedOrFreedOnce
  <2>1. TypeOK /\ Proper(buckets) /\ Owning /\ \A v \in 1 .. made : v \in Value
    BY <1>1, BoundAssumption DEF IInv, TypeOK, Value
  <2> QED BY <2>1, Owners DEF OwnedOrFreedOnce
<1> QED BY <1>1, HashInvariant, PTL

\* hash_foreach() calls its function once for each node that was there, although the
\* function may delete that node.
THEOREM WalkVisitsEachOnce == Spec => []VisitsEachOnce
<1>1. ASSUME IInv PROVE VisitsEachOnce
  <2>1. /\ TypeOK /\ Complete /\ Proper(buckets) /\ buckets \in Tables
        /\ visited \in Seq(Key)
    BY <1>1 DEF IInv, TypeOK, Tables
  <2>2. /\ \A i, j \in 1 .. Len(visited) : visited[i] = visited[j] => i = j
        /\ \A i \in 1 .. Len(visited) : visited[i] \in present
    BY <2>1 DEF Complete, VisitedKeys
  <2>3. ASSUME pc = "bucket", index = Capacity PROVE Len(visited) = Cardinality(present)
    <3>1. Rest = {}
      BY <2>1, <2>3, WholeWalk DEF Rest, Cursor
    <3>2. present = VisitedKeys
      BY <2>1, <2>3, <3>1 DEF Complete, Walking
    <3>3. Len(visited) \in Nat
      BY <2>1, LenProperties
    <3>4. visited \in Bijection(1 .. Len(visited), present)
      <4>1. visited \in [1 .. Len(visited) -> present]
        BY <2>1, <2>2, LenProperties
      <4>2. \A x \in present : \E i \in 1 .. Len(visited) : visited[i] = x
        BY <3>2 DEF VisitedKeys
      <4> QED BY <2>2, <4>1, <4>2 DEF Bijection, Injection, Surjection, IsInjective
    <3>5. ExistsBijection(1 .. Len(visited), present)
      BY <3>4 DEF ExistsBijection
    <3> QED BY <3>3, <3>5, FS_CountingElements
  <2> QED BY <2>2, <2>3 DEF VisitsEachOnce
<1> QED BY <1>1, HashInvariant, PTL

-----------------------------------------------------------------------------
(* The refinement. *)

\* The map of a table.
MapOf(b) == [k \in Key |-> ValueIn(b, k)]

LEMMA MapView ==
    LET m == [k \in Key |-> Lookup(k)] IN m = MapOf(buckets) /\ m' = MapOf(buckets')
BY DEF MapOf, Lookup, Present, Position, Positions, ValueIn, Slots, Slot

\* hash_put(), hash_delete() and hash_destroy() do to the map of the table what the
\* abstract operations do to a map, and a walk changes it only where it deletes.
THEOREM HashImplementsMap == Spec => ImplementsMap
<1> DEFINE m == [k \in Key |-> Lookup(k)]
<1>1. Init => Map!Init
  <2> SUFFICES ASSUME Init PROVE Map!Init
    OBVIOUS
  <2>1. buckets = [i \in Index |-> << >>]
    BY DEF Init
  <2>2. \A k \in Key : ValueIn(buckets, k) = None
    BY <2>1, EmptyTable
  <2> QED BY <2>2, Views DEF Map!Init
<1>2. IInv /\ [Next]_vars => [Map!Next]_m
  <2> SUFFICES ASSUME IInv, [Next]_vars PROVE Map!Next \/ m' = m
    OBVIOUS
  <2>1. m = MapOf(buckets) /\ m' = MapOf(buckets')
    BY MapView
  <2>2. buckets \in Tables /\ Proper(buckets)
    BY DEF IInv, TypeOK, Tables
  <2> HIDE DEF m
  <2>3. ASSUME buckets' = buckets PROVE m' = m
    BY <2>1, <2>3
  <2>4. ASSUME NEW k \in Key, Put(k) PROVE Map!Next
    <3>1. made + 1 \in Value /\ PutNode(k, made + 1)
      BY <2>4, BoundAssumption DEF IInv, TypeOK, Put, Value
    <3>2. \A x \in Key :
             ValueIn(buckets', x) = IF x = k THEN made + 1 ELSE ValueIn(buckets, x)
      BY <2>2, <3>1, PutEffect
    <3>3. m' = [m EXCEPT ![k] = made + 1]
      BY <2>1, <3>2 DEF MapOf
    <3> QED BY <3>1, <3>3 DEF Map!Next, Map!Put, m
  <2>5. ASSUME NEW k \in Key, DeleteNode(k) PROVE Map!Next
    <3>1. /\ k \in KeysIn(buckets)
          /\ \A x \in Key : ValueIn(buckets', x) = IF x = k THEN None ELSE ValueIn(buckets, x)
      BY <2>2, <2>5, DeleteEffect
    <3>2. m' = [m EXCEPT ![k] = None]
      BY <2>1, <3>1 DEF MapOf
    <3>3. m[k] # None
      BY <2>1, <2>2, <3>1, ValueIsNotNone DEF MapOf
    <3> QED BY <3>2, <3>3 DEF Map!Next, Map!Delete, m
  <2>6. ASSUME NEW k \in Key, Delete(k) PROVE Map!Next
    BY <2>5, <2>6 DEF Delete
  <2>7. ASSUME VisitDelete PROVE Map!Next
    <3>1. it \in Key /\ DeleteNode(it)
      BY <2>7 DEF VisitDelete, IInv, AtNode
    <3> QED BY <2>5, <3>1
  <2>8. ASSUME Destroy PROVE Map!Next
    <3>1. buckets' = [i \in Index |-> << >>]
      BY <2>8 DEF Destroy
    <3>2. \A x \in Key : ValueIn(buckets', x) = None
      BY <3>1, EmptyTable
    <3>3. m' = [k \in Key |-> None]
      BY <2>1, <3>2 DEF MapOf
    <3> QED BY <3>3 DEF Map!Next, Map!Clear, m
  <2>9. ASSUME UNCHANGED vars \/ Foreach \/ EnterBucket \/ VisitKeep \/ Advance
        PROVE  buckets' = buckets
    BY <2>9 DEF vars, table, Foreach, EnterBucket, VisitKeep, Advance
  <2> QED BY <2>3, <2>4, <2>6, <2>7, <2>8, <2>9 DEF Next
<1> QED BY <1>1, <1>2, HashInvariant, PTL DEF Spec, ImplementsMap, Map!Spec

=============================================================================
