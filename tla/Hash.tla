--------------------------------- MODULE Hash ---------------------------------
(***************************************************************************)
(* The table of client records (src/src/commons/containers/hash): buckets  *)
(* of chained nodes.  A bucket is the sequence of its nodes; the link of a *)
(* node is the key of its successor.                                       *)
(*                                                                         *)
(* hash_foreach() takes several steps, because the function it calls may   *)
(* delete the node that it is called for, as the server does when a client *)
(* has hung up.                                                            *)
(***************************************************************************)
EXTENDS Naturals, Sequences, FiniteSets

CONSTANTS
    Key,        \* the keys, up to key_eq_func()
    HashOf,     \* hash_func(): Key -> uint32
    Capacity,   \* the number of buckets
    MaxValues,  \* bound: how many values are ever put
    None        \* NULL

ASSUME CapacityAssumption == Capacity \in Nat \ {0}
ASSUME HashAssumption == HashOf \in [Key -> Nat]
ASSUME BoundAssumption == MaxValues \in Nat
ASSUME NoneAssumption == None \notin Key /\ None \notin Nat

\* Each value is allocated for one hash_put().
Value == 1 .. MaxValues
Node == [key : Key, value : Value]
Index == 0 .. Capacity - 1

VARIABLES
    buckets,    \* hash->buckets
    size,       \* hash->size
    made,       \* how many values have been put
    freed,      \* history: freed[v] is how often value_free_func() got value v
    pc,         \* "idle", "bucket", "visit", "advance", "destroyed"
    index,      \* hash_foreach(): i
    it,         \* hash_foreach(): the key of the node it points to
    link,       \* what is read as the link of that node once it is freed
    visited,    \* history: the keys that the walk has visited
    present     \* history: the keys in the hash when the walk began

table == <<buckets, size, made, freed>>
walk == <<pc, index, it, link, visited, present>>
vars == <<table, walk>>

BucketOf(k) == HashOf[k] % Capacity

Positions(k) == { j \in 1 .. Len(buckets[BucketOf(k)]) : buckets[BucketOf(k)][j].key = k }
Present(k) == Positions(k) # {}
Position(k) == CHOOSE j \in Positions(k) : TRUE
Keys == { k \in Key : Present(k) }

\* hash_get()
Lookup(k) == IF Present(k) THEN buckets[BucketOf(k)][Position(k)].value ELSE None

Init ==
    /\ buckets = [i \in Index |-> << >>]
    /\ size = 0
    /\ made = 0
    /\ freed = [v \in Value |-> 0]
    /\ pc = "idle" /\ index = 0 /\ it = None /\ link = None
    /\ visited = << >> /\ present = {}

-----------------------------------------------------------------------------
\* Mutant of PutNode: a key that is known gets a second node.
PutTwice(k, v) ==
    /\ buckets' = [buckets EXCEPT ![BucketOf(k)] = Append(@, [key |-> k, value |-> v])]
    /\ size' = size + 1
    /\ UNCHANGED freed

\* Mutant of PutNode: a new node is not counted.
PutUncounted(k, v) ==
    /\ ~Present(k)
    /\ buckets' = [buckets EXCEPT ![BucketOf(k)] = Append(@, [key |-> k, value |-> v])]
    /\ UNCHANGED <<size, freed>>

\* hash_put(): the node of a known key is used again and its old value freed; a new
\* node is linked behind the last one.
PutNode(k, v) ==
    \/ /\ Present(k)
       /\ buckets' = [buckets EXCEPT ![BucketOf(k)][Position(k)] = [key |-> k, value |-> v]]
       /\ freed' = [freed EXCEPT ![Lookup(k)] = @ + 1]
       /\ UNCHANGED size
    \/ /\ ~Present(k)
       /\ buckets' = [buckets EXCEPT ![BucketOf(k)] = Append(@, [key |-> k, value |-> v])]
       /\ size' = size + 1
       /\ UNCHANGED freed

\* Mutant of Unlink: the bucket ends where the node was.
CutAt(chain, j) == SubSeq(chain, 1, j - 1)

\* The chain without its node at j.
Unlink(chain, j) == SubSeq(chain, 1, j - 1) \o SubSeq(chain, j + 1, Len(chain))

\* Mutant of DeleteNode: the value is left to its owner.
DeleteNodeOnly(k) ==
    /\ Present(k)
    /\ buckets' = [buckets EXCEPT ![BucketOf(k)] = Unlink(@, Position(k))]
    /\ size' = size - 1
    /\ UNCHANGED <<made, freed>>

\* hash_delete() of a key that is there.
DeleteNode(k) ==
    /\ Present(k)
    /\ freed' = [freed EXCEPT ![Lookup(k)] = @ + 1]
    /\ buckets' = [buckets EXCEPT ![BucketOf(k)] = Unlink(@, Position(k))]
    /\ size' = size - 1
    /\ UNCHANGED made

Put(k) ==
    /\ pc = "idle" /\ made < MaxValues
    /\ made' = made + 1
    /\ PutNode(k, made + 1)
    /\ UNCHANGED walk

Delete(k) ==
    /\ pc = "idle"
    /\ DeleteNode(k)
    /\ UNCHANGED walk

\* hash_destroy()
Destroy ==
    /\ pc = "idle"
    /\ freed' = [v \in Value |-> freed[v] + Cardinality({k \in Keys : Lookup(k) = v})]
    /\ buckets' = [i \in Index |-> << >>]
    /\ pc' = "destroyed"
    /\ UNCHANGED <<size, made, index, it, link, visited, present>>

-----------------------------------------------------------------------------
(* hash_foreach() *)

\* The link of the node of k, while it is in its chain.
NextKey(k) ==
    LET chain == buckets[BucketOf(k)]
    IN  IF Position(k) < Len(chain) THEN chain[Position(k) + 1].key ELSE None

Foreach ==
    /\ pc = "idle"
    /\ pc' = "bucket" /\ index' = 0
    /\ visited' = << >> /\ present' = Keys
    /\ UNCHANGED <<table, it, link>>

\* Mutant of EnterBucket: the loop goes on to its condition, not to its i++.
EnterBucketAgain ==
    /\ pc = "bucket"
    /\ \/ /\ index < Capacity /\ buckets[index] # << >>
          /\ it' = buckets[index][1].key
          /\ pc' = "visit"
       \/ /\ index < Capacity /\ buckets[index] = << >>
          /\ UNCHANGED <<pc, it>>
       \/ /\ index = Capacity
          /\ pc' = "idle"
          /\ UNCHANGED it
    /\ UNCHANGED <<table, index, link, visited, present>>

\* The first node of the next bucket that is not empty; or there is none.
EnterBucket ==
    /\ pc = "bucket"
    /\ \/ /\ index < Capacity /\ buckets[index] # << >>
          /\ it' = buckets[index][1].key
          /\ pc' = "visit"
          /\ UNCHANGED index
       \/ /\ index < Capacity /\ buckets[index] = << >>
          /\ index' = index + 1
          /\ UNCHANGED <<pc, it>>
       \/ /\ index = Capacity
          /\ pc' = "idle"
          /\ UNCHANGED <<index, it>>
    /\ UNCHANGED <<table, link, visited, present>>

\* The function returns and the node is still there.
VisitKeep ==
    /\ pc = "visit"
    /\ visited' = Append(visited, it)
    /\ pc' = "advance"
    /\ UNCHANGED <<table, index, it, link, present>>

\* The function deletes the node it was called for.  free() leaves the link in it,
\* the third of its three words, as it was.
VisitDelete ==
    /\ pc = "visit"
    /\ visited' = Append(visited, it)
    /\ link' = NextKey(it)
    /\ DeleteNode(it)
    /\ pc' = "advance"
    /\ UNCHANGED <<index, it, present>>

\* Mutant of Link: behind a node that was freed the walk starts the bucket again.
LinkOfHead ==
    IF Present(it) THEN NextKey(it)
    ELSE IF buckets[index] = << >> THEN None ELSE buckets[index][1].key

\* it->next
Link == IF Present(it) THEN NextKey(it) ELSE link

Advance ==
    /\ pc = "advance"
    /\ \/ /\ Link # None
          /\ it' = Link
          /\ pc' = "visit"
          /\ UNCHANGED index
       \/ /\ Link = None
          /\ it' = None
          /\ index' = index + 1
          /\ pc' = "bucket"
    /\ link' = None
    /\ UNCHANGED <<table, visited, present>>

Next ==
    \/ \E k \in Key : Put(k) \/ Delete(k)
    \/ Destroy
    \/ Foreach \/ EnterBucket \/ VisitKeep \/ VisitDelete \/ Advance

Spec == Init /\ [][Next]_vars

FairSpec == Spec /\ WF_vars(EnterBucket \/ VisitKeep \/ VisitDelete \/ Advance)

-----------------------------------------------------------------------------
TypeOK ==
    /\ buckets \in [Index -> Seq(Node)]
    /\ size \in Nat /\ made \in 0 .. MaxValues
    /\ freed \in [Value -> Nat]
    /\ pc \in {"idle", "bucket", "visit", "advance", "destroyed"}
    /\ index \in 0 .. Capacity
    /\ it \in Key \cup {None} /\ link \in Key \cup {None}
    /\ visited \in Seq(Key) /\ present \subseteq Key

\* A key has one node, in the bucket where it is looked for; size counts them.
WellChained ==
    /\ \A i \in Index : \A j \in 1 .. Len(buckets[i]) :
          /\ BucketOf(buckets[i][j].key) = i
          /\ Positions(buckets[i][j].key) = {j}
    /\ pc # "destroyed" => size = Cardinality(Keys)

\* A value that was put is in the hash, or was freed once: none is lost, and none is
\* freed while the hash still refers to it, or twice.
OwnedOrFreedOnce ==
    \A v \in 1 .. made :
        freed[v] + Cardinality({k \in Keys : Lookup(k) = v}) = 1

\* A walk calls the function once for every node that was there when it began, also
\* for those behind a node that the function has deleted, and for no other.
VisitsEachOnce ==
    /\ \A i, j \in 1 .. Len(visited) : visited[i] = visited[j] => i = j
    /\ \A i \in 1 .. Len(visited) : visited[i] \in present
    /\ pc = "bucket" /\ index = Capacity => Len(visited) = Cardinality(present)

\* Every operation is that of a map.
Map == INSTANCE HashMap WITH map <- [k \in Key |-> Lookup(k)]
ImplementsMap == Map!Spec

\* A walk comes to an end, whatever it deletes.
WalkEnds == pc = "bucket" ~> pc = "idle"
=============================================================================
