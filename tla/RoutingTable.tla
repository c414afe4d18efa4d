---------------------------- MODULE RoutingTable ----------------------------
(***************************************************************************)
(* dht/node.go and dht/routing.go: node ids, their XOR distance, and the   *)
(* k-buckets.  A table is a partial function from ids to addresses; the    *)
(* order within a bucket is left out, since FindClosest sorts and nothing  *)
(* is evicted.                                                             *)
(***************************************************************************)
EXTENDS Naturals, FiniteSets

CONSTANTS IdBits,       \* 160 in the code
          SelfID,       \* the id of this node
          BucketSize    \* 8 in the code

NodeID == [1 .. IdBits -> {0, 1}]

ASSUME TableAssumption ==
    /\ IdBits \in Nat \ {0} /\ BucketSize \in Nat \ {0}
    /\ SelfID \in NodeID

XORDistance(a, b) == [i \in 1 .. IdBits |-> IF a[i] = b[i] THEN 0 ELSE 1]

\* CompareDistance(target, a, b) < 0.
Closer(target, a, b) ==
    LET da == XORDistance(target, a)
        db == XORDistance(target, b)
    IN  \E i \in 1 .. IdBits :
            da[i] < db[i] /\ \A j \in 1 .. i - 1 : da[j] = db[j]

\* The number of leading zeros in the distance to this node.
BucketIndex(id) ==
    IF id = SelfID THEN IdBits - 1
    ELSE CHOOSE i \in 0 .. IdBits - 1 :
            /\ id[i + 1] # SelfID[i + 1]
            /\ \A j \in 1 .. i : id[j] = SelfID[j]

Bucket(t, i) == {id \in DOMAIN t : BucketIndex(id) = i}

With(t, id, addr) == [x \in DOMAIN t \cup {id} |-> IF x = id THEN addr ELSE t[x]]

\* A known id takes its new address; a new one is discarded if its bucket is
\* full.
Add(t, id, addr) ==
    IF \/ id = SelfID
       \/ /\ id \notin DOMAIN t
          /\ Cardinality(Bucket(t, BucketIndex(id))) >= BucketSize
    THEN t
    ELSE With(t, id, addr)

\* The first count of the ids, sorted by their distance to target.
FindClosest(ids, target, count) ==
    {id \in ids : Cardinality({x \in ids : Closer(target, x, id)}) < count}
=============================================================================
