----------------------------- MODULE DHTProofs -----------------------------
(***************************************************************************)
(* The safety of the DHT lookup for ids of every length, every network of  *)
(* honest nodes, and every value of Alpha, K, the bucket size and the      *)
(* iteration limit.                                                        *)
(*                                                                         *)
(* The lookup forgets candidates, so that the argument for                 *)
(* ClosestHeardAsked rests on what "the closest" means: CompareDistance is *)
(* a strict total order on ids, hence FindClosest returns as many ids as   *)
(* it is asked for or all there are, and taking the K closest after each   *)
(* round never loses one of the K closest ever heard of.                   *)
(***************************************************************************)
EXTENDS DHT, SequenceTheorems, FiniteSetTheorems, RecursionTheorems

----------------------------------------------------------------------------
(* The order of distance *)

\* A set of naturals that is not empty has a least element.
LEMMA LeastNat ==
    ASSUME NEW S \in SUBSET Nat, S # {}
    PROVE  \E x \in S : \A y \in S : x <= y
<1>1. PICK x \in S : \A y \in S : ~(<<y, x>> \in OpToRel(<, Nat))
  BY NatLessThanWellFounded, WFMin
<1>2. ASSUME NEW y \in S PROVE x <= y
  <2>1. ~(<<y, x>> \in OpToRel(<, Nat))
    BY <1>1
  <2>2. y \in Nat /\ x \in Nat
    OBVIOUS
  <2>3. ~(y < x)
    BY <2>1, <2>2 DEF OpToRel
  <2> QED BY <2>2, <2>3
<1> QED BY <1>2

\* No id is closer than itself.
LEMMA CloserIrreflexive == \A t, a : ~Closer(t, a, a)
  BY DEF Closer, XORDistance

\* What is closer than something closer is closer.
LEMMA CloserTransitive ==
    ASSUME NEW t, NEW a, NEW b, NEW c, Closer(t, a, b), Closer(t, b, c)
    PROVE  Closer(t, a, c)
<1> DEFINE da == XORDistance(t, a)
           db == XORDistance(t, b)
           dc == XORDistance(t, c)
<1>1. \A i \in 1 .. IdBits : da[i] \in {0, 1} /\ db[i] \in {0, 1} /\ dc[i] \in {0, 1}
  BY DEF XORDistance
<1>2. PICK i \in 1 .. IdBits : da[i] < db[i] /\ \A k \in 1 .. i - 1 : da[k] = db[k]
  BY DEF Closer
<1>3. PICK j \in 1 .. IdBits : db[j] < dc[j] /\ \A k \in 1 .. j - 1 : db[k] = dc[k]
  BY DEF Closer
<1> HIDE DEF da, db, dc
<1> USE TableAssumption
<1>4. \E m \in 1 .. IdBits : da[m] < dc[m] /\ \A k \in 1 .. m - 1 : da[k] = dc[k]
  <2>1. CASE i < j
    <3>1. i \in 1 .. j - 1 /\ \A k \in 1 .. i - 1 : k \in 1 .. j - 1
      BY <2>1
    <3> QED BY <1>2, <1>3, <3>1
  <2>2. CASE i = j
    <3>1. da[i] = 0 /\ db[i] = 1
      BY <1>1, <1>2
    <3>2. db[i] = 0
      BY <1>1, <1>3, <2>2
    <3> QED BY <3>1, <3>2
  <2>3. CASE j < i
    <3>1. j \in 1 .. i - 1 /\ \A k \in 1 .. j - 1 : k \in 1 .. i - 1
      BY <2>3
    <3> QED BY <1>2, <1>3, <3>1
  <2> QED BY <2>1, <2>2, <2>3
<1> QED BY <1>4 DEF Closer, da, dc

\* Of two ids one is closer.
LEMMA CloserTotal ==
    ASSUME NEW t \in NodeID, NEW a \in NodeID, NEW b \in NodeID, a # b
    PROVE  Closer(t, a, b) \/ Closer(t, b, a)
<1> USE TableAssumption
<1> DEFINE S == {i \in 1 .. IdBits : a[i] # b[i]}
<1>1. S # {} /\ S \in SUBSET Nat
  BY DEF NodeID
<1>2. PICK i \in S : \A j \in S : i <= j
  BY <1>1, LeastNat
<1>3. \A j \in 1 .. i - 1 : a[j] = b[j]
  BY <1>2
<1> DEFINE da == XORDistance(t, a)
           db == XORDistance(t, b)
<1>4. /\ \A k \in 1 .. IdBits : da[k] = IF t[k] = a[k] THEN 0 ELSE 1
      /\ \A k \in 1 .. IdBits : db[k] = IF t[k] = b[k] THEN 0 ELSE 1
  BY DEF XORDistance
<1> HIDE DEF da, db
<1>5. i \in 1 .. IdBits /\ a[i] # b[i]
  OBVIOUS
<1>6. t[i] \in {0, 1} /\ a[i] \in {0, 1} /\ b[i] \in {0, 1}
  BY <1>5 DEF NodeID
<1>7. da[i] < db[i] \/ db[i] < da[i]
  BY <1>4, <1>5, <1>6
<1>8. \A j \in 1 .. i - 1 : da[j] = db[j]
  BY <1>3, <1>4, <1>5
<1> QED BY <1>5, <1>7, <1>8 DEF Closer, da, db

----------------------------------------------------------------------------
(* FindClosest *)

\* The ids of S that are closer than id.
Ahead(S, t, id) == {x \in S : Closer(t, x, id)}

\* The number of ids ahead is a number, and is smaller for the closer of two.
LEMMA Ranks ==
    ASSUME NEW S, IsFiniteSet(S), NEW t
    PROVE  /\ \A id : IsFiniteSet(Ahead(S, t, id)) /\ Cardinality(Ahead(S, t, id)) \in Nat
           /\ \A x \in S : \A y : Closer(t, x, y) =>
                 Cardinality(Ahead(S, t, x)) < Cardinality(Ahead(S, t, y))
<1>1. ASSUME NEW id
      PROVE  IsFiniteSet(Ahead(S, t, id)) /\ Cardinality(Ahead(S, t, id)) \in Nat
  <2>1. Ahead(S, t, id) \subseteq S
    BY DEF Ahead
  <2> QED BY <2>1, FS_Subset, FS_CardinalityType
<1>2. ASSUME NEW x \in S, NEW y, Closer(t, x, y)
      PROVE  Cardinality(Ahead(S, t, x)) < Cardinality(Ahead(S, t, y))
  <2> DEFINE A == Ahead(S, t, x)
             B == Ahead(S, t, y)
  <2>1. A \subseteq B
    BY <1>2, CloserTransitive DEF Ahead
  <2>2. x \in B /\ x \notin A
    BY <1>2, CloserIrreflexive DEF Ahead
  <2>3. IsFiniteSet(A) /\ IsFiniteSet(B) /\ Cardinality(A) \in Nat /\ Cardinality(B) \in Nat
    BY <1>1
  <2> HIDE DEF A, B
  <2>4. Cardinality(A) <= Cardinality(B) /\ (Cardinality(A) = Cardinality(B) => A = B)
    BY <2>1, <2>3, FS_Subset
  <2>5. Cardinality(A) < Cardinality(B)
    BY <2>2, <2>3, <2>4
  <2> QED BY <2>5 DEF A, B
<1> QED BY <1>1, <1>2

\* FindClosest returns no more ids than it is asked for.
LEMMA FindClosestAtMost ==
    ASSUME NEW S \in SUBSET NodeID, IsFiniteSet(S), NEW t \in NodeID, NEW c \in Nat
    PROVE  /\ IsFiniteSet(FindClosest(S, t, c)) /\ FindClosest(S, t, c) \subseteq S
           /\ Cardinality(FindClosest(S, t, c)) \in 0 .. c
<1> DEFINE F == FindClosest(S, t, c)
           Rank(id) == Cardinality(Ahead(S, t, id))
           f == [id \in F |-> Rank(id)]
<1>1. F = {id \in S : Rank(id) < c}
  BY DEF FindClosest, Ahead
<1>2. IsFiniteSet(F) /\ F \subseteq S /\ Cardinality(F) \in Nat
  BY <1>1, FS_Subset, FS_CardinalityType
<1>3. \A id \in F : Rank(id) \in 0 .. c - 1
  BY <1>1, Ranks
<1>4. ASSUME NEW x \in F, NEW y \in F, x # y PROVE Rank(x) # Rank(y)
  <2>1. x \in S /\ y \in S
    BY <1>2
  <2>2. Closer(t, x, y) \/ Closer(t, y, x)
    BY <1>4, <2>1, CloserTotal
  <2>3. Rank(x) \in Nat /\ Rank(y) \in Nat
    BY Ranks
  <2>4. Rank(x) < Rank(y) \/ Rank(y) < Rank(x)
    BY <2>1, <2>2, Ranks
  <2> HIDE DEF Rank
  <2> QED BY <2>3, <2>4
<1> HIDE DEF F, Rank
<1>5. f \in Injection(F, 0 .. c - 1)
  BY <1>3, <1>4 DEF Injection, IsInjective
<1>6. IsFiniteSet(0 .. c - 1) /\ Cardinality(0 .. c - 1) = c
  BY FS_Interval
<1>7. Cardinality(F) <= c
  BY <1>5, <1>6, FS_Injection DEF ExistsInjection
<1> QED BY <1>2, <1>7 DEF F

\* If it returns fewer than it is asked for, it returns all.
LEMMA FindClosestAll ==
    ASSUME NEW S, IsFiniteSet(S), NEW t, NEW c \in Nat,
           Cardinality(FindClosest(S, t, c)) < c
    PROVE  FindClosest(S, t, c) = S
<1> DEFINE F == FindClosest(S, t, c)
           Rank(id) == Cardinality(Ahead(S, t, id))
           R == {Rank(id) : id \in S \ F}
<1>1. F = {id \in S : Rank(id) < c}
  BY DEF FindClosest, Ahead
<1>2. \A id : Rank(id) \in Nat
  BY Ranks
<1>3. IsFiniteSet(F) /\ Cardinality(F) \in Nat
  BY <1>1, FS_Subset, FS_CardinalityType
<1>4. ASSUME NEW m \in S \ F, \A x \in S \ F : Rank(m) <= Rank(x)
      PROVE  FALSE
  <2>1. ASSUME NEW x \in Ahead(S, t, m) PROVE x \in F
    <3>1. x \in S /\ Closer(t, x, m)
      BY DEF Ahead
    <3>2. Rank(x) < Rank(m)
      BY <3>1, Ranks
    <3> HIDE DEF Rank
    <3>3. ~(Rank(m) <= Rank(x))
      BY <1>2, <3>2
    <3> QED BY <1>4, <3>1, <3>3
  <2>2. Rank(m) <= Cardinality(F)
    BY <1>3, <2>1, FS_Subset
  <2> HIDE DEF Rank
  <2>3. Rank(m) < c
    BY <1>2, <1>3, <2>2
  <2> QED BY <1>1, <2>3
<1>5. CASE S \ F # {}
  <2>1. R # {} /\ R \in SUBSET Nat
    BY <1>2, <1>5
  <2>2. PICK r \in R : \A y \in R : r <= y
    BY <2>1, LeastNat
  <2>3. PICK m \in S \ F : r = Rank(m)
    OBVIOUS
  <2>4. \A x \in S \ F : Rank(m) <= Rank(x)
    BY <2>2, <2>3
  <2> QED BY <1>4, <2>4
<1>6. F \subseteq S
  BY <1>1
<1> QED BY <1>5, <1>6

\* An id among the closest of a set is among the closest of every part of it.
LEMMA FindClosestPart ==
    ASSUME NEW S, IsFiniteSet(S), NEW P \in SUBSET S, NEW t, NEW c \in Nat
    PROVE  FindClosest(S, t, c) \cap P \subseteq FindClosest(P, t, c)
<1> SUFFICES ASSUME NEW id \in P, Cardinality(Ahead(S, t, id)) < c
             PROVE  Cardinality(Ahead(P, t, id)) < c
  BY DEF FindClosest, Ahead
<1>1. Ahead(P, t, id) \subseteq Ahead(S, t, id)
  BY DEF Ahead
<1>2. IsFiniteSet(P)
  BY FS_Subset
<1>3. IsFiniteSet(Ahead(S, t, id)) /\ Cardinality(Ahead(S, t, id)) \in Nat
      /\ Cardinality(Ahead(P, t, id)) \in Nat
  BY <1>2, Ranks
<1>4. Cardinality(Ahead(P, t, id)) <= Cardinality(Ahead(S, t, id))
  BY <1>1, <1>3, FS_Subset
<1> QED BY <1>3, <1>4

----------------------------------------------------------------------------
(* The routing table *)

Tables == UNION {[D -> Nodes \cup {SelfID}] : D \in SUBSET ((Nodes \cup {ZeroID}) \ {SelfID})}

\* A table within its bounds and true, given the addresses that have answered.
GoodTable(t, asked) ==
    /\ t \in Tables
    /\ \A i \in 0 .. IdBits - 1 : Cardinality(Bucket(t, i)) <= BucketSize
    /\ \A id \in DOMAIN t : IF id = ZeroID THEN t[id] \in asked ELSE t[id] = id

\* The ids of a table are finite in number.
LEMMA TablesFinite ==
    ASSUME NEW t \in Tables
    PROVE  /\ IsFiniteSet(DOMAIN t) /\ DOMAIN t \subseteq (Nodes \cup {ZeroID}) \ {SelfID}
           /\ DOMAIN t \subseteq NodeID
           /\ \A id \in DOMAIN t : t[id] \in Nodes \cup {SelfID}
           /\ \A i : IsFiniteSet(Bucket(t, i)) /\ Cardinality(Bucket(t, i)) \in Nat
<1>1. DOMAIN t \subseteq (Nodes \cup {ZeroID}) \ {SelfID}
      /\ \A id \in DOMAIN t : t[id] \in Nodes \cup {SelfID}
  BY DEF Tables
<1>2. IsFiniteSet(Nodes \cup {ZeroID})
  BY DHTAssumption, FS_AddElement
<1>3. IsFiniteSet(DOMAIN t)
  BY <1>1, <1>2, FS_Subset
<1>4. ZeroID \in NodeID /\ Nodes \subseteq NodeID
  BY DHTAssumption DEF ZeroID, NodeID
<1>5. \A i : Bucket(t, i) \subseteq DOMAIN t
  BY DEF Bucket
<1>6. \A i : IsFiniteSet(Bucket(t, i)) /\ Cardinality(Bucket(t, i)) \in Nat
  BY <1>3, <1>5, FS_Subset, FS_CardinalityType
<1> QED BY <1>1, <1>3, <1>4, <1>6

\* Add keeps a table good if what is added is true.
LEMMA AddKeepsGood ==
    ASSUME NEW t, NEW asked, GoodTable(t, asked),
           NEW id \in Nodes \cup {ZeroID, SelfID}, NEW addr \in Nodes \cup {SelfID},
           id # SelfID => IF id = ZeroID THEN addr \in asked ELSE addr = id
    PROVE  GoodTable(Add(t, id, addr), asked)
<1>1. CASE id = SelfID \/ (id \notin DOMAIN t /\ Cardinality(Bucket(t, BucketIndex(id))) >= BucketSize)
  BY <1>1 DEF Add
<1>2. CASE /\ id # SelfID
           /\ id \in DOMAIN t \/ ~(Cardinality(Bucket(t, BucketIndex(id))) >= BucketSize)
  <2> DEFINE w == With(t, id, addr)
  <2>1. Add(t, id, addr) = w
    BY <1>2 DEF Add
  <2>2. t \in Tables
    BY DEF GoodTable
  <2>3. /\ DOMAIN w = DOMAIN t \cup {id} /\ w[id] = addr
        /\ \A x \in DOMAIN t : x # id => w[x] = t[x]
    BY DEF With
  <2>4. w \in [DOMAIN t \cup {id} -> Nodes \cup {SelfID}]
    BY <2>2, TablesFinite DEF With
  <2> HIDE DEF w
  <2>5. DOMAIN t \cup {id} \subseteq (Nodes \cup {ZeroID}) \ {SelfID}
    BY <1>2, <2>2, TablesFinite
  <2>6. w \in Tables
    BY <2>4, <2>5 DEF Tables
  <2>7. ASSUME NEW i \in 0 .. IdBits - 1 PROVE Cardinality(Bucket(w, i)) <= BucketSize
    <3>1. Cardinality(Bucket(t, i)) <= BucketSize /\ Cardinality(Bucket(t, i)) \in Nat
          /\ IsFiniteSet(Bucket(t, i)) /\ BucketSize \in Nat
      BY <2>2, TablesFinite, TableAssumption DEF GoodTable
    <3>2. CASE id \in DOMAIN t \/ BucketIndex(id) # i
      <4>1. Bucket(w, i) = Bucket(t, i)
        BY <2>3, <3>2 DEF Bucket
      <4> QED BY <3>1, <4>1
    <3>3. CASE id \notin DOMAIN t /\ BucketIndex(id) = i
      <4>1. Bucket(w, i) = Bucket(t, i) \cup {id}
        BY <2>3, <3>3 DEF Bucket
      <4>2. Cardinality(Bucket(t, i)) < BucketSize
        BY <1>2, <3>1, <3>3
      <4>3. Cardinality(Bucket(t, i) \cup {id}) <= Cardinality(Bucket(t, i)) + 1
        BY <3>1, FS_AddElement
      <4>4. IsFiniteSet(Bucket(w, i)) /\ Cardinality(Bucket(w, i)) \in Nat
        BY <2>6, TablesFinite
      <4> QED BY <3>1, <4>1, <4>2, <4>3, <4>4
    <3> QED BY <3>2, <3>3
  <2>8. \A x \in DOMAIN w : IF x = ZeroID THEN w[x] \in asked ELSE w[x] = x
    BY <1>2, <2>3 DEF GoodTable
  <2> QED BY <2>1, <2>6, <2>7, <2>8 DEF GoodTable
<1> QED BY <1>1, <1>2

\* So does the loop over the nodes an answer names.
LEMMA AddAllKeepsGood ==
    ASSUME NEW t, NEW asked, GoodTable(t, asked), NEW nodes \in Seq(Nodes \cup {SelfID})
    PROVE  GoodTable(AddAll(t, nodes), asked)
<1> DEFINE N == Len(nodes)
           T == {u \in Tables : GoodTable(u, asked)}
           Step(u, n) == Add(u, nodes[n], nodes[n])
           f == CHOOSE f : f = [n \in 0 .. N |-> IF n = 0 THEN t ELSE Step(f[n - 1], n)]
<1>1. N \in Nat /\ \A n \in 1 .. N : nodes[n] \in Nodes \cup {SelfID}
  BY LenProperties, ElementOfSeq
<1>2. ASSUME NEW u \in T, NEW n \in 1 .. N PROVE Step(u, n) \in T
  <2>1. nodes[n] \in Nodes \cup {SelfID}
    BY <1>1
  <2>2. ZeroID \notin Nodes
    BY DHTAssumption
  <2>3. GoodTable(Step(u, n), asked)
    BY <2>1, <2>2, AddKeepsGood
  <2>4. Step(u, n) \in Tables
    BY <2>3 DEF GoodTable
  <2> QED BY <2>3, <2>4
<1>3. AddAll(t, nodes) = f[N]
  BY DEF AddAll
<1>4. t \in T
  BY DEF GoodTable
<1> HIDE DEF T, Step
<1> DEFINE F == [x \in T \X (1 .. N) |-> Step(x[1], x[2])]
<1>5. \A u \in T, n \in 1 .. N : F[<<u, n>>] = Step(u, n)
  OBVIOUS
<1>6. F \in [T \X (1 .. N) -> T]
  BY <1>2
<1> HIDE DEF F, N
<1>7. PICK g : LoopTo(g, N, T, t, F)
  BY <1>1, <1>4, <1>6, LoopExists
<1>8. g = [n \in 0 .. N |-> IF n = 0 THEN t ELSE Step(g[n - 1], n)]
  <2>1. g \in [0 .. N -> T] /\ g[0] = t
    BY <1>7 DEF LoopTo
  <2>2. ASSUME NEW n \in 1 .. N PROVE g[n] = Step(g[n - 1], n)
    <3>1. n - 1 \in 0 .. N
      BY <1>1
    <3>2. g[n - 1] \in T
      BY <2>1, <3>1
    <3>3. g[n] = F[<<g[n - 1], n>>]
      BY <1>7 DEF LoopTo
    <3> QED BY <1>5, <3>2, <3>3
  <2>3. \A n \in 0 .. N : g[n] = IF n = 0 THEN t ELSE Step(g[n - 1], n)
    BY <1>1, <2>1, <2>2
  <2> QED BY <2>1, <2>3
<1>9. f = [n \in 0 .. N |-> IF n = 0 THEN t ELSE Step(f[n - 1], n)]
  BY <1>8
<1> HIDE DEF f
<1> DEFINE S == {n \in Nat : n <= N => f[n] \in T}
<1>10. 0 \in S
  BY <1>1, <1>4, <1>9
<1>11. ASSUME NEW n \in S PROVE n + 1 \in S
  BY <1>1, <1>2, <1>9
<1>12. S \in SUBSET Nat
  OBVIOUS
<1> HIDE DEF S
<1>13. N \in S
  BY <1>1, <1>10, <1>11, <1>12, SetInduction
<1> QED BY <1>1, <1>3, <1>13 DEF S, T

----------------------------------------------------------------------------
(* The invariant *)

Ids == Nodes \cup {ZeroID, SelfID}

\* What the lookup knows, besides the types.  The round invariant (third line)
\* says that a round that was not full, and found nothing new, leaves no
\* candidate unasked but those it has yet to ask.
LookupInv ==
    /\ GoodTable(table, earlier)
    /\ heard \subseteq Ids
    /\ phase = "ask" /\ batch < Alpha /\ ~newNodesFound =>
          DOMAIN candidates \subseteq queried \cup toQuery
    /\ FindClosest(heard, Target, K) \subseteq DOMAIN candidates
    /\ phase = "bootstrap" => heard = {} /\ toQuery = {} /\ iter = 0
    /\ phase = "ask" => iter < MaxIterations

\* ClosestHeardAsked, and the same of a lookup that ends with peers.
EndedThorough ==
    (phase \in {"found", "failed"} /\ iter < MaxIterations) =>
        FindClosest(heard, Target, K) \subseteq queried

IInv == TypeOK /\ LookupInv /\ EndedThorough

\* Ids are finite in number.
LEMMA IdsFinite == IsFiniteSet(Ids) /\ Ids \subseteq NodeID
<1>1. IsFiniteSet(Nodes \cup {ZeroID})
  BY DHTAssumption, FS_AddElement
<1>2. IsFiniteSet((Nodes \cup {ZeroID}) \cup {SelfID})
  BY <1>1, FS_AddElement
<1>3. Ids = (Nodes \cup {ZeroID}) \cup {SelfID}
  BY DEF Ids
<1>4. ZeroID \in NodeID
  BY DEF ZeroID, NodeID
<1> QED BY <1>2, <1>3, <1>4, DHTAssumption, TableAssumption DEF Ids

\* A truthful table is a good one.
LEMMA TableFromGood ==
    ASSUME GoodTable(table, earlier)
    PROVE  /\ TableTruthful
           /\ DOMAIN table \subseteq NodeID \ {SelfID}
           /\ \A id \in DOMAIN table : table[id] \in Nodes \cup {SelfID}
           /\ \A i \in 0 .. IdBits - 1 : Cardinality(Bucket(table, i)) <= BucketSize
<1>1. table \in Tables
  BY DEF GoodTable
<1> QED BY <1>1, TablesFinite DEF GoodTable, TableTruthful

\* Before Bootstrap.
LEMMA InitIInv == Init => IInv
<1> SUFFICES ASSUME Init PROVE IInv
  OBVIOUS
<1>1. DOMAIN table = {} /\ table \in [{} -> Nodes \cup {SelfID}] /\ DOMAIN candidates = {}
  BY DEF Init
<1>2. table \in Tables
  BY <1>1 DEF Tables
<1>3. \A i : Bucket(table, i) = {}
  BY <1>1 DEF Bucket
<1>4. GoodTable(table, earlier)
  BY <1>1, <1>2, <1>3, FS_EmptySet, TableAssumption DEF GoodTable
<1>5. FindClosest(heard, Target, K) = {}
  BY DEF Init, FindClosest
<1>6. LookupInv
  BY <1>4, <1>5 DEF Init, LookupInv
<1>7. TypeOK
  <2>1. batch \in 0 .. Alpha /\ iter \in 0 .. MaxIterations /\ todo \in Seq(Nodes)
    BY DHTAssumption DEF Init
  <2> QED BY <1>1, <1>4, <2>1, TableFromGood DEF Init, TypeOK
<1>8. EndedThorough
  BY DEF Init, EndedThorough
<1> QED BY <1>6, <1>7, <1>8 DEF IInv

----------------------------------------------------------------------------
(* Bootstrap *)

\* A table that is good stays so when more addresses have answered.
LEMMA GoodMonotone ==
    ASSUME NEW t, NEW A, NEW B, A \subseteq B, GoodTable(t, A)
    PROVE  GoodTable(t, B)
  BY DEF GoodTable

\* A step that changes the lookup's own state in no way.
LEMMA QuietStep ==
    ASSUME IInv, UNCHANGED <<phase, lookupVars>>, earlier \subseteq earlier',
           earlier' \subseteq Nodes \cup {SelfID}, todo' \in Seq(Nodes),
           dest' \in Nodes \cup {SelfID, None}, GoodTable(table', earlier')
    PROVE  IInv'
<1> USE DEF lookupVars, roundVars
<1>1. TypeOK /\ LookupInv /\ EndedThorough
  BY DEF IInv
<1>2. /\ DOMAIN table' \subseteq NodeID \ {SelfID}
      /\ \A id \in DOMAIN table' : table'[id] \in Nodes \cup {SelfID}
      /\ \A i \in 0 .. IdBits - 1 : Cardinality(Bucket(table', i)) <= BucketSize
  BY TablesFinite DEF GoodTable
<1>3. TypeOK'
  BY <1>1, <1>2 DEF TypeOK
<1>4. LookupInv'
  BY <1>1 DEF LookupInv
<1>5. EndedThorough'
  BY <1>1 DEF EndedThorough
<1> QED BY <1>3, <1>4, <1>5 DEF IInv

\* What is learned from an answer that matches is true.
LEMMA LearnIsGood ==
    ASSUME IInv, dest # None, NEW r \in Answers(dest), Learn(r), Answered
    PROVE  /\ GoodTable(table', earlier') /\ dest' = None
           /\ earlier \subseteq earlier' /\ earlier' \subseteq Nodes \cup {SelfID}
           /\ r.nodes \in Seq(Nodes \cup {SelfID})
<1>1. TypeOK /\ GoodTable(table, earlier)
  BY DEF IInv, LookupInv
<1>2. dest \in Nodes \cup {SelfID} /\ earlier \subseteq Nodes \cup {SelfID}
  BY <1>1 DEF TypeOK
<1>3. dest' = None /\ earlier' = earlier \cup {dest}
  BY DEF Answered
<1>4. Named \subseteq Seq(Nodes \cup {SelfID})
  BY SeqDef DEF Named
<1>5. /\ r.nodes \in Seq(Nodes \cup {SelfID})
      /\ r.id = ZeroID \/ (r.id = dest /\ dest # SelfID)
  <2>1. CASE r = NoAnswer
    BY <2>1, EmptySeq DEF NoAnswer, Answer
  <2>2. CASE r # NoAnswer
    <3>1. dest # SelfID /\ \E s \in Named, v \in BOOLEAN : r = Answer(dest, s, v)
      BY <2>2 DEF Answers
    <3> QED BY <1>4, <3>1 DEF Answer
  <2> QED BY <2>1, <2>2
<1>6. GoodTable(table, earlier')
  BY <1>1, <1>3, GoodMonotone
<1>7. ZeroID \notin Nodes /\ SelfID \notin Nodes
  BY DHTAssumption
<1>8. GoodTable(Add(table, r.id, dest), earlier')
  <2>1. r.id \in Nodes \cup {ZeroID, SelfID}
    BY <1>2, <1>5
  <2>2. r.id # SelfID => IF r.id = ZeroID THEN dest \in earlier' ELSE dest = r.id
    BY <1>3, <1>5
  <2> QED BY <1>2, <1>6, <2>1, <2>2, AddKeepsGood
<1>9. GoodTable(table', earlier')
  BY <1>5, <1>8, AddAllKeepsGood DEF Learn
<1> QED BY <1>2, <1>3, <1>5, <1>9

\* The sends, answers and timeouts of Bootstrap, and every timeout.
LEMMA BootstrapKeepsIInv ==
    ASSUME IInv,
           \/ BootstrapSends \/ BootstrapSkips \/ TimesOut
           \/ dest # None /\ \E r \in Answers(dest) : BootstrapReceives(FALSE, dest, r)
    PROVE  IInv'
<1>1. TypeOK /\ GoodTable(table, earlier)
  BY DEF IInv, LookupInv
<1>2. /\ todo \in Seq(Nodes) /\ dest \in Nodes \cup {SelfID, None}
      /\ earlier \subseteq Nodes \cup {SelfID}
  BY <1>1 DEF TypeOK
<1>3. CASE BootstrapSends \/ BootstrapSkips
  <2>1. Head(todo) \in Nodes /\ Tail(todo) \in Seq(Nodes)
    BY <1>2, <1>3, HeadTailProperties DEF BootstrapSends, BootstrapSkips
  <2>2. /\ UNCHANGED <<phase, lookupVars>> /\ UNCHANGED <<table, earlier>>
        /\ todo' = Tail(todo) /\ dest' \in {dest, Head(todo)}
    BY <1>3 DEF BootstrapSends, BootstrapSkips
  <2>3. GoodTable(table', earlier')
    BY <1>1, <2>2
  <2> QED BY <1>2, <2>1, <2>2, <2>3, QuietStep
<1>4. CASE TimesOut
  <2>1. /\ UNCHANGED <<phase, lookupVars>> /\ UNCHANGED <<table, todo>>
        /\ dest # None /\ dest' = None /\ earlier' = earlier \cup {dest}
    BY <1>4 DEF TimesOut, Answered
  <2>2. GoodTable(table', earlier')
    BY <1>1, <2>1, GoodMonotone
  <2> QED BY <1>2, <2>1, <2>2, QuietStep
<1>5. ASSUME dest # None, NEW r \in Answers(dest), BootstrapReceives(FALSE, dest, r)
      PROVE  IInv'
  <2>1. Learn(r) /\ Answered /\ UNCHANGED <<phase, lookupVars>> /\ UNCHANGED todo
    BY <1>5 DEF BootstrapReceives, Matches
  <2>2. /\ GoodTable(table', earlier') /\ dest' = None
        /\ earlier \subseteq earlier' /\ earlier' \subseteq Nodes \cup {SelfID}
    BY <1>5, <2>1, LearnIsGood
  <2> QED BY <1>2, <2>1, <2>2, QuietStep
<1> QED BY <1>3, <1>4, <1>5

\* The lookup starts with the closest nodes of the table.
LEMMA BootstrapEndsKeepsIInv ==
    ASSUME IInv, BootstrapEnds
    PROVE  IInv'
<1> USE DEF roundVars
<1>1. TypeOK /\ LookupInv
  BY DEF IInv
<1> DEFINE C == FindClosest(DOMAIN table, Target, K)
<1>2. /\ phase = "bootstrap" /\ phase' = IF DOMAIN table = {} THEN "failed" ELSE "pick"
      /\ DOMAIN candidates' = C /\ heard' = C
      /\ \A id \in C : candidates'[id] = table[id]
      /\ UNCHANGED <<table, todo, dest, earlier, queried, roundVars, iter, peers>>
  BY DEF BootstrapEnds
<1>3. C \subseteq DOMAIN table
  BY DEF FindClosest
<1>4. table \in Tables
  BY <1>1 DEF LookupInv, GoodTable
<1>5. /\ DOMAIN table \subseteq NodeID /\ DOMAIN table \subseteq Ids
      /\ \A id \in DOMAIN table : table[id] \in Nodes \cup {SelfID}
  BY <1>4, TablesFinite DEF Ids
<1> HIDE DEF C
<1>6. toQuery = {} /\ queried = {} /\ iter = 0
  BY <1>1, <1>2 DEF LookupInv, TypeOK
<1>7. \A id \in C : candidates'[id] \in Nodes \cup {SelfID}
  BY <1>2, <1>3, <1>5
<1>8. TypeOK'
  BY <1>1, <1>2, <1>3, <1>5, <1>6, <1>7 DEF TypeOK
<1>9. FindClosest(heard', Target, K) \subseteq heard'
  BY DEF FindClosest
<1>10. LookupInv'
  BY <1>1, <1>2, <1>3, <1>5, <1>9 DEF LookupInv
<1>11. EndedThorough'
  <2>1. phase' = "failed" => heard' = {}
    BY <1>2, <1>3
  <2> QED BY <1>2, <1>9, <2>1 DEF EndedThorough
<1> QED BY <1>8, <1>10, <1>11 DEF IInv

----------------------------------------------------------------------------
(* GetPeers *)

\* The sets the lookup sorts are finite sets of ids.
LEMMA HeardFinite ==
    ASSUME IInv
    PROVE  /\ IsFiniteSet(heard) /\ heard \subseteq NodeID
           /\ \A S : S \subseteq DOMAIN candidates => IsFiniteSet(S) /\ S \subseteq NodeID
           /\ Target \in NodeID /\ K \in Nat /\ Alpha \in Nat /\ Alpha > 0
<1>1. heard \subseteq Ids /\ DOMAIN candidates \subseteq heard
  BY DEF IInv, LookupInv, TypeOK
<1>2. IsFiniteSet(heard) /\ heard \subseteq NodeID
  BY <1>1, IdsFinite, FS_Subset
<1>3. ASSUME NEW S, S \subseteq DOMAIN candidates PROVE IsFiniteSet(S) /\ S \subseteq NodeID
  BY <1>1, <1>2, <1>3, FS_Subset
<1> QED BY <1>2, <1>3, DHTAssumption

\* A round is picked: if it is not full it holds every candidate not yet asked,
\* and if it is empty there is none.
LEMMA PickRoundKeepsIInv ==
    ASSUME IInv, PickRound
    PROVE  IInv'
<1>1. TypeOK /\ LookupInv
  BY DEF IInv
<1> DEFINE S == DOMAIN candidates \ queried
           F == FindClosest(S, Target, Alpha)
<1>2. /\ phase = "pick" /\ toQuery' = F /\ batch' = Cardinality(F) /\ newNodesFound' = FALSE
      /\ UNCHANGED <<table, todo, dest, earlier, candidates, queried, iter, peers, heard>>
      /\ IF iter = MaxIterations \/ F = {} THEN phase' \in {"failed", "found"}
                                           ELSE phase' = "ask"
  BY DEF PickRound, Return
<1>3. IsFiniteSet(S) /\ S \subseteq NodeID /\ Target \in NodeID /\ Alpha \in Nat /\ Alpha > 0
  BY HeardFinite
<1>4. F \subseteq S /\ Cardinality(F) \in 0 .. Alpha
  BY <1>3, FindClosestAtMost
<1>5. Cardinality(F) < Alpha => F = S
  BY <1>3, FindClosestAll
<1>6. F = {} => S = {}
  <2>1. F = {} => Cardinality(F) = 0
    BY FS_EmptySet
  <2> QED BY <1>3, <1>5, <2>1
<1>7. F \subseteq DOMAIN candidates /\ DOMAIN candidates \subseteq queried \cup S
  BY <1>4
<1> HIDE DEF S, F
<1>8. TypeOK'
  <2>1. phase' \in {"bootstrap", "pick", "ask", "found", "failed"}
    BY <1>2
  <2> QED BY <1>1, <1>2, <1>4, <1>7, <2>1 DEF TypeOK
<1>9. LookupInv'
  <2>1. phase' = "ask" => iter' < MaxIterations
    BY <1>1, <1>2, DHTAssumption DEF TypeOK
  <2>2. batch' < Alpha => DOMAIN candidates' \subseteq queried' \cup toQuery'
    BY <1>2, <1>5, <1>7
  <2>3. phase' # "bootstrap"
    BY <1>2
  <2> QED BY <1>1, <1>2, <2>1, <2>2, <2>3 DEF LookupInv
<1>10. EndedThorough'
  <2> SUFFICES ASSUME phase' \in {"found", "failed"}, iter' < MaxIterations
               PROVE  FindClosest(heard', Target, K) \subseteq queried'
    BY DEF EndedThorough
  <2>1. iter # MaxIterations
    BY <1>1, <1>2, DHTAssumption DEF TypeOK
  <2>2. S = {}
    BY <1>2, <1>6, <2>1
  <2> QED BY <1>1, <1>2, <1>7, <2>2 DEF LookupInv
<1> QED BY <1>8, <1>9, <1>10 DEF IInv

\* A node is asked, or the write to it fails.
LEMMA AskKeepsIInv ==
    ASSUME IInv, NEW n \in toQuery, Ask(n)
    PROVE  IInv'
<1>1. TypeOK /\ LookupInv
  BY DEF IInv
<1>2. /\ phase = "ask" /\ toQuery' = toQuery \ {n} /\ queried' = queried \cup {n}
      /\ dest' \in {candidates[n], None}
      /\ UNCHANGED <<table, phase, todo, earlier, candidates, batch, newNodesFound, iter,
                     peers, heard>>
  BY DEF Ask
<1>3. n \in DOMAIN candidates /\ n \in heard
  BY <1>1 DEF TypeOK
<1>4. dest' \in Nodes \cup {SelfID, None}
  BY <1>1, <1>2, <1>3 DEF TypeOK
<1>5. TypeOK'
  BY <1>1, <1>2, <1>3, <1>4 DEF TypeOK
<1>6. queried \cup toQuery = queried' \cup toQuery'
  BY <1>2
<1>7. LookupInv'
  BY <1>1, <1>2, <1>6 DEF LookupInv
<1>8. EndedThorough'
  BY <1>2 DEF EndedThorough
<1> QED BY <1>5, <1>7, <1>8 DEF IInv

\* The nodes an answer names become candidates and are heard of together.
LEMMA AskReceivesKeepsIInv ==
    ASSUME IInv, dest # None, NEW r \in Answers(dest), AskReceives(FALSE, dest, r)
    PROVE  IInv'
<1>1. TypeOK /\ LookupInv
  BY DEF IInv
<1> DEFINE new == ToSet(r.nodes) \ DOMAIN candidates
<1>2. /\ phase = "ask" /\ Learn(r) /\ Answered
      /\ peers' = peers \cup (IF r.values THEN {dest} ELSE {})
      /\ candidates' = [x \in DOMAIN candidates \cup new |->
                           IF x \in new THEN x ELSE candidates[x]]
      /\ newNodesFound' = (newNodesFound \/ new # {})
      /\ heard' = heard \cup new
      /\ UNCHANGED <<phase, todo, toQuery, batch, queried, iter>>
  BY DEF AskReceives, Matches
<1>3. /\ GoodTable(table', earlier') /\ dest' = None
      /\ earlier' \subseteq Nodes \cup {SelfID} /\ r.nodes \in Seq(Nodes \cup {SelfID})
  BY <1>2, LearnIsGood
<1>4. new \subseteq Nodes \cup {SelfID}
  <2>1. \A i \in DOMAIN r.nodes : r.nodes[i] \in Nodes \cup {SelfID}
    BY <1>3, ElementOfSeq, LenProperties
  <2> QED BY <2>1 DEF ToSet
<1>5. new \subseteq Ids /\ new \subseteq NodeID
  BY <1>4, IdsFinite DEF Ids
<1> HIDE DEF new
<1>6. /\ DOMAIN candidates' = DOMAIN candidates \cup new
      /\ \A x \in DOMAIN candidates' : candidates'[x] \in Nodes \cup {SelfID}
  BY <1>1, <1>2, <1>4 DEF TypeOK
<1>7. /\ DOMAIN table' \subseteq NodeID \ {SelfID}
      /\ \A id \in DOMAIN table' : table'[id] \in Nodes \cup {SelfID}
      /\ \A i \in 0 .. IdBits - 1 : Cardinality(Bucket(table', i)) <= BucketSize
  BY <1>3, TablesFinite DEF GoodTable
<1>8. peers' \subseteq Nodes
  <2>1. r.values => dest # SelfID
    BY DEF Answers, NoAnswer, Answer
  <2>2. r.values => dest \in Nodes
    BY <1>1, <2>1 DEF TypeOK
  <2> QED BY <1>1, <1>2, <2>2 DEF TypeOK
<1>9. newNodesFound' \in BOOLEAN /\ (~newNodesFound' => ~newNodesFound /\ new = {})
  BY <1>1, <1>2 DEF TypeOK
<1>10. TypeOK'
  <2>1. DOMAIN candidates' \subseteq heard' /\ heard' \subseteq NodeID /\ queried' \subseteq heard'
        /\ toQuery' \subseteq DOMAIN candidates'
    BY <1>1, <1>2, <1>5, <1>6 DEF TypeOK
  <2> QED BY <1>1, <1>2, <1>3, <1>6, <1>7, <1>8, <1>9, <2>1 DEF TypeOK
<1>11. FindClosest(heard', Target, K) \subseteq DOMAIN candidates'
  <2>1. heard' \subseteq Ids
    BY <1>1, <1>2, <1>5 DEF LookupInv
  <2>2. IsFiniteSet(heard') /\ heard \in SUBSET heard'
    BY <1>2, <2>1, IdsFinite, FS_Subset
  <2>3. FindClosest(heard', Target, K) \cap heard \subseteq FindClosest(heard, Target, K)
    BY <2>2, HeardFinite, FindClosestPart
  <2>4. FindClosest(heard', Target, K) \subseteq heard'
    BY DEF FindClosest
  <2>5. FindClosest(heard, Target, K) \subseteq DOMAIN candidates
    BY <1>1 DEF LookupInv
  <2> QED BY <1>2, <1>6, <2>3, <2>4, <2>5
<1>12. LookupInv'
  <2>1. heard' \subseteq Ids
    BY <1>1, <1>2, <1>5 DEF LookupInv
  <2>2. batch' < Alpha /\ ~newNodesFound' => DOMAIN candidates' \subseteq queried' \cup toQuery'
    BY <1>1, <1>2, <1>6, <1>9 DEF LookupInv
  <2> QED BY <1>1, <1>2, <1>3, <1>11, <2>1, <2>2 DEF LookupInv
<1>13. EndedThorough'
  BY <1>2 DEF EndedThorough
<1> QED BY <1>10, <1>12, <1>13 DEF IInv

\* The closest of the candidates are kept, and with them the closest of all ids
\* heard of.
LEMMA RoundEndsKeepsIInv ==
    ASSUME IInv, RoundEnds
    PROVE  IInv'
<1> USE DEF roundVars
<1>1. TypeOK /\ LookupInv
  BY DEF IInv
<1> DEFINE C == FindClosest(DOMAIN candidates, Target, K)
<1>2. /\ phase = "ask" /\ toQuery = {} /\ DOMAIN candidates' = C
      /\ \A id \in C : candidates'[id] = candidates[id]
      /\ UNCHANGED <<table, todo, dest, earlier, roundVars, queried, peers, heard>>
  BY DEF RoundEnds
<1>3. \/ ~newNodesFound /\ batch < Alpha /\ phase' \in {"found", "failed"} /\ iter' = iter
      \/ phase' = "pick" /\ iter' = iter + 1
  BY DEF RoundEnds, Return
<1>4. C \subseteq DOMAIN candidates
  BY DEF FindClosest
<1>5. FindClosest(heard, Target, K) \subseteq C
  <2>1. FindClosest(heard, Target, K) \subseteq DOMAIN candidates
    BY <1>1 DEF LookupInv
  <2>2. DOMAIN candidates \in SUBSET heard
    BY <1>1 DEF TypeOK
  <2>3. FindClosest(heard, Target, K) \cap DOMAIN candidates \subseteq C
    BY <2>2, HeardFinite, FindClosestPart
  <2> QED BY <2>1, <2>3
<1> HIDE DEF C
<1>6. iter' \in 0 .. MaxIterations
  BY <1>1, <1>2, <1>3, DHTAssumption DEF LookupInv, TypeOK
<1>7. TypeOK'
  <2>1. \A id \in DOMAIN candidates' : candidates'[id] \in Nodes \cup {SelfID}
    BY <1>1, <1>2, <1>4 DEF TypeOK
  <2>2. DOMAIN candidates' \subseteq heard' /\ toQuery' \subseteq DOMAIN candidates'
    BY <1>1, <1>2, <1>4 DEF TypeOK
  <2>3. phase' \in {"bootstrap", "pick", "ask", "found", "failed"}
    BY <1>3
  <2> QED BY <1>1, <1>2, <1>6, <2>1, <2>2, <2>3 DEF TypeOK
<1>8. LookupInv'
  <2>1. phase' # "ask" /\ phase' # "bootstrap"
    BY <1>3
  <2> QED BY <1>1, <1>2, <1>5, <2>1 DEF LookupInv
<1>9. EndedThorough'
  <2> SUFFICES ASSUME phase' \in {"found", "failed"}
               PROVE  FindClosest(heard', Target, K) \subseteq queried'
    BY DEF EndedThorough
  <2>1. DOMAIN candidates \subseteq queried \cup toQuery
    BY <1>1, <1>2, <1>3 DEF LookupInv
  <2> QED BY <1>2, <1>4, <1>5, <2>1
<1> QED BY <1>7, <1>8, <1>9 DEF IInv

----------------------------------------------------------------------------
(* The theorems *)

\* Every step keeps the invariant; an answer to an earlier query is no step.
LEMMA NextIInv == IInv /\ [Next]_vars => IInv'
<1> SUFFICES ASSUME IInv, [Next]_vars PROVE IInv'
  OBVIOUS
<1>1. CASE UNCHANGED vars
  BY <1>1, QuietStep DEF IInv, TypeOK, LookupInv, vars
<1>2. CASE dest # None /\ Receives(FALSE, dest)
  BY <1>2, BootstrapKeepsIInv, AskReceivesKeepsIInv DEF Receives
<1>3. CASE \E from \in earlier : Receives(TRUE, from)
  <2>1. UNCHANGED vars
    BY <1>3 DEF Receives, BootstrapReceives, AskReceives, Matches, vars, lookupVars, roundVars
  <2> QED BY <1>1, <2>1
<1> QED BY <1>1, <1>2, <1>3, BootstrapKeepsIInv, BootstrapEndsKeepsIInv,
           PickRoundKeepsIInv, AskKeepsIInv, RoundEndsKeepsIInv DEF Next

\* The buckets keep their bound, and each id is in the table with the address of
\* the node that has it, whatever is lost, late or repeated (dht/dht.go,
\* dht/routing.go).
THEOREM LookupTable == Spec => []TableInv
<1>1. IInv => TableInv
  BY TableFromGood DEF IInv, LookupInv, TableInv
<1> QED BY <1>1, InitIInv, NextIInv, PTL DEF Spec

\* A lookup that fails by itself, and not at the iteration limit, has asked each
\* of the K closest nodes it ever heard of (dht/dht.go, GetPeers).
THEOREM LookupThorough == Spec => []ClosestHeardAsked
<1>1. IInv => ClosestHeardAsked
  BY DEF IInv, EndedThorough, ClosestHeardAsked
<1> QED BY <1>1, InitIInv, NextIInv, PTL DEF Spec
=============================================================================
