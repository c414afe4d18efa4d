--------------------------- MODULE SessionProofs ---------------------------
(***************************************************************************)
(* The safety of the download session for every set of addresses, number   *)
(* of dial slots, connection limit and width of the integers.              *)
(*                                                                         *)
(* SessionInv is inductive.  ConnectionsBounded is not: a goroutine that   *)
(* is dialing becomes an active peer without any further check.  What is   *)
(* inductive counts the active peers, the goroutines that may still add    *)
(* one, and the candidates the dialing goroutine may still look at.        *)
(***************************************************************************)
EXTENDS Session, FiniteSetTheorems, RecursionTheorems

----------------------------------------------------------------------------
(* Powers of two *)

\* g is the table of the first n + 1 powers of two.
PowersTo(g, n) ==
    /\ g \in [0 .. n -> Nat]
    /\ g[0] = 1
    /\ \A i \in 1 .. n : g[i] = 2 * g[i - 1]

\* The recursion that defines Pow2 has a solution, so that Pow2 solves it.
LEMMA Pow2Recursion ==
    /\ Pow2[0] = 1
    /\ \A n \in Nat : Pow2[n] \in Nat /\ Pow2[n + 1] = 2 * Pow2[n]
<1> DEFINE S == {n \in Nat : \E g : PowersTo(g, n)}
<1>1. S = Nat
  <2>1. 0 \in S
    <3>1. PowersTo([i \in 0 .. 0 |-> 1], 0)
      BY DEF PowersTo
    <3> QED BY <3>1
  <2>2. ASSUME NEW n \in S PROVE n + 1 \in S
    <3>1. PICK g : PowersTo(g, n)
      OBVIOUS
    <3> DEFINE h == [i \in 0 .. n + 1 |-> IF i = n + 1 THEN 2 * g[n] ELSE g[i]]
    <3>2. h \in [0 .. n + 1 -> Nat] /\ h[0] = 1
      BY <3>1 DEF PowersTo
    <3>3. ASSUME NEW i \in 1 .. n + 1 PROVE h[i] = 2 * h[i - 1]
      <4>1. CASE i = n + 1
        BY <4>1
      <4>2. CASE i # n + 1
        BY <3>1, <4>2 DEF PowersTo
      <4> QED BY <4>1, <4>2
    <3>4. PowersTo(h, n + 1)
      BY <3>2, <3>3 DEF PowersTo
    <3> QED BY <3>4
  <2> QED BY <2>1, <2>2, SetInduction
<1>2. ASSUME NEW n \in Nat, NEW m \in Nat, NEW g, NEW h, m >= n,
             PowersTo(g, n), PowersTo(h, m)
      PROVE  g[n] = h[n]
  <2> DEFINE U == {i \in Nat : i <= n => g[i] = h[i]}
  <2>1. 0 \in U
    BY <1>2 DEF PowersTo
  <2>2. \A i \in U : i + 1 \in U
    <3> SUFFICES ASSUME NEW i \in U, i + 1 <= n PROVE g[i + 1] = h[i + 1]
      OBVIOUS
    <3>1. i \in Nat /\ i + 1 \in 1 .. n /\ i + 1 \in 1 .. m /\ (i + 1) - 1 = i
      BY <1>2
    <3>2. g[i + 1] = 2 * g[i] /\ h[i + 1] = 2 * h[i]
      BY <1>2, <3>1 DEF PowersTo
    <3> QED BY <3>1, <3>2
  <2>3. U = Nat
    BY <2>1, <2>2, SetInduction
  <2> QED BY <2>3
<1> DEFINE G(n) == CHOOSE g : PowersTo(g, n)
           f == [n \in Nat |-> G(n)[n]]
<1>3. ASSUME NEW n \in Nat PROVE PowersTo(G(n), n)
  BY <1>1
<1> HIDE DEF G
<1>4. ASSUME NEW n \in Nat
      PROVE  f[n] \in Nat /\ f[n] = IF n = 0 THEN 1 ELSE 2 * f[n - 1]
  <2>1. f[n] \in Nat
    BY <1>3 DEF PowersTo
  <2>2. CASE n = 0
    BY <1>3, <2>2, <2>1 DEF PowersTo
  <2>3. CASE n # 0
    <3>1. n - 1 \in Nat /\ n \in 1 .. n
      BY <2>3
    <3>2. G(n)[n] = 2 * G(n)[n - 1]
      BY <1>3, <3>1 DEF PowersTo
    <3>3. PowersTo(G(n - 1), n - 1) /\ PowersTo(G(n), n)
      BY <1>3, <3>1
    <3>4. G(n - 1)[n - 1] = G(n)[n - 1]
      BY <1>2, <3>1, <3>3
    <3> QED BY <2>1, <2>3, <3>1, <3>2, <3>4
  <2> QED BY <2>2, <2>3
<1>5. f = [n \in Nat |-> IF n = 0 THEN 1 ELSE 2 * f[n - 1]]
  BY <1>4
<1> HIDE DEF f
<1>6. Pow2 = [n \in Nat |-> IF n = 0 THEN 1 ELSE 2 * Pow2[n - 1]]
  BY <1>5 DEF Pow2
<1>7. Pow2[0] = 1
  BY <1>6
<1>8. \A n \in Nat : Pow2[n + 1] = 2 * Pow2[n]
  BY <1>6
<1> DEFINE T == {n \in Nat : Pow2[n] \in Nat}
<1>9. T = Nat
  <2>1. 0 \in T
    BY <1>7
  <2>2. \A n \in T : n + 1 \in T
    BY <1>8
  <2> HIDE DEF T
  <2>3. T \in SUBSET Nat
    BY DEF T
  <2> QED BY <2>1, <2>2, <2>3, SetInduction
<1> QED BY <1>7, <1>8, <1>9

\* Powers of two are positive, and grow with the exponent.
LEMMA Pow2Grows ==
    /\ \A n \in Nat : Pow2[n] \in Nat /\ Pow2[n] > 0
    /\ \A n, k \in Nat : Pow2[n] <= Pow2[n + k]
<1> DEFINE S == {n \in Nat : Pow2[n] > 0}
<1>1. S = Nat
  <2>1. 0 \in S /\ \A n \in S : n + 1 \in S
    BY Pow2Recursion
  <2>2. S \in SUBSET Nat
    OBVIOUS
  <2> HIDE DEF S
  <2> QED BY <2>1, <2>2, SetInduction
<1>2. ASSUME NEW n \in Nat PROVE \A k \in Nat : Pow2[n] <= Pow2[n + k]
  <2> DEFINE T == {k \in Nat : Pow2[n] <= Pow2[n + k]}
  <2>1. 0 \in T
    BY Pow2Recursion
  <2>2. ASSUME NEW k \in T PROVE k + 1 \in T
    <3>1. n + k \in Nat /\ n + (k + 1) = (n + k) + 1
      OBVIOUS
    <3> QED BY <3>1, Pow2Recursion
  <2>3. T \in SUBSET Nat
    OBVIOUS
  <2> HIDE DEF T
  <2>4. T = Nat
    BY <2>1, <2>2, <2>3, SetInduction
  <2> QED BY <2>4 DEF T
<1> QED BY <1>1, <1>2, Pow2Recursion

\* 2^n divides 2^(n + k).
LEMMA Pow2Divides ==
    ASSUME NEW n \in Nat, NEW k \in Nat
    PROVE  \E a \in Nat : Pow2[n + k] = a * Pow2[n]
<1> DEFINE S == {j \in Nat : \E a \in Nat : Pow2[n + j] = a * Pow2[n]}
<1>1. 0 \in S
  BY Pow2Recursion
<1>2. ASSUME NEW j \in S PROVE j + 1 \in S
  <2>1. PICK a \in Nat : Pow2[n + j] = a * Pow2[n]
    OBVIOUS
  <2>2. n + j \in Nat /\ n + (j + 1) = (n + j) + 1
    OBVIOUS
  <2>3. Pow2[n + (j + 1)] = 2 * Pow2[n + j]
    BY <2>2, Pow2Recursion
  <2>4. Pow2[n + (j + 1)] = (2 * a) * Pow2[n]
    BY <2>1, <2>3, Pow2Recursion
  <2> QED BY <2>4
<1>3. S \in SUBSET Nat
  OBVIOUS
<1> HIDE DEF S
<1>4. S = Nat
  BY <1>1, <1>2, <1>3, SetInduction
<1>5. k \in S
  BY <1>4
<1> QED BY <1>5 DEF S

\* The remainder of a sum whose first part is a multiple of the divisor.
LEMMA Remainder ==
    ASSUME NEW a \in Nat, NEW m \in Nat \ {0}, NEW b \in 0 .. m - 1
    PROVE  (a * m + b) % m = b
  OBVIOUS

----------------------------------------------------------------------------
(* The delay after a failure *)

\* The delay that MarkFailed computes from wrapped arithmetic is the one that
\* unbounded arithmetic gives: the overflow check catches every overflow, since
\* 15 times a power of two wraps to a negative number or to 0.
LEMMA BackoffExact ==
    ASSUME NEW n \in Nat \ {0}
    PROVE  /\ Backoff(n) \in Nat /\ Backoff(n) > 0
           /\ Backoff(n) = IF 15 * Pow2[n - 1] > MaxBackoff THEN MaxBackoff
                                                           ELSE 15 * Pow2[n - 1]
<1> DEFINE k == n - 1
           q == Pow2[Width - 4]
           p == 15 * Pow2[k]
<1>1. k \in Nat /\ Width \in Nat /\ Width >= 6 /\ MaxBackoff \in Nat /\ MaxBackoff >= 15
      /\ Width - 4 \in Nat /\ Width - 3 \in Nat /\ Width - 2 \in Nat /\ Width - 1 \in Nat
  <2>1. Width - 1 \in Nat
    BY PoolAssumption
  <2> QED BY <2>1, PoolAssumption, Pow2Recursion
<1>2. /\ q \in Nat /\ q > 0 /\ Pow2[Width - 3] = 2 * q /\ Pow2[Width - 2] = 4 * q
      /\ Pow2[Width - 1] = 8 * q /\ Pow2[Width] = 16 * q
  <2>1. /\ (Width - 4) + 1 = Width - 3 /\ (Width - 3) + 1 = Width - 2
        /\ (Width - 2) + 1 = Width - 1 /\ (Width - 1) + 1 = Width
    BY <1>1
  <2> QED BY <1>1, <2>1, Pow2Recursion, Pow2Grows
<1>3. MaxBackoff < 8 * q
  BY <1>1, <1>2, PoolAssumption
<1>4. Pow2[k] \in Nat /\ Pow2[k] > 0 /\ p \in Nat /\ p >= 15
  BY <1>1, Pow2Grows
<1> HIDE DEF k, q
<1>5. CASE k < Width - 4
  <2>1. Width - 5 \in Nat /\ Width - 5 - k \in Nat /\ k + (Width - 5 - k) = Width - 5
        /\ (Width - 5) + 1 = Width - 4
    BY <1>1, <1>5
  <2>2. Pow2[k] <= Pow2[Width - 5] /\ 2 * Pow2[Width - 5] = q
    BY <1>1, <2>1, Pow2Grows, Pow2Recursion DEF q
  <2>3. p < 8 * q
    BY <1>2, <1>4, <2>2, <2>1, Pow2Recursion
  <2>4. p % (16 * q) = p
    BY <2>3, <1>4, <1>2
  <2>5. Wrap(p) = p
    <3>1. p % Pow2[Width] = p /\ p < Pow2[Width - 1]
      BY <2>3, <2>4, <1>2
    <3>2. ~(p >= Pow2[Width - 1])
      BY <3>1, <1>2, <1>4
    <3> QED BY <3>1, <3>2 DEF Wrap
  <2> QED BY <2>5, <1>1, <1>4 DEF Backoff, k
<1>6. CASE k >= Width
  <2>1. k - Width \in Nat /\ Width + (k - Width) = k
    BY <1>1, <1>6
  <2>2. PICK a \in Nat : Pow2[k] = a * Pow2[Width]
    <3>1. \E a \in Nat : Pow2[Width + (k - Width)] = a * Pow2[Width]
      BY <1>1, <2>1, Pow2Divides
    <3> QED BY <2>1, <3>1
  <2>3. p = (15 * a) * (16 * q) + 0
    BY <1>2, <2>2
  <2>4. 15 * a \in Nat /\ 16 * q \in Nat \ {0} /\ 0 \in 0 .. 16 * q - 1
    BY <1>2, <2>2
  <2>5. p % (16 * q) = 0
    BY <2>3, <2>4, Remainder
  <2>6. Wrap(p) = 0
    BY <2>5, <1>2 DEF Wrap
  <2>7. a > 0
    BY <2>2, <1>4, <1>2
  <2>8. p > MaxBackoff
    BY <1>2, <1>3, <2>3, <2>7, <1>1
  <2> QED BY <2>6, <2>8, <1>1 DEF Backoff, k
<1>7. CASE k \in {Width - 4, Width - 3, Width - 2, Width - 1}
  <2>1. \E b \in {15 * q, 14 * q, 12 * q, 8 * q}, a \in {0, 1, 3, 7} :
            p = a * (16 * q) + b
    BY <1>2, <1>7 DEF q
  <2>2. PICK b \in {15 * q, 14 * q, 12 * q, 8 * q}, a \in {0, 1, 3, 7} :
            p = a * (16 * q) + b
    BY <2>1
  <2>3. a \in Nat /\ 16 * q \in Nat \ {0} /\ b \in 0 .. 16 * q - 1 /\ b >= 8 * q
    BY <1>2
  <2>4. p % (16 * q) = b
    BY <2>2, <2>3, Remainder
  <2>5. Wrap(p) = b - 16 * q /\ b - 16 * q <= 0
    BY <2>3, <2>4, <1>2 DEF Wrap
  <2>6. p > MaxBackoff
    BY <1>1, <1>2, <1>3, <2>2, <2>3
  <2> QED BY <2>5, <2>6, <1>1 DEF Backoff, k
<1> QED BY <1>1, <1>5, <1>6, <1>7

----------------------------------------------------------------------------
(* The endpoint pool *)

PoolTypes == Known \subseteq Addresses /\ endpoints \in [Known -> Endpoint]

PoolInv == PoolTypes /\ BackoffDoubles

\* What Put does to the pool.
LEMMA PutEffect ==
    ASSUME PoolTypes, NEW a \in Addresses, NEW e \in Endpoint, Put(a, e)
    PROVE  /\ PoolTypes'
           /\ Known' = Known \cup {a}
           /\ endpoints'[a] = e
           /\ \A x \in Known \ {a} : endpoints'[x] = endpoints[x]
  BY DEF PoolTypes, Put, Known

\* Entering a record with no delay, or with the delay of its failure count,
\* keeps the pool's invariant.
LEMMA PutKeepsPoolInv ==
    ASSUME PoolInv, NEW a \in Addresses, NEW e \in Endpoint, Put(a, e),
           e.wait # 0 => e.failCount > 0 /\ e.wait = Backoff(e.failCount)
    PROVE  PoolInv'
<1>1. PoolTypes
  BY DEF PoolInv
<1>2. /\ PoolTypes' /\ Known' = Known \cup {a} /\ endpoints'[a] = e
      /\ \A x \in Known \ {a} : endpoints'[x] = endpoints[x]
  BY <1>1, PutEffect
<1>3. e.failCount \in Nat
  BY DEF Endpoint
<1>4. ASSUME NEW x \in Known', endpoints'[x].wait # 0
      PROVE  /\ endpoints'[x].failCount > 0
             /\ endpoints'[x].wait =
                    LET n == endpoints'[x].failCount
                    IN  IF 15 * Pow2[n - 1] > MaxBackoff THEN MaxBackoff
                                                         ELSE 15 * Pow2[n - 1]
  <2>1. CASE x = a
    BY <1>2, <1>3, <1>4, <2>1, BackoffExact
  <2>2. CASE x # a
    BY <1>2, <1>4, <2>2 DEF PoolInv, BackoffDoubles
  <2> QED BY <2>1, <2>2
<1>5. BackoffDoubles'
  BY <1>4 DEF BackoffDoubles
<1> QED BY <1>2, <1>5 DEF PoolInv

\* Every method of the pool keeps its invariant and forgets no endpoint.
LEMMA PoolMethods ==
    ASSUME PoolInv, NEW a \in Addresses,
           Add(a) \/ MarkFailed(a) \/ MarkSucceeded(a) \/ Elapse(a)
    PROVE  PoolInv' /\ Known \subseteq Known'
<1>1. CASE UNCHANGED endpoints
  BY <1>1 DEF PoolInv, PoolTypes, BackoffDoubles, Known
<1>2. ASSUME NEW e \in Endpoint, Put(a, e),
             e.wait # 0 => e.failCount > 0 /\ e.wait = Backoff(e.failCount)
      PROVE  PoolInv' /\ Known \subseteq Known'
  BY <1>2, PutKeepsPoolInv, PutEffect DEF PoolInv
<1>3. Fresh \in Endpoint /\ Fresh.wait = 0
  BY DEF Fresh, Endpoint
<1>4. \A x \in Known : endpoints[x] \in Endpoint
  BY DEF PoolInv, PoolTypes
<1>5. CASE Add(a)
  BY <1>1, <1>2, <1>3, <1>5 DEF Add
<1>6. CASE MarkFailed(a)
  <2> DEFINE e == IF a \in Known THEN endpoints[a] ELSE Fresh
             r == [e EXCEPT !.failCount = @ + 1, !.wait = Backoff(e.failCount + 1)]
  <2>1. e \in Endpoint
    BY <1>3, <1>4
  <2>2. e.failCount + 1 \in Nat \ {0}
    BY <2>1 DEF Endpoint
  <2>3. Backoff(e.failCount + 1) \in Nat
    BY <2>2, BackoffExact
  <2>4. r \in Endpoint /\ r.failCount > 0 /\ r.wait = Backoff(r.failCount)
    <3> HIDE DEF e
    <3>1. r.failCount = e.failCount + 1 /\ r.wait = Backoff(e.failCount + 1)
      BY <2>1 DEF Endpoint
    <3>2. r \in Endpoint
      BY <2>1, <2>2, <2>3 DEF Endpoint
    <3> QED BY <2>2, <3>1, <3>2
  <2>5. Put(a, r)
    BY <1>6 DEF MarkFailed
  <2> HIDE DEF r
  <2> QED BY <1>2, <2>4, <2>5
<1>7. CASE MarkSucceeded(a)
  <2>1. CASE a \in Known
    <3> DEFINE r == [endpoints[a] EXCEPT !.failCount = 0, !.wait = 0]
    <3>1. r \in Endpoint /\ r.wait = 0
      BY <1>4, <2>1 DEF Endpoint
    <3> QED BY <1>2, <1>7, <2>1, <3>1 DEF MarkSucceeded
  <2> QED BY <1>1, <1>7, <2>1 DEF MarkSucceeded
<1>8. CASE Elapse(a)
  <2> DEFINE r == [endpoints[a] EXCEPT !.wait = 0]
  <2>1. r \in Endpoint /\ r.wait = 0
    BY <1>4, <1>8 DEF Endpoint, Elapse
  <2> QED BY <1>2, <1>8, <2>1 DEF Elapse
<1> QED BY <1>5, <1>6, <1>7, <1>8

----------------------------------------------------------------------------
(* The session *)

\* Goroutines that may still add an active peer.
Adding == {s \in Busy : phase[s] \in {"dial", "add"}}

\* Active peers, goroutines that may still add one, and candidates that may
\* still be looked at.
ConnectionCount == Cardinality(active) + Cardinality(Adding) + toDial

IInv ==
    /\ SessionInv
    /\ BackoffDoubles
    /\ ConnectionCount <= MaxConnections + Cardinality(Slots)

\* The sets that are counted are finite.
LEMMA CountedFinite ==
    ASSUME SessionInv
    PROVE  /\ IsFiniteSet(active) /\ Cardinality(active) \in Nat
           /\ IsFiniteSet(Adding) /\ Cardinality(Adding) \in Nat
           /\ Cardinality(Adding) <= Cardinality(Slots)
           /\ IsFiniteSet(batch) /\ Cardinality(batch) \in Nat
           /\ Cardinality(Slots) \in Nat /\ toDial \in Nat
<1>1. active \subseteq Addresses /\ batch \subseteq Addresses /\ Adding \subseteq Slots
  BY DEF SessionInv, TypeOK, Adding, Busy
<1>2. IsFiniteSet(active) /\ IsFiniteSet(batch) /\ IsFiniteSet(Adding)
      /\ Cardinality(Adding) <= Cardinality(Slots)
  BY <1>1, PoolAssumption, SessionAssumption, FS_Subset
<1>3. Cardinality(active) \in Nat /\ Cardinality(batch) \in Nat
      /\ Cardinality(Adding) \in Nat /\ Cardinality(Slots) \in Nat
  BY <1>2, SessionAssumption, FS_CardinalityType
<1> QED BY <1>2, <1>3 DEF SessionInv, TypeOK

\* ConnectionsBounded follows from the count.
LEMMA CountBounds == IInv => ConnectionsBounded
<1> SUFFICES ASSUME IInv PROVE ConnectionsBounded
  OBVIOUS
<1> QED BY CountedFinite, SessionAssumption
        DEF IInv, ConnectionCount, ConnectionsBounded

\* A new session satisfies the invariant.
LEMMA InitIInv == Init => IInv
<1> SUFFICES ASSUME Init PROVE IInv
  OBVIOUS
<1>1. Known = {} /\ Busy = {} /\ Adding = {}
  BY DEF Init, NewPool, Known, Busy, Adding
<1>2. Cardinality({}) = 0
  BY FS_EmptySet
<1>3. TypeOK
  <2>1. endpoints \in [{} -> Endpoint]
    BY DEF Init, NewPool
  <2>2. batch \subseteq Addresses /\ toDial \in 0 .. Cardinality(batch)
    BY <1>2 DEF Init
  <2> QED BY <1>1, <2>1, <2>2 DEF Init, TypeOK
<1>4. DialingExact
  BY <1>1 DEF Init, DialingExact
<1>5. BackoffDoubles
  BY <1>1 DEF BackoffDoubles
<1>6. SessionInv
  BY <1>3, <1>4 DEF SessionInv
<1>7. ConnectionCount <= MaxConnections + Cardinality(Slots)
  BY <1>1, <1>2, <1>6, CountedFinite, SessionAssumption DEF ConnectionCount, Init
<1> QED BY <1>5, <1>6, <1>7 DEF IInv

\* A step that changes only the pool, through one of its methods, keeps the
\* invariant.
LEMMA PoolStep ==
    ASSUME IInv, UNCHANGED <<dialVars, slotVars, managerVars, discovery, returned>>,
           NEW a \in Addresses,
           Add(a) \/ MarkFailed(a) \/ MarkSucceeded(a) \/ Elapse(a)
    PROVE  IInv'
<1>1. PoolInv
  BY DEF IInv, SessionInv, TypeOK, PoolInv, PoolTypes
<1>2. PoolInv'
  BY <1>1, PoolMethods
<1>3. TypeOK'
  BY <1>2 DEF IInv, SessionInv, TypeOK, PoolInv, PoolTypes, dialVars, slotVars,
              managerVars
<1>4. DialingExact'
  BY DEF IInv, SessionInv, DialingExact, Busy, slotVars
<1>5. ConnectionCount' = ConnectionCount
  BY DEF ConnectionCount, Adding, Busy, slotVars, managerVars, dialVars
<1> QED BY <1>2, <1>3, <1>4, <1>5 DEF IInv, SessionInv, PoolInv

\* A tick looks at no more candidates than there are, and leaves room for the
\* goroutines that dial, of which there are at most as many as slots.
LEMMA DialTickKeepsIInv == IInv /\ DialTick => IInv'
<1> SUFFICES ASSUME IInv, DialTick PROVE IInv'
  OBVIOUS
<1>1. SessionInv /\ TypeOK
  BY DEF IInv, SessionInv
<1> DEFINE C == GetCandidates(FALSE)
<1>2. C \subseteq Known /\ Known \subseteq Addresses
  BY <1>1 DEF GetCandidates, TypeOK
<1>3. IsFiniteSet(C) /\ Cardinality(C) \in Nat
  BY <1>2, PoolAssumption, FS_Subset, FS_CardinalityType
<1>4. batch' = C /\ C \subseteq Addresses
  BY <1>2 DEF DialTick
<1>5. toDial' \in 0 .. Cardinality(C) /\ Cardinality(active) + toDial' <= MaxConnections
  <2>1. toDial' = IF MaxConnections - Cardinality(active) > Cardinality(C)
                  THEN Cardinality(C) ELSE MaxConnections - Cardinality(active)
    BY DEF DialTick
  <2>2. Cardinality(active) < MaxConnections
    BY DEF DialTick
  <2>3. Cardinality(active) \in Nat /\ MaxConnections \in Nat
    BY <1>1, CountedFinite, SessionAssumption
  <2> HIDE DEF C
  <2> QED BY <1>3, <2>1, <2>2, <2>3
<1> HIDE DEF C
<1>6. TypeOK'
  BY <1>1, <1>4, <1>5 DEF DialTick, slotVars, managerVars, TypeOK, Known
<1>7. DialingExact' /\ BackoffDoubles'
  BY DEF DialTick, slotVars, IInv, SessionInv, DialingExact, Busy, BackoffDoubles, Known
<1>8. active' = active /\ Adding' = Adding
  BY DEF DialTick, slotVars, managerVars, Adding, Busy
<1>9. ConnectionCount' <= MaxConnections + Cardinality(Slots)
  <2>1. ConnectionCount' = Cardinality(active) + Cardinality(Adding) + toDial'
    BY <1>8 DEF ConnectionCount
  <2>2. Cardinality(active) \in Nat /\ Cardinality(Adding) \in Nat
        /\ Cardinality(Adding) <= Cardinality(Slots) /\ Cardinality(Slots) \in Nat
    BY <1>1, CountedFinite
  <2> QED BY <1>3, <1>5, <2>1, <2>2, SessionAssumption
<1> QED BY <1>6, <1>7, <1>9 DEF IInv, SessionInv

\* A candidate passed over or handed to a goroutine leaves the count as it is or
\* lowers it, and it is entered in the map dialing with its slot.
LEMMA DialNextKeepsIInv ==
    ASSUME IInv, NEW a \in Addresses, DialNext(a)
    PROVE  IInv'
<1>1. SessionInv /\ TypeOK /\ DialingExact
  BY DEF IInv, SessionInv
<1>2. batch' \subseteq Addresses /\ toDial' \in 0 .. Cardinality(batch')
      /\ toDial' = toDial - 1
  <2>1. IsFiniteSet(batch) /\ a \in batch /\ batch' = batch \ {a}
        /\ toDial' = toDial - 1 /\ toDial > 0
    BY <1>1, CountedFinite DEF DialNext
  <2>2. Cardinality(batch') = Cardinality(batch) - 1
    BY <2>1, FS_RemoveElement
  <2> QED BY <1>1, <2>1, <2>2, CountedFinite DEF TypeOK
<1>3. BackoffDoubles'
  BY DEF IInv, DialNext, BackoffDoubles, Known
<1>4. CASE UNCHANGED slotVars
  <2>1. TypeOK'
    BY <1>1, <1>2, <1>4 DEF TypeOK, DialNext, Known, slotVars, managerVars
  <2>2. DialingExact'
    BY <1>1, <1>4 DEF DialingExact, Busy, slotVars
  <2>3. Adding' = Adding /\ active' = active
    BY <1>4 DEF Adding, Busy, slotVars, DialNext, managerVars
  <2>4. ConnectionCount' <= MaxConnections + Cardinality(Slots)
    BY <1>1, <1>2, <2>3, CountedFinite, SessionAssumption DEF ConnectionCount, IInv
  <2> QED BY <1>3, <2>1, <2>2, <2>4 DEF IInv, SessionInv
<1>5. CASE ~(a \in dialing \/ Busy = Slots)
  <2>1. PICK s \in Slots \ Busy : /\ dialing' = dialing \cup {a}
                                  /\ slot' = [slot EXCEPT ![s] = a]
                                  /\ phase' = [phase EXCEPT ![s] = "dial"]
    BY <1>5 DEF DialNext
  <2>2. a # NoAddress
    BY SessionAssumption
  <2>3. TypeOK'
    BY <1>1, <1>2, <2>1 DEF TypeOK, DialNext, Known, managerVars
  <2>4. Busy' = Busy \cup {s} /\ \A t \in Busy : slot'[t] = slot[t] /\ t # s
    BY <1>1, <2>1, <2>2 DEF Busy, TypeOK
  <2>5. slot'[s] = a
    BY <1>1, <2>1 DEF TypeOK
  <2>6. DialingExact'
    BY <1>1, <1>5, <2>1, <2>4, <2>5 DEF DialingExact
  <2>7. Adding' = Adding \cup {s} /\ s \notin Adding /\ active' = active
    BY <1>1, <2>1, <2>4 DEF Adding, TypeOK, DialNext, managerVars, Busy
  <2>8. Cardinality(Adding') = Cardinality(Adding) + 1
    BY <1>1, <2>7, CountedFinite, FS_AddElement
  <2>9. ConnectionCount' <= MaxConnections + Cardinality(Slots)
    BY <1>1, <1>2, <2>7, <2>8, CountedFinite, SessionAssumption
       DEF ConnectionCount, IInv
  <2> QED BY <1>3, <2>3, <2>6, <2>9 DEF IInv, SessionInv
<1> QED BY <1>4, <1>5 DEF DialNext

\* The end of a tick, and of the loop.
LEMMA DialEndKeepsIInv == IInv /\ (DialBatchEnd \/ DialLoopEnds) => IInv'
<1> SUFFICES ASSUME IInv, DialBatchEnd \/ DialLoopEnds PROVE IInv'
  OBVIOUS
<1> USE DEF DialBatchEnd, DialLoopEnds, slotVars, managerVars
<1>1. SessionInv /\ TypeOK
  BY DEF IInv, SessionInv
<1>2. batch' \subseteq Addresses /\ toDial' = toDial /\ toDial' \in 0 .. Cardinality(batch')
  <2>1. CASE DialBatchEnd
    <3>1. Cardinality({}) = 0
      BY FS_EmptySet
    <3> QED BY <2>1, <3>1
  <2>2. CASE DialLoopEnds
    BY <1>1, <2>2 DEF TypeOK
  <2> QED BY <2>1, <2>2
<1>3. TypeOK'
  BY <1>1, <1>2 DEF TypeOK, Known
<1>4. DialingExact' /\ BackoffDoubles'
  BY DEF IInv, SessionInv, DialingExact, Busy, BackoffDoubles, Known
<1>5. ConnectionCount' = ConnectionCount
  BY <1>2 DEF ConnectionCount, Adding, Busy
<1> QED BY <1>3, <1>4, <1>5 DEF IInv, SessionInv

\* A goroutine whose dial has failed or succeeded keeps its slot and its entry in
\* the map; the pool is told.
LEMMA NewClientKeepsIInv ==
    ASSUME IInv, NEW s \in Slots, NewClientFails(s) \/ NewClientSucceeds(s)
    PROVE  IInv'
<1> USE DEF NewClientFails, NewClientSucceeds, managerVars, dialVars
<1>1. SessionInv /\ TypeOK /\ DialingExact /\ PoolInv
  BY DEF IInv, SessionInv, TypeOK, PoolInv, PoolTypes
<1>2. slot[s] \in Addresses /\ s \in Busy /\ phase[s] = "dial"
  BY <1>1 DEF InPhase, Busy, TypeOK
<1>3. PoolInv'
  BY <1>1, <1>2, PoolMethods
<1>4. phase' \in [Slots -> {"dial", "add", "release"}] /\ UNCHANGED <<dialing, slot>>
      /\ \A t \in Slots : phase'[t] \in {"dial", "add"} => phase[t] \in {"dial", "add"}
  BY <1>1, <1>2 DEF TypeOK
<1>5. TypeOK'
  BY <1>1, <1>3, <1>4 DEF TypeOK, PoolInv, PoolTypes
<1>6. DialingExact'
  BY <1>1, <1>4 DEF DialingExact, Busy
<1>7. Adding' \subseteq Adding
  BY <1>4 DEF Adding, Busy
<1>8. Cardinality(Adding') <= Cardinality(Adding) /\ Cardinality(Adding') \in Nat
  BY <1>1, <1>7, CountedFinite, FS_Subset, FS_CardinalityType
<1>9. active' = active /\ toDial' = toDial
  OBVIOUS
<1>10. Cardinality(active) \in Nat /\ toDial \in Nat /\ Cardinality(Adding) \in Nat
       /\ Cardinality(Slots) \in Nat
  BY <1>1, CountedFinite
<1>11. ConnectionCount' <= MaxConnections + Cardinality(Slots)
  BY <1>8, <1>9, <1>10, SessionAssumption DEF ConnectionCount, IInv
<1> QED BY <1>3, <1>5, <1>6, <1>11 DEF IInv, SessionInv, PoolInv

\* A goroutine that adds its peer stops being counted as one that may.
LEMMA AddPeerKeepsIInv ==
    ASSUME IInv, NEW s \in Slots, AddPeer(s)
    PROVE  IInv'
<1>1. SessionInv /\ TypeOK /\ DialingExact
  BY DEF IInv, SessionInv
<1>2. slot[s] \in Addresses /\ s \in Busy /\ phase[s] = "add"
  BY <1>1 DEF AddPeer, InPhase, Busy, TypeOK
<1>3. TypeOK'
  BY <1>1, <1>2 DEF TypeOK, AddPeer, Known, dialVars
<1>4. DialingExact' /\ BackoffDoubles'
  BY <1>1 DEF AddPeer, DialingExact, Busy, IInv, BackoffDoubles, Known
<1>5. Adding' = Adding \ {s} /\ s \in Adding
  BY <1>1, <1>2 DEF Adding, Busy, AddPeer, TypeOK
<1>6. Cardinality(Adding') = Cardinality(Adding) - 1
  BY <1>1, <1>5, CountedFinite, FS_RemoveElement
<1>7. Cardinality(active') \in {Cardinality(active), Cardinality(active) + 1}
  <2>1. active' = active \cup {slot[s]}
    BY DEF AddPeer
  <2> QED BY <1>1, <2>1, CountedFinite, FS_AddElement
<1>8. Cardinality(active) \in Nat /\ toDial \in Nat /\ Cardinality(Adding) \in Nat
      /\ Cardinality(Slots) \in Nat
  BY <1>1, CountedFinite
<1>9. toDial' = toDial
  BY DEF AddPeer, dialVars
<1>10. ConnectionCount' <= MaxConnections + Cardinality(Slots)
  BY <1>6, <1>7, <1>8, <1>9, SessionAssumption DEF ConnectionCount, IInv
<1> QED BY <1>3, <1>4, <1>10 DEF IInv, SessionInv

\* The deferred function gives back the slot and the entry of the map together,
\* and no other goroutine has that entry.
LEMMA ReleaseKeepsIInv ==
    ASSUME IInv, NEW s \in Slots, Release(s)
    PROVE  IInv'
<1> USE DEF Release, dialVars, managerVars
<1>1. SessionInv /\ TypeOK /\ DialingExact
  BY DEF IInv, SessionInv
<1>2. s \in Busy /\ phase[s] = "release"
  BY DEF InPhase
<1>3. TypeOK'
  BY <1>1 DEF TypeOK, Known
<1>4. Busy' = Busy \ {s} /\ \A t \in Busy \ {s} : slot'[t] = slot[t]
  BY <1>1 DEF Busy, TypeOK
<1>5. DialingExact'
  BY <1>1, <1>2, <1>4 DEF DialingExact
<1>6. Adding' = Adding
  BY <1>2, <1>4 DEF Adding
<1>7. ConnectionCount' = ConnectionCount /\ BackoffDoubles'
  BY <1>6 DEF ConnectionCount, IInv, BackoffDoubles, Known
<1> QED BY <1>3, <1>5, <1>7 DEF IInv, SessionInv

\* The event loop drops a peer, and tells the pool in a second step.
LEMMA DisconnectKeepsIInv ==
    ASSUME IInv, (\E a \in Addresses : PeerDisconnects(a)) \/ OnPeerDisconnect
    PROVE  IInv'
<1>1. SessionInv /\ TypeOK /\ DialingExact /\ PoolInv
  BY DEF IInv, SessionInv, TypeOK, PoolInv, PoolTypes
<1>2. CASE \E a \in Addresses : PeerDisconnects(a)
  <2>1. PICK a \in Addresses : PeerDisconnects(a)
    BY <1>2
  <2> USE DEF PeerDisconnects, dialVars, slotVars
  <2>2. TypeOK'
    BY <1>1, <2>1 DEF TypeOK, Known
  <2>3. DialingExact' /\ BackoffDoubles'
    BY <1>1, <2>1 DEF DialingExact, Busy, IInv, BackoffDoubles, Known
  <2>4. active' \subseteq active /\ Adding' = Adding /\ toDial' = toDial
    BY <2>1 DEF Adding, Busy
  <2>5. Cardinality(active') <= Cardinality(active) /\ Cardinality(active') \in Nat
    BY <1>1, <2>4, CountedFinite, FS_Subset, FS_CardinalityType
  <2>6. Cardinality(active) \in Nat /\ toDial \in Nat /\ Cardinality(Adding) \in Nat
        /\ Cardinality(Slots) \in Nat
    BY <1>1, CountedFinite
  <2>7. ConnectionCount' <= MaxConnections + Cardinality(Slots)
    BY <2>4, <2>5, <2>6, SessionAssumption DEF ConnectionCount, IInv
  <2> QED BY <2>2, <2>3, <2>7 DEF IInv, SessionInv
<1>3. CASE OnPeerDisconnect
  <2> USE DEF OnPeerDisconnect, dialVars, slotVars
  <2>1. lost \in Addresses /\ MarkFailed(lost)
    BY <1>1, <1>3 DEF TypeOK
  <2>2. PoolInv'
    BY <1>1, <2>1, PoolMethods
  <2>3. TypeOK'
    BY <1>1, <1>3, <2>2 DEF TypeOK, PoolInv, PoolTypes
  <2>4. DialingExact' /\ ConnectionCount' = ConnectionCount
    BY <1>1, <1>3 DEF DialingExact, Busy, ConnectionCount, Adding
  <2> QED BY <2>2, <2>3, <2>4 DEF IInv, SessionInv, PoolInv
<1> QED BY <1>2, <1>3

\* Completion, the end of the discovery goroutine and the return of Download
\* touch nothing that is counted.
LEMMA EndKeepsIInv ==
    IInv /\ (DiscoveryEnds \/ TorrentCompletes \/ Return) => IInv'
<1> SUFFICES ASSUME IInv, DiscoveryEnds \/ TorrentCompletes \/ Return PROVE IInv'
  OBVIOUS
<1> USE DEF DiscoveryEnds, TorrentCompletes, Return, dialVars, slotVars, managerVars
<1>1. TypeOK'
  BY DEF IInv, SessionInv, TypeOK, Known
<1>2. DialingExact' /\ BackoffDoubles' /\ ConnectionCount' = ConnectionCount
  BY DEF IInv, SessionInv, DialingExact, Busy, BackoffDoubles, Known,
         ConnectionCount, Adding
<1> QED BY <1>1, <1>2 DEF IInv, SessionInv

\* Every step keeps the invariant.
LEMMA NextKeepsIInv == IInv /\ [Next]_vars => IInv'
<1> SUFFICES ASSUME IInv, [Next]_vars PROVE IInv'
  OBVIOUS
<1>1. ASSUME NEW a \in Addresses, Discover(a) \/ BackoffElapses(a) PROVE IInv'
  BY <1>1, PoolStep DEF Discover, BackoffElapses
<1>2. CASE DialLoop
  BY <1>2, DialTickKeepsIInv, DialNextKeepsIInv, DialEndKeepsIInv DEF DialLoop
<1>3. ASSUME NEW s \in Slots, Dialer(s) PROVE IInv'
  BY <1>3, NewClientKeepsIInv, AddPeerKeepsIInv, ReleaseKeepsIInv DEF Dialer
<1>4. CASE (\E a \in Addresses : PeerDisconnects(a)) \/ OnPeerDisconnect
  BY <1>4, DisconnectKeepsIInv
<1>5. CASE DiscoveryEnds \/ TorrentCompletes \/ Return
  BY <1>5, EndKeepsIInv
<1>6. CASE UNCHANGED vars
  <2> USE DEF vars, dialVars, slotVars, managerVars
  <2>1. TypeOK'
    BY <1>6 DEF IInv, SessionInv, TypeOK, Known
  <2>2. DialingExact' /\ BackoffDoubles' /\ ConnectionCount' = ConnectionCount
    BY <1>6 DEF IInv, SessionInv, DialingExact, Busy, BackoffDoubles, Known,
                ConnectionCount, Adding
  <2> QED BY <2>1, <2>2 DEF IInv, SessionInv
<1> QED BY <1>1, <1>2, <1>3, <1>4, <1>5, <1>6 DEF Next

----------------------------------------------------------------------------
(* The theorems *)

\* The invariant holds in every reachable state.
LEMMA AlwaysIInv == Spec => []IInv
  BY InitIInv, NextKeepsIInv, PTL DEF Spec

\* The session's state always has its type, a tick never indexes past the end of
\* the candidates, and the map dialing in Session.Download holds exactly the
\* addresses being dialed, each by one goroutine.
THEOREM SessionSafe == Spec => []SessionInv
<1>1. IInv => SessionInv
  BY DEF IInv
<1> QED BY <1>1, AlwaysIInv, PTL

\* The dials that a tick does not count take the number of active peers past
\* maxConnections, but by no more than maxWorkers.
THEOREM SessionConnections == Spec => []ConnectionsBounded
  BY CountBounds, AlwaysIInv, PTL

\* The retry delay set by MarkFailed is the capped doubling one for every number
\* of failures: the overflow check catches every overflow of the shift.
THEOREM SessionBackoff == Spec => []BackoffDoubles
<1>1. IInv => BackoffDoubles
  BY DEF IInv
<1> QED BY <1>1, AlwaysIInv, PTL

\* What a pool method other than MarkSucceeded does to a blacklisted endpoint.
LEMMA StaysBlacklisted ==
    ASSUME PoolTypes, NEW b \in Addresses, NEW a, Blacklisted(a),
           Add(b) \/ MarkFailed(b) \/ Elapse(b) \/ (b # a /\ MarkSucceeded(b))
    PROVE  Blacklisted(a)'
<1>1. a \in Known /\ endpoints[a] \in Endpoint /\ endpoints[a].failCount >= BlacklistAt
      /\ BlacklistAt \in Nat
  BY PoolAssumption DEF Blacklisted, PoolTypes
<1>2. a \in Known' /\ endpoints'[a].failCount
                        \in {endpoints[a].failCount, endpoints[a].failCount + 1}
  <2>1. CASE Add(b)
    BY <1>1, <2>1 DEF Add, Put, Known
  <2>2. CASE MarkFailed(b)
    <3>1. a \in Known' /\ a # b => endpoints'[a] = endpoints[a]
      BY <1>1, <2>2 DEF MarkFailed, Put, Known
    <3>2. a \in Known'
      BY <1>1, <2>2 DEF MarkFailed, Put, Known
    <3>3. a = b => endpoints'[a].failCount = endpoints[a].failCount + 1
      BY <1>1, <2>2 DEF MarkFailed, Put, Known, Endpoint
    <3> QED BY <3>1, <3>2, <3>3
  <2>3. CASE Elapse(b)
    BY <1>1, <2>3 DEF Elapse, Put, Known, Endpoint
  <2>4. CASE b # a /\ MarkSucceeded(b)
    BY <1>1, <2>4 DEF MarkSucceeded, Put, Known
  <2> QED BY <2>1, <2>2, <2>3, <2>4
<1> QED BY <1>1, <1>2 DEF Blacklisted, Endpoint

\* Only a successful dial takes an endpoint off the blacklist.
THEOREM SessionBlacklist == Spec => BlacklistKept
<1> DEFINE Kept(a) ==
        Blacklisted(a) /\ ~Blacklisted(a)' =>
            \E s \in Slots : InPhase(s, "dial") /\ slot[s] = a /\ phase'[s] = "add"
<1>1. ASSUME IInv, [Next]_vars, NEW a \in Addresses
      PROVE  Kept(a)
  <2>1. PoolInv /\ PoolTypes /\ TypeOK
    BY <1>1 DEF IInv, SessionInv, TypeOK, PoolInv, PoolTypes
  <2>2. CASE UNCHANGED endpoints
    BY <2>2 DEF Blacklisted, Known
  <2>3. ASSUME NEW b \in Addresses, Discover(b) \/ BackoffElapses(b)
        PROVE  Blacklisted(a) => Blacklisted(a)'
    BY <2>1, <2>3, StaysBlacklisted DEF Discover, BackoffElapses
  <2>4. ASSUME OnPeerDisconnect
        PROVE  Blacklisted(a) => Blacklisted(a)'
    <3>1. lost \in Addresses /\ MarkFailed(lost)
      BY <2>1, <2>4 DEF OnPeerDisconnect, TypeOK
    <3> QED BY <2>1, <3>1, StaysBlacklisted
  <2>5. ASSUME NEW s \in Slots, NewClientFails(s)
        PROVE  Blacklisted(a) => Blacklisted(a)'
    <3>1. slot[s] \in Addresses /\ MarkFailed(slot[s])
      BY <2>1, <2>5 DEF NewClientFails, TypeOK, InPhase, Busy
    <3> QED BY <2>1, <3>1, StaysBlacklisted
  <2>6. ASSUME NEW s \in Slots, NewClientSucceeds(s)
        PROVE  /\ slot[s] # a => (Blacklisted(a) => Blacklisted(a)')
               /\ InPhase(s, "dial") /\ phase'[s] = "add"
    <3>1. slot[s] \in Addresses /\ MarkSucceeded(slot[s])
      BY <2>1, <2>6 DEF NewClientSucceeds, TypeOK, InPhase, Busy
    <3>2. InPhase(s, "dial") /\ phase'[s] = "add"
      BY <2>1, <2>6 DEF NewClientSucceeds, TypeOK
    <3> QED BY <2>1, <3>1, <3>2, StaysBlacklisted
  <2>7. CASE UNCHANGED vars
    BY <2>2, <2>7 DEF vars
  <2>8. CASE DialLoop \/ DiscoveryEnds \/ TorrentCompletes \/ Return
             \/ (\E b \in Addresses : PeerDisconnects(b))
             \/ (\E s \in Slots : AddPeer(s) \/ Release(s))
    <3>1. UNCHANGED endpoints
      BY <2>8 DEF DialLoop, DialTick, DialNext, DialBatchEnd, DialLoopEnds,
                  DiscoveryEnds, TorrentCompletes, Return, PeerDisconnects,
                  AddPeer, Release
    <3> QED BY <2>2, <3>1
  <2> QED BY <1>1, <2>3, <2>4, <2>5, <2>6, <2>7, <2>8 DEF Next, Dialer
<1>2. IInv /\ [Next]_vars => [\A a \in Addresses : Kept(a)]_vars
  BY <1>1
<1> QED BY <1>2, AlwaysIInv, PTL DEF Spec, BlacklistKept
=============================================================================
