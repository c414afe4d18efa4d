------------------------- MODULE RecursionTheorems -------------------------
(***************************************************************************)
(* Induction over the naturals and the existence of functions that are     *)
(* defined by recursion, as facts about sets and functions: what the loops *)
(* of the code compute is proved from them, and what an automaton reads    *)
(* from a channel.                                                         *)
(***************************************************************************)
EXTENDS Integers, Sequences, SequenceTheorems, NaturalsInduction, WellFoundedInduction,
        TLAPS

\* Induction over the naturals, for a set of them.
LEMMA SetInduction ==
    ASSUME NEW S \in SUBSET Nat, 0 \in S, \A n \in S : n + 1 \in S
    PROVE  S = Nat
<1>1. SUFFICES ASSUME Nat \ S # {} PROVE FALSE
  OBVIOUS
<1>2. PICK x \in Nat \ S : \A y \in Nat \ S : ~(<<y, x>> \in OpToRel(<, Nat))
  BY <1>1, NatLessThanWellFounded, WFMin
<1>3. x - 1 \in Nat /\ <<x - 1, x>> \in OpToRel(<, Nat)
  BY DEF OpToRel
<1>4. x - 1 \in S
  BY <1>2, <1>3
<1> QED BY <1>4

\* g holds the states of a loop that starts in b and makes n steps of F, where
\* F[<<t, i>>] is the state after the i-th step from t.
LoopTo(g, n, T, b, F) ==
    /\ g \in [0 .. n -> T]
    /\ g[0] = b
    /\ \A i \in 1 .. n : g[i] = F[<<g[i - 1], i>>]

\* Every loop over 1 .. N has its states.
LEMMA LoopExists ==
    ASSUME NEW T, NEW b \in T, NEW N \in Nat, NEW F \in [T \X (1 .. N) -> T]
    PROVE  \E g : LoopTo(g, N, T, b, F)
<1> DEFINE S == {n \in Nat : n <= N => \E g : LoopTo(g, n, T, b, F)}
<1>1. 0 \in S
  <2>1. LoopTo([i \in 0 .. 0 |-> b], 0, T, b, F)
    BY DEF LoopTo
  <2> QED BY <2>1
<1>2. ASSUME NEW n \in S PROVE n + 1 \in S
  <2> SUFFICES ASSUME n + 1 <= N PROVE \E g : LoopTo(g, n + 1, T, b, F)
    OBVIOUS
  <2>1. n \in Nat /\ n <= N /\ n + 1 \in 1 .. N
    OBVIOUS
  <2>2. PICK g : LoopTo(g, n, T, b, F)
    BY <2>1
  <2>3. g[n] \in T
    BY <2>1, <2>2 DEF LoopTo
  <2> DEFINE x == F[<<g[n], n + 1>>]
  <2>4. x \in T
    BY <2>1, <2>3
  <2> HIDE DEF x
  <2> DEFINE h == [i \in 0 .. n + 1 |-> IF i = n + 1 THEN x ELSE g[i]]
  <2>5. h \in [0 .. n + 1 -> T] /\ h[0] = b
    BY <2>1, <2>2, <2>4 DEF LoopTo
  <2>6. ASSUME NEW i \in 1 .. n + 1 PROVE h[i] = F[<<h[i - 1], i>>]
    <3>1. i - 1 \in 0 .. n /\ h[i - 1] = g[i - 1]
      BY <2>1
    <3>2. CASE i = n + 1
      <4>1. i - 1 = n /\ h[i] = x
        BY <2>1, <3>2
      <4> QED BY <3>1, <3>2, <4>1 DEF x
    <3>3. CASE i # n + 1
      <4>1. i \in 1 .. n /\ h[i] = g[i]
        BY <2>1, <3>3
      <4> QED BY <2>2, <3>1, <4>1 DEF LoopTo
    <3> QED BY <3>2, <3>3
  <2> QED BY <2>5, <2>6 DEF LoopTo
<1>3. S \in SUBSET Nat
  OBVIOUS
<1> HIDE DEF S
<1>4. N \in S
  BY <1>1, <1>2, <1>3, SetInduction
<1> QED BY <1>4 DEF S

----------------------------------------------------------------------------
(* An automaton that reads a sequence *)

\* D has the states T and reads elements of M.
Automaton(D, T, M) == D \in [T \X M -> T]

\* The state in which the automaton D ends that starts in e and reads s.
Run(D, s, e) ==
    LET after[n \in 0 .. Len(s)] == IF n = 0 THEN e ELSE D[<<after[n - 1], s[n]>>]
    IN  after[Len(s)]

\* g holds its states on the way.
StatesOf(g, D, s, e) ==
    /\ g[0] = e
    /\ \A i \in 1 .. Len(s) : g[i] = D[<<g[i - 1], s[i]>>]

\* An automaton has states on every sequence.
LEMMA RunStates ==
    ASSUME NEW T, NEW M, NEW D, Automaton(D, T, M), NEW s \in Seq(M), NEW e \in T
    PROVE  \E g \in [0 .. Len(s) -> T] : StatesOf(g, D, s, e) /\ Run(D, s, e) = g[Len(s)]
<1> DEFINE N == Len(s)
           F == [x \in T \X (1 .. N) |-> D[<<x[1], s[x[2]]>>]]
           f == CHOOSE f : f = [n \in 0 .. N |-> IF n = 0 THEN e ELSE D[<<f[n - 1], s[n]>>]]
<1>1. N \in Nat /\ \A n \in 1 .. N : s[n] \in M
  BY LenProperties, ElementOfSeq
<1>2. Run(D, s, e) = f[N]
  BY DEF Run
<1> HIDE DEF N
<1>3. \A t \in T, n \in 1 .. N : F[<<t, n>>] = D[<<t, s[n]>>]
  OBVIOUS
<1>4. F \in [T \X (1 .. N) -> T]
  BY <1>1 DEF Automaton
<1> HIDE DEF F
<1>5. PICK g : LoopTo(g, N, T, e, F)
  BY <1>1, <1>4, LoopExists
<1>6. g \in [0 .. N -> T] /\ g[0] = e
  BY <1>5 DEF LoopTo
<1>7. ASSUME NEW n \in 1 .. N PROVE g[n] = D[<<g[n - 1], s[n]>>] /\ n - 1 \in 0 .. N
  <2>1. n - 1 \in 0 .. N
    BY <1>1
  <2>2. g[n - 1] \in T
    BY <1>6, <2>1
  <2>3. g[n] = F[<<g[n - 1], n>>]
    BY <1>5 DEF LoopTo
  <2> QED BY <1>3, <2>1, <2>2, <2>3
<1>8. \A n \in 0 .. N : g[n] = IF n = 0 THEN e ELSE D[<<g[n - 1], s[n]>>]
  BY <1>1, <1>6, <1>7
<1>9. g = [n \in 0 .. N |-> IF n = 0 THEN e ELSE D[<<g[n - 1], s[n]>>]]
  BY <1>6, <1>8
<1>10. f = [n \in 0 .. N |-> IF n = 0 THEN e ELSE D[<<f[n - 1], s[n]>>]]
  BY <1>9
<1> HIDE DEF f
<1> DEFINE S == {n \in Nat : n <= N => f[n] \in T}
<1>11. 0 \in S
  BY <1>1, <1>10
<1>12. ASSUME NEW n \in S PROVE n + 1 \in S
  <2> SUFFICES ASSUME n + 1 <= N PROVE f[n + 1] \in T
    OBVIOUS
  <2>1. n \in Nat /\ n + 1 \in 1 .. N /\ n + 1 \in 0 .. N /\ n + 1 # 0 /\ (n + 1) - 1 = n
        /\ n <= N
    BY <1>1
  <2>2. f[n + 1] = D[<<f[n], s[n + 1]>>]
    BY <1>10, <2>1
  <2>3. f[n] \in T /\ s[n + 1] \in M
    BY <1>1, <2>1
  <2> QED BY <2>2, <2>3 DEF Automaton
<1>13. S = Nat
  <2>1. S \in SUBSET Nat
    OBVIOUS
  <2> HIDE DEF S
  <2> QED BY <1>11, <1>12, <2>1, SetInduction
<1>14. \A n \in 0 .. N : f[n] \in T
  BY <1>1, <1>13
<1>15. f \in [0 .. N -> T]
  BY <1>10, <1>14
<1>16. f[0] = e /\ \A i \in 1 .. N : f[i] = D[<<f[i - 1], s[i]>>]
  BY <1>1, <1>10
<1> QED BY <1>2, <1>15, <1>16 DEF StatesOf, N

\* They are the only ones, so that they end where it ends.
LEMMA RunIs ==
    ASSUME NEW T, NEW M, NEW D, Automaton(D, T, M), NEW s \in Seq(M), NEW e \in T,
           NEW h, StatesOf(h, D, s, e)
    PROVE  Run(D, s, e) = h[Len(s)]
<1>1. PICK g \in [0 .. Len(s) -> T] : StatesOf(g, D, s, e) /\ Run(D, s, e) = g[Len(s)]
  BY RunStates
<1>2. Len(s) \in Nat
  BY LenProperties
<1> DEFINE S == {n \in Nat : n <= Len(s) => g[n] = h[n]}
<1>3. 0 \in S
  BY <1>1 DEF StatesOf
<1>4. ASSUME NEW n \in S PROVE n + 1 \in S
  <2> SUFFICES ASSUME n + 1 <= Len(s) PROVE g[n + 1] = h[n + 1]
    OBVIOUS
  <2>1. n \in Nat /\ n + 1 \in 1 .. Len(s) /\ (n + 1) - 1 = n /\ n <= Len(s)
    BY <1>2
  <2>2. g[n + 1] = D[<<g[n], s[n + 1]>>] /\ h[n + 1] = D[<<h[n], s[n + 1]>>]
    BY <1>1, <2>1 DEF StatesOf
  <2> QED BY <2>1, <2>2
<1>5. S \in SUBSET Nat
  OBVIOUS
<1> HIDE DEF S
<1>6. Len(s) \in S
  BY <1>2, <1>3, <1>4, <1>5, SetInduction
<1> QED BY <1>1, <1>2, <1>6 DEF S

\* A set of states that no element of s leads out of.
LEMMA RunWithin ==
    ASSUME NEW T, NEW M, NEW D, Automaton(D, T, M), NEW s \in Seq(M), NEW e \in T,
           NEW Z, e \in Z, \A z \in Z \cap T, i \in 1 .. Len(s) : D[<<z, s[i]>>] \in Z
    PROVE  Run(D, s, e) \in Z \cap T
<1>1. PICK g \in [0 .. Len(s) -> T] : StatesOf(g, D, s, e) /\ Run(D, s, e) = g[Len(s)]
  BY RunStates
<1>2. Len(s) \in Nat
  BY LenProperties
<1> DEFINE S == {n \in Nat : n <= Len(s) => g[n] \in Z}
<1>3. 0 \in S
  BY <1>1 DEF StatesOf
<1>4. ASSUME NEW n \in S PROVE n + 1 \in S
  <2> SUFFICES ASSUME n + 1 <= Len(s) PROVE g[n + 1] \in Z
    OBVIOUS
  <2>1. n \in Nat /\ n + 1 \in 1 .. Len(s) /\ (n + 1) - 1 = n /\ n <= Len(s)
        /\ n \in 0 .. Len(s)
    BY <1>2
  <2>2. g[n + 1] = D[<<g[n], s[n + 1]>>]
    BY <1>1, <2>1 DEF StatesOf
  <2>3. g[n] \in Z \cap T
    BY <2>1
  <2> QED BY <2>1, <2>2, <2>3
<1>5. S \in SUBSET Nat
  OBVIOUS
<1> HIDE DEF S
<1>6. Len(s) \in S
  BY <1>2, <1>3, <1>4, <1>5, SetInduction
<1>7. g[Len(s)] \in T
  BY <1>2
<1> QED BY <1>1, <1>2, <1>6, <1>7 DEF S

\* Nothing is read from an empty sequence.
LEMMA RunEmpty ==
    ASSUME NEW T, NEW M, NEW D, Automaton(D, T, M), NEW s \in Seq(M), NEW e \in T
    PROVE  s = <<>> => Run(D, s, e) = e
<1>1. PICK g \in [0 .. Len(s) -> T] : StatesOf(g, D, s, e) /\ Run(D, s, e) = g[Len(s)]
  BY RunStates
<1>2. s = <<>> => Len(s) = 0
  BY EmptySeq
<1>3. Len(s) = 0 => Run(D, s, e) = e
  BY <1>1 DEF StatesOf
<1> QED BY <1>2, <1>3

\* The last element is read last.
LEMMA RunAppend ==
    ASSUME NEW T, NEW M, NEW D, Automaton(D, T, M), NEW s \in Seq(M), NEW e \in T, NEW m \in M
    PROVE  Run(D, Append(s, m), e) = D[<<Run(D, s, e), m>>]
<1>1. PICK g \in [0 .. Len(s) -> T] : StatesOf(g, D, s, e) /\ Run(D, s, e) = g[Len(s)]
  BY RunStates
<1> DEFINE t == Append(s, m)
           N == Len(s)
           last == D[<<g[N], m>>]
           h == [i \in 0 .. N + 1 |-> IF i = N + 1 THEN last ELSE g[i]]
<1>2. /\ t \in Seq(M) /\ Len(t) = N + 1 /\ t[N + 1] = m /\ N \in Nat
      /\ \A i \in 1 .. N : t[i] = s[i]
  BY AppendProperties, LenProperties
<1> HIDE DEF t, N
<1>3. h[0] = e
  BY <1>1, <1>2 DEF StatesOf
<1>4. ASSUME NEW i \in 1 .. N + 1 PROVE h[i] = D[<<h[i - 1], t[i]>>]
  <2>1. i - 1 \in 0 .. N /\ h[i - 1] = g[i - 1]
    BY <1>2
  <2>2. CASE i = N + 1
    <3>1. i - 1 = N /\ h[i] = last
      BY <1>2, <2>2
    <3> QED BY <1>2, <2>1, <2>2, <3>1
  <2>3. CASE i # N + 1
    <3>1. i \in 1 .. N /\ h[i] = g[i] /\ t[i] = s[i]
      BY <1>2, <2>3
    <3> QED BY <1>1, <2>1, <3>1 DEF StatesOf, N
  <2> QED BY <2>2, <2>3
<1>5. StatesOf(h, D, t, e)
  BY <1>2, <1>3, <1>4 DEF StatesOf
<1>6. h[N + 1] = last
  BY <1>2
<1> HIDE DEF h
<1>7. Run(D, t, e) = h[N + 1]
  BY <1>2, <1>5, RunIs
<1> QED BY <1>1, <1>6, <1>7 DEF t, N

\* The first element is read first.
LEMMA RunTail ==
    ASSUME NEW T, NEW M, NEW D, Automaton(D, T, M), NEW s \in Seq(M), s # <<>>, NEW e \in T
    PROVE  Run(D, s, e) = Run(D, Tail(s), D[<<e, Head(s)>>])
<1>1. PICK g \in [0 .. Len(s) -> T] : StatesOf(g, D, s, e) /\ Run(D, s, e) = g[Len(s)]
  BY RunStates
<1> DEFINE t == Tail(s)
           N == Len(s)
           m == Head(s)
           d == D[<<e, m>>]
           h == [i \in 0 .. N - 1 |-> g[i + 1]]
<1>2. /\ m \in M /\ t \in Seq(M) /\ Len(t) = N - 1 /\ N \in Nat /\ N > 0 /\ m = s[1]
      /\ \A i \in 1 .. N - 1 : t[i] = s[i + 1]
  BY HeadTailProperties, LenProperties, EmptySeq
<1>3. d \in T
  BY <1>2 DEF Automaton
<1> HIDE DEF t, N, m
<1>4. g[1] = d /\ g[0] = e
  <2>1. 1 \in 1 .. N /\ 1 - 1 = 0
    BY <1>2
  <2> QED BY <1>1, <1>2, <2>1 DEF StatesOf, N
<1>5. h[0] = d
  BY <1>2, <1>4
<1>6. ASSUME NEW i \in 1 .. N - 1 PROVE h[i] = D[<<h[i - 1], t[i]>>]
  <2>1. /\ i - 1 \in 0 .. N - 1 /\ i \in 0 .. N - 1 /\ (i - 1) + 1 = i
        /\ i + 1 \in 1 .. N /\ (i + 1) - 1 = i
    BY <1>2
  <2>2. h[i] = g[i + 1] /\ h[i - 1] = g[i]
    BY <2>1
  <2>3. g[i + 1] = D[<<g[i], s[i + 1]>>]
    BY <1>1, <2>1 DEF StatesOf, N
  <2> QED BY <1>2, <2>2, <2>3
<1>7. StatesOf(h, D, t, d)
  BY <1>2, <1>5, <1>6 DEF StatesOf
<1>8. h[N - 1] = g[N]
  BY <1>2
<1> HIDE DEF h, d
<1>9. Run(D, t, d) = h[N - 1]
  BY <1>2, <1>3, <1>7, RunIs
<1> QED BY <1>1, <1>8, <1>9 DEF t, N, m, d

\* Two sequences are read one after the other.
LEMMA RunConcat ==
    ASSUME NEW T, NEW M, NEW D, Automaton(D, T, M), NEW s \in Seq(M), NEW t \in Seq(M),
           NEW e \in T
    PROVE  Run(D, s \o t, e) = Run(D, t, Run(D, s, e))
<1> DEFINE u == s \o t
           N == Len(s)
           P == Len(t)
<1>1. /\ u \in Seq(M) /\ Len(u) = N + P /\ N \in Nat /\ P \in Nat
      /\ \A i \in 1 .. N : u[i] = s[i]
      /\ \A i \in 1 .. P : u[N + i] = t[i]
  BY ConcatProperties, LenProperties
<1> HIDE DEF u, N, P
<1>2. PICK g \in [0 .. Len(u) -> T] : StatesOf(g, D, u, e) /\ Run(D, u, e) = g[Len(u)]
  BY <1>1, RunStates
<1>3. StatesOf(g, D, s, e)
  <2>1. ASSUME NEW i \in 1 .. N PROVE g[i] = D[<<g[i - 1], s[i]>>]
    <3>1. i \in 1 .. N + P
      BY <1>1
    <3> QED BY <1>1, <1>2, <3>1 DEF StatesOf
  <2> QED BY <1>2, <2>1 DEF StatesOf, N
<1>4. Run(D, s, e) = g[N]
  <2>1. Run(D, s, e) = g[Len(s)]
    BY <1>3, RunIs
  <2> QED BY <2>1 DEF N
<1>5. g[N] \in T
  BY <1>1
<1> DEFINE h == [i \in 0 .. P |-> g[N + i]]
<1>6. h[0] = g[N] /\ h[P] = g[N + P]
  BY <1>1
<1>7. ASSUME NEW i \in 1 .. P PROVE h[i] = D[<<h[i - 1], t[i]>>]
  <2>1. N + i \in 1 .. N + P /\ (N + i) - 1 = N + (i - 1) /\ i - 1 \in 0 .. P
    BY <1>1
  <2>2. g[N + i] = D[<<g[(N + i) - 1], u[N + i]>>]
    BY <1>1, <1>2, <2>1 DEF StatesOf
  <2>3. h[i] = g[N + i] /\ h[i - 1] = g[N + (i - 1)]
    BY <1>1, <2>1
  <2>4. g[(N + i) - 1] = h[i - 1]
    BY <2>1, <2>3
  <2>5. u[N + i] = t[i]
    BY <1>1
  <2> HIDE DEF h
  <2> QED BY <2>2, <2>3, <2>4, <2>5
<1>8. StatesOf(h, D, t, g[N])
  BY <1>6, <1>7 DEF StatesOf, P
<1> HIDE DEF h
<1>9. Run(D, t, g[N]) = h[P]
  <2>1. Run(D, t, g[N]) = h[Len(t)]
    BY <1>5, <1>8, RunIs
  <2> QED BY <2>1 DEF P
<1> QED BY <1>1, <1>2, <1>4, <1>6, <1>9 DEF u
=============================================================================
