------------------------ MODULE ConcurrentFileProofs ------------------------
(***************************************************************************)
(* ConcurrentFile for any number of pieces, workers and retries: its types,*)
(* that no piece is lost between the channels, and that it implements      *)
(* DownloadContract.                                                       *)
(***************************************************************************)
EXTENDS ConcurrentFile, FiniteSetTheorems, SequenceTheorems, TLAPS

\* The number of pieces is a natural number, and the set of pieces has that
\* many elements.
LEMMA PiecesCounted ==
    /\ TotalPieces \in Nat
    /\ IsFiniteSet(Pieces)
    /\ Cardinality(Pieces) = TotalPieces
<1>1. TotalPieces \in Nat
  BY GeometryAssumption DEF TotalPieces, CeilDiv
<1>2. /\ IsFiniteSet(Pieces)
      /\ Cardinality(Pieces) = IF 0 > TotalPieces - 1 THEN 0
                               ELSE (TotalPieces - 1) - 0 + 1
  BY <1>1, FS_Interval DEF Pieces
<1> QED BY <1>1, <1>2

\* As many pieces collected as there are means that all of them are.
LEMMA AllCollected ==
    ASSUME TypeOK, ~(Cardinality(pieceMap) < TotalPieces)
    PROVE  pieceMap = Pieces
<1>1. /\ pieceMap \subseteq Pieces
      /\ Cardinality(pieceMap) <= Cardinality(Pieces)
      /\ Cardinality(pieceMap) \in Nat
  BY PiecesCounted, FS_Subset, FS_CardinalityType DEF TypeOK
<1>2. Cardinality(pieceMap) = Cardinality(Pieces)
  BY <1>1, PiecesCounted
<1> QED BY <1>1, <1>2, PiecesCounted, FS_Subset

----------------------------------------------------------------------------

\* The initial state has the right types.
LEMMA InitTypeOK == Init => TypeOK
<1> SUFFICES ASSUME Init PROVE TypeOK
  OBVIOUS
<1>1. workCh \in Seq(Work)
  <2>1. ASSUME NEW i \in 1 .. TotalPieces
        PROVE  [index |-> i - 1, retries |-> 0] \in Work
    BY PiecesCounted, WorkersAssumption DEF Work, Pieces
  <2> QED BY <2>1, PiecesCounted DEF Init
<1> QED BY <1>1 DEF Init, TypeOK, Holding

\* A step of the process is one of its goroutines, or leaves their state alone.
LEMMA StepOrNone == [Next]_vars => [Step]_stateVars /\ (crashed \in BOOLEAN => crashed' \in BOOLEAN)
  BY DEF Next, Running, DownloadPanics, vars

\* Every step keeps the types.
LEMMA NextTypeOK == TypeOK /\ [Next]_vars => TypeOK'
<1> SUFFICES ASSUME TypeOK, [Step]_stateVars, crashed' \in BOOLEAN PROVE TypeOK'
  BY StepOrNone DEF TypeOK
<1> USE DEF TypeOK, Holding
<1>1. CASE UNCHANGED stateVars
  BY <1>1 DEF stateVars
<1>2. CASE CollectResult
  <2>1. Head(resultCh) \in Pieces /\ Tail(resultCh) \in Seq(Pieces)
    BY <1>2 DEF CollectResult
  <2> QED BY <1>2, <2>1 DEF CollectResult
<1>3. CASE CollectError
  BY <1>3 DEF CollectError
<1>4. CASE AllWorkersDone \/ Assemble
  BY <1>4 DEF AllWorkersDone, Assemble, channels
<1>5. ASSUME NEW w \in Workers, Connect(w) PROVE TypeOK'
  BY <1>5 DEF Connect, channels, Goto
<1>6. ASSUME NEW w \in Workers, TakeWork(w) PROVE TypeOK'
  <2>1. Head(workCh) \in Work /\ Tail(workCh) \in Seq(Work)
    BY <1>6 DEF TakeWork
  <2> QED BY <1>6, <2>1 DEF TakeWork, Goto
<1>7. ASSUME NEW w \in Workers, NEW d, Downloaded(w, d) PROVE TypeOK'
  BY <1>7 DEF Downloaded, channels, Goto
<1>8. ASSUME NEW w \in Workers, Requeue(w) PROVE TypeOK'
  <2>1. [job[w] EXCEPT !.retries = @ + 1] \in Work
    <3>1. job[w] \in Work /\ job[w].retries < MaxRetries
      BY <1>8 DEF Requeue
    <3>2. job[w].retries + 1 \in 0 .. MaxRetries
      BY <3>1, WorkersAssumption DEF Work
    <3> QED BY <3>1, <3>2 DEF Work
  <2>2. workCh' \in Seq(Work)
    BY <1>8, <2>1 DEF Requeue
  <2> QED BY <1>8, <2>2 DEF Requeue, Goto
<1>9. ASSUME NEW w \in Workers, GiveUp(w) PROVE TypeOK'
  <2>1. job[w].index \in Pieces
    BY <1>9 DEF GiveUp, Work
  <2>2. errCh' \in Seq(Pieces)
    BY <1>9, <2>1 DEF GiveUp
  <2> QED BY <1>9, <2>2 DEF GiveUp, Goto
<1>10. ASSUME NEW w \in Workers, Deliver(w) PROVE TypeOK'
  <2>1. job[w].index \in Pieces
    BY <1>10 DEF Deliver, Work
  <2>2. resultCh' \in Seq(Pieces)
    BY <1>10, <2>1 DEF Deliver
  <2> QED BY <1>10, <2>2 DEF Deliver, Goto
<1>11. ASSUME NEW w \in Workers, SeeDone(w) PROVE TypeOK'
  BY <1>11 DEF SeeDone, channels, Goto
<1> QED BY <1>1, <1>2, <1>3, <1>4, <1>5, <1>6, <1>7, <1>8, <1>9, <1>10, <1>11
        DEF Step, Caller, PieceStep

\* Channels and workers keep their types in every run.
THEOREM TypeCorrect == Spec => []TypeOK
  BY InitTypeOK, NextTypeOK, PTL DEF Spec

----------------------------------------------------------------------------
(* No piece is lost *)

\* The places NoWorkLost looks for piece p in.
Found(p) ==
    \/ \E i \in DOMAIN workCh : workCh[i].index = p
    \/ Held(p) # {}
    \/ \E i \in DOMAIN resultCh : resultCh[i] = p
    \/ errCh # <<>>

\* What Append and Tail leave in a sequence.
LEMMA AppendHas ==
    ASSUME NEW S, NEW s \in Seq(S), NEW x \in S
    PROVE  /\ \A i \in DOMAIN s : i \in DOMAIN Append(s, x) /\ Append(s, x)[i] = s[i]
           /\ Len(s) + 1 \in DOMAIN Append(s, x)
           /\ Append(s, x)[Len(s) + 1] = x
           /\ Append(s, x) # <<>>
  OBVIOUS

LEMMA TailHas ==
    ASSUME NEW S, NEW s \in Seq(S), s # <<>>, NEW i \in DOMAIN s
    PROVE  s[i] = Head(s) \/ \E j \in DOMAIN Tail(s) : Tail(s)[j] = s[i]
<1>1. Len(s) \in Nat /\ DOMAIN s = 1 .. Len(s) /\ Len(s) > 0
  OBVIOUS
<1>2. CASE i = 1
  BY <1>2
<1>3. CASE i # 1
  <2>1. i - 1 \in 1 .. Len(s) - 1
    BY <1>1, <1>3
  <2>2. i - 1 \in DOMAIN Tail(s) /\ Tail(s)[i - 1] = s[i]
    BY <1>1, <2>1
  <2> QED BY <2>2
<1> QED BY <1>2, <1>3

\* A step that does not return to the caller finds every piece again.
LEMMA NextNoWorkLost == TypeOK /\ NoWorkLost /\ [Step]_stateVars => NoWorkLost'
<1> SUFFICES ASSUME TypeOK, NoWorkLost, [Step]_stateVars, result' = "waiting",
                    NEW p \in Pieces \ pieceMap'
             PROVE  Found(p)'
  BY DEF NoWorkLost, Found
<1>0. result = "waiting" /\ (p \notin pieceMap => Found(p))
  BY DEF NoWorkLost, Found, Step, Caller, PieceStep, stateVars, CollectResult,
         CollectError, AllWorkersDone, Assemble, Connect, TakeWork, Downloaded,
         Requeue, GiveUp, Deliver, SeeDone
<1> USE DEF TypeOK
<1>1. CASE UNCHANGED stateVars
  BY <1>0, <1>1 DEF stateVars, Found, Held
<1>2. CASE CollectResult
  <2>1. p \notin pieceMap /\ p # Head(resultCh) /\ resultCh # <<>>
    BY <1>2 DEF CollectResult
  <2>2. UNCHANGED <<workCh, errCh, worker, job>> /\ resultCh' = Tail(resultCh)
    BY <1>2 DEF CollectResult
  <2>3. CASE \E i \in DOMAIN resultCh : resultCh[i] = p
    BY <2>1, <2>2, <2>3, TailHas DEF Found
  <2> QED BY <1>0, <2>1, <2>2, <2>3 DEF Found, Held
<1>3. CASE CollectError \/ AllWorkersDone \/ Assemble
  BY <1>3 DEF CollectError, AllWorkersDone, Assemble
<1>4. ASSUME NEW w \in Workers, Connect(w) \/ (\E d : Downloaded(w, d))
      PROVE  Found(p)'
  <2>1. /\ UNCHANGED <<workCh, resultCh, errCh, job, pieceMap>>
        /\ \A v \in Workers : worker[v] \in Holding => worker'[v] \in Holding
    BY <1>4 DEF Connect, Downloaded, channels, Goto, Holding
  <2> QED BY <1>0, <2>1 DEF Found, Held
<1>5. ASSUME NEW w \in Workers, TakeWork(w) PROVE Found(p)'
  <2>1. /\ workCh # <<>> /\ workCh' = Tail(workCh)
        /\ UNCHANGED <<resultCh, errCh, pieceMap>>
        /\ job'[w] = Head(workCh) /\ worker'[w] \in Holding
        /\ \A v \in Workers : worker[v] \in Holding =>
               worker'[v] = worker[v] /\ job'[v] = job[v]
    BY <1>5 DEF TakeWork, Goto, Holding
  <2>2. CASE \E i \in DOMAIN workCh : workCh[i].index = p
    <3>1. PICK i \in DOMAIN workCh : workCh[i].index = p
      BY <2>2
    <3>2. workCh[i] = Head(workCh)
            \/ \E j \in DOMAIN workCh' : workCh'[j] = workCh[i]
      BY <2>1, TailHas
    <3> QED BY <2>1, <3>1, <3>2 DEF Found, Held
  <2> QED BY <1>0, <2>1, <2>2 DEF Found, Held
<1>6. ASSUME NEW w \in Workers, Requeue(w) PROVE Found(p)'
  <2> DEFINE back == [job[w] EXCEPT !.retries = @ + 1]
  <2>1. job[w] \in Work /\ job[w].retries < MaxRetries
    BY <1>6 DEF Requeue, Holding
  <2>2. back \in Work /\ back.index = job[w].index
    <3>1. job[w].retries + 1 \in 0 .. MaxRetries
      BY <2>1, WorkersAssumption DEF Work
    <3> QED BY <2>1, <3>1 DEF Work
  <2>3. /\ workCh' = Append(workCh, back)
        /\ UNCHANGED <<resultCh, errCh, job, pieceMap>>
        /\ \A v \in Workers \ {w} : worker'[v] = worker[v]
    BY <1>6 DEF Requeue, Goto
  <2>4. /\ \A i \in DOMAIN workCh : i \in DOMAIN workCh' /\ workCh'[i] = workCh[i]
        /\ \E i \in DOMAIN workCh' : workCh'[i] = back
    <3> HIDE DEF back
    <3> QED BY <2>2, <2>3, AppendHas
  <2>5. CASE w \in Held(p)
    BY <2>2, <2>4, <2>5 DEF Found, Held
  <2>6. CASE w \notin Held(p)
    <3> HIDE DEF back
    <3> QED BY <1>0, <2>3, <2>4, <2>6 DEF Found, Held
  <2> QED BY <2>5, <2>6
<1>7. ASSUME NEW w \in Workers, GiveUp(w) PROVE Found(p)'
  <2>1. job[w].index \in Pieces
    BY <1>7 DEF GiveUp, Holding, Work
  <2>2. errCh' # <<>>
    BY <1>7, <2>1, AppendHas DEF GiveUp
  <2> QED BY <2>2 DEF Found
<1>8. ASSUME NEW w \in Workers, Deliver(w) PROVE Found(p)'
  <2>1. job[w].index \in Pieces
    BY <1>8 DEF Deliver, Holding, Work
  <2>2. /\ resultCh' = Append(resultCh, job[w].index)
        /\ UNCHANGED <<workCh, errCh, job, pieceMap>>
        /\ \A v \in Workers \ {w} : worker'[v] = worker[v]
    BY <1>8 DEF Deliver, Goto
  <2>3. /\ \A i \in DOMAIN resultCh :
              i \in DOMAIN resultCh' /\ resultCh'[i] = resultCh[i]
        /\ \E i \in DOMAIN resultCh' : resultCh'[i] = job[w].index
    BY <2>1, <2>2, AppendHas
  <2>4. CASE w \in Held(p)
    BY <2>3, <2>4 DEF Found, Held
  <2>5. CASE w \notin Held(p)
    BY <1>0, <2>2, <2>3, <2>5 DEF Found, Held
  <2> QED BY <2>4, <2>5
<1>9. ASSUME NEW w \in Workers, SeeDone(w) PROVE Found(p)'
  BY <1>0, <1>9 DEF SeeDone, done
<1> QED BY <1>1, <1>2, <1>3, <1>4, <1>5, <1>6, <1>7, <1>8, <1>9
        DEF Step, Caller, PieceStep

\* Every piece that is not yet collected is somewhere on its way, for any number
\* of workers that fail, retry and give up in any order.
THEOREM NothingLost == Spec => []NoWorkLost
<1>1. Init => NoWorkLost
  <2> SUFFICES ASSUME Init, NEW p \in Pieces
               PROVE  \E i \in DOMAIN workCh : workCh[i].index = p
    BY DEF NoWorkLost
  <2>1. p + 1 \in 1 .. TotalPieces
    BY PiecesCounted DEF Pieces
  <2>2. p + 1 \in DOMAIN workCh /\ workCh[p + 1].index = p
    BY <2>1, PiecesCounted DEF Init, Pieces
  <2> QED BY <2>2
<1> QED BY <1>1, InitTypeOK, NextTypeOK, NextNoWorkLost, StepOrNone, PTL DEF Spec

----------------------------------------------------------------------------
(* ConcurrentFile implements DownloadContract *)

\* Initial states map to initial states and steps to steps or stuttering: what
\* the caller is told is what the contract allows it to be told.
THEOREM ImplementsContract == Spec => KeepsContract
<1>1. Init => Contract!Init
  BY DEF Init, Contract!Init
<1>2. TypeOK /\ [Next]_vars => [Contract!Next]_(Contract!vars)
  <2> SUFFICES ASSUME TypeOK, [Step]_stateVars
               PROVE  Contract!Next \/ UNCHANGED <<pieceMap, result>>
    BY StepOrNone DEF Contract!vars
  <2> USE DEF Contract!Next, Contract!Accept, Contract!Succeed, Contract!Fail
  <2>1. CASE UNCHANGED stateVars
    BY <2>1 DEF stateVars
  <2>2. CASE CollectResult
    <3>1. Head(resultCh) \in Pieces /\ result = "waiting" /\ result' = result
          /\ pieceMap' = pieceMap \cup {Head(resultCh)}
      BY <2>2 DEF CollectResult, Collecting, TypeOK
    <3> QED BY <3>1
  <2>3. CASE CollectError \/ AllWorkersDone
    BY <2>3 DEF CollectError, AllWorkersDone, Collecting
  <2>4. CASE Assemble
    <3>1. pieceMap = Pieces
      BY <2>4, AllCollected DEF Assemble, Collecting
    <3> QED BY <2>4, <3>1 DEF Assemble
  <2>5. ASSUME NEW w \in Workers, Connect(w) \/ PieceStep(w)
        PROVE  UNCHANGED <<pieceMap, result>>
    BY <2>5 DEF PieceStep, Connect, TakeWork, Downloaded, Requeue, GiveUp,
                Deliver, SeeDone
  <2> QED BY <2>1, <2>2, <2>3, <2>4, <2>5 DEF Step, Caller
<1> QED BY <1>1, <1>2, InitTypeOK, NextTypeOK, PTL
        DEF Spec, KeepsContract, Contract!Spec

----------------------------------------------------------------------------
(* No send waits *)

\* No two elements of s have the same key, by the function K; one has the key p.
Keyed(s, K) == \A i, j \in DOMAIN s : K[s[i]] = K[s[j]] => i = j
KeyIn(s, K, p) == \E i \in DOMAIN s : K[s[i]] = p

IndexOf == [x \in Work |-> x.index]
Itself == [p \in Pieces |-> p]

Exited == {w \in Workers : worker[w] = "exited"}

\* A piece is in one place only.
OnePlace ==
    /\ Keyed(workCh, IndexOf) /\ Keyed(resultCh, Itself)
    /\ \A p \in Pieces : ~(KeyIn(workCh, IndexOf, p) /\ KeyIn(resultCh, Itself, p))
    /\ \A v, w \in Workers :
          worker[v] \in Holding /\ worker[w] \in Holding /\ job[v].index = job[w].index => v = w
    /\ \A w \in Workers : worker[w] \in Holding =>
          ~KeyIn(workCh, IndexOf, job[w].index) /\ ~KeyIn(resultCh, Itself, job[w].index)

\* A worker that has given up a piece has ended.
ErrorsBounded == Len(errCh) <= Cardinality(Exited)

SendInv == TypeOK /\ OnePlace /\ ErrorsBounded

\* The keys after a new element is added, or one taken off the head.
LEMMA KeyAppend ==
    ASSUME NEW S, NEW s \in Seq(S), NEW x \in S, NEW K, Keyed(s, K), ~KeyIn(s, K, K[x])
    PROVE  /\ Keyed(Append(s, x), K)
           /\ \A p : KeyIn(Append(s, x), K, p) <=> KeyIn(s, K, p) \/ p = K[x]
<1> DEFINE t == Append(s, x)
           N == Len(s)
<1>1. /\ N \in Nat /\ DOMAIN s = 1 .. N /\ DOMAIN t = 1 .. N + 1
      /\ t[N + 1] = x /\ \A i \in 1 .. N : t[i] = s[i]
  BY AppendProperties, LenProperties
<1> HIDE DEF t, N
<1>2. \A i \in 1 .. N + 1 : i \in 1 .. N \/ i = N + 1
  BY <1>1
<1>3. 1 .. N \subseteq 1 .. N + 1 /\ N + 1 \in 1 .. N + 1
  BY <1>1
<1>4. Keyed(t, K)
  <2> SUFFICES ASSUME NEW i \in 1 .. N + 1, NEW j \in 1 .. N + 1, K[t[i]] = K[t[j]] PROVE i = j
    BY <1>1 DEF Keyed
  <2> QED BY <1>1, <1>2 DEF Keyed, KeyIn
<1>5. ASSUME NEW p PROVE KeyIn(t, K, p) <=> KeyIn(s, K, p) \/ p = K[x]
  BY <1>1, <1>2, <1>3 DEF KeyIn
<1> QED BY <1>4, <1>5 DEF t

\* The same for the head of a channel.
LEMMA KeyTail ==
    ASSUME NEW S, NEW s \in Seq(S), s # <<>>, NEW K, Keyed(s, K)
    PROVE  /\ Keyed(Tail(s), K) /\ KeyIn(s, K, K[Head(s)])
           /\ ~KeyIn(Tail(s), K, K[Head(s)])
           /\ \A p : KeyIn(Tail(s), K, p) => KeyIn(s, K, p)
<1> DEFINE t == Tail(s)
           N == Len(s)
           h == Head(s)
<1>1. /\ N \in Nat /\ N > 0 /\ DOMAIN s = 1 .. N /\ DOMAIN t = 1 .. N - 1 /\ h = s[1]
      /\ \A i \in 1 .. N - 1 : t[i] = s[i + 1]
  BY HeadTailProperties, LenProperties, EmptySeq
<1> HIDE DEF t, N, h
<1>2. \A i \in 1 .. N - 1 : i + 1 \in 1 .. N /\ i + 1 # 1
  BY <1>1
<1>3. 1 \in 1 .. N
  BY <1>1
<1>4. ASSUME NEW i \in 1 .. N - 1, NEW j \in 1 .. N - 1, K[t[i]] = K[t[j]] PROVE i = j
  <2>1. i + 1 = j + 1
    <3>1. K[s[i + 1]] = K[s[j + 1]]
      BY <1>1, <1>4
    <3>2. i + 1 \in DOMAIN s /\ j + 1 \in DOMAIN s
      BY <1>1, <1>2
    <3> QED BY <3>1, <3>2 DEF Keyed
  <2> QED BY <2>1
<1>5. Keyed(t, K)
  BY <1>1, <1>4 DEF Keyed
<1>6. KeyIn(s, K, K[h])
  BY <1>1, <1>3 DEF KeyIn
<1>7. ~KeyIn(t, K, K[h])
  BY <1>1, <1>2, <1>3 DEF KeyIn, Keyed
<1>8. \A p : KeyIn(t, K, p) => KeyIn(s, K, p)
  BY <1>1, <1>2 DEF KeyIn
<1> QED BY <1>5, <1>6, <1>7, <1>8 DEF t, h

\* Pieces that are all in one place leave room for one that is not there.
LEMMA KeysFit ==
    ASSUME NEW S, NEW s \in Seq(S), NEW K \in [S -> Pieces], Keyed(s, K),
           NEW p \in Pieces, ~KeyIn(s, K, p)
    PROVE  Len(s) < TotalPieces
<1> DEFINE N == Len(s)
           f == [i \in 1 .. N |-> K[s[i]]]
           Others == Pieces \ {p}
<1>1. N \in Nat /\ DOMAIN s = 1 .. N /\ \A i \in 1 .. N : s[i] \in S
  BY LenProperties, ElementOfSeq
<1>2. IsFiniteSet(Others) /\ Cardinality(Others) = TotalPieces - 1
  BY PiecesCounted, FS_RemoveElement
<1>3. IsFiniteSet(1 .. N) /\ Cardinality(1 .. N) = N
  <2>1. IsFiniteSet(1 .. N) /\ Cardinality(1 .. N) = IF 1 > N THEN 0 ELSE N - 1 + 1
    BY <1>1, FS_Interval
  <2> QED BY <1>1, <2>1
<1>4. f \in [1 .. N -> Others]
  BY <1>1 DEF KeyIn
<1>5. \A x, y \in 1 .. N : f[x] = f[y] => x = y
  BY <1>1 DEF Keyed
<1> HIDE DEF N, f, Others
<1>6. ~(Cardinality(Others) < Cardinality(1 .. N))
  <2> DEFINE D == 1 .. N
  <2>1. IsFiniteSet(D) /\ f \in [D -> Others] /\ \A x, y \in D : f[x] = f[y] => x = y
    BY <1>3, <1>4, <1>5
  <2> HIDE DEF D
  <2>2. Cardinality(Others) < Cardinality(D) => \E x, y \in D : x # y /\ f[x] = f[y]
    BY <1>2, <2>1, FS_PigeonHole
  <2> QED BY <2>1, <2>2 DEF D
<1> QED BY <1>1, <1>2, <1>3, <1>6, PiecesCounted DEF N

\* The keys of what is in the channels.
LEMMA Keys ==
    /\ IndexOf \in [Work -> Pieces] /\ Itself \in [Pieces -> Pieces]
    /\ \A x \in Work : IndexOf[x] = x.index
    /\ \A p \in Pieces : Itself[p] = p
BY DEF IndexOf, Itself, Work

\* In the beginning every piece is in workCh, once.
LEMMA InitSendInv == Init => SendInv
<1> SUFFICES ASSUME Init PROVE SendInv
  OBVIOUS
<1>1. TypeOK /\ TotalPieces \in Nat
  BY InitTypeOK, PiecesCounted
<1>2. /\ DOMAIN workCh = 1 .. TotalPieces
      /\ \A i \in 1 .. TotalPieces : workCh[i].index = i - 1 /\ workCh[i] \in Work
  <2>1. \A i \in 1 .. TotalPieces : workCh[i].index = i - 1
    BY DEF Init
  <2>2. DOMAIN workCh = 1 .. TotalPieces
    BY DEF Init
  <2>3. \A i \in DOMAIN workCh : workCh[i] \in Work
    BY <1>1 DEF TypeOK
  <2> QED BY <2>1, <2>2, <2>3
<1>3. Keyed(workCh, IndexOf)
  BY <1>1, <1>2, Keys DEF Keyed
<1>4. Keyed(resultCh, Itself) /\ \A p : ~KeyIn(resultCh, Itself, p)
  BY DEF Init, Keyed, KeyIn
<1>5. OnePlace
  BY <1>3, <1>4 DEF OnePlace, Init, Holding
<1>6. Exited = {}
  BY DEF Exited, Init
<1>7. ErrorsBounded
  BY <1>6, FS_EmptySet DEF ErrorsBounded, Init
<1> QED BY <1>1, <1>5, <1>7 DEF SendInv

\* Workers only ever end, and one more does so when a piece is given up.
LEMMA ErrorsStep == SendInv /\ [Step]_stateVars => ErrorsBounded'
<1> SUFFICES ASSUME SendInv, [Step]_stateVars PROVE ErrorsBounded'
  OBVIOUS
<1>1. TypeOK /\ ErrorsBounded
  BY DEF SendInv
<1>2. /\ Exited \subseteq Workers /\ Exited' \subseteq Workers /\ IsFiniteSet(Workers)
  BY WorkersAssumption DEF Exited
<1>3. IsFiniteSet(Exited) /\ IsFiniteSet(Exited')
  BY <1>2, FS_Subset
<1>4. Cardinality(Exited) \in Nat /\ Cardinality(Exited') \in Nat /\ Len(errCh) \in Nat
  BY <1>1, <1>3, FS_CardinalityType, LenProperties DEF TypeOK
<1>5. ASSUME Exited \subseteq Exited', errCh' = errCh PROVE ErrorsBounded'
  <2>1. Cardinality(Exited) <= Cardinality(Exited')
    BY <1>3, <1>5, FS_Subset
  <2> QED BY <1>1, <1>4, <1>5, <2>1 DEF ErrorsBounded
<1>6. CASE CollectError
  <2>1. errCh # <<>> /\ errCh' = Tail(errCh) /\ Exited' = Exited
    BY <1>6 DEF CollectError, Exited
  <2>2. Len(Tail(errCh)) <= Len(errCh) /\ Len(Tail(errCh)) \in Nat
    BY <1>1, <2>1, HeadTailProperties, LenProperties DEF TypeOK
  <2> QED BY <1>1, <1>4, <2>1, <2>2 DEF ErrorsBounded
<1>7. ASSUME NEW w \in Workers, GiveUp(w) PROVE ErrorsBounded'
  <2>1. /\ errCh' = Append(errCh, job[w].index) /\ job[w].index \in Pieces
        /\ worker[w] = "giveup" /\ worker' = [worker EXCEPT ![w] = "exited"]
    BY <1>1, <1>7 DEF GiveUp, Goto, TypeOK, Holding, Work
  <2>2. Exited' = Exited \cup {w} /\ w \notin Exited
    BY <1>1, <2>1 DEF Exited, TypeOK
  <2>3. Cardinality(Exited \cup {w}) = Cardinality(Exited) + 1
    BY <1>3, <2>2, FS_AddElement
  <2>4. Len(errCh') = Len(errCh) + 1
    BY <1>1, <2>1, AppendProperties DEF TypeOK
  <2> QED BY <1>1, <1>4, <2>2, <2>3, <2>4 DEF ErrorsBounded
<1>8. CASE UNCHANGED stateVars \/ CollectResult \/ AllWorkersDone \/ Assemble
  <2>1. UNCHANGED <<worker, errCh>>
    BY <1>8 DEF stateVars, CollectResult, AllWorkersDone, Assemble, channels
  <2> QED BY <1>5, <2>1 DEF Exited
<1>9. ASSUME NEW w \in Workers,
             \/ Connect(w) \/ TakeWork(w) \/ (\E d \in {"good", "bad", "error"} : Downloaded(w, d))
             \/ Requeue(w) \/ Deliver(w) \/ SeeDone(w)
      PROVE  ErrorsBounded'
  <2>1. /\ errCh' = errCh /\ worker[w] # "exited"
        /\ \E l : worker' = [worker EXCEPT ![w] = l]
    BY <1>9 DEF Connect, TakeWork, Downloaded, Requeue, Deliver, SeeDone, Goto, channels
  <2> QED BY <1>1, <1>5, <2>1 DEF Exited, TypeOK
<1> QED BY <1>6, <1>7, <1>8, <1>9 DEF Step, Caller, PieceStep

\* A step moves a piece from one place to another.
LEMMA OnePlaceStep == SendInv /\ [Step]_stateVars => OnePlace'
<1> SUFFICES ASSUME SendInv, [Step]_stateVars PROVE OnePlace'
  OBVIOUS
<1>1. TypeOK /\ OnePlace
  BY DEF SendInv
<1>2. /\ workCh \in Seq(Work) /\ resultCh \in Seq(Pieces)
      /\ Keyed(workCh, IndexOf) /\ Keyed(resultCh, Itself)
      /\ \A w \in Workers : worker[w] \in Holding => job[w] \in Work /\ job[w].index \in Pieces
  BY <1>1 DEF TypeOK, OnePlace, Work
<1>3. ASSUME NEW w \in Workers, UNCHANGED <<workCh, resultCh, job>>,
             NEW l, worker' = [worker EXCEPT ![w] = l],
             l \in Holding => worker[w] \in Holding
      PROVE  OnePlace'
  <2>1. \A v \in Workers : worker'[v] \in Holding => worker[v] \in Holding
    BY <1>1, <1>3 DEF TypeOK
  <2> QED BY <1>1, <1>3, <2>1 DEF OnePlace
<1>4. CASE UNCHANGED stateVars \/ CollectError \/ AllWorkersDone \/ Assemble
  <2>1. UNCHANGED <<workCh, resultCh, job, worker>>
    BY <1>4 DEF stateVars, CollectError, AllWorkersDone, Assemble, channels
  <2> QED BY <1>1, <2>1 DEF OnePlace
<1>5. CASE CollectResult
  <2>1. resultCh # <<>> /\ resultCh' = Tail(resultCh) /\ UNCHANGED <<workCh, job, worker>>
    BY <1>5 DEF CollectResult
  <2>2. Keyed(resultCh', Itself) /\ \A p : KeyIn(resultCh', Itself, p) => KeyIn(resultCh, Itself, p)
    BY <1>2, <2>1, KeyTail
  <2> QED BY <1>1, <2>1, <2>2 DEF OnePlace
<1>6. ASSUME NEW w \in Workers, Connect(w) \/ SeeDone(w) PROVE OnePlace'
  <2>1. /\ UNCHANGED <<workCh, resultCh, job>>
        /\ \E l \in {"idle", "exited"} : worker' = [worker EXCEPT ![w] = l]
    BY <1>6 DEF Connect, SeeDone, Goto, channels
  <2> QED BY <1>3, <2>1 DEF Holding
<1>7. ASSUME NEW w \in Workers, NEW d, Downloaded(w, d) PROVE OnePlace'
  <2>1. /\ UNCHANGED <<workCh, resultCh, job>> /\ worker[w] \in Holding
        /\ \E l : worker' = [worker EXCEPT ![w] = l]
    BY <1>7 DEF Downloaded, Goto, channels, Holding
  <2> QED BY <1>3, <2>1
<1>8. ASSUME NEW w \in Workers, GiveUp(w) PROVE OnePlace'
  <2>1. UNCHANGED <<workCh, resultCh, job>> /\ worker' = [worker EXCEPT ![w] = "exited"]
    BY <1>8 DEF GiveUp, Goto
  <2> QED BY <1>3, <2>1 DEF Holding
<1>9. ASSUME NEW w \in Workers, TakeWork(w) PROVE OnePlace'
  <2> DEFINE p == Head(workCh).index
  <2>1. /\ worker[w] = "idle" /\ workCh # <<>> /\ workCh' = Tail(workCh)
        /\ resultCh' = resultCh /\ job' = [job EXCEPT ![w] = Head(workCh)]
        /\ worker' = [worker EXCEPT ![w] = "downloading"]
    BY <1>9 DEF TakeWork, Goto
  <2>2. Head(workCh) \in Work
    BY <1>2, <2>1, HeadTailProperties
  <2>3. p \in Pieces /\ IndexOf[Head(workCh)] = p
    BY <2>2, Keys DEF Work
  <2>4. /\ Keyed(workCh', IndexOf) /\ KeyIn(workCh, IndexOf, p) /\ ~KeyIn(workCh', IndexOf, p)
        /\ \A q : KeyIn(workCh', IndexOf, q) => KeyIn(workCh, IndexOf, q)
    BY <1>2, <2>1, <2>3, KeyTail
  <2>5. ~KeyIn(resultCh, Itself, p)
    BY <1>1, <2>3, <2>4 DEF OnePlace
  <2>6. /\ job'[w].index = p
        /\ \A v \in Workers \ {w} : worker'[v] = worker[v] /\ job'[v] = job[v]
    BY <1>1, <2>1 DEF TypeOK
  <2>7. \A v \in Workers \ {w} : worker[v] \in Holding => job[v].index # p
    BY <1>1, <2>4 DEF OnePlace
  <2> HIDE DEF p
  <2>8. \A v \in Workers : worker'[v] \in Holding =>
           ~KeyIn(workCh', IndexOf, job'[v].index) /\ ~KeyIn(resultCh', Itself, job'[v].index)
    BY <1>1, <2>1, <2>4, <2>5, <2>6 DEF OnePlace
  <2>9. \A u, v \in Workers :
           worker'[u] \in Holding /\ worker'[v] \in Holding /\ job'[u].index = job'[v].index
              => u = v
    BY <1>1, <2>6, <2>7 DEF OnePlace
  <2> QED BY <1>1, <2>1, <2>4, <2>8, <2>9 DEF OnePlace
<1>10. ASSUME NEW w \in Workers, Requeue(w) \/ Deliver(w) PROVE OnePlace'
  <2> DEFINE p == job[w].index
             back == [job[w] EXCEPT !.retries = @ + 1]
  <2>1. /\ worker[w] \in Holding /\ job' = job /\ worker' = [worker EXCEPT ![w] = "idle"]
        /\ \/ workCh' = Append(workCh, back) /\ resultCh' = resultCh /\ worker[w] = "requeue"
           \/ workCh' = workCh /\ resultCh' = Append(resultCh, p)
    BY <1>10 DEF Requeue, Deliver, Goto, Holding
  <2>2. p \in Pieces /\ job[w] \in Work
    BY <1>2, <2>1
  <2>3. worker[w] = "requeue" => back \in Work /\ back.index = p
    <3> SUFFICES ASSUME worker[w] = "requeue" PROVE back \in Work /\ back.index = p
      OBVIOUS
    <3>1. job[w].retries + 1 \in 0 .. MaxRetries
      BY <1>1, <2>2, WorkersAssumption DEF Work, TypeOK
    <3> QED BY <2>2, <3>1 DEF Work
  <2>4. ~KeyIn(workCh, IndexOf, p) /\ ~KeyIn(resultCh, Itself, p)
    BY <1>1, <2>1 DEF OnePlace
  <2>5. /\ \A v \in Workers \ {w} : worker'[v] = worker[v]
        /\ worker'[w] \notin Holding
        /\ \A v \in Workers \ {w} : worker[v] \in Holding => job[v].index # p
    BY <1>1, <2>1 DEF TypeOK, OnePlace, Holding
  <2> HIDE DEF p, back
  <2>6. CASE workCh' = Append(workCh, back) /\ resultCh' = resultCh /\ worker[w] = "requeue"
    <3>1. IndexOf[back] = p /\ back \in Work
      BY <2>3, <2>6, Keys
    <3>2. /\ Keyed(workCh', IndexOf)
          /\ \A q : KeyIn(workCh', IndexOf, q) <=> KeyIn(workCh, IndexOf, q) \/ q = p
      BY <1>2, <2>4, <2>6, <3>1, KeyAppend
    <3> QED BY <1>1, <2>1, <2>4, <2>5, <2>6, <3>2 DEF OnePlace
  <2>7. CASE workCh' = workCh /\ resultCh' = Append(resultCh, p)
    <3>1. Itself[p] = p
      BY <2>2, Keys
    <3>2. /\ Keyed(resultCh', Itself)
          /\ \A q : KeyIn(resultCh', Itself, q) <=> KeyIn(resultCh, Itself, q) \/ q = p
      BY <1>2, <2>2, <2>4, <2>7, <3>1, KeyAppend
    <3> QED BY <1>1, <2>1, <2>4, <2>5, <2>7, <3>2 DEF OnePlace
  <2> QED BY <2>1, <2>6, <2>7
<1> QED BY <1>4, <1>5, <1>6, <1>7, <1>8, <1>9, <1>10 DEF Step, Caller, PieceStep

\* No worker ever waits to send, for any number of pieces, workers and retries: a
\* piece is in one place only, and a worker that gives one up ends.
THEOREM NoSendWaits == Spec => []SendsNeverWait
<1>1. SendInv /\ [Next]_vars => SendInv'
  BY StepOrNone, NextTypeOK, OnePlaceStep, ErrorsStep DEF SendInv
<1>2. SendInv => SendsNeverWait
  <2> SUFFICES ASSUME SendInv, NEW w \in Workers
               PROVE  /\ worker[w] = "requeue" => Len(workCh) < TotalPieces * 4
                      /\ worker[w] = "deliver" => Len(resultCh) < TotalPieces
                      /\ worker[w] = "giveup" => Len(errCh) < Cardinality(Workers)
    BY DEF SendsNeverWait
  <2>1. TypeOK /\ OnePlace /\ ErrorsBounded
    BY DEF SendInv
  <2>2. worker[w] \in Holding =>
          /\ job[w].index \in Pieces
          /\ ~KeyIn(workCh, IndexOf, job[w].index) /\ ~KeyIn(resultCh, Itself, job[w].index)
    BY <2>1 DEF TypeOK, OnePlace, Work
  <2>3. worker[w] \in Holding => Len(workCh) < TotalPieces /\ Len(resultCh) < TotalPieces
    BY <2>1, <2>2, Keys, KeysFit DEF TypeOK, OnePlace
  <2>4. Len(workCh) \in Nat /\ Len(errCh) \in Nat
    BY <2>1, LenProperties DEF TypeOK
  <2>5. worker[w] = "requeue" => Len(workCh) < TotalPieces * 4
    BY <2>3, <2>4, PiecesCounted DEF Holding
  <2>6. worker[w] = "giveup" => Len(errCh) < Cardinality(Workers)
    <3> SUFFICES ASSUME worker[w] = "giveup" PROVE Len(errCh) < Cardinality(Workers)
      OBVIOUS
    <3>1. Exited \subseteq Workers /\ w \notin Exited /\ IsFiniteSet(Workers)
      BY WorkersAssumption DEF Exited
    <3>2. Cardinality(Exited) <= Cardinality(Workers) /\ Cardinality(Exited) # Cardinality(Workers)
      BY <3>1, FS_Subset
    <3>3. Cardinality(Exited) \in Nat /\ Cardinality(Workers) \in Nat
      BY <3>1, FS_Subset, FS_CardinalityType
    <3> QED BY <2>1, <2>4, <3>2, <3>3 DEF ErrorsBounded
  <2> QED BY <2>3, <2>5, <2>6 DEF Holding
<1> QED BY <1>1, <1>2, InitSendInv, PTL DEF Spec
=============================================================================
