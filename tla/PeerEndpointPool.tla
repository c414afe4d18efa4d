-------------------------- MODULE PeerEndpointPool --------------------------
(***************************************************************************)
(* peer/pool.go: the set of known endpoints with their failure counts.     *)
(* Every method holds p.mu throughout, so each is one action.              *)
(*                                                                         *)
(* Time: NextRetryTime is kept as the delay it was set with, in seconds,   *)
(* until the clock has passed it, and as 0 from then on.                   *)
(***************************************************************************)
EXTENDS Integers, FiniteSets, FiniteSetsExt

CONSTANTS Addresses,
          Width,         \* bits of a Go int; 64 in the code
          MaxBackoff,    \* longest delay in seconds; 600 in the code
          BlacklistAt,   \* failures that blacklist an endpoint; 5 in the code
          MaxFailures    \* bound: failures on record, of all addresses together

\* 1 << n, before bits are lost.
Pow2[n \in Nat] == IF n = 0 THEN 1 ELSE 2 * Pow2[n - 1]

ASSUME PoolAssumption ==
    /\ IsFiniteSet(Addresses)
    /\ Width \in Nat /\ Width >= 6 /\ BlacklistAt \in Nat
    /\ MaxBackoff \in 15 .. Pow2[Width - 1] - 1
    /\ MaxFailures \in Nat

VARIABLE endpoints   \* address -> FailCount, remaining delay, IsSeed

Endpoint == [failCount : Nat, wait : Nat, isSeed : BOOLEAN]

Known == DOMAIN endpoints

\* The value of a Go int with the given bits.
Wrap(n) ==
    LET m == n % Pow2[Width] IN IF m >= Pow2[Width - 1] THEN m - Pow2[Width] ELSE m

\* Mutant of Backoff: no overflow check.
BackoffUnchecked(failCount) ==
    LET s == Wrap(15 * Pow2[failCount - 1]) IN IF s > MaxBackoff THEN MaxBackoff ELSE s

Backoff(failCount) ==
    LET s == Wrap(15 * Pow2[failCount - 1]) IN IF s > MaxBackoff \/ s <= 0 THEN MaxBackoff ELSE s

----------------------------------------------------------------------------

NewPool == endpoints = [a \in {} |-> [failCount |-> 0, wait |-> 0, isSeed |-> FALSE]]

Put(a, e) ==
    endpoints' = [x \in Known \cup {a} |-> IF x = a THEN e ELSE endpoints[x]]

Fresh == [failCount |-> 0, wait |-> 0, isSeed |-> FALSE]

\* Mutant of Add: an endpoint announced again starts afresh.
AddAgain(a) == Put(a, Fresh)

Add(a) == IF a \in Known THEN UNCHANGED endpoints ELSE Put(a, Fresh)

\* An address the pool does not know is entered.
MarkFailed(a) ==
    LET e == IF a \in Known THEN endpoints[a] ELSE Fresh
    IN  Put(a, [e EXCEPT !.failCount = @ + 1, !.wait = Backoff(e.failCount + 1)])

MarkSucceeded(a) ==
    IF a \in Known
    THEN Put(a, [endpoints[a] EXCEPT !.failCount = 0, !.wait = 0])
    ELSE UNCHANGED endpoints

MarkSeed(a, isSeed) ==
    IF a \in Known THEN Put(a, [endpoints[a] EXCEPT !.isSeed = isSeed])
                   ELSE UNCHANGED endpoints

Blacklisted(a) == a \in Known /\ endpoints[a].failCount >= BlacklistAt

GetCandidates(excludeSeeds) ==
    {a \in Known : /\ ~Blacklisted(a)
                   /\ ~(excludeSeeds /\ endpoints[a].isSeed)
                   /\ endpoints[a].wait = 0}

\* Kept for its callers; the code does nothing here.
EvictDead == UNCHANGED endpoints

\* The clock passes NextRetryTime.
Elapse(a) ==
    /\ a \in Known /\ endpoints[a].wait > 0
    /\ Put(a, [endpoints[a] EXCEPT !.wait = 0])

----------------------------------------------------------------------------
(* The pool under arbitrary callers. *)

BelowFailBound ==
    MapThenSumSet(LAMBDA a : endpoints[a].failCount, Known) < MaxFailures

PoolNext ==
    \/ EvictDead
    \/ \E a \in Addresses :
        \/ Add(a)
        \/ BelowFailBound /\ MarkFailed(a)
        \/ MarkSucceeded(a)
        \/ \E s \in BOOLEAN : MarkSeed(a, s)
        \/ Elapse(a)

PoolSpec == NewPool /\ [][PoolNext]_endpoints

----------------------------------------------------------------------------
(* Properties *)

\* A failed endpoint waits 15 seconds after the first failure, twice as long
\* after each further one and at most MaxBackoff, also when the shift overflows
\* the int that holds it.
BackoffDoubles ==
    \A a \in Known :
        endpoints[a].wait # 0 =>
            LET n == endpoints[a].failCount
            IN  /\ n > 0
                /\ endpoints[a].wait =
                       IF 15 * Pow2[n - 1] > MaxBackoff THEN MaxBackoff ELSE 15 * Pow2[n - 1]
=============================================================================
