------------------------------ MODULE RateLimit ------------------------------
(***************************************************************************)
(* RateLimitInterceptor, in front of every request: a fixed window that    *)
(* starts with the first request after the last one ended, a block of the  *)
(* key that asks too often, and a sweep of the store, made by whichever    *)
(* request of any key comes ten minutes after the last sweep.              *)
(* intercept has no await, so a request is one step.                       *)
(***************************************************************************)
EXTENDS Integers, Sequences, FiniteSets

CONSTANTS
    Keys,         \* ip, or ip:user
    Points,       \* requests allowed in a window
    Duration,     \* length of the window
    Block,        \* blockDuration
    SweepEvery,   \* 10 minutes
    MaxTime,      \* bound: the clock
    MaxAsked      \* bound: requests of a key at one time

Never == -1

ASSUME RateLimitAssumption ==
    /\ {Points, Duration, Block} \subseteq Nat \ {0}
    /\ {SweepEvery, MaxTime, MaxAsked} \subseteq Nat

VARIABLES
    now,
    store,      \* the record of a key, or NoRecord
    lastSweep,  \* the record under 'rateLimitCleanup'
    asked,      \* history: the times of a key's requests
    passed,     \* history: the times of those that were let through
    blockedAt   \* history: when the last block of a key started

history == <<asked, passed, blockedAt>>
vars    == <<now, store, lastSweep, history>>

-----------------------------------------------------------------------------

Times == 0 .. MaxTime

Record(n, reset, until) == [count |-> n, resetTime |-> reset, blockedUntil |-> until]
NoRecord == Record(0, Never, Never)

Blocked(k) == store[k].blockedUntil > now

\* Mutant: a window ends after its last instant.
RecordOfLate(k) ==
    IF store[k] = NoRecord \/ store[k].resetTime < now
    THEN Record(1, now + Duration, store[k].blockedUntil)
    ELSE Record(store[k].count + 1, store[k].resetTime, store[k].blockedUntil)

\* The record of the key, new or of a new window if need be, with this request counted.
RecordOf(k) ==
    IF store[k] = NoRecord \/ store[k].resetTime <= now
    THEN Record(1, now + Duration, store[k].blockedUntil)
    ELSE Record(store[k].count + 1, store[k].resetTime, store[k].blockedUntil)

\* Mutant: the sweep looks at the window only.
SweepBlocked(s) ==
    [k \in Keys |-> IF s[k].resetTime < now THEN NoRecord ELSE s[k]]

\* cleanupStore: the records whose window is over and that are not blocked.
Sweep(s) ==
    [k \in Keys |-> IF s[k].resetTime < now /\ s[k].blockedUntil < now THEN NoRecord ELSE s[k]]

\* The requests of key k in history h at the times t .. u.
During(h, k, t, u) == {i \in DOMAIN h[k] : h[k][i] \in t .. u}

Noted(h, k) == [h EXCEPT ![k] = Append(@, now)]

Ask(k) ==
    /\ Cardinality(During(asked, k, now, now)) < MaxAsked
    /\ asked' = Noted(asked, k)

Refused(k) ==
    /\ Blocked(k)
    /\ Ask(k)
    /\ UNCHANGED <<now, store, lastSweep, passed, blockedAt>>

\* Mutant: the request that reaches the limit is refused as well.
BlockStartsEarly(k) ==
    /\ ~Blocked(k) /\ RecordOf(k).count >= Points
    /\ Ask(k)
    /\ store' = [store EXCEPT ![k] = Record(RecordOf(k).count, RecordOf(k).resetTime, now + Block)]
    /\ blockedAt' = [blockedAt EXCEPT ![k] = now]
    /\ UNCHANGED <<now, lastSweep, passed>>

\* Mutant: the block starts when the window ends.
BlockStartsLate(k) ==
    /\ ~Blocked(k) /\ RecordOf(k).count > Points
    /\ Ask(k)
    /\ store' = [store EXCEPT ![k] = Record(RecordOf(k).count, RecordOf(k).resetTime, RecordOf(k).resetTime + Block)]
    /\ blockedAt' = [blockedAt EXCEPT ![k] = now]
    /\ UNCHANGED <<now, lastSweep, passed>>

\* The request that exceeds the limit starts the block.
BlockStarts(k) ==
    /\ ~Blocked(k) /\ RecordOf(k).count > Points
    /\ Ask(k)
    /\ store' = [store EXCEPT ![k] = Record(RecordOf(k).count, RecordOf(k).resetTime, now + Block)]
    /\ blockedAt' = [blockedAt EXCEPT ![k] = now]
    /\ UNCHANGED <<now, lastSweep, passed>>

\* Mutant: the count goes unchecked.
PassAny(k) ==
    /\ ~Blocked(k)
    /\ Ask(k) /\ passed' = Noted(passed, k)
    /\ store' = [store EXCEPT ![k] = RecordOf(k)]
    /\ UNCHANGED <<now, lastSweep, blockedAt>>

\* A request that is let through makes the sweep when one is due.
Pass(k) ==
    /\ ~Blocked(k) /\ RecordOf(k).count <= Points
    /\ Ask(k) /\ passed' = Noted(passed, k)
    /\ LET counted == [store EXCEPT ![k] = RecordOf(k)] IN
         IF lastSweep = Never \/ now - lastSweep > SweepEvery
         THEN store' = Sweep(counted) /\ lastSweep' = now
         ELSE store' = counted /\ UNCHANGED lastSweep
    /\ UNCHANGED <<now, blockedAt>>

Tick ==
    /\ now < MaxTime /\ now' = now + 1
    /\ UNCHANGED <<store, lastSweep, history>>

Init ==
    /\ now = 0 /\ lastSweep = Never
    /\ store = [k \in Keys |-> NoRecord]
    /\ asked = [k \in Keys |-> <<>>] /\ passed = [k \in Keys |-> <<>>]
    /\ blockedAt = [k \in Keys |-> Never]

Next == Tick \/ \E k \in Keys : Refused(k) \/ BlockStarts(k) \/ Pass(k)

Spec == Init /\ [][Next]_vars

-----------------------------------------------------------------------------
(* Properties *)

\* Types; no record reaches further into the future than its window and its block.
TypeOK ==
    /\ now \in Times /\ lastSweep \in Nat \cup {Never}
    /\ store \in [Keys -> [count : Nat, resetTime : Nat \cup {Never}, blockedUntil : Nat \cup {Never}]]
    /\ asked \in [Keys -> Seq(Times)] /\ passed \in [Keys -> Seq(Times)]
    /\ blockedAt \in [Keys -> Nat \cup {Never}]
    /\ \A k \in Keys : store[k].resetTime <= now + Duration /\ store[k].blockedUntil <= now + Block

\* Windows start with a request, so that one can end and the next begin within a window's
\* length; still fewer than twice the points get through in that time, since the request
\* that started the earlier window lies outside it, however windows, blocks and the sweeps
\* of other keys follow each other (rate-limit.interceptor.ts:51).
UnderTwiceThePoints ==
    \A k \in Keys, t \in Times : Cardinality(During(passed, k, t, t + Duration - 1)) < 2 * Points

\* Once a key exceeds the limit none of its requests is let through for the whole
\* blockDuration: neither the window, which ends before the block does, nor the sweep
\* another key's request makes lifts it (rate-limit.interceptor.ts:42, 85).
BlockHolds ==
    [][\A k \in Keys : passed'[k] # passed[k] /\ blockedAt[k] # Never
                          => now >= blockedAt[k] + Block]_vars

\* A key is blocked only if it has made more requests than the points within the length
\* of a window: the count never carries over from an earlier window or block
\* (rate-limit.interceptor.ts:63).
BlockedForCause ==
    \A k \in Keys : blockedAt[k] # Never
        => Cardinality(During(asked, k, blockedAt[k] - Duration + 1, blockedAt[k])) > Points
=============================================================================
