-------------------------- MODULE RateLimitProofs --------------------------
(***************************************************************************)
(* Proofs about RateLimit, for any keys, points and durations.             *)
(***************************************************************************)
EXTENDS RateLimit, FiniteSetTheorems, TLAPS

Records == [count : Nat, resetTime : Nat \cup {Never}, blockedUntil : Nat \cup {Never}]
Histories == [Keys -> Seq(Times)]

\* The bounds of TypeOK on one record.
InReach(r) == r.resetTime <= now + Duration /\ r.blockedUntil <= now + Block

\* A block that was started is over or still in the record.
BlockStored ==
    \A k \in Keys : blockedAt[k] # Never =>
      \/ now >= blockedAt[k] + Block
      \/ store[k].blockedUntil >= blockedAt[k] + Block

-----------------------------------------------------------------------------
(* Records *)

LEMMA RecordOfType ==
    ASSUME TypeOK, NEW k \in Keys
    PROVE  /\ RecordOf(k) \in Records /\ InReach(RecordOf(k))
           /\ RecordOf(k).blockedUntil = store[k].blockedUntil
<1>1. store[k] \in Records /\ InReach(store[k]) /\ now \in Nat
  BY DEF TypeOK, Records, InReach, Times
<1>2. ASSUME NEW n \in Nat, NEW reset \in Nat, reset <= now + Duration
      PROVE  LET r == Record(n, reset, store[k].blockedUntil) IN
             r \in Records /\ InReach(r) /\ r.blockedUntil = store[k].blockedUntil
  BY <1>1, <1>2 DEF Record, Records, InReach
<1>3. CASE store[k] = NoRecord \/ store[k].resetTime <= now
  <2>1. RecordOf(k) = Record(1, now + Duration, store[k].blockedUntil)
    BY <1>3 DEF RecordOf
  <2>2. now + Duration \in Nat /\ now + Duration <= now + Duration
    BY <1>1, RateLimitAssumption
  <2> QED
    BY <1>2, <2>1, <2>2
<1>4. CASE ~(store[k] = NoRecord \/ store[k].resetTime <= now)
  <2>1. RecordOf(k) = Record(store[k].count + 1, store[k].resetTime, store[k].blockedUntil)
    BY <1>4 DEF RecordOf
  <2>2. store[k].count + 1 \in Nat /\ store[k].resetTime \in Nat /\ store[k].resetTime <= now + Duration
    BY <1>1, <1>4 DEF Records, InReach, Never
  <2> QED
    BY <1>2, <2>1, <2>2
<1> QED
  BY <1>3, <1>4

LEMMA NotedType ==
    ASSUME NEW h \in Histories, NEW k \in Keys, now \in Times
    PROVE  Noted(h, k) \in Histories
<1>1. Append(h[k], now) \in Seq(Times)
  BY DEF Histories
<1> QED
  BY <1>1 DEF Noted, Histories

\* What a sweep leaves of a record.
LEMMA Swept ==
    ASSUME NEW s, NEW k \in Keys
    PROVE  \/ Sweep(s)[k] = s[k]
           \/ Sweep(s)[k] = NoRecord /\ s[k].resetTime < now /\ s[k].blockedUntil < now
  BY DEF Sweep

LEMMA NoRecordType == TypeOK => NoRecord \in Records /\ InReach(NoRecord)
  BY RateLimitAssumption DEF NoRecord, Record, Records, InReach, Never, TypeOK, Times

\* The record a request leaves behind, for its key and for any other.
LEMMA PassStore ==
    ASSUME TypeOK, NEW k \in Keys, Pass(k), NEW j \in Keys
    PROVE  LET r == IF j = k THEN RecordOf(k) ELSE store[j] IN
           \/ store'[j] = r
           \/ store'[j] = NoRecord /\ r.resetTime < now /\ r.blockedUntil < now
<1> DEFINE counted == [store EXCEPT ![k] = RecordOf(k)]
<1>1. counted[j] = IF j = k THEN RecordOf(k) ELSE store[j]
  BY DEF TypeOK
<1>2. store' = counted \/ store' = Sweep(counted)
  BY DEF Pass
<1> HIDE DEF counted
<1> QED
  BY <1>1, <1>2, Swept

LEMMA BlockStore ==
    ASSUME TypeOK, NEW k \in Keys, BlockStarts(k)
    PROVE  /\ store'[k] \in Records /\ InReach(store'[k])
           /\ store'[k].blockedUntil = now + Block
           /\ \A j \in Keys \ {k} : store'[j] = store[j]
<1>1. store'[k] = Record(RecordOf(k).count, RecordOf(k).resetTime, now + Block)
  BY DEF BlockStarts, TypeOK
<1>2. RecordOf(k) \in Records /\ InReach(RecordOf(k)) /\ now \in Nat
  BY RecordOfType DEF TypeOK, Times
<1>3. store'[k] \in Records /\ InReach(store'[k]) /\ store'[k].blockedUntil = now + Block
  BY <1>1, <1>2, RateLimitAssumption DEF Record, Records, InReach
<1>4. \A j \in Keys \ {k} : store'[j] = store[j]
  BY DEF BlockStarts, TypeOK
<1> QED
  BY <1>3, <1>4

-----------------------------------------------------------------------------
(* Types *)

LEMMA NextType ==
    ASSUME TypeOK, [Next]_vars
    PROVE  TypeOK'
<1> USE DEF Records, Histories, InReach
<1>1. now \in Times /\ now \in Nat /\ asked \in Histories /\ passed \in Histories
  BY DEF TypeOK, Times
<1>2. ASSUME NEW k \in Keys, Refused(k)
      PROVE  TypeOK'
  <2>1. asked' \in Histories
    BY <1>1, <1>2, NotedType DEF Refused, Ask
  <2> QED
    BY <1>2, <2>1 DEF Refused, TypeOK
<1>3. ASSUME NEW k \in Keys, BlockStarts(k)
      PROVE  TypeOK'
  <2>1. asked' \in Histories
    BY <1>1, <1>3, NotedType DEF BlockStarts, Ask
  <2>3. \A j \in Keys : store'[j] \in Records /\ InReach(store'[j])
    BY <1>3, BlockStore DEF TypeOK
  <2>4. DOMAIN store' = Keys /\ store' = [j \in Keys |-> store'[j]]
    BY <1>3 DEF BlockStarts, TypeOK
  <2>5. blockedAt' \in [Keys -> Nat \cup {Never}]
    BY <1>1, <1>3 DEF BlockStarts, TypeOK
  <2> QED
    BY <1>3, <2>1, <2>3, <2>4, <2>5 DEF BlockStarts, TypeOK
<1>4. ASSUME NEW k \in Keys, Pass(k)
      PROVE  TypeOK'
  <2>1. asked' \in Histories /\ passed' \in Histories
    BY <1>1, <1>4, NotedType DEF Pass, Ask
  <2>2. \A j \in Keys : store'[j] \in Records /\ InReach(store'[j])
    BY <1>4, PassStore, RecordOfType, NoRecordType DEF TypeOK
  <2>3. store' = [j \in Keys |-> store'[j]]
    BY <1>4 DEF Pass, Sweep, TypeOK
  <2>4. lastSweep' \in Nat \cup {Never}
    BY <1>1, <1>4 DEF Pass, TypeOK
  <2> QED
    BY <1>4, <2>1, <2>2, <2>3, <2>4 DEF Pass, TypeOK
<1>5. CASE Tick
  <2>1. now' \in Times /\ now' = now + 1
    BY <1>1, <1>5, RateLimitAssumption DEF Tick, Times
  <2>2. \A k \in Keys : InReach(store[k])'
    <3>1. \A k \in Keys : store[k] \in Records /\ InReach(store[k])
      BY DEF TypeOK
    <3>2. now \in Nat
      BY <1>1
    <3> QED
      BY <1>5, <3>1, <3>2, RateLimitAssumption DEF Tick, Never
  <2>3. asked' \in Histories /\ passed' \in Histories
    BY <1>1, <1>5 DEF Tick, history
  <2>4. UNCHANGED <<store, lastSweep, blockedAt>>
    BY <1>5 DEF Tick, history
  <2> QED
    BY <2>1, <2>2, <2>3, <2>4 DEF TypeOK
<1>6. CASE UNCHANGED vars
  BY <1>6 DEF vars, history, TypeOK
<1> QED
  BY <1>2, <1>3, <1>4, <1>5, <1>6 DEF Next

\* Records keep their types and reach no further than a window and a block.
THEOREM TypeCorrect == Spec => []TypeOK
<1>1. Init => TypeOK
  BY RateLimitAssumption DEF Init, TypeOK, Times, NoRecord, Record, Never
<1> QED
  BY <1>1, NextType, PTL DEF Spec

-----------------------------------------------------------------------------
(* Blocks *)

LEMMA NextStored ==
    ASSUME TypeOK, BlockStored, [Next]_vars
    PROVE  BlockStored'
<1>1. /\ now \in Nat /\ Block \in Nat
      /\ \A k \in Keys : /\ blockedAt[k] \in Nat \cup {Never}
                         /\ store[k].blockedUntil \in Nat \cup {Never}
  BY RateLimitAssumption DEF TypeOK, Times
<1>2. ASSUME NEW k \in Keys, BlockStarts(k)
      PROVE  BlockStored'
  <2>1. \A j \in Keys : blockedAt'[j] = IF j = k THEN now ELSE blockedAt[j]
    BY <1>2 DEF BlockStarts, TypeOK
  <2>2. \A j \in Keys : store'[j].blockedUntil = IF j = k THEN now + Block ELSE store[j].blockedUntil
    BY <1>2, BlockStore
  <2>3. now' = now
    BY <1>2 DEF BlockStarts
  <2> QED
    BY <1>1, <2>1, <2>2, <2>3 DEF BlockStored
<1>3. ASSUME NEW k \in Keys, Pass(k)
      PROVE  BlockStored'
  <2>1. \A j \in Keys : \/ store'[j].blockedUntil = store[j].blockedUntil
                        \/ store[j].blockedUntil < now
    BY <1>3, PassStore, RecordOfType
  <2>2. UNCHANGED <<now, blockedAt>>
    BY <1>3 DEF Pass
  <2> QED
    BY <1>1, <2>1, <2>2 DEF BlockStored, Never
<1>4. ASSUME NEW k \in Keys, Refused(k)
      PROVE  BlockStored'
  BY <1>4 DEF Refused, BlockStored
<1>5. CASE Tick
  BY <1>1, <1>5 DEF Tick, BlockStored, history, Never
<1>6. CASE UNCHANGED vars
  BY <1>6 DEF vars, history, BlockStored
<1> QED
  BY <1>2, <1>3, <1>4, <1>5, <1>6 DEF Next

\* A block lasts its full time, whatever windows end and whoever's request makes the
\* sweep, for any points, durations and keys.
THEOREM BlocksHold == Spec => BlockHolds
<1>1. Init => BlockStored
  BY DEF Init, BlockStored
<1>2. TypeOK /\ BlockStored /\ [Next]_vars
        => [\A k \in Keys : passed'[k] # passed[k] /\ blockedAt[k] # Never
                              => now >= blockedAt[k] + Block]_vars
  <2> SUFFICES ASSUME TypeOK, BlockStored, Next,
                      NEW j \in Keys, passed'[j] # passed[j], blockedAt[j] # Never
               PROVE  now >= blockedAt[j] + Block
    OBVIOUS
  <2>1. PICK k \in Keys : Pass(k)
    BY DEF Next, Tick, Refused, BlockStarts, history
  <2>2. j = k
    BY <2>1 DEF Pass, Noted, TypeOK
  <2>3. ~(store[j].blockedUntil > now)
    BY <2>1, <2>2 DEF Pass, Blocked
  <2>4. /\ now \in Nat /\ Block \in Nat /\ blockedAt[j] \in Nat
        /\ store[j].blockedUntil \in Nat \cup {Never}
    BY RateLimitAssumption DEF TypeOK, Times
  <2> QED
    BY <2>3, <2>4 DEF BlockStored, Never
<1> QED
  BY <1>1, <1>2, NextStored, TypeCorrect, PTL DEF Spec, BlockHolds

-----------------------------------------------------------------------------
(* Counting requests *)

At(s, T) == {i \in DOMAIN s : s[i] \in T}
From(t)  == {v \in Times : v >= t}

LEMMA AtFinite ==
    ASSUME NEW s \in Seq(Times), NEW T
    PROVE  /\ IsFiniteSet(At(s, T)) /\ Cardinality(At(s, T)) \in Nat
           /\ At(s, T) \subseteq 1 .. Len(s)
<1>1. Len(s) \in Nat /\ DOMAIN s = 1 .. Len(s)
  OBVIOUS
<1>2. IsFiniteSet(1 .. Len(s))
  BY <1>1, FS_Interval
<1>3. At(s, T) \subseteq 1 .. Len(s)
  BY <1>1 DEF At
<1> QED
  BY <1>2, <1>3, FS_Subset, FS_CardinalityType

LEMMA ElementTimes ==
    ASSUME NEW s \in Seq(Times)
    PROVE  \A i \in DOMAIN s : s[i] \in Nat /\ s[i] \in Times
<1>1. \A i \in DOMAIN s : s[i] \in Times
  OBVIOUS
<1> QED
  BY <1>1 DEF Times

\* Requests whose times lie in T lie in U or V.
LEMMA AtCovered ==
    ASSUME NEW s \in Seq(Times), NEW T, NEW U, NEW V,
           \A i \in DOMAIN s : s[i] \in T => s[i] \in U \cup V
    PROVE  Cardinality(At(s, T)) <= Cardinality(At(s, U)) + Cardinality(At(s, V))
<1>1. At(s, T) \subseteq At(s, U) \cup At(s, V)
  BY DEF At
<1>2. /\ IsFiniteSet(At(s, U) \cup At(s, V))
      /\ Cardinality(At(s, U) \cup At(s, V)) =
           Cardinality(At(s, U)) + Cardinality(At(s, V)) - Cardinality(At(s, U) \cap At(s, V))
  BY AtFinite, FS_Union
<1>3. Cardinality(At(s, U) \cap At(s, V)) \in Nat
  BY AtFinite, FS_Intersection, FS_CardinalityType
<1>4. Cardinality(At(s, T)) <= Cardinality(At(s, U) \cup At(s, V))
  BY <1>1, <1>2, FS_Subset
<1>5. /\ Cardinality(At(s, T)) \in Nat
      /\ Cardinality(At(s, U)) \in Nat /\ Cardinality(At(s, V)) \in Nat
  BY AtFinite
<1> HIDE DEF At
<1> QED
  BY <1>2, <1>3, <1>4, <1>5

LEMMA AtWithin ==
    ASSUME NEW s \in Seq(Times), NEW T, NEW U,
           \A i \in DOMAIN s : s[i] \in T => s[i] \in U
    PROVE  Cardinality(At(s, T)) <= Cardinality(At(s, U))
<1>1. At(s, T) \subseteq At(s, U)
  BY DEF At
<1> QED
  BY <1>1, AtFinite, FS_Subset

LEMMA AtNone ==
    ASSUME NEW s \in Seq(Times), NEW T, \A i \in DOMAIN s : s[i] \notin T
    PROVE  Cardinality(At(s, T)) = 0
<1>1. At(s, T) = {}
  BY DEF At
<1> QED
  BY <1>1, FS_EmptySet

\* One request more counts where its time does.
LEMMA AtAppend ==
    ASSUME NEW s \in Seq(Times), NEW t \in Times, NEW T
    PROVE  Cardinality(At(Append(s, t), T)) =
             Cardinality(At(s, T)) + (IF t \in T THEN 1 ELSE 0)
<1> DEFINE n == Len(s) + 1
<1>1. /\ DOMAIN s = 1 .. Len(s) /\ Len(s) \in Nat
      /\ DOMAIN Append(s, t) = 1 .. n
      /\ \A i \in 1 .. Len(s) : Append(s, t)[i] = s[i]
      /\ Append(s, t)[n] = t
  OBVIOUS
<1>2. 1 .. n = (1 .. Len(s)) \cup {n} /\ n \notin 1 .. Len(s)
  BY <1>1
<1>3. n \notin At(s, T)
  BY <1>2, AtFinite
<1>4. CASE t \in T
  <2>1. At(Append(s, t), T) = At(s, T) \cup {n}
    BY <1>1, <1>2, <1>4 DEF At
  <2> HIDE DEF n
  <2>2. Cardinality(At(s, T) \cup {n}) = Cardinality(At(s, T)) + 1
    BY <1>3, AtFinite, FS_AddElement
  <2> QED
    BY <1>4, <2>1, <2>2
<1>5. CASE t \notin T
  <2>1. At(Append(s, t), T) = At(s, T)
    BY <1>1, <1>2, <1>5 DEF At
  <2> QED
    BY <1>5, <2>1, AtFinite
<1> QED
  BY <1>4, <1>5

-----------------------------------------------------------------------------
(* The window of a key *)

\* When the current window of a key started; without a record, long enough ago.
Start(k) == IF store[k] = NoRecord THEN now - Duration ELSE store[k].resetTime - Duration
End(k)   == IF store[k] = NoRecord THEN now ELSE store[k].resetTime

\* What went through in the window, and after its first instant: the request that started
\* it is not among those.  The same of the window before it.
WindowPasses(k) ==
    /\ Cardinality(At(passed[k], From(Start(k)))) <= Points
    /\ Cardinality(At(passed[k], From(Start(k) + 1))) <= Points - 1
    /\ \A i \in DOMAIN passed[k] : passed[k][i] < End(k)
    /\ store[k] # NoRecord =>
         Cardinality(At(passed[k], (Start(k) - Duration + 1) .. (Start(k) - 1))) <= Points - 1

\* The count is of requests of this window, all that went through among them.
WindowCounts(k) ==
    store[k] # NoRecord =>
      /\ Cardinality(At(passed[k], From(Start(k)))) <= store[k].count
      /\ Cardinality(At(passed[k], From(Start(k) + 1))) <= store[k].count - 1
      /\ store[k].count <= Cardinality(At(asked[k], From(Start(k))))

WindowInv ==
    /\ \A k \in Keys : WindowPasses(k) /\ WindowCounts(k)
    /\ \A k \in Keys : \A i \in DOMAIN asked[k] : asked[k][i] <= now
    /\ UnderTwiceThePoints /\ BlockedForCause

LEMMA WindowTypes ==
    ASSUME TypeOK, NEW k \in Keys
    PROVE  /\ asked[k] \in Seq(Times) /\ passed[k] \in Seq(Times)
           /\ store[k] \in Records /\ InReach(store[k])
           /\ now \in Nat /\ now \in Times /\ Points \in Nat /\ Points > 0
           /\ Duration \in Nat /\ Duration > 0 /\ Block \in Nat
           /\ Start(k) \in Int /\ End(k) \in Int
           /\ \A T : /\ Cardinality(At(passed[k], T)) \in Nat
                     /\ Cardinality(At(asked[k], T)) \in Nat
<1>1. asked[k] \in Seq(Times) /\ passed[k] \in Seq(Times)
  BY DEF TypeOK
<1>2. /\ store[k] \in Records /\ InReach(store[k]) /\ now \in Nat /\ now \in Times
      /\ Points \in Nat /\ Points > 0 /\ Duration \in Nat /\ Duration > 0 /\ Block \in Nat
  BY RateLimitAssumption DEF TypeOK, Records, InReach, Times
<1>3. Start(k) \in Int /\ End(k) \in Int
  BY <1>2 DEF Start, End, Records, Never
<1> QED
  BY <1>1, <1>2, <1>3, AtFinite

\* The window a request of key k falls in, before the request is counted.
LEMMA WindowOfRequest ==
    ASSUME TypeOK, WindowInv, NEW k \in Keys,
           NEW r, r = RecordOf(k), NEW w, w = r.resetTime - Duration
    PROVE  /\ r \in Records /\ r # NoRecord /\ r.resetTime \in Nat
           /\ w \in Int /\ w <= now /\ now < r.resetTime
           /\ \A i \in DOMAIN passed[k] : passed[k][i] < r.resetTime
           /\ Cardinality(At(passed[k], From(w))) <= Points
           /\ Cardinality(At(passed[k], From(w))) <= r.count - 1
           /\ Cardinality(At(passed[k], From(w + 1))) + (IF now > w THEN 1 ELSE 0) <= r.count - 1
           /\ Cardinality(At(passed[k], From(w + 1))) <= Points - 1
           /\ r.count - 1 <= Cardinality(At(asked[k], From(w)))
           /\ Cardinality(At(passed[k], (w - Duration + 1) .. (w - 1))) <= Points - 1
<1>1. /\ now \in Nat /\ now \in Times /\ Points \in Nat /\ Duration \in Nat /\ Duration > 0
      /\ store[k] \in Records /\ InReach(store[k]) /\ Start(k) \in Int
      /\ passed[k] \in Seq(Times)
  BY WindowTypes
<1>2. \A i \in DOMAIN passed[k] : passed[k][i] \in Nat
  BY <1>1, ElementTimes
<1>3. WindowPasses(k) /\ WindowCounts(k)
  BY DEF WindowInv
<1>4. r \in Records /\ InReach(r)
  BY RecordOfType
<1>5. CASE store[k] = NoRecord \/ store[k].resetTime <= now
  <2>1. r = Record(1, now + Duration, store[k].blockedUntil)
    BY <1>5 DEF RecordOf
  <2>2. r.count = 1 /\ r.resetTime = now + Duration /\ r # NoRecord
    BY <2>1 DEF Record, NoRecord
  <2>3. w = now
    BY <1>1, <2>2
  <2>4. End(k) <= now /\ Start(k) <= now - Duration
    BY <1>1, <1>5 DEF End, Start, Records, Never
  <2>5. \A i \in DOMAIN passed[k] : passed[k][i] < now
    <3>1. End(k) \in Int /\ \A i \in DOMAIN passed[k] : passed[k][i] < End(k)
      BY <1>3, WindowTypes DEF WindowPasses
    <3> QED
      BY <1>1, <1>2, <2>4, <3>1
  <2>6. Cardinality(At(passed[k], From(w))) = 0
    <3>1. \A i \in DOMAIN passed[k] : passed[k][i] \notin From(now)
      BY <1>1, <1>2, <2>5 DEF From
    <3> QED
      BY <1>1, <2>3, <3>1, AtNone
  <2>10. Cardinality(At(passed[k], From(w + 1))) = 0
    <3>1. \A i \in DOMAIN passed[k] : passed[k][i] \notin From(now + 1)
      BY <1>1, <1>2, <2>5 DEF From
    <3> QED
      BY <1>1, <2>3, <3>1, AtNone
  <2>7. Cardinality(At(passed[k], (w - Duration + 1) .. (w - 1))) <= Points - 1
    <3>1. \A i \in DOMAIN passed[k] :
            passed[k][i] \in (w - Duration + 1) .. (w - 1) => passed[k][i] \in From(Start(k) + 1)
      <4>1. \A i \in DOMAIN passed[k] : passed[k][i] \in Times
        BY <1>1, ElementTimes
      <4> QED
        BY <1>1, <1>2, <2>3, <2>4, <4>1 DEF From
    <3>2. Cardinality(At(passed[k], (w - Duration + 1) .. (w - 1)))
            <= Cardinality(At(passed[k], From(Start(k) + 1)))
      BY <1>1, <3>1, AtWithin
    <3>3. Cardinality(At(passed[k], From(Start(k) + 1))) <= Points - 1
      BY <1>3 DEF WindowPasses
    <3>4. \A T : Cardinality(At(passed[k], T)) \in Nat
      BY WindowTypes
    <3> HIDE DEF At, From
    <3> QED
      BY <1>1, <3>2, <3>3, <3>4
  <2>8. 0 <= Cardinality(At(asked[k], From(w)))
    <3>1. Cardinality(At(asked[k], From(w))) \in Nat
      BY WindowTypes
    <3> HIDE DEF At, From
    <3> QED
      BY <3>1
  <2>9. \A i \in DOMAIN passed[k] : passed[k][i] < r.resetTime
    BY <1>1, <1>2, <2>2, <2>5
  <2>11. 0 <= Points - 1 /\ 0 <= Points
    BY RateLimitAssumption
  <2>12. w \in Int /\ w <= now /\ now < r.resetTime /\ r.resetTime \in Nat /\ ~(now > w)
    BY <1>1, <2>2, <2>3
  <2> HIDE DEF At, From
  <2>13. Cardinality(At(passed[k], From(w + 1))) + (IF now > w THEN 1 ELSE 0) <= r.count - 1
    BY <2>2, <2>10, <2>12
  <2>14. /\ Cardinality(At(passed[k], From(w))) <= r.count - 1
         /\ r.count - 1 <= Cardinality(At(asked[k], From(w)))
    BY <2>2, <2>6, <2>8
  <2>15. /\ Cardinality(At(passed[k], From(w))) <= Points
         /\ Cardinality(At(passed[k], From(w + 1))) <= Points - 1
    BY <2>6, <2>10, <2>11
  <2> QED
    BY <1>4, <2>2, <2>7, <2>9, <2>12, <2>13, <2>14, <2>15
<1>6. CASE ~(store[k] = NoRecord \/ store[k].resetTime <= now)
  <2>1. r = Record(store[k].count + 1, store[k].resetTime, store[k].blockedUntil)
    BY <1>6 DEF RecordOf
  <2>2. r.count = store[k].count + 1 /\ r.resetTime = store[k].resetTime
    BY <2>1 DEF Record
  <2>3. store[k].count \in Nat /\ store[k].resetTime \in Nat /\ store[k].resetTime <= now + Duration
    BY <1>1, <1>6 DEF Records, InReach, Never
  <2>4. Start(k) = w /\ End(k) = r.resetTime
    BY <1>6, <2>2 DEF Start, End
  <2>5. r # NoRecord
    BY <2>2, <2>3 DEF NoRecord, Record
  <2>6. w \in Int /\ w <= now /\ now < r.resetTime
    BY <1>1, <1>6, <2>2, <2>3
  <2>7. /\ Cardinality(At(passed[k], From(w))) <= Points
        /\ Cardinality(At(passed[k], From(w + 1))) <= Points - 1
        /\ Cardinality(At(passed[k], (w - Duration + 1) .. (w - 1))) <= Points - 1
        /\ \A i \in DOMAIN passed[k] : passed[k][i] < r.resetTime
    BY <1>3, <1>6, <2>4 DEF WindowPasses
  <2>8. /\ Cardinality(At(passed[k], From(w))) <= store[k].count
        /\ Cardinality(At(passed[k], From(w + 1))) <= store[k].count - 1
        /\ store[k].count <= Cardinality(At(asked[k], From(w)))
    BY <1>3, <1>6, <2>4 DEF WindowCounts
  <2>9. r.count - 1 = store[k].count
    BY <2>2, <2>3
  <2>10. Cardinality(At(passed[k], From(w + 1))) + (IF now > w THEN 1 ELSE 0) <= r.count - 1
    <3>1. Cardinality(At(passed[k], From(w + 1))) \in Nat
      BY WindowTypes
    <3> HIDE DEF At, From
    <3> QED
      BY <2>3, <2>8, <2>9, <3>1
  <2> QED
    BY <1>4, <2>2, <2>3, <2>5, <2>6, <2>7, <2>8, <2>9, <2>10
<1> QED
  BY <1>5, <1>6

-----------------------------------------------------------------------------
(* Steps *)

\* What WindowInv says of one key.
KeyInv(k) ==
    /\ WindowPasses(k) /\ WindowCounts(k)
    /\ \A i \in DOMAIN asked[k] : asked[k][i] <= now
    /\ \A t \in Times : Cardinality(At(passed[k], t .. (t + Duration - 1))) < 2 * Points
    /\ blockedAt[k] # Never =>
         Cardinality(At(asked[k], (blockedAt[k] - Duration + 1) .. blockedAt[k])) > Points

LEMMA KeyByKey == WindowInv <=> \A k \in Keys : KeyInv(k)
  BY DEF WindowInv, KeyInv, UnderTwiceThePoints, BlockedForCause, During, At

LEMMA KeyByKeyPrime == WindowInv' <=> \A k \in Keys : KeyInv(k)'
  BY DEF WindowInv, KeyInv, UnderTwiceThePoints, BlockedForCause, During, At

LEMMA AtTypes ==
    ASSUME NEW s \in Seq(Times), NEW T
    PROVE  Cardinality(At(s, T)) \in Nat
  BY AtFinite

\* A request that is only counted among the asked ones.
LEMMA MoreAsked ==
    ASSUME NEW s \in Seq(Times), now \in Times, NEW u, u = s \/ u = Append(s, now),
           \A i \in DOMAIN s : s[i] <= now
    PROVE  /\ \A T : Cardinality(At(s, T)) <= Cardinality(At(u, T))
           /\ \A i \in DOMAIN u : u[i] <= now
<1>1. CASE u = s
  BY <1>1, AtTypes
<1>2. CASE u = Append(s, now)
  <2>1. \A T : Cardinality(At(s, T)) <= Cardinality(At(u, T))
    <3> TAKE T
    <3>1. Cardinality(At(u, T)) = Cardinality(At(s, T)) + (IF now \in T THEN 1 ELSE 0)
      BY <1>2, AtAppend
    <3>2. Cardinality(At(s, T)) \in Nat
      BY AtTypes
    <3> HIDE DEF At
    <3> QED
      BY <3>1, <3>2
  <2>2. \A i \in DOMAIN u : u[i] = now \/ (i \in DOMAIN s /\ u[i] = s[i])
    BY <1>2
  <2>3. now <= now
    BY DEF Times
  <2> QED
    BY <2>1, <2>2, <2>3
<1> QED
  BY <1>1, <1>2

\* The parts of KeyInv that are not about the window survive more requests.
LEMMA KeyRest ==
    ASSUME NEW k \in Keys, KeyInv(k), UNCHANGED <<now, blockedAt>>, passed'[k] = passed[k],
           Points \in Nat,
           \A T : /\ Cardinality(At(asked[k], T)) \in Nat
                  /\ Cardinality(At(asked'[k], T)) \in Nat
                  /\ Cardinality(At(asked[k], T)) <= Cardinality(At(asked'[k], T)),
           \A i \in DOMAIN asked'[k] : asked'[k][i] <= now,
           WindowPasses(k)', WindowCounts(k)'
    PROVE  KeyInv(k)'
<1>1. ASSUME blockedAt[k] # Never
      PROVE  Cardinality(At(asked'[k], (blockedAt[k] - Duration + 1) .. blockedAt[k])) > Points
  <2> DEFINE T == (blockedAt[k] - Duration + 1) .. blockedAt[k]
  <2>1. Cardinality(At(asked[k], T)) > Points
    BY <1>1 DEF KeyInv
  <2> HIDE DEF T, At
  <2>2. Cardinality(At(asked'[k], T)) > Points
    BY <2>1
  <2> QED
    BY <2>2 DEF T
<1> QED
  BY <1>1 DEF KeyInv

\* A key whose record is kept or swept, and of which nothing is let through.
LEMMA KeyKept ==
    ASSUME TypeOK, NEW k \in Keys, KeyInv(k), UNCHANGED <<now, blockedAt>>, passed'[k] = passed[k],
           \/ store'[k] = store[k]
           \/ store'[k] = NoRecord /\ store[k].resetTime < now,
           asked'[k] = asked[k] \/ asked'[k] = Append(asked[k], now)
    PROVE  KeyInv(k)'
<1>1. /\ asked[k] \in Seq(Times) /\ passed[k] \in Seq(Times) /\ now \in Nat /\ now \in Times
      /\ Points \in Nat /\ Duration \in Nat /\ store[k] \in Records
      /\ \A T : Cardinality(At(passed[k], T)) \in Nat /\ Cardinality(At(asked[k], T)) \in Nat
  BY WindowTypes
<1>2. /\ \A T : Cardinality(At(asked[k], T)) <= Cardinality(At(asked'[k], T))
      /\ \A i \in DOMAIN asked'[k] : asked'[k][i] <= now
  BY <1>1, MoreAsked DEF KeyInv
<1>3. \A T : Cardinality(At(asked'[k], T)) \in Nat
  <2>1. asked[k] \in Seq(Times) /\ now \in Times
    BY <1>1
  <2>2. Append(asked[k], now) \in Seq(Times)
    BY <2>1
  <2>3. asked'[k] \in Seq(Times)
    BY <2>1, <2>2, Zenon
  <2> QED
    BY <2>3, AtTypes
<1>4. CASE store'[k] = store[k]
  <2>1. Start(k)' = Start(k) /\ End(k)' = End(k)
    BY <1>4 DEF Start, End
  <2>2. WindowPasses(k)'
    <3>1. passed'[k] = passed[k] /\ WindowPasses(k)
      BY DEF KeyInv
    <3> QED
      BY <1>4, <2>1, <3>1 DEF WindowPasses
  <2>3. WindowCounts(k)'
    <3>1. CASE store[k] # NoRecord
      <4>1. /\ Cardinality(At(passed[k], From(Start(k)))) <= store[k].count
            /\ Cardinality(At(passed[k], From(Start(k) + 1))) <= store[k].count - 1
            /\ store[k].count <= Cardinality(At(asked[k], From(Start(k))))
        BY <3>1 DEF KeyInv, WindowCounts
      <4>2. Cardinality(At(asked[k], From(Start(k)))) <= Cardinality(At(asked'[k], From(Start(k))))
        BY <1>2
      <4>3. /\ store[k].count \in Nat
            /\ Cardinality(At(asked[k], From(Start(k)))) \in Nat
            /\ Cardinality(At(asked'[k], From(Start(k)))) \in Nat
        BY <1>1, <1>3 DEF Records
      <4>4. store[k].count <= Cardinality(At(asked'[k], From(Start(k))))
        BY <4>1, <4>2, <4>3
      <4> QED
        BY <1>4, <2>1, <4>1, <4>4 DEF WindowCounts
    <3> QED
      BY <1>4, <3>1 DEF WindowCounts
  <2> QED
    BY <1>2, <2>2, <2>3, <1>1, <1>3, KeyRest
<1>5. CASE store'[k] = NoRecord /\ store[k].resetTime < now /\ store[k] # NoRecord
  <2>1. Start(k)' = now - Duration /\ End(k)' = now
    BY <1>5 DEF Start, End
  <2>2. Start(k) < now - Duration /\ End(k) < now /\ Start(k) \in Int /\ End(k) \in Int
    BY <1>1, <1>5 DEF Start, End, Records, Never
  <2>3. Cardinality(At(passed[k], From(now - Duration))) <= Points
    <3>1. \A i \in DOMAIN passed[k] :
            passed[k][i] \in From(now - Duration) => passed[k][i] \in From(Start(k))
      BY <1>1, <2>2, ElementTimes DEF From, Times
    <3>2. Cardinality(At(passed[k], From(now - Duration))) <= Cardinality(At(passed[k], From(Start(k))))
      BY <1>1, <3>1, AtWithin
    <3>3. Cardinality(At(passed[k], From(Start(k)))) <= Points
      BY DEF KeyInv, WindowPasses
    <3> HIDE DEF At, From
    <3> QED
      BY <1>1, <3>2, <3>3
  <2>6. Cardinality(At(passed[k], From((now - Duration) + 1))) <= Points - 1
    <3>1. \A i \in DOMAIN passed[k] :
            passed[k][i] \in From((now - Duration) + 1) => passed[k][i] \in From(Start(k) + 1)
      BY <1>1, <2>2, ElementTimes DEF From, Times
    <3>2. Cardinality(At(passed[k], From((now - Duration) + 1)))
            <= Cardinality(At(passed[k], From(Start(k) + 1)))
      BY <1>1, <3>1, AtWithin
    <3>3. Cardinality(At(passed[k], From(Start(k) + 1))) <= Points - 1
      BY DEF KeyInv, WindowPasses
    <3> HIDE DEF At, From
    <3> QED
      BY <1>1, <3>2, <3>3
  <2>4. \A i \in DOMAIN passed[k] : passed[k][i] < now
    <3>1. \A i \in DOMAIN passed[k] : passed[k][i] < End(k) /\ passed[k][i] \in Nat
      BY <1>1, ElementTimes DEF KeyInv, WindowPasses
    <3> QED
      BY <1>1, <2>2, <3>1
  <2>5. WindowPasses(k)' /\ WindowCounts(k)'
    BY <1>5, <2>1, <2>3, <2>4, <2>6 DEF WindowPasses, WindowCounts
  <2> QED
    BY <1>1, <1>2, <1>3, <2>5, KeyRest
<1> QED
  BY <1>4, <1>5

LEMMA RefusedKeys ==
    ASSUME TypeOK, WindowInv, NEW k \in Keys, Refused(k)
    PROVE  WindowInv'
<1>1. \A j \in Keys : asked'[j] = asked[j] \/ asked'[j] = Append(asked[j], now)
  BY DEF Refused, Ask, Noted, TypeOK
<1>2. UNCHANGED <<now, store, passed, blockedAt>>
  BY DEF Refused
<1>3. \A j \in Keys : KeyInv(j)'
  BY <1>1, <1>2, KeyKept, KeyByKey
<1> QED
  BY <1>3, KeyByKeyPrime

LEMMA TickKeys ==
    ASSUME TypeOK, WindowInv, Tick
    PROVE  WindowInv'
<1>1. UNCHANGED <<store, asked, passed, blockedAt>> /\ now' = now + 1
  BY DEF Tick, history
<1>2. ASSUME NEW k \in Keys
      PROVE  KeyInv(k)'
  <2>1. /\ asked[k] \in Seq(Times) /\ passed[k] \in Seq(Times) /\ now \in Nat
        /\ Points \in Nat /\ Duration \in Nat
        /\ KeyInv(k)
    BY WindowTypes, KeyByKey
  <2>2. /\ \A i \in DOMAIN asked[k] : asked[k][i] \in Nat /\ asked[k][i] <= now
        /\ \A i \in DOMAIN passed[k] : passed[k][i] \in Nat
    BY <2>1, ElementTimes DEF KeyInv
  <2>3. \A i \in DOMAIN asked[k] : asked[k][i] <= now + 1
    BY <2>1, <2>2
  <2>4. CASE store[k] # NoRecord
    <3>1. Start(k)' = Start(k) /\ End(k)' = End(k)
      BY <1>1, <2>4 DEF Start, End
    <3> QED
      BY <1>1, <2>1, <2>3, <3>1 DEF KeyInv, WindowPasses, WindowCounts
  <2>5. CASE store[k] = NoRecord
    <3>1. /\ Start(k) = now - Duration /\ Start(k)' = (now + 1) - Duration
          /\ End(k) = now /\ End(k)' = now + 1
      <4>1. store'[k] = NoRecord /\ now' = now + 1
        BY <1>1, <2>5
      <4>2. Start(k)' = (now + 1) - Duration
        BY <4>1 DEF Start
      <4>3. End(k)' = now + 1
        BY <4>1 DEF End
      <4>4. Start(k) = now - Duration /\ End(k) = now
        BY <2>5 DEF Start, End
      <4> QED
        BY <4>2, <4>3, <4>4
    <3>2. Cardinality(At(passed[k], From((now + 1) - Duration))) <= Points
      <4>1. \A i \in DOMAIN passed[k] :
              passed[k][i] \in From((now + 1) - Duration) => passed[k][i] \in From(now - Duration)
        BY <2>1, <2>2 DEF From
      <4>2. Cardinality(At(passed[k], From((now + 1) - Duration)))
              <= Cardinality(At(passed[k], From(now - Duration)))
        BY <2>1, <4>1, AtWithin
      <4>3. Cardinality(At(passed[k], From(now - Duration))) <= Points
        BY <2>1, <3>1 DEF KeyInv, WindowPasses
      <4>4. \A T : Cardinality(At(passed[k], T)) \in Nat
        BY <2>1, AtTypes
      <4> HIDE DEF At, From
      <4> QED
        BY <2>1, <4>2, <4>3, <4>4
    <3>5. Cardinality(At(passed[k], From(((now + 1) - Duration) + 1))) <= Points - 1
      <4>1. \A i \in DOMAIN passed[k] : passed[k][i] \in From(((now + 1) - Duration) + 1)
              => passed[k][i] \in From((now - Duration) + 1)
        BY <2>1, <2>2 DEF From
      <4>2. Cardinality(At(passed[k], From(((now + 1) - Duration) + 1)))
              <= Cardinality(At(passed[k], From((now - Duration) + 1)))
        BY <2>1, <4>1, AtWithin
      <4>3. Cardinality(At(passed[k], From((now - Duration) + 1))) <= Points - 1
        BY <2>1, <3>1 DEF KeyInv, WindowPasses
      <4>4. \A T : Cardinality(At(passed[k], T)) \in Nat
        BY <2>1, AtTypes
      <4> HIDE DEF At, From
      <4> QED
        BY <2>1, <4>2, <4>3, <4>4
    <3>3. \A i \in DOMAIN passed[k] : passed[k][i] < now + 1
      <4>1. \A i \in DOMAIN passed[k] : passed[k][i] < now
        BY <2>1, <3>1 DEF KeyInv, WindowPasses
      <4> QED
        BY <2>1, <2>2, <4>1
    <3>4. WindowPasses(k)' /\ WindowCounts(k)'
      BY <1>1, <2>5, <3>1, <3>2, <3>3, <3>5 DEF WindowPasses, WindowCounts
    <3> QED
      BY <1>1, <2>1, <2>3, <3>4 DEF KeyInv
  <2> QED
    BY <2>4, <2>5
<1> QED
  BY <1>2, KeyByKeyPrime

\* The request that starts the block: it is the last of more than the points in its window.
LEMMA BlockKeys ==
    ASSUME TypeOK, WindowInv, NEW k \in Keys, BlockStarts(k)
    PROVE  WindowInv'
<1> DEFINE r == RecordOf(k)
           w == r.resetTime - Duration
<1>1. /\ asked[k] \in Seq(Times) /\ passed[k] \in Seq(Times) /\ now \in Nat /\ now \in Times
      /\ Points \in Nat /\ Duration \in Nat /\ Block \in Nat /\ KeyInv(k)
  BY WindowTypes, KeyByKey
<1>2. /\ asked' = Noted(asked, k) /\ UNCHANGED <<now, passed>>
      /\ store' = [store EXCEPT ![k] = Record(r.count, r.resetTime, now + Block)]
      /\ blockedAt' = [blockedAt EXCEPT ![k] = now] /\ r.count > Points
  BY DEF BlockStarts, Ask
<1>3. ASSUME NEW j \in Keys, j # k
      PROVE  KeyInv(j)'
  <2>1. /\ asked'[j] = asked[j] /\ store'[j] = store[j] /\ blockedAt'[j] = blockedAt[j]
        /\ passed'[j] = passed[j] /\ now' = now /\ KeyInv(j)
    BY <1>2, <1>3, KeyByKey DEF Noted, TypeOK
  <2> QED
    BY <2>1 DEF KeyInv, WindowPasses, WindowCounts, Start, End
<1>4. KeyInv(k)'
  <2>1. /\ r \in Records /\ r # NoRecord /\ r.resetTime \in Nat
        /\ w \in Int /\ w <= now /\ now < r.resetTime
        /\ \A i \in DOMAIN passed[k] : passed[k][i] < r.resetTime
        /\ Cardinality(At(passed[k], From(w))) <= Points
        /\ Cardinality(At(passed[k], From(w))) <= r.count - 1
        /\ Cardinality(At(passed[k], From(w + 1))) + (IF now > w THEN 1 ELSE 0) <= r.count - 1
        /\ Cardinality(At(passed[k], From(w + 1))) <= Points - 1
        /\ r.count - 1 <= Cardinality(At(asked[k], From(w)))
        /\ Cardinality(At(passed[k], (w - Duration + 1) .. (w - 1))) <= Points - 1
    BY WindowOfRequest
  <2>2. store'[k] = Record(r.count, r.resetTime, now + Block)
    BY <1>2 DEF TypeOK
  <2>3. store'[k].count = r.count /\ store'[k].resetTime = r.resetTime
    BY <2>2 DEF Record
  <2>4. r.count \in Nat /\ r.count > 0
    BY <1>1, <1>2, <2>1 DEF Records
  <2>5. store'[k] # NoRecord
    BY <2>3, <2>4 DEF NoRecord, Record
  <2>6. Start(k)' = w /\ End(k)' = r.resetTime
    BY <2>3, <2>5 DEF Start, End
  <2>7. asked'[k] = Append(asked[k], now) /\ asked'[k] \in Seq(Times)
    BY <1>1, <1>2 DEF Noted, TypeOK
  <2>8. /\ \A T : Cardinality(At(passed[k], T)) \in Nat
        /\ \A T : Cardinality(At(asked[k], T)) \in Nat
        /\ \A T : Cardinality(At(asked'[k], T)) \in Nat
    BY <1>1, <2>7, AtTypes
  <2>9. Cardinality(At(asked'[k], From(w))) = Cardinality(At(asked[k], From(w))) + 1
    <3>1. now \in From(w)
      <4>1. now \in Nat /\ now \in Times /\ w \in Int /\ w <= now
        BY <1>1, <2>1
      <4> HIDE DEF w
      <4> QED
        BY <4>1 DEF From
    <3> QED
      BY <1>1, <2>7, <3>1, AtAppend
  <2>10. \A i \in DOMAIN asked'[k] : asked'[k][i] <= now
    BY <1>1, <2>7, MoreAsked DEF KeyInv
  <2>11. WindowPasses(k)'
    BY <1>2, <2>1, <2>6 DEF WindowPasses
  <2>12. WindowCounts(k)'
    <3>1. /\ Cardinality(At(passed[k], From(w))) <= r.count
          /\ Cardinality(At(passed[k], From(w + 1))) <= r.count - 1
          /\ r.count <= Cardinality(At(asked'[k], From(w)))
      <4> DEFINE x == Cardinality(At(passed[k], From(w)))
                 v == Cardinality(At(passed[k], From(w + 1)))
                 y == Cardinality(At(asked[k], From(w)))
                 z == Cardinality(At(asked'[k], From(w)))
      <4>1. /\ x <= r.count - 1 /\ r.count - 1 <= y /\ z = y + 1
            /\ x \in Nat /\ y \in Nat /\ z \in Nat /\ r.count \in Nat
            /\ v \in Nat /\ v + (IF now > w THEN 1 ELSE 0) <= r.count - 1
        BY <2>1, <2>4, <2>8, <2>9
      <4> HIDE DEF x, y, z, v, w, r
      <4>2. x <= r.count /\ r.count <= z /\ v <= r.count - 1
        BY <4>1
      <4> QED
        BY <4>2 DEF x, y, z, v, w, r
    <3> QED
      BY <1>2, <2>3, <2>6, <3>1 DEF WindowCounts
  <2>13. Cardinality(At(asked'[k], (now - Duration + 1) .. now)) > Points
    <3> DEFINE T == (now - Duration + 1) .. now
    <3>1. now - Duration + 1 <= w
      <4>1. w = r.resetTime - Duration
        OBVIOUS
      <4> HIDE DEF w, r
      <4> QED
        BY <1>1, <2>1, <4>1
    <3>2. \A i \in DOMAIN asked'[k] : asked'[k][i] \in Nat
      BY <2>7, ElementTimes
    <3>3. \A i \in DOMAIN asked'[k] : asked'[k][i] \in From(w) => asked'[k][i] \in T
      BY <1>1, <2>1, <2>10, <3>1, <3>2 DEF From
    <3>4. Cardinality(At(asked'[k], From(w))) <= Cardinality(At(asked'[k], T))
      BY <2>7, <3>3, AtWithin
    <3> DEFINE y == Cardinality(At(asked[k], From(w)))
               z == Cardinality(At(asked'[k], From(w)))
               u == Cardinality(At(asked'[k], T))
    <3>5. /\ r.count - 1 <= y /\ z = y + 1 /\ z <= u /\ r.count > Points
          /\ y \in Nat /\ z \in Nat /\ u \in Nat /\ r.count \in Nat /\ Points \in Nat
      BY <1>1, <1>2, <2>1, <2>4, <2>8, <2>9, <3>4
    <3> HIDE DEF y, z, u, r
    <3>6. u > Points
      BY <3>5
    <3> QED
      BY <3>6 DEF u
  <2>14. blockedAt'[k] = now
    BY <1>2 DEF TypeOK
  <2>15. \A t \in Times : Cardinality(At(passed[k], t .. (t + Duration - 1))) < 2 * Points
    BY <1>1 DEF KeyInv
  <2> HIDE DEF w, r
  <2> QED
    BY <1>2, <2>10, <2>11, <2>12, <2>13, <2>14, <2>15 DEF KeyInv
<1> QED
  BY <1>3, <1>4, KeyByKeyPrime

\* A request that is let through: it is one of the points of its window, and an interval
\* as long as a window that contains it begins after the window before began to end.
LEMMA PassKeys ==
    ASSUME TypeOK, WindowInv, NEW k \in Keys, Pass(k)
    PROVE  WindowInv'
<1> DEFINE r == RecordOf(k)
           w == r.resetTime - Duration
<1>1. /\ asked[k] \in Seq(Times) /\ passed[k] \in Seq(Times) /\ now \in Nat /\ now \in Times
      /\ Points \in Nat /\ Duration \in Nat /\ KeyInv(k)
  BY WindowTypes, KeyByKey
<1>2. /\ asked' = Noted(asked, k) /\ passed' = Noted(passed, k)
      /\ UNCHANGED <<now, blockedAt>> /\ r.count <= Points
  BY DEF Pass, Ask
<1>3. ASSUME NEW j \in Keys, j # k
      PROVE  KeyInv(j)'
  <2>1. /\ asked'[j] = asked[j] /\ passed'[j] = passed[j] /\ KeyInv(j)
        /\ UNCHANGED <<now, blockedAt>>
    BY <1>2, <1>3, KeyByKey DEF Noted, TypeOK
  <2>2. store'[j] = store[j] \/ (store'[j] = NoRecord /\ store[j].resetTime < now)
    BY <1>3, PassStore
  <2> QED
    BY <2>1, <2>2, KeyKept
<1>4. KeyInv(k)'
  <2>1. /\ r \in Records /\ r # NoRecord /\ r.resetTime \in Nat
        /\ w \in Int /\ w <= now /\ now < r.resetTime
        /\ \A i \in DOMAIN passed[k] : passed[k][i] < r.resetTime
        /\ Cardinality(At(passed[k], From(w))) <= Points
        /\ Cardinality(At(passed[k], From(w))) <= r.count - 1
        /\ Cardinality(At(passed[k], From(w + 1))) + (IF now > w THEN 1 ELSE 0) <= r.count - 1
        /\ Cardinality(At(passed[k], From(w + 1))) <= Points - 1
        /\ r.count - 1 <= Cardinality(At(asked[k], From(w)))
        /\ Cardinality(At(passed[k], (w - Duration + 1) .. (w - 1))) <= Points - 1
    BY WindowOfRequest
  <2>2. store'[k] = r
    <3>1. store'[k] = r \/ r.resetTime < now
      BY PassStore
    <3>2. ~(r.resetTime < now)
      BY <1>1, <2>1
    <3> QED
      BY <3>1, <3>2
  <2>3. r.count \in Nat
    BY <2>1 DEF Records
  <2>4. Start(k)' = w /\ End(k)' = r.resetTime
    BY <2>1, <2>2 DEF Start, End
  <2>5. /\ asked'[k] = Append(asked[k], now) /\ asked'[k] \in Seq(Times)
        /\ passed'[k] = Append(passed[k], now) /\ passed'[k] \in Seq(Times)
    BY <1>1, <1>2 DEF Noted, TypeOK
  <2>6. /\ \A T : Cardinality(At(passed[k], T)) \in Nat
        /\ \A T : Cardinality(At(passed'[k], T)) \in Nat
        /\ \A T : Cardinality(At(asked[k], T)) \in Nat
        /\ \A T : Cardinality(At(asked'[k], T)) \in Nat
    BY <1>1, <2>5, AtTypes
  <2>7. /\ \A T : Cardinality(At(asked[k], T)) <= Cardinality(At(asked'[k], T))
        /\ \A i \in DOMAIN asked'[k] : asked'[k][i] <= now
    BY <1>1, <2>5, MoreAsked DEF KeyInv
  <2>8. \A T : Cardinality(At(passed'[k], T)) =
                 Cardinality(At(passed[k], T)) + (IF now \in T THEN 1 ELSE 0)
    BY <1>1, <2>5, AtAppend
  <2>9. now \in From(w) /\ now \notin (w - Duration + 1) .. (w - 1)
    <3>1. now \in Nat /\ now \in Times /\ w \in Int /\ w <= now /\ Duration \in Nat
      BY <1>1, <2>1
    <3> HIDE DEF w
    <3> QED
      BY <3>1 DEF From
  <2>10. Cardinality(At(passed'[k], From(w))) <= r.count
    <3> DEFINE x == Cardinality(At(passed[k], From(w)))
               y == Cardinality(At(passed'[k], From(w)))
    <3>1. y = x + 1 /\ x <= r.count - 1 /\ x \in Nat /\ r.count \in Nat
      BY <2>1, <2>3, <2>6, <2>8, <2>9
    <3> HIDE DEF x, y, r
    <3>2. y <= r.count
      BY <3>1
    <3> QED
      BY <3>2 DEF y
  <2>11. Cardinality(At(passed'[k], From(w))) <= Points
    <3> DEFINE y == Cardinality(At(passed'[k], From(w)))
    <3>1. y <= r.count /\ r.count <= Points /\ y \in Nat /\ r.count \in Nat /\ Points \in Nat
      BY <1>1, <1>2, <2>3, <2>6, <2>10
    <3> HIDE DEF y, r
    <3>2. y <= Points
      BY <3>1
    <3> QED
      BY <3>2 DEF y
  <2>18. Cardinality(At(passed'[k], From(w + 1))) <= r.count - 1
    <3> DEFINE x == Cardinality(At(passed[k], From(w + 1)))
               y == Cardinality(At(passed'[k], From(w + 1)))
    <3>1. now \in From(w + 1) <=> now > w
      <4>1. now \in Nat /\ now \in Times /\ w \in Int
        BY <1>1, <2>1
      <4> HIDE DEF w
      <4> QED
        BY <4>1 DEF From
    <3>2. y = x + (IF now \in From(w + 1) THEN 1 ELSE 0)
      BY <2>8
    <3>3. x + (IF now > w THEN 1 ELSE 0) <= r.count - 1
      BY <2>1
    <3> HIDE DEF x, y, w, r, From
    <3>4. y <= r.count - 1
      BY <3>1, <3>2, <3>3
    <3> QED
      BY <3>4 DEF y
  <2>19. Cardinality(At(passed'[k], From(w + 1))) <= Points - 1
    <3> DEFINE y == Cardinality(At(passed'[k], From(w + 1)))
    <3>1. y <= r.count - 1 /\ r.count <= Points /\ y \in Nat /\ r.count \in Nat /\ Points \in Nat
      BY <1>1, <1>2, <2>3, <2>6, <2>18
    <3> HIDE DEF y, r
    <3>2. y <= Points - 1
      BY <3>1
    <3> QED
      BY <3>2 DEF y
  <2>12. Cardinality(At(passed'[k], (w - Duration + 1) .. (w - 1))) <= Points - 1
    <3> DEFINE T == (w - Duration + 1) .. (w - 1)
    <3>1. Cardinality(At(passed'[k], T)) = Cardinality(At(passed[k], T)) + 0
      BY <2>8, <2>9
    <3>2. Cardinality(At(passed[k], T)) \in Nat /\ Cardinality(At(passed[k], T)) <= Points - 1
      BY <2>1, <2>6
    <3> HIDE DEF T, At
    <3>3. Cardinality(At(passed'[k], T)) <= Points - 1
      BY <3>1, <3>2
    <3> QED
      BY <3>3 DEF T
  <2>13. \A i \in DOMAIN passed'[k] : passed'[k][i] < r.resetTime
    <3>1. \A i \in DOMAIN passed'[k] :
            passed'[k][i] = now \/ (i \in DOMAIN passed[k] /\ passed'[k][i] = passed[k][i])
      BY <1>1, <2>5
    <3> QED
      BY <2>1, <3>1
  <2>14. WindowPasses(k)'
    BY <1>2, <2>4, <2>11, <2>12, <2>13, <2>19 DEF WindowPasses
  <2>15. WindowCounts(k)'
    <3> DEFINE x == Cardinality(At(passed[k], From(w)))
               y == Cardinality(At(asked[k], From(w)))
               z == Cardinality(At(asked'[k], From(w)))
    <3>1. z = y + 1
      BY <1>1, <2>5, <2>9, AtAppend
    <3>2. r.count - 1 <= y /\ y \in Nat /\ z \in Nat /\ r.count \in Nat
      BY <2>1, <2>3, <2>6
    <3>3. r.count <= z
      <4> HIDE DEF y, z, r
      <4> QED
        BY <3>1, <3>2
    <3> QED
      BY <2>2, <2>4, <2>10, <2>18, <3>3 DEF WindowCounts
  <2>16. ASSUME NEW t \in Times
         PROVE  Cardinality(At(passed'[k], t .. (t + Duration - 1))) < 2 * Points
    <3> DEFINE T == t .. (t + Duration - 1)
               U == From(w)
               V == (w - Duration + 1) .. (w - 1)
    <3>0. t \in Nat
      BY DEF Times
    <3>1. CASE now \notin T
      <4>1. Cardinality(At(passed'[k], T)) = Cardinality(At(passed[k], T)) + 0
        BY <2>8, <3>1
      <4>2. Cardinality(At(passed[k], T)) \in Nat /\ Cardinality(At(passed[k], T)) < 2 * Points
        BY <1>1, <2>6 DEF KeyInv
      <4> HIDE DEF T, At
      <4>3. Cardinality(At(passed'[k], T)) < 2 * Points
        BY <4>1, <4>2
      <4> QED
        BY <4>3 DEF T
    <3>2. CASE now \in T
      <4>1. t > now - Duration
        BY <1>1, <3>0, <3>2
      <4>2. t > w - Duration
        <5>1. w \in Int /\ w <= now
          BY <2>1
        <5> HIDE DEF w
        <5> QED
          BY <1>1, <3>0, <4>1, <5>1
      <4>3. \A i \in DOMAIN passed'[k] : passed'[k][i] \in Nat /\ passed'[k][i] \in Times
        BY <2>5, ElementTimes
      <4>4. \A i \in DOMAIN passed'[k] : passed'[k][i] \in T => passed'[k][i] \in U \cup V
        <5>1. w \in Int
          BY <2>1
        <5> HIDE DEF w
        <5> QED
          BY <1>1, <3>0, <4>2, <4>3, <5>1 DEF From
      <4>5. Cardinality(At(passed'[k], T))
              <= Cardinality(At(passed'[k], U)) + Cardinality(At(passed'[k], V))
        BY <2>5, <4>4, AtCovered
      <4>6. /\ Cardinality(At(passed'[k], U)) <= Points
            /\ Cardinality(At(passed'[k], V)) <= Points - 1
        BY <2>11, <2>12
      <4>7. /\ Cardinality(At(passed'[k], T)) \in Nat
            /\ Cardinality(At(passed'[k], U)) \in Nat
            /\ Cardinality(At(passed'[k], V)) \in Nat
        BY <2>6
      <4> HIDE DEF T, U, V, At
      <4>8. Cardinality(At(passed'[k], T)) < 2 * Points
        BY <1>1, <4>5, <4>6, <4>7
      <4> QED
        BY <4>8 DEF T
    <3> QED
      BY <3>1, <3>2
  <2>17. ASSUME blockedAt[k] # Never
         PROVE  Cardinality(At(asked'[k], (blockedAt[k] - Duration + 1) .. blockedAt[k])) > Points
    <3> DEFINE T == (blockedAt[k] - Duration + 1) .. blockedAt[k]
    <3>1. Cardinality(At(asked[k], T)) > Points
      BY <1>1, <2>17 DEF KeyInv
    <3>2. /\ Cardinality(At(asked[k], T)) \in Nat /\ Cardinality(At(asked'[k], T)) \in Nat
          /\ Cardinality(At(asked[k], T)) <= Cardinality(At(asked'[k], T))
      BY <2>6, <2>7
    <3> HIDE DEF T, At
    <3>3. Cardinality(At(asked'[k], T)) > Points
      BY <1>1, <3>1, <3>2
    <3> QED
      BY <3>3 DEF T
  <2> HIDE DEF w, r
  <2> QED
    BY <1>2, <2>7, <2>14, <2>15, <2>16, <2>17 DEF KeyInv
<1> QED
  BY <1>3, <1>4, KeyByKeyPrime

LEMMA InitWindow == Init => WindowInv
<1> SUFFICES ASSUME Init, NEW k \in Keys
             PROVE  KeyInv(k)
  BY KeyByKey
<1>1. /\ asked[k] = <<>> /\ passed[k] = <<>> /\ store[k] = NoRecord /\ blockedAt[k] = Never
  BY DEF Init
<1>2. \A T : At(<<>>, T) = {}
  BY DEF At
<1>3. \A T : Cardinality(At(passed[k], T)) = 0
  BY <1>1, <1>2, FS_EmptySet
<1>4. 0 <= Points /\ 0 <= Points - 1 /\ 0 < 2 * Points
  BY RateLimitAssumption
<1>5. WindowPasses(k) /\ WindowCounts(k)
  BY <1>1, <1>3, <1>4 DEF WindowPasses, WindowCounts
<1> QED
  BY <1>1, <1>3, <1>4, <1>5 DEF KeyInv

LEMMA NextWindow ==
    ASSUME TypeOK, WindowInv, [Next]_vars
    PROVE  WindowInv'
<1>1. CASE UNCHANGED vars
  <2>1. \A k \in Keys : KeyInv(k) => KeyInv(k)'
    BY <1>1 DEF vars, history, KeyInv, WindowPasses, WindowCounts, Start, End
  <2> QED
    BY <2>1, KeyByKey, KeyByKeyPrime
<1> QED
  BY <1>1, TickKeys, RefusedKeys, BlockKeys, PassKeys DEF Next

LEMMA Windows == Spec => []WindowInv
<1>1. WindowInv /\ TypeOK /\ [Next]_vars => WindowInv'
  BY NextWindow
<1> QED
  BY <1>1, InitWindow, TypeCorrect, PTL DEF Spec

\* In any time as long as a window fewer than twice the points are let through, for any
\* points, durations, blocks and sweeps.
THEOREM UnderTwice == Spec => []UnderTwiceThePoints
<1>1. WindowInv => UnderTwiceThePoints
  BY DEF WindowInv
<1> QED
  BY <1>1, Windows, PTL

\* A block starts only when more requests than the points have come within a window.
THEOREM BlocksHaveCause == Spec => []BlockedForCause
<1>1. WindowInv => BlockedForCause
  BY DEF WindowInv
<1> QED
  BY <1>1, Windows, PTL
=============================================================================
