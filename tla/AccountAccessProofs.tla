------------------------ MODULE AccountAccessProofs ------------------------
(***************************************************************************)
(* Proofs about AccountAccess for every value of the constants.            *)
(***************************************************************************)
EXTENDS AccountAccess, NaturalsInduction, WellFoundedInduction, TLAPS

-----------------------------------------------------------------------------
(* The oldest of a set of keys *)

LEMMA LeastExists ==
    ASSUME NEW S \in SUBSET Nat, S # {}
    PROVE  \E n \in S : \A m \in S : n <= m
<1> DEFINE R == {ss \in Nat \X Nat : ss[1] < ss[2]}
<1>1. IsWellFoundedOn(R, Nat)
  BY NatLessThanWellFounded, Zenon DEF OpToRel
<1>2. \E n \in S : \A m \in S : <<m, n>> \notin R
  <2> HIDE DEF R
  <2> QED BY <1>1, WFMin, Zenon
<1>3. PICK n \in S : \A m \in S : <<m, n>> \notin R
  BY <1>2
<1>4. ASSUME NEW m \in S PROVE n <= m
  <2>1. m \in Nat /\ n \in Nat
    OBVIOUS
  <2>2. m < n => <<m, n>> \in R
    BY <2>1
  <2> QED BY <1>3, <2>1, <2>2
<1> QED
  BY <1>4

-----------------------------------------------------------------------------
(* The invariant *)

Held == {"dedupe", "insert"}

KeysType ==
    /\ accounts \subseteq Accounts /\ created \in Nat
    /\ keys \subseteq [id : Nat, account : Accounts, active : BOOLEAN]
    /\ calls = [p \in Procs |-> calls[p]]

\* No two keys have the same place in the order of createdAt.
KeysOrdered ==
    /\ \A k \in keys : k.id <= created
    /\ \A k, l \in keys : k.id = l.id => k = l

\* A key that is about to be stored has a place of its own.
InsertsNew ==
    \A p \in Procs : calls[p].pc = "insert" =>
        /\ calls[p].val \in Nat /\ calls[p].val <= created /\ calls[p].account \in Accounts
        /\ \A k \in keys : k.id # calls[p].val
        /\ \A q \in Procs \ {p} : calls[q].pc = "insert" => calls[q].val # calls[p].val

\* k is the active key of its account with the first createdAt.
First(k) ==
    /\ k \in keys /\ k.active
    /\ \A l \in keys : l.account = k.account /\ l.active => k.id <= l.id

\* No call is about to deactivate the first of the active keys an account has now,
\* although its list of keys may be an old one.
FirstSpared ==
    \A p \in Procs : calls[p].pc = "dedupe" =>
        /\ \A n \in calls[p].doomed : \E k \in keys : k.id = n
        /\ \A k \in keys : First(k) => k.id \notin calls[p].doomed

KeysInv == KeysType /\ KeysOrdered /\ InsertsNew /\ FirstSpared /\ KeyRemains

LEMMA FirstExists ==
    ASSUME KeysType, NEW a, ActiveKeys(a) # {}
    PROVE  \E k \in ActiveKeys(a) : First(k)
<1> DEFINE K == ActiveKeys(a)
           S == {k.id : k \in K}
<1>1. S \in SUBSET Nat /\ S # {}
  BY DEF KeysType, ActiveKeys
<1>2. PICK n \in S : \A m \in S : n <= m
  <2> HIDE DEF S
  <2> QED BY <1>1, LeastExists
<1>3. PICK k \in K : k.id = n
  OBVIOUS
<1>4. \A l \in K : k.id <= l.id
  BY <1>2, <1>3
<1> QED
  BY <1>3, <1>4 DEF First, ActiveKeys

-----------------------------------------------------------------------------
(* Steps that touch no key *)

LEMMA KeptInv ==
    ASSUME KeysInv, UNCHANGED <<keys, created>>,
           accounts' \subseteq Accounts, invalidated \subseteq invalidated',
           calls' = [q \in Procs |-> calls'[q]],
           \A q \in Procs : calls'[q] = calls[q] \/ calls'[q].pc \notin Held
    PROVE  KeysInv'
<1>1. KeysType'
  BY DEF KeysInv, KeysType
<1>2. KeysOrdered'
  BY DEF KeysInv, KeysOrdered
<1>3. InsertsNew'
  BY DEF KeysInv, InsertsNew, Held
<1>4. FirstSpared'
  BY DEF KeysInv, FirstSpared, First, Held
<1>5. KeyRemains'
  BY DEF KeysInv, KeyRemains, ActiveKeys
<1> QED
  BY <1>1, <1>2, <1>3, <1>4, <1>5 DEF KeysInv

\* A call moves to a place where it holds no key.
LEMMA SetInv ==
    ASSUME KeysInv, UNCHANGED <<keys, created>>,
           accounts' \subseteq Accounts, invalidated \subseteq invalidated',
           NEW p \in Procs, NEW c, Set(p, c), c.pc \notin Held
    PROVE  KeysInv'
<1>1. calls' = [q \in Procs |-> IF q = p THEN c ELSE calls[q]]
  BY DEF Set, KeysInv, KeysType
<1> QED
  BY <1>1, KeptInv

\* ... or takes the next await of its code with its locals.
LEMMA GotoInv ==
    ASSUME KeysInv, UNCHANGED <<accounts, keys, created>>, invalidated \subseteq invalidated',
           NEW p \in Procs, NEW pc, Goto(p, pc), pc \notin Held
    PROVE  KeysInv'
<1> DEFINE c == calls[p]
           d == Call(pc, c.account, c.doc, c.val, c.back, c.doomed)
<1>1. d.pc = pc /\ Set(p, d)
  BY DEF Call, Goto
<1>2. accounts' \subseteq Accounts
  BY DEF KeysInv, KeysType
<1> HIDE DEF d
<1> QED
  BY <1>1, <1>2, SetInv

LEMMA EndInv ==
    ASSUME KeysInv, UNCHANGED <<accounts, keys, created>>, invalidated \subseteq invalidated',
           NEW p \in Procs, NEW val, Return(p, val)
    PROVE  KeysInv'
<1>1. NoCall.pc \notin Held /\ Set(p, NoCall)
  BY DEF NoCall, Call, Return, Held
<1>2. accounts' \subseteq Accounts
  BY DEF KeysInv, KeysType
<1> QED
  BY <1>1, <1>2, SetInv

LEMMA CallsSameInv ==
    ASSUME KeysInv, UNCHANGED <<keys, created, calls>>,
           accounts' \subseteq accounts, invalidated \subseteq invalidated'
    PROVE  KeysInv'
<1>1. accounts' \subseteq Accounts /\ calls' = [q \in Procs |-> calls'[q]]
  BY DEF KeysInv, KeysType
<1>2. \A q \in Procs : calls'[q] = calls[q]
  OBVIOUS
<1> QED
  BY <1>1, <1>2, KeptInv

LEMMA RequestInv ==
    ASSUME KeysInv, NEW p \in Procs, Request(p)
    PROVE  KeysInv'
<1>1. ASSUME NEW pc, NEW a, NEW doc, NEW val, NEW back, Begin(p, Call(pc, a, doc, val, back, {})),
             pc \notin Held, accounts' \subseteq Accounts, UNCHANGED <<keys, created>>
      PROVE  KeysInv'
  <2> DEFINE c == Call(pc, a, doc, val, back, {})
  <2>1. c.pc = pc /\ Set(p, c) /\ invalidated' = invalidated
    BY <1>1 DEF Call, Begin
  <2> HIDE DEF c
  <2> QED
    BY <1>1, <2>1, SetInv
<1>2. accounts \subseteq Accounts
  BY DEF KeysInv, KeysType
<1>3. CASE Login(p)
  BY <1>1, <1>2, <1>3 DEF Login, Held
<1>4. CASE SelectAccount(p)
  BY <1>1, <1>2, <1>4 DEF SelectAccount, Held
<1>5. CASE Refresh(p)
  BY <1>1, <1>2, <1>5 DEF Refresh, Held
<1>6. CASE Ready(p)
  BY <1>1, <1>2, <1>6 DEF Ready, Held
<1>7. CASE KeyRequest(p)
  BY <1>1, <1>2, <1>7 DEF KeyRequest, Held
<1>8. CASE DeleteAccountOnLogout(p)
  BY <1>1, <1>2, <1>8 DEF DeleteAccountOnLogout, Held
<1> QED
  BY <1>3, <1>4, <1>5, <1>6, <1>7, <1>8 DEF Request

TokenStep(p) ==
    \/ LoginFallback(p) \/ LoginAccounts(p)
    \/ SelectCheck(p) \/ SelectFind(p) \/ SelectUpdate(p) \/ SelectPrune(p)
    \/ SelectAccess(p) \/ SelectCreate(p)
    \/ RefreshLookup(p) \/ RefreshRotate(p) \/ RefreshDrop(p)
    \/ RemoveFind(p) \/ RemoveRenew(p) \/ RemoveDelete(p) \/ RemoveKeys(p)
    \/ RemoveDone(p) \/ Fail(p)

LEMMA TokenStepInv ==
    ASSUME KeysInv, NEW p \in Procs, TokenStep(p)
    PROVE  KeysInv'
<1>1. ASSUME NEW pc, NEW a, NEW doc, NEW val, NEW back, Set(p, Call(pc, a, doc, val, back, {})),
             pc \notin Held, UNCHANGED <<accounts, keys, created, invalidated>>
      PROVE  KeysInv'
  <2> DEFINE c == Call(pc, a, doc, val, back, {})
  <2>1. c.pc = pc /\ Set(p, c)
    BY <1>1 DEF Call
  <2>2. accounts' \subseteq Accounts
    BY <1>1 DEF KeysInv, KeysType
  <2> HIDE DEF c
  <2> QED
    BY <1>1, <2>1, <2>2, SetInv
<1>2. CASE LoginFallback(p)
  BY <1>2, GotoInv DEF LoginFallback, history, Held
<1>3. CASE LoginAccounts(p)
  BY <1>1, <1>3, EndInv DEF LoginAccounts, tokens, Held
<1>4. CASE SelectCheck(p)
  BY <1>1, <1>4, EndInv DEF SelectCheck, Held
<1>5. CASE SelectFind(p)
  BY <1>1, <1>5, GotoInv DEF SelectFind, history, Held
<1>6. CASE SelectUpdate(p)
  BY <1>6, GotoInv DEF SelectUpdate, history, Held
<1>7. CASE SelectPrune(p)
  BY <1>7, GotoInv DEF SelectPrune, history, Held
<1>8. CASE SelectAccess(p)
  BY <1>8, EndInv DEF SelectAccess
<1>9. CASE SelectCreate(p)
  BY <1>9, EndInv DEF SelectCreate
<1>10. CASE RefreshLookup(p)
  BY <1>1, <1>10, EndInv DEF RefreshLookup, End, Held
<1>11. CASE RefreshRotate(p)
  BY <1>11, GotoInv DEF RefreshRotate, history, Held
<1>12. CASE RefreshDrop(p)
  BY <1>12, EndInv DEF RefreshDrop
<1>13. CASE RemoveFind(p)
  BY <1>1, <1>13, GotoInv DEF RemoveFind, history, Held
<1>14. CASE RemoveRenew(p)
  BY <1>14, GotoInv DEF RemoveRenew, history, Held
<1>15. CASE RemoveDelete(p)
  BY <1>15, GotoInv DEF RemoveDelete, history, Held
<1>16. CASE RemoveKeys(p)
  <2> DEFINE pc == IF ActiveKeys(calls[p].account) = {} THEN "gone" ELSE "invalidate"
  <2>1. Goto(p, pc) /\ pc \notin Held
    BY <1>16 DEF RemoveKeys, Held
  <2> HIDE DEF pc
  <2> QED
    BY <1>16, <2>1, GotoInv DEF RemoveKeys, history
<1>17. CASE RemoveDone(p)
  BY <1>17, EndInv DEF RemoveDone, End
<1>18. CASE Fail(p)
  BY <1>18, EndInv DEF Fail, End
<1> QED
  BY <1>2, <1>3, <1>4, <1>5, <1>6, <1>7, <1>8, <1>9, <1>10, <1>11, <1>12, <1>13, <1>14,
     <1>15, <1>16, <1>17, <1>18 DEF TokenStep

-----------------------------------------------------------------------------
(* Steps on keys *)

\* The duplicates of an account's keys are all but its first key.
LEMMA KeyFindInv ==
    ASSUME KeysInv, NEW p \in Procs, KeyFind(p)
    PROVE  KeysInv'
<1> DEFINE a == calls[p].account
           K == ActiveKeys(a)
           D == {k.id : k \in Duplicates(K)}
           c == Call("dedupe", a, 0, 0, 0, D)
<1>1. CASE ~(Cardinality(K) > 1)
  BY <1>1, GotoInv, EndInv DEF KeyFind, End, Held
<1>2. CASE Cardinality(K) > 1
  <2>1. /\ calls' = [q \in Procs |-> IF q = p THEN c ELSE calls[q]]
        /\ UNCHANGED <<accounts, keys, created, invalidated>>
    BY <1>2 DEF KeyFind, Set, KeysInv, KeysType
  <2>2. c.pc = "dedupe" /\ c.doomed = D
    BY DEF Call
  <2>3. \A n \in D : \E k \in keys : k.id = n
    BY DEF Duplicates, ActiveKeys
  <2>4. ASSUME NEW k \in keys, First(k), k.id \in D
        PROVE  FALSE
    <3>1. PICK l \in K : k.id = l.id /\ l # Oldest(K)
      BY <2>4 DEF Duplicates
    <3>2. k = l
      BY <3>1 DEF KeysInv, KeysOrdered, ActiveKeys
    <3>3. k \in K /\ \A m \in K : k.id <= m.id
      BY <2>4, <3>1, <3>2 DEF First, ActiveKeys
    <3>4. Oldest(K) \in K /\ \A m \in K : Oldest(K).id <= m.id
      BY <3>3 DEF Oldest
    <3>5. k.id = Oldest(K).id
      <4>1. k.id \in Nat /\ Oldest(K).id \in Nat
        BY <3>3, <3>4 DEF KeysInv, KeysType, ActiveKeys
      <4> QED BY <3>3, <3>4, <4>1
    <3> QED
      BY <3>1, <3>2, <3>3, <3>4, <3>5 DEF KeysInv, KeysOrdered, ActiveKeys
  <2>5. KeysType'
    BY <2>1 DEF KeysInv, KeysType
  <2>6. KeysOrdered'
    BY <2>1 DEF KeysInv, KeysOrdered
  <2> HIDE DEF c, D
  <2>7. InsertsNew'
    BY <2>1, <2>2 DEF KeysInv, InsertsNew
  <2>8. FirstSpared'
    BY <2>1, <2>2, <2>3, <2>4 DEF KeysInv, FirstSpared, First
  <2>9. KeyRemains'
    BY <2>1 DEF KeysInv, KeyRemains, ActiveKeys
  <2> QED
    BY <2>5, <2>6, <2>7, <2>8, <2>9 DEF KeysInv
<1> QED
  BY <1>1, <1>2

Kept(k, X) == Key(k.id, k.account, k.active /\ k \in X)

\* Only the keys of X stay active, in some accounts none, in the others the first one and
\* perhaps more.
LEMMA DeactivateInv ==
    ASSUME KeysInv, UNCHANGED <<accounts, created>>, invalidated \subseteq invalidated',
           NEW X, keys' = {Kept(k, X) : k \in keys},
           \A k, l \in keys : k \in X /\ First(l) /\ l.account = k.account => l \in X,
           \A k \in keys : First(k) /\ k.account \notin invalidated' => k \in X,
           calls' = [q \in Procs |-> calls'[q]],
           \A q \in Procs : calls'[q] = calls[q] \/ calls'[q].pc \notin Held
    PROVE  KeysInv'
<1>1. \A k \in keys :
         /\ Kept(k, X) \in [id : Nat, account : Accounts, active : BOOLEAN]
         /\ Kept(k, X).id = k.id /\ Kept(k, X).account = k.account
         /\ Kept(k, X).active <=> (k.active /\ k \in X)
  BY DEF Key, Kept, KeysInv, KeysType
<1>kept. \A k \in keys : Kept(k, X) \in keys'
  OBVIOUS
<1>all. \A m \in keys' : \E k \in keys : m = Kept(k, X)
  OBVIOUS
<1>2. KeysType'
  <2>1. keys' \subseteq [id : Nat, account : Accounts, active : BOOLEAN]
    BY <1>1, <1>all
  <2>2. accounts' \subseteq Accounts /\ created' \in Nat
    BY DEF KeysInv, KeysType
  <2>3. calls' = [q \in Procs |-> calls'[q]]
    OBVIOUS
  <2> QED
    BY <2>1, <2>2, <2>3 DEF KeysType
<1>3. KeysOrdered'
  BY <1>1, <1>all DEF KeysInv, KeysOrdered
<1>4. InsertsNew'
  BY <1>1, <1>all DEF KeysInv, InsertsNew, Held
<1>5. ASSUME NEW k \in keys, k.active
      PROVE  \E l \in keys : l.account = k.account /\ First(l) /\ l.active
  BY <1>5, FirstExists DEF KeysInv, ActiveKeys
<1>6. ASSUME NEW m \in keys', First(m)'
      PROVE  \E k \in keys : k.id = m.id /\ First(k)
  <2>1. PICK k \in keys : m = Kept(k, X)
    BY <1>all
  <2>2. k.active /\ k \in X /\ k.id = m.id /\ k.account = m.account
    BY <1>1, <1>6, <2>1 DEF First
  <2>3. PICK l \in keys : l.account = k.account /\ First(l) /\ l.active
    BY <1>5, <2>2
  <2>4. Kept(l, X) \in keys' /\ Kept(l, X).active /\ Kept(l, X).account = m.account
    BY <1>1, <1>kept, <2>2, <2>3
  <2>5. k.id <= l.id
    BY <1>1, <1>6, <2>2, <2>3, <2>4 DEF First
  <2>6. l.id <= k.id
    BY <2>2, <2>3 DEF First
  <2>7. k.id \in Nat /\ l.id \in Nat
    BY DEF KeysInv, KeysType
  <2>8. k = l
    BY <2>5, <2>6, <2>7 DEF KeysInv, KeysOrdered
  <2> QED
    BY <2>2, <2>3, <2>8
<1>7. FirstSpared'
  <2>1. ASSUME NEW q \in Procs, calls'[q].pc = "dedupe"
        PROVE  /\ \A n \in calls'[q].doomed : \E m \in keys' : m.id = n
               /\ \A m \in keys' : First(m)' => m.id \notin calls'[q].doomed
    <3>1. calls'[q] = calls[q] /\ calls[q].pc = "dedupe"
      BY <2>1 DEF Held
    <3>2. /\ \A n \in calls[q].doomed : \E k \in keys : k.id = n
          /\ \A k \in keys : First(k) => k.id \notin calls[q].doomed
      BY <3>1 DEF KeysInv, FirstSpared
    <3> QED
      BY <1>1, <1>kept, <1>6, <3>1, <3>2
  <2> QED
    BY <2>1 DEF FirstSpared
<1>8. KeyRemains'
  <2>1. ASSUME NEW k \in keys, k.account \notin invalidated'
        PROVE  \E m \in keys' : m.account = k.account /\ m.active
    <3>1. PICK l \in keys : l.account = k.account /\ l.active
      BY <2>1 DEF KeysInv, KeyRemains, ActiveKeys
    <3>2. PICK f \in keys : f.account = k.account /\ First(f) /\ f.active
      BY <1>5, <3>1
    <3> QED
      BY <1>1, <1>kept, <2>1, <3>2
  <2> QED
    BY <1>1, <1>all, <2>1 DEF KeyRemains, ActiveKeys
<1> QED
  BY <1>2, <1>3, <1>4, <1>7, <1>8 DEF KeysInv

LEMMA KeyDedupeInv ==
    ASSUME KeysInv, NEW p \in Procs, KeyDedupe(p)
    PROVE  KeysInv'
<1> DEFINE D == calls[p].doomed
           X == {k \in keys : k.id \notin D}
<1>1. /\ calls' = [q \in Procs |-> IF q = p THEN NoCall ELSE calls[q]]
      /\ keys' = {Key(k.id, k.account, k.active /\ k.id \notin D) : k \in keys}
      /\ UNCHANGED <<accounts, created, invalidated>>
  BY DEF KeyDedupe, End, Return, Set, KeysInv, KeysType
<1>2. keys' = {Kept(k, X) : k \in keys}
  BY <1>1 DEF Kept
<1>3. NoCall.pc \notin Held
  BY DEF NoCall, Call, Held
<1>4. \A k \in keys : First(k) => k \in X
  BY DEF KeyDedupe, KeysInv, FirstSpared
<1> HIDE DEF X, D
<1>5. /\ calls' = [q \in Procs |-> calls'[q]]
      /\ \A q \in Procs : calls'[q] = calls[q] \/ calls'[q].pc \notin Held
  BY <1>1, <1>3
<1> QED
  BY <1>1, <1>2, <1>4, <1>5, DeactivateInv

LEMMA RemoveInvalidateInv ==
    ASSUME KeysInv, NEW p \in Procs, RemoveInvalidate(p)
    PROVE  KeysInv'
<1> DEFINE a == calls[p].account
           X == {k \in keys : k.account # a}
           c == Call("gone", a, calls[p].doc, calls[p].val, calls[p].back, calls[p].doomed)
<1>1. /\ calls' = [q \in Procs |-> IF q = p THEN c ELSE calls[q]]
      /\ keys' = {Key(k.id, k.account, k.active /\ k.account # a) : k \in keys}
      /\ UNCHANGED <<accounts, created>> /\ invalidated' = invalidated \cup {a}
  BY DEF RemoveInvalidate, Goto, Set, KeysInv, KeysType
<1>2. keys' = {Kept(k, X) : k \in keys}
  BY <1>1 DEF Kept
<1>3. c.pc \notin Held
  BY DEF Call, Held
<1>4. /\ \A k, l \in keys : k \in X /\ l.account = k.account => l \in X
      /\ \A k \in keys : k.account \notin invalidated' => k \in X
  BY <1>1
<1> HIDE DEF X, c, a
<1>5. /\ calls' = [q \in Procs |-> calls'[q]]
      /\ \A q \in Procs : calls'[q] = calls[q] \/ calls'[q].pc \notin Held
  BY <1>1, <1>3
<1> QED
  BY <1>1, <1>2, <1>4, <1>5, DeactivateInv

\* A key gets its place in the order before it is stored.
LEMMA KeyOwnerInv ==
    ASSUME KeysInv, NEW p \in Procs, KeyOwner(p)
    PROVE  KeysInv'
<1> DEFINE a == calls[p].account
           c == Call("insert", a, 0, created', 0, {})
<1>1. CASE a \notin accounts
  BY <1>1, EndInv DEF KeyOwner, End
<1>2. CASE a \in accounts
  <2>1. /\ calls' = [q \in Procs |-> IF q = p THEN c ELSE calls[q]]
        /\ created' = created + 1 /\ UNCHANGED <<accounts, keys, invalidated>>
    BY <1>2 DEF KeyOwner, Set, KeysInv, KeysType
  <2>2. c.pc = "insert" /\ c.val = created' /\ c.account = a
    BY DEF Call
  <2>3. a \in Accounts /\ created \in Nat /\ \A k \in keys : k.id \in Nat
    BY <1>2 DEF KeysInv, KeysType
  <2> HIDE DEF c, a
  <2>4. KeysType'
    BY <2>1, <2>3 DEF KeysInv, KeysType
  <2>5. KeysOrdered'
    BY <2>1, <2>3 DEF KeysInv, KeysOrdered
  <2>6. InsertsNew'
    <3>1. \A k \in keys : k.id # created + 1
      BY <2>3 DEF KeysInv, KeysOrdered
    <3>2. \A q \in Procs : calls[q].pc = "insert" => calls[q].val # created + 1
      BY <2>3 DEF KeysInv, InsertsNew
    <3> QED
      BY <2>1, <2>2, <2>3, <3>1, <3>2 DEF KeysInv, InsertsNew
  <2>7. FirstSpared'
    BY <2>1, <2>2 DEF KeysInv, FirstSpared, First
  <2>8. KeyRemains'
    BY <2>1 DEF KeysInv, KeyRemains, ActiveKeys
  <2> QED
    BY <2>4, <2>5, <2>6, <2>7, <2>8 DEF KeysInv
<1> QED
  BY <1>1, <1>2

\* No call has seen a new key, wherever its place in the order is.
LEMMA KeyInsertInv ==
    ASSUME KeysInv, NEW p \in Procs, KeyInsert(p)
    PROVE  KeysInv'
<1> DEFINE c == calls[p]
           new == Key(c.val, c.account, TRUE)
<1>1. /\ calls' = [q \in Procs |-> IF q = p THEN NoCall ELSE calls[q]]
      /\ keys' = keys \cup {new} /\ c.pc = "insert"
      /\ UNCHANGED <<accounts, created, invalidated>>
  BY DEF KeyInsert, End, Return, Set, KeysInv, KeysType
<1>2. NoCall.pc = "idle"
  BY DEF NoCall, Call
<1>3. new.id = c.val /\ new.account = c.account /\ new.active = TRUE
  BY DEF Key
<1>4. /\ c.val \in Nat /\ c.val <= created /\ c.account \in Accounts
      /\ \A k \in keys : k.id # c.val
      /\ \A q \in Procs \ {p} : calls[q].pc = "insert" => calls[q].val # c.val
  BY <1>1 DEF KeysInv, InsertsNew
<1>5. new \in [id : Nat, account : Accounts, active : BOOLEAN]
  BY <1>4 DEF Key
<1> HIDE DEF new, c
<1>6. KeysType'
  BY <1>1, <1>5 DEF KeysInv, KeysType
<1>7. KeysOrdered'
  BY <1>1, <1>3, <1>4 DEF KeysInv, KeysOrdered
<1>8. InsertsNew'
  BY <1>1, <1>2, <1>3, <1>4 DEF KeysInv, InsertsNew
<1>9. FirstSpared'
  <2>1. ASSUME NEW q \in Procs, calls'[q].pc = "dedupe"
        PROVE  /\ \A n \in calls'[q].doomed : \E m \in keys' : m.id = n
               /\ \A m \in keys' : First(m)' => m.id \notin calls'[q].doomed
    <3>1. calls'[q] = calls[q] /\ calls[q].pc = "dedupe"
      BY <1>1, <1>2, <2>1
    <3>2. /\ \A n \in calls[q].doomed : \E k \in keys : k.id = n
          /\ \A k \in keys : First(k) => k.id \notin calls[q].doomed
      BY <3>1 DEF KeysInv, FirstSpared
    <3>3. \A k \in keys : First(k)' => First(k)
      BY <1>1 DEF First
    <3>4. new.id \notin calls[q].doomed
      BY <1>3, <1>4, <3>2
    <3> QED
      BY <1>1, <3>1, <3>2, <3>3, <3>4
  <2> QED
    BY <2>1 DEF FirstSpared
<1>10. KeyRemains'
  BY <1>1, <1>3 DEF KeysInv, KeyRemains, ActiveKeys
<1> QED
  BY <1>6, <1>7, <1>8, <1>9, <1>10 DEF KeysInv

-----------------------------------------------------------------------------
(* The theorem *)

LEMMA NextInv == KeysInv /\ [Next]_vars => KeysInv'
<1> SUFFICES ASSUME KeysInv, [Next]_vars PROVE KeysInv'
  OBVIOUS
<1>1. CASE \E p \in Procs : Request(p)
  BY <1>1, RequestInv
<1>2. CASE \E p \in Procs : Proceed(p) \/ Fail(p)
  BY <1>2, TokenStepInv, KeyFindInv, KeyDedupeInv, KeyOwnerInv, KeyInsertInv,
     RemoveInvalidateInv DEF Proceed, TokenStep
<1>3. CASE AccountDeleted
  BY <1>3, CallsSameInv DEF AccountDeleted, history
<1>4. CASE Logout
  BY <1>4, CallsSameInv DEF Logout
<1>5. CASE Expire
  BY <1>5, CallsSameInv DEF Expire
<1>6. CASE HandleExpiredTokens
  BY <1>6, CallsSameInv DEF HandleExpiredTokens
<1>7. CASE UNCHANGED vars
  BY <1>7, CallsSameInv DEF vars, history
<1> QED
  BY <1>1, <1>2, <1>3, <1>4, <1>5, <1>6, <1>7 DEF Next

LEMMA InitInv == Init => KeysInv
  BY DEF Init, KeysInv, KeysType, KeysOrdered, InsertsNew, FirstSpared, KeyRemains, NoCall, Call

\* An account that was ever given a key keeps an active one until a removal invalidates
\* its keys, whatever calls look for duplicates at once (getActiveApiKeyForAccount), for
\* any number of accounts, calls and keys: no call is about to deactivate the first key.
THEOREM KeyRemainsAlways == Spec => []KeyRemains
<1>1. KeysInv => KeyRemains
  BY DEF KeysInv
<1> QED
  BY <1>1, InitInv, NextInv, PTL DEF Spec

-----------------------------------------------------------------------------
(* Types *)

Signed == {"update", "prune", "access", "create", "find", "rotate", "drop", "renew"}
Owning == {"key", "list", "dedupe", "owner", "insert", "tokens", "delete", "renew", "keys",
           "invalidate", "gone"}

CallSet == [pc : {"idle", "fallback", "accounts", "account", "find", "update", "prune", "access",
                  "create", "lookup", "rotate", "drop", "key", "list", "dedupe", "owner",
                  "insert", "tokens", "renew", "delete", "keys", "invalidate", "gone"},
            account : AccountsOrNone, doc : 0 .. MaxTokens, val : Nat, back : 0 .. MaxTokens,
            doomed : SUBSET Nat]

\* What a call has in hand at each await, for an account of B where it works on one.
Sound(c, B) ==
    /\ c \in CallSet
    /\ c.pc = "fallback" => c.back # 0
    /\ c.pc \in Signed => c.val \in 1 .. MaxTokens
    /\ c.pc = "insert" => c.val \in 1 .. MaxKeys
    /\ c.pc \in Owning => c.account \in B

RefreshDocs == [id : 1 .. MaxTokens, val : 1 .. MaxTokens,
                account : AccountsOrNone, expired : BOOLEAN]

\* The inductive invariant: the types, and the types of what each call will write.
DocsTyped ==
    /\ accounts \subseteq born /\ leaving \subseteq born /\ born \subseteq Accounts
    /\ access \subseteq AccountsOrNone
    /\ refresh \subseteq RefreshDocs
    /\ keys \subseteq [id : 1 .. MaxKeys, account : Accounts, active : BOOLEAN]
    /\ signed \in 0 .. MaxTokens /\ created \in 0 .. MaxKeys
HistoryTyped ==
    /\ alone \in Procs \cup {None} /\ returned \in 0 .. MaxTokens
    /\ doubtful \in 0 .. MaxTokens
    /\ forgotten \subseteq born /\ invalidated \subseteq born
CallsSound == calls = [p \in Procs |-> calls[p]] /\ \A p \in Procs : Sound(calls[p], born)
TypeInv == DocsTyped /\ HistoryTyped /\ CallsSound

LEMMA CreateTyped ==
    ASSUME TypeInv, NEW val \in 1 .. MaxTokens, NEW a \in AccountsOrNone, Create(val, a)
    PROVE  refresh' \subseteq RefreshDocs
<1>1. RefreshDoc(val, val, a) \in RefreshDocs
  BY DEF RefreshDoc, RefreshDocs
<1> QED
  BY <1>1 DEF TypeInv, DocsTyped, Create

LEMMA ReplaceTyped ==
    ASSUME TypeInv, NEW id, NEW val \in 1 .. MaxTokens, NEW a \in AccountsOrNone,
           Replace(id, val, a)
    PROVE  refresh' \subseteq RefreshDocs
<1>1. ASSUME NEW e \in refresh'
      PROVE  e \in RefreshDocs
  <2>1. PICK d \in refresh : e = IF d.id = id THEN RefreshDoc(id, val, a) ELSE d
    BY DEF Replace
  <2>2. d \in RefreshDocs
    BY DEF TypeInv, DocsTyped
  <2>3. d.id \in 1 .. MaxTokens
    BY <2>2 DEF RefreshDocs
  <2> QED
    BY <2>1, <2>2, <2>3 DEF RefreshDoc, RefreshDocs
<1> QED
  BY <1>1

\* A call that moves keeps what it has in hand sound, and every other call too.
LEMMA MoveTyped ==
    ASSUME CallsSound, NEW p \in Procs, NEW c, Set(p, c), Sound(c, born'),
           born \subseteq born'
    PROVE  CallsSound'
<1>1. calls' = [q \in Procs |-> IF q = p THEN c ELSE calls[q]]
  BY DEF CallsSound, Set
<1>2. ASSUME NEW q \in Procs
      PROVE  Sound(calls'[q], born')
  <2>1. CASE q = p
    <3>1. calls'[q] = c
      BY <1>1, <2>1
    <3> QED
      BY <3>1
  <2>2. CASE q # p
    <3>1. calls'[q] = calls[q] /\ Sound(calls[q], born)
      BY <1>1, <2>2 DEF CallsSound
    <3> QED
      BY <3>1 DEF Sound
  <2> QED
    BY <2>1, <2>2
<1> QED
  BY <1>1, <1>2 DEF CallsSound

LEMMA NoCallSound == Sound(NoCall, born')
  BY AccessAssumption DEF NoCall, Call, Sound, CallSet, Signed, Owning, AccountsOrNone

LEMMA GotoTyped ==
    ASSUME CallsSound, NEW p \in Procs, NEW pc, Goto(p, pc), born' = born,
           pc \in {"accounts", "create", "prune", "access", "drop", "owner", "delete", "keys",
                   "invalidate", "gone"},
           pc \in Signed => calls[p].pc \in Signed,
           pc \in Owning => calls[p].pc \in Owning
    PROVE  CallsSound'
<1> DEFINE c == calls[p]
           d == Call(pc, c.account, c.doc, c.val, c.back, c.doomed)
<1>1. Sound(c, born)
  BY DEF CallsSound
<1>2. Sound(d, born')
  BY <1>1 DEF Call, Sound, CallSet
<1>3. Set(p, d)
  BY DEF Goto
<1> HIDE DEF c, d
<1> QED
  BY <1>2, <1>3, MoveTyped

\* The rest of a step that leaves accounts, keys and their history alone.
LEMMA TokensTyped ==
    ASSUME TypeInv, UNCHANGED <<accounts, leaving, keys, created, born, forgotten, invalidated>>,
           access' \subseteq AccountsOrNone, refresh' \subseteq RefreshDocs,
           signed' \in 0 .. MaxTokens,
           alone' \in Procs \cup {None}, returned' \in 0 .. MaxTokens, CallsSound',
           UNCHANGED doubtful \/ doubtful' \in 0 .. MaxTokens
    PROVE  TypeInv'
  BY DEF TypeInv, DocsTyped, HistoryTyped

\* A call that ends returns a token it has signed, or none.
LEMMA ReturnTyped ==
    ASSUME TypeInv, NEW p \in Procs, NEW val \in 0 .. MaxTokens, Return(p, val), born' = born
    PROVE  CallsSound' /\ alone' \in Procs \cup {None} /\ returned' \in 0 .. MaxTokens
<1>1. CallsSound'
  BY NoCallSound, MoveTyped DEF TypeInv, Return
<1> QED
  BY <1>1 DEF TypeInv, HistoryTyped, Return

LEMMA BeginTyped ==
    ASSUME TypeInv, NEW p \in Procs, NEW c, Begin(p, c), Sound(c, born'), born \subseteq born',
           UNCHANGED <<access, refresh, keys, created>>, signed' \in 0 .. MaxTokens,
           accounts' \subseteq born', leaving' \subseteq born', born' \subseteq Accounts
    PROVE  TypeInv'
<1>1. CallsSound'
  BY MoveTyped DEF TypeInv, Begin
<1>2. HistoryTyped'
  BY AccessAssumption DEF TypeInv, HistoryTyped, Begin
<1> QED
  BY <1>1, <1>2 DEF TypeInv, DocsTyped

LEMMA RequestTyped ==
    ASSUME TypeInv, NEW p \in Procs, Request(p)
    PROVE  TypeInv'
<1>1. /\ accounts \subseteq born /\ leaving \subseteq born /\ born \subseteq Accounts
      /\ signed \in 0 .. MaxTokens /\ None \in AccountsOrNone
  BY DEF TypeInv, DocsTyped, AccountsOrNone
<1>2. ASSUME NEW pc \in {"fallback", "account", "lookup", "key", "list", "tokens"},
             NEW a \in AccountsOrNone, NEW val \in Nat, NEW back \in 0 .. MaxTokens,
             pc = "fallback" => back # 0, pc \in Owning => a \in born'
      PROVE  Sound(Call(pc, a, 0, val, back, {}), born')
  BY <1>2, AccessAssumption DEF Call, Sound, CallSet, Signed
<1>3. CASE Login(p)
  <2> DEFINE c == Call("fallback", None, 0, 0, signed', {})
  <2>1. signed' \in 1 .. MaxTokens /\ Begin(p, c)
    BY <1>1, <1>3, AccessAssumption DEF Login, Sign
  <2>2. Sound(c, born')
    BY <1>1, <1>2, <2>1 DEF Owning
  <2> HIDE DEF c
  <2> QED
    BY <1>1, <1>3, <2>1, <2>2, BeginTyped DEF Login
<1>4. CASE SelectAccount(p)
  <2>1. PICK a \in born : Begin(p, Call("account", a, 0, 0, 0, {}))
    BY <1>4 DEF SelectAccount
  <2>2. Sound(Call("account", a, 0, 0, 0, {}), born')
    BY <1>1, <1>2, AccessAssumption DEF Owning, AccountsOrNone
  <2> QED
    BY <1>1, <1>4, <2>1, <2>2, BeginTyped DEF SelectAccount, tokens
<1>5. CASE Refresh(p)
  <2>1. PICK v \in 1 .. signed : Begin(p, Call("lookup", None, 0, v, 0, {}))
    BY <1>5 DEF Refresh
  <2>2. Sound(Call("lookup", None, 0, v, 0, {}), born')
    BY <1>1, <1>2, AccessAssumption DEF Owning
  <2> QED
    BY <1>1, <1>5, <2>1, <2>2, BeginTyped DEF Refresh, tokens
<1>6. CASE Ready(p)
  <2>1. PICK a \in accounts \cup (Accounts \ born) :
          /\ accounts' = accounts \cup {a} /\ born' = born \cup {a}
          /\ Begin(p, Call("key", a, 0, 0, 0, {}))
    BY <1>6 DEF Ready
  <2>2. a \in born' /\ a \in AccountsOrNone
    BY <1>1, <2>1 DEF AccountsOrNone
  <2>3. Sound(Call("key", a, 0, 0, 0, {}), born')
    BY <1>2, <2>2, AccessAssumption
  <2> QED
    BY <1>1, <1>6, <2>1, <2>2, <2>3, BeginTyped DEF Ready, tokens
<1>7. CASE KeyRequest(p)
  <2>1. PICK a \in born, pc \in {"key", "list"} : Begin(p, Call(pc, a, 0, 0, 0, {}))
    BY <1>7 DEF KeyRequest
  <2>2. Sound(Call(pc, a, 0, 0, 0, {}), born')
    BY <1>1, <1>2, <1>7, AccessAssumption DEF KeyRequest, AccountsOrNone
  <2> QED
    BY <1>1, <1>7, <2>1, <2>2, BeginTyped DEF KeyRequest, tokens
<1>8. CASE DeleteAccountOnLogout(p)
  <2>1. PICK a \in accounts : /\ leaving' = leaving \cup {a}
                              /\ Begin(p, Call("tokens", a, 0, 0, 0, {}))
    BY <1>8 DEF DeleteAccountOnLogout
  <2>2. Sound(Call("tokens", a, 0, 0, 0, {}), born')
    BY <1>1, <1>2, <1>8, AccessAssumption DEF DeleteAccountOnLogout, AccountsOrNone
  <2> QED
    BY <1>1, <1>8, <2>1, <2>2, BeginTyped DEF DeleteAccountOnLogout, tokens
<1> QED
  BY <1>3, <1>4, <1>5, <1>6, <1>7, <1>8 DEF Request

\* A call that goes on with another token document or another token in hand.
LEMMA SetTyped ==
    ASSUME TypeInv, NEW p \in Procs, UNCHANGED <<born, alone, returned>>,
           NEW pc \in {"account", "find", "update", "rotate", "renew"},
           NEW a \in AccountsOrNone, NEW doc \in 0 .. MaxTokens, NEW val \in 0 .. MaxTokens,
           NEW back \in 0 .. MaxTokens, Set(p, Call(pc, a, doc, val, back, {})),
           pc \in Signed => val # 0, pc \in Owning => a \in born
    PROVE  CallsSound' /\ alone' \in Procs \cup {None} /\ returned' \in 0 .. MaxTokens
<1> DEFINE c == Call(pc, a, doc, val, back, {})
<1>1. c \in CallSet
  BY AccessAssumption DEF Call, CallSet
<1>2. Sound(c, born') /\ Set(p, c)
  BY <1>1, AccessAssumption DEF Call, Sound
<1> HIDE DEF c
<1>3. CallsSound'
  BY <1>2, MoveTyped DEF TypeInv
<1> QED
  BY <1>3 DEF TypeInv, HistoryTyped

LEMMA TokenStepTyped ==
    ASSUME TypeInv, NEW p \in Procs, TokenStep(p)
    PROVE  TypeInv'
<1> DEFINE c == calls[p]
<1>1. /\ Sound(c, born) /\ None \in AccountsOrNone
      /\ access \subseteq AccountsOrNone /\ refresh \subseteq RefreshDocs
      /\ accounts \subseteq AccountsOrNone /\ signed \in 0 .. MaxTokens
      /\ alone \in Procs \cup {None} /\ returned \in 0 .. MaxTokens
  BY DEF TypeInv, DocsTyped, HistoryTyped, CallsSound, AccountsOrNone
<1>2. /\ c.account \in AccountsOrNone /\ c.back \in 0 .. MaxTokens /\ c.doc \in 0 .. MaxTokens
      /\ 0 \in 0 .. MaxTokens
      /\ c.pc \in Signed => c.val \in 1 .. MaxTokens
      /\ c.pc = "fallback" => c.back \in 1 .. MaxTokens
      /\ c.pc \in Owning => c.account \in born
  BY <1>1, AccessAssumption DEF Sound, CallSet
<1>3. ASSUME Sign
      PROVE  signed' \in 1 .. MaxTokens
  BY <1>1, <1>3, AccessAssumption DEF Sign
<1> HIDE DEF c
<1> USE DEF history, tokens, Signed, Owning
<1>4. ASSUME NEW pc, Goto(p, pc), UNCHANGED <<born, alone, returned>>,
             pc \in {"accounts", "create", "prune", "access", "drop", "delete", "keys",
                     "invalidate", "gone"},
             pc \in Signed => c.pc \in Signed,
             pc \in Owning => c.pc \in Owning
      PROVE  CallsSound' /\ alone' \in Procs \cup {None} /\ returned' \in 0 .. MaxTokens
  <2>1. CallsSound'
    BY <1>4, GotoTyped DEF TypeInv, c
  <2> QED
    BY <1>1, <1>4, <2>1
<1>5. CASE LoginFallback(p)
  <2>1. refresh' \subseteq RefreshDocs /\ access' \subseteq AccountsOrNone
    BY <1>1, <1>2, <1>5, CreateTyped DEF LoginFallback, c
  <2>2. c.pc = "fallback" /\ Goto(p, "accounts")
    BY <1>5 DEF LoginFallback, c
  <2> QED
    BY <1>1, <1>4, <1>5, <2>1, <2>2, TokensTyped DEF LoginFallback
<1>6. CASE LoginAccounts(p)
  <2>1. CallsSound' /\ alone' \in Procs \cup {None} /\ returned' \in 0 .. MaxTokens
    <3>1. CASE Return(p, c.back)
      BY <1>2, <1>6, <3>1, ReturnTyped DEF LoginAccounts
    <3>2. ASSUME NEW a \in accounts, Set(p, Call("account", a, 0, 0, c.back, {})),
                 UNCHANGED <<alone, returned>>
          PROVE  CallsSound' /\ alone' \in Procs \cup {None} /\ returned' \in 0 .. MaxTokens
      BY <1>1, <1>2, <1>6, <3>2, SetTyped DEF LoginAccounts
    <3> QED
      BY <1>6, <3>1, <3>2 DEF LoginAccounts, c
  <2> QED
    BY <1>1, <1>6, <2>1, TokensTyped DEF LoginAccounts
<1>7. CASE SelectCheck(p)
  <2>1. /\ CallsSound' /\ alone' \in Procs \cup {None} /\ returned' \in 0 .. MaxTokens
        /\ signed' \in 0 .. MaxTokens
    <3>1. CASE Return(p, c.back) /\ UNCHANGED signed
      BY <1>1, <1>2, <1>7, <3>1, ReturnTyped DEF SelectCheck
    <3>2. CASE /\ Sign /\ Set(p, Call("find", c.account, 0, signed', c.back, {}))
               /\ UNCHANGED <<alone, returned>>
      <4>1. signed' \in 0 .. MaxTokens /\ signed' # 0
        BY <1>3, <3>2
      <4> QED
        BY <1>2, <1>7, <3>2, <4>1, SetTyped DEF SelectCheck
    <3> QED
      BY <1>7, <3>1, <3>2 DEF SelectCheck, c
  <2> QED
    BY <1>1, <1>7, <2>1, TokensTyped DEF SelectCheck
<1>8. CASE SelectFind(p)
  <2>1. CallsSound' /\ alone' \in Procs \cup {None} /\ returned' \in 0 .. MaxTokens
    <3>1. CASE Goto(p, "create")
      BY <1>4, <1>8, <3>1 DEF SelectFind, c
    <3>2. ASSUME NEW d \in refresh, Set(p, Call("update", c.account, d.id, c.val, c.back, {}))
          PROVE  CallsSound' /\ alone' \in Procs \cup {None} /\ returned' \in 0 .. MaxTokens
      <4>1. d.id \in 0 .. MaxTokens /\ c.val \in 0 .. MaxTokens /\ c.val # 0
        BY <1>1, <1>2, <1>8 DEF RefreshDocs, SelectFind, c
      <4> QED
        BY <1>2, <1>8, <3>2, <4>1, SetTyped DEF SelectFind
    <3> QED
      BY <1>8, <3>1, <3>2 DEF SelectFind, c
  <2> QED
    BY <1>1, <1>8, <2>1, TokensTyped DEF SelectFind
<1>9. CASE SelectUpdate(p)
  <2>1. refresh' \subseteq RefreshDocs
    BY <1>2, <1>9, ReplaceTyped DEF SelectUpdate, c
  <2>2. c.pc = "update" /\ Goto(p, "prune")
    BY <1>9 DEF SelectUpdate, c
  <2> QED
    BY <1>1, <1>4, <1>9, <2>1, <2>2, TokensTyped DEF SelectUpdate
<1>10. CASE SelectPrune(p)
  <2>1. refresh' \subseteq RefreshDocs
    BY <1>1, <1>10 DEF SelectPrune, Prune
  <2>2. c.pc = "prune" /\ Goto(p, "access")
    BY <1>10 DEF SelectPrune, c
  <2> QED
    BY <1>1, <1>4, <1>10, <2>1, <2>2, TokensTyped DEF SelectPrune
<1>11. CASE SelectAccess(p)
  <2>1. c.pc = "access" /\ Return(p, c.val) /\ c.val \in 0 .. MaxTokens
        /\ access' \subseteq AccountsOrNone
    BY <1>1, <1>2, <1>11 DEF SelectAccess, c
  <2> QED
    BY <1>1, <1>11, <2>1, ReturnTyped, TokensTyped DEF SelectAccess
<1>12. CASE SelectCreate(p)
  <2>1. c.pc = "create" /\ Return(p, c.val) /\ c.val \in 0 .. MaxTokens
        /\ access' \subseteq AccountsOrNone /\ Create(c.val, c.account)
    BY <1>1, <1>2, <1>12 DEF SelectCreate, c
  <2>2. refresh' \subseteq RefreshDocs
    BY <1>2, <2>1, CreateTyped
  <2> QED
    BY <1>1, <1>12, <2>1, <2>2, ReturnTyped, TokensTyped DEF SelectCreate
<1>13. CASE RefreshLookup(p)
  <2>1. /\ CallsSound' /\ alone' \in Procs \cup {None} /\ returned' \in 0 .. MaxTokens
        /\ signed' \in 0 .. MaxTokens
    <3>1. CASE End(p) /\ UNCHANGED signed
      BY <1>1, <1>2, <1>13, <3>1, ReturnTyped DEF RefreshLookup, End
    <3>2. ASSUME NEW d \in refresh, Sign,
                 Set(p, Call("rotate", d.account, d.id, signed', 0, {})),
                 UNCHANGED <<alone, returned>>
          PROVE  /\ CallsSound' /\ alone' \in Procs \cup {None} /\ returned' \in 0 .. MaxTokens
                 /\ signed' \in 0 .. MaxTokens
      <4>1. signed' \in 0 .. MaxTokens /\ signed' # 0
        BY <1>3, <3>2
      <4>2. d.id \in 0 .. MaxTokens /\ d.account \in AccountsOrNone
        BY <1>1 DEF RefreshDocs
      <4> QED
        BY <1>2, <1>13, <3>2, <4>1, <4>2, SetTyped DEF RefreshLookup
    <3> QED
      BY <1>13, <3>1, <3>2 DEF RefreshLookup, c
  <2> QED
    BY <1>1, <1>13, <2>1, TokensTyped DEF RefreshLookup
<1>14. CASE RefreshRotate(p)
  <2>1. refresh' \subseteq RefreshDocs /\ access' \subseteq AccountsOrNone
    BY <1>1, <1>2, <1>14, ReplaceTyped DEF RefreshRotate, c
  <2>2. c.pc = "rotate" /\ Goto(p, "drop")
    BY <1>14 DEF RefreshRotate, c
  <2> QED
    BY <1>1, <1>4, <1>14, <2>1, <2>2, TokensTyped DEF RefreshRotate
<1>15. CASE RefreshDrop(p)
  <2>1. c.pc = "drop" /\ Return(p, c.val) /\ c.val \in 0 .. MaxTokens
        /\ refresh' \subseteq RefreshDocs
    BY <1>1, <1>2, <1>15 DEF RefreshDrop, Prune, c
  <2> QED
    BY <1>1, <1>15, <2>1, ReturnTyped, TokensTyped DEF RefreshDrop
<1>16. CASE RemoveFind(p)
  <2>1. /\ CallsSound' /\ alone' \in Procs \cup {None} /\ returned' \in 0 .. MaxTokens
        /\ signed' \in 0 .. MaxTokens
    <3>1. CASE Goto(p, "gone") /\ UNCHANGED signed
      BY <1>1, <1>4, <1>16, <3>1 DEF RemoveFind, c
    <3>2. CASE Sign /\ Set(p, Call("renew", c.account, 0, signed', 0, {}))
      <4>1. signed' \in 0 .. MaxTokens /\ signed' # 0 /\ c.account \in born
        BY <1>2, <1>3, <1>16, <3>2 DEF RemoveFind, c
      <4> QED
        BY <1>2, <1>16, <3>2, <4>1, SetTyped DEF RemoveFind
    <3> QED
      BY <1>16, <3>1, <3>2 DEF RemoveFind, c
  <2> QED
    BY <1>1, <1>16, <2>1, TokensTyped DEF RemoveFind
<1>17. CASE RemoveRenew(p)
  <2>1. refresh' \subseteq RefreshDocs /\ access' \subseteq AccountsOrNone
    BY <1>1, <1>2, <1>17, CreateTyped DEF RemoveRenew, c
  <2>2. c.pc = "renew" /\ Goto(p, "delete")
    BY <1>17 DEF RemoveRenew, c
  <2> QED
    BY <1>1, <1>4, <1>17, <2>1, <2>2, TokensTyped DEF RemoveRenew
<1>18. CASE RemoveDelete(p)
  <2>1. refresh' \subseteq RefreshDocs /\ access' \subseteq AccountsOrNone
    BY <1>1, <1>18 DEF RemoveDelete
  <2>2. c.pc = "delete" /\ Goto(p, "keys")
    BY <1>18 DEF RemoveDelete, c
  <2> QED
    BY <1>1, <1>4, <1>18, <2>1, <2>2, TokensTyped DEF RemoveDelete
<1>19. CASE RemoveKeys(p)
  <2>1. \E pc \in {"gone", "invalidate"} : c.pc = "keys" /\ Goto(p, pc)
    BY <1>19 DEF RemoveKeys, c
  <2>2. CallsSound' /\ alone' \in Procs \cup {None} /\ returned' \in 0 .. MaxTokens
    BY <1>4, <1>19, <2>1 DEF RemoveKeys
  <2> QED
    BY <1>1, <1>19, <2>2, TokensTyped DEF RemoveKeys
<1>20. CASE RemoveDone(p)
  <2>1. c.pc = "gone" /\ Return(p, 0) /\ UNCHANGED born
    BY <1>20 DEF RemoveDone, End, c
  <2>2. CallsSound' /\ alone' \in Procs \cup {None} /\ returned' \in 0 .. MaxTokens
    BY <1>2, <2>1, ReturnTyped
  <2>3. forgotten' \subseteq born'
    BY <1>2, <1>20, <2>1 DEF RemoveDone, c, TypeInv, HistoryTyped
  <2> QED
    BY <1>20, <2>2, <2>3 DEF RemoveDone, TypeInv, DocsTyped, HistoryTyped
<1>21. CASE Fail(p)
  <2>1. refresh' \subseteq RefreshDocs
    <3>1. CASE UNCHANGED refresh
      BY <1>1, <3>1
    <3>2. CASE c.pc = "fallback" /\ Create(c.back, None)
      BY <1>1, <1>2, <3>2, CreateTyped
    <3>3. CASE \/ c.pc = "create" /\ Create(c.val, c.account)
               \/ c.pc = "renew" /\ Create(c.val, None)
      BY <1>1, <1>2, <3>3, CreateTyped
    <3>4. CASE c.pc = "rotate" /\ Replace(c.doc, c.val, c.account)
      BY <1>2, <3>4, ReplaceTyped
    <3> QED
      BY <1>21, <3>1, <3>2, <3>3, <3>4 DEF Fail, c
  <2>2. access' \subseteq AccountsOrNone
    BY <1>1, <1>2, <1>21 DEF Fail, c
  <2>3. CallsSound' /\ alone' \in Procs \cup {None} /\ returned' \in 0 .. MaxTokens
    <3>1. c.back \in 0 .. MaxTokens /\ 0 \in 0 .. MaxTokens
      BY <1>2
    <3>2. Return(p, 0) \/ Return(p, c.back)
      BY <1>21 DEF Fail, End, c
    <3>3. born' = born
      BY <1>21 DEF Fail
    <3> QED
      BY <3>1, <3>2, <3>3, ReturnTyped
  <2>4. doubtful' \in 0 .. MaxTokens
    BY <1>2, <1>21 DEF Fail, c
  <2>5. /\ UNCHANGED <<accounts, leaving, keys, created, born, forgotten, invalidated>>
        /\ signed' \in 0 .. MaxTokens
    BY <1>1, <1>21 DEF Fail
  <2> QED
    BY <2>1, <2>2, <2>3, <2>4, <2>5, TokensTyped
<1> QED
  BY <1>5, <1>6, <1>7, <1>8, <1>9, <1>10, <1>11, <1>12, <1>13, <1>14, <1>15, <1>16, <1>17,
     <1>18, <1>19, <1>20, <1>21 DEF TokenStep

KeySet == [id : 1 .. MaxKeys, account : Accounts, active : BOOLEAN]

\* A key that is deactivated, or not, is a key.
LEMMA KeyTyped ==
    ASSUME NEW k \in KeySet, NEW b
    PROVE  Key(k.id, k.account, k.active /\ b) \in KeySet
<1>1. (k.active /\ b) \in BOOLEAN
  OBVIOUS
<1>2. \A x \in BOOLEAN : Key(k.id, k.account, x) \in KeySet
  BY DEF Key, KeySet
<1> QED
  BY <1>1, <1>2

LEMMA KeyStepTyped ==
    ASSUME TypeInv, NEW p \in Procs,
           KeyFind(p) \/ KeyDedupe(p) \/ KeyOwner(p) \/ KeyInsert(p) \/ RemoveInvalidate(p)
    PROVE  TypeInv'
<1> DEFINE c == calls[p]
           K == ActiveKeys(c.account)
<1>1. /\ Sound(c, born) /\ None \in AccountsOrNone /\ 0 \in 0 .. MaxTokens
      /\ accounts \subseteq born /\ born \subseteq Accounts /\ created \in 0 .. MaxKeys
      /\ keys \subseteq KeySet
  BY AccessAssumption DEF TypeInv, DocsTyped, CallsSound, AccountsOrNone, KeySet
<1>2. c.account \in AccountsOrNone /\ (c.pc \in Owning => c.account \in born)
  BY <1>1 DEF Sound, CallSet
<1>3. ASSUME NEW d, Sound(d, born), Set(p, d), born' = born
      PROVE  CallsSound'
  BY <1>3, MoveTyped DEF TypeInv
<1>4. ASSUME UNCHANGED <<accounts, leaving, tokens, born, doubtful, forgotten>>, CallsSound',
             alone' \in Procs \cup {None}, returned' \in 0 .. MaxTokens,
             created' \in 0 .. MaxKeys, invalidated' \subseteq born,
             keys' \subseteq KeySet
      PROVE  TypeInv'
  BY <1>4 DEF TypeInv, DocsTyped, HistoryTyped, tokens, KeySet
<1>5. alone \in Procs \cup {None} /\ returned \in 0 .. MaxTokens /\ invalidated \subseteq born
  BY DEF TypeInv, HistoryTyped
<1>6. ASSUME End(p), born' = born
      PROVE  CallsSound' /\ alone' \in Procs \cup {None} /\ returned' \in 0 .. MaxTokens
  BY <1>1, <1>6, ReturnTyped DEF End
<1>7. CASE KeyFind(p)
  <2>1. CallsSound' /\ alone' \in Procs \cup {None} /\ returned' \in 0 .. MaxTokens
    <3>1. CASE /\ Set(p, Call("dedupe", c.account, 0, 0, 0, {k.id : k \in Duplicates(K)}))
               /\ UNCHANGED <<alone, returned>>
      <4> DEFINE d == Call("dedupe", c.account, 0, 0, 0, {k.id : k \in Duplicates(K)})
      <4>1. {k.id : k \in Duplicates(K)} \in SUBSET Nat
        <5>1. Duplicates(K) \subseteq keys
          BY DEF Duplicates, ActiveKeys
        <5>2. \A k \in keys : k.id \in Nat
          BY <1>1, AccessAssumption DEF KeySet
        <5> HIDE DEF K
        <5> QED
          BY <5>1, <5>2
      <4>2. c.account \in born
        BY <1>2, <1>7 DEF KeyFind, Owning, c
      <4>3. Sound(d, born) /\ Set(p, d)
        BY <1>1, <1>2, <3>1, <4>1, <4>2 DEF Call, Sound, CallSet, Signed
      <4> HIDE DEF d
      <4> QED
        BY <1>3, <1>5, <1>7, <3>1, <4>3 DEF KeyFind
    <3>2. CASE c.pc = "key" /\ Goto(p, "owner") /\ UNCHANGED <<alone, returned>>
      <4>1. CallsSound'
        BY <1>7, <3>2, GotoTyped DEF KeyFind, TypeInv, Signed, Owning, c
      <4> QED
        BY <1>5, <3>2, <4>1
    <3>3. CASE End(p)
      BY <1>6, <1>7, <3>3 DEF KeyFind
    <3> QED
      BY <1>7, <3>1, <3>2, <3>3 DEF KeyFind
  <2> QED
    BY <1>1, <1>4, <1>5, <1>7, <2>1 DEF KeyFind
<1>8. CASE KeyDedupe(p)
  <2>1. keys' \subseteq KeySet
    <3>1. \A e \in keys' : \E k \in keys : e = Key(k.id, k.account, k.active /\ k.id \notin c.doomed)
      BY <1>8 DEF KeyDedupe, c
    <3> QED
      BY <1>1, <3>1, KeyTyped
  <2> QED
    BY <1>1, <1>4, <1>5, <1>6, <1>8, <2>1 DEF KeyDedupe
<1>9. CASE KeyOwner(p)
  <2>1. /\ CallsSound' /\ alone' \in Procs \cup {None} /\ returned' \in 0 .. MaxTokens
        /\ created' \in 0 .. MaxKeys
    <3>1. CASE /\ created < MaxKeys /\ created' = created + 1
               /\ Set(p, Call("insert", c.account, 0, created', 0, {}))
               /\ UNCHANGED <<alone, returned>>
      <4> DEFINE d == Call("insert", c.account, 0, created', 0, {})
      <4>1. created' \in 1 .. MaxKeys
        BY <1>1, <3>1, AccessAssumption
      <4>2. c.account \in born
        BY <1>2, <1>9 DEF KeyOwner, Owning, c
      <4>3. Sound(d, born) /\ Set(p, d)
        BY <1>1, <1>2, <3>1, <4>1, <4>2 DEF Call, Sound, CallSet, Signed
      <4>4. created' \in 0 .. MaxKeys
        BY <4>1
      <4> HIDE DEF d
      <4> QED
        BY <1>3, <1>5, <1>9, <3>1, <4>3, <4>4 DEF KeyOwner
    <3>2. CASE End(p) /\ UNCHANGED created
      BY <1>1, <1>6, <1>9, <3>2 DEF KeyOwner
    <3> QED
      BY <1>9, <3>1, <3>2 DEF KeyOwner
  <2> QED
    BY <1>1, <1>4, <1>5, <1>9, <2>1 DEF KeyOwner
<1>10. CASE KeyInsert(p)
  <2>1. c.account \in Accounts /\ c.val \in 1 .. MaxKeys
    BY <1>1, <1>10 DEF KeyInsert, Sound, Owning, c
  <2>2. keys' \subseteq KeySet
    <3>1. Key(c.val, c.account, TRUE) \in KeySet
      BY <2>1 DEF Key, KeySet
    <3> QED
      BY <1>1, <1>10, <3>1 DEF KeyInsert, c
  <2> QED
    BY <1>1, <1>4, <1>5, <1>6, <1>10, <2>2 DEF KeyInsert
<1>11. CASE RemoveInvalidate(p)
  <2>1. c.account \in born
    BY <1>2, <1>11 DEF RemoveInvalidate, Owning
  <2>2. keys' \subseteq KeySet
    <3>1. \A e \in keys' : \E k \in keys : e = Key(k.id, k.account, k.active /\ k.account # c.account)
      BY <1>11 DEF RemoveInvalidate, c
    <3> QED
      BY <1>1, <3>1, KeyTyped
  <2>3. CallsSound'
    BY <1>11, GotoTyped DEF RemoveInvalidate, TypeInv, Signed, Owning
  <2> QED
    BY <1>1, <1>4, <1>5, <1>11, <2>1, <2>2, <2>3 DEF RemoveInvalidate
<1> QED
  BY <1>7, <1>8, <1>9, <1>10, <1>11

LEMMA EnvironmentTyped ==
    ASSUME TypeInv, AccountDeleted \/ Logout \/ Expire \/ HandleExpiredTokens \/ UNCHANGED vars
    PROVE  TypeInv'
<1>1. CallsSound' /\ alone' \in Procs \cup {None} /\ returned' \in 0 .. MaxTokens
  <2>1. UNCHANGED <<calls, born>>
    BY DEF AccountDeleted, Logout, Expire, HandleExpiredTokens, vars
  <2>2. CallsSound'
    BY <2>1 DEF TypeInv, CallsSound
  <2>3. alone' \in {alone, None} /\ returned' \in {returned, 0}
    BY DEF AccountDeleted, Logout, Expire, HandleExpiredTokens, vars, history, Disturb
  <2> QED
    BY <2>2, <2>3, AccessAssumption DEF TypeInv, HistoryTyped
<1>2. CASE AccountDeleted
  BY <1>1, <1>2 DEF AccountDeleted, tokens, history, TypeInv, DocsTyped, HistoryTyped
<1>3. CASE Logout
  BY <1>1, <1>3 DEF Logout, TypeInv, DocsTyped, HistoryTyped
<1>4. CASE Expire
  <2>1. PICK d \in refresh : refresh' = (refresh \ {d}) \cup {[d EXCEPT !.expired = TRUE]}
    BY <1>4 DEF Expire
  <2>2. [d EXCEPT !.expired = TRUE] \in RefreshDocs
    BY DEF TypeInv, DocsTyped, RefreshDocs
  <2>3. refresh' \subseteq RefreshDocs
    BY <2>1, <2>2 DEF TypeInv, DocsTyped
  <2> QED
    BY <1>1, <1>4, <2>3 DEF Expire, TypeInv, DocsTyped, HistoryTyped
<1>5. CASE HandleExpiredTokens
  BY <1>1, <1>5 DEF HandleExpiredTokens, TypeInv, DocsTyped, HistoryTyped
<1>6. CASE UNCHANGED vars
  BY <1>1, <1>6 DEF vars, tokens, history, TypeInv, DocsTyped, HistoryTyped
<1> QED
  BY <1>2, <1>3, <1>4, <1>5, <1>6

LEMMA AlwaysTyped == Spec => []TypeInv
<1>1. Init => TypeInv
  <2> SUFFICES ASSUME Init
               PROVE  TypeInv
    OBVIOUS
  <2>1. Sound(NoCall, born)
    BY AccessAssumption DEF NoCall, Call, Sound, CallSet, Signed, Owning, AccountsOrNone
  <2>2. CallsSound
    BY <2>1 DEF Init, CallsSound
  <2> QED
    BY <2>2, AccessAssumption DEF Init, TypeInv, DocsTyped, HistoryTyped
<1>2. TypeInv /\ [Next]_vars => TypeInv'
  BY RequestTyped, TokenStepTyped, KeyStepTyped, EnvironmentTyped DEF Next, Proceed, TokenStep
<1> QED
  BY <1>1, <1>2, PTL DEF Spec

\* Documents, keys and the calls of one user always have their types, for any number of
\* accounts, calls, tokens and keys.
THEOREM TypeCorrect == Spec => []TypeOK
<1>1. TypeInv => TypeOK
  <2> SUFFICES ASSUME TypeInv
               PROVE  TypeOK
    OBVIOUS
  <2>1. CallsTyped
    BY DEF TypeInv, CallsSound, Sound, CallSet, CallsTyped
  <2> QED
    BY <2>1 DEF TypeInv, DocsTyped, HistoryTyped, RefreshDocs, TypeOK
<1> QED
  BY <1>1, AlwaysTyped, PTL

-----------------------------------------------------------------------------
(* The token that an undisturbed call returns *)

Stored(val, R) == \E d \in R : d.val = val /\ ~d.expired

\* What a call needs of the refresh token documents R to return a token that works.
OnTrack(c, R) ==
    /\ c.pc = "accounts" => Stored(c.back, R)
    /\ c.pc \in {"account", "find", "create", "update"} /\ c.back # 0 => Stored(c.back, R)
    /\ c.pc \in {"update", "rotate"} => \E d \in R : d.id = c.doc
    /\ c.pc \in {"prune", "drop"} => \E d \in R : d.id = c.doc /\ d.val = c.val /\ ~d.expired
    /\ c.pc = "access" => Stored(c.val, R)

\* The inductive invariant: the call that has overlapped no other is on track, and
\* nothing has begun since a token was returned.
SoloInv ==
    /\ \A p \in Procs : alone = p => OnTrack(calls[p], refresh) /\ \A q \in Procs \ {p} : Idle(q)
    /\ returned # 0 => (returned = doubtful \/ Stored(returned, refresh)) /\ \A q \in Procs : Idle(q)

Tracked == {"accounts", "account", "find", "create", "update", "rotate", "prune", "drop", "access"}

LEMMA Untracked == ASSUME NEW c, NEW R, c.pc \notin Tracked PROVE OnTrack(c, R)
  BY DEF OnTrack, Tracked

LEMMA Busy == ASSUME NEW p \in Procs, calls[p].pc # "idle" PROVE ~Idle(p)
  BY DEF Idle, NoCall, Call

\* A call that ends well has stored the token it returns.
LEMMA SoloReturn ==
    ASSUME TypeInv, SoloInv, NEW p \in Procs, ~Idle(p), NEW val, Return(p, val),
           alone = p /\ val # 0 => val = doubtful' \/ Stored(val, refresh')
    PROVE  SoloInv'
<1>1. returned = 0 /\ (\A q \in Procs : alone = q => q = p)
  BY DEF SoloInv
<1>2. calls' = [q \in Procs |-> IF q = p THEN NoCall ELSE calls[q]]
  BY DEF TypeInv, CallsSound, Return, Set
<1>3. \A q \in Procs : alone' # q
  BY <1>1, AccessAssumption DEF Return
<1>4. ASSUME alone = p
      PROVE  \A q \in Procs : Idle(q)'
  BY <1>2, <1>4 DEF SoloInv, Idle
<1>5. returned' = IF alone = p THEN val ELSE 0
  BY <1>1 DEF Return
<1> QED
  BY <1>3, <1>4, <1>5 DEF SoloInv

LEMMA SoloMove ==
    ASSUME TypeInv, SoloInv, NEW p \in Procs, calls[p].pc # "idle", NEW c, Set(p, c),
           UNCHANGED <<alone, returned>>, alone = p => OnTrack(c, refresh')
    PROVE  SoloInv'
<1>1. ~Idle(p) /\ returned = 0 /\ (\A q \in Procs : alone = q => q = p)
  BY DEF SoloInv, Idle, NoCall, Call
<1>2. calls' = [q \in Procs |-> IF q = p THEN c ELSE calls[q]]
  BY DEF TypeInv, CallsSound, Set
<1>3. ASSUME alone = p
      PROVE  OnTrack(calls'[p], refresh') /\ \A q \in Procs \ {p} : Idle(q)'
  <2>1. calls'[p] = c /\ \A q \in Procs \ {p} : calls'[q] = calls[q]
    BY <1>2
  <2> QED
    BY <1>3, <2>1 DEF SoloInv, Idle
<1> QED
  BY <1>1, <1>3 DEF SoloInv

\* A call that begins has nothing in hand; another one in progress is no longer alone.
LEMMA SoloBegin ==
    ASSUME TypeInv, NEW p \in Procs, NEW c, Begin(p, c), OnTrack(c, refresh')
    PROVE  SoloInv'
<1>1. calls' = [q \in Procs |-> IF q = p THEN c ELSE calls[q]] /\ returned' = 0
  BY DEF TypeInv, CallsSound, Begin, Set
<1>2. CASE \A q \in Procs : Idle(q)
  <2>1. alone' = p
    BY <1>2 DEF Begin
  <2>2. calls'[p] = c /\ \A q \in Procs \ {p} : Idle(q)'
    BY <1>1, <1>2 DEF Idle
  <2> QED
    BY <1>1, <2>1, <2>2 DEF SoloInv
<1>3. CASE ~\A q \in Procs : Idle(q)
  <2>1. alone' = None
    BY <1>3 DEF Begin
  <2> QED
    BY <1>1, <2>1, AccessAssumption DEF SoloInv
<1> QED
  BY <1>2, <1>3

LEMMA RequestSolo ==
    ASSUME TypeInv, NEW p \in Procs, Request(p)
    PROVE  SoloInv'
<1>1. ASSUME NEW pc \in {"fallback", "account", "lookup", "key", "list", "tokens"},
             NEW a, NEW val, NEW back, pc = "account" => back = 0,
             Begin(p, Call(pc, a, 0, val, back, {}))
      PROVE  SoloInv'
  <2> DEFINE c == Call(pc, a, 0, val, back, {})
  <2>1. OnTrack(c, refresh') /\ Begin(p, c)
    BY <1>1 DEF Call, OnTrack
  <2> HIDE DEF c
  <2> QED
    BY <2>1, SoloBegin
<1>2. CASE Login(p) \/ Refresh(p)
  BY <1>1, <1>2 DEF Login, Refresh
<1>3. CASE SelectAccount(p)
  BY <1>1, <1>3 DEF SelectAccount
<1>4. CASE Ready(p) \/ KeyRequest(p)
  BY <1>1, <1>4 DEF Ready, KeyRequest
<1>5. CASE DeleteAccountOnLogout(p)
  BY <1>1, <1>5 DEF DeleteAccountOnLogout
<1> QED
  BY <1>2, <1>3, <1>4, <1>5 DEF Request

LEMMA ReplaceStores ==
    ASSUME NEW id, NEW val, NEW a, Replace(id, val, a), \E d \in refresh : d.id = id
    PROVE  \E d \in refresh' : d.id = id /\ d.val = val /\ ~d.expired
<1>1. RefreshDoc(id, val, a) \in refresh'
  BY DEF Replace
<1> QED
  BY <1>1 DEF RefreshDoc

LEMMA CreateStores ==
    ASSUME NEW val, NEW a, Create(val, a)
    PROVE  Stored(val, refresh')
<1>1. RefreshDoc(val, val, a) \in refresh'
  BY DEF Create
<1> QED
  BY <1>1 DEF RefreshDoc, Stored

LEMMA TokenStepSolo ==
    ASSUME TypeInv, SoloInv, NEW p \in Procs, TokenStep(p)
    PROVE  SoloInv'
<1> DEFINE c == calls[p]
<1>1. alone = p => OnTrack(c, refresh)
  BY DEF SoloInv
<1> HIDE DEF c
<1> USE DEF history, tokens
<1>2. ASSUME NEW pc, Goto(p, pc), c.pc # "idle", UNCHANGED <<alone, returned>>,
             alone = p => OnTrack(Call(pc, c.account, c.doc, c.val, c.back, c.doomed), refresh')
      PROVE  SoloInv'
  <2> DEFINE d == Call(pc, c.account, c.doc, c.val, c.back, c.doomed)
  <2>1. Set(p, d) /\ (alone = p => OnTrack(d, refresh')) /\ calls[p].pc # "idle"
    BY <1>2 DEF Goto, c
  <2> HIDE DEF d
  <2> QED
    BY <1>2, <2>1, SoloMove
<1>3. ASSUME NEW pc, Goto(p, pc), pc \notin Tracked, c.pc # "idle", UNCHANGED <<alone, returned>>
      PROVE  SoloInv'
  <2> DEFINE d == Call(pc, c.account, c.doc, c.val, c.back, c.doomed)
  <2>1. d.pc \notin Tracked
    BY <1>3 DEF Call
  <2> HIDE DEF d
  <2>2. OnTrack(d, refresh')
    BY <2>1, Untracked
  <2> QED
    BY <1>2, <1>3, <2>2 DEF d
<1>4. CASE LoginFallback(p)
  <2>1. c.pc = "fallback" /\ Create(c.back, None) /\ Goto(p, "accounts")
    BY <1>4 DEF LoginFallback, c
  <2>2. Stored(c.back, refresh')
    BY <2>1, CreateStores
  <2> QED
    BY <1>2, <1>4, <2>1, <2>2 DEF LoginFallback, OnTrack, Call
<1>5. CASE LoginAccounts(p)
  <2>1. c.pc = "accounts" /\ calls[p].pc # "idle" /\ refresh' = refresh
    BY <1>5 DEF LoginAccounts, c
  <2>2. alone = p => Stored(c.back, refresh')
    BY <1>1, <2>1 DEF OnTrack
  <2>3. ASSUME NEW a, Set(p, Call("account", a, 0, 0, c.back, {})), UNCHANGED <<alone, returned>>
        PROVE  SoloInv'
    <3> DEFINE d == Call("account", a, 0, 0, c.back, {})
    <3>1. Set(p, d) /\ (alone = p => OnTrack(d, refresh'))
      BY <2>2, <2>3 DEF OnTrack, Call
    <3> HIDE DEF d
    <3> QED
      BY <2>1, <2>3, <3>1, SoloMove
  <2>4. CASE Return(p, c.back)
    BY <2>1, <2>2, <2>4, Busy, SoloReturn
  <2> QED
    BY <1>5, <2>3, <2>4 DEF LoginAccounts, c
<1>6. CASE SelectCheck(p)
  <2>1. c.pc = "account" /\ calls[p].pc # "idle" /\ refresh' = refresh
    BY <1>6 DEF SelectCheck, c
  <2>2. CASE Return(p, c.back)
    <3>1. alone = p /\ c.back # 0 => Stored(c.back, refresh')
      BY <1>1, <2>1 DEF OnTrack
    <3> QED
      BY <2>1, <2>2, <3>1, Busy, SoloReturn
  <2>3. CASE Set(p, Call("find", c.account, 0, signed', c.back, {})) /\ UNCHANGED <<alone, returned>>
    <3> DEFINE d == Call("find", c.account, 0, signed', c.back, {})
    <3>1. Set(p, d) /\ (alone = p => OnTrack(d, refresh'))
      BY <1>1, <2>1, <2>3 DEF OnTrack, Call
    <3> HIDE DEF d
    <3> QED
      BY <2>1, <2>3, <3>1, SoloMove
  <2> QED
    BY <1>6, <2>2, <2>3 DEF SelectCheck, c
<1>7. CASE SelectFind(p)
  <2>1. c.pc = "find" /\ calls[p].pc # "idle" /\ refresh' = refresh /\ UNCHANGED <<alone, returned>>
    BY <1>7 DEF SelectFind, c
  <2>2. CASE Goto(p, "create")
    BY <1>1, <1>2, <2>1, <2>2 DEF OnTrack, Call
  <2>3. ASSUME NEW d \in refresh, Set(p, Call("update", c.account, d.id, c.val, c.back, {}))
        PROVE  SoloInv'
    <3> DEFINE e == Call("update", c.account, d.id, c.val, c.back, {})
    <3>1. Set(p, e) /\ (alone = p => OnTrack(e, refresh'))
      BY <1>1, <2>1, <2>3 DEF OnTrack, Call
    <3> HIDE DEF e
    <3> QED
      BY <2>1, <3>1, SoloMove
  <2> QED
    BY <1>7, <2>2, <2>3 DEF SelectFind, c
<1>8. CASE SelectUpdate(p)
  <2>1. c.pc = "update" /\ Replace(c.doc, c.val, c.account) /\ Goto(p, "prune")
    BY <1>8 DEF SelectUpdate, c
  <2>2. alone = p => \E d \in refresh' : d.id = c.doc /\ d.val = c.val /\ ~d.expired
    BY <1>1, <2>1, ReplaceStores DEF OnTrack
  <2> QED
    BY <1>2, <1>8, <2>1, <2>2 DEF SelectUpdate, OnTrack, Call
<1>9. CASE SelectPrune(p)
  <2>1. c.pc = "prune" /\ Prune(c.doc) /\ Goto(p, "access")
    BY <1>9 DEF SelectPrune, c
  <2>2. alone = p => Stored(c.val, refresh')
    BY <1>1, <2>1 DEF OnTrack, Prune, Stored
  <2> QED
    BY <1>2, <1>9, <2>1, <2>2 DEF SelectPrune, OnTrack, Call
<1>10. CASE SelectAccess(p)
  <2>1. c.pc = "access" /\ calls[p].pc # "idle" /\ refresh' = refresh /\ Return(p, c.val)
    BY <1>10 DEF SelectAccess, c
  <2>2. alone = p => Stored(c.val, refresh')
    BY <1>1, <2>1 DEF OnTrack
  <2> QED
    BY <2>1, <2>2, Busy, SoloReturn
<1>11. CASE SelectCreate(p)
  <2>1. calls[p].pc # "idle" /\ Create(c.val, c.account) /\ Return(p, c.val)
    BY <1>11 DEF SelectCreate, c
  <2> QED
    BY <2>1, CreateStores, Busy, SoloReturn
<1>12. CASE RefreshLookup(p)
  <2>1. calls[p].pc # "idle" /\ refresh' = refresh
    BY <1>12 DEF RefreshLookup
  <2>2. ASSUME NEW d \in refresh, Set(p, Call("rotate", d.account, d.id, signed', 0, {})),
               UNCHANGED <<alone, returned>>
        PROVE  SoloInv'
    <3> DEFINE e == Call("rotate", d.account, d.id, signed', 0, {})
    <3>1. Set(p, e) /\ OnTrack(e, refresh')
      BY <2>1, <2>2 DEF OnTrack, Call
    <3> HIDE DEF e
    <3> QED
      BY <2>1, <2>2, <3>1, SoloMove
  <2>3. CASE End(p)
    BY <2>1, <2>3, Busy, SoloReturn DEF End
  <2> QED
    BY <1>12, <2>2, <2>3 DEF RefreshLookup
<1>13. CASE RefreshRotate(p)
  <2>1. c.pc = "rotate" /\ Replace(c.doc, c.val, c.account) /\ Goto(p, "drop")
    BY <1>13 DEF RefreshRotate, c
  <2>2. alone = p => \E d \in refresh' : d.id = c.doc /\ d.val = c.val /\ ~d.expired
    BY <1>1, <2>1, ReplaceStores DEF OnTrack
  <2> QED
    BY <1>2, <1>13, <2>1, <2>2 DEF RefreshRotate, OnTrack, Call
<1>14. CASE RefreshDrop(p)
  <2>1. c.pc = "drop" /\ calls[p].pc # "idle" /\ Prune(c.doc) /\ Return(p, c.val)
    BY <1>14 DEF RefreshDrop, c
  <2>2. alone = p => Stored(c.val, refresh')
    BY <1>1, <2>1 DEF OnTrack, Prune, Stored
  <2> QED
    BY <2>1, <2>2, Busy, SoloReturn
<1>15. CASE RemoveFind(p)
  <2>1. c.pc # "idle" /\ calls[p].pc # "idle" /\ UNCHANGED <<alone, returned>>
    BY <1>15 DEF RemoveFind, c
  <2>2. CASE Goto(p, "gone")
    BY <1>3, <2>1, <2>2 DEF Tracked
  <2>3. CASE Set(p, Call("renew", c.account, 0, signed', 0, {}))
    <3> DEFINE e == Call("renew", c.account, 0, signed', 0, {})
    <3>1. Set(p, e) /\ OnTrack(e, refresh')
      BY <2>3 DEF OnTrack, Call
    <3> HIDE DEF e
    <3> QED
      BY <2>1, <3>1, SoloMove
  <2> QED
    BY <1>15, <2>2, <2>3 DEF RemoveFind, c
<1>16. CASE RemoveRenew(p) \/ RemoveDelete(p)
  <2>1. c.pc # "idle" /\ (Goto(p, "delete") \/ Goto(p, "keys")) /\ UNCHANGED <<alone, returned>>
    BY <1>16 DEF RemoveRenew, RemoveDelete, c
  <2> QED
    BY <1>3, <2>1 DEF Tracked
<1>17. CASE RemoveKeys(p)
  <2>1. c.pc # "idle" /\ (\E pc \in {"gone", "invalidate"} : Goto(p, pc)) /\ UNCHANGED <<alone, returned>>
    BY <1>17 DEF RemoveKeys, c
  <2> QED
    BY <1>3, <2>1 DEF Tracked
<1>18. CASE RemoveDone(p)
  BY <1>18, Busy, SoloReturn DEF RemoveDone, End
<1>19. CASE Fail(p)
  <2>1. CASE End(p)
    BY <1>19, <2>1, SoloReturn DEF Fail, End
  <2>2. CASE c.pc \in Selecting /\ Return(p, c.back)
    <3>1. ASSUME alone = p, c.back # 0, c.pc \notin {"prune", "access"}
          PROVE  Stored(c.back, refresh')
      <4>1. Stored(c.back, refresh)
        BY <1>1, <2>2, <3>1 DEF OnTrack, Selecting
      <4>2. refresh \subseteq refresh'
        BY <1>19, <2>2 DEF Fail, Selecting, Create, c
      <4> QED
        BY <4>1, <4>2 DEF Stored
    <3>2. ASSUME alone = p, c.back # 0, c.pc \in {"prune", "access"}
          PROVE  c.back = doubtful'
      BY <1>19, <3>2 DEF Fail, c
    <3> QED
      BY <1>19, <2>2, <3>1, <3>2, SoloReturn DEF Fail
  <2> QED
    BY <1>19, <2>1, <2>2 DEF Fail, c
<1> QED
  BY <1>4, <1>5, <1>6, <1>7, <1>8, <1>9, <1>10, <1>11, <1>12, <1>13, <1>14, <1>15, <1>16,
     <1>17, <1>18, <1>19 DEF TokenStep

LEMMA KeyStepSolo ==
    ASSUME TypeInv, SoloInv, NEW p \in Procs,
           KeyFind(p) \/ KeyDedupe(p) \/ KeyOwner(p) \/ KeyInsert(p) \/ RemoveInvalidate(p)
    PROVE  SoloInv'
<1>1. ~Idle(p)
  BY Busy DEF KeyFind, KeyDedupe, KeyOwner, KeyInsert, RemoveInvalidate
<1>2. CASE End(p)
  BY <1>1, <1>2, SoloReturn DEF End
<1>3. ASSUME NEW d, Set(p, d), d.pc \notin Tracked, UNCHANGED <<alone, returned>>
      PROVE  SoloInv'
  <2>1. OnTrack(d, refresh') /\ calls[p].pc # "idle"
    BY <1>3, Untracked DEF KeyFind, KeyDedupe, KeyOwner, KeyInsert, RemoveInvalidate
  <2> QED
    BY <1>3, <2>1, SoloMove
<1>4. ASSUME NEW pc, Goto(p, pc), pc \notin Tracked, UNCHANGED <<alone, returned>>
      PROVE  SoloInv'
  <2> DEFINE c == calls[p]
             d == Call(pc, c.account, c.doc, c.val, c.back, c.doomed)
  <2>1. Set(p, d) /\ d.pc \notin Tracked
    BY <1>4 DEF Goto, Call
  <2> HIDE DEF d
  <2> QED
    BY <1>3, <1>4, <2>1
<1>5. CASE KeyFind(p)
  <2> DEFINE K == ActiveKeys(calls[p].account)
             d == Call("dedupe", calls[p].account, 0, 0, 0, {k.id : k \in Duplicates(K)})
  <2>1. \/ Set(p, d) /\ UNCHANGED <<alone, returned>>
        \/ Goto(p, "owner") /\ UNCHANGED <<alone, returned>>
        \/ End(p)
    BY <1>5 DEF KeyFind
  <2>2. d.pc \notin Tracked
    BY DEF Call, Tracked
  <2> HIDE DEF d
  <2> QED
    BY <1>2, <1>3, <1>4, <2>1, <2>2 DEF Tracked
<1>6. CASE KeyOwner(p)
  <2> DEFINE d == Call("insert", calls[p].account, 0, created', 0, {})
  <2>1. \/ Set(p, d) /\ UNCHANGED <<alone, returned>>
        \/ End(p)
    BY <1>6 DEF KeyOwner
  <2>2. d.pc \notin Tracked
    BY DEF Call, Tracked
  <2> HIDE DEF d
  <2> QED
    BY <1>2, <1>3, <2>1, <2>2
<1>7. CASE RemoveInvalidate(p)
  BY <1>4, <1>7 DEF RemoveInvalidate, Tracked
<1> QED
  BY <1>2, <1>5, <1>6, <1>7 DEF KeyDedupe, KeyInsert

LEMMA EnvironmentSolo ==
    ASSUME SoloInv, AccountDeleted \/ Logout \/ Expire \/ HandleExpiredTokens \/ UNCHANGED vars
    PROVE  SoloInv'
<1>1. UNCHANGED calls
  BY DEF AccountDeleted, Logout, Expire, HandleExpiredTokens, vars
<1>2. CASE Logout \/ Expire
  BY <1>2, AccessAssumption DEF Logout, Expire, Disturb, SoloInv
<1>3. CASE HandleExpiredTokens
  <2>1. alone' = None /\ returned' = returned /\ doubtful' = doubtful
    BY <1>3 DEF HandleExpiredTokens
  <2>2. Stored(returned, refresh) => Stored(returned, refresh')
    BY <1>3 DEF HandleExpiredTokens, Stored
  <2> QED
    BY <1>1, <2>1, <2>2, AccessAssumption DEF SoloInv, Idle
<1>4. CASE AccountDeleted \/ UNCHANGED vars
  BY <1>1, <1>4 DEF AccountDeleted, vars, tokens, history, SoloInv, Idle
<1> QED
  BY <1>2, <1>3, <1>4

LEMMA AlwaysSolo == Spec => []SoloInv
<1>1. Init => SoloInv
  BY AccessAssumption DEF Init, SoloInv
<1>2. TypeInv /\ SoloInv /\ [Next]_vars => SoloInv'
  BY RequestSolo, TokenStepSolo, KeyStepSolo, EnvironmentSolo DEF Next, Proceed, TokenStep
<1> QED
  BY <1>1, <1>2, AlwaysTyped, PTL DEF Spec

\* The refresh token of a login, a selection or a refresh that overlapped no other call is
\* accepted, for any number of calls, accounts and tokens; so is the one a login falls back
\* to when its selection fails before it has replaced a document.
THEOREM SoloTokens == Spec => []SoloTokenWorks
<1>1. SoloInv => SoloTokenWorks
  BY DEF SoloInv, SoloTokenWorks, Stored
<1> QED
  BY <1>1, AlwaysSolo, PTL

-----------------------------------------------------------------------------
(* A removed account is forgotten *)

NamedIn(a, A, R) == a \in A \/ \E d \in R : d.account = a

Removing == {"tokens", "renew", "delete", "keys", "invalidate", "gone"}
Ending   == {"keys", "invalidate", "gone"}

\* Steps of a call at which its account is only looked up.
Reading == {"idle", "account", "key", "list", "dedupe", "owner", "insert"}

\* The inductive invariant: the account a call removes is leaving or has left; a forgotten
\* one has left, is not named, and is in the hands of calls that look it up only; an
\* undisturbed removal past the deletion of the tokens finds no token of its account.
ForgottenInv ==
    /\ \A p \in Procs : calls[p].pc \in Removing =>
                            calls[p].account \in leaving \/ calls[p].account \notin accounts
    /\ \A a \in forgotten :
         /\ a \notin accounts /\ ~NamedIn(a, access, refresh)
         /\ \A p \in Procs : calls[p].account = a => calls[p].pc \in Reading
    /\ \A p \in Procs : alone = p /\ calls[p].pc \in Ending =>
                            ~NamedIn(calls[p].account, access, refresh)

\* Documents written for an account that is not forgotten name no forgotten one.
LEMMA NamesKept ==
    ASSUME NEW x, x \notin forgotten, access' \subseteq access \cup {x},
           \A e \in refresh' : e.account = x \/ \E d \in refresh : e.account = d.account
    PROVE  \A a \in forgotten : NamedIn(a, access', refresh') => NamedIn(a, access, refresh)
  BY DEF NamedIn

LEMMA NoneKept == TypeInv => None \notin forgotten
  BY AccessAssumption DEF TypeInv, HistoryTyped, DocsTyped

LEMMA ForgetMove ==
    ASSUME TypeInv, SoloInv, ForgottenInv, NEW p \in Procs, ~Idle(p), NEW d, Set(p, d),
           UNCHANGED <<accounts, leaving, forgotten>>, alone' \in {alone, None},
           \A a \in forgotten : NamedIn(a, access', refresh') => NamedIn(a, access, refresh),
           d.account \in forgotten => d.pc \in Reading,
           d.pc \in Removing => calls[p].pc \in Removing /\ d.account = calls[p].account,
           d.pc \in Ending /\ alone = p => ~NamedIn(d.account, access', refresh')
    PROVE  ForgottenInv'
<1>1. calls' = [q \in Procs |-> IF q = p THEN d ELSE calls[q]]
  BY DEF TypeInv, CallsSound, Set
<1>2. calls'[p] = d /\ \A q \in Procs \ {p} : calls'[q] = calls[q]
  BY <1>1
<1>3. \A q \in Procs : alone' = q => q = p /\ alone = p
  BY AccessAssumption DEF SoloInv
<1>4. ASSUME NEW q \in Procs, calls'[q].pc \in Removing
      PROVE  calls'[q].account \in leaving' \/ calls'[q].account \notin accounts'
  BY <1>2, <1>4 DEF ForgottenInv
<1>5. ASSUME NEW a \in forgotten'
      PROVE  /\ a \notin accounts' /\ ~NamedIn(a, access', refresh')
             /\ \A q \in Procs : calls'[q].account = a => calls'[q].pc \in Reading
  BY <1>2, <1>5 DEF ForgottenInv
<1>6. ASSUME NEW q \in Procs, alone' = q, calls'[q].pc \in Ending
      PROVE  ~NamedIn(calls'[q].account, access', refresh')
  BY <1>2, <1>3, <1>6
<1> QED
  BY <1>4, <1>5, <1>6 DEF ForgottenInv

\* A call that begins has removed nothing; what it brings along is not forgotten.
LEMMA RequestForgets ==
    ASSUME TypeInv, ForgottenInv, NEW p \in Procs, Request(p)
    PROVE  ForgottenInv'
<1>1. /\ forgotten \subseteq born /\ born \subseteq Accounts /\ accounts \subseteq born
      /\ \A q \in Procs : calls[q].pc \in Removing => calls[q].account \in born
  BY DEF TypeInv, HistoryTyped, DocsTyped, CallsSound, Sound, Owning, Removing
<1>2. ASSUME NEW d, Begin(p, d), UNCHANGED <<access, refresh>>,
             d.pc \notin Ending, d.account \in forgotten => d.pc \in Reading,
             d.pc \in Removing => d.account \in leaving',
             leaving \subseteq leaving',
             accounts' \ accounts \subseteq Accounts \ born
      PROVE  ForgottenInv'
  <2>1. calls' = [q \in Procs |-> IF q = p THEN d ELSE calls[q]]
    BY <1>2 DEF TypeInv, CallsSound, Begin, Set
  <2>2. calls'[p] = d /\ \A q \in Procs \ {p} : calls'[q] = calls[q]
    BY <2>1
  <2>3. forgotten' = forgotten /\ \A q \in Procs : alone' = q => q = p
    BY <1>2, AccessAssumption DEF Begin
  <2>4. ASSUME NEW q \in Procs, calls'[q].pc \in Removing
        PROVE  calls'[q].account \in leaving' \/ calls'[q].account \notin accounts'
    BY <1>1, <1>2, <2>2, <2>4 DEF ForgottenInv
  <2>5. ASSUME NEW a \in forgotten'
        PROVE  /\ a \notin accounts' /\ ~NamedIn(a, access', refresh')
               /\ \A q \in Procs : calls'[q].account = a => calls'[q].pc \in Reading
    BY <1>1, <1>2, <2>2, <2>3, <2>5 DEF ForgottenInv
  <2>6. ASSUME NEW q \in Procs, alone' = q, calls'[q].pc \in Ending
        PROVE  FALSE
    BY <1>2, <2>2, <2>3, <2>6
  <2> QED
    BY <2>4, <2>5, <2>6 DEF ForgottenInv
<1>3. ASSUME NEW pc \in {"fallback", "account", "lookup", "key", "list"}, NEW a, NEW val, NEW back,
             Begin(p, Call(pc, a, 0, val, back, {})), UNCHANGED <<access, refresh, leaving>>,
             a \in forgotten => pc \in Reading,
             accounts' \ accounts \subseteq Accounts \ born
      PROVE  ForgottenInv'
  <2> DEFINE d == Call(pc, a, 0, val, back, {})
  <2>1. Begin(p, d) /\ d.pc = pc /\ d.account = a
    BY <1>3 DEF Call
  <2> HIDE DEF d
  <2> QED
    BY <1>2, <1>3, <2>1 DEF Ending, Removing
<1>4. CASE Login(p)
  BY <1>3, <1>4, NoneKept DEF Login
<1>5. CASE Refresh(p)
  BY <1>3, <1>5, NoneKept DEF Refresh, tokens
<1>6. CASE SelectAccount(p)
  BY <1>3, <1>6 DEF SelectAccount, tokens, Reading
<1>7. CASE Ready(p)
  BY <1>3, <1>7 DEF Ready, tokens, Reading
<1>8. CASE KeyRequest(p)
  BY <1>3, <1>8 DEF KeyRequest, tokens, Reading
<1>9. CASE DeleteAccountOnLogout(p)
  <2>1. PICK a \in accounts : /\ leaving' = leaving \cup {a}
                              /\ Begin(p, Call("tokens", a, 0, 0, 0, {}))
    BY <1>9 DEF DeleteAccountOnLogout
  <2> DEFINE d == Call("tokens", a, 0, 0, 0, {})
  <2>2. Begin(p, d) /\ d.pc = "tokens" /\ d.account = a
    BY <2>1 DEF Call
  <2>3. a \notin forgotten
    BY DEF ForgottenInv
  <2>4. UNCHANGED <<access, refresh, accounts>>
    BY <1>9 DEF DeleteAccountOnLogout, tokens
  <2> HIDE DEF d
  <2> QED
    BY <1>2, <2>1, <2>2, <2>3, <2>4 DEF Ending
<1> QED
  BY <1>4, <1>5, <1>6, <1>7, <1>8, <1>9 DEF Request

LEMMA StoreNames ==
    ASSUME NEW x, NEW id, NEW val, Create(val, x) \/ Replace(id, val, x)
    PROVE  \A e \in refresh' : e.account = x \/ \E d \in refresh : e.account = d.account
<1>1. RefreshDoc(val, val, x).account = x /\ RefreshDoc(id, val, x).account = x
  BY DEF RefreshDoc
<1>2. \A e \in refresh' : \/ e = RefreshDoc(val, val, x) \/ e = RefreshDoc(id, val, x)
                          \/ e \in refresh
  BY DEF Create, Replace
<1> QED
  BY <1>1, <1>2

LEMMA TokenStepForgets ==
    ASSUME TypeInv, SoloInv, ForgottenInv, NEW p \in Procs, TokenStep(p)
    PROVE  ForgottenInv'
<1> DEFINE c == calls[p]
<1>1. /\ c.pc \notin Reading => c.account \notin forgotten
      /\ None \notin forgotten
      /\ \A a \in forgotten : a \notin accounts /\ ~NamedIn(a, access, refresh)
      /\ alone = p /\ c.pc \in Ending => ~NamedIn(c.account, access, refresh)
  BY NoneKept DEF ForgottenInv
<1> HIDE DEF c
<1> USE DEF history, tokens
<1> DEFINE Unnamed == \A a \in forgotten : NamedIn(a, access', refresh') => NamedIn(a, access, refresh)
<1>2. ASSUME NEW pc, NEW a, NEW doc, NEW val, NEW back,
             Set(p, Call(pc, a, doc, val, back, {})), ~Idle(p),
             UNCHANGED <<accounts, leaving, forgotten>>, alone' \in {alone, None}, Unnamed,
             a \in forgotten => pc \in Reading,
             pc \in Removing => c.pc \in Removing /\ a = c.account,
             pc \notin Ending
      PROVE  ForgottenInv'
  <2> DEFINE d == Call(pc, a, doc, val, back, {})
  <2>1. Set(p, d) /\ d.pc = pc /\ d.account = a
    BY <1>2 DEF Call
  <2> HIDE DEF d
  <2> QED
    BY <1>2, <2>1, ForgetMove DEF c
<1>3. ASSUME NEW pc, Goto(p, pc), c.pc \notin Reading,
             UNCHANGED <<accounts, leaving, forgotten, alone>>, Unnamed,
             pc \in Removing => c.pc \in Removing,
             pc \in Ending /\ alone = p => ~NamedIn(c.account, access', refresh')
      PROVE  ForgottenInv'
  <2> DEFINE d == Call(pc, c.account, c.doc, c.val, c.back, c.doomed)
  <2>1. Set(p, d) /\ d.pc = pc /\ d.account = c.account /\ ~Idle(p)
    BY <1>3, Busy DEF Goto, Call, Reading, c
  <2> HIDE DEF d
  <2> QED
    BY <1>1, <1>3, <2>1, ForgetMove DEF c
<1>4. ASSUME NEW val, Return(p, val), ~Idle(p), UNCHANGED <<accounts, leaving, forgotten>>, Unnamed
      PROVE  ForgottenInv'
  <2>1. Set(p, Call("idle", None, 0, 0, 0, {})) /\ alone' \in {alone, None}
    BY <1>4 DEF Return, NoCall
  <2> QED
    BY <1>1, <1>2, <1>4, <2>1 DEF Ending, Removing
<1>5. UNCHANGED <<access, refresh>> => Unnamed
  BY DEF NamedIn
<1>6. access' = access /\ refresh' \subseteq refresh => Unnamed
  BY DEF NamedIn
<1>7. ASSUME NEW x, x \notin forgotten, NEW id, NEW val, Create(val, x) \/ Replace(id, val, x),
             access' \subseteq access \cup {x}
      PROVE  Unnamed
  BY <1>7, StoreNames, NamesKept
<1> HIDE DEF Unnamed
<1>8. c.pc # "idle" => ~Idle(p)
  BY Busy DEF c
<1>9. CASE LoginFallback(p)
  BY <1>1, <1>3, <1>7, <1>9 DEF LoginFallback, Reading, Removing, Ending, c
<1>10. CASE LoginAccounts(p)
  <2>1. c.pc = "accounts" /\ UNCHANGED <<accounts, leaving, forgotten>> /\ Unnamed
    BY <1>5, <1>10 DEF LoginAccounts, c
  <2>2. CASE Return(p, c.back)
    BY <1>4, <1>8, <2>1, <2>2
  <2>3. ASSUME NEW a, Set(p, Call("account", a, 0, 0, c.back, {})), UNCHANGED alone
        PROVE  ForgottenInv'
    BY <1>2, <1>8, <2>1, <2>3 DEF Reading, Removing, Ending
  <2> QED
    BY <1>10, <2>2, <2>3 DEF LoginAccounts, c
<1>11. CASE SelectCheck(p)
  <2>1. c.pc = "account" /\ UNCHANGED <<accounts, leaving, forgotten>> /\ Unnamed
    BY <1>5, <1>11 DEF SelectCheck, c
  <2>2. CASE Return(p, c.back)
    BY <1>4, <1>8, <2>1, <2>2
  <2>3. CASE /\ c.account \in accounts /\ Set(p, Call("find", c.account, 0, signed', c.back, {}))
             /\ UNCHANGED alone
    BY <1>1, <1>2, <1>8, <2>1, <2>3 DEF Removing, Ending
  <2> QED
    BY <1>11, <2>2, <2>3 DEF SelectCheck, c
<1>12. CASE SelectFind(p)
  <2>1. /\ c.pc = "find" /\ UNCHANGED <<accounts, leaving, forgotten, alone>> /\ Unnamed
        /\ c.account \notin forgotten
    BY <1>1, <1>5, <1>12 DEF SelectFind, Reading, c
  <2>2. CASE Goto(p, "create")
    BY <1>3, <2>1, <2>2 DEF Reading, Removing, Ending
  <2>3. ASSUME NEW d \in refresh, Set(p, Call("update", c.account, d.id, c.val, c.back, {}))
        PROVE  ForgottenInv'
    BY <1>2, <1>8, <2>1, <2>3 DEF Removing, Ending
  <2> QED
    BY <1>12, <2>2, <2>3 DEF SelectFind, c
<1>13. CASE SelectUpdate(p)
  <2>1. c.account \notin forgotten /\ Replace(c.doc, c.val, c.account) /\ access' = access
    BY <1>1, <1>13 DEF SelectUpdate, Reading, c
  <2>2. Unnamed
    BY <1>7, <2>1
  <2> QED
    BY <1>3, <1>13, <2>2 DEF SelectUpdate, Reading, Removing, Ending, c
<1>14. CASE SelectPrune(p)
  BY <1>3, <1>6, <1>14 DEF SelectPrune, Prune, Reading, Removing, Ending, c
<1>15. CASE SelectAccess(p)
  <2>1. c.account \notin forgotten /\ c.pc = "access"
    BY <1>1, <1>15 DEF SelectAccess, Reading, c
  <2>2. Unnamed
    BY <1>15, <2>1, NamesKept DEF SelectAccess, c, Unnamed
  <2> QED
    BY <1>4, <1>8, <1>15, <2>1, <2>2 DEF SelectAccess
<1>16. CASE SelectCreate(p)
  <2>1. c.account \notin forgotten /\ c.pc = "create" /\ Create(c.val, c.account)
    BY <1>1, <1>16 DEF SelectCreate, Reading, c
  <2>2. Unnamed
    BY <1>7, <1>16, <2>1 DEF SelectCreate, c
  <2> QED
    BY <1>4, <1>8, <1>16, <2>1, <2>2 DEF SelectCreate
<1>17. CASE RefreshLookup(p)
  <2>1. c.pc = "lookup" /\ UNCHANGED <<accounts, leaving, forgotten>> /\ Unnamed
    BY <1>5, <1>17 DEF RefreshLookup, c
  <2>2. CASE End(p)
    BY <1>4, <1>8, <2>1, <2>2 DEF End
  <2>3. ASSUME NEW d \in refresh, Set(p, Call("rotate", d.account, d.id, signed', 0, {})),
               UNCHANGED alone
        PROVE  ForgottenInv'
    <3>1. d.account \notin forgotten
      BY <1>1 DEF NamedIn
    <3> QED
      BY <1>2, <1>8, <2>1, <2>3, <3>1 DEF Removing, Ending
  <2> QED
    BY <1>17, <2>2, <2>3 DEF RefreshLookup
<1>18. CASE RefreshRotate(p)
  <2>1. c.account \notin forgotten /\ Replace(c.doc, c.val, c.account)
    BY <1>1, <1>18 DEF RefreshRotate, Reading, c
  <2>2. Unnamed
    BY <1>7, <1>18, <2>1 DEF RefreshRotate, c
  <2> QED
    BY <1>3, <1>18, <2>2 DEF RefreshRotate, Reading, Removing, Ending, c
<1>19. CASE RefreshDrop(p)
  <2>1. Unnamed /\ c.pc = "drop"
    BY <1>6, <1>19 DEF RefreshDrop, Prune, c
  <2> QED
    BY <1>4, <1>8, <1>19, <2>1 DEF RefreshDrop
<1>20. CASE RemoveFind(p)
  <2>1. c.pc = "tokens" /\ UNCHANGED <<accounts, leaving, forgotten, alone, access, refresh>>
    BY <1>20 DEF RemoveFind, c
  <2>2. Unnamed /\ c.account \notin forgotten
    BY <1>1, <1>5, <2>1 DEF Reading
  <2>3. CASE Set(p, Call("renew", c.account, 0, signed', 0, {}))
    BY <1>2, <1>8, <2>1, <2>2, <2>3 DEF Removing, Ending
  <2>4. CASE Goto(p, "gone") /\ ~Named(c.account)
    BY <1>3, <2>1, <2>2, <2>4 DEF Reading, Removing, Named, NamedIn
  <2> QED
    BY <1>20, <2>3, <2>4 DEF RemoveFind, c
<1>21. CASE RemoveRenew(p)
  BY <1>1, <1>3, <1>7, <1>21 DEF RemoveRenew, Reading, Removing, Ending, c
<1>22. CASE RemoveDelete(p)
  <2>1. Unnamed /\ ~NamedIn(c.account, access', refresh')
    BY <1>22 DEF RemoveDelete, NamedIn, Unnamed, c
  <2> QED
    BY <1>3, <1>22, <2>1 DEF RemoveDelete, Reading, Removing, c
<1>23. CASE RemoveKeys(p)
  <2>1. /\ \E pc \in {"gone", "invalidate"} : Goto(p, pc)
        /\ c.pc = "keys" /\ UNCHANGED <<accounts, leaving, forgotten, alone, access, refresh>>
    BY <1>23 DEF RemoveKeys, c
  <2> QED
    BY <1>1, <1>3, <1>5, <2>1 DEF Reading, Removing, Ending
<1>24. CASE RemoveDone(p)
  <2>1. /\ c.pc = "gone" /\ c.account \notin leaving /\ Return(p, 0)
        /\ UNCHANGED <<accounts, leaving, access, refresh>>
    BY <1>24 DEF RemoveDone, End, c
  <2>2. CASE alone # p
    BY <1>4, <1>5, <1>8, <1>24, <2>1, <2>2 DEF RemoveDone
  <2>3. CASE alone = p
    <3>1. c.account \notin accounts /\ ~NamedIn(c.account, access, refresh)
      BY <1>1, <2>1, <2>3 DEF ForgottenInv, Removing, Ending, c
    <3>2. \A q \in Procs : calls'[q] = NoCall
      BY <2>1, <2>3 DEF TypeInv, CallsSound, Return, Set, SoloInv, Idle
    <3>3. forgotten' = forgotten \cup {c.account}
      BY <1>24, <2>3 DEF RemoveDone, c
    <3>4. NoCall.pc = "idle"
      BY DEF NoCall, Call
    <3>5. \A a \in forgotten' : a \notin accounts' /\ ~NamedIn(a, access', refresh')
      BY <1>1, <2>1, <3>1, <3>3
    <3>6. /\ \A q \in Procs : calls'[q].pc \notin Removing /\ calls'[q].pc \notin Ending
          /\ \A q \in Procs : calls'[q].pc \in Reading
      BY <3>2, <3>4 DEF Removing, Reading, Ending
    <3> QED
      BY <3>5, <3>6 DEF ForgottenInv
  <2> QED
    BY <2>2, <2>3
<1>25. CASE Fail(p)
  <2>1. ~Idle(p) /\ UNCHANGED <<accounts, leaving, forgotten>>
    BY <1>25 DEF Fail
  <2>5. Return(p, 0) \/ Return(p, c.back)
    BY <1>25 DEF Fail, End, c
  <2>2. \E x \in AccountsOrNone :
          /\ x \notin forgotten /\ access' \subseteq access \cup {x}
          /\ \/ refresh' = refresh
             \/ \E id \in {c.doc}, val \in {c.val, c.back} : Create(val, x) \/ Replace(id, val, x)
    <3>1. c.account \in AccountsOrNone /\ None \in AccountsOrNone
      BY DEF TypeInv, CallsSound, Sound, CallSet, AccountsOrNone, c
    <3>2. CASE c.pc \in {"create", "rotate"}
      <4>1. c.account \notin forgotten
        BY <1>1, <3>2 DEF Reading
      <4> QED
        BY <1>25, <3>1, <3>2, <4>1 DEF Fail, c
    <3>3. CASE c.pc \notin {"create", "rotate"}
      BY <1>1, <1>25, <3>1, <3>3 DEF Fail, c
    <3> QED
      BY <3>2, <3>3
  <2>3. PICK x \in AccountsOrNone :
          /\ x \notin forgotten /\ access' \subseteq access \cup {x}
          /\ \/ refresh' = refresh
             \/ \E id \in {c.doc}, val \in {c.val, c.back} : Create(val, x) \/ Replace(id, val, x)
    BY <2>2
  <2>4. Unnamed
    <3>1. CASE refresh' = refresh
      BY <2>3, <3>1, NamesKept DEF Unnamed
    <3>2. CASE refresh' # refresh
      BY <1>7, <2>3, <3>2
    <3> QED
      BY <3>1, <3>2
  <2> QED
    BY <1>4, <2>1, <2>4, <2>5
<1> QED
  BY <1>9, <1>10, <1>11, <1>12, <1>13, <1>14, <1>15, <1>16, <1>17, <1>18, <1>19, <1>20,
     <1>21, <1>22, <1>23, <1>24, <1>25 DEF TokenStep

LEMMA KeyStepForgets ==
    ASSUME TypeInv, SoloInv, ForgottenInv, NEW p \in Procs,
           KeyFind(p) \/ KeyDedupe(p) \/ KeyOwner(p) \/ KeyInsert(p) \/ RemoveInvalidate(p)
    PROVE  ForgottenInv'
<1>1. /\ ~Idle(p) /\ None \notin forgotten
      /\ UNCHANGED <<accounts, leaving, access, refresh, forgotten>>
  BY Busy, NoneKept
     DEF KeyFind, KeyDedupe, KeyOwner, KeyInsert, RemoveInvalidate, tokens
<1>2. ASSUME NEW d, Set(p, d), alone' \in {alone, None}, d.pc \notin Removing \cup Ending,
             d.account \in forgotten => d.pc \in Reading
      PROVE  ForgottenInv'
  BY <1>1, <1>2, ForgetMove DEF NamedIn
<1>3. CASE End(p)
  <2>1. Set(p, NoCall) /\ alone' \in {alone, None}
    BY <1>3 DEF End, Return
  <2>2. NoCall.pc = "idle" /\ NoCall.account = None
    BY DEF NoCall, Call
  <2> HIDE DEF NoCall
  <2> QED
    BY <1>1, <1>2, <2>1, <2>2 DEF Removing, Ending
<1>4. CASE KeyFind(p)
  <2> DEFINE K == ActiveKeys(calls[p].account)
             c == calls[p]
             d == Call("dedupe", calls[p].account, 0, 0, 0, {k.id : k \in Duplicates(K)})
             e == Call("owner", c.account, c.doc, c.val, c.back, c.doomed)
  <2>1. \/ Set(p, d) /\ UNCHANGED alone
        \/ Set(p, e) /\ UNCHANGED alone
        \/ End(p)
    BY <1>4 DEF KeyFind, Goto
  <2>2. d.pc = "dedupe" /\ e.pc = "owner"
    BY DEF Call
  <2> HIDE DEF d, e
  <2> QED
    BY <1>2, <1>3, <2>1, <2>2 DEF Removing, Ending, Reading
<1>5. CASE KeyOwner(p)
  <2> DEFINE d == Call("insert", calls[p].account, 0, created', 0, {})
  <2>1. \/ Set(p, d) /\ UNCHANGED alone
        \/ End(p)
    BY <1>5 DEF KeyOwner
  <2>2. d.pc = "insert"
    BY DEF Call
  <2> HIDE DEF d
  <2> QED
    BY <1>2, <1>3, <2>1, <2>2 DEF Removing, Ending, Reading
<1>6. CASE RemoveInvalidate(p)
  <2> DEFINE c == calls[p]
             d == Call("gone", c.account, c.doc, c.val, c.back, c.doomed)
  <2>1. c.pc = "invalidate" /\ Set(p, d) /\ UNCHANGED alone
    BY <1>6 DEF RemoveInvalidate, Goto
  <2>2. d.pc = "gone" /\ d.account = c.account
    BY DEF Call
  <2>3. c.account \notin forgotten /\ (alone = p => ~NamedIn(c.account, access', refresh'))
    BY <1>1, <2>1 DEF ForgottenInv, Reading, Ending
  <2> HIDE DEF d
  <2> QED
    BY <1>1, <2>1, <2>2, <2>3, ForgetMove DEF Removing
<1> QED
  BY <1>3, <1>4, <1>5, <1>6 DEF KeyDedupe, KeyInsert

LEMMA EnvironmentForgets ==
    ASSUME TypeInv, ForgottenInv,
           AccountDeleted \/ Logout \/ Expire \/ HandleExpiredTokens \/ UNCHANGED vars
    PROVE  ForgottenInv'
<1>1. UNCHANGED <<calls, forgotten>>
  BY DEF AccountDeleted, Logout, Expire, HandleExpiredTokens, vars, history
<1>2. CASE Logout \/ Expire \/ HandleExpiredTokens
  <2>1. \A q \in Procs : alone' # q
    BY <1>2, AccessAssumption DEF Logout, Expire, HandleExpiredTokens, Disturb
  <2>2. UNCHANGED <<accounts, leaving>> /\ access' \subseteq access
    BY <1>2 DEF Logout, Expire, HandleExpiredTokens
  <2>3. \A e \in refresh' : \E d \in refresh : e.account = d.account
    <3>1. CASE Expire
      <4>1. PICK d \in refresh : refresh' = (refresh \ {d}) \cup {[d EXCEPT !.expired = TRUE]}
        BY <3>1 DEF Expire
      <4>2. [d EXCEPT !.expired = TRUE].account = d.account
        BY DEF TypeInv, DocsTyped, RefreshDocs
      <4> QED
        BY <4>1, <4>2
    <3> QED
      BY <1>2, <3>1 DEF Logout, HandleExpiredTokens
  <2>4. ASSUME NEW a, ~NamedIn(a, access, refresh)
        PROVE  ~NamedIn(a, access', refresh')
    BY <2>2, <2>3, <2>4 DEF NamedIn
  <2> QED
    BY <1>1, <2>1, <2>2, <2>4 DEF ForgottenInv
<1>3. CASE AccountDeleted
  BY <1>1, <1>3 DEF AccountDeleted, tokens, history, ForgottenInv
<1>4. CASE UNCHANGED vars
  BY <1>4 DEF vars, tokens, history, ForgottenInv
<1> QED
  BY <1>2, <1>3, <1>4

\* After a removal that overlapped no other call no token ever names the account again, for
\* any number of calls, accounts and tokens.
THEOREM Forgotten == Spec => []ForgottenForGood
<1>1. Init => ForgottenInv
  BY AccessAssumption DEF Init, ForgottenInv, NoCall, Call, Removing
<1>2. TypeInv /\ SoloInv /\ ForgottenInv /\ [Next]_vars => ForgottenInv'
  BY RequestForgets, TokenStepForgets, KeyStepForgets, EnvironmentForgets
     DEF Next, Proceed, TokenStep
<1>3. ForgottenInv => ForgottenForGood
  BY DEF ForgottenInv, ForgottenForGood, Named, NamedIn
<1> QED
  BY <1>1, <1>2, <1>3, AlwaysTyped, AlwaysSolo, PTL DEF Spec
=============================================================================
