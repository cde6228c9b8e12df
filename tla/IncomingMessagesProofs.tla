----------------------- MODULE IncomingMessagesProofs -----------------------
(***************************************************************************)
(* Proofs about IncomingMessages, for any accounts, clients, messages,     *)
(* rules and cache size.                                                   *)
(***************************************************************************)
EXTENDS IncomingMessages, NaturalsInduction, WellFoundedInduction, FiniteSetTheorems,
        SequenceTheorems, TLAPS

\* Sent late enough to be answered in this life of the process.
Recent(m) == sent[m] + Larger(Buffer, Threshold) >= bootAt

Busy(s) == handling[s].pc # "idle"

\* Clocks and session starts: a session that is known to have started did so in this
\* life of the process.
ClocksInv ==
    /\ now \in Nat /\ bootAt \in Nat /\ bootAt <= now
    /\ sent \in [Messages -> Nat \cup {Never}]
    /\ start \in [Accounts -> Nat \cup {Never}]
    /\ \A a \in Accounts : start[a] # Never => bootAt <= start[a] /\ start[a] <= now
    /\ attached \in [Clients -> Accounts \cup {None}]

\* A message on its way is a message that was sent, and recently if that can be told.
HandledInv ==
    /\ handling = [s \in Slots |-> handling[s]]
    /\ \A s \in Slots : Busy(s) =>
         /\ handling[s].msg \in Messages
         /\ handling[s].msg \in Stamped => Recent(handling[s].msg)

RepliesInv ==
    /\ replies \in [Messages -> Nat]
    /\ OutageUnanswered

OutageInv == ClocksInv /\ HandledInv /\ RepliesInv

-----------------------------------------------------------------------------

LEMMA NextClocks ==
    ASSUME ClocksInv, [Next]_vars
    PROVE  ClocksInv'
<1> USE DEF ClocksInv
<1>1. ASSUME NEW c \in Clients, NEW m \in Messages, NEW s \in Slots, Receive(c, m, s)
      PROVE  ClocksInv'
  BY <1>1 DEF Receive
<1>2. ASSUME NEW s \in Slots, Handle(s)
      PROVE  ClocksInv'
  BY <1>2 DEF Handle, AccountFound, CheckReady, FindRule, SendReply
<1>3. ASSUME NEW m \in Messages, Write(m)
      PROVE  ClocksInv'
  BY <1>3 DEF Write
<1>4. ASSUME NEW c \in Clients, Detach(c)
      PROVE  ClocksInv'
  BY <1>4 DEF Detach
<1>5. ASSUME NEW c \in Clients, Logout(c)
      PROVE  ClocksInv'
  BY <1>5 DEF Logout, ResetClientStats
<1>6. ASSUME NEW c \in Clients, NEW a \in Accounts, SetupSession(c, a)
      PROVE  ClocksInv'
  BY <1>6 DEF SetupSession, MarkSessionStart
<1>7. CASE CleanupOldMessageIds \/ Tick \/ UNCHANGED vars
  BY <1>7 DEF CleanupOldMessageIds, Tick, vars
<1>8. CASE Crash
  BY <1>8 DEF Crash
<1> QED
  BY <1>1, <1>2, <1>3, <1>4, <1>5, <1>6, <1>7, <1>8 DEF Next

\* A message that passes isOldMessage is recent: the start of its session, and the present
\* when there is none, are not before the start of the process.
LEMMA NotOldIsRecent ==
    ASSUME ClocksInv, NEW m \in Stamped, NEW a \in Accounts, sent[m] # Never, ~IsOld(m, a)
    PROVE  Recent(m)
<1>1. sent[m] \in Nat /\ Buffer \in Nat /\ Threshold \in Nat
  BY IncomingAssumption DEF ClocksInv
<1>2. Larger(Buffer, Threshold) >= Buffer /\ Larger(Buffer, Threshold) >= Threshold
      /\ Larger(Buffer, Threshold) \in Nat
  BY <1>1 DEF Larger
<1>3. CASE start[a] # Never
  <2>1. sent[m] >= start[a] - Buffer /\ start[a] \in Nat
    BY <1>1, <1>3 DEF IsOld, ClocksInv
  <2> QED
    BY <1>1, <1>2, <1>3, <2>1 DEF Recent, ClocksInv
<1>4. CASE start[a] = Never
  <2>1. now - sent[m] <= Threshold
    BY <1>1, <1>4 DEF IsOld, ClocksInv
  <2> QED
    BY <1>1, <1>2, <2>1 DEF Recent, ClocksInv
<1> QED
  BY <1>3, <1>4

\* A message stays recent while the process lives, also when it is only then sent.
LEMMA StaysRecent ==
    ASSUME ClocksInv, bootAt' = bootAt, NEW m \in Messages, Recent(m),
           sent'[m] = sent[m] \/ sent'[m] = now
    PROVE  Recent(m)'
<1>1. Larger(Buffer, Threshold) \in Nat
  BY IncomingAssumption DEF Larger
<1> QED
  BY <1>1 DEF Recent, ClocksInv

\* The common part of the steps that accept no message and send no reply.
LEMMA KeepOutage ==
    ASSUME OutageInv, UNCHANGED <<replies, bootAt>>,
           \A m \in Messages : sent'[m] = sent[m] \/ sent'[m] = now,
           handling' = [s \in Slots |-> handling'[s]],
           \A s \in Slots : Busy(s)' => Busy(s) /\ handling'[s].msg = handling[s].msg
    PROVE  HandledInv' /\ RepliesInv'
<1>1. ASSUME NEW m \in Messages, Recent(m)
      PROVE  Recent(m)'
  BY <1>1, StaysRecent DEF OutageInv
<1>2. HandledInv'
  BY <1>1 DEF OutageInv, HandledInv
<1>3. OutageUnanswered'
  <2>1. \A m \in Stamped : m \in Messages
    BY IncomingAssumption
  <2> QED
    BY <1>1, <2>1 DEF OutageInv, RepliesInv, OutageUnanswered, Recent
<1> QED
  BY <1>2, <1>3 DEF OutageInv, RepliesInv

LEMMA ReceiveOutage ==
    ASSUME OutageInv, NEW c \in Clients, NEW m \in Messages, NEW s \in Slots, Receive(c, m, s)
    PROVE  HandledInv' /\ RepliesInv'
<1> DEFINE a == attached[c]
<1>1. a \in Accounts /\ sent[m] # Never /\ UNCHANGED <<sent, bootAt, replies>>
  BY DEF Receive, OutageInv, ClocksInv
<1>2. RepliesInv'
  BY <1>1 DEF OutageInv, RepliesInv, OutageUnanswered
<1>3. CASE m \in Ignored \/ IsOld(m, a)
  <2>1. handling' = handling
    BY <1>3 DEF Receive
  <2> QED
    BY <1>1, <1>2, <2>1 DEF OutageInv, HandledInv, Busy, Recent
<1>4. CASE ~(m \in Ignored \/ IsOld(m, a))
  <2>1. handling' = [handling EXCEPT ![s] = Handling("account", m, a, <<>>, 0)]
    BY <1>4 DEF Receive
  <2>2. m \in Stamped => Recent(m)
    BY <1>1, <1>4, NotOldIsRecent DEF OutageInv
  <2>3. \A r \in Slots : IF r = s THEN handling'[r].msg = m ELSE handling'[r] = handling[r]
    BY <2>1 DEF OutageInv, HandledInv, Handling
  <2>4. handling' = [r \in Slots |-> handling'[r]]
    BY <2>1 DEF OutageInv, HandledInv
  <2> QED
    BY <1>1, <1>2, <2>2, <2>3, <2>4 DEF OutageInv, HandledInv, Busy, Recent
<1> QED
  BY <1>3, <1>4

\* A message leaves the handlers, or goes on to the next await.
LEMMA MovesOn ==
    ASSUME OutageInv, NEW s \in Slots, Busy(s), NEW h,
           handling' = [handling EXCEPT ![s] = h], h.pc = "idle" \/ h.msg = handling[s].msg
    PROVE  /\ handling' = [r \in Slots |-> handling'[r]]
           /\ \A r \in Slots : Busy(r)' => Busy(r) /\ handling'[r].msg = handling[r].msg
<1>1. \A r \in Slots : handling'[r] = IF r = s THEN h ELSE handling[r]
  BY DEF OutageInv, HandledInv
<1>2. handling' = [r \in Slots |-> handling'[r]]
  BY DEF OutageInv, HandledInv
<1> QED
  BY <1>1, <1>2 DEF Busy

LEMMA HandleOutage ==
    ASSUME OutageInv, NEW s \in Slots, Handle(s)
    PROVE  HandledInv' /\ RepliesInv'
<1>1. Busy(s) /\ UNCHANGED <<sent, bootAt>>
  BY DEF Handle, AccountFound, CheckReady, FindRule, SendReply, Busy
<1>2. PICK h : /\ handling' = [handling EXCEPT ![s] = h]
               /\ h.pc = "idle" \/ h.msg = handling[s].msg
  <2>1. CASE Leave(s)
    <3>1. NoHandling.pc = "idle"
      BY DEF NoHandling, Handling
    <3> QED
      BY <2>1, <3>1 DEF Leave
  <2>2. ASSUME NEW pc, Goto(s, pc)
        PROVE  \E h : /\ handling' = [handling EXCEPT ![s] = h]
                      /\ h.pc = "idle" \/ h.msg = handling[s].msg
    <3> DEFINE h == Handling(pc, handling[s].msg, handling[s].account, <<>>, 0)
    <3>1. handling' = [handling EXCEPT ![s] = h] /\ h.msg = handling[s].msg
      BY <2>2 DEF Goto, Handling, OutageInv, HandledInv
    <3> QED
      BY <3>1
  <2>3. ASSUME NEW rules, NEW rule,
               handling' = [handling EXCEPT
                             ![s] = Handling("send", handling[s].msg, handling[s].account, rules, rule)]
        PROVE  \E h : /\ handling' = [handling EXCEPT ![s] = h]
                      /\ h.pc = "idle" \/ h.msg = handling[s].msg
    <3> DEFINE h == Handling("send", handling[s].msg, handling[s].account, rules, rule)
    <3>1. h.msg = handling[s].msg
      BY DEF Handling
    <3> QED
      BY <2>3, <3>1
  <2> QED
    BY <2>1, <2>2, <2>3 DEF Handle, AccountFound, CheckReady, FindRule, SendReply
<1>3. /\ handling' = [r \in Slots |-> handling'[r]]
      /\ \A r \in Slots : Busy(r)' => Busy(r) /\ handling'[r].msg = handling[r].msg
  BY <1>1, <1>2, MovesOn
<1>4. CASE replies' = replies
  BY <1>1, <1>3, <1>4, KeepOutage
<1>5. CASE replies' # replies
  <2>1. /\ SendReply(s) /\ handling[s].msg \in Messages
        /\ handling[s].msg \in Stamped => Recent(handling[s].msg)
    BY <1>1, <1>5 DEF Handle, AccountFound, CheckReady, FindRule, history, OutageInv, HandledInv
  <2>2. /\ replies' \in [Messages -> Nat]
        /\ \A m \in Messages \ {handling[s].msg} : replies'[m] = replies[m]
    BY <2>1 DEF SendReply, OutageInv, RepliesInv
  <2>3. RepliesInv'
    BY <1>1, <2>1, <2>2, IncomingAssumption DEF OutageInv, RepliesInv, OutageUnanswered, Recent
  <2>4. HandledInv'
    BY <1>1, <1>3 DEF OutageInv, HandledInv, Recent
  <2> QED
    BY <2>3, <2>4
<1> QED
  BY <1>4, <1>5

LEMMA NextOutage ==
    ASSUME OutageInv, [Next]_vars
    PROVE  HandledInv' /\ RepliesInv'
<1>1. CASE Crash
  <2>1. /\ \A s \in Slots : ~Busy(s)'
        /\ handling' = [s \in Slots |-> handling'[s]]
    BY <1>1 DEF Crash, Busy, NoHandling, Handling
  <2>2. \A m \in Messages : replies'[m] = 0
    BY <1>1 DEF Crash
  <2>3. RepliesInv'
    BY <1>1, <2>2, IncomingAssumption DEF Crash, RepliesInv, OutageUnanswered
  <2> QED
    BY <2>1, <2>3 DEF HandledInv
<1>2. ASSUME UNCHANGED <<handling, replies, bootAt>>,
             \A m \in Messages : sent'[m] = sent[m] \/ sent'[m] = now
      PROVE  HandledInv' /\ RepliesInv'
  BY <1>2, KeepOutage DEF OutageInv, HandledInv, Busy
<1>3. ASSUME NEW m \in Messages, Write(m)
      PROVE  HandledInv' /\ RepliesInv'
  <2>1. \A n \in Messages : sent'[n] = sent[n] \/ sent'[n] = now
    BY <1>3 DEF Write, OutageInv, ClocksInv
  <2> QED
    BY <1>2, <1>3, <2>1 DEF Write, history
<1>4. ASSUME NEW c \in Clients, \/ Detach(c) \/ Logout(c)
                                \/ \E a \in Accounts : SetupSession(c, a)
      PROVE  HandledInv' /\ RepliesInv'
  BY <1>2, <1>4 DEF Detach, Logout, SetupSession, history
<1>5. CASE CleanupOldMessageIds \/ Tick \/ UNCHANGED vars
  BY <1>2, <1>5 DEF CleanupOldMessageIds, Tick, vars, history
<1> QED
  BY <1>1, <1>3, <1>4, <1>5, ReceiveOutage, HandleOutage DEF Next

LEMMA OutageCorrect == Spec => []OutageInv
<1>1. Init => OutageInv
  <2> SUFFICES ASSUME Init
               PROVE  OutageInv
    OBVIOUS
  <2>1. ClocksInv
    BY DEF Init, ClocksInv
  <2>2. HandledInv
    BY DEF Init, HandledInv, Busy, NoHandling, Handling
  <2>3. RepliesInv
    BY IncomingAssumption DEF Init, RepliesInv, OutageUnanswered
  <2> QED
    BY <2>1, <2>2, <2>3 DEF OutageInv
<1>2. OutageInv /\ [Next]_vars => OutageInv'
  BY NextClocks, NextOutage DEF OutageInv
<1> QED
  BY <1>1, <1>2, PTL DEF Spec

\* Whatever is delivered, restarted or logged out, and however long the process was
\* down: nothing sent before it started, by more than the buffer or the threshold, gets
\* a reply.
THEOREM OutagesUnanswered == Spec => []OutageUnanswered
<1>1. OutageInv => OutageUnanswered
  BY DEF OutageInv, RepliesInv
<1> QED
  BY <1>1, OutageCorrect, PTL

-----------------------------------------------------------------------------
(* Recursion over the keywords of a rule and the rules of an account *)

\* A nonempty set of naturals has a least member.
LEMMA LeastExists ==
    ASSUME NEW T \in SUBSET Nat, T # {}
    PROVE  \E n \in T : \A m \in T : n <= m
<1> DEFINE R == {e \in Nat \X Nat : e[1] < e[2]}
<1>1. IsWellFoundedOn(R, Nat)
  BY NatLessThanWellFounded, Zenon DEF OpToRel
<1>2. \E n \in T : \A m \in T : <<m, n>> \notin R
  <2> HIDE DEF R
  <2> QED BY <1>1, WFMin, Zenon
<1>3. PICK n \in T : \A m \in T : <<m, n>> \notin R
  BY <1>2
<1>4. ASSUME NEW m \in T
      PROVE  n <= m
  <2>1. ~(m < n) /\ m \in Nat /\ n \in Nat
    BY <1>3
  <2> QED
    BY <2>1
<1> QED
  BY <1>4

\* Induction up to n over the members of a set.
LEMMA UpTo ==
    ASSUME NEW n \in Nat, NEW T, 0 \in T, \A i \in 0 .. n : i < n /\ i \in T => i + 1 \in T
    PROVE  \A i \in 0 .. n : i \in T
<1> DEFINE Rest == {i \in 0 .. n : i \notin T}
<1>1. ASSUME Rest # {}
      PROVE  FALSE
  <2>1. Rest \in SUBSET Nat
    OBVIOUS
  <2> HIDE DEF Rest
  <2>2. PICK i \in Rest : \A j \in Rest : i <= j
    BY <1>1, <2>1, LeastExists
  <2>3. i \in 0 .. n /\ i \notin T
    BY DEF Rest
  <2>4. i # 0
    BY <2>3
  <2>5. i - 1 \in 0 .. n /\ ~(i <= i - 1) /\ i - 1 < n /\ (i - 1) + 1 = i
    BY <2>3, <2>4
  <2>6. i - 1 \in T
    BY <2>2, <2>5 DEF Rest
  <2> QED
    BY <2>3, <2>5, <2>6
<1> QED
  BY <1>1

\* f starts with f0 and goes on with the functions G.
Follows(f, f0, G, k) == f[0] = f0 /\ \A i \in 1 .. k : f[i] = G[i][f[i - 1]]

LEMMA Recursion ==
    ASSUME NEW n \in Nat, NEW S, NEW f0 \in S, NEW G \in [1 .. n -> [S -> S]]
    PROVE  \E f \in [0 .. n -> S] : Follows(f, f0, G, n)
<1> DEFINE T == {k \in 0 .. n : \E f \in [0 .. n -> S] : Follows(f, f0, G, k)}
<1>1. 0 \in T
  <2> DEFINE f == [i \in 0 .. n |-> f0]
  <2>1. f \in [0 .. n -> S] /\ f[0] = f0 /\ 0 \in 0 .. n /\ 1 .. 0 = {}
    OBVIOUS
  <2> HIDE DEF f
  <2>2. Follows(f, f0, G, 0)
    BY <2>1 DEF Follows
  <2> QED
    BY <2>1, <2>2
<1>2. ASSUME NEW k \in 0 .. n, k < n, k \in T
      PROVE  k + 1 \in T
  <2>0. k \in 0 .. n /\ k < n
    BY <1>2
  <2>1. PICK f \in [0 .. n -> S] : Follows(f, f0, G, k)
    BY <1>2
  <2> HIDE DEF T
  <2> DEFINE g == [i \in 0 .. n |-> IF i = k + 1 THEN G[k + 1][f[k]] ELSE f[i]]
  <2>2. f[k] \in S /\ k + 1 \in 1 .. n /\ k + 1 \in 0 .. n
    BY <2>0
  <2>3. G[k + 1][f[k]] \in S
    BY <2>2
  <2>4. g \in [0 .. n -> S]
    BY <2>3
  <2>5. \A i \in 0 .. n : i # k + 1 => g[i] = f[i]
    OBVIOUS
  <2>6. g[k + 1] = G[k + 1][f[k]]
    BY <2>2
  <2> HIDE DEF g
  <2>7. g[0] = f0
    <3>1. 0 \in 0 .. n /\ 0 # k + 1
      BY <2>0
    <3> QED
      BY <2>1, <2>5, <3>1 DEF Follows
  <2>8. ASSUME NEW i \in 1 .. (k + 1)
        PROVE  g[i] = G[i][g[i - 1]]
    <3>1. i - 1 \in 0 .. n /\ i - 1 # k + 1 /\ i \in 0 .. n
      BY <2>0
    <3>2. g[i - 1] = f[i - 1]
      BY <2>5, <3>1
    <3>3. CASE i = k + 1
      <4>1. i - 1 = k
        BY <3>3
      <4> QED
        BY <2>6, <3>2, <3>3, <4>1
    <3>4. CASE i # k + 1
      <4>1. i \in 1 .. k
        BY <3>4
      <4> QED
        BY <2>1, <2>5, <3>1, <3>2, <3>4, <4>1 DEF Follows
    <3> QED
      BY <3>3, <3>4
  <2>9. Follows(g, f0, G, k + 1)
    BY <2>7, <2>8 DEF Follows
  <2> QED
    BY <2>2, <2>4, <2>9 DEF T
<1>3. n \in T
  <2> HIDE DEF T
  <2>1. \A i \in 0 .. n : i \in T
    BY <1>1, <1>2, UpTo
  <2> QED
    BY <2>1
<1> QED
  BY <1>3

\* The points of the keywords.
Gain(text, rule) == [i \in 1 .. Len(rule) |-> Points[Match[text][rule[i]]]]

LEMMA ScoreIsNat ==
    ASSUME NEW text \in Texts, NEW rule \in Seq(Keywords)
    PROVE  RuleScore(text, rule) \in Nat
<1> DEFINE n == Len(rule)
           p == Gain(text, rule)
           body(f) == [i \in 0 .. n |-> IF i = 0 THEN 0 ELSE f[i - 1] + Points[Match[text][rule[i]]]]
           G == [i \in 1 .. n |-> [x \in Nat |-> x + p[i]]]
           sum == CHOOSE f : f = body(f)
<1>1. n \in Nat
  OBVIOUS
<1>2. p \in [1 .. n -> Nat]
  <2> SUFFICES ASSUME NEW i \in 1 .. n
               PROVE  Points[Match[text][rule[i]]] \in Nat
    BY DEF Gain
  <2>1. rule[i] \in Keywords
    OBVIOUS
  <2>2. Match[text][rule[i]] \in {"exact", "word", "part", "fuzzy", "no"}
    BY <2>1, RulesAssumption DEF Points
  <2> QED
    BY <2>2 DEF Points
<1>3. RuleScore(text, rule) = sum[n]
  BY DEF RuleScore
<1>4. \A i \in 1 .. n : p[i] = Points[Match[text][rule[i]]]
  BY DEF Gain
<1> HIDE DEF n, p
<1>5. G \in [1 .. n -> [Nat -> Nat]]
  BY <1>2
<1>6. \A x \in Nat, i \in 1 .. n : G[i][x] = x + p[i]
  OBVIOUS
<1> HIDE DEF G
<1>7. PICK f \in [0 .. n -> Nat] : Follows(f, 0, G, n)
  BY <1>1, <1>5, Recursion
<1>8. f = body(f)
  <2>1. ASSUME NEW i \in 0 .. n, i # 0
        PROVE  f[i] = f[i - 1] + Points[Match[text][rule[i]]]
    <3>1. i \in 1 .. n /\ i - 1 \in 0 .. n
      BY <1>1, <2>1
    <3>2. f[i - 1] \in Nat
      BY <3>1
    <3> QED
      BY <1>4, <1>6, <1>7, <3>1, <3>2 DEF Follows
  <2> QED
    BY <1>7, <2>1 DEF Follows
<1>9. sum = body(sum)
  BY <1>8
<1> HIDE DEF sum
<1>10. sum[0] = 0 /\ \A i \in 1 .. n : sum[i] = sum[i - 1] + p[i]
  BY <1>1, <1>4, <1>9
<1>11. \A i \in 0 .. n : i \in {j \in 0 .. n : sum[j] \in Nat}
  <2> DEFINE T == {j \in 0 .. n : sum[j] \in Nat}
  <2>1. 0 \in T
    BY <1>1, <1>10
  <2>2. ASSUME NEW i \in 0 .. n, i < n, sum[i] \in Nat
        PROVE  sum[i + 1] \in Nat /\ i + 1 \in 0 .. n
    <3>1. i + 1 \in 1 .. n /\ (i + 1) - 1 = i
      BY <1>1, <2>2
    <3>2. sum[i + 1] = sum[i] + p[i + 1] /\ p[i + 1] \in Nat
      BY <1>2, <1>10, <3>1
    <3> QED
      BY <2>2, <3>1, <3>2
  <2>3. \A i \in 0 .. n : i < n /\ i \in T => i + 1 \in T
    BY <2>2
  <2> HIDE DEF T
  <2>4. \A i \in 0 .. n : i \in T
    BY <1>1, <2>1, <2>3, UpTo
  <2> QED
    BY <2>4 DEF T
<1> QED
  BY <1>1, <1>3, <1>11

\* The loop over the rules keeps the first of those with the highest score so far.
BestOf(text, rules, i, b) ==
    /\ b \in [rule : 0 .. i, score : Nat]
    /\ b.rule = 0 => b.score = 0
    /\ b.rule # 0 => b.score = RuleScore(text, rules[b.rule]) /\ b.score > 0
    /\ \A j \in 1 .. i : RuleScore(text, rules[j]) <= b.score
    /\ \A j \in 1 .. i : j < b.rule => RuleScore(text, rules[j]) < b.score

LEMMA BestOfRules ==
    ASSUME NEW text \in Texts, NEW rules \in Seq(Seq(Keywords))
    PROVE  \E score : BestOf(text, rules, Len(rules), [rule |-> BestRule(text, rules), score |-> score])
<1> DEFINE n == Len(rules)
           body(f) == [i \in 0 .. n |->
                         IF i = 0 THEN [rule |-> 0, score |-> 0]
                         ELSE IF RuleScore(text, rules[i]) > f[i - 1].score
                              THEN [rule |-> i, score |-> RuleScore(text, rules[i])]
                              ELSE f[i - 1]]
           best == CHOOSE f : f = body(f)
           S == [rule : Nat, score : Nat]
           p == [i \in 1 .. n |-> RuleScore(text, rules[i])]
           step(i, x) == IF p[i] > x.score THEN [rule |-> i, score |-> p[i]] ELSE x
           G == [i \in 1 .. n |-> [x \in S |-> step(i, x)]]
<1>1. n \in Nat
  OBVIOUS
<1>2. p \in [1 .. n -> Nat]
  <2>1. \A i \in 1 .. n : rules[i] \in Seq(Keywords)
    OBVIOUS
  <2> QED
    BY <2>1, ScoreIsNat
<1>3. BestRule(text, rules) = best[n].rule
  BY DEF BestRule
<1>4. \A i \in 1 .. n : p[i] = RuleScore(text, rules[i])
  OBVIOUS
<1> HIDE DEF n, p
<1>5. G \in [1 .. n -> [S -> S]]
  BY <1>2
<1>6. \A x \in S, i \in 1 .. n : G[i][x] = step(i, x)
  OBVIOUS
<1> HIDE DEF G
<1>7. PICK f \in [0 .. n -> S] : Follows(f, [rule |-> 0, score |-> 0], G, n)
  <2>1. [rule |-> 0, score |-> 0] \in S
    OBVIOUS
  <2> HIDE DEF S
  <2> QED
    BY <1>1, <1>5, <2>1, Recursion
<1>8. f = body(f)
  <2>1. ASSUME NEW i \in 0 .. n, i # 0
        PROVE  f[i] = IF RuleScore(text, rules[i]) > f[i - 1].score
                      THEN [rule |-> i, score |-> RuleScore(text, rules[i])]
                      ELSE f[i - 1]
    <3>1. i \in 1 .. n /\ i - 1 \in 0 .. n
      BY <1>1, <2>1
    <3> HIDE DEF S
    <3>2. f[i - 1] \in S
      BY <3>1
    <3>3. f[i] = G[i][f[i - 1]]
      BY <1>7, <3>1 DEF Follows
    <3>4. G[i][f[i - 1]] = step(i, f[i - 1])
      BY <1>6, <3>1, <3>2
    <3>5. p[i] = RuleScore(text, rules[i])
      BY <1>4, <3>1
    <3> QED
      BY <3>3, <3>4, <3>5
  <2> QED
    BY <1>7, <2>1 DEF Follows
<1>9. best = body(best)
  BY <1>8
<1> HIDE DEF best
<1>10. best[0] = [rule |-> 0, score |-> 0] /\ \A i \in 1 .. n : best[i] = step(i, best[i - 1])
  <2>1. ASSUME NEW i \in 1 .. n
        PROVE  best[i] = step(i, best[i - 1])
    <3>1. i \in 0 .. n /\ i # 0
      BY <1>1
    <3> QED
      BY <1>4, <1>9, <3>1
  <2>2. best[0] = [rule |-> 0, score |-> 0]
    BY <1>1, <1>9
  <2> QED
    BY <2>1, <2>2
<1> DEFINE T == {i \in 0 .. n : BestOf(text, rules, i, best[i])}
<1>11. 0 \in T
  BY <1>1, <1>10 DEF BestOf
<1>12. ASSUME NEW i \in 0 .. n, i < n, BestOf(text, rules, i, best[i])
       PROVE  BestOf(text, rules, i + 1, best[i + 1]) /\ i + 1 \in 0 .. n
  <2> DEFINE b == best[i]
             d == best[i + 1]
             k == i + 1
  <2>1. k \in 1 .. n /\ k - 1 = i /\ k \in 0 .. n /\ i \in Nat /\ k \in Nat /\ k > i
    BY <1>1, <1>12
  <2>2. d = step(k, b)
    BY <1>10, <2>1
  <2>3. p[k] \in Nat /\ p[k] = RuleScore(text, rules[k])
    BY <1>2, <1>4, <2>1
  <2>4. \A j \in 1 .. k : j = k \/ j \in 1 .. i
    BY <2>1
  <2>5. /\ b \in [rule : 0 .. i, score : Nat]
        /\ b.rule = 0 => b.score = 0
        /\ b.rule # 0 => b.score = RuleScore(text, rules[b.rule]) /\ b.score > 0
        /\ \A j \in 1 .. i : RuleScore(text, rules[j]) <= b.score
        /\ \A j \in 1 .. i : j < b.rule => RuleScore(text, rules[j]) < b.score
    BY <1>12 DEF BestOf
  <2>6. \A j \in 1 .. i : RuleScore(text, rules[j]) \in Nat
    <3>1. \A j \in 1 .. i : j \in 1 .. n
      BY <1>1, <1>12
    <3> QED
      BY <1>2, <1>4, <3>1
  <2> HIDE DEF b, d, k
  <2>7. CASE p[k] > b.score
    <3>1. d.rule = k /\ d.score = p[k] /\ d \in [rule : 0 .. k, score : Nat] /\ d.rule # 0 /\ d.score > 0
      BY <2>1, <2>2, <2>3, <2>5, <2>7
    <3>2. \A j \in 1 .. i : RuleScore(text, rules[j]) < d.score /\ RuleScore(text, rules[j]) <= d.score
      BY <2>3, <2>5, <2>6, <2>7, <3>1
    <3>3. RuleScore(text, rules[k]) <= d.score /\ ~(k < d.rule)
      BY <2>1, <2>3, <3>1
    <3> QED
      BY <2>1, <2>3, <2>4, <3>1, <3>2, <3>3 DEF BestOf, d, k
  <2>8. CASE ~(p[k] > b.score)
    <3>1. d = b /\ d \in [rule : 0 .. k, score : Nat] /\ d.rule <= i
      BY <2>1, <2>2, <2>5, <2>8
    <3>2. RuleScore(text, rules[k]) <= d.score /\ ~(k < d.rule)
      BY <2>1, <2>3, <2>5, <2>8, <3>1
    <3> QED
      BY <2>1, <2>4, <2>5, <3>1, <3>2 DEF BestOf, d, k
  <2> QED
    BY <2>7, <2>8
<1>13. \A i \in 0 .. n : i < n /\ i \in T => i + 1 \in T
  BY <1>12
<1>14. n \in T
  <2> HIDE DEF T
  <2>1. \A i \in 0 .. n : i \in T
    BY <1>1, <1>11, <1>13, UpTo
  <2> QED
    BY <1>1, <2>1
<1>15. BestOf(text, rules, n, best[n])
  BY <1>14
<1>16. best[n] = [rule |-> best[n].rule, score |-> best[n].score]
  BY <1>15 DEF BestOf
<1> QED
  BY <1>3, <1>15, <1>16 DEF n

-----------------------------------------------------------------------------
(* Types *)

StoreType ==
    /\ processed \in Seq(Messages)
    /\ handling \in [Slots -> HandlingSet]
    /\ replies \in [Messages -> 0 .. Many]
    /\ since \in [Messages -> SUBSET Messages] /\ late \subseteq Messages

LEMMA RuleNumber ==
    ASSUME NEW text \in Texts, NEW rules \in RuleLists
    PROVE  BestRule(text, rules) \in 0 .. Len(rules)
<1>1. rules \in Seq(Seq(Keywords))
  BY RulesAssumption
<1> QED
  BY <1>1, BestOfRules DEF BestOf

\* A message that goes on: what its handling becomes.
LEMMA HandleSteps ==
    ASSUME OutageInv, StoreType, NEW s \in Slots, Handle(s)
    PROVE  \E h \in HandlingSet :
             /\ handling' = [handling EXCEPT ![s] = h]
             /\ h # NoHandling => h.pc # "idle" /\ h.msg = handling[s].msg
             /\ h.pc = "send" =>
                  /\ h.rules \in RuleLists /\ h.rule # 0
                  /\ h.rule = BestRule(Text[h.msg], h.rules)
<1> DEFINE g == handling[s]
<1>1. g \in HandlingSet /\ g.msg \in Messages /\ g.account \in Accounts \cup {None}
  <2>1. Busy(s)
    BY DEF Handle, AccountFound, CheckReady, FindRule, SendReply, Busy
  <2> QED
    BY <2>1 DEF OutageInv, HandledInv, StoreType, HandlingSet
<1>2. CASE Leave(s)
  <2>1. NoHandling \in HandlingSet /\ NoHandling.pc # "send"
    BY DEF NoHandling, Handling, HandlingSet
  <2>2. handling' = [handling EXCEPT ![s] = NoHandling]
    BY <1>2 DEF Leave
  <2> HIDE DEF g
  <2> QED
    BY <2>1, <2>2, Zenon
<1>3. ASSUME NEW pc \in {"ready", "rules"}, Goto(s, pc)
      PROVE  \E h \in HandlingSet :
               /\ handling' = [handling EXCEPT ![s] = h]
               /\ h.pc # "idle" /\ h.pc # "send" /\ h.msg = g.msg
  <2> DEFINE h == Handling(pc, g.msg, g.account, <<>>, 0)
  <2>1. handling' = [handling EXCEPT ![s] = h]
    BY <1>3 DEF Goto, StoreType
  <2>2. h.pc # "idle" /\ h.pc # "send" /\ h.msg = g.msg /\ h \in HandlingSet
    BY <1>1 DEF Handling, HandlingSet
  <2> QED
    BY <2>1, <2>2
<1>4. CASE FindRule(s) /\ ~Leave(s)
  <2>1. PICK rules \in RuleLists :
          /\ BestRule(Text[g.msg], rules) # 0
          /\ handling' = [handling EXCEPT ![s] =
                 Handling("send", g.msg, g.account, rules, BestRule(Text[g.msg], rules))]
    BY <1>4 DEF FindRule
  <2> DEFINE h == Handling("send", g.msg, g.account, rules, BestRule(Text[g.msg], rules))
  <2>2. rules \in Seq(Seq(Keywords)) /\ Text[g.msg] \in Texts
    BY <1>1, RulesAssumption
  <2>3. BestRule(Text[g.msg], rules) \in Nat
    BY <2>2, RuleNumber
  <2>4. /\ h.pc = "send" /\ h.msg = g.msg /\ h.rules = rules
        /\ h.rule = BestRule(Text[h.msg], rules)
    BY DEF Handling
  <2>5. h \in HandlingSet
    BY <1>1, <2>3 DEF Handling, HandlingSet
  <2> QED
    BY <2>1, <2>4, <2>5
<1> QED
  BY <1>2, <1>3, <1>4 DEF Handle, AccountFound, CheckReady, FindRule, SendReply

LEMMA NextStore ==
    ASSUME OutageInv, StoreType, [Next]_vars
    PROVE  StoreType'
<1>1. ASSUME NEW c \in Clients, NEW m \in Messages, NEW s \in Slots, Receive(c, m, s)
      PROVE  StoreType'
  <2>1. processed' \in Seq(Messages)
    BY <1>1 DEF StoreType, Receive
  <2>2. handling' \in [Slots -> HandlingSet]
    <3> DEFINE h == Handling("account", m, attached[c], <<>>, 0)
    <3>1. h \in HandlingSet
      BY <1>1 DEF Handling, HandlingSet, OutageInv, ClocksInv, Receive
    <3>2. handling' = handling \/ handling' = [handling EXCEPT ![s] = h]
      BY <1>1 DEF Receive
    <3> HIDE DEF h
    <3> QED
      BY <3>1, <3>2 DEF StoreType
  <2> QED
    BY <1>1, <2>1, <2>2 DEF StoreType, Receive, Accepted
<1>2. ASSUME NEW s \in Slots, Handle(s)
      PROVE  StoreType'
  <2>1. handling' \in [Slots -> HandlingSet]
    BY <1>2, HandleSteps DEF StoreType
  <2>2. replies' \in [Messages -> 0 .. Many]
    BY <1>2 DEF Handle, AccountFound, CheckReady, FindRule, SendReply, StoreType, history, Many
  <2> QED
    BY <1>2, <2>1, <2>2 DEF Handle, AccountFound, CheckReady, FindRule, SendReply, StoreType, history
<1>3. CASE CleanupOldMessageIds
  <2>1. /\ Len(processed) - KeepIds + 1 \in 1 .. Len(processed) + 1
        /\ Len(processed) \in Nat
    BY <1>3, IncomingAssumption DEF CleanupOldMessageIds, StoreType
  <2>2. processed' \in Seq(Messages)
    BY <1>3, <2>1, SubSeqProperties DEF CleanupOldMessageIds, StoreType
  <2> QED
    BY <1>3, <2>2 DEF CleanupOldMessageIds, StoreType, history
<1>4. CASE Crash
  <2>1. NoHandling \in HandlingSet
    BY DEF NoHandling, Handling, HandlingSet
  <2> QED
    BY <1>4, <2>1 DEF Crash, StoreType, Many
<1>5. ASSUME UNCHANGED <<processed, handling, history>>
      PROVE  StoreType'
  BY <1>5 DEF StoreType, history
<1>6. CASE Tick \/ UNCHANGED vars \/ \E m \in Messages : Write(m)
  BY <1>5, <1>6 DEF Tick, vars, Write
<1>7. CASE \E c \in Clients : Detach(c) \/ Logout(c) \/ \E a \in Accounts : SetupSession(c, a)
  BY <1>5, <1>7 DEF Detach, Logout, SetupSession
<1> QED
  BY <1>1, <1>2, <1>3, <1>4, <1>6, <1>7 DEF Next

LEMMA StoreCorrect == Spec => []StoreType
<1>1. Init => StoreType
  <2>1. NoHandling \in HandlingSet
    BY DEF NoHandling, Handling, HandlingSet
  <2> QED
    BY <2>1 DEF Init, StoreType, Many
<1>2. OutageInv /\ StoreType /\ [Next]_vars => StoreType'
  BY NextStore
<1> QED
  BY <1>1, <1>2, OutageCorrect, PTL DEF Spec

\* Clocks, sessions, cache and handlings keep their types for any accounts, messages and
\* rules, and a session start that is known is one of this life of the process.
THEOREM TypeCorrect == Spec => []TypeOK
<1>1. OutageInv /\ StoreType => TypeOK
  BY DEF OutageInv, ClocksInv, StoreType, TypeOK
<1> QED
  BY <1>1, OutageCorrect, StoreCorrect, PTL

-----------------------------------------------------------------------------
(* The rule that answers *)

\* The rule of a reply under way is what the loop over the rules found.
ChosenInv ==
    \A s \in Slots : handling[s].pc = "send" =>
       /\ handling[s].rules \in RuleLists /\ handling[s].rule # 0
       /\ handling[s].rule = BestRule(Text[handling[s].msg], handling[s].rules)

\* The loop finds a rule that matches, the first of those with the highest score.
LEMMA BestRuleIsBest ==
    ASSUME NEW text \in Texts, NEW rules \in RuleLists, BestRule(text, rules) # 0
    PROVE  LET best == BestRule(text, rules)
           IN /\ RuleScore(text, rules[best]) > 0
              /\ \A i \in DOMAIN rules \ {best} :
                   \/ RuleScore(text, rules[i]) < RuleScore(text, rules[best])
                   \/ RuleScore(text, rules[i]) = RuleScore(text, rules[best]) /\ best < i
<1> DEFINE best == BestRule(text, rules)
           n == Len(rules)
<1>1. rules \in Seq(Seq(Keywords)) /\ DOMAIN rules = 1 .. n /\ n \in Nat
  BY RulesAssumption
<1>2. PICK score : BestOf(text, rules, n, [rule |-> best, score |-> score])
  BY <1>1, BestOfRules
<1>3. \A i \in 1 .. n : RuleScore(text, rules[i]) \in Nat
  <2>1. \A i \in 1 .. n : rules[i] \in Seq(Keywords)
    BY <1>1
  <2> QED
    BY <2>1, ScoreIsNat
<1> HIDE DEF best, n
<1>4. /\ best \in 0 .. n /\ score \in Nat
      /\ best # 0 => score = RuleScore(text, rules[best]) /\ score > 0
      /\ \A j \in 1 .. n : RuleScore(text, rules[j]) <= score
      /\ \A j \in 1 .. n : j < best => RuleScore(text, rules[j]) < score
  BY <1>2 DEF BestOf
<1>5. best # 0
  BY DEF best
<1>6. ASSUME NEW i \in (1 .. n) \ {best}
      PROVE  \/ RuleScore(text, rules[i]) < RuleScore(text, rules[best])
             \/ RuleScore(text, rules[i]) = RuleScore(text, rules[best]) /\ best < i
  BY <1>1, <1>3, <1>4, <1>5
<1>7. RuleScore(text, rules[best]) > 0
  BY <1>4, <1>5
<1> QED
  BY <1>1, <1>6, <1>7 DEF best

LEMMA NextChosen ==
    ASSUME OutageInv, StoreType, ChosenInv, [Next]_vars
    PROVE  ChosenInv'
<1>1. ASSUME NEW s \in Slots, NEW h, handling' = [handling EXCEPT ![s] = h],
             h.pc = "send" =>
               /\ h.rules \in RuleLists /\ h.rule # 0
               /\ h.rule = BestRule(Text[h.msg], h.rules)
      PROVE  ChosenInv'
  <2>1. \A r \in Slots : handling'[r] = IF r = s THEN h ELSE handling[r]
    BY <1>1 DEF StoreType
  <2> QED
    BY <1>1, <2>1 DEF ChosenInv
<1>2. CASE UNCHANGED handling
  BY <1>2 DEF ChosenInv
<1>3. ASSUME NEW c \in Clients, NEW m \in Messages, NEW s \in Slots, Receive(c, m, s)
      PROVE  ChosenInv'
  <2> DEFINE h == Handling("account", m, attached[c], <<>>, 0)
  <2>1. handling' = handling \/ handling' = [handling EXCEPT ![s] = h]
    BY <1>3 DEF Receive
  <2>2. h.pc # "send"
    BY DEF Handling
  <2> QED
    BY <1>1, <1>2, <2>1, <2>2
<1>4. CASE Crash
  <2>1. \A s \in Slots : handling'[s].pc # "send"
    BY <1>4 DEF Crash, NoHandling, Handling
  <2> QED
    BY <2>1 DEF ChosenInv
<1>5. CASE Tick \/ CleanupOldMessageIds \/ UNCHANGED vars \/ \E m \in Messages : Write(m)
  BY <1>2, <1>5 DEF Tick, CleanupOldMessageIds, vars, Write
<1>6. CASE \E c \in Clients : Detach(c) \/ Logout(c) \/ \E a \in Accounts : SetupSession(c, a)
  BY <1>2, <1>6 DEF Detach, Logout, SetupSession
<1>7. ASSUME NEW s \in Slots, Handle(s)
      PROVE  ChosenInv'
  BY <1>1, <1>7, HandleSteps
<1> QED
  BY <1>3, <1>4, <1>5, <1>6, <1>7 DEF Next

\* Whatever rules the owner writes and however their keywords score: the reply is the one
\* of the first rule with the highest score, and never of a rule that does not match.
THEOREM RulesAreBest == Spec => []RuleIsBest
<1>1. Init => ChosenInv
  BY DEF Init, ChosenInv, NoHandling, Handling
<1>2. OutageInv /\ StoreType /\ ChosenInv /\ [Next]_vars => ChosenInv'
  BY NextChosen
<1>3. OutageInv /\ StoreType /\ ChosenInv => RuleIsBest
  <2> SUFFICES ASSUME OutageInv, StoreType, ChosenInv, NEW s \in Slots, handling[s].pc = "send"
               PROVE  LET text  == Text[handling[s].msg]
                          rules == handling[s].rules
                          best  == handling[s].rule
                      IN /\ RuleScore(text, rules[best]) > 0
                         /\ \A i \in DOMAIN rules \ {best} :
                              \/ RuleScore(text, rules[i]) < RuleScore(text, rules[best])
                              \/ RuleScore(text, rules[i]) = RuleScore(text, rules[best]) /\ best < i
    BY DEF RuleIsBest
  <2>1. handling[s].msg \in Messages
    BY DEF OutageInv, HandledInv, Busy
  <2>2. Text[handling[s].msg] \in Texts
    BY <2>1, RulesAssumption
  <2> QED
    BY <2>2, BestRuleIsBest DEF ChosenInv
<1> QED
  BY <1>1, <1>2, <1>3, OutageCorrect, StoreCorrect, PTL DEF Spec

-----------------------------------------------------------------------------
(* One reply in a life of the process *)

\* The cache has an id once, and what follows it there was accepted after it.
CacheInv ==
    /\ \A m \in Messages : IsFiniteSet(since[m])
    /\ \A i, j \in DOMAIN processed : i < j => processed[j] \in since[processed[i]]
    /\ \A i, j \in DOMAIN processed : processed[i] = processed[j] => i = j

Met(m) == replies[m] > 0 \/ \E s \in Slots : handling[s].msg = m

\* A message that is or was handled stays known until KeepIds others are accepted.
KnownInv ==
    \A m \in Messages : Met(m) => InCache(m) \/ Cardinality(since[m]) >= KeepIds

\* A message that was not forgotten in between is handled once, and not after its reply.
OnceInv ==
    \A m \in Messages \ late :
      /\ replies[m] <= 1
      /\ \A s \in Slots : handling[s].msg = m =>
           /\ replies[m] = 0
           /\ \A t \in Slots : handling[t].msg = m => s = t

RepliesOnce == CacheInv /\ KnownInv /\ OnceInv

\* The common part of the steps that leave the cache and the history of it alone: the
\* messages under way are some of those before.
LEMMA KeepOnce ==
    ASSUME RepliesOnce, UNCHANGED <<processed, since, late, replies>>,
           \A s \in Slots, m \in Messages : handling'[s].msg = m => handling[s].msg = m
    PROVE  RepliesOnce'
<1>1. CacheInv'
  BY DEF RepliesOnce, CacheInv
<1>2. KnownInv'
  BY DEF RepliesOnce, KnownInv, Met, InCache
<1>3. OnceInv'
  BY DEF RepliesOnce, OnceInv
<1> QED
  BY <1>1, <1>2, <1>3 DEF RepliesOnce

LEMMA ReceiveOnce ==
    ASSUME StoreType, RepliesOnce, NEW c \in Clients, NEW m \in Messages, NEW s \in Slots,
           Receive(c, m, s)
    PROVE  RepliesOnce'
<1> DEFINE n == Len(processed)
<1>1. /\ n \in Nat /\ DOMAIN processed = 1 .. n
      /\ DOMAIN processed' = 1 .. n + 1
      /\ \A i \in 1 .. n : processed'[i] = processed[i] /\ processed[i] # m /\ processed[i] \in Messages
      /\ processed'[n + 1] = m
  BY DEF StoreType, Receive, InCache
<1>2. \A l \in Messages : since'[l] = IF l = m THEN {} ELSE since[l] \cup {m}
  BY DEF Receive, Accepted
<1>3. UNCHANGED replies /\ late \subseteq late'
  BY DEF Receive, Accepted
<1> HIDE DEF n
<1>4. \A r \in Slots, l \in Messages \ {m} : handling'[r].msg = l => handling[r].msg = l
  <2> DEFINE h == Handling("account", m, attached[c], <<>>, 0)
  <2>1. handling' = handling \/ handling' = [handling EXCEPT ![s] = h]
    BY DEF Receive
  <2>2. h.msg = m
    BY DEF Handling
  <2> QED
    BY <2>1, <2>2 DEF StoreType
<1>5. ~InCache(m) /\ InCache(m)' /\ \A l \in Messages : InCache(l) => InCache(l)'
  BY <1>1 DEF InCache, Receive
<1>6. CacheInv'
  <2>1. \A l \in Messages : IsFiniteSet(since'[l])
    <3> SUFFICES ASSUME NEW l \in Messages
                 PROVE  IsFiniteSet(since'[l])
      OBVIOUS
    <3>1. IsFiniteSet(since[l] \cup {m}) /\ IsFiniteSet({})
      BY FS_EmptySet, FS_AddElement DEF RepliesOnce, CacheInv
    <3> QED
      BY <1>2, <3>1
  <2>2. ASSUME NEW i \in DOMAIN processed', NEW j \in DOMAIN processed', i < j
        PROVE  processed'[j] \in since'[processed'[i]]
    <3>0. i \in 1 .. n
      BY <1>1, <2>2
    <3>1. i \in 1 .. n /\ processed'[i] = processed[i] /\ since'[processed[i]] = since[processed[i]] \cup {m}
      BY <1>1, <1>2, <3>0
    <3>2. CASE j \in 1 .. n
      BY <1>1, <2>2, <3>1, <3>2 DEF RepliesOnce, CacheInv
    <3>3. CASE j = n + 1
      BY <1>1, <3>1, <3>3
    <3> QED
      BY <1>1, <3>2, <3>3
  <2>3. ASSUME NEW i \in DOMAIN processed', NEW j \in DOMAIN processed',
               processed'[i] = processed'[j]
        PROVE  i = j
    <3>1. (i \in 1 .. n \/ i = n + 1) /\ (j \in 1 .. n \/ j = n + 1)
      BY <1>1
    <3> QED
      BY <1>1, <2>3, <3>1 DEF RepliesOnce, CacheInv
  <2> QED
    BY <2>1, <2>2, <2>3 DEF CacheInv
<1>7. KnownInv'
  <2> SUFFICES ASSUME NEW l \in Messages, Met(l)', l # m
               PROVE  InCache(l)' \/ Cardinality(since'[l]) >= KeepIds
    BY <1>5 DEF KnownInv
  <2>1. Met(l)
    BY <1>3, <1>4 DEF Met
  <2>2. CASE InCache(l)
    BY <1>5, <2>2
  <2>3. CASE Cardinality(since[l]) >= KeepIds
    <3>1. IsFiniteSet(since[l])
      BY DEF RepliesOnce, CacheInv
    <3>2. /\ Cardinality(since[l]) \in Nat
          /\ Cardinality(since[l] \cup {m}) \in {Cardinality(since[l]), Cardinality(since[l]) + 1}
      BY <3>1, FS_CardinalityType, FS_AddElement
    <3> QED
      BY <1>2, <2>3, <3>2, IncomingAssumption
  <2> QED
    BY <2>1, <2>2, <2>3 DEF RepliesOnce, KnownInv
<1>8. m \notin late' => ~Met(m)
  <2> SUFFICES ASSUME m \notin late'
               PROVE  ~Met(m)
    OBVIOUS
  <2>1. ~(Cardinality(since[m]) >= KeepIds)
    BY DEF Receive, Accepted
  <2> QED
    BY <1>5, <2>1 DEF RepliesOnce, KnownInv
<1>9. OnceInv'
  <2>1. ASSUME NEW l \in Messages \ late', l # m
        PROVE  /\ replies'[l] <= 1
               /\ \A r \in Slots : handling'[r].msg = l =>
                    /\ replies'[l] = 0
                    /\ \A t \in Slots : handling'[t].msg = l => r = t
    <3>1. l \in Messages \ late /\ replies'[l] = replies[l]
      BY <1>3, <2>1
    <3> QED
      BY <1>4, <2>1, <3>1 DEF RepliesOnce, OnceInv
  <2>2. ASSUME m \notin late'
        PROVE  /\ replies'[m] <= 1
               /\ \A r \in Slots : handling'[r].msg = m =>
                    /\ replies'[m] = 0
                    /\ \A t \in Slots : handling'[t].msg = m => r = t
    <3>1. replies'[m] = 0 /\ \A r \in Slots : handling[r].msg # m
      <4>1. ~Met(m)
        BY <1>3, <1>8, <2>2
      <4>2. replies[m] \in Nat
        BY DEF StoreType, Many
      <4> QED
        BY <1>3, <4>1, <4>2 DEF Met
    <3>2. \A r \in Slots : handling'[r].msg = m => r = s
      BY <3>1 DEF Receive, StoreType, Handling
    <3> QED
      BY <3>1, <3>2
  <2> QED
    BY <2>1, <2>2 DEF OnceInv
<1> QED
  BY <1>6, <1>7, <1>9 DEF RepliesOnce

LEMMA HandleOnce ==
    ASSUME OutageInv, StoreType, RepliesOnce, NEW s \in Slots, Handle(s)
    PROVE  RepliesOnce'
<1>1. UNCHANGED <<processed, since, late>>
  BY DEF Handle, AccountFound, CheckReady, FindRule, SendReply, history
<1>2. \A r \in Slots, m \in Messages : handling'[r].msg = m => handling[r].msg = m
  <2>1. PICK h \in HandlingSet :
          /\ handling' = [handling EXCEPT ![s] = h]
          /\ h # NoHandling => h.msg = handling[s].msg
    BY HandleSteps
  <2>2. NoHandling.msg \notin Messages
    BY IncomingAssumption DEF NoHandling, Handling
  <2> QED
    BY <2>1, <2>2 DEF StoreType
<1>3. CASE UNCHANGED replies
  BY <1>1, <1>2, <1>3, KeepOnce
<1>4. CASE ~UNCHANGED replies
  <2> DEFINE m == handling[s].msg
  <2>1. /\ SendReply(s) /\ m \in Messages
        /\ replies' = [replies EXCEPT ![m] = IF @ = Many THEN @ ELSE @ + 1]
    BY <1>4 DEF Handle, AccountFound, CheckReady, FindRule, SendReply, history, Busy,
                OutageInv, HandledInv
  <2>2. handling'[s].msg \notin Messages /\ \A r \in Slots \ {s} : handling'[r] = handling[r]
    BY <2>1, IncomingAssumption DEF SendReply, Leave, NoHandling, Handling, StoreType
  <2>3. \A l \in Messages \ {m} : replies'[l] = replies[l]
    BY <2>1 DEF StoreType
  <2>4. m \notin late => replies'[m] = 1 /\ \A r \in Slots : handling'[r].msg # m
    <3>1. m \notin late => replies[m] = 0 /\ \A r \in Slots : handling[r].msg = m => r = s
      BY <2>1 DEF RepliesOnce, OnceInv
    <3>2. replies[m] = 0 => replies'[m] = 1
      BY <2>1 DEF StoreType, Many
    <3> QED
      BY <2>1, <2>2, <3>1, <3>2
  <2>5. CacheInv'
    BY <1>1 DEF RepliesOnce, CacheInv
  <2>6. KnownInv'
    <3>1. \A l \in Messages : Met(l)' => Met(l)
      BY <1>2, <2>3 DEF Met
    <3> QED
      BY <1>1, <3>1 DEF RepliesOnce, KnownInv, InCache
  <2> HIDE DEF m
  <2>7. OnceInv'
    BY <1>1, <1>2, <2>3, <2>4 DEF RepliesOnce, OnceInv
  <2> QED
    BY <2>5, <2>6, <2>7 DEF RepliesOnce
<1> QED
  BY <1>3, <1>4

\* An id leaves the cache only behind KeepIds others.
LEMMA CleanupOnce ==
    ASSUME StoreType, RepliesOnce, CleanupOldMessageIds
    PROVE  RepliesOnce'
<1> DEFINE n == Len(processed)
           d == n - KeepIds
<1>1. /\ n \in Nat /\ KeepIds \in Nat /\ n > KeepIds /\ DOMAIN processed = 1 .. n
      /\ processed' = SubSeq(processed, n - KeepIds + 1, n)
      /\ \A i \in 1 .. n : processed[i] \in Messages
  <2>1. processed \in Seq(Messages)
    BY DEF StoreType
  <2>2. KeepIds \in Nat /\ n > KeepIds /\ processed' = SubSeq(processed, n - KeepIds + 1, n)
    BY IncomingAssumption DEF CleanupOldMessageIds
  <2> QED
    BY <2>1, <2>2
<1>2. UNCHANGED <<handling, replies, since, late>>
  BY DEF CleanupOldMessageIds, history
<1> HIDE DEF n
<1>3. d \in Nat /\ d <= n /\ n - KeepIds + 1 \in Int
  BY <1>1
<1>4. /\ DOMAIN processed' = 1 .. KeepIds
      /\ \A i \in 1 .. KeepIds : processed'[i] = processed[d + i] /\ d + i \in 1 .. n
  <2>1. /\ processed' \in Seq(Messages)
        /\ Len(processed') = IF n - KeepIds + 1 <= n THEN n - (n - KeepIds + 1) + 1 ELSE 0
        /\ \A i \in 1 .. n - (n - KeepIds + 1) + 1 :
             processed'[i] = processed[(n - KeepIds + 1) + i - 1]
    <3>1. \A i \in n - KeepIds + 1 .. n : processed[i] \in Messages
      BY <1>1
    <3> HIDE DEF d
    <3> QED
      BY <1>1, <1>3, <3>1, SubSeqProperties
  <2>2. /\ n - (n - KeepIds + 1) + 1 = KeepIds
        /\ n - KeepIds + 1 > n => KeepIds = 0
        /\ \A i \in 1 .. KeepIds : (n - KeepIds + 1) + i - 1 = d + i /\ d + i \in 1 .. n
    BY <1>1
  <2>3. Len(processed') = KeepIds
    BY <1>1, <2>1, <2>2
  <2>4. DOMAIN processed' = 1 .. KeepIds
    BY <2>1, <2>3
  <2> HIDE DEF d
  <2> QED
    BY <2>1, <2>2, <2>4
<1>5. CacheInv'
  <2>1. ASSUME NEW i \in 1 .. KeepIds, NEW j \in 1 .. KeepIds, i < j
        PROVE  processed'[j] \in since'[processed'[i]]
    <3>1. d + i < d + j /\ d + i \in DOMAIN processed /\ d + j \in DOMAIN processed
      BY <1>1, <1>3, <1>4, <2>1
    <3> HIDE DEF d
    <3> QED
      BY <1>2, <1>4, <3>1 DEF RepliesOnce, CacheInv
  <2>2. ASSUME NEW i \in 1 .. KeepIds, NEW j \in 1 .. KeepIds, processed'[i] = processed'[j]
        PROVE  i = j
    <3>1. d + i \in DOMAIN processed /\ d + j \in DOMAIN processed
      BY <1>1, <1>4
    <3>2. d + i = d + j
      BY <1>4, <2>2, <3>1 DEF RepliesOnce, CacheInv
    <3> QED
      BY <1>1, <1>3, <3>2
  <2> QED
    BY <1>2, <1>4, <2>1, <2>2 DEF RepliesOnce, CacheInv
<1>6. KnownInv'
  <2> SUFFICES ASSUME NEW m \in Messages, Met(m), InCache(m), ~InCache(m)'
               PROVE  Cardinality(since[m]) >= KeepIds
    BY <1>2 DEF RepliesOnce, KnownInv, Met
  <2>1. PICK i \in 1 .. n : processed[i] = m
    BY <1>1 DEF InCache
  <2>2. i <= d
    <3>1. SUFFICES ASSUME i > d
                   PROVE  FALSE
      BY <1>1, <1>3
    <3>2. i - d \in 1 .. KeepIds /\ d + (i - d) = i
      BY <1>1, <3>1
    <3>3. processed'[i - d] = m
      BY <1>4, <2>1, <3>2
    <3> QED
      BY <1>4, <3>2, <3>3 DEF InCache
  <2> DEFINE Later == d + 1 .. n
             f == [j \in Later |-> processed[j]]
  <2>3. IsFiniteSet(Later) /\ Cardinality(Later) = KeepIds
    <3>1. d + 1 \in Int /\ n \in Int
      BY <1>1
    <3>2. /\ IsFiniteSet(d + 1 .. n)
          /\ Cardinality(d + 1 .. n) = IF d + 1 > n THEN 0 ELSE (n - (d + 1)) + 1
      BY <3>1, FS_Interval
    <3> QED
      BY <1>1, <3>2
  <2>4. \A j \in Later : j \in DOMAIN processed /\ i < j
    BY <1>1, <1>3, <2>2
  <2> HIDE DEF Later, d
  <2>5. f \in [Later -> since[m]]
    BY <1>1, <2>1, <2>4 DEF RepliesOnce, CacheInv
  <2>6. \A j, l \in Later : f[j] = f[l] => j = l
    BY <2>4 DEF RepliesOnce, CacheInv
  <2>7. IsFiniteSet(since[m])
    BY DEF RepliesOnce, CacheInv
  <2> HIDE DEF f
  <2>8. ~(Cardinality(since[m]) < Cardinality(Later))
    BY <2>3, <2>5, <2>6, <2>7, FS_PigeonHole
  <2>9. Cardinality(since[m]) \in Nat
    BY <2>7, FS_CardinalityType
  <2> QED
    BY <1>1, <2>3, <2>8, <2>9
<1>7. OnceInv'
  BY <1>2 DEF RepliesOnce, OnceInv
<1> QED
  BY <1>5, <1>6, <1>7 DEF RepliesOnce

LEMMA CrashOnce == Crash => RepliesOnce'
<1> SUFFICES ASSUME Crash
             PROVE  RepliesOnce'
  OBVIOUS
<1>1. /\ processed' = <<>>
      /\ \A m \in Messages : replies'[m] = 0 /\ since'[m] = {}
  BY DEF Crash
<1>2. \A s \in Slots : handling'[s].msg \notin Messages
  BY IncomingAssumption DEF Crash, NoHandling, Handling
<1>3. CacheInv'
  BY <1>1, FS_EmptySet DEF CacheInv
<1>4. KnownInv' /\ OnceInv'
  BY <1>1, <1>2 DEF KnownInv, OnceInv, Met
<1> QED
  BY <1>3, <1>4 DEF RepliesOnce

LEMMA NextOnce ==
    ASSUME OutageInv, StoreType, RepliesOnce, [Next]_vars
    PROVE  RepliesOnce'
<1>1. CASE UNCHANGED <<processed, handling, history>>
  BY <1>1, KeepOnce DEF history
<1>2. CASE Tick \/ UNCHANGED vars \/ \E m \in Messages : Write(m)
  BY <1>1, <1>2 DEF Tick, vars, Write
<1>3. CASE \E c \in Clients : Detach(c) \/ Logout(c) \/ \E a \in Accounts : SetupSession(c, a)
  BY <1>1, <1>3 DEF Detach, Logout, SetupSession
<1> QED
  BY <1>2, <1>3, ReceiveOnce, HandleOnce, CleanupOnce, CrashOnce DEF Next

\* However many Client objects and accounts deliver a message, how often, and however
\* their handling interleaves with the cleanup of the cache: while the process lives a
\* second reply takes KeepIds other messages between the two deliveries.
THEOREM OneReplyALife == Spec => []OnceALife
<1>1. Init => RepliesOnce
  <2> SUFFICES ASSUME Init
               PROVE  RepliesOnce
    OBVIOUS
  <2>1. /\ processed = <<>>
        /\ \A m \in Messages : replies[m] = 0 /\ since[m] = {}
    BY DEF Init
  <2>2. \A s \in Slots : handling[s].msg \notin Messages
    BY IncomingAssumption DEF Init, NoHandling, Handling
  <2>3. CacheInv
    BY <2>1, FS_EmptySet DEF CacheInv
  <2>4. KnownInv /\ OnceInv
    BY <2>1, <2>2 DEF KnownInv, OnceInv, Met
  <2> QED
    BY <2>3, <2>4 DEF RepliesOnce
<1>2. OutageInv /\ StoreType /\ RepliesOnce /\ [Next]_vars => RepliesOnce'
  BY NextOnce
<1>3. RepliesOnce => OnceALife
  BY DEF RepliesOnce, OnceInv, OnceALife
<1> QED
  BY <1>1, <1>2, <1>3, OutageCorrect, StoreCorrect, PTL DEF Spec
=============================================================================
