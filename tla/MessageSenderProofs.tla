------------------------ MODULE MessageSenderProofs ------------------------
(***************************************************************************)
(* Proofs about MessageSender for every value of the constants.            *)
(***************************************************************************)
EXTENDS MessageSender, FiniteSetTheorems, TLAPS

CallType == [pc : {"idle", "user", "validate"} \cup SendPhase,
             client : Clients \cup {None}, obj : Instances \cup {None},
             rows : Nat, left : Nat]

-----------------------------------------------------------------------------
(* Types *)

LEMMA NoCallType == NoCall \in CallType
  BY DEF NoCall, Call, CallType

LEMMA InitType == Init => TypeOK
  BY SenderAssumption, NoCallType
     DEF Init, TypeOK, SessionType, CallsType, CountersType, CallType, NoCall, Call

\* A call that changes place, or ends, stays well formed.
LEMMA CallsChange ==
    ASSUME CallsType, NEW k \in Calls, NEW r \in CallType,
           r.pc # "idle" => r.client \in Clients,
           calls' = [calls EXCEPT ![k] = r]
    PROVE  CallsType'
  BY DEF CallsType, CallType

LEMMA GotoType ==
    ASSUME CallsType, NEW k \in Calls, calls[k].pc # "idle",
           NEW pc \in {"validate"} \cup SendPhase, Goto(k, pc)
    PROVE  CallsType'
<1> DEFINE r == Call(pc, calls[k].client, calls[k].obj, calls[k].rows, calls[k].left)
<1>1. r \in CallType /\ r.client \in Clients
  BY DEF Call, CallType, CallsType
<1>2. calls' = [calls EXCEPT ![k] = r]
  BY DEF Goto, CallsType
<1> QED
  BY <1>1, <1>2, CallsChange

LEMMA EndType ==
    ASSUME CallsType, NEW k \in Calls, calls' = [calls EXCEPT ![k] = NoCall]
    PROVE  CallsType'
  BY NoCallType, CallsChange DEF NoCall, Call

\* The loops keep the types.
LEMMA AdvanceType ==
    ASSUME CallsType, sending \subseteq Instances, NEW k \in Calls, calls[k].pc # "idle",
           Advance(k)
    PROVE  CallsType' /\ sending' \subseteq Instances
<1> DEFINE c == calls[k]
<1>1. /\ c \in CallType
      /\ c.client \in Clients
  BY DEF CallsType, CallType
<1>2. CASE /\ c.left > 1
           /\ calls' = [calls EXCEPT ![k] = Call("check", c.client, c.obj, c.rows, c.left - 1)]
           /\ UNCHANGED sending
  <2> DEFINE r == Call("check", c.client, c.obj, c.rows, c.left - 1)
  <2>1. r \in CallType /\ r.client \in Clients
    <3>1. c.left - 1 \in Nat /\ c.rows \in Nat /\ c.obj \in Instances \cup {None}
      BY <1>1, <1>2 DEF CallType
    <3> QED
      BY <1>1, <3>1 DEF Call, CallType, SendPhase
  <2> QED
    BY <1>2, <2>1, CallsChange
<1>3. CASE /\ c.left <= 1 /\ c.rows > 0
           /\ calls' = [calls EXCEPT ![k] = Call("resolve", c.client, c.obj, c.rows - 1, 0)]
           /\ UNCHANGED sending
  <2> DEFINE r == Call("resolve", c.client, c.obj, c.rows - 1, 0)
  <2>1. r \in CallType /\ r.client \in Clients
    <3>1. c.rows - 1 \in Nat /\ c.obj \in Instances \cup {None}
      BY <1>1, <1>3 DEF CallType
    <3> QED
      BY <1>1, <3>1 DEF Call, CallType, SendPhase
  <2> QED
    BY <1>3, <2>1, CallsChange
<1>4. CASE Finish(k)
  BY <1>4, EndType DEF Finish
<1> QED
  BY <1>2, <1>3, <1>4 DEF Advance, NextRecipient, NextRow

LEMMA CallStepType ==
    ASSUME TypeOK, NEW k \in Calls, CallStep(k)
    PROVE  TypeOK'
<1> USE DEF TypeOK
<1>0. calls[k].pc # "idle"
  BY DEF CallStep, CheckUser, Validate, Resolve, CheckConnection, SendMessage, AwaitAck,
         IncrementMessageUsage
<1>1. CASE CheckUser(k)
  <2>1. CallsType'
    BY <1>0, <1>1, GotoType, EndType DEF CheckUser
  <2> QED
    BY <1>1, <2>1 DEF CheckUser, session, SessionType, CountersType
<1>2. CASE Validate(k)
  <2>1. CallsType'
    BY <1>0, <1>2, GotoType, EndType DEF Validate, SendPhase
  <2>2. SessionType'
    BY <1>0, <1>2 DEF Validate, MarkUnhealthy, SessionType, CallsType
  <2> QED
    BY <1>2, <2>1, <2>2 DEF Validate, CountersType
<1>3. CASE Resolve(k)
  <2>1. CASE Advance(k)
    BY <1>0, <1>3, <2>1, AdvanceType DEF Resolve, SessionType, CountersType
  <2>2. CASE UNCHANGED sending /\ \E n \in Sizes \ {0} :
               calls' = [calls EXCEPT ![k] = Call("check", @.client, @.obj, @.rows, n)]
    <3>1. PICK n \in Sizes \ {0} :
            calls' = [calls EXCEPT ![k] = Call("check", @.client, @.obj, @.rows, n)]
      BY <2>2
    <3> DEFINE r == Call("check", calls[k].client, calls[k].obj, calls[k].rows, n)
    <3>2. n \in Nat
      BY SenderAssumption
    <3>3. r \in CallType /\ r.client \in Clients
      BY <1>0, <3>2 DEF Call, CallType, CallsType, SendPhase
    <3>4. calls' = [calls EXCEPT ![k] = r]
      BY <3>1 DEF CallsType
    <3>5. CallsType'
      BY <3>3, <3>4, CallsChange
    <3> QED
      BY <1>3, <2>2, <3>5 DEF Resolve, SessionType, CountersType
  <2> QED
    BY <1>3, <2>1, <2>2 DEF Resolve
<1>4. CASE CheckConnection(k)
  <2>1. CallsType' /\ sending' \subseteq Instances
    BY <1>0, <1>4, GotoType, AdvanceType DEF CheckConnection, SendPhase, SessionType
  <2> QED
    BY <1>4, <2>1 DEF CheckConnection, MarkUnhealthy, SessionType, CountersType
<1>5. CASE SendMessage(k)
  <2>1. CallsType' /\ sending' \subseteq Instances
    BY <1>0, <1>5, GotoType, AdvanceType DEF SendMessage, HandleSendError, SendPhase, SessionType
  <2> QED
    BY <1>5, <2>1 DEF SendMessage, HandleSendError, MarkUnhealthy, SessionType, CountersType
<1>6. CASE AwaitAck(k)
  <2>1. CallsType' /\ sending' \subseteq Instances
    BY <1>0, <1>6, GotoType, AdvanceType DEF AwaitAck, SendPhase, SessionType
  <2> QED
    BY <1>6, <2>1 DEF AwaitAck, MarkUnhealthy, SessionType, CountersType
<1>7. CASE IncrementMessageUsage(k)
  <2>1. CallsType' /\ sending' \subseteq Instances
    BY <1>0, <1>7, AdvanceType DEF IncrementMessageUsage, SessionType
  <2>2. CountersType'
    BY <1>7, SenderAssumption DEF IncrementMessageUsage, CountersType
  <2> QED
    BY <1>7, <2>1, <2>2 DEF IncrementMessageUsage, SessionType
<1> QED
  BY <1>1, <1>2, <1>3, <1>4, <1>5, <1>6, <1>7 DEF CallStep

LEMMA RequestType ==
    ASSUME TypeOK, NEW k \in Calls, NEW c \in Clients, Request(k, c)
    PROVE  TypeOK'
<1> USE DEF TypeOK
<1>1. PICK n \in RowCounts :
        calls' = [calls EXCEPT ![k] = Call("user", c, registry[c], n - 1, 0)]
  BY DEF Request
<1> DEFINE r == Call("user", c, registry[c], n - 1, 0)
<1>2. n - 1 \in Nat
  BY SenderAssumption
<1>3. r \in CallType /\ r.client \in Clients
  BY <1>2 DEF Call, CallType, SessionType
<1>4. CallsType'
  BY <1>1, <1>3, CallsChange
<1>5. CountersType'
  BY SenderAssumption DEF Request, CountersType
<1> QED
  BY <1>4, <1>5 DEF Request, session, SessionType

LEMMA EnvironmentType ==
    ASSUME TypeOK,
           \/ \E c \in Clients : SessionReady(c) \/ SessionRebuilt(c) \/ SessionReleased(c)
           \/ \E u \in Users : Renew(u)
    PROVE  TypeOK'
<1>1. ASSUME NEW c \in Clients, SessionReady(c) \/ SessionRebuilt(c) \/ SessionReleased(c)
      PROVE  TypeOK'
  <2>1. SessionType'
    BY <1>1 DEF TypeOK, SessionType, SessionReady, SessionRebuilt, SessionReleased, Free
  <2> QED
    BY <1>1, <2>1 DEF TypeOK, CallsType, CountersType, SessionReady, SessionRebuilt,
                      SessionReleased
<1>2. ASSUME NEW u \in Users, Renew(u)
      PROVE  TypeOK'
  BY <1>2 DEF TypeOK, SessionType, CallsType, CountersType, Renew, session
<1> QED
  BY <1>1, <1>2

LEMMA NextType == TypeOK /\ [Next]_vars => TypeOK'
<1>1. TypeOK /\ UNCHANGED vars => TypeOK'
  BY DEF vars, session, TypeOK, SessionType, CallsType, CountersType
<1> QED
  BY <1>1, CallStepType, RequestType, EnvironmentType DEF Next

\* Calls, sessions and counters keep their types for any number of accounts, calls
\* and recipients.
THEOREM TypeCorrect == Spec => []TypeOK
  BY InitType, NextType, PTL DEF Spec

-----------------------------------------------------------------------------
(* isSending is never left up *)

\* A session object is registered for one client only; without this a call could
\* raise the flag of another account.
OneClientPerSession ==
    \A c, d \in Clients : registry[c] = registry[d] /\ registry[c] # None => c = d

FlagInv == OneClientPerSession /\ FlagHasSender

\* What a step of a call may do to the registry, the flags and the calls: it is
\* still sending, or it has reset the flag of its account.
LEMMA AdvanceFlag ==
    ASSUME TypeOK, NEW k \in Calls, Sending(k), Advance(k)
    PROVE  \/ /\ UNCHANGED sending
              /\ Sending(k)' /\ calls'[k].client = calls[k].client
              /\ \A l \in Calls \ {k} : calls'[l] = calls[l]
           \/ /\ sending' = sending \ {registry[calls[k].client]}
              /\ \A l \in Calls \ {k} : calls'[l] = calls[l]
  BY DEF Advance, NextRecipient, NextRow, Finish, Sending, SendPhase, Call, TypeOK, CallsType

LEMMA GotoFlag ==
    ASSUME TypeOK, NEW k \in Calls, NEW pc \in SendPhase, Goto(k, pc)
    PROVE  /\ Sending(k)' /\ calls'[k].client = calls[k].client
           /\ \A l \in Calls \ {k} : calls'[l] = calls[l]
  BY DEF Goto, Sending, Call, TypeOK, CallsType

\* The step of a sending call keeps the invariant in both cases.
LEMMA SendingStep ==
    ASSUME TypeOK, FlagInv, UNCHANGED registry, NEW k \in Calls, Sending(k),
           \A l \in Calls \ {k} : calls'[l] = calls[l],
           \/ UNCHANGED sending /\ Sending(k)' /\ calls'[k].client = calls[k].client
           \/ sending' = sending \ {registry[calls[k].client]}
    PROVE  FlagInv'
<1>1. OneClientPerSession'
  BY DEF FlagInv, OneClientPerSession
<1>2. ASSUME NEW c \in Clients, registry[c] \in sending'
      PROVE  \E l \in Calls : Sending(l)' /\ calls'[l].client = c
  <2>1. registry[c] \in sending
    BY <1>2
  <2>2. PICK l \in Calls : Sending(l) /\ calls[l].client = c
    BY <2>1 DEF FlagInv, FlagHasSender
  <2>3. CASE l # k
    BY <2>2, <2>3 DEF Sending
  <2>4. CASE l = k
    BY <1>2, <2>2, <2>4
  <2> QED
    BY <2>3, <2>4
<1> QED
  BY <1>1, <1>2 DEF FlagInv, FlagHasSender

LEMMA CallStepFlag ==
    ASSUME TypeOK, FlagInv, NEW k \in Calls, CallStep(k)
    PROVE  FlagInv'
<1>1. CASE CheckUser(k)
  <2>1. /\ UNCHANGED <<registry, sending>>
        /\ \A l \in Calls : Sending(l) => calls'[l] = calls[l]
    BY <1>1 DEF CheckUser, session, Goto, Sending, SendPhase, TypeOK, CallsType
  <2> QED
    BY <2>1 DEF FlagInv, OneClientPerSession, FlagHasSender, Sending
<1>2. CASE Validate(k)
  <2> DEFINE c == calls[k].client
  <2>1. calls[k].pc = "validate" /\ ~Sending(k) /\ UNCHANGED registry /\ c \in Clients
    BY <1>2 DEF Validate, Sending, SendPhase, TypeOK, CallsType
  <2>2. \A l \in Calls : Sending(l) => calls'[l] = calls[l]
    BY <1>2, <2>1 DEF Validate, Goto, TypeOK, CallsType
  <2>3. OneClientPerSession'
    BY <2>1 DEF FlagInv, OneClientPerSession
  <2>4. CASE UNCHANGED sending
    BY <2>1, <2>2, <2>3, <2>4 DEF FlagInv, FlagHasSender, Sending
  <2>5. CASE Goto(k, "resolve") /\ sending' = sending \cup ({registry[c]} \ {None})
    <3>1. Sending(k)' /\ calls'[k].client = c
      BY <2>5, GotoFlag DEF SendPhase
    <3>2. ASSUME NEW d \in Clients, registry[d] \in sending'
          PROVE  \E l \in Calls : Sending(l)' /\ calls'[l].client = d
      <4>1. CASE registry[d] \in sending
        BY <2>2, <4>1 DEF FlagInv, FlagHasSender, Sending
      <4>2. CASE registry[d] = registry[c] /\ registry[c] # None
        BY <2>1, <3>1, <4>2 DEF FlagInv, OneClientPerSession
      <4> QED
        BY <2>5, <3>2, <4>1, <4>2
    <3> QED
      BY <2>1, <2>3, <3>2 DEF FlagInv, FlagHasSender
  <2> QED
    BY <1>2, <2>4, <2>5 DEF Validate
<1>3. CASE Resolve(k)
  <2>1. Sending(k) /\ UNCHANGED registry
    BY <1>3 DEF Resolve, Sending, SendPhase
  <2>2. CASE Advance(k)
    BY <2>1, <2>2, AdvanceFlag, SendingStep
  <2>3. CASE ~Advance(k)
    <3>1. /\ UNCHANGED sending /\ Sending(k)' /\ calls'[k].client = calls[k].client
          /\ \A l \in Calls \ {k} : calls'[l] = calls[l]
      BY <1>3, <2>3 DEF Resolve, Sending, SendPhase, Call, TypeOK, CallsType
    <3> QED
      BY <2>1, <3>1, SendingStep
  <2> QED
    BY <2>2, <2>3
<1>4. CASE CheckConnection(k) \/ SendMessage(k) \/ AwaitAck(k) \/ IncrementMessageUsage(k)
  <2>1. Sending(k) /\ UNCHANGED registry
    BY <1>4 DEF CheckConnection, SendMessage, AwaitAck, IncrementMessageUsage, Sending, SendPhase
  <2>2. Advance(k) \/ (UNCHANGED sending /\ \E pc \in SendPhase : Goto(k, pc))
    BY <1>4 DEF CheckConnection, SendMessage, HandleSendError, AwaitAck, IncrementMessageUsage,
           SendPhase
  <2> QED
    BY <2>1, <2>2, AdvanceFlag, GotoFlag, SendingStep
<1> QED
  BY <1>1, <1>2, <1>3, <1>4 DEF CallStep

LEMMA NextFlag ==
    ASSUME TypeOK, FlagInv, [Next]_vars
    PROVE  FlagInv'
<1>1. ASSUME NEW k \in Calls, CallStep(k)
      PROVE  FlagInv'
  BY <1>1, CallStepFlag
<1>2. ASSUME NEW k \in Calls, NEW c \in Clients, Request(k, c)
      PROVE  FlagInv'
  <2>1. /\ UNCHANGED <<registry, sending>>
        /\ \A l \in Calls : Sending(l) => calls'[l] = calls[l]
    BY <1>2 DEF Request, session, NoCall, Call, Sending, SendPhase, TypeOK, CallsType
  <2> QED
    BY <2>1 DEF FlagInv, OneClientPerSession, FlagHasSender, Sending
<1>3. ASSUME NEW c \in Clients, SessionReady(c)
      PROVE  FlagInv'
  BY <1>3 DEF SessionReady, FlagInv, OneClientPerSession, FlagHasSender, Sending
<1>4. ASSUME NEW c \in Clients, SessionRebuilt(c)
      PROVE  FlagInv'
  <2>1. PICK i \in Free : /\ registry' = [registry EXCEPT ![c] = i]
                          /\ sending' = sending \ {i} /\ UNCHANGED calls
    BY <1>4 DEF SessionRebuilt
  <2>2. i \in Instances /\ \A d \in Clients : registry[d] # i
    BY DEF Free
  <2>3. \A d \in Clients : registry'[d] = IF d = c THEN i ELSE registry[d]
    BY <2>1 DEF TypeOK, SessionType
  <2> QED
    BY <2>1, <2>2, <2>3 DEF FlagInv, OneClientPerSession, FlagHasSender, Sending
<1>5. ASSUME NEW c \in Clients, SessionReleased(c)
      PROVE  FlagInv'
  <2>1. \A d \in Clients : registry'[d] = registry[d] \/ registry'[d] = None
    BY <1>5 DEF SessionReleased, TypeOK, SessionType
  <2>2. None \notin sending
    BY SenderAssumption DEF TypeOK, SessionType
  <2> QED
    BY <1>5, <2>1, <2>2
       DEF SessionReleased, FlagInv, OneClientPerSession, FlagHasSender, Sending
<1>6. ASSUME UNCHANGED <<registry, sending, calls>>
      PROVE  FlagInv'
  BY <1>6 DEF FlagInv, OneClientPerSession, FlagHasSender, Sending
<1>7. (\E u \in Users : Renew(u)) \/ UNCHANGED vars => UNCHANGED <<registry, sending, calls>>
  BY DEF Renew, vars, session
<1> QED
  BY <1>1, <1>2, <1>3, <1>4, <1>5, <1>6, <1>7 DEF Next

\* An account never stays refused as "sending" without a call that is going to reset
\* the flag, for any number of accounts, overlapping calls and session rebuilds.
THEOREM FlagCorrect == Spec => []FlagHasSender
<1>1. Init => FlagInv
  BY DEF Init, FlagInv, OneClientPerSession, FlagHasSender
<1>2. FlagInv => FlagHasSender
  BY DEF FlagInv
<1> QED
  BY <1>1, <1>2, TypeCorrect, NextFlag, PTL DEF Spec

-----------------------------------------------------------------------------
(* The quota *)

MaxRows == Largest(RowCounts)
MaxSize == Largest(Sizes)

Chosen == {"check", "recheck", "send", "ack", "count"}

\* What a call may still charge: its rows at their largest, and what is left of this one.
RemainingOf(c) ==
    IF c.pc \in {"validate", "resolve"} THEN (c.rows + 1) * MaxSize
    ELSE IF c.pc \in Chosen THEN c.left + c.rows * MaxSize
    ELSE 0

Remaining(k) == RemainingOf(calls[k])

\* The messages the calls may still charge to user u, one pair for each.
Charges(u) ==
    {e \in Calls \X (1 .. MaxPerCall) :
        e[2] <= Remaining(e[1]) /\ Owner[calls[e[1]].client] = u}

\* Rows and recipients that are left are within those of a request.
Within(c) ==
    /\ c.pc # "idle" => c.rows < MaxRows
    /\ c.pc \in {"user", "validate", "resolve"} => c.left = 0
    /\ c.pc \in Chosen => c.left \in 1 .. MaxSize

WithinRequest == \A k \in Calls : Within(calls[k])

\* What was charged and what may still be charged stay below the bound together.
ChargesBounded ==
    \A u \in Users :
      used[u] + Cardinality(Charges(u)) < Limit + Cardinality(Calls) * MaxPerCall

QuotaInv == WithinRequest /\ ChargesBounded

LEMMA Maxima ==
    /\ MaxRows \in Nat \ {0} /\ \A q \in RowCounts : q <= MaxRows
    /\ MaxSize \in Nat \ {0} /\ \A n \in Sizes : n <= MaxSize
<1>1. PICK r \in RowCounts : \A q \in RowCounts : q <= r
  BY SenderAssumption
<1>2. MaxRows \in RowCounts /\ \A q \in RowCounts : q <= MaxRows
  BY <1>1 DEF MaxRows, Largest
<1>3. PICK n \in Sizes : n # 0 /\ \A m \in Sizes : m <= n
  BY SenderAssumption
<1>4. MaxSize \in Sizes /\ \A m \in Sizes : m <= MaxSize
  BY <1>3 DEF MaxSize, Largest
<1>5. n <= MaxSize /\ n \in Nat /\ n # 0 /\ MaxSize \in Nat
  BY <1>3, <1>4, SenderAssumption
<1>6. MaxSize # 0
  BY <1>5
<1> QED
  BY <1>2, <1>4, <1>5, <1>6, SenderAssumption

\* Products of naturals, for the prover's sake.
LEMMA Product ==
    ASSUME NEW a \in Nat, NEW b \in Nat, NEW n \in Nat, a <= b
    PROVE  /\ a * n \in Nat /\ b * n \in Nat /\ a * n <= b * n
           /\ (a + 1) * n = a * n + n
<1>1. /\ a * n \in Nat /\ b * n \in Nat
      /\ (a + 1) * n = a * n + n
  OBVIOUS
<1>2. PICK d \in Nat : b = a + d
  <2>1. b - a \in Nat /\ b = a + (b - a)
    OBVIOUS
  <2> QED
    BY <2>1
<1>3. b * n = a * n + d * n /\ d * n \in Nat
  BY <1>2
<1> QED
  BY <1>1, <1>3

LEMMA RemainingType ==
    ASSUME NEW c \in CallType, Within(c)
    PROVE  /\ RemainingOf(c) \in Nat /\ RemainingOf(c) <= MaxPerCall
           /\ c.pc \in Chosen => RemainingOf(c) >= 1
<1>1. /\ c.rows \in Nat /\ c.left \in Nat /\ MaxRows \in Nat /\ MaxSize \in Nat
      /\ MaxPerCall = MaxRows * MaxSize
  BY Maxima DEF CallType, MaxPerCall, MaxRows, MaxSize
<1>2. CASE c.pc \in {"validate", "resolve"}
  <2>1. c.rows + 1 \in Nat /\ c.rows + 1 <= MaxRows
    BY <1>1, <1>2 DEF Within
  <2>2. (c.rows + 1) * MaxSize \in Nat /\ (c.rows + 1) * MaxSize <= MaxRows * MaxSize
    BY <1>1, <2>1, Product
  <2> QED
    BY <1>1, <1>2, <2>2 DEF RemainingOf, Chosen
<1>3. CASE c.pc \in Chosen
  <2>1. c.rows + 1 \in Nat /\ c.rows + 1 <= MaxRows /\ c.left \in 1 .. MaxSize
    BY <1>1, <1>3 DEF Within, Chosen
  <2>2. /\ (c.rows + 1) * MaxSize <= MaxRows * MaxSize
        /\ MaxRows * MaxSize \in Nat
    BY <1>1, <2>1, Product
  <2>3. /\ (c.rows + 1) * MaxSize = c.rows * MaxSize + MaxSize
        /\ c.rows * MaxSize \in Nat
    BY <1>1, Product
  <2>4. RemainingOf(c) = c.left + c.rows * MaxSize
    BY <1>3 DEF RemainingOf, Chosen
  <2> QED
    BY <1>1, <2>1, <2>2, <2>3, <2>4
<1>4. CASE c.pc \notin {"validate", "resolve"} \cup Chosen
  <2>1. MaxRows * MaxSize \in Nat
    BY <1>1, Product
  <2> QED
    BY <1>1, <1>4, <2>1 DEF RemainingOf
<1> QED
  BY <1>2, <1>3, <1>4

LEMMA CallsWithin ==
    /\ TypeOK /\ WithinRequest => \A k \in Calls : calls[k] \in CallType /\ Within(calls[k])
    /\ TypeOK' /\ WithinRequest' => \A k \in Calls : calls'[k] \in CallType /\ Within(calls'[k])
  BY DEF TypeOK, CallsType, CallType, WithinRequest

LEMMA ChargesFinite ==
    ASSUME NEW C, C \subseteq Calls \X (1 .. MaxPerCall)
    PROVE  /\ IsFiniteSet(C) /\ Cardinality(C) \in Nat
           /\ Cardinality(C) <= Cardinality(Calls) * MaxPerCall
           /\ Cardinality(Calls) * MaxPerCall \in Nat
<1>1. MaxPerCall \in Nat
  <2>1. MaxPerCall = MaxRows * MaxSize
    BY DEF MaxPerCall, MaxRows, MaxSize
  <2> QED
    BY <2>1, Maxima, Product
<1>2. IsFiniteSet(1 .. MaxPerCall) /\ Cardinality(1 .. MaxPerCall) = MaxPerCall
  BY <1>1, FS_Interval
<1>3. IsFiniteSet(Calls) /\ Cardinality(Calls) \in Nat
  BY SenderAssumption, FS_CardinalityType
<1>4. /\ IsFiniteSet(Calls \X (1 .. MaxPerCall))
      /\ Cardinality(Calls \X (1 .. MaxPerCall)) = Cardinality(Calls) * MaxPerCall
  BY <1>2, <1>3, FS_Product
<1>5. /\ IsFiniteSet(C)
      /\ Cardinality(C) <= Cardinality(Calls \X (1 .. MaxPerCall))
  BY <1>4, FS_Subset
<1> QED
  BY <1>1, <1>3, <1>4, <1>5, FS_CardinalityType, Product

LEMMA ChargesAre ==
    ASSUME NEW u
    PROVE  /\ Charges(u) \subseteq Calls \X (1 .. MaxPerCall)
           /\ Charges(u)' \subseteq Calls \X (1 .. MaxPerCall)
  BY DEF Charges

\* A step of call k that gives it no more to send than it had.
Yields(k) ==
    /\ \A l \in Calls \ {k} : calls'[l] = calls[l]
    /\ Remaining(k)' <= Remaining(k)
    /\ Remaining(k)' > 0 => calls'[k].client = calls[k].client

LEMMA OthersRemaining ==
    ASSUME NEW k, NEW l, calls'[l] = calls[l]
    PROVE  Remaining(l)' = Remaining(l)
  BY DEF Remaining

LEMMA ChargesYield ==
    ASSUME TypeOK, WithinRequest, NEW k \in Calls, Yields(k), Remaining(k)' \in Nat, NEW u
    PROVE  /\ Charges(u)' \subseteq Charges(u)
           /\ Remaining(k)' < Remaining(k) /\ u = Owner[calls[k].client] =>
                Cardinality(Charges(u)') < Cardinality(Charges(u))
<1>1. Remaining(k) \in Nat /\ Remaining(k) <= MaxPerCall
  BY RemainingType, CallsWithin DEF Remaining
<1>2. Charges(u)' \subseteq Charges(u)
  <2> SUFFICES ASSUME NEW l \in Calls, NEW j \in 1 .. MaxPerCall, <<l, j>> \in Charges(u)'
               PROVE  <<l, j>> \in Charges(u)
    BY DEF Charges
  <2>1. j <= Remaining(l)' /\ Owner[calls'[l].client] = u
    BY DEF Charges
  <2>2. CASE l # k
    BY <2>1, <2>2, OthersRemaining DEF Charges, Yields
  <2>3. CASE l = k
    <3>1. MaxPerCall \in Nat
      BY Maxima, Product DEF MaxPerCall, MaxRows, MaxSize
    <3>2. j <= Remaining(k) /\ Remaining(k)' > 0
      BY <1>1, <2>1, <2>3, <3>1 DEF Yields
    <3> QED
      BY <2>1, <2>3, <3>2 DEF Charges, Yields
  <2> QED
    BY <2>2, <2>3
<1>3. ASSUME Remaining(k)' < Remaining(k), u = Owner[calls[k].client]
      PROVE  Cardinality(Charges(u)') < Cardinality(Charges(u))
  <2> DEFINE e == <<k, Remaining(k)>>
  <2>1. e \in Charges(u)
    BY <1>1, <1>3 DEF Charges
  <2>2. e \notin Charges(u)'
    BY <1>1, <1>3 DEF Charges
  <2>3. Charges(u)' \subseteq Charges(u) \ {e}
    BY <1>2, <2>2
  <2> HIDE DEF e
  <2>4. /\ IsFiniteSet(Charges(u) \ {e})
        /\ Cardinality(Charges(u) \ {e}) = Cardinality(Charges(u)) - 1
    BY <2>1, ChargesAre, ChargesFinite, FS_RemoveElement
  <2>5. Cardinality(Charges(u)') <= Cardinality(Charges(u) \ {e})
        /\ Cardinality(Charges(u)') \in Nat
    BY <2>3, <2>4, FS_Subset, FS_CardinalityType
  <2> QED
    BY <2>4, <2>5, ChargesAre, ChargesFinite
<1> QED
  BY <1>2, <1>3

\* A user is charged at most for what a call of his gives up.
LEMMA YieldBounded ==
    ASSUME TypeOK, TypeOK', QuotaInv, WithinRequest', NEW k \in Calls, Yields(k),
           \/ UNCHANGED used
           \/ /\ used' = [used EXCEPT ![Owner[calls[k].client]] = @ + 1]
              /\ Remaining(k)' < Remaining(k)
    PROVE  QuotaInv'
<1>1. Remaining(k)' \in Nat
  <2>1. Remaining(k) \in Nat /\ Remaining(k)' \in Nat
    BY RemainingType, CallsWithin DEF QuotaInv, Remaining
  <2> QED
    BY <2>1
<1>2. ASSUME NEW u \in Users
      PROVE  used'[u] + Cardinality(Charges(u)') < Limit + Cardinality(Calls) * MaxPerCall
  <2>1. /\ Charges(u)' \subseteq Charges(u)
        /\ Remaining(k)' < Remaining(k) /\ u = Owner[calls[k].client] =>
             Cardinality(Charges(u)') < Cardinality(Charges(u))
    BY <1>1, ChargesYield DEF QuotaInv
  <2>2. /\ Cardinality(Charges(u)) \in Nat /\ Cardinality(Charges(u)') \in Nat
        /\ Cardinality(Charges(u)') <= Cardinality(Charges(u))
        /\ Cardinality(Calls) * MaxPerCall \in Nat
    BY <2>1, ChargesAre, ChargesFinite, FS_Subset
  <2>3. used[u] \in Nat /\ Limit \in Nat
    BY SenderAssumption DEF TypeOK, CountersType
  <2>4. used[u] + Cardinality(Charges(u)) < Limit + Cardinality(Calls) * MaxPerCall
    BY DEF QuotaInv, ChargesBounded
  <2>5. CASE used'[u] = used[u]
    BY <2>2, <2>3, <2>4, <2>5
  <2>6. CASE used'[u] # used[u]
    <3>1. /\ u = Owner[calls[k].client] /\ Remaining(k)' < Remaining(k)
          /\ used'[u] = used[u] + 1
      BY <2>6 DEF TypeOK, CountersType
    <3>2. Cardinality(Charges(u)') < Cardinality(Charges(u))
      BY <2>1, <3>1
    <3> HIDE DEF Remaining
    <3> QED
      BY <2>2, <2>3, <2>4, <3>1, <3>2
  <2> QED
    BY <2>5, <2>6
<1> QED
  BY <1>2 DEF QuotaInv, ChargesBounded

\* Call k has become d.
LEMMA BecomesYields ==
    ASSUME TypeOK, WithinRequest, NEW k \in Calls, NEW d, Within(d),
           calls' = [calls EXCEPT ![k] = d],
           RemainingOf(d) <= RemainingOf(calls[k]),
           RemainingOf(d) > 0 => d.client = calls[k].client
    PROVE  /\ WithinRequest' /\ Yields(k)
           /\ Remaining(k)' = RemainingOf(d) /\ Remaining(k) = RemainingOf(calls[k])
<1>1. \A l \in Calls : calls'[l] = IF l = k THEN d ELSE calls[l]
  BY DEF TypeOK, CallsType
<1>2. WithinRequest'
  BY <1>1 DEF WithinRequest
<1>3. Remaining(k)' = RemainingOf(d) /\ Remaining(k) = RemainingOf(calls[k])
  BY <1>1 DEF Remaining
<1> QED
  BY <1>1, <1>2, <1>3 DEF Yields

\* What the loops make of a call.
LEMMA AdvanceYields ==
    ASSUME TypeOK, WithinRequest, NEW k \in Calls, calls[k].pc \in {"resolve"} \cup Chosen,
           Advance(k)
    PROVE  /\ WithinRequest' /\ Yields(k)
           /\ calls[k].pc \in Chosen => Remaining(k)' < Remaining(k)
<1> DEFINE c == calls[k]
<1>1. /\ c \in CallType /\ Within(c) /\ c.rows \in Nat /\ c.left \in Nat
      /\ MaxSize \in Nat /\ MaxSize > 0 /\ MaxRows \in Nat
  BY CallsWithin, Maxima DEF CallType
<1>2. /\ RemainingOf(c) \in Nat
      /\ c.pc \in Chosen => RemainingOf(c) >= 1
  BY <1>1, RemainingType
<1>3. /\ c.rows * MaxSize \in Nat
      /\ (c.rows + 1) * MaxSize = c.rows * MaxSize + MaxSize
  BY <1>1, Product
<1>4. RemainingOf(c) = IF c.pc = "resolve" THEN (c.rows + 1) * MaxSize ELSE c.left + c.rows * MaxSize
  BY DEF RemainingOf, Chosen
<1>5. c.pc \in Chosen => c.left >= 1 /\ c.left <= MaxSize
  BY <1>1 DEF Within
<1>6. c.pc = "resolve" => c.left = 0
  BY <1>1 DEF Within
<1>7. SUFFICES ASSUME NEW d, calls' = [calls EXCEPT ![k] = d],
                      Within(d), RemainingOf(d) <= RemainingOf(c),
                      c.pc \in Chosen => RemainingOf(d) < RemainingOf(c),
                      RemainingOf(d) > 0 => d.client = c.client
               PROVE  /\ WithinRequest' /\ Yields(k)
                      /\ c.pc \in Chosen => Remaining(k)' < Remaining(k)
  <2>1. CASE NextRecipient(k)
    <3> DEFINE d == Call("check", c.client, c.obj, c.rows, c.left - 1)
    <3>1. c.left > 1 /\ calls' = [calls EXCEPT ![k] = d]
      BY <2>1 DEF NextRecipient
    <3>2. d.pc = "check" /\ d.rows = c.rows /\ d.left = c.left - 1 /\ d.client = c.client
      BY DEF Call
    <3> HIDE DEF d
    <3>3. RemainingOf(d) = (c.left - 1) + c.rows * MaxSize
      BY <3>2 DEF RemainingOf, Chosen
    <3>4. c.pc \in Chosen /\ c.pc # "resolve"
      BY <1>6, <3>1 DEF Chosen
    <3>5. RemainingOf(d) < RemainingOf(c) /\ RemainingOf(d) <= RemainingOf(c)
      BY <1>1, <1>3, <1>4, <3>3, <3>4
    <3>6. Within(d)
      <4>1. c.rows < MaxRows
        BY <1>1, <3>4 DEF Within, Chosen
      <4>2. c.left - 1 \in 1 .. MaxSize
        BY <1>1, <1>5, <3>1, <3>4
      <4> QED
        BY <3>2, <4>1, <4>2 DEF Within
    <3> QED
      BY <3>1, <3>2, <3>5, <3>6
  <2>2. CASE NextRow(k)
    <3> DEFINE d == Call("resolve", c.client, c.obj, c.rows - 1, 0)
    <3>1. c.rows > 0 /\ calls' = [calls EXCEPT ![k] = d]
      BY <2>2 DEF NextRow
    <3>2. d.pc = "resolve" /\ d.rows = c.rows - 1 /\ d.left = 0 /\ d.client = c.client
      BY DEF Call
    <3> HIDE DEF d
    <3>3. RemainingOf(d) = c.rows * MaxSize
      <4>1. (c.rows - 1) + 1 = c.rows
        BY <1>1
      <4> QED
        BY <3>2, <4>1 DEF RemainingOf
    <3>4. RemainingOf(d) <= RemainingOf(c) /\ (c.pc \in Chosen => RemainingOf(d) < RemainingOf(c))
      <4>1. CASE c.pc = "resolve"
        BY <1>1, <1>3, <1>4, <3>3, <4>1 DEF Chosen
      <4>2. CASE c.pc \in Chosen
        <5>1. c.pc # "resolve"
          BY <4>2 DEF Chosen
        <5> QED
          BY <1>1, <1>3, <1>4, <1>5, <3>3, <4>2, <5>1
      <4> QED
        BY <4>1, <4>2
    <3>5. Within(d)
      <4>1. c.rows < MaxRows
        BY <1>1 DEF Within, Chosen
      <4>2. c.rows - 1 < MaxRows
        BY <1>1, <4>1
      <4> QED
        BY <3>2, <4>2 DEF Within, Chosen
    <3> QED
      BY <3>1, <3>2, <3>4, <3>5
  <2>3. CASE Finish(k)
    <3>1. calls' = [calls EXCEPT ![k] = NoCall]
      BY <2>3 DEF Finish
    <3>2. RemainingOf(NoCall) = 0 /\ Within(NoCall)
      BY DEF RemainingOf, Within, NoCall, Call, Chosen
    <3> DEFINE d == NoCall
    <3>3. d = NoCall
      OBVIOUS
    <3> HIDE DEF d
    <3>4. /\ RemainingOf(d) <= RemainingOf(c) /\ ~(RemainingOf(d) > 0)
          /\ c.pc \in Chosen => RemainingOf(d) < RemainingOf(c)
      BY <1>2, <3>2, <3>3
    <3> QED
      BY <3>1, <3>2, <3>3, <3>4
  <2> QED
    BY <2>1, <2>2, <2>3 DEF Advance
<1> QED
  BY <1>7, BecomesYields

\* A call that goes on to the next await, or ends.
LEMMA GoesOnYields ==
    ASSUME TypeOK, WithinRequest, NEW k \in Calls,
           \/ \E pc \in Chosen : calls[k].pc \in Chosen /\ Goto(k, pc)
           \/ calls[k].pc = "validate" /\ Goto(k, "resolve")
           \/ calls' = [calls EXCEPT ![k] = NoCall]
    PROVE  WithinRequest' /\ Yields(k)
<1> DEFINE c == calls[k]
<1>1. c \in CallType /\ Within(c) /\ RemainingOf(c) \in Nat
  BY CallsWithin, RemainingType
<1>2. PICK d : /\ calls' = [calls EXCEPT ![k] = d] /\ Within(d)
               /\ RemainingOf(d) <= RemainingOf(c)
               /\ RemainingOf(d) > 0 => d.client = c.client
  <2>1. ASSUME NEW pc, Goto(k, pc),
               \/ pc \in Chosen /\ c.pc \in Chosen
               \/ pc = "resolve" /\ c.pc = "validate"
        PROVE  \E d : /\ calls' = [calls EXCEPT ![k] = d] /\ Within(d)
                      /\ RemainingOf(d) <= RemainingOf(c)
                      /\ RemainingOf(d) > 0 => d.client = c.client
    <3> DEFINE d == Call(pc, c.client, c.obj, c.rows, c.left)
    <3>1. calls' = [calls EXCEPT ![k] = d]
      BY <2>1 DEF Goto, TypeOK, CallsType
    <3>2. d.pc = pc /\ d.rows = c.rows /\ d.left = c.left /\ d.client = c.client
      BY DEF Call
    <3> HIDE DEF d
    <3>3. RemainingOf(d) = RemainingOf(c)
      BY <2>1, <3>2 DEF RemainingOf, Chosen
    <3>4. Within(d)
      BY <1>1, <2>1, <3>2 DEF Within, Chosen
    <3>5. RemainingOf(d) <= RemainingOf(c)
      BY <1>1, <3>3
    <3> QED
      BY <3>1, <3>2, <3>4, <3>5
  <2>2. CASE calls' = [calls EXCEPT ![k] = NoCall]
    <3>1. RemainingOf(NoCall) = 0 /\ Within(NoCall)
      BY DEF RemainingOf, Within, NoCall, Call, Chosen
    <3> DEFINE d == NoCall
    <3>2. d = NoCall
      OBVIOUS
    <3> HIDE DEF d
    <3>3. RemainingOf(d) <= RemainingOf(c) /\ ~(RemainingOf(d) > 0)
      BY <1>1, <3>1, <3>2
    <3> QED
      BY <2>2, <3>1, <3>2, <3>3
  <2> QED
    BY <2>1, <2>2
<1> QED
  BY <1>2, BecomesYields

\* A step of a call that is under way.
LEMMA CallStepQuota ==
    ASSUME TypeOK, TypeOK', QuotaInv, NEW k \in Calls, CallStep(k)
    PROVE  QuotaInv'
<1> USE DEF QuotaInv
<1>1. CASE CheckUser(k) /\ calls' # [calls EXCEPT ![k] = NoCall]
  <2>1. used[Owner[calls[k].client]] < Limit /\ Goto(k, "validate") /\ calls[k].pc = "user"
        /\ UNCHANGED used
    BY <1>1 DEF CheckUser
  <2> DEFINE c == calls[k]
             d == Call("validate", c.client, c.obj, c.rows, c.left)
  <2>2. \A l \in Calls : calls'[l] = IF l = k THEN d ELSE calls[l]
    BY <2>1 DEF Goto, TypeOK, CallsType
  <2>3. Within(d)
    BY <2>1 DEF WithinRequest, Within, Call, Chosen
  <2>4. WithinRequest'
    BY <2>2, <2>3 DEF WithinRequest
  <2>5. ASSUME NEW u \in Users
        PROVE  used'[u] + Cardinality(Charges(u)') < Limit + Cardinality(Calls) * MaxPerCall
    <3>1. /\ Cardinality(Charges(u)) \in Nat /\ Cardinality(Charges(u)') \in Nat
          /\ Cardinality(Charges(u)') <= Cardinality(Calls) * MaxPerCall
          /\ Cardinality(Calls) * MaxPerCall \in Nat
      BY ChargesAre, ChargesFinite
    <3>2. used[u] \in Nat /\ Limit \in Nat /\ used' = used
      BY <2>1, SenderAssumption DEF TypeOK, CountersType
    <3>3. CASE u = Owner[c.client]
      <4>1. used[u] < Limit
        BY <2>1, <3>3
      <4> QED
        BY <3>1, <3>2, <4>1
    <3>4. CASE u # Owner[c.client]
      <4>1. Charges(u)' \subseteq Charges(u)
        <5> SUFFICES ASSUME NEW l \in Calls, NEW j \in 1 .. MaxPerCall, <<l, j>> \in Charges(u)'
                     PROVE  <<l, j>> \in Charges(u)
          BY DEF Charges
        <5>1. j <= Remaining(l)' /\ Owner[calls'[l].client] = u
          BY DEF Charges
        <5>2. l # k
          BY <2>2, <3>4, <5>1 DEF Call
        <5> QED
          BY <2>2, <5>1, <5>2, OthersRemaining DEF Charges
      <4>2. Cardinality(Charges(u)') <= Cardinality(Charges(u))
        BY <4>1, ChargesAre, ChargesFinite, FS_Subset
      <4>3. used[u] + Cardinality(Charges(u)) < Limit + Cardinality(Calls) * MaxPerCall
        BY DEF ChargesBounded
      <4> QED
        BY <3>1, <3>2, <4>2, <4>3
    <3> QED
      BY <3>3, <3>4
  <2> QED
    BY <2>4, <2>5 DEF ChargesBounded
<1>2. CASE /\ CheckUser(k) \/ Validate(k)
           /\ calls' = [calls EXCEPT ![k] = NoCall] \/ Validate(k)
  <2>1. UNCHANGED used
    BY <1>2 DEF CheckUser, Validate
  <2>2. \/ calls[k].pc = "validate" /\ Goto(k, "resolve")
        \/ calls' = [calls EXCEPT ![k] = NoCall]
    BY <1>2 DEF CheckUser, Validate
  <2> QED
    BY <2>1, <2>2, GoesOnYields, YieldBounded
<1>3. CASE Resolve(k)
  <2>1. UNCHANGED used /\ calls[k].pc = "resolve"
    BY <1>3 DEF Resolve
  <2>2. CASE Advance(k)
    BY <2>1, <2>2, AdvanceYields, YieldBounded
  <2>3. CASE ~Advance(k)
    <3> DEFINE c == calls[k]
    <3>1. PICK n \in Sizes \ {0} :
            calls' = [calls EXCEPT ![k] = Call("check", c.client, c.obj, c.rows, n)]
      BY <1>3, <2>3 DEF Resolve, TypeOK, CallsType
    <3> DEFINE d == Call("check", c.client, c.obj, c.rows, n)
    <3>2. d.pc = "check" /\ d.rows = c.rows /\ d.left = n /\ d.client = c.client
      BY DEF Call
    <3>3. calls' = [calls EXCEPT ![k] = d]
      BY <3>1
    <3> HIDE DEF d
    <3>4. /\ n \in Nat /\ n >= 1 /\ n <= MaxSize /\ MaxSize \in Nat
          /\ c.rows \in Nat /\ c.rows < MaxRows /\ Within(c)
      BY <2>1, Maxima, CallsWithin, SenderAssumption DEF CallType, Within
    <3>5. Within(d)
      BY <3>2, <3>4 DEF Within, Chosen
    <3>6. /\ c.rows * MaxSize \in Nat
          /\ (c.rows + 1) * MaxSize = c.rows * MaxSize + MaxSize
      BY <3>4, Product
    <3>7. RemainingOf(d) = n + c.rows * MaxSize /\ RemainingOf(c) = (c.rows + 1) * MaxSize
      BY <2>1, <3>2 DEF RemainingOf, Chosen
    <3>8. RemainingOf(d) <= RemainingOf(c)
      BY <3>4, <3>6, <3>7
    <3> QED
      BY <2>1, <3>2, <3>3, <3>5, <3>8, BecomesYields, YieldBounded
  <2> QED
    BY <2>2, <2>3
<1>4. CASE CheckConnection(k) \/ SendMessage(k) \/ AwaitAck(k)
  <2>1. UNCHANGED used /\ calls[k].pc \in Chosen
    BY <1>4 DEF CheckConnection, SendMessage, AwaitAck, Chosen
  <2>2. Advance(k) \/ \E pc \in Chosen : Goto(k, pc)
    BY <1>4 DEF CheckConnection, SendMessage, HandleSendError, AwaitAck, Chosen
  <2> QED
    BY <2>1, <2>2, AdvanceYields, GoesOnYields, YieldBounded
<1>5. CASE IncrementMessageUsage(k)
  <2>1. /\ calls[k].pc \in Chosen /\ Advance(k)
        /\ UNCHANGED used \/ used' = [used EXCEPT ![Owner[calls[k].client]] = @ + 1]
    BY <1>5 DEF IncrementMessageUsage, Chosen
  <2> QED
    BY <2>1, AdvanceYields, YieldBounded
<1> QED
  BY <1>1, <1>2, <1>3, <1>4, <1>5 DEF CallStep

LEMMA RequestQuota ==
    ASSUME TypeOK, TypeOK', QuotaInv, NEW k \in Calls, NEW c \in Clients, Request(k, c)
    PROVE  QuotaInv'
<1>1. PICK n \in RowCounts :
        calls' = [calls EXCEPT ![k] = Call("user", c, registry[c], n - 1, 0)]
  BY DEF Request
<1> DEFINE d == Call("user", c, registry[c], n - 1, 0)
<1>2. d.pc = "user" /\ d.rows = n - 1 /\ d.left = 0
  BY DEF Call
<1>3. calls' = [calls EXCEPT ![k] = d]
  BY <1>1
<1> HIDE DEF d
<1>4. n \in Nat /\ n <= MaxRows /\ MaxRows \in Nat
  BY Maxima, SenderAssumption
<1>5. n - 1 < MaxRows
  BY <1>4
<1>6. Within(d) /\ RemainingOf(d) = 0
  BY <1>2, <1>5 DEF Within, RemainingOf, Chosen
<1>7. calls[k] = NoCall /\ UNCHANGED used
  BY DEF Request
<1>8. RemainingOf(calls[k]) = 0
  BY <1>7 DEF RemainingOf, NoCall, Call, Chosen
<1>9. RemainingOf(d) <= RemainingOf(calls[k]) /\ ~(RemainingOf(d) > 0)
  BY <1>6, <1>8
<1>10. WithinRequest' /\ Yields(k)
  BY <1>3, <1>6, <1>9, BecomesYields DEF QuotaInv
<1> QED
  BY <1>7, <1>10, YieldBounded DEF QuotaInv

\* Nothing is charged outside a call; a renewal forgets what was charged.
LEMMA EnvironmentQuota ==
    ASSUME TypeOK, TypeOK', QuotaInv, UNCHANGED calls,
           UNCHANGED used \/ \E u \in Users : Renew(u)
    PROVE  QuotaInv'
<1>1. WithinRequest'
  BY DEF QuotaInv, WithinRequest
<1>2. ASSUME NEW u \in Users
      PROVE  used'[u] + Cardinality(Charges(u)') < Limit + Cardinality(Calls) * MaxPerCall
  <2>1. Charges(u)' = Charges(u)
    BY DEF Charges, Remaining
  <2>2. used'[u] \in Nat /\ used[u] \in Nat /\ used'[u] <= used[u]
    BY DEF TypeOK, CountersType, Renew
  <2>3. used[u] + Cardinality(Charges(u)) < Limit + Cardinality(Calls) * MaxPerCall
    BY DEF QuotaInv, ChargesBounded
  <2>4. /\ Cardinality(Charges(u)) \in Nat /\ Limit \in Nat
        /\ Cardinality(Calls) * MaxPerCall \in Nat
    BY ChargesAre, ChargesFinite, SenderAssumption
  <2> QED
    BY <2>1, <2>2, <2>3, <2>4
<1> QED
  BY <1>1, <1>2 DEF QuotaInv, ChargesBounded

\* At the start nobody sends, and there is room for one message at least.
LEMMA InitQuota == Init => QuotaInv
<1> SUFFICES ASSUME Init PROVE QuotaInv
  OBVIOUS
<1>1. WithinRequest
  BY DEF Init, WithinRequest, Within, NoCall, Call, Chosen
<1>2. ASSUME NEW u \in Users
      PROVE  used[u] + Cardinality(Charges(u)) < Limit + Cardinality(Calls) * MaxPerCall
  <2>1. \A k \in Calls : Remaining(k) = 0
    BY DEF Init, Remaining, RemainingOf, NoCall, Call, Chosen
  <2>2. MaxPerCall = MaxRows * MaxSize
    BY DEF MaxPerCall, MaxRows, MaxSize
  <2>3. \A j \in 1 .. MaxPerCall : ~(j <= 0)
    BY <2>2, Maxima
  <2>4. Charges(u) = {}
    BY <2>1, <2>3 DEF Charges
  <2>5. Cardinality(Charges(u)) = 0
    BY <2>4, FS_EmptySet
  <2>6. MaxRows * MaxSize >= MaxSize
    <3>1. /\ 1 \in Nat /\ MaxRows \in Nat /\ MaxSize \in Nat /\ 1 <= MaxRows
      BY Maxima
    <3>2. 1 * MaxSize <= MaxRows * MaxSize
      BY <3>1, Product
    <3> QED
      BY <3>1, <3>2
  <2>7. Cardinality(Calls) \in Nat /\ Cardinality(Calls) >= 1
    BY SenderAssumption, FS_EmptySet, FS_CardinalityType
  <2>8. MaxPerCall \in Nat /\ MaxPerCall >= 1
    BY <2>2, <2>6, Maxima, Product
  <2>9. Cardinality(Calls) * MaxPerCall >= 1
    <3>1. 1 * MaxPerCall <= Cardinality(Calls) * MaxPerCall
      BY <2>7, <2>8, Product
    <3>2. Cardinality(Calls) * MaxPerCall \in Nat
      BY <2>7, <2>8, Product
    <3> QED
      BY <2>8, <3>1, <3>2
  <2>10. used[u] \in 0 .. Limit /\ Limit \in Nat
    BY SenderAssumption DEF Init
  <2>11. Cardinality(Calls) * MaxPerCall \in Nat
    BY <2>7, <2>8, Product
  <2> QED
    BY <2>5, <2>9, <2>10, <2>11
<1> QED
  BY <1>1, <1>2 DEF QuotaInv, ChargesBounded

LEMMA NextQuota ==
    ASSUME TypeOK, TypeOK', QuotaInv, [Next]_vars
    PROVE  QuotaInv'
<1>1. ASSUME NEW c \in Clients, SessionReady(c) \/ SessionRebuilt(c) \/ SessionReleased(c)
      PROVE  QuotaInv'
  BY <1>1, EnvironmentQuota DEF SessionReady, SessionRebuilt, SessionReleased
<1>2. ASSUME NEW u \in Users, Renew(u)
      PROVE  QuotaInv'
  BY <1>2, EnvironmentQuota DEF Renew
<1>3. CASE UNCHANGED vars
  BY <1>3, EnvironmentQuota DEF vars
<1> QED
  BY <1>1, <1>2, <1>3, CallStepQuota, RequestQuota DEF Next

\* However calls overlap, renewals come and usage updates fail half-way, a user is never
\* charged more than his limit and what the calls in flight could still send: the check
\* of the quota at the start of a call is enough to bound the overrun.
THEOREM QuotaOverrun == Spec => []OverrunBounded
<1>1. TypeOK /\ QuotaInv => OverrunBounded
  <2> SUFFICES ASSUME TypeOK, QuotaInv, NEW u \in Users
               PROVE  used[u] < Limit + Cardinality(Calls) * MaxPerCall
    BY DEF OverrunBounded
  <2>1. used[u] + Cardinality(Charges(u)) < Limit + Cardinality(Calls) * MaxPerCall
    BY DEF QuotaInv, ChargesBounded
  <2>2. /\ used[u] \in Nat /\ Cardinality(Charges(u)) \in Nat /\ Limit \in Nat
        /\ Cardinality(Calls) * MaxPerCall \in Nat
    BY ChargesAre, ChargesFinite, SenderAssumption DEF TypeOK, CountersType
  <2> QED
    BY <2>1, <2>2
<1>2. TypeOK /\ TypeOK' /\ QuotaInv /\ [Next]_vars => QuotaInv'
  BY NextQuota
<1> QED
  BY <1>1, <1>2, InitQuota, TypeCorrect, PTL DEF Spec
=============================================================================
