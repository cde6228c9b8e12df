------------------------ MODULE SubscriptionsProofs ------------------------
(***************************************************************************)
(* Proofs about Subscriptions, for any users, plans, requests and          *)
(* concurrent operations.                                                  *)
(***************************************************************************)
EXTENDS Subscriptions, TLAPS

RenewalSet == [times : 0 .. 2, terms : Terms \cup {None}]

\* A call knows what it is to write.
Prepared(c) ==
    /\ c.pc \in {"upsert", "insert", "apply"} => c.user \in Users /\ c.terms \in Terms
    /\ c.pc \in {"apply", "approved", "rejected"} <=> c.request # None
PreparedCalls == {c \in CallSet \cup {NoCall} : Prepared(c)}

TypeInv == TypeOK /\ calls \in [Calls -> PreparedCalls]

\* Every subscription, request and operation carries terms its user asked for.
AskedInv ==
    /\ TermsWereAsked
    /\ \A r \in Requests : Exists(r) => request[r].terms \in asked[request[r].user]
    /\ \A k \in Calls : calls[k].user # None => calls[k].terms \in asked[calls[k].user]

\* What one operation on a request, the only one, has found and will write.
Agrees(k, r) ==
    /\ calls[k].pc = "apply" =>
         renewed[r] = NoRenewal /\ (Exists(r) => request[r].terms = calls[k].terms)
    /\ calls[k].pc = "approved" =>
         renewed[r].times = 1 /\ (Exists(r) => renewed[r] = Renewals(1, request[r].terms))
    /\ calls[k].pc = "rejected" =>
         renewed[r].times <= 1 /\ (Exists(r) => renewed[r] = NoRenewal)

\* No operation is on the request: its status tells whether it was applied.
Settled(r) ==
    /\ renewed[r].times <= 1
    /\ Exists(r) => IF request[r].status = "approved" THEN renewed[r] = Renewals(1, request[r].terms)
                    ELSE renewed[r] = NoRenewal

Orderly(r) ==
    /\ \A k, l \in InProgress(r) : k = l
    /\ \A k \in InProgress(r) : Agrees(k, r)
    /\ InProgress(r) = {} => Settled(r)

OrderlyInv == \A r \in Requests \ disturbed : Orderly(r)

-----------------------------------------------------------------------------
(* Types *)

LEMMA Records ==
    ASSUME NEW u \in Users, NEW t \in Terms
    PROVE  /\ \A st \in {"pending", "approved", "rejected"} : Doc(u, t, st) \in DocSet
           /\ Call("upsert", None, u, t) \in PreparedCalls
           /\ \A r \in Requests : Call("apply", r, u, t) \in PreparedCalls
  BY SubscriptionsAssumption DEF Doc, DocSet, Call, CallSet, PreparedCalls, Prepared

LEMMA NoCallPrepared == NoCall \in PreparedCalls
  BY DEF NoCall, Call, PreparedCalls, Prepared

LEMMA CallsType ==
    ASSUME TypeInv, NEW k \in Calls, NEW c \in PreparedCalls, calls' = [calls EXCEPT ![k] = c]
    PROVE  calls' \in [Calls -> PreparedCalls] /\ calls' \in [Calls -> CallSet \cup {NoCall}]
  BY DEF TypeInv, PreparedCalls

\* An operation in progress, by what it does next.
LEMMA CallType ==
    ASSUME TypeInv, NEW k \in Calls, calls[k].pc # "idle"
    PROVE  /\ calls[k] \in CallSet
           /\ calls[k].pc \in {"upsert", "insert", "apply"} => calls[k].user \in Users /\ calls[k].terms \in Terms
           /\ IF calls[k].pc \in {"apply", "approved", "rejected"} THEN calls[k].request \in Requests
              ELSE calls[k].request = None
<1>1. calls[k] \in CallSet /\ Prepared(calls[k])
  BY DEF TypeInv, PreparedCalls, NoCall, Call
<1> QED
  BY <1>1 DEF Prepared, CallSet

LEMMA GotoType ==
    ASSUME TypeInv, NEW k \in Calls,
           \/ calls[k].pc = "upsert" /\ Goto(k, "insert")
           \/ calls[k].pc = "apply" /\ Goto(k, "approved")
    PROVE  calls' \in [Calls -> PreparedCalls] /\ calls' \in [Calls -> CallSet \cup {NoCall}]
<1> DEFINE c(pc) == Call(pc, calls[k].request, calls[k].user, calls[k].terms)
<1>1. calls[k] \in CallSet /\ Prepared(calls[k])
  BY CallType DEF TypeInv, PreparedCalls
<1>2. calls[k].pc = "upsert" => c("insert") \in PreparedCalls
  BY <1>1 DEF CallSet, Call, Prepared, PreparedCalls
<1>3. calls[k].pc = "apply" => c("approved") \in PreparedCalls
  BY <1>1 DEF CallSet, Call, Prepared, PreparedCalls
<1>4. \/ calls[k].pc = "upsert" /\ calls' = [calls EXCEPT ![k] = c("insert")]
      \/ calls[k].pc = "apply" /\ calls' = [calls EXCEPT ![k] = c("approved")]
  BY DEF Goto
<1> HIDE DEF c
<1> QED
  BY <1>2, <1>3, <1>4, CallsType

LEMMA DisturbsType ==
    ASSUME TypeOK, NEW k, NEW r \in Requests, Disturbs(k, r)
    PROVE  disturbed' \subseteq Requests
  BY DEF TypeOK, Disturbs

LEMMA ExistsType ==
    ASSUME TypeOK, NEW r \in Requests, Exists(r)
    PROVE  request[r] \in DocSet /\ request[r].user \in Users /\ request[r].terms \in Terms
  BY DEF TypeOK, Exists, NoRequest, Deleted, Doc, DocSet

LEMMA NoRenewalType == NoRenewal \in RenewalSet
  BY DEF NoRenewal, Renewals, RenewalSet

LEMMA NextType ==
    ASSUME TypeInv, [Next]_vars
    PROVE  TypeInv'
<1> DEFINE NewCalls == calls' \in [Calls -> PreparedCalls] /\ calls' \in [Calls -> CallSet \cup {NoCall}]
<1>1. ASSUME NEW k \in Calls, UserRequest(k)
      PROVE  TypeInv'
  <2>1. PICK u \in Users, p \in Plans : Create(k, u, p)
    BY <1>1 DEF UserRequest
  <2>2. plan[p] \in Terms
    BY <2>1 DEF Create, TypeInv, TypeOK
  <2>3. NewCalls
    BY <2>1, <2>2, Records, CallsType DEF Create, Begin
  <2>4. asked' \in [Users -> SUBSET Terms]
    BY <2>1, <2>2 DEF Create, TypeInv, TypeOK
  <2> QED
    BY <2>1, <2>3, <2>4 DEF Create, TypeInv, TypeOK
<1>2. ASSUME NEW k \in Calls, calls[k].pc \in {"upsert", "insert"}, NEW r \in Requests, WriteRequest(k, r)
      PROVE  TypeInv'
  <2>1. calls[k].user \in Users /\ calls[k].terms \in Terms
    BY <1>2, CallType
  <2>2. request' \in [Requests -> DocSet \cup {NoRequest, Deleted}]
    BY <1>2, <2>1, Records DEF WriteRequest, TypeInv, TypeOK
  <2>3. renewed' \in [Requests -> RenewalSet]
    BY <1>2, NoRenewalType DEF WriteRequest, TypeInv, TypeOK, RenewalSet
  <2>4. NewCalls
    BY <1>2, NoCallPrepared, CallsType DEF WriteRequest, End
  <2>5. disturbed' \subseteq Requests
    BY <1>2, DisturbsType DEF WriteRequest, TypeInv
  <2> QED
    BY <1>2, <2>2, <2>3, <2>4, <2>5 DEF WriteRequest, TypeInv, TypeOK, RenewalSet
<1>3. ASSUME NEW k \in Calls, Upsert(k) \/ Insert(k)
      PROVE  TypeInv'
  <2>1. CASE \E r \in Requests : WriteRequest(k, r)
    BY <1>2, <1>3, <2>1 DEF Upsert, Insert
  <2>2. CASE calls[k].pc = "upsert" /\ Goto(k, "insert") /\ UNCHANGED <<plan, request, subscription, history>>
    <3>1. NewCalls
      BY <2>2, GotoType
    <3> QED
      BY <2>2, <3>1 DEF TypeInv, TypeOK, history
  <2> QED
    BY <1>3, <2>1, <2>2 DEF Upsert, Insert, RequestsOf
<1>4. ASSUME NEW k \in Calls, AdminRequest(k)
      PROVE  TypeInv'
  <2>1. PICK r \in Requests : Approve(k, r) \/ Disapprove(k, r)
    BY <1>4 DEF AdminRequest
  <2>2. request[r].user \in Users /\ request[r].terms \in Terms
    BY <2>1, ExistsType DEF Approve, Disapprove, TypeInv
  <2>3. Call("rejected", r, None, None) \in PreparedCalls
    BY SubscriptionsAssumption DEF Call, CallSet, PreparedCalls, Prepared
  <2>4. NewCalls
    BY <2>1, <2>2, <2>3, Records, CallsType DEF Approve, Disapprove, Begin
  <2>5. disturbed' \subseteq Requests
    BY <2>1, DisturbsType DEF Approve, Disapprove, TypeInv
  <2> QED
    BY <2>1, <2>4, <2>5 DEF Approve, Disapprove, TypeInv, TypeOK
<1>5. ASSUME NEW k \in Calls, Apply(k)
      PROVE  TypeInv'
  <2> DEFINE c == calls[k]
  <2>1. c.user \in Users /\ c.terms \in Terms /\ c.request \in Requests
    BY <1>5, CallType DEF Apply
  <2>2. subscription' \in [Users -> Terms \cup {Free}]
    BY <1>5, <2>1 DEF Apply, TypeInv, TypeOK
  <2>3. renewed' \in [Requests -> RenewalSet]
    <3>1. \A n \in 0 .. 2 : Renewals(IF n = 2 THEN 2 ELSE n + 1, c.terms) \in RenewalSet
      BY <2>1 DEF Renewals, RenewalSet
    <3>2. renewed[c.request].times \in 0 .. 2
      BY <2>1 DEF TypeInv, TypeOK
    <3> QED
      BY <1>5, <3>1, <3>2 DEF Apply, TypeInv, TypeOK, RenewalSet
  <2>4. NewCalls
    BY <1>5, GotoType DEF Apply
  <2>5. disturbed' \subseteq Requests
    BY <1>5, <2>1, DisturbsType DEF Apply, TypeInv
  <2> QED
    BY <1>5, <2>2, <2>3, <2>4, <2>5 DEF Apply, TypeInv, TypeOK, RenewalSet
<1>6. ASSUME NEW k \in Calls, SaveStatus(k)
      PROVE  TypeInv'
  <2> DEFINE r == calls[k].request
  <2>1. r \in Requests
    BY <1>6, CallType DEF SaveStatus
  <2>2. request' \in [Requests -> DocSet \cup {NoRequest, Deleted}]
    <3>1. CASE Exists(r)
      <4>1. Doc(request[r].user, request[r].terms, calls[k].pc) \in DocSet
        BY <1>6, <2>1, <3>1, ExistsType, Records DEF SaveStatus, TypeInv
      <4> QED
        BY <1>6, <3>1, <4>1 DEF SaveStatus, SetStatus, TypeInv, TypeOK
    <3>2. CASE ~Exists(r)
      BY <1>6, <3>2 DEF SaveStatus, SetStatus, TypeInv, TypeOK
    <3> QED
      BY <3>1, <3>2
  <2>3. NewCalls
    BY <1>6, NoCallPrepared, CallsType DEF SaveStatus, End
  <2>4. disturbed' \subseteq Requests
    BY <1>6, <2>1, DisturbsType DEF SaveStatus, TypeInv
  <2> QED
    BY <1>6, <2>2, <2>3, <2>4 DEF SaveStatus, TypeInv, TypeOK
<1>7. ASSUME NEW k \in Calls, Fail(k)
      PROVE  TypeInv'
  <2>1. NewCalls
    BY <1>7, NoCallPrepared, CallsType DEF Fail, End
  <2>2. disturbed' \subseteq Requests
    BY <1>7, CallType DEF Fail, TypeInv, TypeOK, CallSet, NoCall, Call
  <2> QED
    BY <1>7, <2>1, <2>2 DEF Fail, TypeInv, TypeOK
<1>8. ASSUME NEW r \in Requests, Delete(r)
      PROVE  TypeInv'
  BY <1>8 DEF Delete, TypeInv, TypeOK, history
<1>9. CASE AdminPlans
  BY <1>9 DEF AdminPlans, CreatePlan, UpdatePlan, DeletePlan, TypeInv, TypeOK, history
<1>10. CASE UNCHANGED vars
  BY <1>10 DEF vars, TypeInv, TypeOK, history
<1> QED
  BY <1>1, <1>3, <1>4, <1>5, <1>6, <1>7, <1>8, <1>9, <1>10 DEF Next

LEMMA StaysTyped == Spec => []TypeInv
<1>1. Init => TypeInv
  <2> SUFFICES ASSUME Init
               PROVE  TypeInv
    OBVIOUS
  <2>1. TypeOK
    BY DEF Init, TypeOK, NoRenewal, Renewals
  <2> QED
    BY <2>1, NoCallPrepared DEF Init, TypeInv
<1> QED
  BY <1>1, NextType, PTL DEF Spec

\* Plans, requests, subscriptions and operations keep their types.
THEOREM TypeCorrect == Spec => []TypeOK
  BY StaysTyped, PTL DEF TypeInv

-----------------------------------------------------------------------------
(* Terms *)

\* Nothing that leaves requests, subscriptions, users of calls and what was asked alone
\* can matter.
LEMMA AskedKept ==
    ASSUME AskedInv, UNCHANGED <<subscription, asked>>,
           \A r \in Requests : Exists(r)' => /\ Exists(r) /\ request'[r].user = request[r].user
                                             /\ request'[r].terms = request[r].terms,
           \A k \in Calls : calls'[k].user # None => /\ calls'[k].user = calls[k].user
                                                     /\ calls'[k].terms = calls[k].terms
    PROVE  AskedInv'
  BY DEF AskedInv, TermsWereAsked

LEMMA EndedCall ==
    ASSUME TypeInv, NEW k \in Calls, End(k)
    PROVE  \A l \in Calls : calls'[l] = IF l = k THEN NoCall ELSE calls[l]
  BY DEF End, TypeInv

LEMMA MovedCall ==
    ASSUME TypeInv, NEW k \in Calls, NEW pc, Goto(k, pc)
    PROVE  /\ \A l \in Calls \ {k} : calls'[l] = calls[l]
           /\ calls'[k].pc = pc
           /\ \A l \in Calls : /\ calls'[l].request = calls[l].request
                               /\ calls'[l].user = calls[l].user
                               /\ calls'[l].terms = calls[l].terms
  BY DEF Goto, TypeInv, Call

LEMMA BegunCall ==
    ASSUME TypeInv, NEW k \in Calls, NEW c, Begin(k, c)
    PROVE  /\ \A l \in Calls \ {k} : calls'[l] = calls[l]
           /\ calls'[k] = c
  BY DEF Begin, TypeInv

LEMMA NextAsked ==
    ASSUME TypeInv, AskedInv, [Next]_vars
    PROVE  AskedInv'
<1> USE DEF Call, NoCall
<1>1. ASSUME NEW k \in Calls, UserRequest(k)
      PROVE  AskedInv'
  <2>1. PICK u \in Users, p \in Plans : Create(k, u, p)
    BY <1>1 DEF UserRequest
  <2>2. \A v \in Users : asked[v] \subseteq asked'[v]
    BY <2>1 DEF Create, TypeInv, TypeOK
  <2>3. plan[p] \in asked'[u]
    BY <2>1 DEF Create, TypeInv, TypeOK
  <2>4. \A l \in Calls : \/ calls'[l] = calls[l]
                         \/ calls'[l].user = u /\ calls'[l].terms = plan[p]
    BY <2>1, BegunCall DEF Create
  <2>5. TermsWereAsked'
    BY <2>1, <2>2 DEF Create, AskedInv, TermsWereAsked
  <2>6. \A r \in Requests : Exists(r)' => request'[r].terms \in asked'[request'[r].user]
    BY <2>1, <2>2, ExistsType DEF Create, AskedInv, Exists, TypeInv
  <2>7. ASSUME NEW l \in Calls, calls'[l].user # None
        PROVE  calls'[l].terms \in asked'[calls'[l].user]
    <3>1. CASE calls'[l] = calls[l]
      <4>1. calls[l].user \in Users
        BY <2>7, <3>1 DEF TypeInv, TypeOK, CallSet
      <4> QED
        BY <2>2, <2>7, <3>1, <4>1 DEF AskedInv
    <3> QED
      BY <2>3, <2>4, <3>1
  <2> QED
    BY <2>5, <2>6, <2>7 DEF AskedInv
<1>2. ASSUME NEW k \in Calls, calls[k].pc \in {"upsert", "insert"}, NEW r \in Requests, WriteRequest(k, r)
      PROVE  AskedInv'
  <2>1. calls[k].user \in Users
    BY <1>2, CallType
  <2>2. calls[k].terms \in asked[calls[k].user]
    BY <2>1, SubscriptionsAssumption DEF AskedInv
  <2>3. \A q \in Requests : \/ request'[q] = request[q]
                            \/ request'[q].user = calls[k].user /\ request'[q].terms = calls[k].terms
    BY <1>2 DEF WriteRequest, Doc, TypeInv, TypeOK
  <2>4. UNCHANGED <<subscription, asked>>
    BY <1>2 DEF WriteRequest
  <2>5. \A l \in Calls : calls'[l].user # None => calls'[l] = calls[l]
    BY <1>2, EndedCall DEF WriteRequest
  <2> QED
    BY <2>2, <2>3, <2>4, <2>5 DEF AskedInv, TermsWereAsked, Exists
<1>3. ASSUME NEW k \in Calls, Upsert(k) \/ Insert(k)
      PROVE  AskedInv'
  <2>1. CASE \E r \in Requests : WriteRequest(k, r)
    BY <1>2, <1>3, <2>1 DEF Upsert, Insert
  <2>2. CASE Goto(k, "insert") /\ UNCHANGED <<plan, request, subscription, history>>
    BY <2>2, MovedCall, AskedKept DEF history, Exists
  <2> QED
    BY <1>3, <2>1, <2>2 DEF Upsert, Insert, RequestsOf
<1>4. ASSUME NEW k \in Calls, AdminRequest(k)
      PROVE  AskedInv'
  <2>1. PICK r \in Requests : Approve(k, r) \/ Disapprove(k, r)
    BY <1>4 DEF AdminRequest
  <2>2. Exists(r) /\ request[r].terms \in asked[request[r].user]
    BY <2>1 DEF Approve, Disapprove, AskedInv
  <2>3. \A l \in Calls : \/ calls'[l] = calls[l]
                         \/ calls'[l].user = request[r].user /\ calls'[l].terms = request[r].terms
                         \/ calls'[l].user = None
    BY <2>1, BegunCall DEF Approve, Disapprove
  <2>4. UNCHANGED <<subscription, asked, request>>
    BY <2>1 DEF Approve, Disapprove
  <2> QED
    BY <2>2, <2>3, <2>4 DEF AskedInv, TermsWereAsked, Exists
<1>5. ASSUME NEW k \in Calls, Apply(k)
      PROVE  AskedInv'
  <2>1. calls[k].user \in Users /\ calls[k].terms \in asked[calls[k].user]
    BY <1>5, CallType, SubscriptionsAssumption DEF Apply, AskedInv
  <2>2. \A u \in Users : subscription'[u] = IF u = calls[k].user THEN calls[k].terms ELSE subscription[u]
    BY <1>5 DEF Apply, TypeInv, TypeOK
  <2>3. UNCHANGED <<asked, request>>
    BY <1>5 DEF Apply
  <2>4. \A l \in Calls : calls'[l].user = calls[l].user /\ calls'[l].terms = calls[l].terms
    BY <1>5, MovedCall DEF Apply
  <2> QED
    BY <2>1, <2>2, <2>3, <2>4 DEF AskedInv, TermsWereAsked, Exists
<1>6. ASSUME NEW k \in Calls, SaveStatus(k)
      PROVE  AskedInv'
  <2>1. \A r \in Requests : Exists(r)' => /\ Exists(r) /\ request'[r].user = request[r].user
                                          /\ request'[r].terms = request[r].terms
    BY <1>6 DEF SaveStatus, SetStatus, Doc, Exists, TypeInv, TypeOK
  <2>2. \A l \in Calls : calls'[l].user # None => calls'[l] = calls[l]
    BY <1>6, EndedCall DEF SaveStatus
  <2> QED
    BY <1>6, <2>1, <2>2, AskedKept DEF SaveStatus
<1>7. ASSUME NEW k \in Calls, Fail(k)
      PROVE  AskedInv'
  BY <1>7, EndedCall, AskedKept DEF Fail, Exists
<1>8. ASSUME NEW r \in Requests, Delete(r)
      PROVE  AskedInv'
  <2>1. \A q \in Requests : q # r => request'[q] = request[q]
    BY <1>8 DEF Delete, TypeInv, TypeOK
  <2>2. ~Exists(r)'
    BY <1>8 DEF Delete, Exists, Deleted, Doc, TypeInv, TypeOK
  <2> QED
    BY <1>8, <2>1, <2>2, AskedKept DEF Delete, history, Exists
<1>9. CASE AdminPlans \/ UNCHANGED vars
  BY <1>9, AskedKept DEF AdminPlans, CreatePlan, UpdatePlan, DeletePlan, vars, history, Exists
<1> QED
  BY <1>1, <1>3, <1>4, <1>5, <1>6, <1>7, <1>8, <1>9 DEF Next

\* However plans change and operations overlap, nobody gets terms that were not in force
\* when that user asked for the plan.
THEOREM AskedTerms == Spec => []TermsWereAsked
<1>1. Init => AskedInv
  BY DEF Init, AskedInv, TermsWereAsked, Exists, NoRequest, Doc, NoCall, Call
<1>2. AskedInv => TermsWereAsked
  BY DEF AskedInv
<1> QED
  BY <1>1, <1>2, NextAsked, StaysTyped, PTL DEF Spec

-----------------------------------------------------------------------------
(* The status of a request *)

LEMMA Facts ==
    /\ \A t : Renewals(1, t).times = 1 /\ Renewals(1, t).times <= 1
    /\ NoRenewal.times = 0 /\ NoRenewal.times <= 1
    /\ NoCall.request = None /\ NoCall.pc = "idle" /\ \A r \in Requests : r # None
  BY SubscriptionsAssumption DEF Renewals, NoRenewal, NoCall, Call

LEMMA OrderlyKept ==
    ASSUME NEW r \in Requests, Orderly(r), renewed'[r] = renewed[r],
           request'[r] = request[r] \/ ~Exists(r)',
           \A l \in Calls : calls'[l] = calls[l] \/ (calls[l].request # r /\ calls'[l].request # r)
    PROVE  Orderly(r)'
  BY DEF Orderly, InProgress, Agrees, Settled, Exists

\* With one operation on the request in each state, and none in the next.
LEMMA OrderlyEnded ==
    ASSUME TypeInv, NEW r \in Requests, Orderly(r), NEW k \in InProgress(r), Settled(r)',
           \A l \in Calls : calls'[l] = IF l = k THEN NoCall ELSE calls[l]
    PROVE  Orderly(r)'
  BY Facts DEF Orderly, InProgress

\* An undisturbed request on which call k, on no request so far, acts has no other call.
LEMMA NoOther ==
    ASSUME NEW r \in Requests, NEW k \in Calls, calls[k].request = None,
           Disturbs(k, r), r \notin disturbed'
    PROVE  InProgress(r) = {}
  BY SubscriptionsAssumption DEF Disturbs, InProgress

LEMMA WriteOrderly ==
    ASSUME TypeInv, NEW k \in Calls, calls[k].request = None, NEW q \in Requests, WriteRequest(k, q),
           NEW r \in Requests \ disturbed', r \notin disturbed => Orderly(r)
    PROVE  Orderly(r)'
<1>1. r \notin disturbed
  BY DEF WriteRequest, Disturbs
<1>2. \A l \in Calls : calls'[l] = IF l = k THEN NoCall ELSE calls[l]
  BY EndedCall DEF WriteRequest
<1>3. CASE r # q
  <2>1. request'[r] = request[r] /\ renewed'[r] = renewed[r]
    BY <1>3 DEF WriteRequest, TypeInv, TypeOK
  <2> QED
    BY <1>1, <1>2, <2>1, OrderlyKept, Facts
<1>4. CASE r = q
  <2>1. InProgress(r)' = {}
    <3>1. InProgress(r) = {}
      BY <1>4, NoOther DEF WriteRequest
    <3> QED
      BY <1>2, <3>1, Facts DEF InProgress
  <2>2. renewed'[r] = NoRenewal /\ request'[r].status = "pending"
    BY <1>4 DEF WriteRequest, TypeInv, TypeOK, Doc
  <2> QED
    BY <2>1, <2>2, Facts DEF Orderly, Settled
<1> QED
  BY <1>3, <1>4

LEMMA AdminOrderly ==
    ASSUME TypeInv, NEW k \in Calls, NEW q \in Requests, Approve(k, q) \/ Disapprove(k, q),
           NEW r \in Requests \ disturbed', r \notin disturbed => Orderly(r)
    PROVE  Orderly(r)'
<1>1. r \notin disturbed /\ calls[k].request = None /\ UNCHANGED <<request, renewed>>
  BY Facts DEF Approve, Disapprove, Disturbs, Begin
<1>2. /\ \A l \in Calls \ {k} : calls'[l] = calls[l]
      /\ calls'[k].request = q
      /\ \/ /\ calls'[k].pc = "apply" /\ calls'[k].terms = request[q].terms
            /\ request[q].status # "approved"
         \/ calls'[k].pc = "rejected" /\ request[q].status = "pending"
  BY BegunCall DEF Approve, Disapprove, Call
<1>3. CASE r # q
  BY <1>1, <1>2, <1>3, OrderlyKept, Facts
<1>4. CASE r = q
  <2>1. InProgress(r) = {} /\ Exists(r)
    BY <1>1, <1>4, NoOther DEF Approve, Disapprove
  <2>2. renewed[r] = NoRenewal
    BY <1>1, <1>2, <1>4, <2>1 DEF Orderly, Settled
  <2>3. InProgress(r)' = {k}
    BY <1>1, <1>2, <1>4, <2>1 DEF InProgress
  <2>4. Agrees(k, r)'
    BY <1>1, <1>2, <1>4, <2>2, Facts DEF Agrees
  <2> QED
    BY <2>3, <2>4 DEF Orderly
<1> QED
  BY <1>3, <1>4

LEMMA ApplyOrderly ==
    ASSUME TypeInv, NEW k \in Calls, Apply(k),
           NEW r \in Requests \ disturbed', r \notin disturbed => Orderly(r)
    PROVE  Orderly(r)'
<1> DEFINE q == calls[k].request
<1>1. r \notin disturbed /\ q \in Requests /\ UNCHANGED request
  BY CallType DEF Apply, Disturbs
<1>2. /\ \A l \in Calls \ {k} : calls'[l] = calls[l]
      /\ calls'[k].pc = "approved" /\ calls'[k].request = q
  BY MovedCall DEF Apply
<1>3. CASE r # q
  <2>1. renewed'[r] = renewed[r]
    BY <1>3 DEF Apply, TypeInv, TypeOK
  <2> QED
    BY <1>1, <1>2, <1>3, <2>1, OrderlyKept
<1>4. CASE r = q
  <2>1. k \in InProgress(r) /\ Orderly(r)
    BY <1>1, <1>4 DEF InProgress
  <2>2. renewed[r] = NoRenewal /\ (Exists(r) => request[r].terms = calls[k].terms)
    BY <2>1 DEF Apply, Orderly, Agrees
  <2>3. renewed'[r] = Renewals(1, calls[k].terms)
    BY <1>4, <2>2, Facts DEF Apply, TypeInv, TypeOK
  <2>4. InProgress(r)' = {k}
    BY <1>2, <1>4, <2>1 DEF InProgress, Orderly
  <2>5. Agrees(k, r)'
    BY <1>1, <1>2, <2>2, <2>3, Facts DEF Agrees, Exists
  <2> QED
    BY <2>4, <2>5 DEF Orderly
<1> QED
  BY <1>3, <1>4

LEMMA SaveOrderly ==
    ASSUME TypeInv, NEW k \in Calls, SaveStatus(k),
           NEW r \in Requests \ disturbed', r \notin disturbed => Orderly(r)
    PROVE  Orderly(r)'
<1> DEFINE q == calls[k].request
<1>1. r \notin disturbed /\ q \in Requests /\ UNCHANGED renewed
  BY CallType DEF SaveStatus, Disturbs
<1>2. \A l \in Calls : calls'[l] = IF l = k THEN NoCall ELSE calls[l]
  BY EndedCall DEF SaveStatus
<1>3. CASE r # q
  <2>1. request'[r] = request[r]
    BY <1>3 DEF SaveStatus, SetStatus, TypeInv, TypeOK
  <2> QED
    BY <1>1, <1>2, <1>3, <2>1, OrderlyKept, Facts
<1>4. CASE r = q
  <2>1. k \in InProgress(r) /\ Orderly(r)
    BY <1>1, <1>4 DEF InProgress
  <2>2. Agrees(k, r) /\ calls[k].pc \in {"approved", "rejected"}
    BY <2>1 DEF SaveStatus, Orderly
  <2>3. Exists(r)' => /\ Exists(r) /\ request'[r].terms = request[r].terms
                      /\ request'[r].status = calls[k].pc
    BY <1>4 DEF SaveStatus, SetStatus, Exists, Doc, TypeInv, TypeOK
  <2>4. Settled(r)'
    BY <1>1, <2>2, <2>3, Facts DEF Agrees, Settled
  <2> QED
    BY <1>2, <2>1, <2>4, OrderlyEnded
<1> QED
  BY <1>3, <1>4

LEMMA NextOrderly ==
    ASSUME TypeInv, OrderlyInv, [Next]_vars
    PROVE  OrderlyInv'
<1> SUFFICES ASSUME NEW r \in Requests \ disturbed'
             PROVE  Orderly(r)'
  BY DEF OrderlyInv
<1>1. r \notin disturbed => Orderly(r)
  BY DEF OrderlyInv
<1>2. ASSUME NEW k \in Calls, UserRequest(k)
      PROVE  Orderly(r)'
  <2>1. PICK u \in Users, p \in Plans : Create(k, u, p)
    BY <1>2 DEF UserRequest
  <2>2. /\ \A l \in Calls \ {k} : calls'[l] = calls[l]
        /\ calls'[k].request = None /\ calls[k].request = None
    BY <2>1, BegunCall, Facts DEF Create, Begin, Call
  <2>3. UNCHANGED <<request, renewed, disturbed>>
    BY <2>1 DEF Create
  <2> QED
    BY <1>1, <2>2, <2>3, OrderlyKept, Facts
<1>3. ASSUME NEW k \in Calls, Upsert(k) \/ Insert(k)
      PROVE  Orderly(r)'
  <2>1. calls[k].request = None
    BY <1>3, CallType DEF Upsert, Insert
  <2>2. CASE \E q \in Requests : WriteRequest(k, q)
    BY <1>1, <2>1, <2>2, WriteOrderly
  <2>3. CASE Goto(k, "insert") /\ UNCHANGED <<plan, request, subscription, history>>
    <3>1. /\ \A l \in Calls \ {k} : calls'[l] = calls[l]
          /\ calls'[k].request = None
      BY <2>1, <2>3, MovedCall
    <3> QED
      BY <1>1, <2>1, <2>3, <3>1, OrderlyKept, Facts DEF history
  <2> QED
    BY <1>3, <2>2, <2>3 DEF Upsert, Insert, RequestsOf
<1>4. ASSUME NEW k \in Calls, AdminRequest(k)
      PROVE  Orderly(r)'
  BY <1>1, <1>4, AdminOrderly DEF AdminRequest
<1>5. ASSUME NEW k \in Calls, Apply(k) \/ SaveStatus(k)
      PROVE  Orderly(r)'
  BY <1>1, <1>5, ApplyOrderly, SaveOrderly
<1>6. ASSUME NEW k \in Calls, Fail(k)
      PROVE  Orderly(r)'
  <2>1. \A l \in Calls : calls'[l] = IF l = k THEN NoCall ELSE calls[l]
    BY <1>6, EndedCall DEF Fail
  <2>2. calls[k].request # r /\ r \notin disturbed
    BY <1>6, Facts DEF Fail
  <2> QED
    BY <1>1, <1>6, <2>1, <2>2, OrderlyKept, Facts DEF Fail
<1>7. ASSUME NEW q \in Requests, Delete(q)
      PROVE  Orderly(r)'
  <2>1. request'[r] = request[r] \/ ~Exists(r)'
    BY <1>7 DEF Delete, Exists, Deleted, Doc, TypeInv, TypeOK
  <2> QED
    BY <1>1, <1>7, <2>1, OrderlyKept DEF Delete, history
<1>8. CASE AdminPlans \/ UNCHANGED vars
  BY <1>1, <1>8, OrderlyKept DEF AdminPlans, CreatePlan, UpdatePlan, DeletePlan, vars, history
<1> QED
  BY <1>2, <1>3, <1>4, <1>5, <1>6, <1>7, <1>8 DEF Next

LEMMA StaysOrderly == Spec => []OrderlyInv
<1>1. Init => OrderlyInv
  <2> SUFFICES ASSUME Init, NEW r \in Requests
               PROVE  Orderly(r)
    BY DEF OrderlyInv
  <2>1. InProgress(r) = {} /\ renewed[r] = NoRenewal /\ ~Exists(r)
    BY Facts DEF Init, InProgress, Exists, NoRequest, Doc
  <2> QED
    BY <2>1, Facts DEF Orderly, Settled
<1> QED
  BY <1>1, NextOrderly, StaysTyped, PTL DEF Spec

\* An undisturbed request says "approved" exactly when its own terms were applied.
THEOREM StatusesMatch == Spec => []StatusMatchesPlan
<1>1. OrderlyInv => StatusMatchesPlan
  BY DEF OrderlyInv, Orderly, Settled, StatusMatchesPlan
<1> QED
  BY <1>1, StaysOrderly, PTL

\* An undisturbed request renews the subscription at most once.
THEOREM OneRenewal == Spec => []RenewedOnce
<1>1. TypeInv /\ OrderlyInv => RenewedOnce
  <2> SUFFICES ASSUME TypeInv, OrderlyInv, NEW r \in Requests \ disturbed
               PROVE  renewed[r].times <= 1
    BY DEF RenewedOnce
  <2>1. Orderly(r)
    BY DEF OrderlyInv
  <2>2. CASE InProgress(r) = {}
    BY <2>1, <2>2 DEF Orderly, Settled
  <2>3. ASSUME NEW k \in InProgress(r)
        PROVE  renewed[r].times <= 1
    <3>1. calls[k].pc \in {"apply", "approved", "rejected"}
      BY <2>3, Facts, CallType DEF InProgress, TypeInv, TypeOK, CallSet
    <3>2. renewed[r].times \in 0 .. 2
      BY DEF TypeInv, TypeOK
    <3> QED
      BY <2>1, <2>3, <3>1, <3>2, Facts DEF Orderly, Agrees
  <2> QED
    BY <2>2, <2>3
<1> QED
  BY <1>1, StaysTyped, StaysOrderly, PTL
=============================================================================
