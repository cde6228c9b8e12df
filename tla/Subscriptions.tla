---------------------------- MODULE Subscriptions ----------------------------
(***************************************************************************)
(* Requests for a subscription plan.  A user asks for a plan, whose terms  *)
(* are copied into the user's request; an administrator approves or        *)
(* rejects it, and an approval replaces the subscription in the user's     *)
(* document and starts its count of messages again (the count itself is    *)
(* in MessageSender).                                                      *)
(*                                                                         *)
(* Every operation reads the request, awaits, and writes; approve writes   *)
(* two documents.  A step is the code between two awaits.  isActive, which *)
(* deactivate clears and nothing reads, is left out.                       *)
(***************************************************************************)
EXTENDS Naturals, FiniteSets

CONSTANTS
    Users,
    Plans,     \* ids of plans
    Terms,     \* messageLimit, durationInDays and the rest of a plan
    Requests,  \* ids of requests
    Calls,     \* room for concurrent operations
    Free       \* the terms of getFreePlan

None == "none"

ASSUME SubscriptionsAssumption == None \notin Users \cup Terms \cup Requests

VARIABLES
    plan,          \* the terms of a plan, or None
    request,       \* a request, NoRequest before its insertion, Deleted after its deletion
    subscription,  \* the terms of user.subscription
    calls,         \* operations in progress
    asked,         \* history: the terms a user has asked for
    renewed,       \* history: the terms applied for a request since it was last made, in
                   \* number and value
    disturbed      \* history: requests with two operations on them at once, or one that
                   \* ended between its reads and its last write

history == <<asked, renewed, disturbed>>
vars    == <<plan, request, subscription, calls, history>>

-----------------------------------------------------------------------------

Doc(u, t, status) == [user |-> u, terms |-> t, status |-> status]
NoRequest == Doc(None, None, "none")
Deleted   == Doc(None, None, "deleted")
Exists(r) == request[r].user # None

\* An operation in progress: what it does next, on which request, and what it has read.
Call(pc, r, u, t) == [pc |-> pc, request |-> r, user |-> u, terms |-> t]
NoCall == Call("idle", None, None, None)

Begin(k, call) == calls[k] = NoCall /\ calls' = [calls EXCEPT ![k] = call]
Goto(k, pc)    == calls' = [calls EXCEPT ![k] = Call(pc, @.request, @.user, @.terms)]
End(k)         == calls' = [calls EXCEPT ![k] = NoCall]

InProgress(r) == {k \in Calls : calls[k].request = r}

\* Call k, if it is one on r, is not the only one.
Disturbs(k, r) ==
    disturbed' = IF InProgress(r) \ {k} # {} THEN disturbed \cup {r} ELSE disturbed

Renewals(n, t) == [times |-> n, terms |-> t]
NoRenewal == Renewals(0, None)

-----------------------------------------------------------------------------
(* create *)

\* The plan is there; whether it is active does not matter.
Create(k, u, p) ==
    /\ plan[p] # None
    /\ Begin(k, Call("upsert", None, u, plan[p]))
    /\ asked' = [asked EXCEPT ![u] = @ \cup {plan[p]}]
    /\ UNCHANGED <<plan, request, subscription, renewed, disturbed>>

\* Mutant: the status of the earlier request stays.
WriteRequestKeepingStatus(k, r) ==
    /\ request' = [request EXCEPT ![r] = Doc(calls[k].user, calls[k].terms, IF Exists(r) THEN @.status ELSE "pending")]
    /\ renewed' = [renewed EXCEPT ![r] = NoRenewal]
    /\ Disturbs(k, r)
    /\ End(k)
    /\ UNCHANGED <<plan, subscription, asked>>

WriteRequest(k, r) ==
    /\ request' = [request EXCEPT ![r] = Doc(calls[k].user, calls[k].terms, "pending")]
    /\ renewed' = [renewed EXCEPT ![r] = NoRenewal]
    /\ Disturbs(k, r)
    /\ End(k)
    /\ UNCHANGED <<plan, subscription, asked>>

RequestsOf(u) == {r \in Requests : request[r].user = u}

\* findOneAndUpdate with upsert: the user's request is made anew, or there is none.
Upsert(k) ==
    /\ calls[k].pc = "upsert"
    /\ \/ \E r \in RequestsOf(calls[k].user) : WriteRequest(k, r)
       \/ /\ RequestsOf(calls[k].user) = {}
          /\ Goto(k, "insert")
          /\ UNCHANGED <<plan, request, subscription, history>>

\* The upsert inserts one.  No index makes the user unique, so another may have come first.
Insert(k) ==
    /\ calls[k].pc = "insert"
    /\ \E r \in Requests : request[r] = NoRequest /\ WriteRequest(k, r)

-----------------------------------------------------------------------------
(* approve, disapprove, delete *)

\* Mutant: an approved request is approved again.
ApproveAgain(k, r) ==
    /\ Exists(r)
    /\ Begin(k, Call("apply", r, request[r].user, request[r].terms))
    /\ Disturbs(k, r)
    /\ UNCHANGED <<plan, request, subscription, asked, renewed>>

\* A rejected request may be approved.
Approve(k, r) ==
    /\ Exists(r) /\ request[r].status # "approved"
    /\ Begin(k, Call("apply", r, request[r].user, request[r].terms))
    /\ Disturbs(k, r)
    /\ UNCHANGED <<plan, request, subscription, asked, renewed>>

Apply(k) ==
    LET c == calls[k] IN
    /\ c.pc = "apply"
    /\ subscription' = [subscription EXCEPT ![c.user] = c.terms]
    /\ renewed' = [renewed EXCEPT ![c.request] = Renewals(IF @.times = 2 THEN 2 ELSE @.times + 1, c.terms)]
    /\ Disturbs(k, c.request)
    /\ Goto(k, "approved")
    /\ UNCHANGED <<plan, request, asked>>

Disapprove(k, r) ==
    /\ Exists(r) /\ request[r].status = "pending"
    /\ Begin(k, Call("rejected", r, None, None))
    /\ Disturbs(k, r)
    /\ UNCHANGED <<plan, request, subscription, asked, renewed>>

\* Mutant: the save inserts a request that was deleted.
SetStatusAlways(r, status) ==
    request' = [request EXCEPT ![r] = Doc(@.user, @.terms, status)]

\* save writes the status alone, whatever the request has become, and rejects for one
\* that was deleted.
SetStatus(r, status) ==
    request' = [request EXCEPT ![r] = IF Exists(r) THEN Doc(@.user, @.terms, status) ELSE @]

SaveStatus(k) ==
    LET c == calls[k] IN
    /\ c.pc \in {"approved", "rejected"}
    /\ SetStatus(c.request, c.pc)
    /\ Disturbs(k, c.request)
    /\ End(k)
    /\ UNCHANGED <<plan, subscription, asked, renewed>>

\* The database fails, or the process ends.
Fail(k) ==
    /\ calls[k] # NoCall
    /\ disturbed' = disturbed \cup ({calls[k].request} \ {None})
    /\ End(k)
    /\ UNCHANGED <<plan, request, subscription, asked, renewed>>

Delete(r) ==
    /\ Exists(r)
    /\ request' = [request EXCEPT ![r] = Deleted]
    /\ UNCHANGED <<plan, subscription, calls, history>>

-----------------------------------------------------------------------------
(* Plans *)

CreatePlan(p, t) ==
    /\ plan[p] = None
    /\ plan' = [plan EXCEPT ![p] = t]
    /\ UNCHANGED <<request, subscription, calls, history>>

\* Mutant: requests that wait get the new terms.
UpdatePlanOfPending(p, t) ==
    /\ plan[p] \notin {None, t}
    /\ plan' = [plan EXCEPT ![p] = t]
    /\ request' = [r \in Requests |->
                     IF request[r].status = "pending" /\ request[r].terms = plan[p]
                     THEN Doc(request[r].user, t, "pending") ELSE request[r]]
    /\ UNCHANGED <<subscription, calls, history>>

UpdatePlan(p, t) ==
    /\ plan[p] \notin {None, t}
    /\ plan' = [plan EXCEPT ![p] = t]
    /\ UNCHANGED <<request, subscription, calls, history>>

DeletePlan(p) ==
    /\ plan[p] # None
    /\ plan' = [plan EXCEPT ![p] = None]
    /\ UNCHANGED <<request, subscription, calls, history>>

-----------------------------------------------------------------------------
(* Specification *)

Init ==
    /\ plan = [p \in Plans |-> None]
    /\ request = [r \in Requests |-> NoRequest]
    /\ subscription = [u \in Users |-> Free]
    /\ calls = [k \in Calls |-> NoCall]
    /\ asked = [u \in Users |-> {}]
    /\ renewed = [r \in Requests |-> NoRenewal]
    /\ disturbed = {}

\* The endpoints of users and of administrators.
UserRequest(k) == \E u \in Users, p \in Plans : Create(k, u, p)
AdminRequest(k) == \E r \in Requests : Approve(k, r) \/ Disapprove(k, r)
AdminPlans == \E p \in Plans : DeletePlan(p) \/ \E t \in Terms : CreatePlan(p, t) \/ UpdatePlan(p, t)

Next ==
    \/ \E k \in Calls : \/ UserRequest(k) \/ Upsert(k) \/ Insert(k)
                        \/ AdminRequest(k) \/ Apply(k) \/ SaveStatus(k) \/ Fail(k)
    \/ \E r \in Requests : Delete(r)
    \/ AdminPlans

Spec == Init /\ [][Next]_vars

-----------------------------------------------------------------------------
(* Properties *)

DocSet  == [user : Users, terms : Terms, status : {"pending", "approved", "rejected"}]
CallSet == [pc : {"upsert", "insert", "apply", "approved", "rejected"},
            request : Requests \cup {None}, user : Users \cup {None}, terms : Terms \cup {None}]

\* Types.
TypeOK ==
    /\ plan \in [Plans -> Terms \cup {None}]
    /\ request \in [Requests -> DocSet \cup {NoRequest, Deleted}]
    /\ subscription \in [Users -> Terms \cup {Free}]
    /\ calls \in [Calls -> CallSet \cup {NoCall}]
    /\ asked \in [Users -> SUBSET Terms]
    /\ renewed \in [Requests -> [times : 0 .. 2, terms : Terms \cup {None}]]
    /\ disturbed \subseteq Requests

\* A request says "approved" exactly when its own terms have been applied to the user,
\* through any sequence of requests made anew, approvals, rejections and deletions, while
\* no two operations on it overlap and none is cut off (user-subscriptions.service.ts:85):
\* approve saves the status over whatever the request has become since it read it.
StatusMatchesPlan ==
    \A r \in Requests \ disturbed :
        Exists(r) /\ InProgress(r) = {}
            => IF request[r].status = "approved"
               THEN renewed[r] = Renewals(1, request[r].terms)
               ELSE renewed[r] = NoRenewal

\* A request renews the subscription, and with it the count of messages, once: an
\* approval that is repeated, or follows a rejection, does not give another allowance
\* (user-subscriptions.service.ts:64), under the same proviso.
RenewedOnce == \A r \in Requests \ disturbed : renewed[r].times <= 1

\* A user has the free plan or one with the very terms that were in force when the user
\* asked for it, whatever becomes of the plan before the approval and however operations
\* overlap (user-subscriptions.service.ts:31, 70).
TermsWereAsked ==
    \A u \in Users : subscription[u] \in {Free} \cup asked[u]
=============================================================================
