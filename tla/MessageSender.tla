---------------------------- MODULE MessageSender ----------------------------
(***************************************************************************)
(* MessageSenderService: sendMessage and sendMessageExcel, called for the  *)
(* same WhatsApp account by HTTP requests, schedules and OTPs while the    *)
(* account's session may be lost, recovered, rebuilt or released.          *)
(*                                                                         *)
(* A call captures the session object (ClientState) it finds at its start  *)
(* and keeps using it; the flags it writes go, by clientId, to whatever    *)
(* object is registered then.  A step is the code between two awaits.  A   *)
(* sendMessage is a call of one row; each row of sendMessageExcel resolves *)
(* its own recipients.  Photo and text sends have the same control.        *)
(***************************************************************************)
EXTENDS Naturals, FiniteSets

CONSTANTS
    Users,         \* owners of accounts; the quota is the user's
    Clients,       \* WhatsApp accounts, by clientId
    Owner,         \* the user each client belongs to
    Instances,     \* session objects
    Calls,         \* room for concurrent calls
    RowCounts,     \* rows of a request; 1 is a sendMessage
    Sizes,         \* recipients a row may resolve to; 0: none, or the lookup throws
    Limit,         \* subscription.messageLimit
    MaxRequests,   \* bound: calls accepted in a behaviour
    MaxFaults      \* bound: usage updates that reject

None == "none"

Largest(S) == CHOOSE n \in S : \A m \in S : m <= n

ASSUME SenderAssumption ==
    /\ None \notin Instances
    /\ Owner \in [Clients -> Users]
    /\ IsFiniteSet(Calls) /\ Calls # {}
    /\ RowCounts \subseteq Nat \ {0} /\ \E r \in RowCounts : \A q \in RowCounts : q <= r
    /\ Sizes \subseteq Nat /\ 0 \in Sizes /\ \E n \in Sizes \ {0} : \A m \in Sizes : m <= n
    /\ {Limit, MaxRequests, MaxFaults} \subseteq Nat

VARIABLES
    registry,   \* clientStates: the session object of a client, or None
    ready,      \* session objects with isReady
    sending,    \* session objects with isSending
    calls,      \* sendMessage and sendMessageExcel calls in flight
    used,       \* subscription.messagesUsed
    requests, faults

session == <<registry, ready, sending>>
vars    == <<session, calls, used, requests, faults>>

-----------------------------------------------------------------------------

\* A call: the await it is suspended at, its account and the session object it
\* captured, the rows after the current one and the recipients left of this one.
Call(pc, c, i, rows, left) ==
    [pc |-> pc, client |-> c, obj |-> i, rows |-> rows, left |-> left]
NoCall == Call("idle", None, None, 0, 0)

\* The awaits between setting isSending and the finally block that resets it.
SendPhase  == {"resolve", "check", "recheck", "send", "ack", "count"}
Sending(k) == calls[k].pc \in SendPhase

Free == {i \in Instances : /\ \A c \in Clients : registry[c] # i
                           /\ \A k \in Calls : calls[k].obj # i}

\* markSessionUnhealthy: the registered object, whichever it is by now.
MarkUnhealthy(c) == ready' = ready \ {registry[c]}

Goto(k, pc) ==
    calls' = [calls EXCEPT ![k] = Call(pc, @.client, @.obj, @.rows, @.left)]

\* Mutant: every recipient uses up a row.
AdvanceOffByOne(k) ==
    LET r == calls[k] IN
    \/ /\ r.left >= 1
       /\ calls' = [calls EXCEPT ![k] = Call("check", r.client, r.obj, r.rows - 1, r.left - 1)]
       /\ UNCHANGED sending
    \/ /\ r.left = 0
       /\ calls' = [calls EXCEPT ![k] = NoCall]
       /\ sending' = sending \ {registry[r.client]}

\* Mutant: no finally block.
FinishLeaky(k) ==
    /\ calls' = [calls EXCEPT ![k] = NoCall]
    /\ UNCHANGED sending

\* The finally block: isSending of the registered object is reset.
Finish(k) ==
    /\ calls' = [calls EXCEPT ![k] = NoCall]
    /\ sending' = sending \ {registry[calls[k].client]}

NextRecipient(k) ==
    LET r == calls[k] IN
    /\ r.left > 1
    /\ calls' = [calls EXCEPT ![k] = Call("check", r.client, r.obj, r.rows, r.left - 1)]
    /\ UNCHANGED sending

NextRow(k) ==
    LET r == calls[k] IN
    /\ r.left <= 1 /\ r.rows > 0
    /\ calls' = [calls EXCEPT ![k] = Call("resolve", r.client, r.obj, r.rows - 1, 0)]
    /\ UNCHANGED sending

\* On to the next recipient of the row, the next row, or the end of the call.
Advance(k) ==
    \/ NextRecipient(k)
    \/ NextRow(k)
    \/ calls[k].left <= 1 /\ calls[k].rows = 0 /\ Finish(k)

-----------------------------------------------------------------------------
(* A call *)

\* An unknown session and one that is sending are refused.
Request(k, c) ==
    /\ calls[k] = NoCall
    /\ requests < MaxRequests
    /\ registry[c] # None /\ registry[c] \notin sending
    /\ \E n \in RowCounts :
         calls' = [calls EXCEPT ![k] = Call("user", c, registry[c], n - 1, 0)]
    /\ requests' = requests + 1
    /\ UNCHANGED <<session, used, faults>>

\* Mutant: the quota is only looked at by the guard in front of the controller.
CheckUserNoLimit(k) ==
    /\ calls[k].pc = "user"
    /\ IF calls[k].obj \in ready
       THEN Goto(k, "validate")
       ELSE calls' = [calls EXCEPT ![k] = NoCall]
    /\ UNCHANGED <<session, used, requests, faults>>

\* The user's quota, then isReady of the captured object.
CheckUser(k) ==
    /\ calls[k].pc = "user"
    /\ IF used[Owner[calls[k].client]] < Limit /\ calls[k].obj \in ready
       THEN Goto(k, "validate")
       ELSE calls' = [calls EXCEPT ![k] = NoCall]
    /\ UNCHANGED <<session, used, requests, faults>>

\* getState answers.  isSending is set only now, two awaits after it was read.
Validate(k) ==
    LET c == calls[k].client IN
    /\ calls[k].pc = "validate"
    /\ \/ /\ Goto(k, "resolve")
          /\ sending' = sending \cup ({registry[c]} \ {None})
          /\ UNCHANGED ready
       \/ /\ calls' = [calls EXCEPT ![k] = NoCall]
          /\ MarkUnhealthy(c)
          /\ UNCHANGED sending
    /\ UNCHANGED <<registry, used, requests, faults>>

\* The content and the recipients of a row.
Resolve(k) ==
    /\ calls[k].pc = "resolve"
    /\ \/ Advance(k)
       \/ \E n \in Sizes \ {0} :
            /\ calls' = [calls EXCEPT ![k] = Call("check", @.client, @.obj, @.rows, n)]
            /\ UNCHANGED sending
    /\ UNCHANGED <<registry, ready, used, requests, faults>>

\* assertWhatsAppConnected of the captured client, once in the loop over the
\* recipients and once in sendSingleMessage.
CheckConnection(k) ==
    /\ calls[k].pc \in {"check", "recheck"}
    /\ \/ /\ Goto(k, IF calls[k].pc = "check" THEN "recheck" ELSE "send")
          /\ UNCHANGED <<ready, sending>>
       \/ MarkUnhealthy(calls[k].client) /\ Advance(k)
    /\ UNCHANGED <<registry, used, requests, faults>>

\* An error of a stale session; an error that WhatsApp usually raises after it
\* accepted the message, which counts as sent; any other error.
HandleSendError(k) ==
    \/ MarkUnhealthy(calls[k].client) /\ Advance(k)
    \/ Goto(k, "count") /\ UNCHANGED <<ready, sending>>
    \/ Advance(k) /\ UNCHANGED ready

\* client.sendMessage returns a message to be acknowledged, or throws.
SendMessage(k) ==
    /\ calls[k].pc = "send"
    /\ \/ Goto(k, "ack") /\ UNCHANGED <<ready, sending>>
       \/ HandleSendError(k)
    /\ UNCHANGED <<registry, used, requests, faults>>

\* waitForDeliveryAck: an acknowledgement, or an error or 45 s without one.
AwaitAck(k) ==
    /\ calls[k].pc = "ack"
    /\ \/ Goto(k, "count") /\ UNCHANGED <<ready, sending>>
       \/ MarkUnhealthy(calls[k].client) /\ Advance(k)
    /\ UNCHANGED <<registry, used, requests, faults>>

\* incrementMessageUsage.  When it rejects, the message is reported as failed; the
\* increment may or may not have reached the database.
IncrementMessageUsage(k) ==
    LET incremented == [used EXCEPT ![Owner[calls[k].client]] = @ + 1] IN
    /\ calls[k].pc = "count"
    /\ \/ used' = incremented /\ UNCHANGED faults
       \/ /\ faults < MaxFaults
          /\ faults' = faults + 1
          /\ used' \in {used, incremented}
    /\ Advance(k)
    /\ UNCHANGED <<registry, ready, requests>>

CallStep(k) ==
    \/ CheckUser(k) \/ Validate(k) \/ Resolve(k) \/ CheckConnection(k)
    \/ SendMessage(k) \/ AwaitAck(k) \/ IncrementMessageUsage(k)

-----------------------------------------------------------------------------
(* What the session services and the administrator do meanwhile *)

\* A session becomes ready, or a disconnection or a recovery takes that back.
SessionReady(c) ==
    /\ registry[c] # None
    /\ ready' \in {ready \cup {registry[c]}, ready \ {registry[c]}}
    /\ UNCHANGED <<registry, sending, calls, used, requests, faults>>

\* A new session object takes the place of the client's old one, if it has any.
SessionRebuilt(c) ==
    \E i \in Free :
      /\ registry' = [registry EXCEPT ![c] = i]
      /\ ready' = ready \ {i} /\ sending' = sending \ {i}
      /\ UNCHANGED <<calls, used, requests, faults>>

\* releaseClientMemory and performCleanup reset both flags, destroy the client and
\* then unregister the session.
SessionReleased(c) ==
    /\ registry[c] # None
    /\ ready' = ready \ {registry[c]} /\ sending' = sending \ {registry[c]}
    /\ registry' \in {registry, [registry EXCEPT ![c] = None]}
    /\ UNCHANGED <<calls, used, requests, faults>>

\* An approved subscription request replaces the user's subscription.
Renew(u) ==
    /\ used' = [used EXCEPT ![u] = 0]
    /\ UNCHANGED <<session, calls, requests, faults>>

-----------------------------------------------------------------------------

Init ==
    /\ registry = [c \in Clients |-> None]
    /\ ready = {} /\ sending = {}
    /\ calls = [k \in Calls |-> NoCall]
    /\ used \in [Users -> 0 .. Limit]
    /\ requests = 0 /\ faults = 0

Next ==
    \/ \E k \in Calls : CallStep(k) \/ \E c \in Clients : Request(k, c)
    \/ \E c \in Clients : SessionReady(c) \/ SessionRebuilt(c) \/ SessionReleased(c)
    \/ \E u \in Users : Renew(u)

Spec == Init /\ [][Next]_vars

-----------------------------------------------------------------------------
(* Properties *)

SessionType ==
    /\ registry \in [Clients -> Instances \cup {None}]
    /\ ready \subseteq Instances /\ sending \subseteq Instances

\* Every call in flight is about an account.
CallsType ==
    /\ calls \in [Calls -> [pc : {"idle", "user", "validate"} \cup SendPhase,
                           client : Clients \cup {None}, obj : Instances \cup {None},
                           rows : Nat, left : Nat]]
    /\ \A k \in Calls : calls[k].pc # "idle" => calls[k].client \in Clients

CountersType ==
    /\ used \in [Users -> Nat]
    /\ requests \in 0 .. MaxRequests /\ faults \in 0 .. MaxFaults

TypeOK == SessionType /\ CallsType /\ CountersType

\* isSending is never left up: a registered session that refuses calls because it
\* is sending has a call in flight that will reset the flag, whatever rebuilds,
\* releases and overlapping calls happened since it was set.
FlagHasSender ==
    \A c \in Clients :
      registry[c] \in sending => \E k \in Calls : Sending(k) /\ calls[k].client = c

\* What a call may send at most.
MaxPerCall == Largest(RowCounts) * Largest(Sizes)

\* The quota is checked once per call, so it can be overrun - but only by what the
\* calls in flight together may still send: a call that starts at the limit sends
\* nothing, and nothing is charged outside a call (message-sender.service.ts:93).
OverrunBounded ==
    \A u \in Users : used[u] < Limit + Cardinality(Calls) * MaxPerCall
=============================================================================
