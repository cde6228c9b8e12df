-------------------------- MODULE IncomingMessages --------------------------
(***************************************************************************)
(* A message that reaches a WhatsApp account: the "message" listeners that *)
(* EventHandlerService attaches to Client objects, the filters of          *)
(* MessageHandlerService, and the rule-based reply of AutoResponderService.*)
(* Client objects that were replaced and not destroyed keep delivering, a  *)
(* message of a group reaches several accounts, and WhatsApp delivers      *)
(* again after a reconnection, so a message may arrive any number of times.*)
(*                                                                         *)
(* Only the in-memory id cache and the session start times tell a new      *)
(* message from a known or an old one; both are lost in a restart.         *)
(* A step is the code between two awaits.  The statistics and the list of  *)
(* unread messages, which nothing acts on, are left out.                   *)
(***************************************************************************)
EXTENDS Integers, Sequences, FiniteSets

CONSTANTS
    Accounts,    \* clientIds
    Clients,     \* Client objects
    Messages,    \* message ids; a message of a group has one id in every account
    Recipients,  \* the accounts a message is sent to
    Ignored,     \* messages of a broadcast, or sent by the account itself
    Stamped,     \* messages that carry a timestamp
    Texts,       \* what messages say
    Keywords,    \* what rules look for
    Text,        \* the text of a message
    Kind,        \* a text is "none", "short", "automated" or "plain"
    Match,       \* Match[t][k]: how text t matches keyword k
    RuleLists,   \* what findAllRules may return: sequences of rules, sequences of keywords
    Slots,       \* room for messages being handled
    Buffer,      \* buffer of isOldMessage
    Threshold,   \* MESSAGE_AGE_THRESHOLD_MS
    KeepIds,     \* maxSize of the id cache
    MaxTime      \* bound: the clock

None  == "none"
Never == -1
Many  == 2   \* bound: the history counts no further replies to a message

ASSUME IncomingAssumption ==
    /\ None \notin Accounts \cup Messages
    /\ Recipients \in [Messages -> SUBSET Accounts]
    /\ {Buffer, Threshold, KeepIds, MaxTime} \subseteq Nat
    /\ Ignored \subseteq Messages /\ Stamped \subseteq Messages

VARIABLES
    now,        \* the clock
    bootAt,     \* when the process started
    sent,       \* when a message was sent: its timestamp, if it is Stamped
    start,      \* sessionStartTimes
    attached,   \* the account whose handlers a Client object has, or None
    processed,  \* processedMessageIds, in the order of insertion
    handling,   \* messages on their way through the handlers
    replies,    \* history: replies sent to a message in this life of the process
    since,      \* history: the messages accepted after a message was last accepted
    late        \* history: messages accepted again after KeepIds others

history == <<replies, since, late>>
vars    == <<now, bootAt, sent, start, attached, processed, handling, history>>

-----------------------------------------------------------------------------
(* Filters *)

InCache(m) == \E i \in DOMAIN processed : processed[i] = m

\* Mutant: a session whose start is not known takes every message.
IsOldOnlyKnown(m, a) ==
    /\ m \in Stamped
    /\ start[a] # Never /\ sent[m] < start[a] - Buffer

\* isOldMessage: measured from the start of the account's session, if it is known.
IsOld(m, a) ==
    /\ m \in Stamped
    /\ IF start[a] # Never THEN sent[m] < start[a] - Buffer
                           ELSE now - sent[m] > Threshold

-----------------------------------------------------------------------------
(* Rules *)

Larger(x, y) == IF x > y THEN x ELSE y

\* validateMessageForAutoResponse: isGroupMsg is never set, and a forwarded text passes.
ValidForAutoResponse(m) == Kind[Text[m]] \notin {"none", "short", "automated"}

\* A keyword that is the message, a word, a part of it, or what it starts with but for
\* some letters.
Points == [exact |-> 100, word |-> 50, part |-> 25, fuzzy |-> 10, no |-> 0]

ASSUME RulesAssumption ==
    /\ Text \in [Messages -> Texts]
    /\ Kind \in [Texts -> {"none", "short", "automated", "plain"}]
    /\ Match \in [Texts -> [Keywords -> DOMAIN Points]]
    /\ RuleLists \subseteq Seq(Seq(Keywords))

\* calculateRuleMatchScore: the keywords of the rule add up.
RuleScore(text, rule) ==
    LET sum[i \in 0 .. Len(rule)] ==
          IF i = 0 THEN 0 ELSE sum[i - 1] + Points[Match[text][rule[i]]]
    IN sum[Len(rule)]

\* Mutant: a rule replaces one of the same score.
BestRuleLast(text, rules) ==
    LET best[i \in 0 .. Len(rules)] ==
          IF i = 0 THEN [rule |-> 0, score |-> 0]
          ELSE IF RuleScore(text, rules[i]) >= best[i - 1].score
               THEN [rule |-> i, score |-> RuleScore(text, rules[i])]
               ELSE best[i - 1]
    IN best[Len(rules)].rule

\* findBestMatchingRule: the loop over the rules of the account; 0 is no rule.
BestRule(text, rules) ==
    LET best[i \in 0 .. Len(rules)] ==
          IF i = 0 THEN [rule |-> 0, score |-> 0]
          ELSE IF RuleScore(text, rules[i]) > best[i - 1].score
               THEN [rule |-> i, score |-> RuleScore(text, rules[i])]
               ELSE best[i - 1]
    IN best[Len(rules)].rule

-----------------------------------------------------------------------------
(* Handling of one message *)

\* The await it is suspended at, the account it reached, the rules read and the rule chosen.
Handling(pc, m, a, rules, rule) ==
    [pc |-> pc, msg |-> m, account |-> a, rules |-> rules, rule |-> rule]
NoHandling == Handling("idle", None, None, <<>>, 0)

Leave(s)    == handling' = [handling EXCEPT ![s] = NoHandling]
Goto(s, pc) == handling' = [handling EXCEPT ![s] = Handling(pc, @.msg, @.account, <<>>, 0)]

Accepted(m) ==
    /\ since' = [n \in Messages |-> IF n = m THEN {} ELSE since[n] \cup {m}]
    /\ late' = IF Cardinality(since[m]) >= KeepIds THEN late \cup {m} ELSE late

\* Mutant: the id is added once the account is known.
ReceiveUnmarked(c, m, s) ==
    LET a == attached[c] IN
    /\ a # None /\ a \in Recipients[m] /\ sent[m] # Never
    /\ handling[s] = NoHandling
    /\ ~InCache(m)
    /\ IF m \in Ignored \/ IsOld(m, a)
       THEN UNCHANGED handling
       ELSE handling' = [handling EXCEPT ![s] = Handling("account", m, a, <<>>, 0)]
    /\ Accepted(m)
    /\ UNCHANGED <<now, bootAt, sent, start, attached, processed, replies>>

\* The "message" listener and handleIncomingMessage up to the lookup of the account: the
\* id is checked and added in one step, before the filters.
Receive(c, m, s) ==
    LET a == attached[c] IN
    /\ a # None /\ a \in Recipients[m] /\ sent[m] # Never
    /\ handling[s] = NoHandling
    /\ ~InCache(m)
    /\ processed' = Append(processed, m)
    /\ IF m \in Ignored \/ IsOld(m, a)
       THEN UNCHANGED handling
       ELSE handling' = [handling EXCEPT ![s] = Handling("account", m, a, <<>>, 0)]
    /\ Accepted(m)
    /\ UNCHANGED <<now, bootAt, sent, start, attached, replies>>

\* The account is found and the auto-responder called; or it is gone, or the lookup
\* failed, and the message is dropped with its id in the cache.
AccountFound(s) ==
    /\ handling[s].pc = "account"
    /\ \/ ValidForAutoResponse(handling[s].msg) /\ Goto(s, "ready")
       \/ Leave(s)
    /\ UNCHANGED <<now, bootAt, sent, start, attached, processed, history>>

\* AutoResponderService.handleIncomingMessage after findById: the account may have been
\* deleted, and its session may not be ready.
CheckReady(s) ==
    /\ handling[s].pc = "ready"
    /\ Goto(s, "rules") \/ Leave(s)
    /\ UNCHANGED <<now, bootAt, sent, start, attached, processed, history>>

\* findAllRules answers what its owner has made of the rules by now, or fails.
FindRule(s) ==
    LET h == handling[s] IN
    /\ h.pc = "rules"
    /\ \/ \E rules \in RuleLists :
            LET rule == BestRule(Text[h.msg], rules) IN
            IF rule = 0 THEN Leave(s)
            ELSE handling' = [handling EXCEPT ![s] = Handling("send", h.msg, h.account, rules, rule)]
       \/ Leave(s)
    /\ UNCHANGED <<now, bootAt, sent, start, attached, processed, history>>

\* sendAutoResponse: the reply is delivered, whatever sendMessage reports of it, or not.
SendReply(s) ==
    /\ handling[s].pc = "send"
    /\ \/ replies' = [replies EXCEPT ![handling[s].msg] = IF @ = Many THEN @ ELSE @ + 1]
       \/ UNCHANGED replies
    /\ Leave(s)
    /\ UNCHANGED <<now, bootAt, sent, start, attached, processed, since, late>>

-----------------------------------------------------------------------------
(* Sessions, the cache and the process *)

\* Somebody writes to the account's number or to a group it is in.
Write(m) ==
    /\ sent[m] = Never
    /\ sent' = [sent EXCEPT ![m] = now]
    /\ UNCHANGED <<now, bootAt, start, attached, processed, handling, history>>

\* Mutant: the start is set back by the age of the messages to take.
MarkSessionStartEarly(a) == start' = [start EXCEPT ![a] = now - Threshold]

MarkSessionStart(a) == start' = [start EXCEPT ![a] = now]
ResetClientStats(a) == start' = [start EXCEPT ![a] = Never]

\* setupSessionHandlers, for a new Client or for one again.
SetupSession(c, a) ==
    /\ attached[c] \in {None, a}
    /\ attached' = [attached EXCEPT ![c] = a]
    /\ MarkSessionStart(a)
    /\ UNCHANGED <<now, bootAt, sent, processed, handling, history>>

\* The client is destroyed or its listeners are removed; its session start stays.
Detach(c) ==
    /\ attached[c] # None
    /\ attached' = [attached EXCEPT ![c] = None]
    /\ UNCHANGED <<now, bootAt, sent, start, processed, handling, history>>

\* handleClientDisconnected on a logout: no more messages from this client, and the
\* session start is forgotten.
Logout(c) ==
    /\ attached[c] # None
    /\ ResetClientStats(attached[c])
    /\ attached' = [attached EXCEPT ![c] = None]
    /\ UNCHANGED <<now, bootAt, sent, processed, handling, history>>

\* Mutant: the newest ids are removed.
CleanupNewest ==
    /\ Len(processed) > KeepIds
    /\ processed' = SubSeq(processed, 1, KeepIds)
    /\ UNCHANGED <<now, bootAt, sent, start, attached, handling, history>>

\* cleanupOldMessageIds, every hour: the KeepIds newest ids stay.
CleanupOldMessageIds ==
    /\ Len(processed) > KeepIds
    /\ processed' = SubSeq(processed, Len(processed) - KeepIds + 1, Len(processed))
    /\ UNCHANGED <<now, bootAt, sent, start, attached, handling, history>>

Tick ==
    /\ now < MaxTime
    /\ now' = now + 1
    /\ UNCHANGED <<bootAt, sent, start, attached, processed, handling, history>>

\* The process ends and starts again; nothing above is persisted.
Crash ==
    /\ bootAt' = now
    /\ start' = [a \in Accounts |-> Never]
    /\ attached' = [c \in Clients |-> None]
    /\ processed' = <<>>
    /\ handling' = [s \in Slots |-> NoHandling]
    /\ replies' = [m \in Messages |-> 0]
    /\ since' = [m \in Messages |-> {}] /\ late' = {}
    /\ UNCHANGED <<now, sent>>

-----------------------------------------------------------------------------
(* Specification *)

Init ==
    /\ now = 0 /\ bootAt = 0
    /\ sent = [m \in Messages |-> Never]
    /\ start = [a \in Accounts |-> Never]
    /\ attached = [c \in Clients |-> None]
    /\ processed = <<>>
    /\ handling = [s \in Slots |-> NoHandling]
    /\ replies = [m \in Messages |-> 0]
    /\ since = [m \in Messages |-> {}] /\ late = {}

Handle(s) == AccountFound(s) \/ CheckReady(s) \/ FindRule(s) \/ SendReply(s)

Next ==
    \/ \E c \in Clients, m \in Messages, s \in Slots : Receive(c, m, s)
    \/ \E s \in Slots : Handle(s)
    \/ \E m \in Messages : Write(m)
    \/ \E c \in Clients : Detach(c) \/ Logout(c)
    \/ \E c \in Clients, a \in Accounts : SetupSession(c, a)
    \/ CleanupOldMessageIds \/ Tick \/ Crash

Spec == Init /\ [][Next]_vars

-----------------------------------------------------------------------------
(* Properties *)

HandlingSet ==
    [pc : {"idle", "account", "ready", "rules", "send"}, msg : Messages \cup {None},
     account : Accounts \cup {None}, rules : RuleLists \cup {<<>>}, rule : Nat]

\* Types; a known session start is one of this life of the process.
TypeOK ==
    /\ now \in Nat /\ bootAt \in Nat
    /\ sent \in [Messages -> Nat \cup {Never}]
    /\ start \in [Accounts -> Nat \cup {Never}]
    /\ attached \in [Clients -> Accounts \cup {None}]
    /\ processed \in Seq(Messages)
    /\ handling \in [Slots -> HandlingSet]
    /\ replies \in [Messages -> 0 .. Many]
    /\ since \in [Messages -> SUBSET Messages] /\ late \subseteq Messages
    /\ \A a \in Accounts : start[a] # Never => start[a] \in bootAt .. now

\* While the process lives a message gets at most one reply, from one account, however
\* many Client objects and accounts deliver it and however their handling interleaves
\* (message-handler.service.ts:84); a second one takes at least KeepIds messages
\* between its two deliveries (message-handler.service.ts:239).
OnceALife == \A m \in Messages \ late : replies[m] <= 1

\* What arrived while the process was down is not answered: after a restart the replies
\* go to messages sent at most the buffer before it, or the age threshold for an account
\* whose session start is unknown because it was logged out
\* (message-handler.service.ts:104), whatever is delivered, restarted or logged out
\* meanwhile.  So a message that was answered before a crash is answered again only if
\* the crash followed it that closely.
OutageUnanswered ==
    \A m \in Stamped : replies[m] > 0 => sent[m] + Larger(Buffer, Threshold) >= bootAt

\* The rule that answers matches the message; no other rule read has a higher score, and
\* none before it in the order they were read has the same one, an order nothing in the
\* query fixes (auto-responder.service.ts:188, rules.service.ts:49).
RuleIsBest ==
    \A s \in Slots : handling[s].pc = "send" =>
        LET text  == Text[handling[s].msg]
            rules == handling[s].rules
            best  == handling[s].rule
        IN /\ RuleScore(text, rules[best]) > 0
           /\ \A i \in DOMAIN rules \ {best} :
                \/ RuleScore(text, rules[i]) < RuleScore(text, rules[best])
                \/ RuleScore(text, rules[i]) = RuleScore(text, rules[best]) /\ best < i
=============================================================================
