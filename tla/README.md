# Verification of the WhatsApp messaging backend

TLA+ models, TLC checks and TLAPS proofs of the NestJS backend in `src/src`: a
multi-user service that keeps WhatsApp sessions (whatsapp-web.js clients, one
headless browser each) in the memory of one Node process, sends and schedules
messages through them, answers incoming messages, and keeps users, accounts,
contacts, groups, rules, templates, schedules and subscriptions in MongoDB.

The program runs on one thread, so nothing is interrupted between two `await`s.
What makes it hard is everything that happens *at* an `await`: timers, cron jobs,
HTTP requests, socket messages and the events of the browsers all interleave
there, and nearly all of them find their state again under a `clientId` or a
document id after they resume. That is the grain of every module here: **a step
is the code from the completion of one awaited call to the next `await`**.

Paths are relative to `src/src/modules` unless they begin with `src/`.

## 1. The system

| Part | State it keeps | Operations | Interacts with | What makes it correct |
|---|---|---|---|---|
| Scheduling (`scheduling/`) | schedule documents; Node timers; `SchedulerRegistry`; `processingSchedules` | create, update, remove, cancel; timer callback; cron sweep each minute; `processSchedule`; `initSchedules` at start | Message sending (call), Accounts (read), MongoDB | a schedule runs once, not before its time, not twice at once, is never forgotten, survives a restart |
| Message sending (`whatsapp/services/message-sender.service.ts`, the recipient and content resolvers) | `isSending` of the session; `messagesUsed` of the user | `sendMessage`, `sendMessageExcel`, photo variant | Session life cycle (reads and marks sessions), Users, Contacts, Groups, Templates | one send per account at a time, the quota holds, an account is never left refusing to send |
| Session life cycle (`whatsapp/whatsapp.service.ts`, `session-manager`, `session-restoration`, `session-recovery`, `reconnection`, `cleanup`, `account`, `event-handler`) | `clientStates` (client, `isReady`, ...); lock maps; cleanup timers; account document; files under `.wwebjs_auth` | start, re-link by QR, restore all/one, probe, soft reconnect, rebuild, release, forced cleanup, logout, delete; the events `ready`, `disconnected`, ... | whatsapp-web.js (external), Gateway (emits), Accounts, API keys, File manager | what is registered is alive and heard; a dead session is noticed; files survive everything but a logout or deletion |
| Access (`auth/`, `OTP/`) | users, access and refresh tokens, API keys, one-time codes | register, login, selectAccount, refresh, logout, send-otp, verify-otp, daily token cleanup | Accounts (deletion invalidates tokens and keys), Session life cycle (creates keys on `ready`) | a removed account cannot be used; an account keeps its key, and one of them; a token that was returned works |
| Subscriptions (`user-subscriptions/`, `subscriptions/`, `users/`, message-limit guard) | plans, requests, the user's subscription and counter | request, approve, disapprove, delete; create, change and delete a plan; quota guard | Message sending (counter) | an approval gives the terms that were asked for, once; the status of a request says whether they were applied |
| Incoming messages (`whatsapp/services/message-handler.service.ts`, `auto-responder/`, `rules/`) | processed-message ids, session start times, responses sent, rules | receive, filter old and duplicate, match, reply, hourly trimming | Session life cycle (client), MongoDB | one answer per message, none to old messages |
| Contacts, groups (`contacts/`, `groups/`) | contact and group documents with references both ways | create, update, delete, bulk import | Recipient resolution, `ready` event (import) | references agree; one contact per number and account |
| Gateway (`whatsapp/whatsapp.gateway.ts`) | sockets by id and by user, authentication, counters | connect, authenticate, disconnect, broadcast, emergency cleanup | Session life cycle | events reach the user's sockets and only those; no entry outlives its socket |
| Rate limiting (`src/common/interceptors`) | points, window and block per key | intercept, periodic cleanup | every request | at most 100 points a minute, a block of five minutes |
| Templates, users, admin, seed, messages, phone | documents | CRUD, rendering | recipient and content resolution | they have no state of their own beyond a document |
| Files, browser options, error handlers, logging, bootstrap, guards, strategies | files on disk | delete, delayed delete, configuration | Session life cycle | the files go when they should; nothing else is state |

The hard behaviours, each at its line, are the `hazards` of `PROJECT.json`. In
short: a value read before an `await` and used after it (the send flag, the
status of a schedule, "the session registered now"); several procedures with
different locks, or none, over one map entry; a restart in the middle of a
schedule or a restore; one of several writes failing; timers that outlive what
they were set for; two numeric edges (`setTimeout`'s 31 bits, the quota).

## 2. Modules

| Module | Models | With |
|---|---|---|
| `Scheduling` | `scheduling.service.ts` and the cancel endpoint of its controller | `MCScheduling`, `SchedulingProofs` |
| `ScheduleLedger` | what `Scheduling` promises of each schedule: the abstract specification it implements | instantiated in `Scheduling` |
| `MessageSender` | `message-sender.service.ts`; the session as far as a send sees it | `MCMessageSender`, `MessageSenderProofs` |
| `SessionLifecycle` | the eight services that start, restore, recover, release and wipe a session, and the client's events | `MCSessionLifecycle`, `SessionLifecycleProofs` |
| `AccountAccess` | `auth.service.ts`, the midnight cleanup of tokens, the removal of an account | `MCAccountAccess`, `AccountAccessProofs` |
| `IncomingMessages` | the `message` listeners, `message-handler.service.ts`, `auto-responder.service.ts` | `MCIncomingMessages`, `IncomingMessagesProofs` |
| `ContactGroups` | `contacts.service.ts`, `groups.service.ts` | `MCContactGroups`, `MembershipProofs` |
| `SocketRegistry` | `whatsapp.gateway.ts` | `MCSocketRegistry`, `MembershipProofs` |
| `RateLimit` | `rate-limit.interceptor.ts` | `MCRateLimit`, `RateLimitProofs` |
| `Subscriptions` | `user-subscriptions.service.ts`, the plans of `subscriptions.service.ts` | `MCSubscriptions`, `SubscriptionsProofs` |

An `MC` module gives its module the values a `.cfg` cannot write and the symmetry;
a `Proofs` module extends it with theorems (`MembershipProofs` extends two, which is
why the specification of `SocketRegistry` has names of its own: `GatewayInit`,
`GatewayNext`, `GatewaySpec`, `GatewayTypeOK`). Each module stands for a part whose
state no other module writes, so that they compose by conjunction; where two parts
do meet, the module that needs the other contains what it can see of it
(`MessageSender` the session, `SessionLifecycle` the account document,
`IncomingMessages` the Client objects, `AccountAccess` the `ready` events).

An operator with the comment "Mutant: ..." is a plausible bug: a variant of the
definition that follows it. No specification uses it. It is there to show that
the property named beside it in `PROJECT.json` would notice the bug.

### 2.1 Scheduling

State and code: `db` is the `Schedule` collection (a deleted document leaves its
id behind, ids are not reused); `timers` are Node's armed timeouts, each with
whether `SchedulerRegistry` knows it; `registry` the names taken there;
`processing` is `processingSchedules`; `runs` are the `processSchedule`
invocations with the await they are suspended at; `sweep` what a cron query
returned and has not been started; `reqs` the HTTP requests between their read
and their write; `app` whether the process is down, has armed its timers
(`loaded`), or is up. `firstDue` is history: the earliest time a job of the schedule
was ever to start, which is its due time at a creation or a PATCH. `abandoned` is
history, too: the schedules no one will put back before the next restart, because a run
could not store its failure or a start-up could not store the reset.

Actions and code: `CreateRequest`/`CreateWrite` are `create`,
`UpdateRequest`/`UpdateWrite` are `update`, `RemoveRequest`, `CancelRequest` and
`RemoveOrCancelWrite` are `remove` and the cancel endpoint; `FireTimer`,
`CronFind`, `CronStart` start runs; `RunRead` ... `RunCatch` are the awaits of
`processSchedule` in order; `RunFault` is any of its database calls rejecting;
`Crash`, `InitFind`, `InitReset` are the end of the process and the two database
calls of `initSchedules`; `InitFault` is either of them rejecting, which is only logged:
the process comes up without its timers, or with interrupted schedules left as they
are. Things that are easy to overlook and are in the model:

- `addTimeout` throws for a name that is taken, *after* `setTimeout` armed the
  timer; the error is caught. Such a timer fires although nothing can delete it.
- a timer that has fired leaves its name in the registry, so a PATCH after it
  arms an unregistered one;
- nothing stops a PATCH from writing a status, `processing` included;
- the reset of interrupted schedules at start comes after the query that arms
  timers, so a reset schedule has no timer and depends on the cron job;
- `processSchedule` passes no user id to `sendMessage`, which refuses it.

`ScheduleLedger` is the same service seen from outside: a status, and an execution
that is `chosen` (it found the schedule pending), `held` (it has claimed it) or
`failing`. It has no timers, cron job, sweeps, registry, requests in flight or
numbers of runs; its `Put` is how a write meets a document that is gone, `Edit` and
`Withdraw` are what the owner may write at any moment, `Crash` and `Recover` the
restart, and `Resume` a restart that puts nothing back. `KeepsLedger` instantiates
it with `LedgerStatus` (the stored statuses), `LedgerStage` (what the runs of a
schedule, any number of which may have been started, amount to), `up` for "the
interrupted schedules have been put back", and the schedules that may rest in
`processing`.

Different schedules share nothing but the database connection, so one schedule
is enough for TLC; the theorems are about any number.

### 2.2 MessageSender

`registry`, `ready` and `sending` are `clientStates` with `isReady` and
`isSending` of each session object; `calls` are the sends in progress with the
object each captured at its start; `used` is `messagesUsed`. The flags are read
from the captured object and written, by `clientId`, to the registered one: the
model keeps the two apart. `CheckUser`, `Validate`, `Resolve`, `CheckConnection`
(twice per recipient, as in the code), `SendMessage`, `AwaitAck` and
`IncrementMessageUsage` are the awaits of a call. `SessionReady`,
`SessionRebuilt`, `SessionReleased` are what the session services may do to the
flags meanwhile; `Renew` is the approval of a subscription. Recipient and
content resolution are reduced to "n recipients, or an error". A photo send has
the same control as a text send.

### 2.3 SessionLifecycle

One `clientId`; sessions of different ones share nothing. `session` and
`isReady` are its entry in `clientStates`; `client` says what each Client object
does (its browser loading, waiting for a scan, connected, dead, destroyed);
`listeners` are the clients that have their handlers; `procs` are the procedures
and event handlers in progress, each with the await it is suspended at and the
client it captured; `wipe` is the delayed cleanup of a deleted account;
`booting` the pending `loadClientsFromSessions`; `account` and `auth` whether
the document and the files exist. `farewell` and `overtaken` are history: whether the
account was logged out or deleted since it was last linked, and whether a deletion of its
files was under way when it was.

| Code | Actions |
|---|---|
| `startSession`, `doStartSession` | `StartSession`, `StartSessionDone` |
| `runInteractiveReconnect` | `Relink`, `RelinkReleased`, `RelinkDone` |
| `loadClientsFromSessions`, `restoreSessionSilently` | `LoadFolders`, `LoadAccounts`, then `LoadSession`, `RestoreInitialized`, `RestoreAuth`, `Teardown`, or `CleanOrphan` |
| `cleanupSessionFiles`, `scheduleDelayedDeletion` | `WipeFiles`, `DeleteFiles`, `LateDeletion` |
| `restoreSpecificSession` | `RestoreSpecific`, `RestoreSpecificLaunch`, `RestoreSpecificDone` |
| `handleReconnection`, `runReconnection` | `Reconnect`, `SoftInit`, `SoftRetry` |
| `recreateClientFromAuth`, `runRecreate` | `FindAccount`, `Rebuild`, `RebuildInitialized`, `RebuildAuth`, `GiveUp` |
| `handleClientReady`, `handleAccountReady` | `Ready`, `AccountReady`, `SessionReady` |
| `disconnected` handler | `Disconnected`, `Dropped`, `LogoutMark` |
| `handleLogout`, `cleanupClient`, `performCleanup` | `HandleLogout`, `LogoutCleanup`, `CleanupDestroyed`, `DeleteDocument` |
| `deleteAccount`, `scheduleCleanup` | `DeleteAccount`, `DeleteDocument`, `CleanupFires`, `CleanupDestroyed` |
| `releaseClientMemory`, `forceCleanupClient` | `Release`, `Released` |
| a page that dies, the end of the process | `Die`, `Crash` |

The locks are in the model as what they exclude: one reconnection per key
(`reconnectInFlight`), one QR re-link (`initializationQueue`), none around
`restoreSpecificSession`. `startSession` takes an account id as its `clientId`
without a lock, so it can run twice for one session and does so in the model.

The restoration at start-up works from a list of folders and one of accounts that are
read once, and comes to a session perhaps minutes later: in the model anything happens
between `LoadFolders`, `LoadAccounts` and the turn of the session (`LoadSession` or
`CleanOrphan`). The deletion of files waits before it looks at them and again before it
removes them, gives up after five attempts, and leaves locked files to a timer that
looks at nothing any more (`LateDeletion`); `pendingDeletions` is `Deleting`.

Left out: the display status of an account (written, never acted on), QR and
loading events, the import of contacts after `ready`, the mapping of sockets, and the
probe of the sessions, which only begins a reconnection: any client's request for one
(`Reconnect`) may come whenever the probe may. The five attempts of a deletion are one
step. The 100-day inactivity release is `Release`. Where an instance is reused for a new Client
object while an abandoned client still runs, the model forgets the abandoned
one (`Places`); with more instances it is kept.

### 2.4 AccountAccess

One user; users share nothing. `accounts` are the user's account documents,
`leaving` those whose deletion has been issued (`deleteAccountOnLogout` starts
the deletions, then awaits the tokens, then the deletions), `refresh` the refresh
token documents, `access` only the accounts that access token documents name,
because these documents are never looked up by value. `keys` are the API keys,
their `id` the order of `createdAt`, which a key gets before it is stored.
`calls` are the requests and `ready` events in progress. `alone`, `returned`, `doubtful`,
`forgotten` and `invalidated` are history for the properties. A login whose selection
fails answers with the tokens of its first part (`back`), although the selection may
have replaced or pruned their document by then: such a token is `doubtful`.

| Code | Actions |
|---|---|
| `login` | `Login`, `LoginFallback`, `LoginAccounts`, then those of `selectAccount` |
| `selectAccount` | `SelectAccount`, `SelectCheck`, `SelectFind`, then `SelectUpdate`, `SelectPrune`, `SelectAccess`, or `SelectCreate` |
| `refresh` | `Refresh`, `RefreshLookup`, `RefreshRotate`, `RefreshDrop` |
| `logout`, expiry, `handleExpiredTokens` | `Logout`, `Expire`, `HandleExpiredTokens` |
| `handleAccountReady`, `generateApiKey`, the account list | `Ready`, `KeyRequest` |
| `getOrCreateApiKey`, `getActiveApiKeyForAccount` | `KeyFind`, `KeyDedupe`, `KeyOwner`, `KeyInsert` |
| `deleteAccountOnLogout`, `removeAccountFromTokens` | `DeleteAccountOnLogout`, `RemoveFind`, `RemoveRenew`, `RemoveDelete`, `RemoveKeys`, `RemoveInvalidate`, `RemoveDone`, `AccountDeleted` |
| the `catch` blocks, the end of the process | `Fail` |

Abstractions: every token signed is a new value (in the program two tokens with
one payload signed in one second are equal); `createdAt` has no ties; the user
document is not deleted; `findOne` may return any document that matches;
`Promise.all` of two writes is one step that may fail half done. Reads of the
user document, which change nothing, are part of the step before them. The
contacts, groups, rules and templates of a removed account are left out.

### 2.5 IncomingMessages

`processed` is `processedMessageIds` in the order of insertion, `start` is
`sessionStartTimes`, `attached` the account whose handlers a Client object has,
`handling` the messages between the awaits of `handleIncomingMessage` and of the
auto-responder, each with the rules it has read and the rule it chose. `sent` is
when a message was written; `now` and `bootAt` are the clock and the start of the
process. `replies`, `since` and `late` are history. `Text`, `Kind` and `Match` say what
a message reads and how well it matches each keyword; a rule is the list of its
keywords, and its score a recursive function over it (`RuleScore`), as is the choice
among the rules (`BestRule`).

| Code | Actions and operators |
|---|---|
| `setupSessionHandlers`, removal of listeners, `handleClientDisconnected` | `SetupSession`, `Detach`, `Logout` |
| the listener, the id cache, `isOldMessage` and the other filters | `Receive`, `IsOld` |
| the lookups of the account and of its session | `AccountFound`, `CheckReady` |
| `findBestMatchingRule`, `calculateRuleMatchScore` | `FindRule`, `BestRule`, `RuleScore` |
| `sendAutoResponse` | `SendReply` |
| `cleanupOldMessageIds`, the end of the process | `CleanupOldMessageIds`, `Crash` |

A message may be delivered any number of times, by several Client objects (a
replaced one that was not destroyed keeps delivering) and to several accounts (a
group). Texts are classes: what `validateMessageForAutoResponse` and the four kinds
of match tell apart. Two details the code has and the model keeps: the id goes into
the cache *before* the filters, so a message dropped by a failing lookup is not
handled when it comes again; and without a known session start the age of a message
is measured from now, not from the start of the process.

### 2.6 ContactGroups

One account. `number` and `linked` are the contact documents (the formatted number;
the groups it lists), `name` and `members` the group documents, `calls` the requests
in progress with the list of members each has read, the numbers still to do and the
contacts it will add. `torn` is history: pairs of which one write failed, or that a
request for the contact alone has changed. There are two kinds of these: the endpoints
that add a group to contacts, and the field `groups` of the bodies of a creation, an
import or an update of a contact, which is written as it comes and over what the contact
had (`GivenGroups`, `Regroup`).

| Code | Actions |
|---|---|
| `GroupsService.create` | `CreateGroup`, then per number `FindMember`, `LookUp`, `InsertContact`; `SaveCreated`, `SaveCreatedFails`, `Link`, `LinkFails` |
| `updateGroup` | `UpdateGroup`, then per number `FindMember`, `TakeFirst`, `CheckNumber`, `WriteNumber`; `Link`, `LinkFails`, `SaveUpdated`, `SaveUpdatedFails` |
| `updateGroup` without numbers | `RenameGroup`, then `SaveUpdated` |
| `ContactsService.create`, `bulkImport`, `updateContact` | `CreateContact`, `BulkImport`, `EditContact` and the steps above; `EditGroups` without a number |
| deletions, `addGroupToContacts`, `removeGroupFromContacts` | `DeleteContact`, `DeleteGroup`, `AddToGroup`, `RemoveFromGroup` |

`save` of a Mongoose document sends the pushes made to the array, not the array it
read (`AddMembers`): that is why two requests that have read the same members lose
none. The unique index on number and account is the only thing that keeps two
overlapping inserts apart, and both `findOne` by formatted number and the lookup by
the number *as it was sent* are in the model. `create` links contacts after it saved
the group, `updateGroup` before. The field `account` of a contact's body, with which a
PATCH can move the contact to another account, is left out: the model has one account.

### 2.7 SocketRegistry

`userId`, `socketAuth` and `userSockets` are the field and the maps of the gateway,
`checks` the `init` and `reconnect_account` requests that await `validateToken`.
`Connect` authenticates by the handshake (`AuthenticateSocket`); `AwaitToken` begins a
request with a token, `Validated` and `NotValidated` are its continuation.
`BroadcastToUser`, `BroadcastToAll` and `AskUserConnected` are what the controllers call;
the first and the last drop the set of a user whose sockets are all gone, which is the
only cleaning up there is: a `Disconnect` clears nothing. `raced` and `missed` are
history. Which sockets the events of a *session* reach is not modelled: a request for a
session may name any account, an existing client is handed to it, and its events then go
to that socket too, so nothing is promised there.

### 2.8 RateLimit

`store` is the map of records, without the record the interceptor keeps of its own
sweep, which is `lastSweep`. A request is one step (`Refused`, `BlockStarts` or
`Pass`), because `intercept` has no await; the sweep of the whole store is made by a
request that passes. Times are integers and a record of time 0 and one of "no time"
are kept apart (`Never`). `asked` and `passed` are history: the times of a key's
requests and of those let through, in order.

### 2.9 Subscriptions

`plan`, `request` and `subscription` are the plans, the requests and the terms in the
users' documents; `calls` the operations between their read and their write. `Create`
with `Upsert` and `Insert` is `create` (the upsert of MongoDB is a find and an insert,
and no index makes the user of a request unique), `Approve`, `Apply` and `SaveStatus`
are `approve`, which writes the user first and the request afterwards; `Disapprove`
and `SaveStatus`, `Delete`, and the operations on plans are one write each. `asked`,
`renewed` and `disturbed` are history.

## 3. Runs

| Run | Shows | Bounds |
|---|---|---|
| `sched_safety` | `RunsExclusive`, `ClaimBudget`, `NotBeforeFirstDue`, `ProcessingHasOwner`, `DeletedStaysDeleted`, `KeepsLedger` | one schedule, two runs, two requests in flight, three in all, two ticks, a crash, a rejected database call of a run or a start-up, every delay within `setTimeout`'s range |
| `sched_live` | `EventuallySettled` under fairness | the same with one request at a time, two crashes, no fault, no PATCH to `processing` |
| `sched_overflow` | `NotBeforeFirstDue` fails beyond the range of `setTimeout`, section 6 | a range of one tick, due times of two |
| `sched_delivers` | the program against its documentation, section 6 | no crash, no fault |
| `sender_safety` | `FlagHasSender`, `OverrunBounded` | one account, two session objects, two calls of up to two rows of two recipients, quota one, one failed usage update |
| `session_safety` | `RegisteredServed`, `AuthKept` | two Client objects, two procedures at a time, two soft attempts, every request, any number of crashes |
| `access_safety` | `KeyRemains`, `SoloTokenWorks`, `ForgottenForGood` | one account, two calls at a time, three refresh tokens, two keys, a failure at any await |
| `incoming_safety` | `OnceALife`, `OutageUnanswered`, `RuleIsBest` | two accounts, two Client objects, two messages, two at once, two ticks, a cache of one id, any number of crashes |
| `contacts_safety` | `MembershipAgrees`, `NoMemberLost` | two numbers, two contacts, one group, two requests at a time, any list of groups in a contact's body, one failed write |
| `sockets_safety` | `ReachesUser`, `HearsOwnBroadcasts` | three socket ids, two users, three requests at a time |
| `limit_safety` | `UnderTwiceThePoints`, `BlockedForCause`, `BlockHolds` | two keys, two points, at most two requests of a key in an instant, windows of two instants, blocks of four, a clock to six |
| `subscriptions_safety` | `StatusMatchesPlan`, `RenewedOnce`, `TermsWereAsked` | two users, one plan with two terms, two requests, two operations at a time |

Every run but `sched_live` and the two that end in a violation also checks the `TypeOK` of its
module (`GatewayTypeOK` for the gateway).

What the properties say:

- **RunsExclusive** - timers (deletable or not), cron sweeps, immediate starts
  and restarts never have two `processSchedule` calls of a schedule past the
  guard.
- **ClaimBudget** - a schedule is claimed for sending at most once, plus once per
  crash and per PATCH back to `pending`, whatever cancels, removals, faults and
  reschedulings land between a run's check and its claim.
- **NotBeforeFirstDue** - a run passes its check only after the earliest time the
  schedule was ever to start at, by a timer, cron or at once, as long as every delay fits
  `setTimeout`; `sched_overflow` shows that it does not hold otherwise. (The stronger "not
  before the time it has *now*" is not guaranteed: a PATCH that postpones a schedule
  whose run has begun is overtaken by it.)
- **ProcessingHasOwner** - nothing rests in `processing` without a run, except
  where a client wrote that status, the run could not store its failure, or the start-up
  could not store the reset. The exceptions end with the next restart that succeeds.
- **DeletedStaysDeleted** - no write of a run or request revives a document.
- **KeepsLedger** - every step is one of `ScheduleLedger`: an execution finds the
  schedule pending before it claims it, is the only one, and alone settles it; a
  restart puts back what was interrupted, unless its database calls are rejected, and
  then those schedules are named.
- **EventuallySettled** - a pending or interrupted schedule completes, fails, is
  cancelled or deleted, across crashes.
- **FlagHasSender** - a registered session marked `isSending` has a call that
  will reset the mark. Calls overlap and sessions are rebuilt under them, yet no
  account is refused for ever.
- **OverrunBounded** - the quota is compared once per call, before the recipients
  are known; it is overrun by at most what the concurrent calls may send.
- **RegisteredServed** - a session that stays registered has a client that is not
  destroyed and has its handlers: whoever destroys a client or detaches its
  handlers is on the way to unregister it or to replace it.
- **AuthKept** - the files are deleted only for an account logged out or deleted since it
  was last linked, or for one with no document; no failed restore, rebuild, re-link or
  release loses them. An account linked again while a deletion was on its way is excepted
  (`overtaken`): the list of accounts read at start-up and the timers of a cleanup are
  not looked at again, and TLC finds its files deleted at once without the exception.
- **KeyRemains** - calls that look for an account's key, each with a list of keys
  that may be out of date, weed out duplicates without ever losing the last one.
- **SoloTokenWorks** - the refresh token returned by a call that overlapped no
  other is accepted, whatever documents earlier logins, failures and removals
  left behind, and a login that falls back to its first tokens returns one that works
  if it failed before it replaced a document. (After that it may return a token that is
  refused, and overlapping calls do delete each other's tokens.)
- **ForgottenForGood** - after a removal that overlapped no other call no token
  names the account, and no later call brings one back, although `refresh` copies
  the account from document to document without looking it up.

- **OnceALife** - however many Client objects and accounts deliver a message it gets
  one reply while the process lives, unless as many messages as the cache keeps came
  between (the hourly cleanup forgets its id then).
- **OutageUnanswered** - with the cache and the session starts lost in a restart,
  nothing that was written before it, by more than the buffer or the age threshold, is
  answered. It bounds the second replies after a crash, too.
- **RuleIsBest** - the rule a reply is made from matches the message, none of the
  rules read has a higher score, and none of the same score comes before it.
- **MembershipAgrees** - a group lists a contact exactly when the contact lists the
  group, whatever requests for the same group and numbers overlap, outside the two
  writes of a request and but for pairs of which one write failed or that a request for
  the contact changed on the contact's side (by the list of groups in its body, or by the
  endpoints that write the contact alone).
- **NoMemberLost** - requests that have read the same members and save later do not
  write over each other's.
- **ReachesUser** - although disconnections clear nothing and the set of a user is
  dropped by whoever finds nobody in it, a broadcast reaches every live socket of the
  user.
- **HearsOwnBroadcasts** - a user's broadcasts are heard only by sockets authenticated as
  that user, with any number of requests awaiting `validateToken` on a socket, unless two
  of them had tokens of different users: then both users' sets hold the socket.
- **UnderTwiceThePoints** - windows start with a request, so two can touch; still fewer
  than twice the points get through in the length of one, because the request that
  started the earlier window lies outside it. The bound is tight: with two points TLC
  finds three passes.
- **BlockHolds**, **BlockedForCause** - a block lasts its time although the window
  ends and other keys' requests sweep; and it starts only after too many requests
  within one window's length, with nothing carried over.
- **StatusMatchesPlan**, **RenewedOnce** - a request says approved exactly when its
  own terms were applied, once, through any sequence of requests made anew,
  approvals, rejections and deletions; two operations that meet on one request, or an
  approval that ends between its writes, are excepted because the code does not
  protect from them (TLC finds them at once without the exception).
- **TermsWereAsked** - overlapping or not, nobody gets terms that were not in force
  when that user asked for the plan.

Why the bounds are enough. *Scheduling*: an overlap needs two runs, a lost
update two requests, an interrupted run one crash, a crash during recovery two;
two ticks separate "not yet due", "due" and "overdue", and a reschedule moves
between them. *MessageSender*: an overlap needs two calls, a flag on the wrong
object two objects, an advance over rows and over recipients two of each; a
quota of one with two recipients per row is already overrun by one call. The
counters of the other runs are unbounded or saturate. *SessionLifecycle*: an
interference is between two procedures over an old and a new client; a third of
either adds contention for the same entry and no other kind.
*AccountAccess*: duplicates need two calls and two keys; a token that is replaced
or deleted by mistake needs a login (two tokens) before another call (one more).
Calls touch one account each, and login picks any of several, so a second account
adds tokens that name it and are treated as those that name none. Tokens and keys
end with their bounds; calls that need a new one then only fail.
*IncomingMessages*: a second reply needs two deliveries, by two clients, or to two
accounts, or around a cleanup of a cache of one id; the outage one crash; the two
message texts differ in that one may be answered. *ContactGroups*: an interference is
between two requests over one group and two numbers, of which one is stored with a
`+`, so that the two lookups differ. *SocketRegistry*: a stale entry needs a dead
socket beside a live one of the same user and one of another, a late answer a second
request, and a race a third. *RateLimit*: windows,
blocks and sweeps meet at every alignment within the clock's range; two points are the
fewest for which two windows can share a stretch, and two keys are enough for a sweep by
another key. *Subscriptions*: two operations on one request and
two requests of one user.

The runs of `Scheduling`, `ContactGroups`, `SocketRegistry`, `RateLimit`,
`Subscriptions` and `IncomingMessages` switch the deadlock check off where a behaviour
may end: with the clock or the requests at their bound, every socket id used, or
every request deleted. The other modules are checked for deadlock.

## 4. Fairness

- `Scheduling`: time passes; the cron job runs each minute; database calls of a
  run, a request or the start-up return; a supervisor
  restarts the process. Each is weak fairness of one action. The timers are *not*
  assumed to fire: cron alone must be enough, because after a restart it is all
  an interrupted schedule has. Clients, crashes and faults are not fair.

`sched_live` has no fault: with a rejected call in a run or at the start-up
`EventuallySettled` fails, since a schedule that was not put back waits for the next
restart.

The other modules state safety only. Their operations are mostly single requests, and
what must eventually happen in them is that a request which has begun ends, which is the
database's to promise. For `SessionLifecycle` one would want that a session marked ready
over a dead client is noticed. The code does not justify the fairness that needs: the
probe takes the sessions one after the other and awaits calls of whatsapp-web.js, among
them `destroy()` and `initialize()`, of which some have no timeout, so that one which hangs
stops the probe for all; and it passes over a session whose `isSending` is set.

## 5. Proofs

All theorems are for every value of the constants that satisfies the assumption
named in the module (`ConstantsAssumption`, `SenderAssumption`,
`SessionAssumption`, `AccessAssumption`, `IncomingAssumption`, `RulesAssumption`,
`ContactGroupsAssumption`, `SocketAssumption`, `RateLimitAssumption`,
`SubscriptionsAssumption`): any number of schedules, requests,
accounts, calls, clients, procedures, keys, messages, rules, contacts, groups, sockets
and users, any bounds.

- `SchedulingProofs`: `TypeCorrect`, and `Exclusive` for `RunsExclusive`. The
  latter is not inductive: a run could start beside one that `processing` does
  not announce. The strengthening is `ActiveMarked /\ RunsExclusive`, where
  `ActiveMarked` says that every run that has not returned is announced.
  `StartRunsExclusive` is the heart of it: `StartRuns` gives a run only to a
  schedule that is not announced, whoever calls it. A crash empties both.
  `ImplementsLedger` is the refinement, `Spec => KeepsLedger`: each action of
  `Scheduling` maps to one action of the ledger or to a stutter, given the types,
  `RunsExclusive`, and `RequestsInv` (a creation in flight is of a schedule that does
  not exist yet, an edit is of an allowed status). What a step does to the *stage* is
  computed once for a run that moves and once for a run that ends; starting runs
  changes none. `Owners` and `DeletedForGood` are proved of the ledger, where the
  invariant `Owned` is inductive in a few lines, and carried over by the refinement.
  `ClaimsWithinBudget` for `ClaimBudget` strengthens it to `BudgetInv`: the claims made
  and the chances still open are within the budget. A schedule that waits, is absent
  or has a run about to claim it has one chance; while the process is down or has not
  put the interrupted ones back, one that waits has two (it may be claimed, put back,
  and claimed again) and an interrupted one has one. A crash adds to the budget what
  it adds to the chances. `NeverEarly` for `NotBeforeFirstDue` follows a start time
  through everything that carries it (`DueInv`): documents and armed timers have none
  before `firstDue`, and what a sweep found or a run works on has reached it. It is the one
  theorem with a hypothesis of its own, `MaxTime <= MaxTimeout`: every delay that occurs
  fits `setTimeout`.
- `MessageSenderProofs`: `TypeCorrect`, and `FlagCorrect` for `FlagHasSender`.
  The strengthening adds that no session object is registered for two clients;
  otherwise the `finally` block of one account could drop the mark of the other.
  The step that matters is `Finish`: the call that ends resets the flag of
  whatever object is registered, so no other call has to vouch for it.
  `QuotaOverrun` for `OverrunBounded` says of what is *still to be charged* what the
  property says of what was: `Charges` is the set of messages a user's calls may yet
  send and charge, and `QuotaInv` that the counter and its size stay below the limit
  and a full request of each call together. A charge moves one element of the set
  into the counter; a call that passes the check adds its own share while the counter
  is below the limit; a set is used because its size needs no sum over the calls.
- `SessionLifecycleProofs`: `TypeCorrect`, which includes the bound on soft
  attempts, and `SessionsServed` for `RegisteredServed`, inductive relative to
  the types. Every step falls in one of three classes: it registers a client
  that it also launches and listens to; it unregisters; or it destroys or
  deafens a client and leaves its own procedure `Retiring` that client. A
  procedure stops being `Retiring` only in a step that unregisters or replaces,
  or when nothing is registered. `FilesKept` for `AuthKept`, by `WipesMeant`: a
  procedure is on its way to wipe the files, or the delayed cleanup is set, only after
  a farewell (a logout or a deletion), for an account without a document, or for one that
  was linked while that was so. Most steps are `Uninvolved`; what is left are
  the steps of the farewells themselves, of the deletions, and of the start-up.
- `AccountAccessProofs`: `TypeCorrect`, from `TypeInv`: the types, and what each call
  has in hand at each await (a signed token where it will store one, an account that
  exists or has existed). `KeyRemainsAlways` for `KeyRemains`. The strengthening
  is `KeysInv`: keys and keys about to be stored have places of their own in the
  order of `createdAt`, and no call is about to deactivate the *first* active key
  an account has now (`FirstSpared`). A key stored late may become the first
  under a call that is about to deactivate others, but no call has seen it
  (`KeyInsertInv`); a deactivation leaves the first key in place, so the first
  key of the other calls does not change (`DeactivateInv`). That a set of keys
  has a first one comes from the well-foundedness of the naturals
  (`LeastExists`). `SoloTokens` for `SoloTokenWorks`: `SoloInv` says that the call that
  has overlapped no other is *on track* (`OnTrack`: the document it is about to update
  exists, the one it is about to spare holds its token, the token it falls back to is
  stored, unless the login has replaced a document since), and that after a token was
  returned every call is idle. `Forgotten` for
  `ForgottenForGood`: `ForgottenInv` says that the account of a removal is leaving or
  has left; that a forgotten account has left, is named by no token, and is in the
  hands of calls only at awaits that look it up (`Reading`), so that no call can write
  it; and that an undisturbed removal past the deletion of the tokens has no token of
  its account behind it. `NamesKept` is the lemma about what a write can name.
- `IncomingMessagesProofs`: `OutagesUnanswered` for `OutageUnanswered`. The
  strengthening: a known session start lies in this life of the process, and a message
  being handled is recent (`HandledInv`); a crash empties both. `TypeCorrect`.
  `RulesAreBest` for `RuleIsBest`: `ChosenInv` says that the rule of a reply under way
  is what `BestRule` answers for the rules that were read. What that answer is, is
  proved by induction over the list of rules, from the defining equation of the
  recursive function: the best of the first n rules beats each of them, and strictly
  those before it. `OneReplyALife` for `OnceALife`: an id is in the cache once, and what
  follows it there was accepted after it (`CacheInv`); a message that was met is in the
  cache or at least as many others as the cache keeps were accepted since (`KnownInv`);
  and one that was never forgotten is being handled or answered at most once
  (`OnceInv`). The cleanup, which keeps the last ids, is the step that needs the order.
- `MembershipProofs`, first half, contacts: `TypeCorrect`, with the uniqueness of
  numbers; `SidesAgree` for `MembershipAgrees`; `MembersStay` for `NoMemberLost`. The
  agreement of the two sides is not inductive. What is missing is `FirstWritten` (a
  request before the second write of a membership has made the first, on whichever
  side that is, unless the pair is torn) and `UnbornUnknown` (an id that no document
  has yet is in no list and in no request's hands, so that a new document is born
  without members). Most steps only prepare a request (`Prepares`): they write no list,
  and keep everything by `PreparationKeepsRequests` and `PreparationKeepsAgreement`.
  The four kinds of write are taken one by one: a list only grows (`ListsGrow`), the
  other requests go on as they were (`GoesOn`), and each pair is kept (`PairKept`) or
  written on this side by a request that has written, or will write, the other. A write of
  a contact that brings its own list of groups keeps each pair or tears it
  (`RegroupOneSided`).
- `MembershipProofs`, second half, sockets: `SocketTypes`; `UserReached` for
  `ReachesUser`, by `Listed` (a live socket with a user is in that user's set: the one
  step that empties a set finds nobody alive in it); `OwnBroadcastsHeard` for
  `HearsOwnBroadcasts`, by what holds of a socket that is not in `raced` (`OwnUser`,
  `OneClaim`, `Unclaimed`): the requests that await its token are all of one user, and it
  has no user but that one.
- `RateLimitProofs`: `TypeCorrect`, with how far a record may reach into the future;
  `BlocksHold` for `BlockHolds`, by `BlockStored`: a block that was started is over or
  still in the record. `UnderTwice` for `UnderTwiceThePoints` and `BlocksHaveCause` for
  `BlockedForCause`, by `WindowInv`: the count of a record lies between the requests of
  its window that were let through and those that were made; what was let through
  since the window started is within the points, what was let through after its first
  instant, and what was let through in the time before it that a stretch can share with
  it, are below them; and nothing is let through past the window's end. A stretch as long
  as a window meets two windows at most, and of the earlier one not its first instant.
- `SubscriptionsProofs`: `TypeCorrect`; `AskedTerms` for `TermsWereAsked`, by
  following the terms through requests and operations; `StatusesMatch` and
  `OneRenewal`, by `OrderlyInv`: on a request no two operations met on there is at most
  one, what it will write agrees with what was applied (`Agrees`), and without one the
  status tells (`Settled`).

Every invariant and action property of the passing runs is proved. Only model-checked is
`EventuallySettled`: fairness and ENABLED are out of the prover's reach.

## 6. Where the program and its documentation disagree

Two runs end with a counterexample of TLC's (`findings` in `PROJECT.json`):

- `sched_delivers`: scheduled messages are never delivered, because `processSchedule`
  omits the user id that `sendMessage` looks up.
- `sched_overflow`: a schedule more than 2^31-1 ms away is run at once, since `setTimeout`
  fires a delay beyond its range immediately (README.md:9 of the repository: "Schedule
  messages to be sent at specific times").

TLC also refutes these statements on the modules as they are; they have no run of
their own, and each can be checked by adding the formula to the configuration named:

1. The owner of a pending schedule cannot cancel it: the endpoint compares the user id
   with the account id (`CancelKey`; no `CancelRequest` leads to a write), although "Only pending
   schedules can be cancelled" (scheduling.service.ts:195) says that a pending one can.
2. `sender_safety`, `\A k, l \in Calls : Sending(k) /\ Sending(l) /\ calls[k].client =
   calls[l].client => k = l`: two calls send from one account together; `isSending` is
   checked before and set after two awaits (README-ENHANCEMENTS.md:69: "prevent
   overlapping operations").
3. `session_safety`, `isReady => client[session] \in {"up", "lost"}`: the `ready`
   handler and the soft reconnect mark the session registered when they resume, which
   may be another one that is still starting (session-manager.service.ts:45).
4. `access_safety`, `\A a \in forgotten : ActiveKeys(a) = {}`: an account removed while
   no token document names it keeps its API key; `removeAccountFromTokens` returns
   before the part that says it invalidates the keys (auth.service.ts:440).
5. `updateGroup` renumbers the first contact of a group when it finds none for a
   number, because an async predicate is always true for `find` (`TakeFirst`): a PATCH
   of a group changes the number of a contact nobody asked to change.

## 7. Not modelled

- One-time codes (`OTP/`): they share no state with the modules here, and what is hard
  about them is one pair of calls (a delete and an insert), listed among the hazards.
- Registration: a login for a user without accounts.
- The killing of browser processes, which acts on processes of the machine.
- Which sockets hear the events of a session, and the periodic probe (2.7, 2.3).
- `MessageSender` composed with `SessionLifecycle` instead of its own environment, for
  the call that keeps marking rebuilt sessions unhealthy. The product of the two state
  spaces does not finish with two clients, two procedures and two calls; the sender's
  environment lets the session be lost, rebuilt and released at any await, which is
  more than the session module does.
- Statistics, analytics, unread messages, and counters that are only reported.
- Methods without a caller (`cleanupInactiveSockets`, `disconnectUser`,
  `emergencyCleanup` of the gateway).
- Templates are string formatting; the controllers authorise, delegate and format;
  users, admin and seed services are document CRUD without interleavings of their own;
  error handlers, logging, browser options, QR images, guards and strategies hold no
  state. What an error does to a session is modelled where it is caught.

## 8. What remains

1. `AccountSession`, an abstract specification of one account (unlinked, linked,
   connected, gone), with `SessionLifecycle` shown to implement it.
2. `Delivery`, the composition named in section 7, with the session reduced to what
   `RegisteredServed` leaves of it.
3. `OneTimeCodes`: a code verifies at most once and not after five minutes.
