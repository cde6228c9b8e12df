----------------------------- MODULE Scheduling -----------------------------
(***************************************************************************)
(* SchedulingService: one-time message schedules kept in MongoDB, executed *)
(* by an in-memory timer per schedule and by a cron job that sweeps the    *)
(* overdue ones every minute.  The process may crash; onModuleInit rebuilds*)
(* the timers and returns interrupted schedules to "pending".              *)
(*                                                                         *)
(* Grain: a step is the code from the completion of one awaited call to    *)
(* the next await.  A MongoDB operation takes effect atomically in the     *)
(* step that continues after it, so two awaits of one handler are two      *)
(* steps and everything else may happen in between.  Time is counted in    *)
(* ticks; a tick may pass while any handler is suspended.                  *)
(***************************************************************************)
EXTENDS Naturals, FiniteSets

CONSTANTS
    Schedules,      \* schedule ids, never reused
    Slots,          \* room for concurrent processSchedule calls of one schedule
    Requests,       \* HTTP requests that can be in flight together
    PatchStatuses,  \* values a client puts in the status field of a PATCH
    AccountStates,  \* what the account lookup of a run may find
    Sizes,          \* numbers of recipients
    MaxTimeout,     \* longest delay setTimeout honours (2^31 - 1 ms)
    MaxTime,        \* bound: last tick of the clock
    MaxRequests,    \* bound: requests accepted in a behaviour
    MaxCrashes,     \* bound: crashes of the process
    MaxFaults       \* bound: MongoDB calls of runs and start-ups that reject

Statuses == {"pending", "processing", "completed", "failed", "cancelled"}
NoTime   == 0       \* "no scheduledTime in this PATCH": accepted times are > 0
NoStatus == "none"  \* "no status in this PATCH"

ASSUME ConstantsAssumption ==
    /\ PatchStatuses \subseteq Statuses
    /\ Sizes \subseteq Nat /\ 0 \in Sizes
    /\ AccountStates \subseteq {"connected", "missing"}
    /\ {MaxTimeout, MaxTime, MaxRequests, MaxCrashes, MaxFaults} \subseteq Nat

VARIABLES
    (* MongoDB *)
    db,          \* schedule documents
    (* process memory *)
    app,         \* where the process is in its life cycle
    timers,      \* armed Node timers, and whether the registry holds them
    registry,    \* SchedulerRegistry: the schedules whose name is taken
    processing,  \* processingSchedules
    runs,        \* processSchedule invocations
    sweep,       \* schedules found by the cron query, not yet started
    reqs,        \* requests between their read and their write
    (* environment and bounds *)
    now, requested, crashes, faults,
    (* history, read by the properties only *)
    claims,      \* how often a run marked the schedule "processing"
    rearms,      \* how often a PATCH wrote status "pending"
    firstDue,    \* the earliest time a job of the schedule was ever created for
    forced,      \* schedules a PATCH marked "processing"
    abandoned    \* schedules left as they are: their run could not store its failure,
                 \* or the start-up could not put back the interrupted ones

memory  == <<app, timers, registry, processing, runs, sweep, reqs>>
bounds  == <<now, requested, crashes, faults>>
history == <<claims, rearms, firstDue, forced, abandoned>>
vars    == <<db, memory, bounds, history>>

-----------------------------------------------------------------------------
(* Values *)

Times    == 0 .. MaxTime
Absent   == [status |-> "absent", due |-> NoTime, size |-> 0]

Run(pc, left, failed) == [pc |-> pc, left |-> left, failed |-> failed]
NoRun  == Run("idle", 0, FALSE)
NewRun == Run("read", 0, FALSE)

Req(kind, s, due, st, n) ==
    [kind |-> kind, sched |-> s, due |-> due, status |-> st, size |-> n]
NoReq == Req("idle", "none", NoTime, NoStatus, 0)

\* The documents: a deleted one leaves its id behind for good.
Docs == [status : Statuses \cup {"absent", "deleted"}, due : Times, size : Sizes]

\* A processSchedule call between two awaits: the await it is suspended at, the
\* recipients left of the list it read, and its hasError flag.
Runs == [pc : {"idle", "read", "claim", "account", "send", "finish", "catch"},
         left : Nat, failed : BOOLEAN]

Exists(s)    == db[s].status \in Statuses
Overdue(s)   == db[s].status = "pending" /\ db[s].due <= now
Active(s, k) == runs[s][k].pc # "idle"
Working(s)   == \E k \in Slots : runs[s][k].pc \in {"account", "send", "finish", "catch"}
Later        == {t \in Times : t > now}

-----------------------------------------------------------------------------
(* Timers, the registry and the start of a run *)

\* Mutant: the scheduled time taken for the delay.
FireTimeLate(due) == now + due

\* Node's setTimeout: a delay that does not fit in 31 bits becomes 1 ms.
FireTime(due) == IF due - now > MaxTimeout THEN now ELSE due

\* deleteTimeout clears the registered timer; for an unknown name it throws, and
\* the callers ignore that.  The name of a timer that has fired stays taken.
DeleteTimeout(s) ==
    /\ timers'   = {t \in timers : t.sched # s \/ ~t.registered}
    /\ registry' = registry \ {s}

\* Mutant: no look at processingSchedules before the run starts.
StartRunsUnguarded(S) ==
    LET idle(s) == {k \in Slots : ~Active(s, k)}
        fresh   == {s \in S : idle(s) # {}}
    IN  /\ processing' = processing \cup fresh
        /\ runs' = [s \in Schedules |->
                     IF s \in fresh
                     THEN [runs[s] EXCEPT ![CHOOSE k \in idle(s) : TRUE] = NewRun]
                     ELSE runs[s]]

\* processSchedule up to its first await, called for every schedule of S: the
\* ones in processingSchedules return at once.
StartRuns(S) ==
    LET idle(s) == {k \in Slots : ~Active(s, k)}
        fresh   == {s \in S \ processing : idle(s) # {}}
    IN  /\ processing' = processing \cup fresh
        /\ runs' = [s \in Schedules |->
                     IF s \in fresh
                     THEN [runs[s] EXCEPT ![CHOOSE k \in idle(s) : TRUE] = NewRun]
                     ELSE runs[s]]

\* createScheduleJob for every schedule of S, due at due[s].  addTimeout throws
\* when the name is taken: the error is caught after the timer was armed, so the
\* registry keeps the older timer and the new one can no longer be deleted.
CreateScheduleJobs(S, due) ==
    LET future == {s \in S : due[s] > now} IN
    /\ StartRuns(S \ future)
    /\ timers' = timers \cup {[sched |-> s, at |-> FireTime(due[s]),
                                registered |-> s \notin registry] : s \in future}
    /\ registry' = registry \cup future
    /\ firstDue' = [s \in Schedules |->
                      IF s \in S /\ due[s] < firstDue[s] THEN due[s] ELSE firstDue[s]]

-----------------------------------------------------------------------------
(* Initial state: the process is up and no schedule was ever created *)

Init ==
    /\ db = [s \in Schedules |-> Absent]
    /\ app = "up"
    /\ timers = {}
    /\ registry = {}
    /\ processing = {}
    /\ runs = [s \in Schedules |-> [k \in Slots |-> NoRun]]
    /\ sweep = {}
    /\ reqs = [q \in Requests |-> NoReq]
    /\ now = 0 /\ requested = 0 /\ crashes = 0 /\ faults = 0
    /\ claims = [s \in Schedules |-> 0]
    /\ rearms = [s \in Schedules |-> 0]
    /\ firstDue = [s \in Schedules |-> MaxTime + 1]
    /\ forced = {} /\ abandoned = {}

-----------------------------------------------------------------------------
(* HTTP requests.  create, update, remove and cancel read, check, and write in *)
(* a later step; what they checked may no longer hold when they write.         *)

Accept(q, req) ==
    /\ app = "up" /\ reqs[q] = NoReq
    /\ requested < MaxRequests
    /\ requested' = requested + 1
    /\ reqs' = [reqs EXCEPT ![q] = req]
    /\ UNCHANGED <<app, processing, runs, sweep, now, crashes, faults, db>>

\* create: scheduledTime must be in the future; the recipients may be an empty list.
CreateRequest(q, s) ==
    /\ db[s] = Absent
    /\ \A p \in Requests : reqs[p].sched # s
    /\ \E t \in Later, n \in Sizes :
         Accept(q, Req("create", s, t, NoStatus, n))
    /\ UNCHANGED <<timers, registry, history>>

\* findOne(id, accountId) compares its second argument with the schedule's account.
FindOne(s, key) == Exists(s) /\ key = "account"

\* update: completed and processing schedules are refused; with a new time the
\* registered timer is cleared before the write is issued.
UpdateRequest(q, s) ==
    /\ FindOne(s, "account")
    /\ db[s].status \notin {"completed", "processing"}
    /\ \E t \in Later \cup {NoTime}, st \in PatchStatuses \cup {NoStatus} :
         /\ t # NoTime \/ st # NoStatus
         /\ Accept(q, Req("update", s, t, st, 0))
         /\ IF t # NoTime THEN DeleteTimeout(s) ELSE UNCHANGED <<timers, registry>>
    /\ UNCHANGED history

\* remove: only a processing schedule is refused.
RemoveRequest(q, s) ==
    /\ FindOne(s, "account")
    /\ db[s].status # "processing"
    /\ Accept(q, Req("remove", s, NoTime, NoStatus, 0))
    /\ DeleteTimeout(s)
    /\ UNCHANGED history

\* POST /schedules/:id/cancel hands cancelSchedule the caller's user id where it
\* expects the account id.
CancelKey == "user"

CancelRequest(q, s) ==
    /\ db[s].status = "pending"
    /\ IF FindOne(s, CancelKey)
       THEN /\ Accept(q, Req("cancel", s, NoTime, NoStatus, 0))
            /\ DeleteTimeout(s)
            /\ UNCHANGED history
       ELSE /\ Accept(q, NoReq)
            /\ UNCHANGED <<timers, registry, history>>

\* Mutant: the write upserts.
WriteStatusUpsert(s, st) == [db EXCEPT ![s].status = st]

\* findByIdAndUpdate and findByIdAndDelete never create a document.
WriteStatus(s, st) == IF Exists(s) THEN [db EXCEPT ![s].status = st] ELSE db

CreateWrite(q) ==
    LET r == reqs[q] IN
    /\ r.kind = "create"
    /\ db' = [db EXCEPT ![r.sched] = [status |-> "pending", due |-> r.due, size |-> r.size]]
    /\ CreateScheduleJobs({r.sched}, [s \in {r.sched} |-> r.due])
    /\ reqs' = [reqs EXCEPT ![q] = NoReq]
    /\ UNCHANGED <<app, sweep, bounds, claims, rearms, forced, abandoned>>

UpdateWrite(q) ==
    LET r  == reqs[q]
        s  == r.sched
    IN
    /\ r.kind = "update"
    /\ reqs' = [reqs EXCEPT ![q] = NoReq]
    /\ IF Exists(s)
       THEN /\ db' = [db EXCEPT ![s].due = IF r.due = NoTime THEN @ ELSE r.due,
                                ![s].status = IF r.status = NoStatus THEN @ ELSE r.status]
            /\ CreateScheduleJobs(IF r.due = NoTime THEN {} ELSE {s}, [u \in {s} |-> r.due])
            /\ rearms' = [rearms EXCEPT ![s] = IF r.status = "pending" THEN @ + 1 ELSE @]
            /\ forced' = IF r.status = "processing" THEN forced \cup {s} ELSE forced
       ELSE UNCHANGED <<db, processing, runs, timers, registry, firstDue, rearms, forced>>
    /\ UNCHANGED <<app, sweep, bounds, claims, abandoned>>

RemoveOrCancelWrite(q) ==
    /\ reqs[q].kind \in {"remove", "cancel"}
    /\ db' = WriteStatus(reqs[q].sched,
                         IF reqs[q].kind = "remove" THEN "deleted" ELSE "cancelled")
    /\ reqs' = [reqs EXCEPT ![q] = NoReq]
    /\ UNCHANGED <<app, timers, registry, processing, runs, sweep, bounds, history>>

-----------------------------------------------------------------------------
(* Timers and the cron job *)

FireTimer(t) ==
    /\ t.at <= now
    /\ timers' = timers \ {t}
    /\ StartRuns({t.sched})
    /\ UNCHANGED <<db, app, registry, sweep, reqs, bounds, history>>

\* Mutant: the query without its scheduledTime condition.
PendingAny == {s \in Schedules : db[s].status = "pending"}

\* What handleCron's query returns.
PendingDue == {s \in Schedules : Overdue(s)}

\* @nestjs/schedule starts cron jobs after every onModuleInit has finished.
CronFind ==
    /\ app = "up" /\ sweep = {}
    /\ PendingDue # {}
    /\ sweep' = PendingDue
    /\ UNCHANGED <<db, app, timers, registry, processing, runs, reqs, bounds, history>>

CronStart ==
    /\ sweep # {}
    /\ StartRuns(sweep)
    /\ sweep' = {}
    /\ UNCHANGED <<db, app, timers, registry, reqs, bounds, history>>

-----------------------------------------------------------------------------
(* processSchedule after its first await *)

Step(s, k, run) ==
    /\ runs' = [runs EXCEPT ![s][k] = run]
    /\ UNCHANGED <<app, timers, registry, processing, sweep, reqs, now, requested, crashes>>

\* Mutant: no finally block, the schedule stays in processingSchedules.
EndRunLeaky(s, k) ==
    /\ runs' = [runs EXCEPT ![s][k] = NoRun]
    /\ UNCHANGED <<app, timers, registry, processing, sweep, reqs, now, requested, crashes>>

\* The finally block.
EndRun(s, k) ==
    /\ runs' = [runs EXCEPT ![s][k] = NoRun]
    /\ processing' = processing \ {s}
    /\ UNCHANGED <<app, timers, registry, sweep, reqs, now, requested, crashes>>

\* Mutant: any existing schedule is sent, whatever its status.
RunReadAnyStatus(s, k) ==
    /\ runs[s][k].pc = "read"
    /\ IF Exists(s)
       THEN Step(s, k, Run("claim", db[s].size, FALSE))
       ELSE EndRun(s, k)
    /\ UNCHANGED <<db, faults, history>>

\* Only the status is looked at: scheduledTime is not checked again.
RunRead(s, k) ==
    /\ runs[s][k].pc = "read"
    /\ IF db[s].status = "pending"
       THEN Step(s, k, Run("claim", db[s].size, FALSE))
       ELSE EndRun(s, k)
    /\ UNCHANGED <<db, faults, history>>

RunClaim(s, k) ==
    /\ runs[s][k].pc = "claim"
    /\ db' = WriteStatus(s, "processing")
    /\ claims' = [claims EXCEPT ![s] = @ + 1]
    /\ Step(s, k, Run("account", runs[s][k].left, FALSE))
    /\ UNCHANGED <<faults, rearms, firstDue, forced, abandoned>>

RunAccount(s, k) ==
    /\ runs[s][k].pc = "account"
    /\ \E a \in AccountStates :
         Step(s, k, Run(IF a = "connected" THEN "send" ELSE "catch", runs[s][k].left, FALSE))
    /\ UNCHANGED <<db, faults, history>>

\* The user id processSchedule gives sendMessage: it passes three arguments of six.
ScheduleCaller == "nobody"

\* sendMessage looks the user up before it sends anything and refuses an unknown one.
SendOutcomes(user) == IF user = "nobody" THEN {"forbidden"} ELSE {"sent", "rejected"}

RunSend(s, k) ==
    LET run == runs[s][k] IN
    /\ run.pc = "send"
    /\ \E outcome \in IF run.left = 0 THEN {"done"} ELSE SendOutcomes(ScheduleCaller) :
         Step(s, k, IF outcome = "sent"
                    THEN Run("send", run.left - 1, FALSE)
                    ELSE Run("finish", run.left, outcome # "done"))
    /\ UNCHANGED <<db, faults, history>>

RunFinish(s, k) ==
    /\ runs[s][k].pc = "finish"
    /\ db' = WriteStatus(s, IF runs[s][k].failed THEN "failed" ELSE "completed")
    /\ EndRun(s, k)
    /\ UNCHANGED <<faults, history>>

RunCatch(s, k) ==
    /\ runs[s][k].pc = "catch"
    /\ db' = WriteStatus(s, "failed")
    /\ EndRun(s, k)
    /\ UNCHANGED <<faults, history>>

\* A MongoDB call of the run rejects: the catch block stores "failed"; if that
\* write rejects too, the schedule keeps the status it has.
RunFault(s, k) ==
    /\ runs[s][k].pc \in {"read", "claim", "account", "finish", "catch"}
    /\ faults < MaxFaults
    /\ faults' = faults + 1
    /\ IF runs[s][k].pc = "catch"
       THEN EndRun(s, k) /\ abandoned' = abandoned \cup {s}
       ELSE Step(s, k, Run("catch", runs[s][k].left, TRUE)) /\ UNCHANGED abandoned
    /\ UNCHANGED <<db, claims, rearms, firstDue, forced>>

-----------------------------------------------------------------------------
(* Crash, restart, time *)

Crash ==
    /\ app # "down" /\ crashes < MaxCrashes
    /\ crashes' = crashes + 1
    /\ app' = "down"
    /\ timers' = {} /\ registry' = {} /\ sweep' = {} /\ processing' = {}
    /\ runs' = [s \in Schedules |-> [k \in Slots |-> NoRun]]
    /\ reqs' = [q \in Requests |-> NoReq]
    /\ UNCHANGED <<db, now, requested, faults, history>>

\* Mutant: interrupted schedules are not put back.
InitResetNothing ==
    /\ app = "loaded"
    /\ app' = "up"
    /\ UNCHANGED <<db, timers, registry, processing, runs, sweep, reqs, bounds, history>>

\* initSchedules: a job for every pending schedule, then, in a second database
\* call, the interrupted ones go back to pending.
InitFind ==
    /\ app = "down"
    /\ app' = "loaded"
    /\ CreateScheduleJobs({s \in Schedules : db[s].status = "pending"},
                          [s \in Schedules |-> db[s].due])
    /\ UNCHANGED <<db, sweep, reqs, bounds, claims, rearms, forced, abandoned>>

InitReset ==
    /\ app = "loaded"
    /\ app' = "up"
    /\ db' = [s \in Schedules |->
               IF db[s].status = "processing" THEN [db[s] EXCEPT !.status = "pending"]
               ELSE db[s]]
    /\ forced' = {} /\ abandoned' = {}
    /\ UNCHANGED <<timers, registry, processing, runs, sweep, reqs, bounds,
                   claims, rearms, firstDue>>

\* A database call of initSchedules rejects: the error is only logged, and the process
\* comes up without what was left to do: no job and no reset, or no reset.
InitFault ==
    /\ app # "up" /\ faults < MaxFaults
    /\ faults' = faults + 1
    /\ app' = "up"
    /\ abandoned' = abandoned \cup {s \in Schedules : db[s].status = "processing" /\ ~Working(s)}
    /\ UNCHANGED <<db, timers, registry, processing, runs, sweep, reqs, now, requested, crashes,
                   claims, rearms, firstDue, forced>>

Tick ==
    /\ now < MaxTime
    /\ now' = now + 1
    /\ UNCHANGED <<db, memory, requested, crashes, faults, history>>

-----------------------------------------------------------------------------

HandleRequest ==
    \E q \in Requests :
      \/ CreateWrite(q) \/ UpdateWrite(q) \/ RemoveOrCancelWrite(q)
      \/ \E s \in Schedules : \/ CreateRequest(q, s) \/ UpdateRequest(q, s)
                              \/ RemoveRequest(q, s) \/ CancelRequest(q, s)

RunStep(s, k) ==
    \/ RunRead(s, k) \/ RunClaim(s, k) \/ RunAccount(s, k)
    \/ RunSend(s, k) \/ RunFinish(s, k) \/ RunCatch(s, k)

ProcessSchedule ==
    \E s \in Schedules, k \in Slots : RunStep(s, k) \/ RunFault(s, k)

Next ==
    \/ HandleRequest
    \/ \E t \in timers : FireTimer(t)
    \/ CronFind \/ CronStart
    \/ ProcessSchedule
    \/ Crash \/ InitFind \/ InitReset \/ InitFault
    \/ Tick

Spec == Init /\ [][Next]_vars

\* What Node, MongoDB and the process supervisor keep doing.  Clients, crashes and
\* faults are not fair.
Fairness ==
    /\ WF_vars(Tick) /\ WF_vars(InitFind) /\ WF_vars(InitReset)
    /\ WF_vars(CronFind) /\ WF_vars(CronStart)
    /\ \A q \in Requests :
         /\ WF_vars(CreateWrite(q)) /\ WF_vars(UpdateWrite(q)) /\ WF_vars(RemoveOrCancelWrite(q))
    /\ \A s \in Schedules, k \in Slots : WF_vars(RunStep(s, k))

FairSpec == Spec /\ Fairness

-----------------------------------------------------------------------------
(* Properties *)

DbType == db \in [Schedules -> Docs]

RunsType ==
    /\ runs \in [Schedules -> [Slots -> Runs]]
    /\ processing \subseteq Schedules /\ sweep \subseteq Schedules

TimersType ==
    /\ timers \subseteq [sched : Schedules, at : Times, registered : BOOLEAN]
    /\ registry \subseteq Schedules

\* Every request in flight is about a schedule.
ReqsType ==
    /\ reqs \in [Requests -> [kind : {"idle", "create", "update", "remove", "cancel"},
                             sched : Schedules \cup {"none"}, due : Times,
                             status : Statuses \cup {NoStatus}, size : Sizes]]
    /\ \A q \in Requests : reqs[q].kind # "idle" => reqs[q].sched \in Schedules

BoundsType ==
    /\ app \in {"up", "down", "loaded"}
    /\ now \in Times /\ requested \in 0 .. MaxRequests
    /\ crashes \in 0 .. MaxCrashes /\ faults \in 0 .. MaxFaults

HistoryType ==
    /\ claims \in [Schedules -> Nat] /\ rearms \in [Schedules -> Nat]
    /\ firstDue \in [Schedules -> 0 .. MaxTime + 1]
    /\ forced \subseteq Schedules /\ abandoned \subseteq Schedules

TypeOK == DbType /\ RunsType /\ TimersType /\ ReqsType /\ BoundsType /\ HistoryType

\* Timers, cron sweeps, restarts and immediate starts never execute one schedule
\* twice at the same time: at most one processSchedule call is past its guard.
RunsExclusive ==
    \A s \in Schedules : \A k, l \in Slots : Active(s, k) /\ Active(s, l) => k = l

\* A schedule is claimed for sending once, plus once for every crash that may have
\* interrupted it and every PATCH that set it back to pending.
ClaimBudget ==
    \A s \in Schedules : claims[s] <= 1 + crashes + rearms[s]

\* No run gets past its status check before the earliest time the schedule was ever set
\* to: "Schedule messages to be sent at specific times" (README.md:9).  It holds while
\* every delay fits setTimeout (scheduling.service.ts:83), and not beyond.
NotBeforeFirstDue ==
    \A s \in Schedules :
      (Working(s) \/ \E k \in Slots : runs[s][k].pc = "claim") => firstDue[s] <= now

\* A schedule is not left in "processing": while the process is up, one of its own
\* runs is working on it, a client wrote that status, or, since interrupted schedules
\* were last put back, a database call was rejected that a run needed to store its
\* failure, or a start-up to put it back.
ProcessingHasOwner ==
    app = "up" => \A s \in Schedules :
      db[s].status = "processing" => Working(s) \/ s \in forced \/ s \in abandoned

\* A run that outlives the deletion of its schedule does not bring it back.
DeletedStaysDeleted ==
    [][\A s \in Schedules : db[s].status = "deleted" => db'[s].status = "deleted"]_vars

\* How far the execution of a schedule is, for the ledger: a run that has only been
\* started does not count, and one with something to catch counts before any other.
Stage(s) ==
    LET at(pcs) == \E k \in Slots : runs[s][k].pc \in pcs IN
    CASE at({"catch"}) -> "failing"
      [] ~at({"catch"}) /\ at({"account", "send", "finish"}) -> "held"
      [] ~at({"catch", "account", "send", "finish"}) /\ at({"claim"}) -> "chosen"
      [] OTHER -> "none"

LedgerStatus == [s \in Schedules |-> db[s].status]
LedgerStage  == [s \in Schedules |-> Stage(s)]

Ledger == INSTANCE ScheduleLedger WITH
    status <- LedgerStatus, stage <- LedgerStage,
    up <- app = "up", unminded <- forced \cup abandoned

\* Whatever starts the runs and whatever interrupts them, a schedule is executed by one
\* run at a time, one that found it pending before it claimed it; only that run
\* completes or fails it; a restart puts back what was interrupted; and nothing brings
\* back a deleted schedule (scheduling.service.ts:240).
KeepsLedger == Ledger!Spec

\* A schedule that waits or is interrupted is eventually settled: it completes,
\* fails, or is cancelled or deleted by its owner, whatever crashes happen.
Settled(s) == db[s].status \in {"completed", "failed", "cancelled", "deleted"}

EventuallySettled ==
    \A s \in Schedules : db[s].status \in {"pending", "processing"} ~> Settled(s)

\* "Schedule messages to be sent at specific times" (README.md:9): with a connected
\* account and no fault a schedule does not fail.
ConnectedAccountDelivers == \A s \in Schedules : db[s].status # "failed"
=============================================================================
