-------------------------- MODULE SchedulingProofs --------------------------
(***************************************************************************)
(* Proofs about Scheduling for every value of the constants.               *)
(***************************************************************************)
EXTENDS Scheduling, TLAPS

\* Every run that has not returned is announced in processingSchedules.
ActiveMarked == \A s \in Schedules : \A k \in Slots : Active(s, k) => s \in processing

-----------------------------------------------------------------------------
(* What the shared operators do *)

\* StartRuns keeps the types, whatever set of schedules it is given.
LEMMA StartRunsType ==
    ASSUME RunsType, NEW S \in SUBSET Schedules, StartRuns(S), sweep' \subseteq Schedules
    PROVE  RunsType'
<1>1. processing' \subseteq Schedules
  BY DEF StartRuns, RunsType
<1>2. ASSUME NEW s \in Schedules
      PROVE  runs'[s] \in [Slots -> Runs]
  <2> DEFINE k == CHOOSE x \in {y \in Slots : ~Active(s, y)} : TRUE
  <2>1. runs'[s] = runs[s] \/ runs'[s] = [runs[s] EXCEPT ![k] = NewRun]
    BY DEF StartRuns
  <2>2. NewRun \in Runs
    BY DEF NewRun, Run, Runs
  <2>3. runs[s] \in [Slots -> Runs]
    BY <1>2 DEF RunsType
  <2> HIDE DEF k
  <2> QED
    BY <2>1, <2>2, <2>3
<1>3. runs' = [s \in Schedules |-> runs'[s]]
  BY DEF StartRuns
<1> QED
  BY <1>1, <1>2, <1>3 DEF RunsType

\* StartRuns starts a run only for a schedule that is not in processingSchedules,
\* so it never gives a schedule a second one.
LEMMA StartRunsExclusive ==
    ASSUME RunsType, ActiveMarked, RunsExclusive, NEW S \in SUBSET Schedules, StartRuns(S)
    PROVE  ActiveMarked' /\ RunsExclusive'
<1> DEFINE idle(s) == {k \in Slots : ~Active(s, k)}
           fresh   == {s \in S \ processing : idle(s) # {}}
           pick(s) == CHOOSE k \in idle(s) : TRUE
<1>1. ASSUME NEW s \in fresh
      PROVE  /\ pick(s) \in Slots
             /\ runs'[s] = [runs[s] EXCEPT ![pick(s)] = NewRun]
             /\ \A k \in Slots : ~Active(s, k)
  BY DEF StartRuns, ActiveMarked
<1>2. ASSUME NEW s \in Schedules, s \notin fresh
      PROVE  runs'[s] = runs[s]
  BY <1>2 DEF StartRuns
<1>3. processing' = processing \cup fresh
  BY DEF StartRuns
<1>4. ASSUME NEW s \in Schedules, NEW k \in Slots, Active(s, k)'
      PROVE  \/ s \in fresh /\ k = pick(s)
             \/ s \notin fresh /\ Active(s, k)
  <2>1. CASE s \in fresh
    <3>1. /\ runs'[s] = [runs[s] EXCEPT ![pick(s)] = NewRun]
          /\ ~Active(s, k)
      BY <1>1, <2>1
    <3>2. k # pick(s) => runs'[s][k] = runs[s][k]
      BY <3>1 DEF RunsType
    <3> QED
      BY <1>4, <2>1, <3>1, <3>2 DEF Active
  <2>2. CASE s \notin fresh
    BY <1>2, <1>4, <2>2 DEF Active
  <2> QED
    BY <2>1, <2>2
<1> HIDE DEF fresh, pick
<1>5. ActiveMarked'
  BY <1>3, <1>4 DEF ActiveMarked
<1>6. RunsExclusive'
  BY <1>4 DEF RunsExclusive
<1> QED
  BY <1>5, <1>6

\* A timer fires at the scheduled time, or at once when that is too far away.
LEMMA FireTimeIs ==
    ASSUME BoundsType, NEW t \in Times
    PROVE  FireTime(t) \in Times /\ FireTime(t) <= t /\ (t <= now => FireTime(t) = t)
  BY ConstantsAssumption DEF FireTime, BoundsType, Times

\* createScheduleJob keeps the types of the runs and of the timers.
LEMMA CreateScheduleJobsType ==
    ASSUME TypeOK, NEW S \in SUBSET Schedules, NEW due, \A s \in S : due[s] \in Times,
           CreateScheduleJobs(S, due), sweep' \subseteq Schedules
    PROVE  RunsType' /\ TimersType' /\ firstDue' \in [Schedules -> 0 .. MaxTime + 1]
<1> DEFINE future == {s \in S : due[s] > now}
<1>1. RunsType'
  BY StartRunsType DEF CreateScheduleJobs, TypeOK
<1>2. ASSUME NEW s \in S
      PROVE  FireTime(due[s]) \in Times
  BY FireTimeIs DEF TypeOK
<1>3. timers' \subseteq [sched : Schedules, at : Times, registered : BOOLEAN]
  <2>1. timers' = timers \cup {[sched |-> s, at |-> FireTime(due[s]),
                                registered |-> s \notin registry] : s \in future}
    BY DEF CreateScheduleJobs
  <2>2. ASSUME NEW t \in timers'
        PROVE  t \in [sched : Schedules, at : Times, registered : BOOLEAN]
    <3>1. CASE t \in timers
      BY <3>1 DEF TypeOK, TimersType
    <3>2. CASE \E s \in future : t = [sched |-> s, at |-> FireTime(due[s]),
                                      registered |-> s \notin registry]
      <4>1. PICK s \in future : t = [sched |-> s, at |-> FireTime(due[s]),
                                    registered |-> s \notin registry]
        BY <3>2
      <4>2. s \in Schedules /\ FireTime(due[s]) \in Times /\ (s \notin registry) \in BOOLEAN
        BY <1>2
      <4> QED
        BY <4>1, <4>2
    <3> QED
      BY <2>1, <3>1, <3>2
  <2> QED
    BY <2>2
<1>4. registry' \subseteq Schedules
  BY DEF CreateScheduleJobs, TypeOK, TimersType
<1>5. firstDue' \in [Schedules -> 0 .. MaxTime + 1]
  <2>1. \A s \in S : due[s] \in 0 .. MaxTime + 1
    BY ConstantsAssumption DEF Times
  <2>2. firstDue' = [s \in Schedules |->
                      IF s \in S /\ due[s] < firstDue[s] THEN due[s] ELSE firstDue[s]]
    BY DEF CreateScheduleJobs
  <2> QED
    BY <2>1, <2>2 DEF TypeOK, HistoryType
<1> QED
  BY <1>1, <1>3, <1>4, <1>5 DEF TimersType

\* findByIdAndUpdate with a status keeps the documents well formed.
LEMMA WriteStatusType ==
    ASSUME DbType, NEW s \in Schedules, NEW st \in Statuses \cup {"deleted"},
           db' = WriteStatus(s, st)
    PROVE  DbType'
  BY DEF WriteStatus, DbType, Docs

\* The parts of a run's step that are common to all of them.
LEMMA StepType ==
    ASSUME RunsType, NEW s \in Schedules, NEW k \in Slots,
           \/ \E run \in Runs : Step(s, k, run)
           \/ EndRun(s, k)
    PROVE  RunsType'
<1>1. NoRun \in Runs
  BY DEF NoRun, Run, Runs
<1>2. ASSUME NEW run \in Runs, runs' = [runs EXCEPT ![s][k] = run]
      PROVE  runs' \in [Schedules -> [Slots -> Runs]]
  BY <1>2 DEF RunsType
<1>3. CASE \E run \in Runs : Step(s, k, run)
  BY <1>2, <1>3 DEF Step, RunsType
<1>4. CASE EndRun(s, k)
  BY <1>1, <1>2, <1>4 DEF EndRun, RunsType
<1> QED
  BY <1>3, <1>4

ReqType == [kind : {"idle", "create", "update", "remove", "cancel"},
            sched : Schedules \cup {"none"}, due : Times,
            status : Statuses \cup {NoStatus}, size : Sizes]

\* Accepting a request about a schedule keeps the types of all it touches.
LEMMA AcceptType ==
    ASSUME TypeOK, NEW q \in Requests, NEW req \in ReqType, Accept(q, req),
           req.kind # "idle" => req.sched \in Schedules
    PROVE  ReqsType' /\ BoundsType' /\ RunsType' /\ DbType'
<1>1. ReqsType'
  BY DEF Accept, TypeOK, ReqsType, ReqType
<1>2. BoundsType'
  BY ConstantsAssumption DEF Accept, TypeOK, BoundsType
<1>3. RunsType' /\ DbType'
  BY DEF Accept, TypeOK, RunsType, DbType
<1> QED
  BY <1>1, <1>2, <1>3

LEMMA NoReqType == NoReq \in ReqType /\ 0 \in Times
  BY ConstantsAssumption DEF NoReq, Req, ReqType, NoTime, NoStatus, Times

\* A request's answer frees its place.
LEMMA AnswerType ==
    ASSUME ReqsType, NEW q \in Requests, reqs' = [reqs EXCEPT ![q] = NoReq]
    PROVE  ReqsType'
  BY NoReqType DEF ReqsType, ReqType, NoReq, Req

\* Every step of an HTTP request keeps the types.
LEMMA RequestsType ==
    ASSUME TypeOK, HandleRequest
    PROVE  TypeOK'
<1>1. ASSUME NEW q \in Requests, NEW s \in Schedules, CreateRequest(q, s)
      PROVE  TypeOK'
  <2>1. PICK t \in Later, n \in Sizes :
          Accept(q, Req("create", s, t, NoStatus, n))
    BY <1>1 DEF CreateRequest
  <2> DEFINE req == Req("create", s, t, NoStatus, n)
  <2>2. req \in ReqType /\ req.sched \in Schedules
    BY DEF ReqType, Req, Later, NoStatus
  <2> HIDE DEF req
  <2>4. ReqsType' /\ BoundsType' /\ RunsType' /\ DbType'
    BY <2>1, <2>2, AcceptType DEF req
  <2> QED
    BY <1>1, <2>4 DEF CreateRequest, TypeOK, TimersType, HistoryType, history
<1>2. ASSUME NEW q \in Requests, NEW s \in Schedules, UpdateRequest(q, s)
      PROVE  TypeOK'
  <2>1. PICK t \in Later \cup {NoTime}, st \in PatchStatuses \cup {NoStatus} :
          /\ Accept(q, Req("update", s, t, st, 0))
          /\ IF t # NoTime THEN DeleteTimeout(s) ELSE UNCHANGED <<timers, registry>>
    BY <1>2 DEF UpdateRequest
  <2> DEFINE req == Req("update", s, t, st, 0)
  <2>2. req \in ReqType /\ req.sched \in Schedules
    BY ConstantsAssumption, NoReqType DEF ReqType, Req, Later, NoTime
  <2> HIDE DEF req
  <2>4. ReqsType' /\ BoundsType' /\ RunsType' /\ DbType'
    BY <2>1, <2>2, AcceptType DEF req
  <2>5. TimersType'
    BY <2>1 DEF DeleteTimeout, TypeOK, TimersType
  <2> QED
    BY <1>2, <2>4, <2>5 DEF UpdateRequest, TypeOK, HistoryType, history
<1>3. ASSUME NEW q \in Requests, NEW s \in Schedules, RemoveRequest(q, s)
      PROVE  TypeOK'
  <2> DEFINE req == Req("remove", s, NoTime, NoStatus, 0)
  <2>1. Accept(q, req)
    BY <1>3 DEF RemoveRequest
  <2>2. req \in ReqType /\ req.sched \in Schedules
    BY ConstantsAssumption, NoReqType DEF ReqType, Req, NoTime
  <2> HIDE DEF req
  <2>3. ReqsType' /\ BoundsType' /\ RunsType' /\ DbType'
    BY <2>1, <2>2, AcceptType
  <2>4. TimersType'
    BY <1>3 DEF RemoveRequest, DeleteTimeout, TypeOK, TimersType
  <2> QED
    BY <1>3, <2>3, <2>4 DEF RemoveRequest, TypeOK, HistoryType, history
<1>4. ASSUME NEW q \in Requests, NEW s \in Schedules, CancelRequest(q, s)
      PROVE  TypeOK'
  <2>1. ~FindOne(s, CancelKey)
    BY DEF FindOne, CancelKey
  <2>2. Accept(q, NoReq) /\ NoReq.kind = "idle"
    BY <1>4, <2>1 DEF CancelRequest, NoReq, Req
  <2>3. ReqsType' /\ BoundsType' /\ RunsType' /\ DbType'
    BY <2>2, NoReqType, AcceptType
  <2>4. TimersType' /\ HistoryType'
    BY <1>4, <2>1 DEF CancelRequest, TypeOK, TimersType, HistoryType, history
  <2> QED
    BY <2>3, <2>4 DEF TypeOK
<1>5. ASSUME NEW q \in Requests, CreateWrite(q)
      PROVE  TypeOK'
  <2> DEFINE s == reqs[q].sched
  <2>1. s \in Schedules /\ reqs[q].due \in Times /\ reqs[q].size \in Sizes
    BY <1>5 DEF CreateWrite, TypeOK, ReqsType
  <2>2. DbType'
    BY <1>5, <2>1 DEF CreateWrite, TypeOK, DbType, Docs, Statuses
  <2>3. RunsType' /\ TimersType' /\ firstDue' \in [Schedules -> 0 .. MaxTime + 1]
    BY <1>5, <2>1, CreateScheduleJobsType DEF CreateWrite, TypeOK, RunsType
  <2>4. ReqsType'
    BY <1>5, AnswerType DEF CreateWrite, TypeOK
  <2>5. BoundsType' /\ HistoryType'
    BY <1>5, <2>3 DEF CreateWrite, TypeOK, BoundsType, HistoryType, bounds
  <2> QED
    BY <2>2, <2>3, <2>4, <2>5 DEF TypeOK
<1>6. ASSUME NEW q \in Requests, UpdateWrite(q)
      PROVE  TypeOK'
  <2> DEFINE s == reqs[q].sched
             r == reqs[q]
  <2>1. /\ s \in Schedules /\ r.due \in Times
        /\ r.status \in Statuses \cup {NoStatus}
    BY <1>6 DEF UpdateWrite, TypeOK, ReqsType
  <2>2. ReqsType' /\ BoundsType'
    BY <1>6, AnswerType DEF UpdateWrite, TypeOK, BoundsType, bounds
  <2>3. CASE Exists(s)
    <3>1. DbType'
      BY <1>6, <2>1, <2>3 DEF UpdateWrite, TypeOK, DbType, Docs
    <3>2. PICK S \in SUBSET {s} : CreateScheduleJobs(S, [u \in {s} |-> r.due])
      BY <1>6, <2>3 DEF UpdateWrite
    <3>3. RunsType' /\ TimersType' /\ firstDue' \in [Schedules -> 0 .. MaxTime + 1]
      BY <1>6, <2>1, <3>2, CreateScheduleJobsType DEF UpdateWrite, TypeOK, RunsType
    <3>4. HistoryType'
      <4>1. rearms' = [rearms EXCEPT ![s] = IF r.status = "pending" THEN @ + 1 ELSE @]
        BY <1>6, <2>3 DEF UpdateWrite
      <4>2. forced' = forced \/ forced' = forced \cup {s}
        BY <1>6, <2>3 DEF UpdateWrite
      <4>3. UNCHANGED <<claims, abandoned>>
        BY <1>6 DEF UpdateWrite
      <4>4. rearms \in [Schedules -> Nat] => rearms' \in [Schedules -> Nat]
        <5> SUFFICES ASSUME rearms \in [Schedules -> Nat]
                     PROVE  rearms' \in [Schedules -> Nat]
          OBVIOUS
        <5>1. PICK n \in Nat : rearms' = [rearms EXCEPT ![s] = n]
          <6>1. rearms[s] \in Nat /\ rearms[s] + 1 \in Nat
            BY <2>1
          <6>2. CASE r.status = "pending"
            BY <4>1, <6>1, <6>2
          <6>3. CASE r.status # "pending"
            BY <4>1, <6>1, <6>3
          <6> QED
            BY <6>2, <6>3
        <5> HIDE DEF s, r
        <5> QED
          BY <5>1
      <4> HIDE DEF s, r
      <4> QED
        BY <2>1, <3>3, <4>2, <4>3, <4>4 DEF TypeOK, HistoryType
    <3> QED
      BY <2>2, <3>1, <3>3, <3>4 DEF TypeOK
  <2>4. CASE ~Exists(s)
    BY <1>6, <2>2, <2>4 DEF UpdateWrite, TypeOK, DbType, RunsType, TimersType, HistoryType
  <2> QED
    BY <2>3, <2>4
<1>7. ASSUME NEW q \in Requests, RemoveOrCancelWrite(q)
      PROVE  TypeOK'
  <2>1. reqs[q].sched \in Schedules
    BY <1>7 DEF RemoveOrCancelWrite, TypeOK, ReqsType
  <2>2. DbType'
    BY <1>7, <2>1, WriteStatusType DEF RemoveOrCancelWrite, TypeOK, Statuses
  <2>3. ReqsType'
    BY <1>7, AnswerType DEF RemoveOrCancelWrite, TypeOK
  <2> QED
    BY <1>7, <2>2, <2>3 DEF RemoveOrCancelWrite, TypeOK, RunsType, TimersType, BoundsType,
                            HistoryType, bounds, history
<1> QED
  BY <1>1, <1>2, <1>3, <1>4, <1>5, <1>6, <1>7 DEF HandleRequest

\* Firing timers and cron sweeps keep the types.
LEMMA ClockworkType ==
    ASSUME TypeOK, (\E t \in timers : FireTimer(t)) \/ CronFind \/ CronStart
    PROVE  TypeOK'
<1>1. ASSUME NEW t \in timers, FireTimer(t)
      PROVE  TypeOK'
  <2>1. {t.sched} \in SUBSET Schedules
    BY DEF TypeOK, TimersType
  <2>2. RunsType'
    BY <1>1, <2>1, StartRunsType DEF FireTimer, TypeOK, RunsType
  <2> QED
    BY <1>1, <2>2 DEF FireTimer, TypeOK, DbType, TimersType, ReqsType, BoundsType, HistoryType,
                      bounds, history
<1>2. CASE CronFind
  BY <1>2 DEF CronFind, PendingDue, TypeOK, DbType, RunsType, TimersType, ReqsType, BoundsType,
              HistoryType, bounds, history
<1>3. CASE CronStart
  <2>1. RunsType'
    BY <1>3, StartRunsType DEF CronStart, TypeOK, RunsType
  <2> QED
    BY <1>3, <2>1 DEF CronStart, TypeOK, DbType, TimersType, ReqsType, BoundsType, HistoryType,
                      bounds, history
<1> QED
  BY <1>1, <1>2, <1>3

\* A run stays among the values a run can have, whichever await it comes from.
LEMMA RunStepsType ==
    ASSUME TypeOK, ProcessSchedule
    PROVE  TypeOK'
<1>1. PICK s \in Schedules, k \in Slots : RunStep(s, k) \/ RunFault(s, k)
  BY DEF ProcessSchedule
<1>2. runs[s][k] \in Runs /\ runs[s][k].left \in Nat /\ db[s].size \in Nat
  <2>1. runs[s][k] \in Runs /\ db[s] \in Docs
    BY DEF TypeOK, RunsType, DbType
  <2> QED
    BY <2>1, ConstantsAssumption DEF Runs, Docs
<1>3. ASSUME NEW pc \in {"claim", "account", "send", "finish", "catch"}, NEW left \in Nat,
             NEW failed \in BOOLEAN
      PROVE  Run(pc, left, failed) \in Runs
  BY DEF Run, Runs
<1>4. /\ (\E run \in Runs : Step(s, k, run)) \/ EndRun(s, k)
      /\ \/ UNCHANGED db
         \/ \E st \in Statuses : db' = WriteStatus(s, st)
      /\ faults' \in 0 .. MaxFaults
      /\ HistoryType'
  <2>1. CASE RunRead(s, k)
    <3>1. Run("claim", db[s].size, FALSE) \in Runs
      BY <1>2, <1>3
    <3>2. (\E run \in Runs : Step(s, k, run)) \/ EndRun(s, k)
      BY <2>1, <3>1 DEF RunRead
    <3> QED
      BY <2>1, <3>2 DEF RunRead, TypeOK, BoundsType, HistoryType, history
  <2>2. CASE RunClaim(s, k)
    <3>1. \E run \in Runs : Step(s, k, run)
      BY <1>2, <1>3, <2>2 DEF RunClaim
    <3>2. HistoryType'
      BY <2>2 DEF RunClaim, TypeOK, HistoryType
    <3> QED
      BY <2>2, <3>1, <3>2 DEF RunClaim, TypeOK, BoundsType, Statuses
  <2>3. CASE RunAccount(s, k)
    <3>1. \E pc \in {"send", "catch"} : Step(s, k, Run(pc, runs[s][k].left, FALSE))
      BY <2>3 DEF RunAccount
    <3>2. \E run \in Runs : Step(s, k, run)
      BY <1>2, <1>3, <3>1
    <3> QED
      BY <2>3, <3>2 DEF RunAccount, TypeOK, BoundsType, HistoryType, history
  <2>4. CASE RunSend(s, k)
    <3>1. \/ runs[s][k].left # 0 /\ Step(s, k, Run("send", runs[s][k].left - 1, FALSE))
          \/ \E failed \in BOOLEAN : Step(s, k, Run("finish", runs[s][k].left, failed))
      <4> DEFINE outcomes == IF runs[s][k].left = 0 THEN {"done"} ELSE SendOutcomes(ScheduleCaller)
      <4>1. PICK outcome \in outcomes :
              Step(s, k, IF outcome = "sent"
                         THEN Run("send", runs[s][k].left - 1, FALSE)
                         ELSE Run("finish", runs[s][k].left, outcome # "done"))
        BY <2>4 DEF RunSend
      <4>2. outcome = "sent" => runs[s][k].left # 0
        OBVIOUS
      <4>3. (outcome # "done") \in BOOLEAN
        OBVIOUS
      <4> HIDE DEF outcomes
      <4> QED
        BY <4>1, <4>2, <4>3
    <3>2. runs[s][k].left # 0 => Run("send", runs[s][k].left - 1, FALSE) \in Runs
      <4>1. runs[s][k].left # 0 => runs[s][k].left - 1 \in Nat
        BY <1>2
      <4> QED
        BY <1>3, <4>1
    <3>3. \A failed \in BOOLEAN : Run("finish", runs[s][k].left, failed) \in Runs
      BY <1>2, <1>3
    <3>4. \E run \in Runs : Step(s, k, run)
      BY <3>1, <3>2, <3>3
    <3> QED
      BY <2>4, <3>4 DEF RunSend, TypeOK, BoundsType, HistoryType, history
  <2>5. CASE RunFinish(s, k)
    BY <2>5 DEF RunFinish, TypeOK, BoundsType, HistoryType, history, Statuses
  <2>6. CASE RunCatch(s, k)
    BY <2>6 DEF RunCatch, TypeOK, BoundsType, HistoryType, history, Statuses
  <2>7. CASE RunFault(s, k)
    <3>1. (\E run \in Runs : Step(s, k, run)) \/ EndRun(s, k)
      BY <1>2, <1>3, <2>7 DEF RunFault
    <3>2. faults' \in 0 .. MaxFaults
      BY <2>7, ConstantsAssumption DEF RunFault, TypeOK, BoundsType
    <3> QED
      BY <2>7, <3>1, <3>2 DEF RunFault, TypeOK, HistoryType
  <2> QED
    BY <1>1, <2>1, <2>2, <2>3, <2>4, <2>5, <2>6, <2>7 DEF RunStep
<1>5. RunsType'
  BY <1>4, StepType DEF TypeOK
<1>6. DbType'
  BY <1>4, WriteStatusType DEF TypeOK, DbType
<1>7. UNCHANGED <<app, timers, registry, reqs, now, requested, crashes>>
  BY <1>4 DEF Step, EndRun
<1> QED
  BY <1>4, <1>5, <1>6, <1>7 DEF TypeOK, TimersType, ReqsType, BoundsType

\* Crashing, restarting and waiting keep the types.
LEMMA LifeCycleType ==
    ASSUME TypeOK, Crash \/ InitFind \/ InitReset \/ InitFault \/ Tick
    PROVE  TypeOK'
<1>1. CASE Crash
  <2>1. RunsType' /\ TimersType'
    BY <1>1 DEF Crash, RunsType, TimersType, NoRun, Run, Runs
  <2>2. ReqsType'
    BY <1>1, NoReqType DEF Crash, ReqsType, ReqType, NoReq, Req
  <2>3. BoundsType'
    BY <1>1, ConstantsAssumption DEF Crash, TypeOK, BoundsType
  <2> QED
    BY <1>1, <2>1, <2>2, <2>3 DEF Crash, TypeOK, DbType, HistoryType, history
<1>2. CASE InitFind
  <2> DEFINE S   == {s \in Schedules : db[s].status = "pending"}
             due == [s \in Schedules |-> db[s].due]
  <2>1. S \in SUBSET Schedules /\ \A s \in S : due[s] \in Times
    BY DEF TypeOK, DbType, Docs
  <2>2. CreateScheduleJobs(S, due) /\ sweep' \subseteq Schedules
    BY <1>2 DEF InitFind, TypeOK, RunsType
  <2> HIDE DEF S, due
  <2>3. RunsType' /\ TimersType' /\ firstDue' \in [Schedules -> 0 .. MaxTime + 1]
    BY <2>1, <2>2, CreateScheduleJobsType
  <2> QED
    BY <1>2, <2>3 DEF InitFind, TypeOK, DbType, ReqsType, BoundsType, HistoryType, bounds, history
<1>3. CASE InitReset
  <2>1. DbType'
    BY <1>3 DEF InitReset, TypeOK, DbType, Docs, Statuses
  <2> QED
    BY <1>3, <2>1 DEF InitReset, TypeOK, RunsType, TimersType, ReqsType, BoundsType, HistoryType,
                      bounds, history
<1>5. CASE InitFault
  <2>1. BoundsType'
    BY <1>5, ConstantsAssumption DEF InitFault, TypeOK, BoundsType
  <2>2. HistoryType'
    BY <1>5 DEF InitFault, TypeOK, HistoryType
  <2> QED
    BY <1>5, <2>1, <2>2 DEF InitFault, TypeOK, DbType, RunsType, TimersType, ReqsType
<1>4. CASE Tick
  <2>1. BoundsType'
    BY <1>4, ConstantsAssumption DEF Tick, TypeOK, BoundsType, Times, memory
  <2> QED
    BY <1>4, <2>1 DEF Tick, TypeOK, DbType, RunsType, TimersType, ReqsType, HistoryType,
                      memory, history
<1> QED
  BY <1>1, <1>2, <1>3, <1>4, <1>5

LEMMA InitType == Init => TypeOK
<1> SUFFICES ASSUME Init
             PROVE  TypeOK
  OBVIOUS
<1>1. DbType /\ RunsType /\ TimersType
  BY ConstantsAssumption DEF Init, DbType, Docs, Absent, NoTime, Times, RunsType, NoRun, Run, Runs,
                             TimersType
<1>2. ReqsType
  BY NoReqType DEF Init, ReqsType, ReqType, NoReq, Req
<1>3. BoundsType /\ HistoryType
  BY ConstantsAssumption DEF Init, BoundsType, HistoryType, Times
<1> QED
  BY <1>1, <1>2, <1>3 DEF TypeOK

LEMMA StutterType == TypeOK /\ UNCHANGED vars => TypeOK'
  BY DEF vars, memory, bounds, history, TypeOK, DbType, RunsType, TimersType, ReqsType,
         BoundsType, HistoryType

\* The service's documents, timers, runs and requests always have their types,
\* whatever the numbers of schedules, requests, crashes and faults.
THEOREM TypeCorrect == Spec => []TypeOK
<1>1. TypeOK /\ [Next]_vars => TypeOK'
  BY RequestsType, ClockworkType, RunStepsType, LifeCycleType, StutterType DEF Next
<1> QED
  BY <1>1, InitType, PTL DEF Spec

-----------------------------------------------------------------------------
(* Runs of one schedule never overlap *)

\* The inductive invariant: processingSchedules covers every run in progress, and
\* a run is started only outside it.
ExclusiveInv == ActiveMarked /\ RunsExclusive

\* A step of one run, or its end, leaves the other runs alone.
LEMMA StepExclusive ==
    ASSUME RunsType, ExclusiveInv, NEW s \in Schedules, NEW k \in Slots,
           Active(s, k), (\E run : Step(s, k, run)) \/ EndRun(s, k)
    PROVE  ExclusiveInv'
<1>1. PICK run : runs' = [runs EXCEPT ![s][k] = run]
  BY DEF Step, EndRun
<1>2. ASSUME NEW u \in Schedules, NEW l \in Slots, Active(u, l)'
      PROVE  Active(u, l)
  <2>1. u # s \/ l # k => runs'[u][l] = runs[u][l]
    BY <1>1 DEF RunsType
  <2> QED
    BY <1>2, <2>1 DEF Active
<1>3. RunsExclusive'
  BY <1>2 DEF ExclusiveInv, RunsExclusive
<1>4. ActiveMarked'
  <2> SUFFICES ASSUME NEW u \in Schedules, NEW l \in Slots, Active(u, l)'
               PROVE  u \in processing'
    BY DEF ActiveMarked
  <2>1. u \in processing
    BY <1>2 DEF ExclusiveInv, ActiveMarked
  <2>2. CASE \E r : Step(s, k, r)
    BY <2>1, <2>2 DEF Step
  <2>3. CASE EndRun(s, k)
    <3>1. u # s
      <4>1. u = s => l = k
        BY <1>2 DEF ExclusiveInv, RunsExclusive
      <4>2. ~Active(s, k)'
        BY <2>3 DEF EndRun, Active, NoRun, Run, RunsType
      <4> QED
        BY <4>1, <4>2
    <3> QED
      BY <2>1, <2>3, <3>1 DEF EndRun
  <2> QED
    BY <2>2, <2>3
<1> QED
  BY <1>3, <1>4 DEF ExclusiveInv

\* A step that leaves runs and processingSchedules alone.
LEMMA KeepExclusive ==
    ASSUME ExclusiveInv, UNCHANGED <<runs, processing>>
    PROVE  ExclusiveInv'
  BY DEF ExclusiveInv, ActiveMarked, RunsExclusive, Active

LEMMA NextExclusive ==
    ASSUME TypeOK, ExclusiveInv, [Next]_vars
    PROVE  ExclusiveInv'
<1>1. ASSUME NEW S \in SUBSET Schedules, StartRuns(S)
      PROVE  ExclusiveInv'
  BY <1>1, StartRunsExclusive DEF TypeOK, ExclusiveInv
<1>2. CASE HandleRequest
  <2>1. ASSUME NEW q \in Requests, NEW s \in Schedules,
               \/ CreateRequest(q, s) \/ UpdateRequest(q, s)
               \/ RemoveRequest(q, s) \/ CancelRequest(q, s)
        PROVE  UNCHANGED <<runs, processing>>
    BY <2>1 DEF CreateRequest, UpdateRequest, RemoveRequest, CancelRequest, Accept
  <2>2. ASSUME NEW q \in Requests, CreateWrite(q)
        PROVE  ExclusiveInv'
    <3>1. reqs[q].sched \in Schedules
      BY <2>2 DEF CreateWrite, TypeOK, ReqsType
    <3>2. \E S \in SUBSET Schedules : StartRuns(S)
      BY <2>2, <3>1 DEF CreateWrite, CreateScheduleJobs
    <3> QED
      BY <1>1, <3>2
  <2>3. ASSUME NEW q \in Requests, UpdateWrite(q)
        PROVE  ExclusiveInv'
    <3>1. reqs[q].sched \in Schedules
      BY <2>3 DEF UpdateWrite, TypeOK, ReqsType
    <3>2. (\E S \in SUBSET Schedules : StartRuns(S)) \/ UNCHANGED <<runs, processing>>
      BY <2>3, <3>1 DEF UpdateWrite, CreateScheduleJobs
    <3> QED
      BY <1>1, <3>2, KeepExclusive
  <2>4. ASSUME NEW q \in Requests, RemoveOrCancelWrite(q)
        PROVE  UNCHANGED <<runs, processing>>
    BY <2>4 DEF RemoveOrCancelWrite
  <2> QED
    BY <1>2, <2>1, <2>2, <2>3, <2>4, KeepExclusive DEF HandleRequest
<1>3. ASSUME NEW t \in timers, FireTimer(t)
      PROVE  ExclusiveInv'
  BY <1>1, <1>3 DEF FireTimer, TypeOK, TimersType
<1>4. CASE CronStart
  BY <1>1, <1>4 DEF CronStart, TypeOK, RunsType
<1>5. CASE ProcessSchedule
  <2>1. PICK s \in Schedules, k \in Slots : RunStep(s, k) \/ RunFault(s, k)
    BY <1>5 DEF ProcessSchedule
  <2>2. Active(s, k) /\ ((\E run : Step(s, k, run)) \/ EndRun(s, k))
    BY <2>1 DEF RunStep, RunRead, RunClaim, RunAccount, RunSend, RunFinish, RunCatch, RunFault,
                Active
  <2> QED
    BY <2>2, StepExclusive DEF TypeOK
<1>6. CASE Crash
  BY <1>6 DEF Crash, ExclusiveInv, ActiveMarked, RunsExclusive, Active, NoRun, Run
<1>7. CASE InitFind
  <2>1. \E S \in SUBSET Schedules : StartRuns(S)
    BY <1>7 DEF InitFind, CreateScheduleJobs
  <2> QED
    BY <1>1, <2>1
<1>8. CASE CronFind \/ InitReset \/ InitFault \/ Tick \/ UNCHANGED vars
  BY <1>8, KeepExclusive DEF CronFind, InitReset, InitFault, Tick, vars, memory
<1> QED
  BY <1>2, <1>3, <1>4, <1>5, <1>6, <1>7, <1>8 DEF Next

\* Whatever starts a schedule - its timer, the cron sweep, a create or an update
\* that is already due, a restart - two processSchedule calls never work on it
\* together.
THEOREM Exclusive == Spec => []RunsExclusive
<1>1. Init => ExclusiveInv
  BY DEF Init, ExclusiveInv, ActiveMarked, RunsExclusive, Active, NoRun, Run
<1>2. ExclusiveInv => RunsExclusive
  BY DEF ExclusiveInv
<1> QED
  BY <1>1, <1>2, TypeCorrect, NextExclusive, PTL DEF Spec

-----------------------------------------------------------------------------
(* The ledger *)

\* What a lone run at pc makes of its schedule's stage.
PcStage(pc) ==
    IF pc = "catch" THEN "failing"
    ELSE IF pc \in {"account", "send", "finish"} THEN "held"
    ELSE IF pc = "claim" THEN "chosen" ELSE "none"

\* A create request still finds its schedule absent when it writes, and no other one
\* is creating it; an edit has one of the clients' statuses.
CreatesFresh ==
    \A q \in Requests : reqs[q].kind = "create" =>
      /\ db[reqs[q].sched].status = "absent"
      /\ \A p \in Requests \ {q} : reqs[p].kind = "create" => reqs[p].sched # reqs[q].sched
EditsAllowed ==
    \A q \in Requests : reqs[q].kind = "update" => reqs[q].status \in PatchStatuses \cup {NoStatus}
RequestsInv == CreatesFresh /\ EditsAllowed

\* Starting runs changes no stage.
LEMMA StartKeepsStage ==
    ASSUME RunsType, NEW S \in SUBSET Schedules, StartRuns(S)
    PROVE  LedgerStage' = LedgerStage
<1>1. ASSUME NEW s \in Schedules, NEW k \in Slots
      PROVE  \/ runs'[s][k] = runs[s][k]
             \/ runs[s][k].pc = "idle" /\ runs'[s][k].pc = "read"
  BY <1>1 DEF StartRuns, RunsType, Active, NewRun, Run
<1>2. ASSUME NEW s \in Schedules, NEW pcs \in SUBSET {"claim", "account", "send", "finish", "catch"}
      PROVE  (\E k \in Slots : runs'[s][k].pc \in pcs) <=> (\E k \in Slots : runs[s][k].pc \in pcs)
  BY <1>1
<1>3. ASSUME NEW s \in Schedules
      PROVE  Stage(s)' = Stage(s)
  BY <1>2 DEF Stage
<1> QED
  BY <1>3 DEF LedgerStage

\* With runs that never overlap the stage of a schedule is that of its only run, and a
\* step of it moves that stage and no other.
LEMMA StageMoves ==
    ASSUME RunsType, RunsExclusive, NEW s \in Schedules, NEW k \in Slots, Active(s, k),
           NEW run, runs' = [runs EXCEPT ![s][k] = run]
    PROVE  /\ LedgerStage[s] = PcStage(runs[s][k].pc)
           /\ Ledger!Move(s, PcStage(run.pc))
<1>1. \A l \in Slots \ {k} : runs[s][l].pc = "idle" /\ runs'[s][l].pc = "idle"
  BY DEF RunsExclusive, Active, RunsType
<1>2. runs'[s][k] = run
  BY DEF RunsType
<1>3. Stage(s) = PcStage(runs[s][k].pc)
  BY <1>1 DEF Stage, PcStage
<1>4. Stage(s)' = PcStage(run.pc)
  BY <1>1, <1>2 DEF Stage, PcStage
<1>5. ASSUME NEW u \in Schedules \ {s}
      PROVE  Stage(u)' = Stage(u)
  <2>1. runs'[u] = runs[u]
    BY DEF RunsType
  <2> QED
    BY <2>1 DEF Stage
<1>6. LedgerStage' = [LedgerStage EXCEPT ![s] = PcStage(run.pc)]
  BY <1>4, <1>5 DEF LedgerStage
<1> QED
  BY <1>3, <1>6 DEF LedgerStage, Ledger!Move

\* A write to an existing schedule only is the ledger's.
LEMMA StatusPut ==
    ASSUME DbType, NEW s \in Schedules, NEW st, db' = WriteStatus(s, st)
    PROVE  Ledger!Put(s, st)
<1>1. Exists(s) <=> Ledger!Stored(s)
  BY DEF DbType, Docs, Exists, Ledger!Stored, LedgerStatus, Statuses
<1>2. CASE Exists(s)
  <2>1. \A u \in Schedules : db'[u].status = IF u = s THEN st ELSE db[u].status
    BY <1>2 DEF WriteStatus, DbType, Docs
  <2> QED
    BY <1>1, <1>2, <2>1 DEF Ledger!Put, LedgerStatus
<1>3. CASE ~Exists(s)
  BY <1>1, <1>3 DEF WriteStatus, Ledger!Put, LedgerStatus
<1> QED
  BY <1>2, <1>3

\* What requests know of the schedules they will write to stays true.
LEMMA RequestsKept ==
    ASSUME TypeOK, RequestsInv, [Next]_vars
    PROVE  RequestsInv'
<1> USE DEF RequestsInv, CreatesFresh, EditsAllowed
<1>1. ASSUME reqs' = reqs, NEW s \in Schedules, NEW st, db' = WriteStatus(s, st)
      PROVE  RequestsInv'
  BY <1>1 DEF WriteStatus, Exists, Statuses, TypeOK, DbType, Docs, ReqsType
<1>2. ASSUME reqs' = reqs, db' = db
      PROVE  RequestsInv'
  BY <1>2
<1>3. ASSUME NEW q \in Requests, reqs' = [reqs EXCEPT ![q] = NoReq], db' = db
      PROVE  RequestsInv'
  BY <1>3 DEF NoReq, Req, TypeOK, ReqsType
<1>4. ASSUME NEW q \in Requests, NEW s \in Schedules, CreateRequest(q, s)
      PROVE  RequestsInv'
  <2>1. PICK req : req.kind = "create" /\ req.sched = s /\ reqs' = [reqs EXCEPT ![q] = req] /\ db' = db
    BY <1>4 DEF CreateRequest, Accept, Req
  <2>2. db[s].status = "absent" /\ \A p \in Requests : reqs[p].sched # s
    BY <1>4 DEF CreateRequest, Absent
  <2> QED
    BY <2>1, <2>2 DEF TypeOK, ReqsType
<1>5. ASSUME NEW q \in Requests, NEW s \in Schedules, UpdateRequest(q, s)
      PROVE  RequestsInv'
  <2>1. PICK req : /\ req.kind = "update" /\ req.status \in PatchStatuses \cup {NoStatus}
                   /\ reqs' = [reqs EXCEPT ![q] = req] /\ db' = db
    BY <1>5 DEF UpdateRequest, Accept, Req
  <2> QED
    BY <2>1 DEF TypeOK, ReqsType
<1>6. ASSUME NEW q \in Requests, NEW s \in Schedules, RemoveRequest(q, s) \/ CancelRequest(q, s)
      PROVE  RequestsInv'
  <2>1. PICK req : /\ req.kind \notin {"create", "update"}
                   /\ reqs' = [reqs EXCEPT ![q] = req] /\ db' = db
    BY <1>6 DEF RemoveRequest, CancelRequest, Accept, Req, NoReq
  <2> QED
    BY <2>1 DEF TypeOK, ReqsType
<1>7. ASSUME NEW q \in Requests, CreateWrite(q)
      PROVE  RequestsInv'
  <2>1. reqs[q].kind = "create" /\ reqs[q].sched \in Schedules /\ reqs' = [reqs EXCEPT ![q] = NoReq]
    BY <1>7 DEF CreateWrite, TypeOK, ReqsType
  <2>2. \A u \in Schedules \ {reqs[q].sched} : db'[u] = db[u]
    BY <1>7 DEF CreateWrite, TypeOK, DbType
  <2>3. ASSUME NEW p \in Requests, reqs'[p].kind = "create"
        PROVE  p # q /\ reqs'[p] = reqs[p] /\ reqs[p].sched \in Schedules \ {reqs[q].sched}
    BY <2>1, <2>3 DEF TypeOK, ReqsType, NoReq, Req
  <2>4. EditsAllowed'
    BY <2>1 DEF TypeOK, ReqsType, NoReq, Req
  <2>5. CreatesFresh'
    BY <2>2, <2>3
  <2> QED
    BY <2>4, <2>5
<1>8. ASSUME NEW q \in Requests, UpdateWrite(q) \/ RemoveOrCancelWrite(q)
      PROVE  RequestsInv'
  <2>1. reqs[q].sched \in Schedules /\ reqs' = [reqs EXCEPT ![q] = NoReq]
    BY <1>8 DEF UpdateWrite, RemoveOrCancelWrite, TypeOK, ReqsType
  <2>2. \A u \in Schedules : db[u].status = "absent" => db'[u].status = "absent"
    BY <1>8, <2>1 DEF UpdateWrite, RemoveOrCancelWrite, WriteStatus, Exists, Statuses,
                      TypeOK, DbType, Docs
  <2>3. ASSUME NEW p \in Requests, reqs'[p].kind # "idle"
        PROVE  reqs'[p] = reqs[p] /\ reqs[p].sched \in Schedules
    BY <2>1, <2>3 DEF TypeOK, ReqsType, NoReq, Req
  <2> QED
    BY <2>1, <2>2, <2>3
<1>9. ASSUME NEW s \in Schedules, NEW k \in Slots, RunStep(s, k) \/ RunFault(s, k)
      PROVE  RequestsInv'
  <2>1. reqs' = reqs
    BY <1>9 DEF RunStep, RunFault, RunRead, RunClaim, RunAccount, RunSend, RunFinish, RunCatch,
                Step, EndRun
  <2>2. db' = db \/ \E st : db' = WriteStatus(s, st)
    BY <1>9 DEF RunStep, RunFault, RunRead, RunClaim, RunAccount, RunSend, RunFinish, RunCatch
  <2> QED
    BY <1>1, <1>2, <2>1, <2>2
<1>10. CASE Crash
  BY <1>10 DEF Crash, NoReq, Req
<1>11. CASE InitReset
  <2>1. \A u \in Schedules : db[u].status = "absent" => db'[u].status = "absent"
    BY <1>11 DEF InitReset
  <2> QED
    BY <1>11, <2>1 DEF InitReset, TypeOK, ReqsType
<1>12. CASE \/ \E t \in timers : FireTimer(t)
            \/ CronFind \/ CronStart \/ InitFind \/ InitFault \/ Tick \/ UNCHANGED vars
  BY <1>2, <1>12 DEF FireTimer, CronFind, CronStart, InitFind, InitFault, Tick, vars, memory
<1> QED
  BY <1>4, <1>5, <1>6, <1>7, <1>8, <1>9, <1>10, <1>11, <1>12
     DEF Next, HandleRequest, ProcessSchedule

\* A step that starts runs at most, and leaves the rest the ledger shows, is a stutter.
LEMMA Unseen ==
    ASSUME TypeOK, LedgerStatus' = LedgerStatus, UNCHANGED <<app, forced, abandoned>>,
           runs' = runs \/ \E S \in SUBSET Schedules : StartRuns(S)
    PROVE  UNCHANGED Ledger!vars
<1>1. LedgerStage' = LedgerStage
  <2>1. CASE runs' = runs
    BY <2>1 DEF LedgerStage, Stage
  <2> QED
    BY <2>1, StartKeepsStage DEF TypeOK
<1> QED
  BY <1>1 DEF Ledger!vars

\* Requests are the ledger's owner.
LEMMA RequestsRefine ==
    ASSUME TypeOK, RequestsInv, HandleRequest
    PROVE  [Ledger!Next]_(Ledger!vars)
<1>1. ASSUME NEW q \in Requests, NEW s \in Schedules,
             \/ CreateRequest(q, s) \/ UpdateRequest(q, s)
             \/ RemoveRequest(q, s) \/ CancelRequest(q, s)
      PROVE  UNCHANGED Ledger!vars
  <2>1. UNCHANGED <<db, runs, app, history>>
    BY <1>1 DEF CreateRequest, UpdateRequest, RemoveRequest, CancelRequest, Accept
  <2> QED
    BY <2>1, Unseen DEF LedgerStatus, history
<1>2. ASSUME NEW q \in Requests, CreateWrite(q)
      PROVE  \E s \in Schedules : Ledger!Create(s)
  <2> DEFINE s == reqs[q].sched
  <2>1. s \in Schedules /\ db[s].status = "absent"
    BY <1>2 DEF CreateWrite, TypeOK, ReqsType, RequestsInv, CreatesFresh
  <2>2. LedgerStatus' = [LedgerStatus EXCEPT ![s] = "pending"]
    BY <1>2, <2>1 DEF CreateWrite, TypeOK, DbType, LedgerStatus
  <2>3. LedgerStage' = LedgerStage
    <3>1. \E S \in SUBSET Schedules : StartRuns(S)
      BY <1>2, <2>1 DEF CreateWrite, CreateScheduleJobs
    <3> QED
      BY <3>1, StartKeepsStage DEF TypeOK
  <2>4. Ledger!Create(s)
    BY <1>2, <2>1, <2>2, <2>3 DEF CreateWrite, Ledger!Create, LedgerStatus
  <2> QED
    BY <2>1, <2>4
<1>3. ASSUME NEW q \in Requests, UpdateWrite(q)
      PROVE  \/ \E s \in Schedules, st \in PatchStatuses : Ledger!Edit(s, st)
             \/ UNCHANGED Ledger!vars
  <2> DEFINE s  == reqs[q].sched
             st == reqs[q].status
  <2>1. s \in Schedules /\ st \in PatchStatuses \cup {NoStatus}
    BY <1>3 DEF UpdateWrite, TypeOK, ReqsType, RequestsInv, EditsAllowed
  <2>2. runs' = runs \/ \E S \in SUBSET Schedules : StartRuns(S)
    BY <1>3, <2>1 DEF UpdateWrite, CreateScheduleJobs
  <2>3. CASE Exists(s) /\ st # NoStatus
    <3>1. \A u \in Schedules : db'[u].status = IF u = s THEN st ELSE db[u].status
      BY <1>3, <2>1, <2>3 DEF UpdateWrite, TypeOK, DbType, Docs
    <3>2. Ledger!Stored(s)
      BY <2>1, <2>3 DEF Exists, Ledger!Stored, LedgerStatus, Statuses
    <3>3. Ledger!Put(s, st)
      BY <2>1, <3>1, <3>2 DEF Ledger!Put, LedgerStatus
    <3>4. LedgerStage' = LedgerStage
      BY <2>2, StartKeepsStage DEF TypeOK, LedgerStage, Stage
    <3>5. Ledger!Edit(s, st)
      BY <1>3, <2>3, <3>3, <3>4 DEF UpdateWrite, Ledger!Edit
    <3> QED
      BY <2>1, <2>3, <3>5
  <2>4. CASE ~(Exists(s) /\ st # NoStatus)
    <3>1. \A u \in Schedules : db'[u].status = db[u].status
      BY <1>3, <2>1, <2>4 DEF UpdateWrite, TypeOK, DbType, Docs
    <3>2. UNCHANGED <<app, forced, abandoned>>
      BY <1>3, <2>4 DEF UpdateWrite, NoStatus
    <3> QED
      BY <2>2, <3>1, <3>2, Unseen DEF LedgerStatus
  <2> QED
    BY <2>3, <2>4
<1>4. ASSUME NEW q \in Requests, RemoveOrCancelWrite(q)
      PROVE  \E s \in Schedules : Ledger!Withdraw(s)
  <2>1. reqs[q].sched \in Schedules
    BY <1>4 DEF RemoveOrCancelWrite, TypeOK, ReqsType
  <2>2. Ledger!Put(reqs[q].sched, "deleted") \/ Ledger!Put(reqs[q].sched, "cancelled")
    BY <1>4, <2>1, StatusPut DEF RemoveOrCancelWrite, TypeOK
  <2>3. LedgerStage' = LedgerStage /\ UNCHANGED <<app, forced, abandoned>>
    BY <1>4 DEF RemoveOrCancelWrite, LedgerStage, Stage, history
  <2> QED
    BY <2>1, <2>2, <2>3 DEF Ledger!Withdraw
<1> QED
  BY <1>1, <1>2, <1>3, <1>4 DEF HandleRequest, Ledger!Next

\* A step of a run is one of the ledger's executions, or does not show.
LEMMA RunsRefine ==
    ASSUME TypeOK, RunsExclusive, ProcessSchedule
    PROVE  [Ledger!Next]_(Ledger!vars)
<1>1. PICK s \in Schedules, k \in Slots : RunStep(s, k) \/ RunFault(s, k)
  BY DEF ProcessSchedule
<1>2. Active(s, k)
  BY <1>1 DEF RunStep, RunFault, RunRead, RunClaim, RunAccount, RunSend, RunFinish, RunCatch, Active
<1>3. /\ LedgerStage[s] = PcStage(runs[s][k].pc)
      /\ Ledger!Move(s, PcStage(runs'[s][k].pc))
      /\ UNCHANGED app
  <2>1. (\E run : Step(s, k, run)) \/ EndRun(s, k)
    BY <1>1 DEF RunStep, RunRead, RunClaim, RunAccount, RunSend, RunFinish, RunCatch, RunFault
  <2>2. PICK run : runs' = [runs EXCEPT ![s][k] = run]
    BY <2>1 DEF Step, EndRun
  <2>3. runs'[s][k] = run
    BY <2>2 DEF TypeOK, RunsType
  <2>4. UNCHANGED app
    BY <2>1 DEF Step, EndRun
  <2> QED
    BY <1>2, <2>2, <2>3, <2>4, StageMoves DEF TypeOK
<1>5. CASE RunRead(s, k)
  <2>1. CASE db[s].status = "pending"
    <3>1. runs'[s][k].pc = "claim" /\ UNCHANGED <<db, history>>
      BY <1>5, <2>1 DEF RunRead, Step, Run, TypeOK, RunsType
    <3>2. runs[s][k].pc = "read" /\ PcStage("read") = "none" /\ PcStage("claim") = "chosen"
      BY <1>5 DEF RunRead, PcStage
    <3>3. LedgerStatus' = LedgerStatus /\ LedgerStatus[s] = "pending"
      BY <2>1, <3>1 DEF LedgerStatus
    <3>4. Ledger!Choose(s)
      BY <1>3, <3>1, <3>2, <3>3 DEF Ledger!Choose, history
    <3> QED
      BY <3>4 DEF Ledger!Next
  <2>2. CASE db[s].status # "pending"
    <3>1. runs'[s][k].pc = "idle" /\ UNCHANGED <<db, history>>
      BY <1>5, <2>2 DEF RunRead, EndRun, NoRun, Run, TypeOK, RunsType
    <3>2. LedgerStage[s] = "none" /\ Ledger!Move(s, "none")
      BY <1>3, <1>5, <3>1 DEF RunRead, PcStage
    <3>3. LedgerStage' = LedgerStage
      BY <3>2 DEF Ledger!Move, LedgerStage
    <3> QED
      BY <1>3, <3>1, <3>3 DEF Ledger!vars, LedgerStatus, history
  <2> QED
    BY <2>1, <2>2
<1>6. CASE RunClaim(s, k)
  <2>1. runs'[s][k].pc = "account" /\ UNCHANGED <<forced, abandoned>>
    BY <1>6 DEF RunClaim, Step, Run, TypeOK, RunsType
  <2>2. Ledger!Put(s, "processing")
    BY <1>6, StatusPut DEF RunClaim, TypeOK
  <2>3. runs[s][k].pc = "claim" /\ PcStage("claim") = "chosen" /\ PcStage("account") = "held"
    BY <1>6 DEF RunClaim, PcStage
  <2>4. Ledger!Claim(s)
    BY <1>3, <2>1, <2>2, <2>3 DEF Ledger!Claim
  <2> QED
    BY <2>4 DEF Ledger!Next
<1>7. CASE RunAccount(s, k) \/ RunSend(s, k)
  <2>1. runs'[s][k].pc \in {"send", "finish", "catch"}
    <3>1. CASE RunAccount(s, k)
      BY <3>1 DEF RunAccount, Step, Run, TypeOK, RunsType
    <3>2. CASE RunSend(s, k)
      BY <3>2 DEF RunSend, Step, Run, TypeOK, RunsType
    <3> QED
      BY <1>7, <3>1, <3>2
  <2>2. UNCHANGED <<db, forced, abandoned>> /\ PcStage(runs[s][k].pc) = "held"
    BY <1>7 DEF RunAccount, RunSend, history, PcStage
  <2>3. CASE runs'[s][k].pc = "catch"
    <3>1. PcStage(runs'[s][k].pc) = "failing"
      BY <2>3 DEF PcStage
    <3>2. Ledger!Break(s)
      BY <1>3, <2>2, <3>1 DEF Ledger!Break, LedgerStatus
    <3> QED
      BY <3>2 DEF Ledger!Next
  <2>4. CASE runs'[s][k].pc # "catch"
    <3>1. PcStage(runs'[s][k].pc) = "held"
      BY <2>1, <2>4 DEF PcStage
    <3>2. LedgerStage' = LedgerStage
      BY <1>3, <2>2, <3>1 DEF Ledger!Move, LedgerStage
    <3> QED
      BY <1>3, <2>2, <3>2 DEF Ledger!vars, LedgerStatus
  <2> QED
    BY <2>3, <2>4
<1>8. CASE RunFinish(s, k) \/ RunCatch(s, k)
  <2>1. runs'[s][k].pc = "idle" /\ UNCHANGED <<forced, abandoned>>
    BY <1>8 DEF RunFinish, RunCatch, EndRun, NoRun, Run, history, TypeOK, RunsType
  <2>2. /\ LedgerStage[s] = PcStage(runs[s][k].pc)
        /\ Ledger!Move(s, "none") /\ UNCHANGED app
    BY <1>3, <2>1 DEF PcStage
  <2>3. \/ LedgerStage[s] = "held" /\ (Ledger!Put(s, "completed") \/ Ledger!Put(s, "failed"))
        \/ LedgerStage[s] = "failing" /\ Ledger!Put(s, "failed")
    BY <1>8, <2>2, StatusPut DEF RunFinish, RunCatch, TypeOK, PcStage
  <2>4. Ledger!Settle(s)
    BY <2>1, <2>2, <2>3 DEF Ledger!Settle
  <2> QED
    BY <2>4 DEF Ledger!Next
<1>9. CASE RunFault(s, k)
  <2>1. CASE runs[s][k].pc = "catch"
    <3>1. /\ runs'[s][k].pc = "idle"
          /\ abandoned' = abandoned \cup {s} /\ UNCHANGED <<db, forced>>
      BY <1>9, <2>1 DEF RunFault, EndRun, NoRun, Run, TypeOK, RunsType
    <3>2. LedgerStage[s] = "failing" /\ Ledger!Move(s, "none")
      BY <1>3, <2>1, <3>1 DEF PcStage
    <3>3. Ledger!Abandon(s)
      BY <1>3, <3>1, <3>2 DEF Ledger!Abandon, LedgerStatus
    <3> QED
      BY <3>3 DEF Ledger!Next
  <2>2. CASE runs[s][k].pc # "catch"
    <3>1. runs'[s][k].pc = "catch" /\ UNCHANGED <<db, forced, abandoned>>
      BY <1>9, <2>2 DEF RunFault, Step, Run, TypeOK, RunsType
    <3>2. PcStage(runs[s][k].pc) # "failing" /\ PcStage("catch") = "failing"
      BY <2>2 DEF PcStage
    <3>3. Ledger!Break(s)
      BY <1>3, <3>1, <3>2 DEF Ledger!Break, LedgerStatus
    <3> QED
      BY <3>3 DEF Ledger!Next
  <2> QED
    BY <2>1, <2>2
<1> QED
  BY <1>1, <1>5, <1>6, <1>7, <1>8, <1>9 DEF RunStep

\* Every step of the service is one the ledger allows, or does not show in it.
LEMMA StepsRefine ==
    ASSUME TypeOK, RunsExclusive, RequestsInv, [Next]_vars
    PROVE  [Ledger!Next]_(Ledger!vars)
<1>1. ASSUME NEW t \in timers, FireTimer(t)
      PROVE  UNCHANGED Ledger!vars
  <2>1. {t.sched} \in SUBSET Schedules
    BY DEF TypeOK, TimersType
  <2>2. UNCHANGED <<db, app, forced, abandoned>> /\ StartRuns({t.sched})
    BY <1>1 DEF FireTimer, history
  <2> QED
    BY <2>1, <2>2, Unseen DEF LedgerStatus
<1>2. CASE CronStart
  <2>1. UNCHANGED <<db, app, forced, abandoned>> /\ StartRuns(sweep) /\ sweep \in SUBSET Schedules
    BY <1>2 DEF CronStart, history, TypeOK, RunsType
  <2> QED
    BY <2>1, Unseen DEF LedgerStatus
<1>3. CASE CronFind \/ Tick \/ UNCHANGED vars
  BY <1>3, Unseen DEF CronFind, Tick, vars, memory, history, LedgerStatus
<1>4. CASE Crash
  <2>1. LedgerStage' = [s \in Schedules |-> "none"]
    BY <1>4 DEF Crash, LedgerStage, Stage, NoRun, Run
  <2>2. Ledger!Crash
    BY <1>4, <2>1 DEF Crash, history, LedgerStatus, Ledger!Crash
  <2> QED
    BY <2>2 DEF Ledger!Next
<1>5. CASE InitFind
  <2>1. \E S \in SUBSET Schedules : StartRuns(S)
    BY <1>5 DEF InitFind, CreateScheduleJobs
  <2>2. LedgerStage' = LedgerStage
    BY <2>1, StartKeepsStage DEF TypeOK
  <2> QED
    BY <1>5, <2>2 DEF InitFind, history, LedgerStatus, Ledger!vars
<1>6. CASE InitReset
  <2>1. LedgerStage' = LedgerStage
    BY <1>6 DEF InitReset, LedgerStage, Stage
  <2>2. \A s \in Schedules : db'[s].status = IF db[s].status = "processing" THEN "pending" ELSE db[s].status
    BY <1>6 DEF InitReset, TypeOK, DbType, Docs
  <2>3. LedgerStatus' = [s \in Schedules |-> IF LedgerStatus[s] = "processing" THEN "pending"
                                             ELSE LedgerStatus[s]]
    BY <2>2 DEF LedgerStatus
  <2>4. Ledger!Recover
    BY <1>6, <2>1, <2>3 DEF InitReset, Ledger!Recover
  <2> QED
    BY <2>4 DEF Ledger!Next
<1>7. CASE InitFault
  <2>1. LedgerStage' = LedgerStage /\ LedgerStatus' = LedgerStatus
    BY <1>7 DEF InitFault, LedgerStage, LedgerStatus, Stage
  <2>2. ASSUME NEW s \in Schedules
        PROVE  LedgerStage[s] \in {"held", "failing"} <=> Working(s)
    BY DEF LedgerStage, Stage, Working
  <2>3. {s \in Schedules : LedgerStatus[s] = "processing" /\ LedgerStage[s] \notin {"held", "failing"}}
          = {s \in Schedules : db[s].status = "processing" /\ ~Working(s)}
    BY <2>2 DEF LedgerStatus
  <2>4. Ledger!Resume
    BY <1>7, <2>1, <2>3 DEF InitFault, Ledger!Resume
  <2> QED
    BY <2>4 DEF Ledger!Next
<1> QED
  BY <1>1, <1>2, <1>3, <1>4, <1>5, <1>6, <1>7, RequestsRefine, RunsRefine DEF Next

LEMMA RequestsStart == Init => RequestsInv
  BY DEF Init, RequestsInv, CreatesFresh, EditsAllowed, NoReq, Req

\* The service keeps the ledger, for any number of schedules, concurrent runs and
\* requests, crashes and rejected database calls.
THEOREM ImplementsLedger == Spec => KeepsLedger
<1>1. Init => Ledger!Init
  <2> SUFFICES ASSUME Init
               PROVE  Ledger!Init
    OBVIOUS
  <2>1. LedgerStatus = [s \in Schedules |-> "absent"]
    BY DEF Init, LedgerStatus, Absent
  <2>2. LedgerStage = [s \in Schedules |-> "none"]
    BY DEF Init, LedgerStage, Stage, NoRun, Run
  <2> QED
    BY <2>1, <2>2 DEF Init, Ledger!Init
<1>2. TypeOK /\ RunsExclusive /\ RequestsInv /\ [Next]_vars => [Ledger!Next]_(Ledger!vars)
  BY StepsRefine
<1>3. Spec => []RequestsInv
  <2>1. TypeOK /\ RequestsInv /\ [Next]_vars => RequestsInv'
    BY RequestsKept
  <2> QED
    BY <2>1, RequestsStart, TypeCorrect, PTL DEF Spec
<1> QED
  BY <1>1, <1>2, <1>3, TypeCorrect, Exclusive, PTL DEF Spec, KeepsLedger, Ledger!Spec

\* What the ledger says of a schedule in "processing" is what the code's runs make true:
\* after any crash nothing stays in "processing" with no run, but what a client put there
\* and what a rejected call kept a run or a start-up from putting right
\* (scheduling.service.ts:329).
THEOREM Owners == Spec => []ProcessingHasOwner
<1>1. Ledger!Init => Ledger!Owned
  BY DEF Ledger!Init, Ledger!Owned
<1>2. Ledger!Owned /\ [Ledger!Next]_(Ledger!vars) => Ledger!Owned'
  <2> SUFFICES ASSUME Ledger!Owned, [Ledger!Next]_(Ledger!vars)
               PROVE  Ledger!Owned'
    OBVIOUS
  <2> USE DEF Ledger!Owned, Ledger!Put, Ledger!Move
  <2>1. LedgerStatus = [s \in Schedules |-> LedgerStatus[s]] /\ LedgerStage = [s \in Schedules |-> LedgerStage[s]]
    BY DEF LedgerStatus, LedgerStage
  <2>2. ASSUME NEW s \in Schedules, Ledger!Create(s) \/ Ledger!Withdraw(s)
        PROVE  Ledger!Owned'
    BY <2>1, <2>2 DEF Ledger!Create, Ledger!Withdraw
  <2>3. ASSUME NEW s \in Schedules, NEW st \in PatchStatuses, Ledger!Edit(s, st)
        PROVE  Ledger!Owned'
    BY <2>1, <2>3 DEF Ledger!Edit
  <2>4. ASSUME NEW s \in Schedules, Ledger!Choose(s) \/ Ledger!Claim(s)
        PROVE  Ledger!Owned'
    BY <2>1, <2>4 DEF Ledger!Choose, Ledger!Claim
  <2>5. ASSUME NEW s \in Schedules, Ledger!Break(s) \/ Ledger!Abandon(s)
        PROVE  Ledger!Owned'
    BY <2>1, <2>5 DEF Ledger!Break, Ledger!Abandon
  <2>6. ASSUME NEW s \in Schedules, Ledger!Settle(s)
        PROVE  Ledger!Owned'
    BY <2>1, <2>6 DEF Ledger!Settle, Ledger!Stored
  <2>7. CASE Ledger!Crash \/ Ledger!Recover \/ Ledger!Resume \/ UNCHANGED Ledger!vars
    BY <2>7 DEF Ledger!Crash, Ledger!Recover, Ledger!Resume, Ledger!vars
  <2> QED
    BY <2>2, <2>3, <2>4, <2>5, <2>6, <2>7 DEF Ledger!Next
<1>3. Ledger!Owned => ProcessingHasOwner
  BY DEF Ledger!Owned, ProcessingHasOwner, LedgerStatus, LedgerStage, Stage, Working
<1> QED
  BY <1>1, <1>2, <1>3, ImplementsLedger, PTL DEF KeepsLedger, Ledger!Spec

\* Neither a late request nor a run that outlives it brings a deleted schedule back.
THEOREM DeletedForGood == Spec => DeletedStaysDeleted
<1>1. [Ledger!Next]_(Ledger!vars)
        => [\A s \in Schedules : db[s].status = "deleted" => db'[s].status = "deleted"]_vars
  <2> SUFFICES ASSUME [Ledger!Next]_(Ledger!vars), NEW s \in Schedules, LedgerStatus[s] = "deleted"
               PROVE  LedgerStatus'[s] = "deleted"
    BY DEF LedgerStatus
  <2>1. ASSUME NEW u \in Schedules, NEW st, Ledger!Put(u, st)
        PROVE  LedgerStatus'[s] = "deleted"
    BY <2>1 DEF Ledger!Put, Ledger!Stored
  <2>2. ASSUME NEW u \in Schedules, Ledger!Create(u)
        PROVE  LedgerStatus'[s] = "deleted"
    BY <2>2 DEF Ledger!Create
  <2> QED
    BY <2>1, <2>2 DEF Ledger!Next, Ledger!vars, Ledger!Edit, Ledger!Withdraw, Ledger!Choose,
       Ledger!Claim, Ledger!Break, Ledger!Settle, Ledger!Abandon, Ledger!Crash, Ledger!Recover,
       Ledger!Resume, LedgerStatus
<1> QED
  BY <1>1, ImplementsLedger, PTL DEF KeepsLedger, Ledger!Spec, DeletedStaysDeleted
-----------------------------------------------------------------------------
(* How often a schedule is claimed *)

ClaimRun(s) == \E k \in Slots : runs[s][k].pc = "claim"
Waits(s)    == db[s].status = "pending" \/ ClaimRun(s)

\* The claims a schedule may still get without another crash or PATCH.  Before the
\* interrupted schedules are put back one can be claimed, put back and claimed again.
Chances(s) ==
    IF app = "up"
    THEN IF Waits(s) \/ db[s].status = "absent" THEN 1 ELSE 0
    ELSE IF Waits(s) THEN 2 ELSE IF db[s].status \in {"absent", "processing"} THEN 1 ELSE 0

Budgeted(s) == claims[s] + Chances(s) <= 1 + crashes + rearms[s]

\* The inductive invariant: claims made and claims to come are within the budget.
BudgetInv ==
    /\ \A s \in Schedules : Budgeted(s) /\ (ClaimRun(s) => db[s].status # "absent")
    /\ \A q \in Requests : reqs[q].kind # "idle" => app = "up"

Final == {"completed", "failed", "cancelled", "deleted"}

\* A schedule that keeps its status or is settled, and is not chosen by a run unless it
\* was pending, gets no further chance.
LEMMA NoFurtherChance ==
    ASSUME TypeOK, NEW s \in Schedules, Budgeted(s), ClaimRun(s) => db[s].status # "absent",
           claims'[s] = claims[s], rearms'[s] = rearms[s], UNCHANGED <<crashes, app>>,
           db'[s].status \in Final \cup {db[s].status},
           ClaimRun(s)' => Waits(s)
    PROVE  Budgeted(s)' /\ (ClaimRun(s)' => db'[s].status # "absent")
<1>1. claims[s] \in Nat /\ rearms[s] \in Nat /\ crashes \in Nat
  BY DEF TypeOK, HistoryType, BoundsType
<1>2. Waits(s)' => Waits(s)
  BY DEF Waits, Final
<1>3. db'[s].status \in {"absent", "processing"} => db[s].status = db'[s].status
  BY DEF Final
<1>4. Chances(s)' \in {0, 1, 2} /\ Chances(s) \in {0, 1, 2} /\ Chances(s)' <= Chances(s)
  BY <1>2, <1>3 DEF Chances
<1>5. Budgeted(s)'
  BY <1>1, <1>4 DEF Budgeted
<1>6. ClaimRun(s)' => db'[s].status # "absent"
  BY DEF Waits, Final
<1> QED
  BY <1>5, <1>6

\* Starting runs, or none, chooses nothing yet.
LEMMA StartChoosesNone ==
    ASSUME TypeOK, runs' = runs \/ \E S \in SUBSET Schedules : StartRuns(S), NEW s \in Schedules
    PROVE  ClaimRun(s)' <=> ClaimRun(s)
<1>1. CASE runs' = runs
  BY <1>1 DEF ClaimRun
<1>2. ASSUME NEW S \in SUBSET Schedules, StartRuns(S)
      PROVE  ClaimRun(s)' <=> ClaimRun(s)
  <2>1. ASSUME NEW k \in Slots
        PROVE  \/ runs'[s][k] = runs[s][k]
               \/ runs[s][k].pc = "idle" /\ runs'[s][k].pc = "read"
    BY <1>2, <2>1 DEF StartRuns, TypeOK, RunsType, Active, NewRun, Run
  <2> QED
    BY <2>1 DEF ClaimRun
<1> QED
  BY <1>1, <1>2

\* Accepting a request, firing a timer and sweeping change neither claims nor statuses.
LEMMA QuietBudget ==
    ASSUME TypeOK, BudgetInv, UNCHANGED <<claims, rearms, crashes, app, db>>,
           runs' = runs \/ \E S \in SUBSET Schedules : StartRuns(S),
           \A q \in Requests : reqs'[q].kind # "idle" => app = "up"
    PROVE  BudgetInv'
<1>1. ASSUME NEW s \in Schedules
      PROVE  Budgeted(s)' /\ (ClaimRun(s)' => db'[s].status # "absent")
  BY StartChoosesNone, NoFurtherChance DEF BudgetInv, Waits
<1> QED
  BY <1>1 DEF BudgetInv

\* Requests: a creation uses the chance of an absent schedule, a PATCH to pending brings
\* one with it.
LEMMA RequestsBudget ==
    ASSUME TypeOK, RequestsInv, BudgetInv, HandleRequest
    PROVE  BudgetInv'
<1>1. ASSUME NEW q \in Requests, NEW s \in Schedules,
             \/ CreateRequest(q, s) \/ UpdateRequest(q, s)
             \/ RemoveRequest(q, s) \/ CancelRequest(q, s)
      PROVE  BudgetInv'
  <2>1. UNCHANGED <<db, runs, app, crashes, history>> /\ app = "up"
    BY <1>1 DEF CreateRequest, UpdateRequest, RemoveRequest, CancelRequest, Accept
  <2> QED
    BY <2>1, QuietBudget DEF history
<1>2. ASSUME NEW q \in Requests, reqs' = [reqs EXCEPT ![q] = NoReq], reqs[q].kind # "idle",
             UNCHANGED app
      PROVE  app = "up" /\ \A p \in Requests : reqs'[p].kind # "idle" => app' = "up"
  BY <1>2 DEF BudgetInv, NoReq, Req, TypeOK, ReqsType
<1>3. ASSUME NEW q \in Requests, CreateWrite(q)
      PROVE  BudgetInv'
  <2> DEFINE s == reqs[q].sched
  <2>1. /\ s \in Schedules /\ db[s].status = "absent" /\ app = "up"
        /\ \A p \in Requests : reqs'[p].kind # "idle" => app' = "up"
    BY <1>2, <1>3 DEF CreateWrite, TypeOK, ReqsType, RequestsInv, CreatesFresh
  <2>2. UNCHANGED <<claims, rearms, crashes, app>> /\ \E S \in SUBSET Schedules : StartRuns(S)
    BY <1>3, <2>1 DEF CreateWrite, CreateScheduleJobs, bounds
  <2>3. ASSUME NEW u \in Schedules
        PROVE  Budgeted(u)' /\ (ClaimRun(u)' => db'[u].status # "absent")
    <3>1. ClaimRun(u)' <=> ClaimRun(u)
      BY <2>2, StartChoosesNone
    <3>2. CASE u = s
      <4>1. db'[s].status = "pending" /\ ~ClaimRun(s) /\ Budgeted(s)
        BY <1>3, <2>1 DEF CreateWrite, TypeOK, DbType, BudgetInv
      <4> QED
        BY <2>1, <2>2, <3>1, <3>2, <4>1 DEF Budgeted, Chances, Waits
    <3>3. CASE u # s
      <4>1. db'[u] = db[u]
        BY <1>3, <3>3 DEF CreateWrite, TypeOK, DbType
      <4> QED
        BY <2>2, <3>1, <4>1, NoFurtherChance DEF BudgetInv, Waits
    <3> QED
      BY <3>2, <3>3
  <2> QED
    BY <2>1, <2>3 DEF BudgetInv
<1>4. ASSUME NEW q \in Requests, UpdateWrite(q)
      PROVE  BudgetInv'
  <2> DEFINE s == reqs[q].sched
  <2>1. /\ s \in Schedules /\ app = "up"
        /\ \A p \in Requests : reqs'[p].kind # "idle" => app' = "up"
    BY <1>2, <1>4 DEF UpdateWrite, TypeOK, ReqsType
  <2>2. /\ UNCHANGED <<claims, crashes, app>>
        /\ runs' = runs \/ \E S \in SUBSET Schedules : StartRuns(S)
    BY <1>4, <2>1 DEF UpdateWrite, CreateScheduleJobs, bounds
  <2>3. ASSUME NEW u \in Schedules
        PROVE  Budgeted(u)' /\ (ClaimRun(u)' => db'[u].status # "absent")
    <3>1. (ClaimRun(u)' <=> ClaimRun(u)) /\ Budgeted(u) /\ (ClaimRun(u) => db[u].status # "absent")
      BY <2>2, StartChoosesNone DEF BudgetInv
    <3>2. CASE u = s /\ Exists(s)
      <4>1. db'[u].status = IF reqs[q].status = NoStatus THEN db[u].status ELSE reqs[q].status
        BY <1>4, <2>1, <3>2 DEF UpdateWrite, TypeOK, DbType, Docs
      <4>2. rearms'[u] = IF reqs[q].status = "pending" THEN rearms[u] + 1 ELSE rearms[u]
        BY <1>4, <2>1, <3>2 DEF UpdateWrite, TypeOK, HistoryType
      <4>3. db[u].status # "absent" /\ db'[u].status # "absent"
        BY <2>1, <3>2, <4>1, ConstantsAssumption
           DEF Exists, Statuses, TypeOK, ReqsType, NoStatus
      <4>4. claims[u] \in Nat /\ rearms[u] \in Nat /\ crashes \in Nat
        BY <2>1 DEF TypeOK, HistoryType, BoundsType
      <4>5. Chances(u)' \in {0, 1} /\ Chances(u) \in {0, 1}
        BY <2>1, <2>2 DEF Chances
      <4>6. (ClaimRun(u)' <=> ClaimRun(u)) /\ Budgeted(u) /\ app = "up" /\ app' = "up"
        BY <2>1, <2>2, <3>1, <3>2
      <4>7. CASE reqs[q].status = "pending"
        <5>1. rearms'[u] = rearms[u] + 1
          BY <4>2, <4>7
        <5>2. claims'[u] = claims[u] /\ crashes' = crashes
          BY <2>2
        <5>3. Budgeted(u)'
          BY <4>4, <4>5, <4>6, <5>1, <5>2 DEF Budgeted
        <5> QED
          BY <3>2, <4>3, <5>3
      <4>8. CASE reqs[q].status # "pending"
        <5>1. Waits(u)' => Waits(u)
          BY <4>1, <4>6, <4>8 DEF Waits
        <5>2. Chances(u)' <= Chances(u)
          BY <4>3, <4>5, <4>6, <5>1 DEF Chances
        <5>3. claims'[u] = claims[u] /\ crashes' = crashes /\ rearms'[u] = rearms[u]
          BY <2>2, <4>2, <4>8
        <5>4. Budgeted(u)'
          BY <4>4, <4>5, <4>6, <5>2, <5>3 DEF Budgeted
        <5> QED
          BY <3>2, <4>3, <5>4
      <4> QED
        BY <4>7, <4>8
    <3>3. CASE ~(u = s /\ Exists(s))
      <4>1. db'[u] = db[u] /\ rearms'[u] = rearms[u]
        BY <1>4, <2>1, <3>3 DEF UpdateWrite, TypeOK, DbType, HistoryType
      <4> QED
        BY <2>2, <3>1, <4>1, NoFurtherChance DEF Waits
    <3> QED
      BY <3>2, <3>3
  <2> QED
    BY <2>1, <2>3 DEF BudgetInv
<1>5. ASSUME NEW q \in Requests, RemoveOrCancelWrite(q)
      PROVE  BudgetInv'
  <2>1. /\ reqs[q].sched \in Schedules
        /\ \A p \in Requests : reqs'[p].kind # "idle" => app' = "up"
    BY <1>2, <1>5 DEF RemoveOrCancelWrite, TypeOK, ReqsType
  <2>2. UNCHANGED <<claims, rearms, crashes, app, runs>>
    BY <1>5 DEF RemoveOrCancelWrite, bounds, history
  <2>3. ASSUME NEW u \in Schedules
        PROVE  Budgeted(u)' /\ (ClaimRun(u)' => db'[u].status # "absent")
    <3>1. db'[u].status \in Final \cup {db[u].status}
      BY <1>5, <2>1 DEF RemoveOrCancelWrite, WriteStatus, TypeOK, DbType, Docs, Final
    <3> QED
      BY <2>2, <3>1, StartChoosesNone, NoFurtherChance DEF BudgetInv, Waits
  <2> QED
    BY <2>1, <2>3 DEF BudgetInv
<1> QED
  BY <1>1, <1>3, <1>4, <1>5 DEF HandleRequest

\* A run: choosing a pending schedule leaves its chance open, claiming it spends it, and
\* with runs that never overlap no other run has chosen it too.
LEMMA RunsBudget ==
    ASSUME TypeOK, RunsExclusive, BudgetInv, ProcessSchedule
    PROVE  BudgetInv'
<1>1. PICK s \in Schedules, k \in Slots : RunStep(s, k) \/ RunFault(s, k)
  BY DEF ProcessSchedule
<1>2. (\E run : Step(s, k, run)) \/ EndRun(s, k)
  BY <1>1 DEF RunStep, RunRead, RunClaim, RunAccount, RunSend, RunFinish, RunCatch, RunFault
<1>3. UNCHANGED <<app, reqs, crashes, rearms>>
  BY <1>1 DEF RunStep, RunRead, RunClaim, RunAccount, RunSend, RunFinish, RunCatch, RunFault,
              Step, EndRun, history
<1>4. \A u \in Schedules, l \in Slots : u # s \/ l # k => runs'[u][l] = runs[u][l]
  <2>1. PICK run : runs' = [runs EXCEPT ![s][k] = run]
    BY <1>2 DEF Step, EndRun
  <2> QED
    BY <2>1 DEF TypeOK, RunsType
<1>6. runs'[s][k].pc = "claim" => db[s].status = "pending" /\ ~RunClaim(s, k)
  <2>1. CASE RunRead(s, k)
    BY <2>1 DEF RunRead, RunClaim, EndRun, NoRun, Run, TypeOK, RunsType
  <2>2. CASE RunClaim(s, k)
    <3>1. runs'[s][k].pc = "account"
      BY <2>2 DEF RunClaim, Step, Run, TypeOK, RunsType
    <3> QED
      BY <3>1
  <2>3. CASE RunAccount(s, k)
    <3>1. runs'[s][k].pc \in {"send", "catch"}
      BY <2>3 DEF RunAccount, Step, Run, TypeOK, RunsType
    <3> QED
      BY <3>1
  <2>4. CASE RunSend(s, k)
    <3>1. runs'[s][k].pc \in {"send", "finish"}
      BY <2>4 DEF RunSend, Step, Run, TypeOK, RunsType
    <3> QED
      BY <3>1
  <2>5. CASE RunFinish(s, k) \/ RunCatch(s, k)
    <3>1. runs'[s][k].pc = "idle"
      BY <2>5 DEF RunFinish, RunCatch, EndRun, NoRun, Run, TypeOK, RunsType
    <3> QED
      BY <3>1
  <2>6. CASE RunFault(s, k)
    <3>1. runs'[s][k].pc \in {"idle", "catch"}
      BY <2>6 DEF RunFault, Step, EndRun, NoRun, Run, TypeOK, RunsType
    <3> QED
      BY <3>1
  <2> QED
    BY <1>1, <2>1, <2>2, <2>3, <2>4, <2>5, <2>6 DEF RunStep
<1>5. ASSUME NEW u \in Schedules
      PROVE  Budgeted(u)' /\ (ClaimRun(u)' => db'[u].status # "absent")
  <2>1. Budgeted(u) /\ (ClaimRun(u) => db[u].status # "absent")
    BY DEF BudgetInv
  <2>2. CASE ~(RunClaim(s, k) /\ u = s)
    <3>1. claims'[u] = claims[u]
      BY <1>1, <2>2 DEF RunStep, RunRead, RunClaim, RunAccount, RunSend, RunFinish, RunCatch,
                        RunFault, history, TypeOK, HistoryType
    <3>2. db'[u].status \in Final \cup {db[u].status}
      <4>1. CASE RunClaim(s, k)
        BY <2>2, <4>1 DEF RunClaim, WriteStatus, TypeOK, DbType
      <4>2. CASE RunFinish(s, k) \/ RunCatch(s, k)
        BY <4>2 DEF RunFinish, RunCatch, WriteStatus, TypeOK, DbType, Docs, Final
      <4>3. CASE RunRead(s, k) \/ RunAccount(s, k) \/ RunSend(s, k) \/ RunFault(s, k)
        BY <4>3 DEF RunRead, RunAccount, RunSend, RunFault
      <4> QED
        BY <1>1, <4>1, <4>2, <4>3 DEF RunStep
    <3>3. ClaimRun(u)' => Waits(u)
      BY <1>4, <1>6 DEF ClaimRun, Waits
    <3> QED
      BY <1>3, <2>1, <3>1, <3>2, <3>3, NoFurtherChance
  <2>3. CASE RunClaim(s, k) /\ u = s
    <3>1. ClaimRun(s) /\ db[s].status # "absent"
      BY <2>1, <2>3 DEF RunClaim, ClaimRun
    <3>2. ~ClaimRun(s)'
      <4>1. \A l \in Slots \ {k} : runs[s][l].pc = "idle"
        BY <2>3 DEF RunClaim, RunsExclusive, Active
      <4> QED
        BY <1>4, <1>6, <2>3, <4>1 DEF ClaimRun
    <3>3. db'[s].status \in {"processing", "deleted"}
      BY <2>3, <3>1 DEF RunClaim, WriteStatus, Exists, TypeOK, DbType, Docs
    <3>4. claims'[s] = claims[s] + 1
      BY <2>3 DEF RunClaim, TypeOK, HistoryType
    <3>5. claims[s] \in Nat /\ rearms[s] \in Nat /\ crashes \in Nat
      BY DEF TypeOK, HistoryType, BoundsType
    <3>6. /\ Chances(s) \in {1, 2} /\ Chances(s)' \in {0, 1}
          /\ Chances(s)' + 1 <= Chances(s)
      BY <1>3, <3>1, <3>2, <3>3 DEF Chances, Waits
    <3> QED
      BY <1>3, <2>1, <2>3, <3>2, <3>4, <3>5, <3>6 DEF Budgeted
  <2> QED
    BY <2>2, <2>3
<1> QED
  BY <1>3, <1>5 DEF BudgetInv

\* The process: a crash pays for the claim it may have interrupted.
LEMMA LifeCycleBudget ==
    ASSUME TypeOK, BudgetInv, Crash \/ InitReset \/ InitFault
    PROVE  BudgetInv'
<1>1. ASSUME NEW s \in Schedules
      PROVE  claims[s] \in Nat /\ rearms[s] \in Nat /\ crashes \in Nat /\ Budgeted(s)
  BY DEF TypeOK, HistoryType, BoundsType, BudgetInv
<1>2. CASE Crash
  <2>1. \A s \in Schedules : ~ClaimRun(s)'
    BY <1>2 DEF Crash, ClaimRun, NoRun, Run
  <2>2. UNCHANGED <<db, claims, rearms>> /\ crashes' = crashes + 1 /\ app' = "down"
    BY <1>2 DEF Crash, history
  <2>3. ASSUME NEW s \in Schedules
        PROVE  Budgeted(s)'
    <3>1. Chances(s) \in {0, 1, 2} /\ Chances(s)' \in {0, 1, 2} /\ Chances(s)' <= Chances(s) + 1
      BY <2>1, <2>2 DEF Chances, Waits
    <3> QED
      BY <1>1, <2>2, <3>1 DEF Budgeted
  <2>4. \A q \in Requests : reqs'[q].kind = "idle"
    BY <1>2 DEF Crash, NoReq, Req
  <2> QED
    BY <2>1, <2>3, <2>4 DEF BudgetInv
<1>3. CASE InitReset
  <2>1. /\ UNCHANGED <<runs, claims, rearms, crashes>> /\ app = "loaded" /\ app' = "up"
        /\ \A s \in Schedules : db'[s].status = IF db[s].status = "processing" THEN "pending"
                                                ELSE db[s].status
    BY <1>3 DEF InitReset, bounds, TypeOK, DbType, Docs
  <2>2. ASSUME NEW s \in Schedules
        PROVE  Budgeted(s)' /\ (ClaimRun(s)' => db'[s].status # "absent")
    <3>1. ClaimRun(s)' <=> ClaimRun(s)
      BY <2>1 DEF ClaimRun
    <3>2. Chances(s) \in {0, 1, 2} /\ Chances(s)' \in {0, 1} /\ Chances(s)' <= Chances(s)
      BY <2>1, <3>1 DEF Chances, Waits
    <3> QED
      BY <1>1, <2>1, <3>1, <3>2 DEF Budgeted, BudgetInv
  <2> QED
    BY <2>1, <2>2 DEF BudgetInv
<1>4. CASE InitFault
  <2>1. UNCHANGED <<db, runs, claims, rearms, crashes>> /\ app # "up" /\ app' = "up"
    BY <1>4 DEF InitFault
  <2>2. ASSUME NEW s \in Schedules
        PROVE  Budgeted(s)' /\ (ClaimRun(s)' => db'[s].status # "absent")
    <3>1. ClaimRun(s)' <=> ClaimRun(s)
      BY <2>1 DEF ClaimRun
    <3>2. Chances(s) \in {0, 1, 2} /\ Chances(s)' \in {0, 1} /\ Chances(s)' <= Chances(s)
      BY <2>1, <3>1 DEF Chances, Waits
    <3> QED
      BY <1>1, <2>1, <3>1, <3>2 DEF Budgeted, BudgetInv
  <2> QED
    BY <2>1, <2>2 DEF BudgetInv
<1> QED
  BY <1>2, <1>3, <1>4

\* Whatever cancels, removes, reschedules or fails between a run's check and its claim,
\* a schedule is claimed for sending once, plus once for every crash and every PATCH
\* back to pending.
THEOREM ClaimsWithinBudget == Spec => []ClaimBudget
<1>1. Init => BudgetInv
  BY DEF Init, BudgetInv, Budgeted, Chances, Waits, ClaimRun, Absent, NoRun, Run, NoReq, Req
<1>2. TypeOK /\ RunsExclusive /\ RequestsInv /\ BudgetInv /\ [Next]_vars => BudgetInv'
  <2> SUFFICES ASSUME TypeOK, RunsExclusive, RequestsInv, BudgetInv, [Next]_vars
               PROVE  BudgetInv'
    OBVIOUS
  <2>1. \A q \in Requests : reqs[q].kind # "idle" => app = "up"
    BY DEF BudgetInv
  <2>2. ASSUME NEW t \in timers, FireTimer(t)
        PROVE  BudgetInv'
    <3>1. {t.sched} \in SUBSET Schedules
      BY DEF TypeOK, TimersType
    <3> QED
      BY <2>1, <2>2, <3>1, QuietBudget DEF FireTimer, bounds, history
  <2>3. CASE CronStart
    BY <2>1, <2>3, QuietBudget DEF CronStart, bounds, history, TypeOK, RunsType
  <2>4. CASE CronFind \/ Tick \/ UNCHANGED vars
    BY <2>1, <2>4, QuietBudget DEF CronFind, Tick, vars, memory, bounds, history
  <2>5. CASE InitFind
    <3>1. UNCHANGED <<claims, rearms, crashes, db, reqs>> /\ app = "down" /\ app' = "loaded"
      BY <2>5 DEF InitFind, bounds, history
    <3>2. \E S \in SUBSET Schedules : StartRuns(S)
      BY <2>5 DEF InitFind, CreateScheduleJobs
    <3>3. ASSUME NEW s \in Schedules
          PROVE  Budgeted(s)' /\ (ClaimRun(s)' => db'[s].status # "absent")
      BY <3>1, <3>2, StartChoosesNone DEF BudgetInv, Budgeted, Chances, Waits
    <3> QED
      BY <2>1, <3>1, <3>3 DEF BudgetInv
  <2> QED
    BY <2>2, <2>3, <2>4, <2>5, RequestsBudget, RunsBudget, LifeCycleBudget DEF Next
<1>3. TypeOK /\ BudgetInv => ClaimBudget
  <2> SUFFICES ASSUME TypeOK, BudgetInv, NEW s \in Schedules
               PROVE  claims[s] <= 1 + crashes + rearms[s]
    BY DEF ClaimBudget
  <2>1. claims[s] \in Nat /\ rearms[s] \in Nat /\ crashes \in Nat
    BY DEF TypeOK, HistoryType, BoundsType
  <2>2. Chances(s) \in {0, 1, 2}
    BY DEF Chances
  <2> QED
    BY <2>1, <2>2 DEF BudgetInv, Budgeted
<1>4. Spec => []RequestsInv
  <2>1. TypeOK /\ RequestsInv /\ [Next]_vars => RequestsInv'
    BY RequestsKept
  <2> QED
    BY <2>1, RequestsStart, TypeCorrect, PTL DEF Spec
<1> QED
  BY <1>1, <1>2, <1>3, <1>4, TypeCorrect, Exclusive, PTL DEF Spec

-----------------------------------------------------------------------------
(* No run before its time *)

\* Every delay fits setTimeout.
InRange == MaxTime <= MaxTimeout

\* Then a timer fires at the scheduled time.
LEMMA FiresAtDue ==
    ASSUME InRange, BoundsType, NEW t \in Times
    PROVE  FireTime(t) = t
  BY ConstantsAssumption DEF InRange, FireTime, BoundsType, Times

\* Whatever may start a run is not before the first time of its schedule: the stored
\* time, the timers, the result of the sweep; and so are the runs.
DueInv ==
    /\ \A s \in Schedules : Exists(s) => firstDue[s] <= db[s].due
    /\ \A t \in timers : firstDue[t.sched] <= t.at
    /\ \A s \in sweep : firstDue[s] <= now
    /\ \A s \in Schedules, k \in Slots : Active(s, k) => firstDue[s] <= now

\* A run that is active after StartRuns was so before, or its schedule was to start.
LEMMA StartRunsActive ==
    ASSUME RunsType, NEW S \in SUBSET Schedules, StartRuns(S), NEW s \in Schedules,
           NEW k \in Slots, Active(s, k)'
    PROVE  Active(s, k) \/ s \in S
<1>1. s \notin S => runs'[s] = runs[s]
  BY DEF StartRuns
<1> QED
  BY <1>1 DEF Active

\* Jobs are created with a time that is noted.
LEMMA JobsDue ==
    ASSUME InRange, TypeOK, DueInv, NEW S \in SUBSET Schedules, NEW due,
           \A s \in S : due[s] \in Times, CreateScheduleJobs(S, due), now' = now
    PROVE  /\ \A s \in Schedules : firstDue'[s] <= firstDue[s]
           /\ \A s \in S : firstDue'[s] <= due[s]
           /\ \A t \in timers' : firstDue'[t.sched] <= t.at
           /\ \A s \in Schedules, k \in Slots : Active(s, k)' => firstDue'[s] <= now'
<1> DEFINE future == {s \in S : due[s] > now}
<1>1. \A s \in S : due[s] \in Nat /\ FireTime(due[s]) = due[s]
  BY FiresAtDue DEF TypeOK, Times
<1>2. \A s \in Schedules :
        firstDue'[s] = IF s \in S /\ due[s] < firstDue[s] THEN due[s] ELSE firstDue[s]
  BY DEF CreateScheduleJobs
<1>3. \A s \in Schedules : firstDue[s] \in Nat
  BY ConstantsAssumption DEF TypeOK, HistoryType
<1>4. \A s \in Schedules : firstDue'[s] <= firstDue[s] /\ firstDue'[s] \in Nat
  BY <1>1, <1>2, <1>3
<1>5. \A s \in S : firstDue'[s] <= due[s]
  BY <1>1, <1>2, <1>3
<1>6. ASSUME NEW t \in timers'
      PROVE  firstDue'[t.sched] <= t.at
  <2>1. CASE t \in timers
    <3>1. t.sched \in Schedules /\ t.at \in Nat /\ firstDue[t.sched] <= t.at
      BY <2>1 DEF TypeOK, TimersType, Times, DueInv
    <3> QED
      BY <1>3, <1>4, <3>1
  <2>2. CASE t \notin timers
    <3>1. PICK s \in S : t = [sched |-> s, at |-> FireTime(due[s]), registered |-> s \notin registry]
      BY <2>2 DEF CreateScheduleJobs
    <3>2. t.sched = s /\ t.at = FireTime(due[s])
      BY <3>1
    <3> QED
      BY <1>1, <1>5, <3>2
  <2> QED
    BY <2>1, <2>2
<1>7. now \in Nat
  BY DEF TypeOK, BoundsType, Times
<1>8. ASSUME NEW s \in Schedules, NEW k \in Slots, Active(s, k)'
      PROVE  firstDue'[s] <= now
  <2>1. StartRuns(S \ future)
    BY DEF CreateScheduleJobs
  <2>2. CASE Active(s, k)
    BY <1>3, <1>4, <1>7, <2>2 DEF DueInv
  <2>3. CASE s \in S \ future
    BY <1>1, <1>4, <1>5, <1>7, <2>3
  <2> QED
    BY <1>8, <2>1, <2>2, <2>3, StartRunsActive DEF TypeOK
<1> QED
  BY <1>4, <1>5, <1>6, <1>8

\* The common part of the steps that arm and start nothing.
LEMMA KeepDue ==
    ASSUME TypeOK, DueInv, firstDue' = firstDue, now' = now \/ now' = now + 1,
           \A s \in Schedules : Exists(s)' => Exists(s) /\ db'[s].due = db[s].due,
           timers' \subseteq timers, sweep' \subseteq sweep \cup PendingDue,
           \A s \in Schedules, k \in Slots :
             Active(s, k)' => Active(s, k) \/ s \in sweep
                                \/ \E t \in timers : t.sched = s /\ t.at <= now
    PROVE  DueInv'
<1>1. /\ now \in Nat /\ now <= now' /\ now' \in Nat
      /\ \A s \in Schedules : firstDue[s] \in Nat /\ db[s].due \in Nat
      /\ sweep \subseteq Schedules
      /\ \A t \in timers : t.sched \in Schedules /\ t.at \in Nat
  BY ConstantsAssumption DEF TypeOK, BoundsType, Times, HistoryType, DbType, Docs, RunsType, TimersType
<1>2. \A s \in PendingDue : s \in Schedules /\ firstDue[s] <= now
  BY <1>1 DEF DueInv, PendingDue, Overdue, Exists, Statuses
<1>3. \A s \in sweep' : firstDue'[s] <= now'
  BY <1>1, <1>2 DEF DueInv, PendingDue
<1>4. ASSUME NEW s \in Schedules, NEW k \in Slots, Active(s, k)'
      PROVE  firstDue'[s] <= now'
  <2>1. firstDue[s] <= now
    BY <1>1, <1>4 DEF DueInv
  <2> QED
    BY <1>1, <2>1
<1>5. \A s \in Schedules : Exists(s)' => firstDue'[s] <= db'[s].due
  BY DEF DueInv
<1> QED
  BY <1>3, <1>4, <1>5 DEF DueInv

LEMMA RequestsDue ==
    ASSUME InRange, TypeOK, TypeOK', DueInv, HandleRequest
    PROVE  DueInv'
<1>1. ASSUME NEW q \in Requests, NEW s \in Schedules,
             CreateRequest(q, s) \/ UpdateRequest(q, s) \/ RemoveRequest(q, s) \/ CancelRequest(q, s)
      PROVE  DueInv'
  <2>1. \/ UNCHANGED <<timers, registry>>
        \/ DeleteTimeout(s)
    BY <1>1 DEF CreateRequest, UpdateRequest, RemoveRequest, CancelRequest
  <2>2. UNCHANGED <<db, runs, sweep, now, firstDue>>
    BY <1>1 DEF CreateRequest, UpdateRequest, RemoveRequest, CancelRequest, Accept, history
  <2> QED
    BY <2>1, <2>2, KeepDue DEF DeleteTimeout, Exists, Active
<1>2. ASSUME NEW q \in Requests, NEW S \in SUBSET {reqs[q].sched},
             reqs[q].sched \in Schedules, reqs[q].due \in Times,
             CreateScheduleJobs(S, [u \in {reqs[q].sched} |-> reqs[q].due]),
             UNCHANGED <<sweep, now>>,
             \A u \in Schedules : Exists(u)' =>
               \/ Exists(u) /\ db'[u].due = db[u].due
               \/ u \in S /\ db'[u].due = reqs[q].due
      PROVE  DueInv'
  <2> DEFINE due == [u \in {reqs[q].sched} |-> reqs[q].due]
  <2>1. S \in SUBSET Schedules /\ \A u \in S : due[u] \in Times /\ due[u] = reqs[q].due
    BY <1>2
  <2>2. CreateScheduleJobs(S, due)
    BY <1>2
  <2> HIDE DEF due
  <2>3. /\ \A u \in Schedules : firstDue'[u] <= firstDue[u]
        /\ \A u \in S : firstDue'[u] <= due[u]
        /\ \A t \in timers' : firstDue'[t.sched] <= t.at
        /\ \A u \in Schedules, k \in Slots : Active(u, k)' => firstDue'[u] <= now'
    BY <1>2, <2>1, <2>2, JobsDue
  <2>4. /\ \A u \in Schedules : firstDue[u] \in Nat /\ firstDue'[u] \in Nat /\ db[u].due \in Nat
        /\ sweep \subseteq Schedules /\ now \in Nat
    BY ConstantsAssumption DEF TypeOK, BoundsType, Times, HistoryType, DbType, Docs, RunsType
  <2>5. \A u \in Schedules : Exists(u)' => firstDue'[u] <= db'[u].due
    <3> SUFFICES ASSUME NEW u \in Schedules, Exists(u)'
                 PROVE  firstDue'[u] <= db'[u].due
      OBVIOUS
    <3>1. CASE Exists(u) /\ db'[u].due = db[u].due
      <4>1. firstDue[u] <= db[u].due
        BY <3>1 DEF DueInv
      <4> QED
        BY <2>3, <2>4, <3>1, <4>1
    <3>2. CASE u \in S /\ db'[u].due = reqs[q].due
      BY <2>1, <2>3, <3>2
    <3> QED
      BY <1>2, <3>1, <3>2
  <2>6. \A u \in sweep' : firstDue'[u] <= now'
    BY <1>2, <2>3, <2>4 DEF DueInv
  <2> QED
    BY <2>3, <2>5, <2>6 DEF DueInv
<1>3. ASSUME NEW q \in Requests, CreateWrite(q)
      PROVE  DueInv'
  <2>1. reqs[q].sched \in Schedules /\ reqs[q].due \in Times
    BY <1>3 DEF CreateWrite, TypeOK, ReqsType
  <2>2. \A u \in Schedules : IF u = reqs[q].sched THEN db'[u].due = reqs[q].due ELSE db'[u] = db[u]
    BY <1>3, <2>1 DEF CreateWrite, TypeOK, DbType
  <2> QED
    BY <1>2, <1>3, <2>1, <2>2 DEF CreateWrite, Exists, bounds
<1>4. ASSUME NEW q \in Requests, UpdateWrite(q)
      PROVE  DueInv'
  <2> DEFINE s == reqs[q].sched
             S == IF reqs[q].due = NoTime THEN {} ELSE {s}
  <2>1. s \in Schedules /\ reqs[q].due \in Times /\ S \in SUBSET {s} /\ UNCHANGED <<sweep, now>>
    BY <1>4 DEF UpdateWrite, TypeOK, ReqsType, bounds
  <2>2. CASE Exists(s)
    <3>1. CreateScheduleJobs(S, [u \in {s} |-> reqs[q].due])
      BY <1>4, <2>2 DEF UpdateWrite
    <3>2. \A u \in Schedules :
            /\ u # s => db'[u] = db[u]
            /\ u = s => db'[u].due = IF reqs[q].due = NoTime THEN db[u].due ELSE reqs[q].due
      BY <1>4, <2>1, <2>2 DEF UpdateWrite, TypeOK, DbType, Docs
    <3>3. \A u \in Schedules : Exists(u)' =>
            \/ Exists(u) /\ db'[u].due = db[u].due
            \/ u \in S /\ db'[u].due = reqs[q].due
      BY <2>2, <3>2 DEF Exists
    <3> QED
      BY <1>2, <2>1, <3>1, <3>3
  <2>3. CASE ~Exists(s)
    BY <1>4, <2>1, <2>3, KeepDue DEF UpdateWrite, Exists, Active
  <2> QED
    BY <2>2, <2>3
<1>5. ASSUME NEW q \in Requests, RemoveOrCancelWrite(q)
      PROVE  DueInv'
  <2>1. reqs[q].sched \in Schedules
    BY <1>5 DEF RemoveOrCancelWrite, TypeOK, ReqsType
  <2>2. \A u \in Schedules : Exists(u)' => Exists(u) /\ db'[u].due = db[u].due
    BY <1>5, <2>1 DEF RemoveOrCancelWrite, WriteStatus, Exists, TypeOK, DbType, Docs
  <2> QED
    BY <1>5, <2>2, KeepDue DEF RemoveOrCancelWrite, bounds, history, Active
<1> QED
  BY <1>1, <1>3, <1>4, <1>5 DEF HandleRequest

LEMMA NextDue ==
    ASSUME InRange, TypeOK, TypeOK', DueInv, [Next]_vars
    PROVE  DueInv'
<1>1. ASSUME NEW t \in timers, FireTimer(t)
      PROVE  DueInv'
  <2>1. t.sched \in Schedules /\ StartRuns({t.sched}) /\ t.at <= now /\ RunsType
    BY <1>1 DEF FireTimer, TypeOK, TimersType
  <2>2. \A s \in Schedules, k \in Slots : Active(s, k)' => Active(s, k) \/ s = t.sched
    BY <2>1, StartRunsActive
  <2> QED
    BY <1>1, <2>1, <2>2, KeepDue DEF FireTimer, bounds, history, Exists
<1>2. CASE CronFind
  BY <1>2, KeepDue DEF CronFind, bounds, history, Exists, Active
<1>3. CASE CronStart
  <2>1. sweep \in SUBSET Schedules /\ StartRuns(sweep) /\ RunsType
    BY <1>3 DEF CronStart, TypeOK, RunsType
  <2>2. \A s \in Schedules, k \in Slots : Active(s, k)' => Active(s, k) \/ s \in sweep
    BY <2>1, StartRunsActive
  <2> QED
    BY <1>3, <2>2, KeepDue DEF CronStart, bounds, history, Exists
<1>4. ASSUME NEW s \in Schedules, NEW k \in Slots, RunStep(s, k) \/ RunFault(s, k)
      PROVE  DueInv'
  <2>1. /\ Active(s, k) /\ UNCHANGED <<timers, sweep, now, firstDue>>
        /\ \E run : runs' = [runs EXCEPT ![s][k] = run]
    BY <1>4 DEF RunStep, RunRead, RunClaim, RunAccount, RunSend, RunFinish, RunCatch, RunFault,
                Step, EndRun, history, Active
  <2>2. \A u \in Schedules, l \in Slots : Active(u, l)' => Active(u, l)
    BY <2>1 DEF TypeOK, RunsType, Active
  <2>3. db' = db \/ \E st \in Statuses : db' = WriteStatus(s, st)
    BY <1>4 DEF RunStep, RunRead, RunClaim, RunAccount, RunSend, RunFinish, RunCatch, RunFault,
                Statuses
  <2>4. \A u \in Schedules : Exists(u)' => Exists(u) /\ db'[u].due = db[u].due
    BY <2>3 DEF WriteStatus, Exists, TypeOK, DbType, Docs
  <2> QED
    BY <2>1, <2>2, <2>4, KeepDue
<1>5. CASE Crash
  <2>1. \A s \in Schedules, k \in Slots : ~Active(s, k)'
    BY <1>5 DEF Crash, Active, NoRun, Run
  <2> QED
    BY <1>5, <2>1, KeepDue DEF Crash, history, Exists
<1>6. CASE InitFind
  <2> DEFINE S   == {s \in Schedules : db[s].status = "pending"}
             due == [s \in Schedules |-> db[s].due]
  <2>1. S \in SUBSET Schedules /\ \A s \in S : due[s] \in Times
    BY DEF TypeOK, DbType, Docs
  <2>2. CreateScheduleJobs(S, due) /\ UNCHANGED <<db, sweep, now>>
    BY <1>6 DEF InitFind, bounds
  <2> HIDE DEF S, due
  <2>3. /\ \A u \in Schedules : firstDue'[u] <= firstDue[u]
        /\ \A t \in timers' : firstDue'[t.sched] <= t.at
        /\ \A u \in Schedules, k \in Slots : Active(u, k)' => firstDue'[u] <= now'
    BY <2>1, <2>2, JobsDue
  <2>4. /\ \A u \in Schedules : firstDue[u] \in Nat /\ firstDue'[u] \in Nat /\ db[u].due \in Nat
        /\ sweep \subseteq Schedules /\ now \in Nat
    BY ConstantsAssumption DEF TypeOK, BoundsType, Times, HistoryType, DbType, Docs, RunsType
  <2>5. ASSUME NEW u \in Schedules, Exists(u)'
        PROVE  firstDue'[u] <= db'[u].due
    <3>1. firstDue[u] <= db[u].due
      BY <2>2, <2>5 DEF DueInv, Exists
    <3> QED
      BY <2>2, <2>3, <2>4, <3>1
  <2>6. \A u \in sweep' : firstDue'[u] <= now'
    BY <2>2, <2>3, <2>4 DEF DueInv
  <2> QED
    BY <2>3, <2>5, <2>6 DEF DueInv
<1>7. CASE InitReset
  <2>1. \A u \in Schedules : Exists(u)' => Exists(u) /\ db'[u].due = db[u].due
    BY <1>7 DEF InitReset, Exists, Statuses, TypeOK, DbType, Docs
  <2> QED
    BY <1>7, <2>1, KeepDue DEF InitReset, bounds, Active
<1>8. CASE InitFault \/ Tick \/ UNCHANGED vars
  BY <1>8, KeepDue DEF InitFault, Tick, vars, memory, bounds, history, Exists, Active
<1> QED
  BY <1>1, <1>2, <1>3, <1>4, <1>5, <1>6, <1>7, <1>8, RequestsDue DEF Next, ProcessSchedule

\* Whatever timers, sweeps, PATCHes and restarts start it, a schedule is not executed
\* before the earliest time it was ever set to, as long as every delay fits setTimeout
\* (scheduling.service.ts:83).
THEOREM NeverEarly ==
    ASSUME MaxTime <= MaxTimeout
    PROVE  Spec => []NotBeforeFirstDue
<1>1. Init => DueInv
  BY DEF Init, DueInv, Exists, Statuses, Absent, Active, NoRun, Run
<1>2. TypeOK /\ TypeOK' /\ DueInv /\ [Next]_vars => DueInv'
  BY NextDue DEF InRange
<1>3. DueInv => NotBeforeFirstDue
  BY DEF DueInv, NotBeforeFirstDue, Working, Active
<1> QED
  BY <1>1, <1>2, <1>3, TypeCorrect, PTL DEF Spec
=============================================================================
