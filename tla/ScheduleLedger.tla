--------------------------- MODULE ScheduleLedger ---------------------------
(***************************************************************************)
(* What SchedulingService promises of each schedule, whatever timers, cron *)
(* sweeps and restarts make it start: one execution at a time, which finds *)
(* the schedule pending before it takes it, and is the only one to settle  *)
(* it.  Scheduling implements this specification.                          *)
(***************************************************************************)
CONSTANTS
    Schedules,
    PatchStatuses  \* what clients may set a status to

VARIABLES
    status,    \* the stored status, "absent" before and "deleted" after
    stage,     \* the execution: "none", "chosen", "held" or "failing"
    up,        \* whether the process has dealt with the interrupted schedules
    unminded   \* schedules that may stay in "processing" with no execution

vars == <<status, stage, up, unminded>>

Stored(s) == status[s] \notin {"absent", "deleted"}

\* Everything but a creation passes over a schedule that is not stored.
Put(s, st) == status' = IF Stored(s) THEN [status EXCEPT ![s] = st] ELSE status
Move(s, g) == stage' = [stage EXCEPT ![s] = g]

-----------------------------------------------------------------------------
(* The owner *)

Create(s) ==
    /\ status[s] = "absent"
    /\ status' = [status EXCEPT ![s] = "pending"]
    /\ UNCHANGED <<stage, up, unminded>>

\* An edit may name any of the client's statuses, at any moment.
Edit(s, st) ==
    /\ Put(s, st)
    /\ unminded' = IF st = "processing" THEN unminded \cup {s} ELSE unminded
    /\ UNCHANGED <<stage, up>>

Withdraw(s) ==
    /\ Put(s, "deleted") \/ Put(s, "cancelled")
    /\ UNCHANGED <<stage, up, unminded>>

-----------------------------------------------------------------------------
(* The execution *)

Choose(s) ==
    /\ stage[s] = "none" /\ status[s] = "pending"
    /\ Move(s, "chosen")
    /\ UNCHANGED <<status, up, unminded>>

Claim(s) ==
    /\ stage[s] = "chosen"
    /\ Put(s, "processing") /\ Move(s, "held")
    /\ UNCHANGED <<up, unminded>>

\* Something goes wrong, at the latest when the execution would settle the schedule.
Break(s) ==
    /\ stage[s] # "failing"
    /\ Move(s, "failing")
    /\ UNCHANGED <<status, up, unminded>>

Settle(s) ==
    /\ \/ stage[s] = "held" /\ Put(s, "completed")
       \/ stage[s] \in {"held", "failing"} /\ Put(s, "failed")
    /\ Move(s, "none")
    /\ UNCHANGED <<up, unminded>>

\* Not even the failure can be stored.
Abandon(s) ==
    /\ stage[s] = "failing"
    /\ Move(s, "none")
    /\ unminded' = unminded \cup {s}
    /\ UNCHANGED <<status, up>>

-----------------------------------------------------------------------------
(* The process *)

Crash ==
    /\ up' = FALSE
    /\ stage' = [s \in Schedules |-> "none"]
    /\ UNCHANGED <<status, unminded>>

\* Executions may have started before the interrupted schedules are put back.
Recover ==
    /\ ~up /\ up' = TRUE
    /\ status' = [s \in Schedules |-> IF status[s] = "processing" THEN "pending" ELSE status[s]]
    /\ unminded' = {}
    /\ UNCHANGED stage

\* The interrupted schedules cannot be put back: they stay as they are.
Resume ==
    /\ ~up /\ up' = TRUE
    /\ unminded' = unminded \cup {s \in Schedules : status[s] = "processing"
                                                  /\ stage[s] \notin {"held", "failing"}}
    /\ UNCHANGED <<status, stage>>

-----------------------------------------------------------------------------

Init ==
    /\ status = [s \in Schedules |-> "absent"]
    /\ stage = [s \in Schedules |-> "none"]
    /\ up = TRUE
    /\ unminded = {}

Next ==
    \/ \E s \in Schedules :
         \/ Create(s) \/ Withdraw(s) \/ \E st \in PatchStatuses : Edit(s, st)
         \/ Choose(s) \/ Claim(s) \/ Break(s) \/ Settle(s) \/ Abandon(s)
    \/ Crash \/ Recover \/ Resume

Spec == Init /\ [][Next]_vars

-----------------------------------------------------------------------------

\* Once the process is up, a schedule in "processing" is being executed, was set to that
\* by its owner, or could not be settled or put back.
Owned ==
    up => \A s \in Schedules : status[s] = "processing"
                               => stage[s] \in {"held", "failing"} \/ s \in unminded
=============================================================================
