------------------------------ MODULE JobQueue ------------------------------
(***************************************************************************)
(* The background job queue of core/src/services/jobs.js: the `jobs` table *)
(* (status, attempt, cancellation_requested, run_at, last_heartbeat_at,    *)
(* started_at), the dispatcher loop that claims queued rows and sweeps the *)
(* running ones, and the handler executions it launches and never awaits.  *)
(*                                                                         *)
(* Every `await` on the database is a point where another actor may run,   *)
(* so complete() and fail() are two steps each: the `get` that decides and *)
(* the UPDATE that writes, which has no status in its WHERE clause.  The   *)
(* sweeps select their rows in one step and update them one by one.        *)
(*                                                                         *)
(* Time is abstract: run_at passes (BecomeDue), a heartbeat ages in two    *)
(* steps (older than 10 s, older than 120 s) and started_at grows older    *)
(* than the wall-clock limit (BecomeOverdue), at any moment.               *)
(***************************************************************************)
EXTENDS Naturals, FiniteSets

CONSTANTS NumJobs,        \* rows ever inserted; ids follow created_at
          MaxAttempts,    \* MaxAttempts[j]: the column max_attempts of row j
          MaxConcurrent,  \* MAX_CONCURRENT_JOBS
          RunCap,         \* bound: claims of one row (never reached, see RetryBudget)
          MaxCloses,      \* bound: runs of the onClose hook
          MaxCrashes,     \* bound: process deaths without the hook
          MaxErrors       \* bound: failing database calls of handlers

Jobs == 1 .. NumJobs
Runs == 1 .. RunCap

ASSUME JobQueueAssumption ==
  /\ NumJobs \in Nat
  /\ MaxAttempts \in [Jobs -> Nat \ {0}]
  /\ MaxConcurrent \in Nat \ {0}
  /\ RunCap \in Nat
  /\ MaxCloses \in Nat /\ MaxCrashes \in Nat /\ MaxErrors \in Nat

VARIABLES
  status,      \* status[j]; "none" before the INSERT, "deleted" after the DELETE
  attempt,     \* attempt[j]
  cancelReq,   \* cancellation_requested
  due,         \* run_at is null or in the past
  beat,        \* age of last_heartbeat_at
  overdue,     \* started_at is older than JOB_MAX_RUNTIME_MS
  pc,          \* pc[j][n]: where the n-th execution of job j is
  active,      \* the keys of activeJobs
  phase,       \* the core process
  sweep,       \* the maintenance pass the dispatcher is in
  victims,     \* rows that pass selected and has not updated yet
  recovered,   \* history: jobs requeued while an execution may be alive
  closes, crashes, errors

table  == <<status, attempt, cancelReq, due, beat, overdue>>
memory == <<pc, active, phase, sweep, victims>>
history == <<recovered, closes, crashes, errors>>
vars == <<table, memory, history>>

Terminal == {"completed", "failed", "cancelled"}
Statuses == {"none", "queued", "running", "deleted"} \cup Terminal
Present  == {"queued", "running"} \cup Terminal
Live     == {"run", "throw", "completing", "requeueing", "failing", "cancelling"}
Writing  == {"completing", "requeueing", "failing"}
PcValues == Live \cup {"none", "done", "lost"}
Sweeps   == {"none", "startup", "stale", "cancel", "timeout"}

TypeOK ==
  /\ status \in [Jobs -> Statuses]
  /\ attempt \in [Jobs -> 0 .. RunCap]
  /\ cancelReq \in [Jobs -> BOOLEAN]
  /\ due \in [Jobs -> BOOLEAN]
  /\ beat \in [Jobs -> {"fresh", "aged", "stale"}]
  /\ overdue \in [Jobs -> BOOLEAN]
  /\ pc \in [Jobs -> [Runs -> PcValues]]
  /\ active \in SUBSET Jobs
  /\ phase \in {"up", "closing", "down"}
  /\ sweep \in Sweeps
  /\ victims \in SUBSET Jobs
  /\ recovered \in SUBSET Jobs
  /\ closes \in 0 .. MaxCloses
  /\ crashes \in 0 .. MaxCrashes
  /\ errors \in 0 .. MaxErrors

Init ==
  /\ status = [j \in Jobs |-> "none"]
  /\ attempt = [j \in Jobs |-> 0]
  /\ cancelReq = [j \in Jobs |-> FALSE]
  /\ due = [j \in Jobs |-> FALSE]
  /\ beat = [j \in Jobs |-> "stale"]
  /\ overdue = [j \in Jobs |-> FALSE]
  /\ pc = [j \in Jobs |-> [n \in Runs |-> "none"]]
  /\ active = {}
  /\ phase = "up"
  /\ sweep = "none"
  /\ victims = {}
  /\ recovered = {}
  /\ closes = 0 /\ crashes = 0 /\ errors = 0

-----------------------------------------------------------------------------
(* The API: enqueue, requestCancel and remove are one SQL statement each.  *)

Enqueue(j) ==
  /\ phase = "up"
  /\ status[j] = "none"
  /\ \A i \in 1 .. (j - 1) : status[i] # "none"
  /\ status' = [status EXCEPT ![j] = "queued"]
  /\ due' = [due EXCEPT ![j] = TRUE]
  /\ UNCHANGED <<attempt, cancelReq, beat, overdue, memory, history>>

RequestCancel(j) ==
  /\ phase = "up"
  /\ status[j] \in {"queued", "running"}
  /\ cancelReq' = [cancelReq EXCEPT ![j] = TRUE]
  /\ UNCHANGED <<status, attempt, due, beat, overdue, memory, history>>

Remove(j) ==
  /\ phase = "up"
  /\ status[j] \in Present \ {"running"}
  /\ status' = [status EXCEPT ![j] = "deleted"]
  /\ UNCHANGED <<attempt, cancelReq, due, beat, overdue, memory, history>>

-----------------------------------------------------------------------------
(* The dispatcher: claims while activeJobs has room, sweeps in between.    *)

\* Mutant: the claim query forgets `status='queued'` for running rows.
ClaimableAlsoRunning(j) == status[j] \in {"queued", "running"} /\ ~cancelReq[j] /\ due[j]

Claimable(j) == status[j] = "queued" /\ ~cancelReq[j] /\ due[j]

\* Mutant: the launched promise is not entered into activeJobs.
ClaimUntracked(j) ==
  /\ phase # "down" /\ sweep = "none"
  /\ Cardinality(active) < MaxConcurrent
  /\ Claimable(j)
  /\ \A i \in 1 .. (j - 1) : ~Claimable(i)
  /\ attempt[j] < RunCap
  /\ status' = [status EXCEPT ![j] = "running"]
  /\ attempt' = [attempt EXCEPT ![j] = @ + 1]
  /\ beat' = [beat EXCEPT ![j] = "fresh"]
  /\ pc' = [pc EXCEPT ![j] = [@ EXCEPT ![attempt[j] + 1] = "run"]]
  /\ UNCHANGED <<cancelReq, due, overdue, active, phase, sweep, victims, history>>

\* The oldest claimable row; its handler is launched and not awaited.
\* started_at is coalesced, so a retried row stays overdue.
Claim(j) ==
  /\ phase # "down" /\ sweep = "none"
  /\ Cardinality(active) < MaxConcurrent
  /\ Claimable(j)
  /\ \A i \in 1 .. (j - 1) : ~Claimable(i)
  /\ attempt[j] < RunCap
  /\ status' = [status EXCEPT ![j] = "running"]
  /\ attempt' = [attempt EXCEPT ![j] = @ + 1]
  /\ beat' = [beat EXCEPT ![j] = "fresh"]
  /\ pc' = [pc EXCEPT ![j] = [@ EXCEPT ![attempt[j] + 1] = "run"]]
  /\ active' = active \cup {j}
  /\ UNCHANGED <<cancelReq, due, overdue, phase, sweep, victims, history>>

\* Mutant: the stale pass finds only rows that never had a heartbeat.
SelectedNeverBeaten(kind) ==
  {j \in Jobs :
     /\ status[j] = "running"
     /\ \/ kind = "startup" /\ beat[j] # "fresh"
        \/ kind = "cancel" /\ cancelReq[j]
        \/ kind = "timeout" /\ overdue[j]}

\* The rows each pass selects.  Startup skips rows whose heartbeat is younger
\* than 10 s: they may belong to a process that is still alive.
Selected(kind) ==
  {j \in Jobs :
     /\ status[j] = "running"
     /\ \/ kind = "startup" /\ beat[j] # "fresh"
        \/ kind = "stale" /\ beat[j] = "stale"
        \/ kind = "cancel" /\ cancelReq[j]
        \/ kind = "timeout" /\ overdue[j]}

BeginSweep(kind) ==
  /\ phase # "down" /\ sweep = "none"
  /\ Selected(kind) # {}
  /\ sweep' = kind
  /\ victims' = Selected(kind)
  /\ UNCHANGED <<table, pc, active, phase, history>>

\* Mutant: a stale row is requeued without looking at max_attempts.
SweptStatusUnbudgeted(kind, j) ==
  IF kind = "cancel" THEN "cancelled" ELSE IF kind = "timeout" THEN "failed" ELSE "queued"

\* What a pass makes of a row that is still running.
SweptStatus(kind, j) ==
  IF kind = "cancel" THEN "cancelled"
  ELSE IF kind = "timeout" \/ attempt[j] >= MaxAttempts[j] THEN "failed" ELSE "queued"

SweepRow(j) ==
  LET running == status[j] = "running"
      requeued == running /\ SweptStatus(sweep, j) = "queued"
  IN /\ phase # "down" /\ j \in victims
     /\ status' = [status EXCEPT ![j] = IF running THEN SweptStatus(sweep, j) ELSE @]
     /\ due' = [due EXCEPT ![j] = @ /\ ~requeued]
     /\ recovered' = IF requeued /\ sweep = "stale" THEN recovered \cup {j} ELSE recovered
     /\ victims' = victims \ {j}
     /\ sweep' = IF victims' = {} THEN "none" ELSE sweep
     /\ UNCHANGED <<attempt, cancelReq, beat, overdue, pc, active, phase,
                    closes, crashes, errors>>

-----------------------------------------------------------------------------
(* One execution (j, n) of a handler.                                      *)

Goto(j, n, where) == pc' = [pc EXCEPT ![j] = [@ EXCEPT ![n] = where]]

\* Mutant: no `finally`, the slot in activeJobs is never freed.
LeaveSlotTaken(j, n, how) == Goto(j, n, how) /\ UNCHANGED active

\* The `finally` of the launcher: the entry is keyed by the job alone, so an
\* older execution removes the entry of a newer one.
Leave(j, n, how) == Goto(j, n, how) /\ active' = active \ {j}

Heartbeat(j, n) ==
  /\ pc[j][n] = "run" /\ status[j] = "running"
  /\ beat' = [beat EXCEPT ![j] = "fresh"]
  /\ UNCHANGED <<status, attempt, cancelReq, due, overdue, memory, history>>

\* A cooperative handler re-reads its row: gone -> return, cancelled -> stop.
Poll(j, n) ==
  /\ pc[j][n] = "run"
  /\ \/ status[j] = "deleted" /\ Leave(j, n, "done")
     \/ status[j] # "deleted" /\ cancelReq[j] /\ Goto(j, n, "cancelling") /\ UNCHANGED active
  /\ UNCHANGED <<table, phase, sweep, victims, history>>

\* Mutant: the handler honours a cancellation by returning only.
HonorCancelSilently(j, n) ==
  /\ pc[j][n] = "cancelling"
  /\ Leave(j, n, "done")
  /\ UNCHANGED <<table, phase, sweep, victims, history>>

\* Mutant: it leaves the row in the intermediate status the schema names.
HonorCancelHalfway(j, n) ==
  /\ pc[j][n] = "cancelling"
  /\ status' = [status EXCEPT ![j] = IF @ = "running" THEN "cancelling" ELSE @]
  /\ Leave(j, n, "done")
  /\ UNCHANGED <<attempt, cancelReq, due, beat, overdue, phase, sweep, victims, history>>

HonorCancel(j, n) ==
  /\ pc[j][n] = "cancelling"
  /\ status' = [status EXCEPT ![j] = IF @ = "running" THEN "cancelled" ELSE @]
  /\ Leave(j, n, "done")
  /\ UNCHANGED <<attempt, cancelReq, due, beat, overdue, phase, sweep, victims, history>>

\* Mutant: complete() does not look at the status it has read.
CheckCompleteBlindly(j, n) ==
  /\ pc[j][n] = "run"
  /\ Goto(j, n, "completing")
  /\ UNCHANGED <<table, active, phase, sweep, victims, history>>

\* complete(): the read that re-checks the status ...
CheckComplete(j, n) ==
  /\ pc[j][n] = "run"
  /\ IF status[j] = "running"
     THEN Goto(j, n, "completing") /\ UNCHANGED active
     ELSE Leave(j, n, "done")
  /\ UNCHANGED <<table, phase, sweep, victims, history>>

\* ... and the UPDATE ... WHERE id=$1 that follows it.
WriteComplete(j, n) ==
  /\ pc[j][n] = "completing"
  /\ status' = [status EXCEPT ![j] = IF @ \in Present THEN "completed" ELSE @]
  /\ Leave(j, n, "done")
  /\ UNCHANGED <<attempt, cancelReq, due, beat, overdue, phase, sweep, victims, history>>

\* fail(): the read that decides between a retry and a final failure ...
CheckFail(j, n) ==
  /\ pc[j][n] \in {"run", "throw"}
  /\ IF status[j] \in {"running", "queued"}
     THEN /\ Goto(j, n, IF attempt[j] < MaxAttempts[j] THEN "requeueing" ELSE "failing")
          /\ UNCHANGED active
     ELSE Leave(j, n, "done")
  /\ UNCHANGED <<table, phase, sweep, victims, history>>

\* ... and its UPDATE, also by id alone.
WriteFail(j, n) ==
  /\ pc[j][n] \in {"requeueing", "failing"}
  /\ LET retry == pc[j][n] = "requeueing" IN
     /\ status' = [status EXCEPT ![j] = IF @ \notin Present THEN @
                                        ELSE IF retry THEN "queued" ELSE "failed"]
     /\ due' = [due EXCEPT ![j] = @ /\ ~retry]
  /\ Leave(j, n, "done")
  /\ UNCHANGED <<attempt, cancelReq, beat, overdue, phase, sweep, victims, history>>

\* A database call of the execution rejects.  In the handler the launcher's
\* catch calls fail(); in that fail() the error is swallowed and the execution
\* is over with its row untouched.
DbError(j, n) ==
  /\ errors < MaxErrors
  /\ errors' = errors + 1
  /\ \/ pc[j][n] \in {"run", "completing", "cancelling"} /\ Goto(j, n, "throw") /\ UNCHANGED active
     \/ pc[j][n] \in {"throw", "requeueing", "failing"} /\ Leave(j, n, "lost")
  /\ UNCHANGED <<table, phase, sweep, victims, recovered, closes, crashes>>

-----------------------------------------------------------------------------
(* The process.                                                            *)

\* The onClose hook requeues every running row, whatever its attempt count,
\* while executions and dispatcher go on until the process exits.
Close ==
  /\ phase = "up" /\ closes < MaxCloses
  /\ phase' = "closing"
  /\ closes' = closes + 1
  /\ status' = [j \in Jobs |-> IF status[j] = "running" THEN "queued" ELSE status[j]]
  /\ due' = [j \in Jobs |-> due[j] /\ status[j] # "running"]
  /\ recovered' = recovered \cup {j \in Jobs : status[j] = "running"}
  /\ UNCHANGED <<attempt, cancelReq, beat, overdue, pc, active, sweep, victims, crashes, errors>>

ProcessGone ==
  /\ phase' = "down"
  /\ pc' = [j \in Jobs |-> [n \in Runs |-> IF pc[j][n] \in Live THEN "lost" ELSE pc[j][n]]]
  /\ active' = {} /\ sweep' = "none" /\ victims' = {}

Exit ==
  /\ phase = "closing"
  /\ ProcessGone
  /\ UNCHANGED <<table, history>>

Crash ==
  /\ phase # "down" /\ crashes < MaxCrashes
  /\ crashes' = crashes + 1
  /\ ProcessGone
  /\ UNCHANGED <<table, recovered, closes, errors>>

\* start(): the startup pass is awaited before the dispatcher loop begins.
Start ==
  /\ phase = "down"
  /\ phase' = "up"
  /\ victims' = Selected("startup")
  /\ sweep' = IF victims' = {} THEN "none" ELSE "startup"
  /\ UNCHANGED <<table, pc, active, history>>

-----------------------------------------------------------------------------
(* The clock.                                                              *)

BecomeDue(j) ==
  /\ status[j] = "queued" /\ ~due[j]
  /\ due' = [due EXCEPT ![j] = TRUE]
  /\ UNCHANGED <<status, attempt, cancelReq, beat, overdue, memory, history>>

AgeHeartbeat(j) ==
  /\ status[j] = "running" /\ beat[j] # "stale"
  /\ beat' = [beat EXCEPT ![j] = IF @ = "fresh" THEN "aged" ELSE "stale"]
  /\ UNCHANGED <<status, attempt, cancelReq, due, overdue, memory, history>>

BecomeOverdue(j) ==
  /\ status[j] = "running" /\ ~overdue[j]
  /\ overdue' = [overdue EXCEPT ![j] = TRUE]
  /\ UNCHANGED <<status, attempt, cancelReq, due, beat, memory, history>>

-----------------------------------------------------------------------------
Api(j) == Enqueue(j) \/ RequestCancel(j) \/ Remove(j)

Maintenance == {"stale", "cancel", "timeout"}

Execute(j, n) ==
  \/ Poll(j, n) \/ HonorCancel(j, n)
  \/ CheckComplete(j, n) \/ WriteComplete(j, n)
  \/ CheckFail(j, n) \/ WriteFail(j, n)

Next ==
  \/ \E j \in Jobs :
       \/ Api(j) \/ Claim(j) \/ SweepRow(j)
       \/ BecomeDue(j) \/ AgeHeartbeat(j) \/ BecomeOverdue(j)
       \/ \E n \in Runs : Execute(j, n) \/ Heartbeat(j, n) \/ DbError(j, n)
  \/ \E kind \in Maintenance : BeginSweep(kind)
  \/ Close \/ Exit \/ Crash \/ Start

Spec == Init /\ [][Next]_vars

(***************************************************************************)
(* The event loop keeps turning: the dispatcher claims and sweeps, the     *)
(* clock moves on, a started process gets restarted and every handler      *)
(* reaches the end of its work.  Requests, cancellations, crashes and      *)
(* database errors are not fair.                                           *)
(***************************************************************************)
Fairness ==
  /\ \A j \in Jobs :
       /\ WF_vars(Claim(j)) /\ WF_vars(SweepRow(j)) /\ WF_vars(BecomeDue(j))
       /\ \A n \in Runs : WF_vars(Execute(j, n))
       /\ WF_vars(AgeHeartbeat(j))
  /\ SF_vars(BeginSweep("stale")) /\ SF_vars(BeginSweep("cancel"))
  /\ WF_vars(Start) /\ WF_vars(Exit)

FairSpec == Spec /\ Fairness

-----------------------------------------------------------------------------
(* Properties.                                                             *)

LiveRuns(j) == {n \in Runs : pc[j][n] \in Live}
Requeueing(j) == {n \in Runs : pc[j][n] = "requeueing"}
Queued(j) == IF status[j] = "queued" THEN 1 ELSE 0

\* A row is never claimed more often than twice its max_attempts less one,
\* plus one claim per run of the onClose hook: retries decided on a row that
\* another execution has meanwhile moved on add up, but only while the row
\* still had attempts left when they were decided.  A job registered with
\* maxAttempts 1 (flow_execution) is therefore started once.
RetryBudget == \A j \in Jobs : attempt[j] <= 2 * MaxAttempts[j] - 1 + closes

\* A running row always has its latest execution alive, or that execution was
\* lost to a dying process or to a fail() whose own query failed (the cases
\* the stale recovery exists for): no handler returns and leaves its row
\* running.
RunningHasExecution ==
  \A j \in Jobs : status[j] = "running" =>
     attempt[j] \in Runs /\ pc[j][attempt[j]] \in Live \cup {"lost"}

\* Two executions of a job overlap, or a job waits in the queue while it is
\* executing, only if the stale recovery or the onClose hook requeued it.
ExclusiveExecution ==
  \A j \in Jobs \ recovered :
     /\ \A m, n \in LiveRuns(j) : m = n
     /\ status[j] = "queued" => LiveRuns(j) = {}

\* activeJobs lists every job that was never recovered and has an execution,
\* and, recovered or not, no job without one: the dispatcher's limit counts
\* what it is meant to count, and no slot is lost to an execution that ended.
ActiveMatchesLive ==
  /\ \A j \in Jobs \ recovered : LiveRuns(j) # {} => j \in active
  /\ \A j \in active : LiveRuns(j) # {}

\* Once a row is final and no execution stands between its check and its
\* write, the row stays final: the re-checks in complete() and fail() are
\* what keeps a late handler from resurrecting a cancelled or failed job.
Settled(j) == status[j] \in Terminal \cup {"deleted"} /\ \A n \in Runs : pc[j][n] \notin Writing
SettledStays == [][\A j \in Jobs : Settled(j) => Settled(j)' /\ status'[j] \in {status[j], "deleted"}]_vars

\* Each row lives the life that JobLifecycle promises: started at most as often
\* as the retries and closes allow, and final for good unless an execution
\* decided before it became final.
InDoubt(j) == \E n \in Runs : pc[j][n] \in Writing
Life == INSTANCE JobLifecycle WITH
  Tries  <- [j \in Jobs |-> 2 * MaxAttempts[j] - 1 + MaxCloses],
  state  <- status,
  claims <- attempt,
  doubt  <- [j \in Jobs |-> InDoubt(j)]
Lifecycle == Life!Spec

\* Every running row leaves that status: its handler ends it, or a sweep does,
\* even when its execution died with the process.  And a queued job nobody
\* cancels reaches a final status through every retry, crash and recovery.
RowsSettle ==
  \A j \in Jobs :
    /\ status[j] = "running" ~> status[j] # "running"
    /\ status[j] = "queued" ~> (status[j] \in Terminal \cup {"deleted"} \/ cancelReq[j])

\* "Force-cancel enforcement: if a job is still marked running while
\* cancellation_requested=true, finalize it": a running job whose cancellation
\* was accepted reaches a final status.
CancelFinalizes ==
  \A j \in Jobs : (status[j] = "running" /\ cancelReq[j]) ~>
     status[j] \in Terminal \cup {"deleted"}
=============================================================================
