--------------------------- MODULE JobQueueProofs ---------------------------
(***************************************************************************)
(* Proofs that the job queue keeps its safety properties for every number  *)
(* of rows, every max_attempts, every concurrency limit and any number of  *)
(* closes, crashes and database errors.                                    *)
(*                                                                         *)
(* The inductive invariant is IInv.  RetryBudget is not inductive: it is   *)
(* the visible part of BudgetInv, which also counts the queued row and the *)
(* executions that have decided to requeue it but have not written yet.    *)
(***************************************************************************)
EXTENDS JobQueue, TLAPS, FiniteSetTheorems

\* An execution exists only once its row has been claimed that often.
PcBound == \A j \in Jobs, n \in Runs : pc[j][n] # "none" => n <= attempt[j]

\* A row that was never inserted was never claimed.
Unborn == \A j \in Jobs : status[j] = "none" => attempt[j] = 0

\* The dispatcher knows which pass its victims belong to.
SweepBusy == victims # {} => sweep # "none"

\* Nothing executes in a dead process, nor before its startup pass is over.
NothingLive == \A j \in Jobs, n \in Runs : pc[j][n] \notin Live
StartupAlone == phase = "down" \/ sweep = "startup" => NothingLive

Shape == TypeOK /\ PcBound /\ Unborn /\ SweepBusy /\ StartupAlone

BudgetInv ==
  \A j \in Jobs :
    attempt[j] + Queued(j) + Cardinality(Requeueing(j)) <= 2 * MaxAttempts[j] - 1 + closes

IInv == Shape /\ BudgetInv /\ RunningHasExecution /\ ExclusiveExecution /\ ActiveMatchesLive

-----------------------------------------------------------------------------
(* The shape of the state.                                                 *)

LEMMA InitShape == Init => Shape
  BY JobQueueAssumption
  DEF Init, Shape, TypeOK, PcBound, Unborn, SweepBusy, StartupAlone, NothingLive,
      Runs, Statuses, Terminal, Live, PcValues, Sweeps

\* What moving one execution does to pc.
LEMMA GotoFacts ==
  ASSUME TypeOK, NEW j \in Jobs, NEW n \in Runs, NEW w \in PcValues, Goto(j, n, w)
  PROVE  /\ pc' \in [Jobs -> [Runs -> PcValues]]
         /\ pc'[j][n] = w
         /\ \A i \in Jobs, m \in Runs : i # j \/ m # n => pc'[i][m] = pc[i][m]
<1>1. pc \in [Jobs -> [Runs -> PcValues]]
  BY DEF TypeOK
<1>2. pc[j] \in [Runs -> PcValues]
  BY <1>1
<1> DEFINE row == [pc[j] EXCEPT ![n] = w]
<1>3. row \in [Runs -> PcValues] /\ row[n] = w /\ \A m \in Runs : m # n => row[m] = pc[j][m]
  BY <1>2
<1>4. pc' = [pc EXCEPT ![j] = row]
  BY DEF Goto
<1> HIDE DEF row
<1>5. pc' \in [Jobs -> [Runs -> PcValues]] /\ pc'[j] = row /\ \A i \in Jobs : i # j => pc'[i] = pc[i]
  BY <1>1, <1>3, <1>4
<1> QED BY <1>3, <1>5

LEMMA StepType == ASSUME TypeOK, [Next]_vars PROVE TypeOK'
<1> USE JobQueueAssumption
<1> USE DEF Statuses, Terminal, Sweeps, Present
<1>1. CASE UNCHANGED vars
  BY <1>1 DEF vars, table, memory, history, TypeOK
<1>2. ASSUME NEW j \in Jobs, Api(j) PROVE TypeOK'
  BY <1>2 DEF Api, Enqueue, RequestCancel, Remove, memory, history, TypeOK
<1>3. ASSUME NEW j \in Jobs, Claim(j) PROVE TypeOK'
  <2>1. Goto(j, attempt[j] + 1, "run") /\ attempt[j] + 1 \in Runs
    BY <1>3 DEF Claim, Goto, Runs, TypeOK
  <2>2. pc' \in [Jobs -> [Runs -> PcValues]]
    BY <2>1, GotoFacts DEF PcValues, Live
  <2> QED BY <1>3, <2>2 DEF Claim, Runs, history, TypeOK
<1>4. ASSUME NEW j \in Jobs, SweepRow(j) PROVE TypeOK'
  BY <1>4 DEF SweepRow, SweptStatus, TypeOK
<1>5. ASSUME NEW j \in Jobs, BecomeDue(j) \/ AgeHeartbeat(j) \/ BecomeOverdue(j) PROVE TypeOK'
  BY <1>5 DEF BecomeDue, AgeHeartbeat, BecomeOverdue, memory, history, TypeOK
<1>6. ASSUME NEW j \in Jobs, NEW n \in Runs, Execute(j, n) \/ DbError(j, n) PROVE TypeOK'
  <2>1. PICK w \in PcValues : Goto(j, n, w)
    BY <1>6 DEF Execute, Poll, HonorCancel, CheckComplete, WriteComplete, CheckFail, WriteFail,
                DbError, Leave, PcValues, Live
  <2>2. pc' \in [Jobs -> [Runs -> PcValues]]
    BY <2>1, GotoFacts
  <2>3. active' \in SUBSET Jobs /\ UNCHANGED <<phase, sweep, victims, attempt, cancelReq, beat,
                                               overdue, recovered, closes, crashes>>
    BY <1>6 DEF Execute, Poll, HonorCancel, CheckComplete, WriteComplete, CheckFail, WriteFail,
                DbError, Leave, table, history, TypeOK
  <2>4. status' \in [Jobs -> Statuses] /\ due' \in [Jobs -> BOOLEAN] /\ errors' \in 0 .. MaxErrors
    <3>1. CASE DbError(j, n)
      BY <3>1 DEF DbError, table, TypeOK
    <3>2. CASE Poll(j, n) \/ CheckComplete(j, n) \/ CheckFail(j, n)
      BY <3>2 DEF Poll, CheckComplete, CheckFail, table, history, TypeOK
    <3>3. CASE HonorCancel(j, n) \/ WriteComplete(j, n)
      BY <3>3 DEF HonorCancel, WriteComplete, history, TypeOK
    <3>4. CASE WriteFail(j, n)
      BY <3>4 DEF WriteFail, history, TypeOK
    <3> QED BY <1>6, <3>1, <3>2, <3>3, <3>4 DEF Execute
  <2> QED BY <2>2, <2>3, <2>4 DEF TypeOK
<1>7. ASSUME NEW j \in Jobs, NEW n \in Runs, Heartbeat(j, n) PROVE TypeOK'
  BY <1>7 DEF Heartbeat, memory, history, TypeOK
<1>8. ASSUME NEW kind \in Maintenance, BeginSweep(kind) PROVE TypeOK'
  BY <1>8 DEF BeginSweep, Maintenance, Selected, table, history, TypeOK
<1>9. CASE Close
  BY <1>9 DEF Close, TypeOK
<1>10. CASE Exit \/ Crash
  BY <1>10 DEF Exit, Crash, ProcessGone, table, history, TypeOK, PcValues
<1>11. CASE Start
  BY <1>11 DEF Start, Selected, table, history, TypeOK
<1> QED
  BY <1>1, <1>2, <1>3, <1>4, <1>5, <1>6, <1>7, <1>8, <1>9, <1>10, <1>11 DEF Next

\* Every execution state, row and counter keeps to its type.
THEOREM TypeCorrect == Spec => []TypeOK
<1>1. Init => TypeOK
  BY InitShape DEF Shape
<1>2. TypeOK /\ [Next]_vars => TypeOK'
  BY StepType
<1> QED BY <1>1, <1>2, PTL DEF Spec

-----------------------------------------------------------------------------
(* What a step of an execution does, and what the other steps leave alone. *)

LEMMA MoveFacts ==
  ASSUME TypeOK, NEW j \in Jobs, NEW n \in Runs, Execute(j, n) \/ DbError(j, n)
  PROVE  /\ pc[j][n] \in Live
         /\ pc'[j][n] \in PcValues \ {"none", "run"}
         /\ \A i \in Jobs, m \in Runs : i # j \/ m # n => pc'[i][m] = pc[i][m]
         /\ active' = IF pc'[j][n] \in Live THEN active ELSE active \ {j}
         /\ UNCHANGED <<phase, sweep, victims, attempt, recovered, closes>>
<1>1. PICK w \in PcValues \ {"none", "run"} :
        Goto(j, n, w) /\ active' = IF w \in Live THEN active ELSE active \ {j}
  BY DEF Execute, Poll, HonorCancel, CheckComplete, WriteComplete, CheckFail, WriteFail,
         DbError, Leave, PcValues, Live
<1>2. w \in PcValues BY <1>1
<1>3. pc'[j][n] = w /\ \A i \in Jobs, m \in Runs : i # j \/ m # n => pc'[i][m] = pc[i][m]
  BY <1>1, <1>2, GotoFacts
<1>4. pc[j][n] \in Live
  BY DEF Execute, Poll, HonorCancel, CheckComplete, WriteComplete, CheckFail, WriteFail,
         DbError, Live
<1>5. UNCHANGED <<phase, sweep, victims, attempt, recovered, closes>>
  BY DEF Execute, Poll, HonorCancel, CheckComplete, WriteComplete, CheckFail, WriteFail,
         DbError, Leave, table, history
<1> QED BY <1>1, <1>3, <1>4, <1>5

\* A handler's write frees its slot, never revives a row that is gone, and
\* requeues only from "requeueing".
LEMMA MoveStatus ==
  ASSUME TypeOK, NEW j \in Jobs, NEW n \in Runs, Execute(j, n) \/ DbError(j, n)
  PROVE  /\ \A i \in Jobs \ {j} : status'[i] = status[i]
         /\ status[j] \notin Present => status'[j] = status[j]
         /\ status'[j] # status[j] => status'[j] \in Terminal \cup {"queued"} /\ pc'[j][n] \notin Live
         /\ status'[j] = "queued" => \/ status[j] = "queued"
                                     \/ pc[j][n] = "requeueing" /\ pc'[j][n] = "done"
         /\ status'[j] = "running" => pc'[j][n] \in Live \cup {"lost"}
         /\ pc'[j][n] = "requeueing" => pc[j][n] # "requeueing" /\ attempt[j] < MaxAttempts[j]
         /\ pc'[j][n] \in Writing => status[j] \notin Terminal \cup {"deleted"}
         /\ status[j] \in Terminal \cup {"deleted"} /\ pc[j][n] \notin Writing
              => status'[j] = status[j]
<1> USE DEF Terminal, Present, Live, Writing, PcValues
<1>1. CASE DbError(j, n)
  <2>1. PICK w \in {"throw", "lost"} : Goto(j, n, w)
    BY <1>1 DEF DbError, Leave
  <2>2. pc'[j][n] = w
    BY <2>1, GotoFacts
  <2> QED BY <1>1, <2>2 DEF DbError, table
<1>2. CASE Poll(j, n)
  <2>1. \/ status[j] = "deleted" /\ Goto(j, n, "done")
        \/ Goto(j, n, "cancelling")
    BY <1>2 DEF Poll, Leave
  <2>2. \/ status[j] = "deleted" /\ pc'[j][n] = "done"
        \/ pc'[j][n] = "cancelling"
    BY <2>1, GotoFacts
  <2> QED BY <1>2, <2>2 DEF Poll, table
<1>3. CASE HonorCancel(j, n) \/ WriteComplete(j, n)
  <2>1. Goto(j, n, "done")
    BY <1>3 DEF HonorCancel, WriteComplete, Leave
  <2>2. pc'[j][n] = "done"
    BY <2>1, GotoFacts
  <2>3. status \in [Jobs -> Statuses]
    BY DEF TypeOK
  <2> QED BY <1>3, <2>2, <2>3 DEF HonorCancel, WriteComplete, Statuses
<1>4. CASE CheckComplete(j, n)
  <2>1. \/ status[j] = "running" /\ Goto(j, n, "completing")
        \/ status[j] # "running" /\ Goto(j, n, "done")
    BY <1>4 DEF CheckComplete, Leave
  <2>2. \/ status[j] = "running" /\ pc'[j][n] = "completing"
        \/ status[j] # "running" /\ pc'[j][n] = "done"
    BY <2>1, GotoFacts
  <2> QED BY <1>4, <2>2 DEF CheckComplete, table
<1>5. CASE CheckFail(j, n)
  <2>1. \/ status[j] \in {"running", "queued"} /\ attempt[j] < MaxAttempts[j] /\ Goto(j, n, "requeueing")
        \/ status[j] \in {"running", "queued"} /\ Goto(j, n, "failing")
        \/ status[j] \notin {"running", "queued"} /\ Goto(j, n, "done")
    BY <1>5 DEF CheckFail, Leave
  <2>2. \/ status[j] \in {"running", "queued"} /\ attempt[j] < MaxAttempts[j] /\ pc'[j][n] = "requeueing"
        \/ status[j] \in {"running", "queued"} /\ pc'[j][n] = "failing"
        \/ status[j] \notin {"running", "queued"} /\ pc'[j][n] = "done"
    BY <2>1, GotoFacts
  <2> QED BY <1>5, <2>2 DEF CheckFail, table
<1>6. CASE WriteFail(j, n)
  <2>1. Goto(j, n, "done")
    BY <1>6 DEF WriteFail, Leave
  <2>2. pc'[j][n] = "done"
    BY <2>1, GotoFacts
  <2>3. status \in [Jobs -> Statuses]
    BY DEF TypeOK
  <2> QED BY <1>6, <2>2, <2>3 DEF WriteFail, Statuses
<1> QED BY <1>1, <1>2, <1>3, <1>4, <1>5, <1>6 DEF Execute

LEMMA ClaimFacts ==
  ASSUME TypeOK, NEW j \in Jobs, Claim(j)
  PROVE  /\ status[j] = "queued" /\ sweep = "none" /\ phase # "down"
         /\ attempt[j] + 1 \in Runs
         /\ status' = [status EXCEPT ![j] = "running"]
         /\ attempt' = [attempt EXCEPT ![j] = attempt[j] + 1]
         /\ pc'[j][attempt[j] + 1] = "run"
         /\ \A i \in Jobs, m \in Runs : i # j \/ m # attempt[j] + 1 => pc'[i][m] = pc[i][m]
         /\ active' = active \cup {j}
         /\ UNCHANGED <<phase, sweep, victims, recovered, closes>>
<1>1. Goto(j, attempt[j] + 1, "run") /\ attempt[j] + 1 \in Runs
  BY JobQueueAssumption DEF Claim, Goto, Runs, TypeOK
<1>2. "run" \in PcValues
  BY DEF PcValues, Live
<1>3. /\ pc'[j][attempt[j] + 1] = "run"
      /\ \A i \in Jobs, m \in Runs : i # j \/ m # attempt[j] + 1 => pc'[i][m] = pc[i][m]
  BY <1>1, <1>2, GotoFacts
<1> QED BY <1>1, <1>3 DEF Claim, Claimable, history

\* The steps that move no execution and claim no row.
Still ==
  \/ UNCHANGED vars
  \/ \E j \in Jobs :
       \/ Api(j) \/ SweepRow(j) \/ BecomeDue(j) \/ AgeHeartbeat(j) \/ BecomeOverdue(j)
       \/ \E n \in Runs : Heartbeat(j, n)
  \/ \E kind \in Maintenance : BeginSweep(kind)
  \/ Close \/ Start

LEMMA StillFacts == ASSUME Still PROVE UNCHANGED <<attempt, pc, active>>
  BY DEF Still, vars, table, memory, history, Api, Enqueue, RequestCancel, Remove, SweepRow,
         BecomeDue, AgeHeartbeat, BecomeOverdue, Heartbeat, BeginSweep, Close, Start

LEMMA NextKinds ==
  ASSUME [Next]_vars
  PROVE  \/ Still
         \/ Exit \/ Crash
         \/ \E j \in Jobs : Claim(j) \/ \E n \in Runs : Execute(j, n) \/ DbError(j, n)
  BY DEF Next, Still

LEMMA GoneFacts ==
  ASSUME TypeOK, Exit \/ Crash
  PROVE  /\ UNCHANGED <<table, recovered, closes>>
         /\ phase' = "down" /\ sweep' = "none" /\ victims' = {}
         /\ \A j \in Jobs, n \in Runs : pc'[j][n] = IF pc[j][n] \in Live THEN "lost" ELSE pc[j][n]
  BY DEF Exit, Crash, ProcessGone, history

LEMMA StepPcBound == ASSUME TypeOK, PcBound, [Next]_vars PROVE PcBound'
<1>1. CASE Still
  BY <1>1, StillFacts DEF PcBound
<1>2. CASE Exit \/ Crash
  BY <1>2, GoneFacts DEF PcBound, table, Live
<1>3. ASSUME NEW j \in Jobs, Claim(j) PROVE PcBound'
  <2>1. SUFFICES ASSUME NEW i \in Jobs, NEW m \in Runs, pc'[i][m] # "none"
                 PROVE  m <= attempt'[i]
    BY DEF PcBound
  <2>2. attempt' = [attempt EXCEPT ![j] = attempt[j] + 1] /\ attempt \in [Jobs -> Nat]
    BY <1>3, ClaimFacts DEF TypeOK, Runs
  <2>3. CASE i = j /\ m = attempt[j] + 1
    BY <2>2, <2>3
  <2>4. CASE i # j \/ m # attempt[j] + 1
    <3>1. pc[i][m] # "none"
      BY <1>3, <2>1, <2>4, ClaimFacts
    <3>2. m <= attempt[i]
      BY <3>1 DEF PcBound
    <3> QED BY <2>2, <3>2 DEF Runs
  <2> QED BY <2>3, <2>4
<1>4. ASSUME NEW j \in Jobs, NEW n \in Runs, Execute(j, n) \/ DbError(j, n) PROVE PcBound'
  BY <1>4, MoveFacts DEF PcBound, Live
<1> QED BY <1>1, <1>2, <1>3, <1>4, NextKinds

LEMMA StepUnborn == ASSUME TypeOK, Unborn, [Next]_vars PROVE Unborn'
<1>1. CASE Still
  <2>1. \A j \in Jobs : status'[j] = "none" => status[j] = "none"
    BY <1>1 DEF Still, vars, table, Api, Enqueue, RequestCancel, Remove, SweepRow, SweptStatus,
                BecomeDue, AgeHeartbeat, BecomeOverdue, Heartbeat, BeginSweep, Close, Start,
                memory, history, TypeOK
  <2> QED BY <1>1, <2>1, StillFacts DEF Unborn
<1>2. CASE Exit \/ Crash
  BY <1>2, GoneFacts DEF Unborn, table
<1>3. ASSUME NEW j \in Jobs, Claim(j) PROVE Unborn'
  BY <1>3, ClaimFacts DEF Unborn, TypeOK
<1>4. ASSUME NEW j \in Jobs, NEW n \in Runs, Execute(j, n) \/ DbError(j, n) PROVE Unborn'
  BY <1>4, MoveFacts, MoveStatus DEF Unborn, Terminal
<1> QED BY <1>1, <1>2, <1>3, <1>4, NextKinds

LEMMA StepSweep ==
  ASSUME TypeOK, SweepBusy, StartupAlone, [Next]_vars
  PROVE  SweepBusy' /\ StartupAlone'
<1> USE DEF SweepBusy, StartupAlone, NothingLive
<1>1. CASE Still
  <2>1. UNCHANGED pc
    BY <1>1, StillFacts
  <2>2. CASE UNCHANGED <<phase, sweep, victims>>
    BY <2>1, <2>2
  <2>3. ASSUME NEW j \in Jobs, SweepRow(j) PROVE SweepBusy' /\ StartupAlone'
    BY <2>1, <2>3 DEF SweepRow
  <2>4. ASSUME NEW kind \in Maintenance, BeginSweep(kind) PROVE SweepBusy' /\ StartupAlone'
    BY <2>1, <2>4 DEF BeginSweep, Maintenance
  <2>5. CASE Close
    BY <2>1, <2>5 DEF Close
  <2>6. CASE Start
    BY <2>1, <2>6 DEF Start
  <2> QED
    BY <1>1, <2>2, <2>3, <2>4, <2>5, <2>6
    DEF Still, vars, memory, Api, Enqueue, RequestCancel, Remove, BecomeDue, AgeHeartbeat,
        BecomeOverdue, Heartbeat
<1>2. CASE Exit \/ Crash
  BY <1>2, GoneFacts DEF Live
<1>3. ASSUME NEW j \in Jobs, Claim(j) PROVE SweepBusy' /\ StartupAlone'
  BY <1>3, ClaimFacts
<1>4. ASSUME NEW j \in Jobs, NEW n \in Runs, Execute(j, n) \/ DbError(j, n)
      PROVE  SweepBusy' /\ StartupAlone'
  BY <1>4, MoveFacts
<1> QED BY <1>1, <1>2, <1>3, <1>4, NextKinds

LEMMA StepShape == ASSUME Shape, [Next]_vars PROVE Shape'
  BY StepType, StepPcBound, StepUnborn, StepSweep DEF Shape

-----------------------------------------------------------------------------
(* A running row and its executions.                                       *)

\* Only Claim makes a row running, and only a requeue makes it queued: the
\* startup pass and fail() silently, the stale pass and Close on the record.
LEMMA StillStatus ==
  ASSUME TypeOK, SweepBusy, Still, NEW j \in Jobs
  PROVE  /\ status'[j] = "running" => status[j] = "running"
         /\ status'[j] = "queued" /\ status[j] # "queued" =>
              \/ status[j] = "none" /\ closes' = closes
              \/ /\ status[j] = "running" /\ sweep = "startup" /\ closes' = closes
                 /\ attempt[j] < MaxAttempts[j]
              \/ /\ status[j] = "running" /\ j \in recovered' /\ closes' = closes
                 /\ attempt[j] < MaxAttempts[j]
              \/ status[j] = "running" /\ j \in recovered' /\ closes' = closes + 1
         /\ recovered \subseteq recovered'
         /\ closes' \in {closes, closes + 1}
<1>1. CASE UNCHANGED <<status, recovered, closes>>
  BY <1>1 DEF TypeOK
<1>2. ASSUME NEW i \in Jobs, Api(i)
      PROVE  /\ UNCHANGED <<recovered, closes>>
             /\ status'[j] # status[j] => \/ status[j] = "none" /\ status'[j] = "queued"
                                          \/ status'[j] = "deleted"
  BY <1>2 DEF Api, Enqueue, RequestCancel, Remove, history, TypeOK
<1>3. ASSUME NEW i \in Jobs, SweepRow(i)
      PROVE  /\ closes' = closes /\ recovered \subseteq recovered'
             /\ status'[j] # status[j] =>
                  \/ status'[j] \in {"cancelled", "failed"}
                  \/ /\ status[j] = "running" /\ status'[j] = "queued"
                     /\ attempt[j] < MaxAttempts[j]
                     /\ sweep = "startup" \/ j \in recovered'
  <2>1. sweep \in {"startup", "stale", "cancel", "timeout"}
    BY <1>3 DEF SweepRow, SweepBusy, TypeOK, Sweeps
  <2>2. attempt[j] \in Nat /\ MaxAttempts[j] \in Nat
    BY JobQueueAssumption DEF TypeOK
  <2>3. CASE status'[j] = status[j]
    BY <1>3, <2>3 DEF SweepRow
  <2>4. CASE status'[j] # status[j]
    <3>1. i = j /\ status[j] = "running" /\ status'[j] = SweptStatus(sweep, j)
      BY <1>3, <2>4 DEF SweepRow, TypeOK
    <3>2. CASE status'[j] = "queued"
      <4>1. sweep \notin {"cancel", "timeout"} /\ attempt[j] < MaxAttempts[j]
        BY <2>2, <3>1, <3>2 DEF SweptStatus
      <4> QED BY <1>3, <2>1, <3>1, <3>2, <4>1 DEF SweepRow, SweptStatus
    <3>3. CASE status'[j] # "queued"
      BY <1>3, <3>1, <3>3 DEF SweepRow, SweptStatus
    <3> QED BY <3>2, <3>3
  <2> QED BY <2>3, <2>4
<1>4. CASE Close
  BY <1>4 DEF Close, TypeOK
<1> QED
  BY <1>1, <1>2, <1>3, <1>4
  DEF Still, vars, table, memory, history, BecomeDue, AgeHeartbeat, BecomeOverdue, Heartbeat,
      BeginSweep, Start

LEMMA StepRunning == ASSUME Shape, RunningHasExecution, [Next]_vars PROVE RunningHasExecution'
<1> USE DEF Shape, RunningHasExecution
<1>1. CASE Still
  BY <1>1, StillFacts, StillStatus
<1>2. CASE Exit \/ Crash
  BY <1>2, GoneFacts DEF table
<1>3. ASSUME NEW j \in Jobs, Claim(j) PROVE RunningHasExecution'
  <2>1. \A i \in Jobs : i # j => status'[i] = status[i] /\ attempt'[i] = attempt[i]
    BY <1>3, ClaimFacts DEF TypeOK
  <2>2. attempt'[j] \in Runs /\ pc'[j][attempt'[j]] = "run"
    BY <1>3, ClaimFacts DEF TypeOK
  <2> QED BY <1>3, <2>1, <2>2, ClaimFacts DEF Live
<1>4. ASSUME NEW j \in Jobs, NEW n \in Runs, Execute(j, n) \/ DbError(j, n)
      PROVE  RunningHasExecution'
  <2>1. \A i \in Jobs : status'[i] = "running" => status[i] = "running"
    BY <1>4, MoveStatus DEF Terminal
  <2>2. attempt' = attempt
    BY <1>4, MoveFacts
  <2>3. \A i \in Jobs, m \in Runs :
          status'[i] = "running" /\ pc[i][m] \in Live \cup {"lost"}
            => pc'[i][m] \in Live \cup {"lost"}
    BY <1>4, MoveFacts, MoveStatus
  <2> QED BY <2>1, <2>2, <2>3
<1> QED BY <1>1, <1>2, <1>3, <1>4, NextKinds

LEMMA StepExclusive ==
  ASSUME Shape, ExclusiveExecution, ActiveMatchesLive, [Next]_vars
  PROVE  ExclusiveExecution' /\ ActiveMatchesLive'
<1> USE DEF Shape, ExclusiveExecution, ActiveMatchesLive, LiveRuns
<1>1. CASE Still
  <2>1. UNCHANGED <<pc, active>>
    BY <1>1, StillFacts
  <2>2. ASSUME NEW j \in Jobs \ recovered', status'[j] = "queued", status[j] # "queued"
        PROVE  \A n \in Runs : pc[j][n] \notin Live
    <3>1. CASE status[j] = "none"
      <4>1. \A n \in Runs : ~(n <= attempt[j])
        BY <3>1, JobQueueAssumption DEF Unborn, Runs
      <4> QED BY <4>1 DEF PcBound, Live
    <3>2. CASE sweep = "startup"
      BY <3>2 DEF StartupAlone, NothingLive
    <3> QED BY <1>1, <2>2, <3>1, <3>2, StillStatus
  <2>3. recovered \subseteq recovered'
    <3>1. CASE Jobs = {}
      BY <1>1, <3>1 DEF Still, vars, history, BeginSweep, Close, Start
    <3> QED BY <1>1, <3>1, StillStatus
  <2> QED BY <2>1, <2>2, <2>3
<1>2. CASE Exit \/ Crash
  <2>1. \A j \in Jobs, n \in Runs : pc'[j][n] \notin Live
    BY <1>2, GoneFacts DEF Live
  <2>2. active' = {}
    BY <1>2 DEF Exit, Crash, ProcessGone
  <2> QED BY <2>1, <2>2
<1>3. ASSUME NEW j \in Jobs, Claim(j) PROVE ExclusiveExecution' /\ ActiveMatchesLive'
  <2>1. \A i \in Jobs : i # j => /\ status'[i] = status[i]
                                 /\ \A m \in Runs : pc'[i][m] = pc[i][m]
    BY <1>3, ClaimFacts DEF TypeOK
  <2>2. status[j] = "queued" /\ status'[j] = "running"
    BY <1>3, ClaimFacts DEF TypeOK
  <2>3. j \notin recovered => \A m \in Runs : pc'[j][m] \in Live => m = attempt[j] + 1
    BY <1>3, <2>2, ClaimFacts
  <2>4. recovered' = recovered /\ active' = active \cup {j}
    BY <1>3, ClaimFacts
  <2>5. ExclusiveExecution'
    BY <2>1, <2>2, <2>3, <2>4
  <2>6. \A i \in Jobs \ recovered' : (LiveRuns(i) # {})' => i \in active'
    BY <2>1, <2>4
  <2>7. attempt[j] + 1 \in Runs /\ pc'[j][attempt[j] + 1] \in Live
    BY <1>3, ClaimFacts DEF Live
  <2>8. ASSUME NEW i \in active' PROVE \E m \in Runs : pc'[i][m] \in Live
    <3>1. CASE i = j
      BY <2>7, <3>1
    <3>2. CASE i # j
      BY <2>1, <2>4, <2>8, <3>2 DEF TypeOK
    <3> QED BY <3>1, <3>2
  <2> QED BY <2>5, <2>6, <2>8
<1>4. ASSUME NEW j \in Jobs, NEW n \in Runs, Execute(j, n) \/ DbError(j, n)
      PROVE  ExclusiveExecution' /\ ActiveMatchesLive'
  <2>1. \A i \in Jobs : i # j => /\ status'[i] = status[i]
                                 /\ \A m \in Runs : pc'[i][m] = pc[i][m]
    BY <1>4, MoveFacts, MoveStatus
  <2>2. pc[j][n] \in Live /\ recovered' = recovered
    BY <1>4, MoveFacts
  <2>3. j \notin recovered => /\ status[j] # "queued"
                              /\ \A m \in Runs : m # n => pc'[j][m] \notin Live
    BY <1>4, <2>2, MoveFacts
  <2>4. j \notin recovered /\ status'[j] = "queued" => pc'[j][n] \notin Live
    BY <1>4, <2>3, MoveStatus
  <2>5. active' = IF pc'[j][n] \in Live THEN active ELSE active \ {j}
    BY <1>4, MoveFacts
  <2>6. ExclusiveExecution'
    BY <2>1, <2>2, <2>3, <2>4
  <2>7. \A i \in Jobs \ recovered' : (LiveRuns(i) # {})' => i \in active'
    BY <2>1, <2>2, <2>3, <2>5
  <2>8. ASSUME NEW i \in active' PROVE \E m \in Runs : pc'[i][m] \in Live
    <3>1. CASE i = j
      BY <2>5, <2>8, <3>1
    <3>2. CASE i # j
      BY <2>1, <2>5, <2>8, <3>2 DEF TypeOK
    <3> QED BY <3>1, <3>2
  <2> QED BY <2>6, <2>7, <2>8
<1> QED BY <1>1, <1>2, <1>3, <1>4, NextKinds

-----------------------------------------------------------------------------
(* The budget of claims.                                                   *)

LEMMA RequeueingBound ==
  ASSUME TypeOK, PcBound, NEW j \in Jobs
  PROVE  /\ IsFiniteSet(Requeueing(j))
         /\ Cardinality(Requeueing(j)) \in Nat
         /\ Cardinality(Requeueing(j)) <= attempt[j]
         /\ \A n \in Runs : pc[j][n] \notin {"none", "requeueing"}
                               => Cardinality(Requeueing(j)) + 1 <= attempt[j]
<1>1. attempt[j] \in Nat
  BY JobQueueAssumption DEF TypeOK
<1>2. IsFiniteSet(1 .. attempt[j]) /\ Cardinality(1 .. attempt[j]) = attempt[j]
  BY <1>1, FS_Interval
<1>3. Requeueing(j) \subseteq 1 .. attempt[j]
  BY <1>1 DEF PcBound, Requeueing, Runs
<1>4. IsFiniteSet(Requeueing(j)) /\ Cardinality(Requeueing(j)) <= attempt[j]
  BY <1>2, <1>3, FS_Subset
<1>5. Cardinality(Requeueing(j)) \in Nat
  BY <1>4, FS_CardinalityType
<1>6. ASSUME NEW n \in Runs, pc[j][n] \notin {"none", "requeueing"}
      PROVE  Cardinality(Requeueing(j)) + 1 <= attempt[j]
  <2>1. n \in 1 .. attempt[j] /\ n \notin Requeueing(j)
    BY <1>1, <1>6 DEF PcBound, Requeueing, Runs
  <2>2. Requeueing(j) \cup {n} \subseteq 1 .. attempt[j]
    BY <1>3, <2>1
  <2>3. Cardinality(Requeueing(j) \cup {n}) = Cardinality(Requeueing(j)) + 1
    BY <1>4, <2>1, FS_AddElement
  <2>4. Cardinality(Requeueing(j) \cup {n}) <= attempt[j]
    BY <1>2, <2>2, FS_Subset
  <2> QED BY <2>3, <2>4
<1> QED BY <1>4, <1>5, <1>6

LEMMA InitBudget == ASSUME Init PROVE BudgetInv
<1> SUFFICES ASSUME NEW j \in Jobs
             PROVE  attempt[j] + Queued(j) + Cardinality(Requeueing(j)) <= 2 * MaxAttempts[j] - 1 + closes
  BY DEF BudgetInv
<1>1. attempt[j] = 0 /\ Queued(j) = 0 /\ Requeueing(j) = {} /\ closes = 0
  BY DEF Init, Queued, Requeueing
<1>2. MaxAttempts[j] \in Nat \ {0}
  BY JobQueueAssumption
<1> QED BY <1>1, <1>2, FS_EmptySet

LEMMA StepBudget == ASSUME Shape, BudgetInv, [Next]_vars PROVE BudgetInv'
<1> USE DEF Shape
<1> SUFFICES ASSUME NEW j \in Jobs
             PROVE  attempt'[j] + Queued(j)' + Cardinality(Requeueing(j)') <= 2 * MaxAttempts[j] - 1 + closes'
  BY DEF BudgetInv
<1>1. attempt[j] \in Nat /\ MaxAttempts[j] \in Nat \ {0} /\ closes \in Nat
  BY JobQueueAssumption DEF TypeOK
<1>2. Cardinality(Requeueing(j)) \in Nat /\ Cardinality(Requeueing(j)) <= attempt[j]
  BY RequeueingBound
<1>3. attempt[j] + Queued(j) + Cardinality(Requeueing(j)) <= 2 * MaxAttempts[j] - 1 + closes
  BY DEF BudgetInv
<1>4. CASE Still
  <2>1. attempt' = attempt /\ Requeueing(j)' = Requeueing(j)
    BY <1>4, StillFacts DEF Requeueing
  <2>2. closes' \in {closes, closes + 1}
    BY <1>4, StillStatus
  <2>3. CASE status'[j] = "queued" /\ status[j] # "queued"
    <3>1. Queued(j) = 0 /\ Queued(j)' = 1
      BY <2>3 DEF Queued
    <3>2. CASE status[j] = "none"
      BY <1>1, <1>2, <2>1, <2>2, <3>1, <3>2 DEF Unborn
    <3>3. CASE attempt[j] < MaxAttempts[j]
      BY <1>1, <1>2, <2>1, <2>2, <3>1, <3>3
    <3>4. CASE closes' = closes + 1
      BY <1>1, <1>2, <1>3, <2>1, <3>1, <3>4
    <3> QED BY <1>4, <2>3, <3>2, <3>3, <3>4, StillStatus
  <2>4. CASE ~(status'[j] = "queued" /\ status[j] # "queued")
    <3>1. Queued(j)' <= Queued(j) /\ Queued(j) \in Nat /\ Queued(j)' \in Nat
      BY <2>4 DEF Queued
    <3> QED BY <1>1, <1>2, <1>3, <2>1, <2>2, <3>1
  <2> QED BY <2>3, <2>4
<1>5. CASE Exit \/ Crash
  <2>1. UNCHANGED <<attempt, status, closes>> /\ Requeueing(j)' = {}
    BY <1>5, GoneFacts DEF table, Requeueing, Live
  <2>2. Queued(j)' = Queued(j) /\ Queued(j) \in Nat
    BY <2>1 DEF Queued
  <2> QED BY <1>1, <1>2, <1>3, <2>1, <2>2, FS_EmptySet
<1>6. ASSUME NEW i \in Jobs, Claim(i)
      PROVE  attempt'[j] + Queued(j)' + Cardinality(Requeueing(j)') <= 2 * MaxAttempts[j] - 1 + closes'
  <2>1. CASE i # j
    <3>1. /\ attempt'[j] = attempt[j] /\ Queued(j)' = Queued(j)
          /\ Requeueing(j)' = Requeueing(j) /\ closes' = closes
      BY <1>6, <2>1, ClaimFacts DEF TypeOK, Queued, Requeueing
    <3> QED BY <1>3, <3>1
  <2>2. CASE i = j
    <3>1. attempt'[j] = attempt[j] + 1 /\ closes' = closes /\ Queued(j) = 1 /\ Queued(j)' = 0
      BY <1>6, <2>2, ClaimFacts DEF TypeOK, Queued
    <3>2. attempt[j] + 1 \notin Requeueing(j)
      BY <1>1 DEF PcBound, Requeueing
    <3>3. Requeueing(j)' = Requeueing(j)
      BY <1>6, <2>2, <3>2, ClaimFacts DEF Requeueing
    <3> QED BY <1>1, <1>2, <1>3, <3>1, <3>3
  <2> QED BY <2>1, <2>2
<1>7. ASSUME NEW i \in Jobs, NEW n \in Runs, Execute(i, n) \/ DbError(i, n)
      PROVE  attempt'[j] + Queued(j)' + Cardinality(Requeueing(j)') <= 2 * MaxAttempts[j] - 1 + closes'
  <2>1. attempt' = attempt /\ closes' = closes
    BY <1>7, MoveFacts
  <2>2. Queued(j) \in {0, 1} /\ Queued(j)' \in {0, 1}
    BY DEF Queued
  <2>3. CASE i # j
    <3>1. Queued(j)' = Queued(j) /\ Requeueing(j)' = Requeueing(j)
      BY <1>7, <2>3, MoveFacts, MoveStatus DEF Queued, Requeueing
    <3> QED BY <1>3, <2>1, <3>1
  <2>4. CASE i = j /\ pc'[j][n] = "requeueing"
    <3>1. pc[j][n] \notin {"none", "requeueing"} /\ attempt[j] < MaxAttempts[j]
      BY <1>7, <2>4, MoveFacts, MoveStatus DEF Live
    <3>2. Cardinality(Requeueing(j)) + 1 <= attempt[j]
      BY <3>1, RequeueingBound
    <3>3. Requeueing(j)' = Requeueing(j) \cup {n} /\ n \notin Requeueing(j)
      BY <1>7, <2>4, <3>1, MoveFacts DEF Requeueing
    <3>4. Cardinality(Requeueing(j)') = Cardinality(Requeueing(j)) + 1
      BY <3>3, RequeueingBound, FS_AddElement
    <3> QED BY <1>1, <1>2, <2>1, <2>2, <3>1, <3>2, <3>4
  <2>5. CASE i = j /\ pc'[j][n] # "requeueing" /\ pc[j][n] = "requeueing"
    <3>1. Requeueing(j)' = Requeueing(j) \ {n} /\ n \in Requeueing(j)
      BY <1>7, <2>5, MoveFacts DEF Requeueing
    <3>2. Cardinality(Requeueing(j)') = Cardinality(Requeueing(j)) - 1
      BY <3>1, RequeueingBound, FS_RemoveElement
    <3> QED BY <1>1, <1>2, <1>3, <2>1, <2>2, <3>2
  <2>6. CASE i = j /\ pc'[j][n] # "requeueing" /\ pc[j][n] # "requeueing"
    <3>1. Requeueing(j)' = Requeueing(j)
      BY <1>7, <2>6, MoveFacts DEF Requeueing
    <3>2. Queued(j)' <= Queued(j)
      BY <1>7, <2>6, MoveStatus DEF Queued
    <3> QED BY <1>1, <1>2, <1>3, <2>1, <2>2, <3>1, <3>2
  <2> QED BY <2>3, <2>4, <2>5, <2>6
<1> QED BY <1>4, <1>5, <1>6, <1>7, NextKinds

-----------------------------------------------------------------------------
(* The theorems.                                                           *)

LEMMA InitIInv == Init => IInv
<1> SUFFICES ASSUME Init PROVE IInv
  OBVIOUS
<1>1. Shape /\ BudgetInv
  BY InitShape, InitBudget
<1>2. RunningHasExecution /\ ExclusiveExecution /\ ActiveMatchesLive
  BY DEF Init, RunningHasExecution, ExclusiveExecution, ActiveMatchesLive, LiveRuns, Live
<1> QED BY <1>1, <1>2 DEF IInv

LEMMA StepIInv == IInv /\ [Next]_vars => IInv'
  BY StepShape, StepBudget, StepRunning, StepExclusive DEF IInv

LEMMA Invariance == Spec => []IInv
  BY InitIInv, StepIInv, PTL DEF Spec

LEMMA BudgetBounds == IInv => RetryBudget
<1> SUFFICES ASSUME IInv, NEW j \in Jobs PROVE attempt[j] <= 2 * MaxAttempts[j] - 1 + closes
  BY DEF RetryBudget
<1>1. Cardinality(Requeueing(j)) \in Nat
  BY RequeueingBound DEF IInv, Shape
<1>2. attempt[j] \in Nat /\ MaxAttempts[j] \in Nat /\ closes \in Nat /\ Queued(j) \in {0, 1}
  BY JobQueueAssumption DEF IInv, Shape, TypeOK, Queued
<1>3. attempt[j] + Queued(j) + Cardinality(Requeueing(j)) <= 2 * MaxAttempts[j] - 1 + closes
  BY DEF IInv, BudgetInv
<1> QED BY <1>1, <1>2, <1>3

\* No row is claimed more than 2 * max_attempts - 1 times, onClose runs apart.
THEOREM RetriesAreBounded == Spec => []RetryBudget
  BY Invariance, BudgetBounds, PTL

\* A running row has its latest execution alive or lost.
THEOREM RunningIsExecuted == Spec => []RunningHasExecution
<1>1. IInv => RunningHasExecution
  BY DEF IInv
<1> QED BY <1>1, Invariance, PTL

\* Executions of a job that no recovery requeued never overlap.
THEOREM ExecutionsExclude == Spec => []ExclusiveExecution
<1>1. IInv => ExclusiveExecution
  BY DEF IInv
<1> QED BY <1>1, Invariance, PTL

\* activeJobs covers the executions of every job that no recovery requeued, and
\* nothing that has ended.
THEOREM ActiveIsCounted == Spec => []ActiveMatchesLive
<1>1. IInv => ActiveMatchesLive
  BY DEF IInv
<1> QED BY <1>1, Invariance, PTL

LEMMA SettledStep ==
  ASSUME TypeOK, SweepBusy, [Next]_vars, NEW j \in Jobs, Settled(j)
  PROVE  Settled(j)' /\ status'[j] \in {status[j], "deleted"}
<1> SUFFICES /\ status'[j] \in {status[j], "deleted"}
             /\ \A n \in Runs : pc'[j][n] \notin Writing
  BY DEF Settled
<1>1. status[j] \in Terminal \cup {"deleted"} /\ \A n \in Runs : pc[j][n] \notin Writing
  BY DEF Settled
<1>2. CASE Still
  <2>1. UNCHANGED pc
    BY <1>2, StillFacts
  <2>2. status'[j] \in {status[j], "deleted"}
    <3>1. ASSUME NEW i \in Jobs, Api(i) \/ SweepRow(i) PROVE status'[j] \in {status[j], "deleted"}
      BY <1>1, <3>1 DEF Api, Enqueue, RequestCancel, Remove, SweepRow, TypeOK, Terminal
    <3>2. CASE Close
      BY <1>1, <3>2 DEF Close, Terminal
    <3> QED
      BY <1>2, <3>1, <3>2 DEF Still, vars, table, BecomeDue, AgeHeartbeat, BecomeOverdue,
                              Heartbeat, BeginSweep, Start
  <2> QED BY <1>1, <2>1, <2>2
<1>3. CASE Exit \/ Crash
  BY <1>1, <1>3, GoneFacts DEF table, Writing
<1>4. ASSUME NEW i \in Jobs, Claim(i)
      PROVE  status'[j] \in {status[j], "deleted"} /\ \A n \in Runs : pc'[j][n] \notin Writing
  <2>1. i # j
    BY <1>1, <1>4, ClaimFacts DEF Terminal
  <2> QED BY <1>1, <1>4, <2>1, ClaimFacts DEF TypeOK
<1>5. ASSUME NEW i \in Jobs, NEW n \in Runs, Execute(i, n) \/ DbError(i, n)
      PROVE  status'[j] \in {status[j], "deleted"} /\ \A m \in Runs : pc'[j][m] \notin Writing
  <2>1. CASE i # j
    BY <1>1, <1>5, <2>1, MoveFacts, MoveStatus
  <2>2. CASE i = j
    BY <1>1, <1>5, <2>2, MoveFacts, MoveStatus
  <2> QED BY <2>1, <2>2
<1> QED BY <1>2, <1>3, <1>4, <1>5, NextKinds

\* A final row without a write in flight is final for good.
THEOREM SettledIsFinal == Spec => SettledStays
<1>1. IInv /\ [Next]_vars => [\A j \in Jobs : Settled(j) => Settled(j)' /\ status'[j] \in {status[j], "deleted"}]_vars
  BY SettledStep DEF IInv, Shape
<1> QED BY <1>1, Invariance, PTL DEF Spec, SettledStays

-----------------------------------------------------------------------------
(* The refinement: each step of the queue moves each row the way           *)
(* JobLifecycle allows or leaves it alone.                                 *)

\* The columns of one row keep their values and no execution of it comes into
\* doubt or out of it.
SameRow(j) == status'[j] = status[j] /\ attempt'[j] = attempt[j] /\ InDoubt(j)' = InDoubt(j)

\* The moves of a row, in the variables of the queue.
RowMove(j) ==
  \/ SameRow(j)
  \/ /\ status[j] = "none" /\ status'[j] = "queued"
     /\ attempt'[j] = attempt[j] /\ InDoubt(j)' = InDoubt(j)
  \/ /\ status[j] = "queued" /\ status'[j] = "running"
     /\ attempt'[j] = attempt[j] + 1 /\ attempt'[j] <= 2 * MaxAttempts[j] - 1 + MaxCloses
     /\ InDoubt(j)' = InDoubt(j)
  \/ /\ status[j] = "running" /\ status'[j] \in Terminal \cup {"queued"}
     /\ attempt'[j] = attempt[j] /\ InDoubt(j)' = InDoubt(j)
  \/ /\ status[j] \in {"queued", "running"} /\ status'[j] = status[j]
     /\ attempt'[j] = attempt[j] /\ InDoubt(j)'
  \/ /\ InDoubt(j)
     /\ \/ status'[j] = status[j]
        \/ status[j] \in Present /\ status'[j] \in Terminal \cup {"queued"}
     /\ attempt'[j] = attempt[j]
  \/ /\ status[j] \in Present \ {"running"} /\ status'[j] = "deleted"
     /\ attempt'[j] = attempt[j] /\ InDoubt(j)' = InDoubt(j)

\* What the API, a sweep and the onClose hook may make of a row.
LEMMA StillMove == ASSUME TypeOK, SweepBusy, Still, NEW j \in Jobs PROVE RowMove(j)
<1>1. attempt' = attempt /\ InDoubt(j)' = InDoubt(j)
  BY StillFacts DEF InDoubt
<1>2. CASE UNCHANGED status
  BY <1>1, <1>2 DEF RowMove, SameRow
<1>3. ASSUME NEW i \in Jobs, Api(i) PROVE RowMove(j)
  <2>1. \/ status'[j] = status[j]
        \/ status[j] = "none" /\ status'[j] = "queued"
        \/ status[j] \in Present \ {"running"} /\ status'[j] = "deleted"
    BY <1>3 DEF Api, Enqueue, RequestCancel, Remove, TypeOK
  <2> QED BY <1>1, <2>1 DEF RowMove, SameRow
<1>4. ASSUME NEW i \in Jobs, SweepRow(i) PROVE RowMove(j)
  <2>1. \/ status'[j] = status[j]
        \/ status[j] = "running" /\ status'[j] \in Terminal \cup {"queued"}
    BY <1>4 DEF SweepRow, SweptStatus, TypeOK, Terminal
  <2> QED BY <1>1, <2>1 DEF RowMove, SameRow
<1>5. CASE Close
  <2>1. \/ status'[j] = status[j]
        \/ status[j] = "running" /\ status'[j] = "queued"
    BY <1>5 DEF Close
  <2> QED BY <1>1, <2>1 DEF RowMove, SameRow
<1> QED
  BY <1>2, <1>3, <1>4, <1>5
  DEF Still, vars, table, BecomeDue, AgeHeartbeat, BecomeOverdue, Heartbeat, BeginSweep, Start

\* An execution of the row decides, writes, or ends the run; one of another
\* row leaves it alone.
LEMMA ExecutionMove ==
  ASSUME TypeOK, PcBound, Unborn, NEW i \in Jobs, NEW n \in Runs, Execute(i, n) \/ DbError(i, n),
         NEW j \in Jobs
  PROVE  RowMove(j)
<1>1. attempt' = attempt
  BY MoveFacts
<1>2. CASE i # j
  <2>1. status'[j] = status[j] /\ InDoubt(j)' = InDoubt(j)
    BY <1>2, MoveFacts, MoveStatus DEF InDoubt
  <2> QED BY <1>1, <2>1 DEF RowMove, SameRow
<1>3. CASE i = j
  <2>1. status[j] \in Present \cup {"deleted"}
    <3>1. pc[j][n] # "none"
      BY <1>3, MoveFacts DEF Live
    <3>2. n <= attempt[j]
      BY <3>1 DEF PcBound
    <3>3. n \in Nat /\ n >= 1
      BY JobQueueAssumption DEF Runs
    <3>4. status[j] # "none"
      BY <3>2, <3>3 DEF Unborn
    <3> QED BY <3>4 DEF TypeOK, Statuses, Present, Terminal
  <2>2. \A m \in Runs : m # n => pc'[j][m] = pc[j][m]
    BY <1>3, MoveFacts
  <2>3. \/ status'[j] = status[j]
        \/ status[j] \in Present /\ status'[j] \in Terminal \cup {"queued"}
    BY <1>3, MoveStatus
  <2>4. CASE pc[j][n] \in Writing
    <3>1. InDoubt(j)
      BY <2>4 DEF InDoubt
    <3> QED BY <1>1, <2>3, <3>1 DEF RowMove
  <2>5. CASE pc'[j][n] \in Writing
    <3>1. InDoubt(j)' /\ status[j] \in {"queued", "running"}
      BY <1>3, <2>1, <2>5, MoveStatus DEF InDoubt, Present
    <3>2. status'[j] = status[j]
      BY <1>3, <2>5, MoveStatus DEF Writing, Live
    <3> QED BY <1>1, <3>1, <3>2 DEF RowMove
  <2>6. CASE pc[j][n] \notin Writing /\ pc'[j][n] \notin Writing
    <3>1. InDoubt(j)' = InDoubt(j)
      BY <2>2, <2>6 DEF InDoubt
    <3>2. \/ status'[j] = status[j]
          \/ status[j] = "running" /\ status'[j] \in Terminal \cup {"queued"}
      BY <1>3, <2>6
      DEF Execute, DbError, Poll, HonorCancel, CheckComplete, WriteComplete, CheckFail, WriteFail,
          Writing, table, TypeOK, Terminal
    <3> QED BY <1>1, <3>1, <3>2 DEF RowMove, SameRow
  <2> QED BY <2>4, <2>5, <2>6
<1> QED BY <1>2, <1>3

LEMMA NextMove == ASSUME IInv, [Next]_vars, NEW j \in Jobs PROVE RowMove(j)
<1> USE DEF IInv, Shape
<1>1. CASE Still
  BY <1>1, StillMove
<1>2. CASE Exit \/ Crash
  <2>1. status'[j] = status[j] /\ attempt'[j] = attempt[j]
    BY <1>2, GoneFacts DEF table
  <2>2. ~InDoubt(j)'
    BY <1>2, GoneFacts DEF InDoubt, Writing, Live
  <2> QED BY <2>1, <2>2 DEF RowMove, SameRow, InDoubt
<1>3. ASSUME NEW i \in Jobs, Claim(i) PROVE RowMove(j)
  <2>1. CASE i # j
    <3>1. status'[j] = status[j] /\ attempt'[j] = attempt[j]
      BY <1>3, <2>1, ClaimFacts DEF TypeOK
    <3>2. \A m \in Runs : pc'[j][m] = pc[j][m]
      BY <1>3, <2>1, ClaimFacts
    <3>3. InDoubt(j)' = InDoubt(j)
      BY <3>2 DEF InDoubt
    <3> QED BY <3>1, <3>3 DEF RowMove, SameRow
  <2>2. CASE i = j
    <3>1. /\ status[j] = "queued" /\ status'[j] = "running"
          /\ attempt'[j] = attempt[j] + 1
      BY <1>3, <2>2, ClaimFacts DEF TypeOK
    <3>2. attempt'[j] <= 2 * MaxAttempts[j] - 1 + MaxCloses
      <4>1. IInv'
        BY StepIInv
      <4>2. attempt'[j] <= 2 * MaxAttempts[j] - 1 + closes'
        <5>1. IInv' => RetryBudget'
          BY BudgetBounds, PTL
        <5> QED BY <4>1, <5>1 DEF RetryBudget
      <4>3. closes' \in 0 .. MaxCloses /\ attempt'[j] \in Nat /\ MaxAttempts[j] \in Nat
        BY <4>1, JobQueueAssumption DEF TypeOK
      <4> QED BY <4>2, <4>3, JobQueueAssumption
    <3>3. InDoubt(j)' = InDoubt(j)
      <4>1. pc[j][attempt[j] + 1] = "none" /\ attempt[j] + 1 \in Runs
        BY <1>3, <2>2, ClaimFacts, JobQueueAssumption DEF PcBound, TypeOK
      <4>2. /\ pc'[j][attempt[j] + 1] = "run"
            /\ \A m \in Runs : m # attempt[j] + 1 => pc'[j][m] = pc[j][m]
        BY <1>3, <2>2, ClaimFacts
      <4> QED BY <4>1, <4>2 DEF InDoubt, Writing
    <3> QED BY <3>1, <3>2, <3>3 DEF RowMove
  <2> QED BY <2>1, <2>2
<1>4. ASSUME NEW i \in Jobs, NEW n \in Runs, Execute(i, n) \/ DbError(i, n) PROVE RowMove(j)
  BY <1>4, ExecutionMove
<1> QED BY <1>1, <1>2, <1>3, <1>4, NextKinds

LEMMA RowMoveImplements == ASSUME NEW j \in Jobs, RowMove(j) PROVE Life!Move(j) \/ Life!Rest(j)
<1>1. InDoubt(j) \in BOOLEAN /\ InDoubt(j)' \in BOOLEAN
  BY DEF InDoubt
<1>2. Life!Present = Present /\ Life!Final = Terminal
  BY DEF Life!Present, Life!Final, Present, Terminal
<1> QED
  BY <1>1, <1>2
  DEF RowMove, SameRow, Life!Move, Life!Rest, Life!Insert, Life!Claim, Life!End, Life!Decide,
      Life!Settle, Life!Delete

LEMMA InitImplements == Init => Life!Init
<1> SUFFICES ASSUME Init PROVE Life!Init
  OBVIOUS
<1>1. \A j \in Jobs : ~InDoubt(j)
  BY DEF Init, InDoubt, Writing
<1> QED BY <1>1 DEF Init, Life!Init, InDoubt

\* The job queue implements the lifecycle: every row is started at most
\* 2 * max_attempts - 1 times plus once per onClose run, moves only along the
\* statuses the lifecycle allows, and a final row is overwritten only by an
\* execution that decided before it became final.
THEOREM Implements == Spec => Lifecycle
<1>1. IInv /\ [Next]_vars => [Life!Next]_(Life!rows)
  <2> SUFFICES ASSUME IInv, [Next]_vars PROVE Life!Next
    OBVIOUS
  <2> QED BY NextMove, RowMoveImplements DEF Life!Next
<1> QED BY <1>1, InitImplements, Invariance, PTL DEF Spec, Lifecycle, Life!Spec
=============================================================================
