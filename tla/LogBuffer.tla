----------------------------- MODULE LogBuffer ------------------------------
(***************************************************************************)
(* The batching of flow logs (services/log-buffer.js) by one owner: a      *)
(* manual execution, which finalizes the buffer before it completes, or a  *)
(* scan executor, which flushes after each cycle (services/flow-executor.js *)
(* executeFlow, ScanExecutor).  Logs are numbered in the order of add().   *)
(* Between two awaits the code runs alone, so a call is one step up to its *)
(* INSERT, whose outcome is another.  The names of the specification begin *)
(* with Log: ScanProofs holds the theorems of ScanCycle and of this one.   *)
(***************************************************************************)
EXTENDS Naturals, Sequences

CONSTANTS BatchSize,  \* logs that make add() flush
          MaxLogs,    \* bound: logs of one owner
          MaxErrors   \* bound: INSERTs that fail

ASSUME LogBufferAssumption ==
  BatchSize \in Nat \ {0} /\ MaxLogs \in Nat \ {0} /\ MaxErrors \in Nat

VARIABLES
  buffer,    \* this.buffer
  timer,     \* this.timer: null, armed, or left over from a timer that fired
  flushing,  \* this.flushing
  flights,   \* batches whose INSERT is awaited
  table,     \* flow_execution_logs, in the order of the INSERTs
  dropped,   \* logs of failed INSERTs
  added,     \* logs added so far
  owner,     \* "manual" or "scan"
  pc,        \* where the owner is
  wait,      \* the batch finalize() awaits, or <<>>
  errors

logVars == <<buffer, timer, flushing, flights, table, dropped, added, owner, pc, wait, errors>>
stored == <<table, dropped, errors>>

Logs == 1 .. MaxLogs
In(b) == {b[i] : i \in DOMAIN b}

\* A batch is never empty.
LogTypeOK ==
  /\ buffer \in Seq(Logs)
  /\ timer \in {"none", "armed", "fired"} /\ flushing \in BOOLEAN
  /\ \A b \in flights : b \in Seq(Logs) \ {<<>>}
  /\ table \in Seq(Logs) /\ dropped \subseteq Logs
  /\ added \in 0 .. MaxLogs
  /\ owner \in {"manual", "scan"} /\ pc \in {"run", "last", "end", "done"}
  /\ wait \in Seq(Logs) /\ errors \in 0 .. MaxErrors

LogInit ==
  /\ buffer = <<>> /\ timer = "none" /\ flushing = FALSE /\ flights = {}
  /\ table = <<>> /\ dropped = {} /\ added = 0
  /\ owner \in {"manual", "scan"} /\ pc = "run" /\ wait = <<>> /\ errors = 0

-----------------------------------------------------------------------------
(* flush() of a buffer b; t is the timer if it returns at once.            *)

\* Mutant: flush() does not look at this.flushing.
FlushAlways(b, t) ==
  IF b = <<>> THEN buffer' = b /\ timer' = t /\ UNCHANGED <<flushing, flights>>
  ELSE buffer' = <<>> /\ timer' = "none" /\ flushing' = TRUE /\ flights' = flights \cup {b}

Flush(b, t) ==
  IF b = <<>> \/ flushing
    THEN buffer' = b /\ timer' = t /\ UNCHANGED <<flushing, flights>>
    ELSE buffer' = <<>> /\ timer' = "none" /\ flushing' = TRUE /\ flights' = flights \cup {b}

Pushed == Append(buffer, added + 1)
Full == Len(Pushed) >= BatchSize
Timed == IF timer = "none" /\ ~Full THEN "armed" ELSE timer

\* add(): by a node, or by one that goes on after its timeout.
Log ==
  /\ added < MaxLogs
  /\ added' = added + 1
  /\ IF Full THEN Flush(Pushed, timer)
     ELSE buffer' = Pushed /\ timer' = Timed /\ UNCHANGED <<flushing, flights>>
  /\ UNCHANGED <<stored, owner, pc, wait>>

\* A timer that fires while an INSERT is awaited stays in this.timer.
TimerFires ==
  /\ timer = "armed"
  /\ Flush(buffer, "fired")
  /\ UNCHANGED <<stored, added, owner, pc, wait>>

Landed(b) ==
  /\ flights' = flights \ {b} /\ flushing' = FALSE
  /\ wait' = IF wait = b THEN <<>> ELSE wait
  /\ \/ table' = table \o b /\ UNCHANGED <<dropped, errors>>
     \/ /\ errors < MaxErrors /\ errors' = errors + 1
        /\ dropped' = dropped \cup In(b) /\ UNCHANGED table
  /\ UNCHANGED <<timer, added, owner, pc>>

\* Mutant: the buffer is emptied after the INSERT instead of before.
InsertEndsClearing(b) == Landed(b) /\ buffer' = <<>>

InsertEnds(b) == Landed(b) /\ UNCHANGED buffer

-----------------------------------------------------------------------------
(* The owner.                                                              *)

Awaited(b) == IF b = <<>> \/ flushing THEN <<>> ELSE b

\* executeFlow: finalize() before its last log ...
Finalize ==
  /\ owner = "manual" /\ pc = "run" /\ pc' = "last"
  /\ Flush(buffer, timer) /\ wait' = Awaited(buffer)
  /\ UNCHANGED <<stored, added, owner>>

\* ... and after it; if add() has flushed, finalize() returns at once.
LogLast ==
  /\ owner = "manual" /\ pc = "last" /\ wait = <<>> /\ added < MaxLogs
  /\ added' = added + 1 /\ pc' = "end"
  /\ Flush(Pushed, Timed)
  /\ wait' = IF Full THEN <<>> ELSE Awaited(Pushed)
  /\ UNCHANGED <<stored, owner>>

Complete ==
  /\ owner = "manual" /\ pc = "end" /\ wait = <<>> /\ pc' = "done"
  /\ UNCHANGED <<buffer, timer, flushing, flights, stored, added, owner, wait>>

\* Mutant: a scan cycle does not flush.
CycleEndsUnflushed ==
  /\ owner = "scan" /\ pc = "run"
  /\ UNCHANGED logVars

\* The flush after each scan cycle; nobody awaits it.
CycleEnds ==
  /\ owner = "scan" /\ pc = "run"
  /\ Flush(buffer, timer)
  /\ UNCHANGED <<stored, added, owner, pc, wait>>

\* ScanExecutor.stop() adds a log and calls finalize(), not awaited.
StopScan ==
  /\ owner = "scan" /\ pc = "run" /\ added < MaxLogs
  /\ added' = added + 1 /\ pc' = "done"
  /\ Flush(Pushed, Timed)
  /\ UNCHANGED <<stored, owner, wait>>

-----------------------------------------------------------------------------
LogNext ==
  \/ Log \/ TimerFires \/ \E b \in flights : InsertEnds(b)
  \/ Finalize \/ LogLast \/ Complete \/ CycleEnds \/ StopScan

LogSpec == LogInit /\ [][LogNext]_logVars

\* The timer fires, the database answers, and a running scan goes round.
FairLogSpec ==
  LogSpec /\ WF_logVars(TimerFires) /\ WF_logVars(\E b \in flights : InsertEnds(b)) /\ WF_logVars(CycleEnds)

-----------------------------------------------------------------------------
(* Properties.                                                             *)

\* Batches reach the table one at a time, in the order of the logs, also when
\* timer, full buffer, cycle and finalize() call flush() during an INSERT.
InOrder == \A i, j \in DOMAIN table : i < j => table[i] < table[j]

\* No log disappears while an INSERT is awaited: it is buffered, under way,
\* stored or in a batch whose INSERT failed.
Accounted ==
  1 .. added = In(buffer) \cup (UNION {In(b) : b \in flights}) \cup In(table) \cup dropped

\* While a flow is scanned, every log leaves the buffer, even if the timer was
\* spent during an INSERT.
ScanDrains ==
  \A i \in Logs : owner = "scan" /\ pc = "run" /\ i \in In(buffer) ~> i \notin In(buffer) \/ pc = "done"

=============================================================================
