---------------------------- MODULE JobLifecycle ----------------------------
(***************************************************************************)
(* What the job queue promises about the rows of `jobs`, seen from         *)
(* outside: which status may follow which, how often a job is started, and *)
(* who may change a status that was already final.                         *)
(*                                                                         *)
(* The statuses are those of the schema's CHECK, the moves those that      *)
(* enqueue, the dispatcher, complete, fail, the sweeps and remove make.    *)
(* doubt[j] says that some execution has read row j, has decided to write  *)
(* a status and has not written it: only such an execution may overwrite a *)
(* final status, and none comes into doubt once the status is final.       *)
(* One statement may move many rows, so a step moves each row or leaves it *)
(* alone.                                                                  *)
(***************************************************************************)
EXTENDS Naturals

CONSTANTS Jobs,
          Tries        \* Tries[j]: how often job j may be started

VARIABLES state,       \* jobs.status, "none" before the INSERT
          claims,      \* jobs.attempt
          doubt        \* an execution stands between its check and its write

rows == <<state, claims, doubt>>

Final == {"completed", "failed", "cancelled"}
Present == Final \cup {"queued", "running"}

Init ==
  /\ state = [j \in Jobs |-> "none"]
  /\ claims = [j \in Jobs |-> 0]
  /\ doubt = [j \in Jobs |-> FALSE]

Insert(j) ==
  /\ state[j] = "none" /\ state'[j] = "queued"
  /\ claims'[j] = claims[j] /\ doubt'[j] = doubt[j]

\* Every start is counted, and there are at most Tries[j] of them.
Claim(j) ==
  /\ state[j] = "queued" /\ state'[j] = "running"
  /\ claims'[j] = claims[j] + 1 /\ claims'[j] <= Tries[j]
  /\ doubt'[j] = doubt[j]

\* The handler or a sweep ends the run, for good or for a retry.
End(j) ==
  /\ state[j] = "running" /\ state'[j] \in Final \cup {"queued"}
  /\ claims'[j] = claims[j] /\ doubt'[j] = doubt[j]

\* An execution decides on what it has read; a final row is left alone.
Decide(j) ==
  /\ state[j] \in {"queued", "running"} /\ state'[j] = state[j]
  /\ claims'[j] = claims[j] /\ doubt'[j]

\* It writes, over whatever the row has become, or dies before it writes.
Settle(j) ==
  /\ doubt[j] /\ doubt'[j] \in BOOLEAN
  /\ \/ state'[j] = state[j]
     \/ state[j] \in Present /\ state'[j] \in Final \cup {"queued"}
  /\ claims'[j] = claims[j]

Delete(j) ==
  /\ state[j] \in Present \ {"running"} /\ state'[j] = "deleted"
  /\ claims'[j] = claims[j] /\ doubt'[j] = doubt[j]

Rest(j) == state'[j] = state[j] /\ claims'[j] = claims[j] /\ doubt'[j] = doubt[j]

Move(j) == Insert(j) \/ Claim(j) \/ End(j) \/ Decide(j) \/ Settle(j) \/ Delete(j)

Next == \A j \in Jobs : Move(j) \/ Rest(j)

Spec == Init /\ [][Next]_rows
=============================================================================
