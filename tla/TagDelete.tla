----------------------------- MODULE TagDelete ------------------------------
(***************************************************************************)
(* The deletion of tags and their stored values: the request that marks    *)
(* the tags and queues one job (routes/connectivity.js), the handler       *)
(* _runTagsDelete, the passes of the dispatcher that repair such jobs      *)
(* (services/jobs.js) and the telemetry that may still arrive for the tags *)
(* (services/telemetry-ingest.js).                                         *)
(*                                                                         *)
(* rows[t] counts the stored values of a tag.  The job is one of           *)
(* JobQueue.tla with max_attempts 1; complete() and fail() are one step    *)
(* here, and the generic sweeps may fail a running job any time.           *)
(***************************************************************************)
EXTENDS Naturals, FiniteSets

CONSTANTS NumTags,     \* tags of the connection
          Rows,        \* Rows[t]: values stored for tag t at first
          Batch,       \* batch_size of the job (100 .. 5000): values deleted at a time
          MaxInserts,  \* bound: values that arrive after the removal
          MaxCrashes,  \* bound: deaths of the core process
          MaxErrors    \* bound: statements that fail

Tags == 1 .. NumTags

ASSUME TagDeleteAssumption ==
  /\ NumTags \in Nat /\ Rows \in [Tags -> Nat] /\ Batch \in Nat
  /\ MaxInserts \in Nat /\ MaxCrashes \in Nat /\ MaxErrors \in Nat

VARIABLES
  tag,      \* tag_metadata.status
  rows,     \* tag_values
  last,     \* the job is about tags 1 .. last
  job,      \* jobs.status
  cancel,   \* jobs.cancellation_requested
  full,     \* jobs.progress.pct >= 99.5
  route,    \* where the request is
  h,        \* where the handler is
  cur,      \* the tag it works on
  tries,    \* verification attempts for that tag
  deleted, total,  \* its counters
  pass,     \* where the dispatcher is in a maintenance pass
  mcur,     \* the tag the pass drains next
  dropped,  \* deletedTags of the ingest
  up,       \* the core process is alive
  late,     \* history: the request marked the tags after the handler had
  spared,   \* history: tags the handler had not begun when cancel was requested
  came,     \* came[t]: values of t that arrived after the removal
  blind,    \* history: a pass took a count that failed for a count of 0
  crashes, errors

data == <<tag, rows>>
work == <<h, cur, tries, deleted, total>>
maint == <<pass, mcur>>
faults == <<blind, errors>>
kept == <<last, route, dropped, up, late, spared, came, blind, crashes>>
rest == <<kept, errors>>
vars == <<data, job, cancel, full, work, maint, rest>>

Deleting == {"pending_delete", "deleting"}
Named == 1 .. last
Alias == last = 1  \* tags/remove queues 'tag_delete', tags/remove-batch 'tags_delete'
Sum(f) == LET s[t \in 0 .. NumTags] == IF t = 0 THEN 0 ELSE f[t] + s[t - 1] IN s[last]
Less(n, batch) == IF n <= batch THEN 0 ELSE n - batch
MiniBatch == 500  \* what the stalled pass deletes of a tag
Nearly(part, whole) == 200 * part >= 199 * whole  \* 99.5 %

TypeOK ==
  /\ tag \in [Tags -> {"active", "deleted"} \cup Deleting]
  /\ rows \in [Tags -> Nat]
  /\ last \in 0 .. NumTags
  /\ job \in {"none", "queued", "running", "completed", "failed", "cancelled"}
  /\ cancel \in BOOLEAN /\ full \in BOOLEAN
  /\ route \in {"idle", "enqueue", "remark", "done"}
  /\ h \in {"off", "mark", "count", "next", "batch", "delete", "verify", "redelete", "residual",
            "clean", "restore", "cancel", "complete", "fail", "done", "dead"}
  /\ cur \in 0 .. NumTags + 1 /\ tries \in 0 .. 3
  /\ deleted \in Nat /\ total \in Nat
  /\ pass \in {"idle", "startup", "enforce", "cancel", "count", "force", "finish", "drain"}
  /\ mcur \in 0 .. NumTags + 1
  /\ dropped \subseteq Tags
  /\ up \in BOOLEAN /\ late \in BOOLEAN /\ spared \subseteq Tags
  /\ came \in [Tags -> 0 .. MaxInserts] /\ blind \in BOOLEAN
  /\ crashes \in 0 .. MaxCrashes /\ errors \in 0 .. MaxErrors

Init ==
  /\ tag = [t \in Tags |-> "active"] /\ rows = Rows
  /\ last = 0 /\ job = "none" /\ cancel = FALSE /\ full = FALSE
  /\ route = "idle" /\ h = "off" /\ cur = 0 /\ tries = 0
  /\ deleted = 0 /\ total = 0
  /\ pass = "idle" /\ mcur = 0 /\ dropped = {}
  /\ up = TRUE /\ late = FALSE /\ spared = {}
  /\ came = [t \in Tags |-> 0] /\ blind = FALSE
  /\ crashes = 0 /\ errors = 0

-----------------------------------------------------------------------------
(* The request, and the job API.                                           *)

\* Polling is stopped and the tags are marked.
Remove(n) ==
  /\ up /\ route = "idle"
  /\ last' = n
  /\ tag' = [t \in Tags |-> IF t <= n THEN "pending_delete" ELSE tag[t]]
  /\ route' = "enqueue"
  /\ UNCHANGED <<rows, job, cancel, full, work, maint, dropped, up, late, spared, came, crashes, faults>>

Enqueue ==
  /\ up /\ route = "enqueue"
  /\ job' = "queued" /\ route' = "remark"
  /\ UNCHANGED <<data, cancel, full, work, maint, last, dropped, up, late, spared, came, crashes, faults>>

\* The UPDATE that follows names no status: it also hits tags that the job
\* has deleted or restored by now.
Remark ==
  /\ up /\ route = "remark"
  /\ tag' = [t \in Tags |-> IF t \in Named THEN "deleting" ELSE tag[t]]
  /\ late' = (h # "off")
  /\ route' = "done"
  /\ UNCHANGED <<rows, job, cancel, full, work, maint, last, dropped, up, spared, came, crashes, faults>>

Untouched == {t \in Named : t > cur \/ (t = cur /\ h = "next")}

RequestCancel ==
  /\ up /\ job \in {"queued", "running"} /\ ~cancel
  /\ cancel' = TRUE
  /\ spared' = Untouched
  /\ UNCHANGED <<data, job, full, work, maint, last, route, dropped, up, late, came, crashes, faults>>

-----------------------------------------------------------------------------
(* The handler _runTagsDelete.                                             *)

At(where) == up /\ h = where

\* A statement that fails.
Err == errors < MaxErrors /\ errors' = errors + 1

\* The handler's updates of tag_metadata: a failure is logged and passed over.
Writes(status) ==
  \/ tag' = status /\ UNCHANGED errors
  \/ Err /\ UNCHANGED tag

Claim ==
  /\ up /\ job = "queued" /\ ~cancel /\ pass = "idle"
  /\ job' = "running" /\ h' = "mark" /\ cur' = 0
  /\ UNCHANGED <<data, cancel, full, tries, deleted, total, maint, rest>>

MarkDeleting ==
  /\ At("mark") /\ h' = "count"
  /\ Writes([t \in Tags |-> IF t \in Named /\ tag[t] # "deleted" THEN "deleting" ELSE tag[t]])
  /\ UNCHANGED <<rows, job, cancel, full, cur, tries, deleted, total, maint, kept>>

\* The totals of the progress, which starts at 0; a failed count passes for 0.
CountRows ==
  /\ At("count") /\ h' = "next"
  /\ cur' = 1 /\ deleted' = 0
  /\ \/ total' = Sum(rows) /\ UNCHANGED errors
     \/ total' = 0 /\ Err
  /\ full' = (job # "running" /\ full)
  /\ UNCHANGED <<data, job, cancel, tries, maint, kept>>

\* Mutant: the loop over the tags does not look at cancellation_requested.
NextTagUnasked ==
  /\ At("next")
  /\ h' = "batch" /\ tries' = 0
  /\ UNCHANGED <<data, job, cancel, full, cur, deleted, total, maint, rest>>

NextTag ==
  /\ At("next")
  /\ h' = IF cancel THEN "restore" ELSE "batch"
  /\ tries' = 0
  /\ UNCHANGED <<data, job, cancel, full, cur, deleted, total, maint, rest>>

SelectBatch ==
  /\ At("batch")
  /\ h' = IF cancel \/ rows[cur] = 0 THEN "verify" ELSE "delete"
  /\ UNCHANGED <<data, job, cancel, full, cur, tries, deleted, total, maint, rest>>

\* The DELETE and, if it found rows, the progress of the job: by values or,
\* without a total, by tags and the share of this one, which is not kept
\* here (above 1 if values arrive meanwhile).
DeleteBatch ==
  LET gone == rows[cur] > 0 IN
  /\ At("delete")
  /\ rows' = [rows EXCEPT ![cur] = Less(@, Batch)]
  /\ deleted' = deleted + (rows[cur] - rows'[cur])
  /\ full' \in IF gone /\ job = "running"
               THEN IF total > 0 THEN {Nearly(deleted', total)}
                    ELSE {Nearly(cur - 1 + share, last) : share \in 0 .. 1 + came[cur]}
               ELSE {full}
  /\ h' = IF gone THEN "batch" ELSE "verify"
  /\ UNCHANGED <<tag, job, cancel, cur, tries, total, maint, rest>>

\* Mutant: a tag with residual rows is finished like any other.
VerifyNever ==
  /\ At("verify")
  /\ h' = "clean" /\ tries' = tries
  /\ UNCHANGED <<data, job, cancel, full, cur, deleted, total, maint, rest>>

Verify ==
  /\ At("verify")
  /\ IF rows[cur] = 0 THEN h' = "clean" /\ tries' = tries
     ELSE h' = "redelete" /\ tries' = tries + 1
  /\ UNCHANGED <<data, job, cancel, full, cur, deleted, total, maint, rest>>

\* A last try, cancelled or not; the third one is not verified any more.
Redelete ==
  /\ At("redelete")
  /\ rows' = [rows EXCEPT ![cur] = Less(@, Batch)]
  /\ h' = IF tries = 3 THEN "residual" ELSE "verify"
  /\ UNCHANGED <<tag, job, cancel, full, cur, tries, deleted, total, maint, rest>>

\* Mutant: the tag with residual rows keeps its status.
ResidualKept ==
  /\ At("residual") /\ h' = "fail"
  /\ UNCHANGED <<data, job, cancel, full, cur, tries, deleted, total, maint, rest>>

Residual ==
  /\ At("residual") /\ h' = "fail"
  /\ Writes([tag EXCEPT ![cur] = "active"])
  /\ UNCHANGED <<rows, job, cancel, full, cur, tries, deleted, total, maint, kept>>

\* Mutant: the job is completed after its first tag.
FinishFirstTag ==
  /\ At("clean")
  /\ Writes([tag EXCEPT ![cur] = "deleted"])
  /\ full' = IF job # "running" THEN full
             ELSE IF total > 0 THEN Nearly(deleted, total) ELSE Nearly(cur, last)
  /\ cur' = cur + 1 /\ h' = "complete"
  /\ UNCHANGED <<rows, job, cancel, tries, deleted, total, maint, kept>>

\* The tag is done; so is the job after the last one.
FinishTag ==
  /\ At("clean")
  /\ Writes([tag EXCEPT ![cur] = "deleted"])
  /\ full' = IF job # "running" THEN full
             ELSE IF total > 0 THEN Nearly(deleted, total) ELSE Nearly(cur, last)
  /\ cur' = cur + 1
  /\ h' = IF cur = last THEN "complete" ELSE "next"
  /\ UNCHANGED <<rows, job, cancel, tries, deleted, total, maint, kept>>

Restored(t) == [tag EXCEPT ![t] = IF @ \in Deleting THEN "active" ELSE @]

\* A cancelled handler restores this tag and the ones after it.
RestoreTag ==
  /\ At("restore")
  /\ Writes(Restored(cur))
  /\ cur' = cur + 1
  /\ h' = IF cur = last THEN "cancel" ELSE "restore"
  /\ UNCHANGED <<rows, job, cancel, full, tries, deleted, total, maint, kept>>

\* The end: each of the three leaves a job alone that is not running.
EndJob ==
  /\ up /\ h \in {"cancel", "complete", "fail"} /\ h' = "done"
  /\ job' = IF job # "running" THEN job
            ELSE CASE h = "cancel" -> "cancelled" [] h = "complete" -> "completed"
                   [] h = "fail" -> "failed"
  /\ UNCHANGED <<data, cancel, full, cur, tries, deleted, total, maint, rest>>

\* Any other statement that fails: the dispatcher calls fail().
Throw ==
  /\ up /\ h \in {"next", "batch", "delete", "verify", "redelete"} /\ Err
  /\ h' = "fail"
  /\ UNCHANGED <<data, job, cancel, full, cur, tries, deleted, total, maint, kept>>

Handle ==
  \/ MarkDeleting \/ CountRows \/ NextTag \/ SelectBatch \/ DeleteBatch
  \/ Verify \/ Redelete \/ Residual \/ FinishTag \/ RestoreTag \/ EndJob
  \/ Throw

-----------------------------------------------------------------------------
(* The passes of the dispatcher, one at a time, each begun by reading the  *)
(* job as running.                                                         *)

Idle == up /\ pass = "idle" /\ job = "running"
AllDeleted == \A t \in Named : tag[t] = "deleted"
AnyPending == \E t \in Named : tag[t] \in Deleting
AllEmpty == \A t \in Named : rows[t] = 0

Repair(where) == pass' = where /\ mcur' = 1

\* _recoverStale and the runtime limit: the attempts are used up.
FailStale ==
  /\ Idle
  /\ job' = "failed"
  /\ UNCHANGED <<data, cancel, full, work, maint, rest>>

\* _enforceCancellationRequests restores the tag of a 'tag_delete' only.
BeginEnforce ==
  /\ Idle /\ cancel
  /\ Repair(IF Alias THEN "enforce" ELSE "cancel")
  /\ UNCHANGED <<data, job, cancel, full, work, rest>>

EnforceRestore ==
  /\ up /\ pass = "enforce"
  /\ Writes(Restored(1))
  /\ Repair("cancel")
  /\ UNCHANGED <<rows, job, cancel, full, work, kept>>

EnforceCancel ==
  /\ up /\ pass = "cancel"
  /\ job' = IF job = "running" THEN "cancelled" ELSE job
  /\ Repair("idle")
  /\ UNCHANGED <<data, cancel, full, work, rest>>

\* _reconcileOrphanedTagDeleteJobs.
BeginReconcile ==
  /\ Idle
  /\ Repair(IF AllDeleted THEN "finish" ELSE IF AnyPending THEN "count" ELSE "idle")
  /\ UNCHANGED <<data, job, cancel, full, work, rest>>

\* Mutant: the rows are not counted before the tags are declared deleted.
ReconcileCountSkipped ==
  /\ up /\ pass = "count"
  /\ Repair("force")
  /\ UNCHANGED <<data, job, cancel, full, work, rest>>

ReconcileCount ==
  /\ up /\ pass = "count"
  /\ Repair(IF AllEmpty THEN "force" ELSE "idle")
  /\ UNCHANGED <<data, job, cancel, full, work, rest>>

ForceDeleted ==
  /\ up /\ pass = "force"
  /\ tag' = [t \in Tags |-> IF t \in Named THEN "deleted" ELSE tag[t]]
  /\ Repair("finish")
  /\ UNCHANGED <<rows, job, cancel, full, work, rest>>

FinishJob ==
  /\ up /\ pass = "finish"
  /\ job' = IF job = "running" THEN "completed" ELSE job
  /\ Repair("idle")
  /\ UNCHANGED <<data, cancel, full, work, rest>>

\* _reconcileStalledTagDeleteJobs: nothing left to delete, or one batch of
\* each tag.
BeginStalled ==
  /\ Idle /\ full
  /\ Repair(IF AllEmpty THEN "force" ELSE "drain")
  /\ UNCHANGED <<data, job, cancel, full, work, rest>>

\* The count that fails leaves remaining at 0, and the job is finalized.
StalledCountFails ==
  /\ Idle /\ full /\ Err
  /\ blind' = TRUE
  /\ Repair("force")
  /\ UNCHANGED <<data, job, cancel, full, work, last, route, dropped, up, late, spared, came, crashes>>

Drain ==
  /\ up /\ pass = "drain"
  /\ rows' = [rows EXCEPT ![mcur] = Less(@, MiniBatch)]
  /\ mcur' = mcur + 1
  /\ pass' = IF mcur = last THEN "idle" ELSE "drain"
  /\ UNCHANGED <<tag, job, cancel, full, work, rest>>

\* _startupReconcile, before the dispatcher begins: the same cases, and a job
\* with no tag in deletion is queued again whatever its attempts.
StartupReconcile ==
  /\ up /\ pass = "startup"
  /\ IF job # "running" THEN Repair("idle") /\ UNCHANGED job
     ELSE IF AllDeleted THEN Repair("finish") /\ UNCHANGED job
     ELSE IF AnyPending THEN Repair("count") /\ UNCHANGED job
     ELSE Repair("idle") /\ job' = "queued"
  /\ UNCHANGED <<data, cancel, full, work, rest>>

\* Any other statement of a pass that fails ends the pass for this job.
PassFails ==
  /\ up /\ pass \in {"startup", "cancel", "count", "force", "finish", "drain"} /\ Err
  /\ Repair("idle")
  /\ UNCHANGED <<data, job, cancel, full, work, kept>>

Maintain ==
  \/ FailStale \/ BeginEnforce \/ EnforceRestore \/ EnforceCancel
  \/ BeginReconcile \/ ReconcileCount \/ ForceDeleted \/ FinishJob
  \/ BeginStalled \/ StalledCountFails \/ Drain \/ StartupReconcile \/ PassFails

-----------------------------------------------------------------------------
(* Telemetry and the process.                                              *)

\* A value of a removed tag arrives late; only tags known as deleted are
\* dropped.
Insert(t) ==
  /\ up /\ Sum(came) < MaxInserts /\ t \in Named \ dropped
  /\ rows' = [rows EXCEPT ![t] = @ + 1]
  /\ came' = [came EXCEPT ![t] = @ + 1]
  /\ UNCHANGED <<tag, job, cancel, full, work, maint, last, route, dropped, up, late, spared, crashes, faults>>

\* refreshDeletedTags, every 30 s.
Refresh ==
  /\ up
  /\ dropped' = {t \in Tags : tag[t] = "deleted"}
  /\ UNCHANGED <<data, job, cancel, full, work, maint, last, route, up, late, spared, came, crashes, faults>>

Crash ==
  /\ up /\ crashes < MaxCrashes
  /\ crashes' = crashes + 1 /\ up' = FALSE
  /\ h' = IF h \in {"off", "done"} THEN h ELSE "dead"
  /\ Repair("idle")
  /\ route' = IF route = "idle" THEN "idle" ELSE "done"
  /\ UNCHANGED <<data, job, cancel, full, cur, tries, deleted, total, last, dropped, late, spared, came, faults>>

Start ==
  /\ ~up /\ up' = TRUE
  /\ Repair("startup")
  /\ dropped' = {t \in Tags : tag[t] = "deleted"}
  /\ UNCHANGED <<data, job, cancel, full, work, last, route, late, spared, came, crashes, faults>>

-----------------------------------------------------------------------------
Next ==
  \/ \E n \in Tags : Remove(n) \/ Insert(n)
  \/ Enqueue \/ Remark \/ RequestCancel \/ Claim \/ Handle \/ Maintain
  \/ Refresh \/ Crash \/ Start

Spec == Init /\ [][Next]_vars

-----------------------------------------------------------------------------
(* Properties.                                                             *)

NoneLate == \A t \in Tags : came[t] = 0

\* The comments at the passes ("verify and finalize", "all values gone"): a tag
\* is declared deleted only when its values are gone, whoever declares it.
\* What is stored under a deleted tag arrived late.  It holds of handler,
\* reconcile, stalled and startup pass, across crashes, cancellations and failing
\* statements, but for the one count whose failure is taken for 0.
DeletedIsEmpty ==
  ~blind => \A t \in Tags : tag[t] = "deleted" => rows[t] <= came[t]

\* A job that completes has deleted every tag it was queued for, unless it was
\* cancelled, values arrived late or a statement failed.
CompletedDeletes ==
  job = "completed" /\ ~cancel /\ ~late /\ NoneLate /\ errors = 0 => AllDeleted

\* However the handler ends, it leaves a tag in deletion only behind a tag it
\* gave up because of residual rows.
HandlerSettles ==
  h = "done" /\ ~late /\ route = "done" /\ errors = 0 =>
    \A t \in Named : tag[t] \in Deleting => \E u \in 1 .. (t - 1) : tag[u] = "active"

\* The tags of S are few: they held 0.5 % of the values or, in case the first
\* count failed, are 0.5 % of the tags.
Held(S) == Sum([t \in Tags |-> IF t \in S THEN Rows[t] ELSE 0])
Few(S) == 200 * Held(S) <= Sum(Rows) \/ 200 * Cardinality(S) <= last

\* A cancellation reaches every tag the handler has not begun: its values
\* stay as they were, also when the job was killed and repaired.  Only the
\* stalled pass may cost tags their values all the same, and only few: it takes
\* a job from 99.5 % on and deletes of each of its tags.
CancelSpares ==
  NoneLate => (\A t \in spared : rows[t] = Rows[t]) \/ Few(spared)
=============================================================================
