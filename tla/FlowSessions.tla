---------------------------- MODULE FlowSessions ----------------------------
(***************************************************************************)
(* The continuous execution of one flow in the core process: the `flows`   *)
(* row (deployed, test_mode), the flow_execution jobs that start it, the   *)
(* FlowSession each of them builds, the flow_sessions rows, and the        *)
(* in-memory registry FlowSession.activeSessions that undeploying consults *)
(* (services/flow-session.js, services/flow-executor.js,                   *)
(* services/flow-bootstrap.js, routes/flows.js, server.js).                *)
(*                                                                         *)
(* One step is what runs between two awaits.  A request handler is a       *)
(* process of its own, so is the handler of each job; nothing orders them. *)
(* The job queue is the one of JobQueue.tla, seen from a job type that     *)
(* never retries (max_attempts 1): claimed once, then ended by its handler *)
(* or, if it stays running, by a sweep.                                    *)
(***************************************************************************)
EXTENDS Naturals

CONSTANTS NumJobs,      \* bound: flow_execution jobs ever inserted
          NumRequests,  \* bound: HTTP requests
          MaxCrashes,   \* bound: deaths of the core process
          MaxErrors     \* bound: failing database calls

Jobs == 1 .. NumJobs
Requests == 1 .. NumRequests

ASSUME FlowSessionsAssumption ==
  /\ NumJobs \in Nat /\ NumRequests \in Nat
  /\ MaxCrashes \in Nat /\ MaxErrors \in Nat

VARIABLES
  flow,      \* the flows row: [present, deployed, test]
  job,       \* job[s]: status of the s-th flow_execution job
  pc,        \* pc[s]: where the handler of job s is
  ses,       \* ses[s]: the FlowSession object of job s, "live" while its timer is armed
  row,       \* row[s]: its flow_sessions row
  registry,  \* activeSessions.get(flow.id), 0 when absent
  req,       \* req[r]: where request r is
  target,    \* target[r]: the session whose stop() request r awaits
  phase,     \* of the process; "boot" until the orphaned rows are stopped
  boot,      \* where restartDeployedFlows is
  raced,     \* history: a session began to start before its predecessor was fully gone
  crashes, errors

vars == <<flow, job, pc, ses, row, registry, req, target, phase, boot, raced, crashes, errors>>
process == <<phase, boot, raced, crashes, errors>>

Starting == {"read", "insert", "tags", "scan"}
Open == {"queued", "running"}
Running == {"starting", "live"}

TypeOK ==
  /\ flow \in [present : BOOLEAN, deployed : BOOLEAN, test : BOOLEAN]
  /\ job \in [Jobs -> Open \cup {"none", "completed", "failed"}]
  /\ pc \in [Jobs -> Starting \cup {"none", "error", "fail", "complete", "done", "lost"}]
  /\ ses \in [Jobs -> Running \cup {"none", "stopped", "lost"}]
  /\ row \in [Jobs -> {"none", "active", "stopped", "error", "gone"}]
  /\ registry \in {0} \cup Jobs
  /\ req \in [Requests -> {"idle", "queue", "turnOn", "turnOff", "keepOn", "keepOff",
                           "stop", "update", "delete", "done"}]
  /\ target \in [Requests -> {0} \cup Jobs]
  /\ phase \in {"down", "boot", "up"}
  /\ boot \in {"off", "due", "query", "insert", "done"}
  /\ raced \in BOOLEAN
  /\ crashes \in 0 .. MaxCrashes
  /\ errors \in 0 .. MaxErrors

Init ==
  /\ flow = [present |-> TRUE, deployed |-> FALSE, test |-> FALSE]
  /\ job = [s \in Jobs |-> "none"]
  /\ pc = [s \in Jobs |-> "none"]
  /\ ses = [s \in Jobs |-> "none"]
  /\ row = [s \in Jobs |-> "none"]
  /\ registry = 0
  /\ req = [r \in Requests |-> "idle"]
  /\ target = [r \in Requests |-> 0]
  /\ phase = "down" /\ boot = "off"
  /\ raced = FALSE
  /\ crashes = 0 /\ errors = 0

Wanted == flow.present /\ (flow.deployed \/ flow.test)

\* INSERT INTO jobs ... 'queued'
Queue(s) ==
  /\ job[s] = "none"
  /\ \A t \in 1 .. (s - 1) : job[t] # "none"
  /\ job' = [job EXCEPT ![s] = "queued"]

-----------------------------------------------------------------------------
(* The requests of routes/flows.js.                                        *)

Reach(r, where) == req' = [req EXCEPT ![r] = where]

\* A request arrives: requests are taken in order and each is used once.
Arrives(r) ==
  /\ phase = "up" /\ req[r] = "idle"
  /\ \A q \in 1 .. (r - 1) : req[q] # "idle"
  /\ flow.present

\* POST deploy: UPDATE flows SET deployed, then a job or a stop.
SetDeployed(r, on) ==
  /\ Arrives(r)
  /\ flow' = [flow EXCEPT !.deployed = on]
  /\ Reach(r, IF on THEN "queue" ELSE "stop")
  /\ UNCHANGED <<job, pc, ses, row, registry, target, process>>

\* PUT flow with test_mode: the old value is read first ...
ReadTest(r, on) ==
  /\ Arrives(r)
  /\ Reach(r, IF on THEN (IF flow.test THEN "keepOn" ELSE "turnOn")
              ELSE (IF flow.test THEN "turnOff" ELSE "keepOff"))
  /\ UNCHANGED <<flow, job, pc, ses, row, registry, target, process>>

\* ... and compared after the UPDATE.  A row deleted meanwhile makes the
\* branch that starts a session throw, not the one that stops it.
SetTest(r) ==
  /\ phase = "up" /\ req[r] \in {"turnOn", "turnOff", "keepOn", "keepOff"}
  /\ flow' = [flow EXCEPT !.test = IF flow.present THEN req[r] \in {"turnOn", "keepOn"} ELSE @]
  /\ Reach(r, CASE req[r] = "turnOn" /\ flow.present -> "queue"
                [] req[r] = "turnOff" -> "stop"
                [] OTHER -> "done")
  /\ UNCHANGED <<job, pc, ses, row, registry, target, process>>

\* POST execute, of a continuous flow that is deployed or in test mode.
RequestExecute(r) ==
  /\ Arrives(r) /\ Wanted
  /\ Reach(r, "queue")
  /\ UNCHANGED <<flow, job, pc, ses, row, registry, target, process>>

\* POST sessions/start: refuses if a row of the flow is active.
RequestStart(r) ==
  /\ Arrives(r)
  /\ Reach(r, IF \E s \in Jobs : row[s] = "active" THEN "done" ELSE "queue")
  /\ UNCHANGED <<flow, job, pc, ses, row, registry, target, process>>

QueueJob(r) ==
  /\ phase = "up" /\ req[r] = "queue"
  /\ \E s \in Jobs : Queue(s)
  /\ Reach(r, "done")
  /\ UNCHANGED <<flow, pc, ses, row, registry, target, process>>

\* DELETE flow: refuses a deployed flow; the session rows go with it.
RequestDelete(r) ==
  /\ Arrives(r)
  /\ Reach(r, IF flow.deployed THEN "done" ELSE "delete")
  /\ UNCHANGED <<flow, job, pc, ses, row, registry, target, process>>

Delete(r) ==
  /\ phase = "up" /\ req[r] = "delete"
  /\ flow' = [flow EXCEPT !.present = FALSE]
  /\ row' = [s \in Jobs |-> IF row[s] = "none" THEN "none" ELSE "gone"]
  /\ Reach(r, "done")
  /\ UNCHANGED <<job, pc, ses, registry, target, process>>

\* stopSessionByFlowId and the head of stop(): synchronous up to the UPDATE
\* of the session row.  Without a registered session all active rows of the
\* flow are closed instead, and a session still starting goes on.
StopSession(r) ==
  /\ phase = "up" /\ req[r] = "stop"
  /\ IF registry = 0
     THEN /\ row' = [s \in Jobs |-> IF row[s] = "active" THEN "stopped" ELSE row[s]]
          /\ Reach(r, "done") /\ UNCHANGED <<ses, target>>
     ELSE /\ UNCHANGED row
          /\ IF ses[registry] \in Running
             THEN /\ ses' = [ses EXCEPT ![registry] = "stopped"]
                  /\ target' = [target EXCEPT ![r] = registry]
                  /\ Reach(r, "update")
             ELSE Reach(r, "done") /\ UNCHANGED <<ses, target>>
  /\ UNCHANGED <<flow, job, pc, registry, process>>

Return(r) == Reach(r, "done") /\ target' = [target EXCEPT ![r] = 0]

\* Mutant: the session row is not closed.
UnregisterOnly(r) ==
  /\ phase = "up" /\ req[r] = "update"
  /\ registry' = 0
  /\ Return(r)
  /\ UNCHANGED <<flow, job, pc, ses, row, process>>

\* Mutant: the stopped session is left in the registry.
UnregisterKept(r) ==
  /\ phase = "up" /\ req[r] = "update"
  /\ row' = [row EXCEPT ![target[r]] = IF @ = "gone" THEN @ ELSE "stopped"]
  /\ Return(r)
  /\ UNCHANGED <<flow, job, pc, ses, registry, process>>

\* The rest of stop(): the entry is deleted by flow id, whoever holds it now.
Unregister(r) ==
  /\ phase = "up" /\ req[r] = "update"
  /\ row' = [row EXCEPT ![target[r]] = IF @ = "gone" THEN @ ELSE "stopped"]
  /\ registry' = 0
  /\ Return(r)
  /\ UNCHANGED <<flow, job, pc, ses, process>>

\* The UPDATE rejects: logged, the entry stays.
StopFails(r) ==
  /\ phase = "up" /\ req[r] = "update"
  /\ errors < MaxErrors /\ errors' = errors + 1
  /\ Return(r)
  /\ UNCHANGED <<flow, job, pc, ses, row, registry, phase, boot, raced, crashes>>

Request(r) ==
  \/ \E on \in BOOLEAN : SetDeployed(r, on) \/ ReadTest(r, on)
  \/ RequestExecute(r) \/ RequestStart(r) \/ RequestDelete(r)

Respond(r) ==
  \/ SetTest(r) \/ QueueJob(r) \/ Delete(r) \/ StopSession(r) \/ Unregister(r)

-----------------------------------------------------------------------------
(* The handler executeFlow and FlowSession.start.                          *)

Go(s, where) == pc' = [pc EXCEPT ![s] = where]

Stopping == \E r \in Requests : req[r] = "update"
Busy(s) == ses[s] \in Running \/ pc[s] \in Starting

Claim(s) ==
  /\ phase # "down" /\ job[s] = "queued"
  /\ job' = [job EXCEPT ![s] = "running"]
  /\ Go(s, "read")
  /\ raced' = (raced \/ Stopping \/ \E t \in Jobs : Busy(t))
  /\ UNCHANGED <<flow, ses, row, registry, req, target, phase, boot, crashes, errors>>

ReadFlow(s) ==
  /\ pc[s] = "read"
  /\ Go(s, IF Wanted THEN "insert" ELSE "fail")
  /\ UNCHANGED <<flow, job, ses, row, registry, req, target, process>>

\* INSERT INTO flow_sessions; the foreign key rejects it once the flow is gone.
InsertSession(s) ==
  /\ pc[s] = "insert"
  /\ IF flow.present
     THEN /\ row' = [row EXCEPT ![s] = "active"]
          /\ ses' = [ses EXCEPT ![s] = "starting"]
          /\ Go(s, "tags")
     ELSE Go(s, "fail") /\ UNCHANGED <<row, ses>>
  /\ UNCHANGED <<flow, job, registry, req, target, process>>

\* The timer is armed and the first scan awaited ...
StartScan(s) ==
  /\ pc[s] = "tags"
  /\ ses' = [ses EXCEPT ![s] = "live"]
  /\ Go(s, "scan")
  /\ UNCHANGED <<flow, job, row, registry, req, target, process>>

\* Mutant: the first session of a flow keeps the entry.
RegisterFirst(s) ==
  /\ pc[s] = "scan"
  /\ registry' = IF registry = 0 THEN s ELSE registry
  /\ Go(s, "complete")
  /\ UNCHANGED <<flow, job, ses, row, req, target, process>>

\* ... before the session is entered into the registry.
Register(s) ==
  /\ pc[s] = "scan"
  /\ registry' = s
  /\ Go(s, "complete")
  /\ UNCHANGED <<flow, job, ses, row, req, target, process>>

\* complete() or fail(), which do nothing to a job a sweep has ended.
EndJob(s) ==
  /\ pc[s] \in {"complete", "fail"}
  /\ job' = [job EXCEPT ![s] = IF @ # "running" THEN @
                               ELSE IF pc[s] = "complete" THEN "completed" ELSE "failed"]
  /\ Go(s, "done")
  /\ UNCHANGED <<flow, ses, row, registry, req, target, process>>

\* handleError(): the UPDATE of the session row.
RecordError(s) ==
  /\ pc[s] = "error"
  /\ row' = [row EXCEPT ![s] = IF @ = "gone" THEN @ ELSE "error"]
  /\ Go(s, "fail")
  /\ UNCHANGED <<flow, job, ses, registry, req, target, process>>

\* A database call of the handler rejects.
HandlerError(s) ==
  /\ errors < MaxErrors /\ errors' = errors + 1
  /\ \/ pc[s] \in {"read", "insert", "complete", "error"} /\ Go(s, "fail") /\ UNCHANGED ses
     \/ pc[s] = "tags" /\ Go(s, "error") /\ ses' = [ses EXCEPT ![s] = "stopped"]
     \/ pc[s] = "fail" /\ Go(s, "done") /\ UNCHANGED ses
  /\ UNCHANGED <<flow, job, row, registry, req, target, phase, boot, raced, crashes>>

Handle(s) ==
  \/ ReadFlow(s) \/ InsertSession(s) \/ StartScan(s) \/ Register(s)
  \/ EndJob(s) \/ RecordError(s)

\* A sweep of the job queue: the handler of a flow sends no heartbeat.
SweepJob(s) ==
  /\ phase # "down" /\ job[s] = "running"
  /\ job' = [job EXCEPT ![s] = "failed"]
  /\ UNCHANGED <<flow, pc, ses, row, registry, req, target, process>>

-----------------------------------------------------------------------------
(* The process.                                                            *)

Crash ==
  /\ phase # "down" /\ crashes < MaxCrashes
  /\ crashes' = crashes + 1
  /\ phase' = "down" /\ boot' = "off" /\ registry' = 0
  /\ ses' = [s \in Jobs |-> IF ses[s] \in Running THEN "lost" ELSE ses[s]]
  /\ pc' = [s \in Jobs |-> IF pc[s] \in {"none", "done"} THEN pc[s] ELSE "lost"]
  /\ req' = [r \in Requests |-> IF req[r] = "idle" THEN "idle" ELSE "done"]
  /\ target' = [r \in Requests |-> 0]
  /\ UNCHANGED <<flow, job, row, raced, errors>>

\* buildServer starts the dispatcher.
Boot ==
  /\ phase = "down"
  /\ phase' = "boot"
  /\ UNCHANGED <<flow, job, pc, ses, row, registry, req, target, boot, raced, crashes, errors>>

\* Mutant: sessions orphaned by a crash are not closed on startup.
StopOrphansSkipped ==
  /\ phase = "boot"
  /\ phase' = "up" /\ boot' = "due"
  /\ UNCHANGED <<flow, job, pc, ses, row, registry, req, target, raced, crashes, errors>>

\* stopAllActiveSessions, then listen(), whose onReady hook schedules the
\* bootstrap: sessions the dispatcher has started by now are hit as well.
StopOrphans ==
  /\ phase = "boot"
  /\ phase' = "up" /\ boot' = "due"
  /\ row' = [s \in Jobs |-> IF row[s] = "active" THEN "stopped" ELSE row[s]]
  /\ UNCHANGED <<flow, job, pc, ses, registry, req, target, raced, crashes, errors>>

\* Its UPDATE rejects: the server listens all the same.
StopOrphansFails ==
  /\ phase = "boot"
  /\ errors < MaxErrors /\ errors' = errors + 1
  /\ phase' = "up" /\ boot' = "due"
  /\ UNCHANGED <<flow, job, pc, ses, row, registry, req, target, raced, crashes>>

\* restartDeployedFlows: deployed and nothing registered?
BootRead ==
  /\ boot = "due"
  /\ boot' = IF flow.present /\ flow.deployed /\ registry = 0 THEN "query" ELSE "done"
  /\ UNCHANGED <<flow, job, pc, ses, row, registry, req, target, phase, raced, crashes, errors>>

\* No job queued or running?
BootQuery ==
  /\ boot = "query"
  /\ boot' = IF \E s \in Jobs : job[s] \in Open THEN "done" ELSE "insert"
  /\ UNCHANGED <<flow, job, pc, ses, row, registry, req, target, phase, raced, crashes, errors>>

BootInsert ==
  /\ boot = "insert"
  /\ \E s \in Jobs : Queue(s)
  /\ boot' = "done"
  /\ UNCHANGED <<flow, pc, ses, row, registry, req, target, phase, raced, crashes, errors>>

Bootstrap == BootRead \/ BootQuery \/ BootInsert

-----------------------------------------------------------------------------
Next ==
  \/ \E r \in Requests : Request(r) \/ Respond(r) \/ StopFails(r)
  \/ \E s \in Jobs : Claim(s) \/ Handle(s) \/ HandlerError(s) \/ SweepJob(s)
  \/ Crash \/ Boot \/ StopOrphans \/ StopOrphansFails \/ Bootstrap

Spec == Init /\ [][Next]_vars

\* The event loop answers every await, the dispatcher claims, the sweeps end
\* jobs that stay running, and a dead process is restarted.  No request has
\* to come.
Fairness ==
  /\ \A r \in Requests : WF_vars(Respond(r))
  /\ \A s \in Jobs : WF_vars(Claim(s)) /\ WF_vars(Handle(s)) /\ WF_vars(SweepJob(s))
  /\ WF_vars(Boot) /\ WF_vars(StopOrphans) /\ WF_vars(Bootstrap)

FairSpec == Spec /\ Fairness

-----------------------------------------------------------------------------
(* Properties.                                                             *)

BeingStopped(s) == \E r \in Requests : req[r] = "update" /\ target[r] = s

\* Once the server listens, a flow_sessions row is active only while its
\* session is starting or scanning in this process, or its final UPDATE is
\* under way: no crash leaves an active row behind.
ActiveRowBacked ==
  phase = "up" /\ errors = 0 =>
    \A s \in Jobs : row[s] = "active" => ses[s] \in Running \/ BeingStopped(s)

\* The registry never points at a session that does not scan, except while
\* that session's stop() awaits its UPDATE.
RegistryLive ==
  registry # 0 /\ errors = 0 => ses[registry] = "live" \/ BeingStopped(registry)

\* As long as no session began to start before its predecessor was fully
\* gone, every session that is past its start is in the registry, where
\* undeploying finds it: crashes, undeploys during a start and failed stops
\* notwithstanding.
LiveIsRegistered ==
  ~raced => \A s \in Jobs : ses[s] = "live" /\ pc[s] # "scan" => registry = s

\* A row left active by a session that is not running any more is closed.
OrphanRowEnds ==
  \A s \in Jobs : row[s] = "active" /\ ses[s] \notin Running ~> row[s] # "active" \/ errors > 0

\* "Ensures that all flows marked as 'deployed' are running after a system
\* restart": with no further crash or error, a deployed flow gets a session.
DeployedRestarts ==
  (boot = "due" /\ flow.present /\ flow.deployed) ~>
     (~flow.present \/ ~flow.deployed \/ \E s \in Jobs : ses[s] = "live")
=============================================================================
