------------------------- MODULE FlowSessionsProofs -------------------------
(***************************************************************************)
(* Proofs that the sessions of a flow keep their safety properties for     *)
(* every number of jobs and requests and any number of crashes and failing *)
(* database calls.                                                         *)
(*                                                                         *)
(* ActiveRowBacked needs only the types.  RegistryLive is not inductive:   *)
(* a session must not leave its start once it is registered.               *)
(* LiveIsRegistered is not inductive either: a stop() that returns clears  *)
(* the registry whoever holds it, so nothing may be alive by then.  Alone  *)
(* says so as long as no start overlapped another session or a stop.       *)
(***************************************************************************)
EXTENDS FlowSessions, TLAPS

\* A job nobody has claimed has no handler.
Unclaimed == \A s \in Jobs : job[s] \in {"none", "queued"} => pc[s] = "none"

\* Until it is registered, nobody can stop a session that scans.
Scanning == \A s \in Jobs : pc[s] = "scan" => ses[s] = "live"

\* The registered session is past its start.
RegisteredStarted == registry # 0 => pc[registry] \in {"complete", "fail", "done"}

\* One session at a time, and none while a stop() awaits its UPDATE.
Alone ==
  ~raced => /\ \A s, t \in Jobs : Busy(s) /\ Busy(t) => s = t
            /\ Stopping => \A s \in Jobs : ~Busy(s)

Shape == TypeOK /\ Unclaimed /\ Scanning /\ RegisteredStarted

IInv == Shape /\ Alone /\ ActiveRowBacked /\ RegistryLive /\ LiveIsRegistered

LEMMA JobsArePositive == 0 \notin Jobs
  BY DEF Jobs

LEMMA InitIInv == Init => IInv
<1> SUFFICES ASSUME Init PROVE IInv
  OBVIOUS
<1>1. TypeOK
  <2>1. crashes \in 0 .. MaxCrashes /\ errors \in 0 .. MaxErrors
    BY FlowSessionsAssumption DEF Init
  <2> QED BY <2>1 DEF Init, TypeOK, Open, Starting, Running
<1> QED
  BY <1>1, JobsArePositive
  DEF Init, IInv, Shape, Unclaimed, Scanning, RegisteredStarted, Alone, Busy, Stopping, Running,
      Starting, ActiveRowBacked, RegistryLive, LiveIsRegistered

-----------------------------------------------------------------------------
(* The types.                                                              *)

LEMMA RequestTypes == ASSUME TypeOK, NEW r \in Requests, Request(r) PROVE TypeOK'
<1>1. CASE \E on \in BOOLEAN : SetDeployed(r, on)
  BY <1>1 DEF SetDeployed, Reach, process, TypeOK
<1>2. CASE \E on \in BOOLEAN : ReadTest(r, on)
  BY <1>2 DEF ReadTest, Reach, process, TypeOK
<1>3. CASE RequestExecute(r) \/ RequestStart(r) \/ RequestDelete(r)
  BY <1>3 DEF RequestExecute, RequestStart, RequestDelete, Reach, process, TypeOK
<1> QED BY <1>1, <1>2, <1>3 DEF Request

LEMMA RespondTypes ==
  ASSUME TypeOK, NEW r \in Requests, Respond(r) \/ StopFails(r) PROVE TypeOK'
<1>1. CASE SetTest(r)
  <2>1. flow' \in [present : BOOLEAN, deployed : BOOLEAN, test : BOOLEAN]
    <3>1. PICK b \in BOOLEAN : flow' = [flow EXCEPT !.test = b]
      <4>1. (IF flow.present THEN req[r] \in {"turnOn", "keepOn"} ELSE flow.test) \in BOOLEAN
        <5>1. CASE flow.present
          BY <5>1
        <5>2. CASE ~flow.present
          BY <5>2 DEF TypeOK
        <5> QED BY <5>1, <5>2
      <4> QED BY <1>1, <4>1 DEF SetTest
    <3> QED BY <3>1 DEF TypeOK
  <2>2. req' \in [Requests -> {"idle", "queue", "turnOn", "turnOff", "keepOn", "keepOff",
                               "stop", "update", "delete", "done"}]
    BY <1>1 DEF SetTest, Reach, TypeOK
  <2> QED BY <1>1, <2>1, <2>2 DEF SetTest, process, TypeOK
<1>2. CASE QueueJob(r)
  BY <1>2 DEF QueueJob, Queue, Reach, process, TypeOK, Open
<1>3. CASE Delete(r)
  BY <1>3 DEF Delete, Reach, process, TypeOK
<1>4. CASE StopSession(r)
  <2>1. registry # 0 => registry \in Jobs
    BY DEF TypeOK
  <2> QED BY <1>4, <2>1 DEF StopSession, Reach, process, TypeOK
<1>5. CASE Unregister(r) \/ StopFails(r)
  <2>1. errors' \in 0 .. MaxErrors
    BY <1>5, FlowSessionsAssumption DEF Unregister, StopFails, process, TypeOK
  <2> QED BY <1>5, <2>1 DEF Unregister, StopFails, Return, Reach, process, TypeOK
<1> QED BY <1>1, <1>2, <1>3, <1>4, <1>5 DEF Respond

LEMMA JobTypes ==
  ASSUME TypeOK, NEW s \in Jobs, Claim(s) \/ Handle(s) \/ HandlerError(s) \/ SweepJob(s)
  PROVE  TypeOK'
<1>1. CASE Claim(s)
  <2>1. raced' \in BOOLEAN
    BY <1>1 DEF Claim
  <2> QED BY <1>1, <2>1 DEF Claim, Go, TypeOK, Open, Starting
<1>2. CASE ReadFlow(s) \/ InsertSession(s) \/ StartScan(s) \/ Register(s)
  BY <1>2 DEF ReadFlow, InsertSession, StartScan, Register, Go, process, TypeOK, Starting, Running
<1>3. CASE EndJob(s) \/ RecordError(s) \/ SweepJob(s)
  BY <1>3 DEF EndJob, RecordError, SweepJob, Go, process, TypeOK, Open
<1>4. CASE HandlerError(s)
  <2>1. errors' \in 0 .. MaxErrors
    BY <1>4, FlowSessionsAssumption DEF HandlerError, TypeOK
  <2> QED BY <1>4, <2>1 DEF HandlerError, Go, TypeOK
<1> QED BY <1>1, <1>2, <1>3, <1>4 DEF Handle

LEMMA ProcessTypes ==
  ASSUME TypeOK, Crash \/ Boot \/ StopOrphans \/ StopOrphansFails \/ Bootstrap PROVE TypeOK'
<1>1. CASE Crash
  <2>1. crashes' \in 0 .. MaxCrashes
    BY <1>1, FlowSessionsAssumption DEF Crash, TypeOK
  <2> QED BY <1>1, <2>1 DEF Crash, TypeOK
<1>2. CASE Boot \/ StopOrphans
  BY <1>2 DEF Boot, StopOrphans, TypeOK
<1>3. CASE StopOrphansFails
  <2>1. errors' \in 0 .. MaxErrors
    BY <1>3, FlowSessionsAssumption DEF StopOrphansFails, TypeOK
  <2> QED BY <1>3, <2>1 DEF StopOrphansFails, TypeOK
<1>4. CASE Bootstrap
  BY <1>4 DEF Bootstrap, BootRead, BootQuery, BootInsert, Queue, TypeOK, Open
<1> QED BY <1>1, <1>2, <1>3, <1>4

LEMMA TypeStep == ASSUME TypeOK, [Next]_vars PROVE TypeOK'
<1>1. CASE UNCHANGED vars
  BY <1>1 DEF vars, TypeOK
<1> QED BY <1>1, RequestTypes, RespondTypes, JobTypes, ProcessTypes DEF Next

-----------------------------------------------------------------------------
(* What the steps do to handlers, sessions and stops.                      *)

\* Nothing happens to handlers, sessions and stops.
Calm ==
  /\ UNCHANGED <<pc, ses, registry, raced>>
  /\ \A r \in Requests : req'[r] = "update" <=> req[r] = "update"
  /\ \A r \in Requests : req[r] = "update" => target'[r] = target[r]

\* stop() gets a registered session.
Stops(r) ==
  /\ phase = "up" /\ registry \in Jobs /\ ses[registry] \in Running
  /\ ses' = [ses EXCEPT ![registry] = "stopped"]
  /\ target' = [target EXCEPT ![r] = registry]
  /\ req' = [req EXCEPT ![r] = "update"] /\ req[r] = "stop"
  /\ UNCHANGED <<flow, job, pc, row, registry, process>>

LEMMA RequestKinds == ASSUME TypeOK, NEW r \in Requests, Request(r) PROVE Calm /\ UNCHANGED <<job, row, phase, errors>>
<1>1. /\ UNCHANGED <<job, pc, ses, row, registry, target, process>>
      /\ req[r] = "idle"
      /\ \E where \in {"queue", "stop", "keepOn", "turnOn", "keepOff", "turnOff", "done", "delete"} :
           req' = [req EXCEPT ![r] = where]
  BY DEF Request, SetDeployed, ReadTest, RequestExecute, RequestStart, RequestDelete, Reach, Arrives
<1> QED BY <1>1 DEF Calm, process, TypeOK

LEMMA RespondKinds ==
  ASSUME TypeOK, NEW r \in Requests, Respond(r)
  PROVE  \/ Calm /\ UNCHANGED <<job, row, phase, errors>>
         \/ Calm /\ UNCHANGED <<row, phase, errors>> /\ \E s \in Jobs : Queue(s)
         \/ Calm /\ UNCHANGED <<job, phase, errors>> /\ \A s \in Jobs : row'[s] = "active" => row[s] = "active"
         \/ Stops(r)
         \/ Unregister(r)
<1>1. CASE SetTest(r)
  <2>1. req'[r] # "update" /\ req[r] # "update" /\ \A q \in Requests : q # r => req'[q] = req[q]
    BY <1>1 DEF SetTest, Reach, TypeOK
  <2> QED BY <1>1, <2>1 DEF SetTest, process, Calm
<1>2. CASE QueueJob(r)
  BY <1>2 DEF QueueJob, Reach, process, Calm, TypeOK
<1>3. CASE Delete(r)
  <2>1. Calm /\ UNCHANGED <<job, phase, errors>>
    BY <1>3 DEF Delete, Reach, process, Calm, TypeOK
  <2> QED BY <1>3, <2>1 DEF Delete
<1>4. CASE StopSession(r)
  <2>1. registry # 0 => registry \in Jobs
    BY DEF TypeOK
  <2>2. CASE registry = 0
    <3>1. Calm /\ UNCHANGED <<job, phase, errors>>
      BY <1>4, <2>2 DEF StopSession, Reach, process, Calm, TypeOK
    <3> QED BY <1>4, <2>2, <3>1 DEF StopSession
  <2>3. CASE registry # 0 /\ ses[registry] \in Running
    BY <1>4, <2>1, <2>3 DEF StopSession, Stops, Reach
  <2>4. CASE registry # 0 /\ ses[registry] \notin Running
    BY <1>4, <2>4 DEF StopSession, Reach, process, Calm, TypeOK
  <2> QED BY <2>2, <2>3, <2>4
<1> QED BY <1>1, <1>2, <1>3, <1>4 DEF Respond

LEMMA ProcessKinds ==
  ASSUME TypeOK, Boot \/ StopOrphans \/ StopOrphansFails \/ Bootstrap
  PROVE  /\ Calm
         /\ UNCHANGED job \/ \E s \in Jobs : Queue(s)
         /\ \A s \in Jobs : row'[s] = "active" => row[s] = "active"
         /\ \/ phase' = phase
            \/ phase' = "boot"
            \/ errors' > errors
            \/ \A s \in Jobs : row'[s] # "active"
         /\ errors' >= errors
<1>1. errors \in Nat
  BY FlowSessionsAssumption DEF TypeOK
<1>2. CASE Boot \/ StopOrphansFails \/ Bootstrap
  BY <1>1, <1>2 DEF Boot, StopOrphansFails, Bootstrap, BootRead, BootQuery, BootInsert, Calm
<1>3. CASE StopOrphans
  <2>1. Calm /\ UNCHANGED job /\ errors' = errors
    BY <1>3 DEF StopOrphans, Calm
  <2> QED BY <1>1, <1>3, <2>1 DEF StopOrphans
<1> QED BY <1>2, <1>3

-----------------------------------------------------------------------------
(* The invariant, conjunct by conjunct, over the steps that disturb it.    *)

\* Calm steps, which at most insert a job or end one.
LEMMA CalmKeeps ==
  ASSUME IInv, TypeOK', Calm, errors' >= errors,
         UNCHANGED job \/ \E s \in Jobs : Queue(s) \/ SweepJob(s)
  PROVE  Unclaimed' /\ Scanning' /\ RegisteredStarted' /\ Alone' /\ RegistryLive' /\ LiveIsRegistered'
<1> USE DEF IInv, Shape, Calm
<1>1. Unclaimed'
  BY DEF Unclaimed, Queue, SweepJob, TypeOK
<1>2. Scanning' /\ RegisteredStarted' /\ LiveIsRegistered'
  BY DEF Scanning, RegisteredStarted, LiveIsRegistered
<1>3. Alone'
  BY DEF Alone, Busy, Stopping
<1>4. RegistryLive'
  <2>1. \A s : BeingStopped(s) => BeingStopped(s)'
    BY DEF BeingStopped
  <2>2. errors' = 0 => errors = 0
    BY FlowSessionsAssumption DEF TypeOK
  <2> QED BY <2>1, <2>2 DEF RegistryLive
<1> QED BY <1>1, <1>2, <1>3, <1>4

\* Calm steps that activate no row, and make the process listen only with all
\* rows closed.
LEMMA CalmRows ==
  ASSUME IInv, TypeOK', Calm, errors' >= errors,
         \A s \in Jobs : row'[s] = "active" => row[s] = "active",
         \/ phase' = phase
         \/ phase' = "boot"
         \/ errors' > errors
         \/ \A s \in Jobs : row'[s] # "active"
  PROVE  ActiveRowBacked'
<1>1. \A s : BeingStopped(s) => BeingStopped(s)'
  BY DEF BeingStopped, Calm
<1>2. errors' = 0 => errors = 0 /\ ~(errors' > errors)
  BY FlowSessionsAssumption DEF IInv, Shape, TypeOK
<1> QED BY <1>1, <1>2 DEF IInv, ActiveRowBacked, Calm

LEMMA CalmStep ==
  ASSUME IInv, TypeOK', Calm, UNCHANGED <<phase, errors>>,
         \A s \in Jobs : row'[s] = "active" => row[s] = "active",
         UNCHANGED job \/ \E s \in Jobs : Queue(s) \/ SweepJob(s)
  PROVE  IInv'
<1>1. errors' >= errors
  BY FlowSessionsAssumption DEF IInv, Shape, TypeOK
<1> QED BY <1>1, CalmKeeps, CalmRows DEF IInv, Shape

\* stop() of the registered session: it was the only one.
LEMMA StopsStep == ASSUME IInv, TypeOK', NEW r \in Requests, Stops(r) PROVE IInv'
<1> USE DEF IInv, Shape
<1>1. Unclaimed'
  BY DEF Stops, Unclaimed
<1>2. pc[registry] \in {"complete", "fail", "done"}
  BY JobsArePositive DEF Stops, RegisteredStarted
<1>3. /\ ses'[registry] = "stopped"
      /\ \A s \in Jobs \ {registry} : ses'[s] = ses[s]
      /\ registry' = registry /\ registry \in Jobs /\ pc' = pc /\ raced' = raced
      /\ row' = row /\ errors' = errors /\ phase' = phase
  BY DEF Stops, process, TypeOK
<1>4. Scanning' /\ RegisteredStarted'
  BY <1>2, <1>3 DEF Scanning, RegisteredStarted
<1>5. Alone'
  <2> SUFFICES ASSUME ~raced PROVE \A s \in Jobs : ~Busy(s)'
    BY <1>3 DEF Alone
  <2>1. Busy(registry)
    BY DEF Busy, Stops
  <2>2. \A s \in Jobs \ {registry} : ~Busy(s)
    BY <1>3, <2>1 DEF Alone
  <2> QED BY <1>2, <1>3, <2>2 DEF Busy, Running, Starting
<1>6. /\ BeingStopped(registry)'
      /\ \A s \in Jobs : BeingStopped(s) => BeingStopped(s)'
  <2>1. /\ req'[r] = "update" /\ target'[r] = registry /\ req[r] = "stop"
        /\ \A q \in Requests \ {r} : req'[q] = req[q] /\ target'[q] = target[q]
    BY DEF Stops, TypeOK
  <2> QED BY <1>3, <2>1 DEF BeingStopped
<1>7. ActiveRowBacked'
  BY <1>3, <1>6 DEF ActiveRowBacked
<1>8. RegistryLive'
  BY <1>3, <1>6 DEF RegistryLive, BeingStopped
<1>9. LiveIsRegistered'
  BY <1>3 DEF LiveIsRegistered
<1> QED BY <1>1, <1>4, <1>5, <1>7, <1>8, <1>9

\* The end of stop(): nothing is alive that the registry would lose.
LEMMA UnregisterStep == ASSUME IInv, TypeOK', NEW r \in Requests, Unregister(r) PROVE IInv'
<1> USE DEF IInv, Shape
<1>1. /\ registry' = 0 /\ UNCHANGED <<job, pc, ses, phase, raced, errors>>
      /\ req[r] = "update" /\ req'[r] = "done"
      /\ \A q \in Requests \ {r} : req'[q] = req[q] /\ target'[q] = target[q]
      /\ \A s \in Jobs : row'[s] = "active" => row[s] = "active" /\ s # target[r]
  BY DEF Unregister, Return, Reach, process, TypeOK
<1>2. Unclaimed' /\ Scanning' /\ RegisteredStarted' /\ RegistryLive'
  BY <1>1 DEF Unclaimed, Scanning, RegisteredStarted, RegistryLive
<1>3. Alone'
  BY <1>1 DEF Alone, Busy, Stopping
<1>4. ActiveRowBacked'
  BY <1>1 DEF ActiveRowBacked, BeingStopped
<1>5. LiveIsRegistered'
  <2>1. Stopping
    BY <1>1 DEF Stopping
  <2> QED BY <1>1, <2>1 DEF Alone, Busy, Running, LiveIsRegistered
<1> QED BY <1>2, <1>3, <1>4, <1>5

LEMMA StopFailsStep == ASSUME IInv, TypeOK', NEW r \in Requests, StopFails(r) PROVE IInv'
<1> USE DEF IInv, Shape
<1>1. /\ UNCHANGED <<job, pc, ses, registry, raced>>
      /\ req'[r] = "done" /\ errors' # 0
      /\ \A q \in Requests \ {r} : req'[q] = req[q]
  BY FlowSessionsAssumption DEF StopFails, Return, Reach, process, TypeOK
<1>2. Unclaimed' /\ Scanning' /\ RegisteredStarted' /\ RegistryLive' /\ ActiveRowBacked' /\ LiveIsRegistered'
  BY <1>1 DEF Unclaimed, Scanning, RegisteredStarted, RegistryLive, ActiveRowBacked, LiveIsRegistered
<1>3. Alone'
  BY <1>1 DEF Alone, Busy, Stopping
<1> QED BY <1>2, <1>3

-----------------------------------------------------------------------------
(* The handler of a job.                                                   *)

\* A start is unraced only if nothing else is alive or being stopped.
LEMMA ClaimStep == ASSUME IInv, TypeOK', NEW s \in Jobs, Claim(s) PROVE IInv'
<1> USE DEF IInv, Shape
<1>1. /\ pc[s] = "none" /\ pc'[s] = "read" /\ job'[s] = "running"
      /\ \A t \in Jobs \ {s} : pc'[t] = pc[t] /\ job'[t] = job[t]
      /\ raced' = (raced \/ Stopping \/ \E t \in Jobs : Busy(t))
      /\ UNCHANGED <<ses, row, registry, req, target, phase, errors>>
  BY DEF Claim, Go, TypeOK, Unclaimed
<1>2. Unclaimed' /\ Scanning'
  BY <1>1 DEF Unclaimed, Scanning
<1>3. RegisteredStarted'
  BY <1>1 DEF RegisteredStarted, TypeOK
<1>4. Alone'
  <2> SUFFICES ASSUME ~raced' PROVE /\ \A t \in Jobs : Busy(t)' => t = s
                                    /\ ~Stopping'
    BY DEF Alone
  <2> QED BY <1>1 DEF Busy, Stopping
<1>5. ActiveRowBacked' /\ RegistryLive'
  BY <1>1 DEF ActiveRowBacked, RegistryLive, BeingStopped
<1>6. LiveIsRegistered'
  BY <1>1 DEF LiveIsRegistered
<1> QED BY <1>2, <1>3, <1>4, <1>5, <1>6

\* The steps of a handler before and after the registration.
LEMMA HandleStep ==
  ASSUME IInv, TypeOK', NEW s \in Jobs,
         ReadFlow(s) \/ InsertSession(s) \/ StartScan(s) \/ EndJob(s) \/ RecordError(s)
  PROVE  IInv'
<1> USE DEF IInv, Shape
<1>1. /\ pc[s] \in {"read", "insert", "tags", "complete", "fail", "error"}
      /\ pc'[s] \in {"insert", "fail", "tags", "scan", "done"}
      /\ pc'[s] \in Starting => pc[s] \in Starting
      /\ pc[s] \in {"complete", "fail"} => pc'[s] = "done"
      /\ \A t \in Jobs \ {s} : pc'[t] = pc[t] /\ ses'[t] = ses[t] /\ row'[t] = row[t] /\ job'[t] = job[t]
      /\ UNCHANGED <<registry, req, target, phase, raced, errors>>
  BY DEF ReadFlow, InsertSession, StartScan, EndJob, RecordError, Go, process, TypeOK, Starting
<1>2. /\ pc'[s] = "scan" => ses'[s] = "live"
      /\ ses'[s] # ses[s] => ses'[s] \in Running /\ pc[s] \in {"insert", "tags"}
      /\ ses'[s] = "live" => ses[s] = "live" \/ pc'[s] = "scan"
      /\ row'[s] = "active" => row[s] = "active" \/ ses'[s] \in Running
  BY DEF ReadFlow, InsertSession, StartScan, EndJob, RecordError, Go, process, TypeOK, Starting, Running
<1>3. job'[s] \in {"none", "queued"} => job[s] \in {"none", "queued"}
  BY DEF ReadFlow, InsertSession, StartScan, EndJob, RecordError, process, TypeOK
<1>4. Unclaimed'
  BY <1>1, <1>3 DEF Unclaimed
<1>5. Scanning'
  BY <1>1, <1>2 DEF Scanning
<1>6. RegisteredStarted'
  BY <1>1 DEF RegisteredStarted, TypeOK
<1>7. Alone'
  <2>1. \A t \in Jobs : Busy(t)' => Busy(t)
    BY <1>1, <1>2 DEF Busy, Starting
  <2> QED BY <1>1, <2>1 DEF Alone, Stopping
<1>8. \A t \in Jobs : (BeingStopped(t) => BeingStopped(t)') /\ (ses[t] \in Running => ses'[t] \in Running)
  BY <1>1, <1>2 DEF BeingStopped
<1>9. ActiveRowBacked'
  BY <1>1, <1>2, <1>8 DEF ActiveRowBacked
<1>10. RegistryLive'
  <2> SUFFICES ASSUME registry # 0, errors = 0
               PROVE  ses'[registry] = "live" \/ BeingStopped(registry)'
    BY <1>1 DEF RegistryLive
  <2>1. registry \in Jobs /\ ses'[registry] = ses[registry]
    BY <1>1, <1>2 DEF RegisteredStarted, TypeOK
  <2> QED BY <1>1, <1>8, <2>1 DEF RegistryLive, BeingStopped
<1>11. LiveIsRegistered'
  BY <1>1, <1>2 DEF LiveIsRegistered
<1> QED BY <1>4, <1>5, <1>6, <1>7, <1>9, <1>10, <1>11

\* The registration: no other session is alive if no start was raced.
LEMMA RegisterStep == ASSUME IInv, TypeOK', NEW s \in Jobs, Register(s) PROVE IInv'
<1> USE DEF IInv, Shape
<1>1. /\ registry' = s /\ s # 0 /\ pc[s] = "scan" /\ pc'[s] = "complete" /\ ses[s] = "live"
      /\ \A t \in Jobs \ {s} : pc'[t] = pc[t]
      /\ UNCHANGED <<job, ses, row, req, target, phase, raced, errors>>
  BY JobsArePositive DEF Register, Go, process, TypeOK, Scanning
<1>2. Unclaimed' /\ Scanning' /\ RegisteredStarted' /\ RegistryLive'
  BY <1>1 DEF Unclaimed, Scanning, RegisteredStarted, RegistryLive
<1>3. Alone'
  BY <1>1 DEF Alone, Busy, Stopping, Starting
<1>4. ActiveRowBacked'
  BY <1>1 DEF ActiveRowBacked, BeingStopped
<1>5. LiveIsRegistered'
  <2>1. Busy(s) /\ \A t \in Jobs : ses[t] = "live" => Busy(t)
    BY <1>1 DEF Busy, Running
  <2> QED BY <1>1, <2>1 DEF Alone, LiveIsRegistered
<1> QED BY <1>2, <1>3, <1>4, <1>5

LEMMA HandlerErrorStep == ASSUME IInv, TypeOK', NEW s \in Jobs, HandlerError(s) PROVE IInv'
<1> USE DEF IInv, Shape
<1>1. /\ errors' # 0 /\ pc[s] # "none" /\ pc[s] # "scan" /\ pc'[s] \in {"fail", "error", "done"}
      /\ pc[s] \in {"complete", "fail"} => pc'[s] \in {"fail", "done"}
      /\ pc[s] # "done"
      /\ \A t \in Jobs \ {s} : pc'[t] = pc[t] /\ ses'[t] = ses[t]
      /\ ses'[s] = ses[s] \/ ses'[s] = "stopped"
      /\ UNCHANGED <<job, registry, req, raced>>
  BY FlowSessionsAssumption DEF HandlerError, Go, TypeOK
<1>2. Unclaimed' /\ Scanning' /\ ActiveRowBacked' /\ RegistryLive'
  BY <1>1 DEF Unclaimed, Scanning, ActiveRowBacked, RegistryLive
<1>3. RegisteredStarted'
  BY <1>1 DEF RegisteredStarted, TypeOK
<1>4. Alone'
  <2>1. \A t \in Jobs : Busy(t)' => Busy(t)
    BY <1>1 DEF Busy, Starting, Running
  <2> QED BY <1>1, <2>1 DEF Alone, Stopping
<1>5. LiveIsRegistered'
  BY <1>1 DEF LiveIsRegistered
<1> QED BY <1>2, <1>3, <1>4, <1>5

LEMMA CrashStep == ASSUME IInv, TypeOK', Crash PROVE IInv'
<1> USE DEF IInv, Shape
<1>1. /\ registry' = 0 /\ phase' = "down" /\ UNCHANGED job
      /\ \A s \in Jobs : /\ ses'[s] \notin Running
                         /\ pc[s] = "none" => pc'[s] = "none"
                         /\ pc'[s] \in {"none", "done", "lost"}
      /\ \A r \in Requests : req'[r] # "update"
  <2>1. registry' = 0 /\ phase' = "down" /\ UNCHANGED job
    BY DEF Crash
  <2>2. \A s \in Jobs : ses'[s] = IF ses[s] \in Running THEN "lost" ELSE ses[s]
    BY DEF Crash
  <2>3. \A s \in Jobs : pc'[s] = IF pc[s] \in {"none", "done"} THEN pc[s] ELSE "lost"
    BY DEF Crash
  <2>4. \A r \in Requests : req'[r] = IF req[r] = "idle" THEN "idle" ELSE "done"
    BY DEF Crash
  <2> QED BY <2>1, <2>2, <2>3, <2>4 DEF Running
<1>2. Unclaimed' /\ Scanning' /\ RegisteredStarted' /\ RegistryLive'
  BY <1>1 DEF Unclaimed, Scanning, RegisteredStarted, RegistryLive
<1>3. Alone' /\ ActiveRowBacked' /\ LiveIsRegistered'
  BY <1>1 DEF Alone, Busy, Stopping, ActiveRowBacked, LiveIsRegistered, Running, Starting
<1> QED BY <1>2, <1>3

-----------------------------------------------------------------------------
(* The theorems.                                                           *)

LEMMA StepIInv == ASSUME IInv, [Next]_vars PROVE IInv'
<1>1. TypeOK'
  BY TypeStep DEF IInv, Shape
<1>2. CASE UNCHANGED vars
  <2>1. Calm /\ UNCHANGED <<job, row, phase, errors>>
    BY <1>2 DEF vars, Calm
  <2> QED BY <1>1, <2>1, CalmStep
<1>3. ASSUME NEW r \in Requests, Request(r) PROVE IInv'
  BY <1>1, <1>3, RequestKinds, CalmStep DEF IInv, Shape
<1>4. ASSUME NEW r \in Requests, Respond(r) PROVE IInv'
  BY <1>1, <1>4, RespondKinds, CalmStep, StopsStep, UnregisterStep DEF IInv, Shape
<1>5. ASSUME NEW r \in Requests, StopFails(r) PROVE IInv'
  BY <1>1, <1>5, StopFailsStep
<1>6. ASSUME NEW s \in Jobs, Claim(s) \/ Handle(s) \/ HandlerError(s) PROVE IInv'
  BY <1>1, <1>6, ClaimStep, HandleStep, RegisterStep, HandlerErrorStep DEF Handle
<1>7. ASSUME NEW s \in Jobs, SweepJob(s) PROVE IInv'
  <2>1. Calm /\ UNCHANGED <<row, phase, errors>>
    BY <1>7 DEF SweepJob, process, Calm
  <2> QED BY <1>1, <1>7, <2>1, CalmStep
<1>8. CASE Crash
  BY <1>1, <1>8, CrashStep
<1>9. CASE Boot \/ StopOrphans \/ StopOrphansFails \/ Bootstrap
  <2>1. Unclaimed' /\ Scanning' /\ RegisteredStarted' /\ Alone' /\ RegistryLive' /\ LiveIsRegistered'
    BY <1>1, <1>9, ProcessKinds, CalmKeeps DEF IInv, Shape
  <2>2. ActiveRowBacked'
    BY <1>1, <1>9, ProcessKinds, CalmRows DEF IInv, Shape
  <2> QED BY <1>1, <2>1, <2>2 DEF IInv, Shape
<1> QED BY <1>2, <1>3, <1>4, <1>5, <1>6, <1>7, <1>8, <1>9 DEF Next

LEMMA Invariance == Spec => []IInv
  BY InitIInv, StepIInv, PTL DEF Spec

\* No crash, undeploy or deletion leaves a flow_sessions row active in a
\* process that listens, unless its session is running or being stopped.
THEOREM ActiveRowsAreBacked == Spec => []ActiveRowBacked
<1>1. IInv => ActiveRowBacked
  BY DEF IInv
<1> QED BY <1>1, Invariance, PTL

\* The registry holds a session that scans, or one whose stop() has not
\* returned.
THEOREM RegisteredIsLive == Spec => []RegistryLive
<1>1. IInv => RegistryLive
  BY DEF IInv
<1> QED BY <1>1, Invariance, PTL

\* While no start overlaps another session or a stop, a session past its
\* start can be found and stopped.
THEOREM LiveIsStoppable == Spec => []LiveIsRegistered
<1>1. IInv => LiveIsRegistered
  BY DEF IInv
<1> QED BY <1>1, Invariance, PTL
=============================================================================
