----------------------------- MODULE PollEngine ----------------------------
(***************************************************************************)
(* Polling in the .NET engine: the pollers that PollEngine keeps per       *)
(* connection, the reloads that ConfigWatcher starts when a configuration  *)
(* file changes, and the start and stop of both in Worker.ExecuteAsync.    *)
(*                                                                         *)
(* Three kinds of threads meet: the worker service, which boots and later  *)
(* stops the engine; reloads, each on a thread of the pool; and the timer  *)
(* callbacks that poll.  A debounce timer of ConfigWatcher stands between  *)
(* the file events and the reloads, but it does not wait for a reload that *)
(* runs already.                                                           *)
(*                                                                         *)
(* The only driver is the simulator: connecting, reading and disconnecting *)
(* never fail and never wait.                                              *)
(***************************************************************************)
EXTENDS Naturals, FiniteSets

CONSTANTS Conns,        \* connections
          Pollers,      \* ConnectionPoller objects that can exist at once
          Reloads,      \* bound: reloads under way at once
          MaxEdits,     \* bound: changes of connections.json
          MaxCharts     \* bound: changes of charts.json or flows.json

ASSUME PollEngineAssumption ==
  /\ Pollers \subseteq Nat \ {0} /\ IsFiniteSet(Pollers)
  /\ IsFiniteSet(Conns) /\ MaxEdits \in Nat /\ MaxCharts \in Nat
  /\ "main" \notin Reloads

Threads == Reloads \cup {"main"}
None == 0

VARIABLES
  file,      \* connections enabled in connections.json
  writing,   \* the file is truncated and not yet written
  conf,      \* _connections of ConfigService, the enabled ones
  pending,   \* what _debounceTimer will reload: "none", "connections", "charts"
  pollers,   \* _pollers: connection -> poller or None
  conn,      \* conn[p]: the connection a poller was made for
  running,   \* running[p]: _isRunning of the poller
  up,        \* up[p]: _driver.IsConnected
  timers,    \* timers[p]: its timers exist
  flight,    \* flight[p]: a timer callback is past its check and reading
  life,      \* history of p: "none", "starting", "started", "stopping",
             \* "stopped"; "torn" when it was stopped while it started
  op,        \* op[t]: the operation a thread is in
  sub,       \* sub[t]: the step of starting or stopping a poller it is at
  todo,      \* todo[t]: connections or pollers its loop has left
  cur,       \* cur[t]: the poller it is starting or stopping
  target,    \* target[t]: the connection it is starting
  overlap,   \* history: two of boot, reloads and shutdown ran at once
  missed,    \* history: no reload followed the last change of the file
  edits, charts

disk == <<file, writing, edits, charts>>
objects == <<pollers, conn, running, up, timers, life>>
threads == <<op, sub, todo, cur, target>>
history == <<overlap, missed>>
vars == <<disk, conf, pending, objects, flight, threads, history>>

TypeOK ==
  /\ file \in SUBSET Conns /\ conf \in SUBSET Conns /\ writing \in BOOLEAN
  /\ pending \in {"none", "connections", "charts"}
  /\ pollers \in [Conns -> Pollers \cup {None}]
  /\ conn \in [Pollers -> Conns \cup {None}]
  /\ {running, up, timers, flight} \subseteq [Pollers -> BOOLEAN]
  /\ life \in [Pollers -> {"none", "starting", "started", "stopping", "stopped", "torn"}]
  /\ op \in [Threads -> {"idle", "load", "starting", "serving", "halting", "ended",
                         "collect", "removing", "restarting"}]
  /\ sub \in [Threads -> {"-", "dispose", "create", "start"}]
  /\ todo \in [Threads -> SUBSET (Conns \cup Pollers)]
  /\ cur \in [Threads -> Pollers \cup {None}]
  /\ target \in [Threads -> Conns \cup {None}]
  /\ {overlap, missed} \subseteq BOOLEAN
  /\ edits \in 0 .. MaxEdits /\ charts \in 0 .. MaxCharts

Init ==
  /\ file \in SUBSET Conns /\ conf = {} /\ writing = FALSE /\ pending = "none"
  /\ pollers = [c \in Conns |-> None]
  /\ conn = [p \in Pollers |-> None]
  /\ running = [p \in Pollers |-> FALSE] /\ up = running /\ timers = running
  /\ flight = running
  /\ life = [p \in Pollers |-> "none"]
  /\ op = [t \in Threads |-> IF t = "main" THEN "load" ELSE "idle"]
  /\ sub = [t \in Threads |-> "-"]
  /\ todo = [t \in Threads |-> {}]
  /\ cur = [t \in Threads |-> None]
  /\ target = [t \in Threads |-> None]
  /\ overlap = FALSE /\ missed = FALSE /\ edits = 0 /\ charts = 0

\* A poller that reads its tags: _isRunning, a connected driver and timers.
Polling(p) == running[p] /\ up[p] /\ timers[p]

-----------------------------------------------------------------------------
(* Timer callbacks: PollGroupAsync.  Reading and handing over the values   *)
(* to OnTagValuesReceived happen inside the callback.                      *)

PollBegins(p) ==
  /\ Polling(p) /\ ~flight[p]
  /\ flight' = [flight EXCEPT ![p] = TRUE]
  /\ UNCHANGED <<disk, conf, pending, objects, threads, history>>

PollEnds(p) ==
  /\ flight[p]
  /\ flight' = [flight EXCEPT ![p] = FALSE]
  /\ UNCHANGED <<disk, conf, pending, objects, threads, history>>

-----------------------------------------------------------------------------
(* Stopping and starting one poller, as steps of a thread t.               *)

\* ConnectionPoller.StopAsync begins: from now on its callbacks return at
\* once.  Taking it from the table is the same step where the code does that.
Halt(t, p) ==
  /\ running' = [running EXCEPT ![p] = FALSE]
  /\ life' = [life EXCEPT ![p] = IF @ \in {"starting", "torn"} THEN "torn" ELSE "stopping"]
  /\ sub' = [sub EXCEPT ![t] = "dispose"]
  /\ cur' = [cur EXCEPT ![t] = p]

After(t) == IF op[t] = "restarting" THEN "create" ELSE "-"

\* Mutant: the timers are disposed of without waiting for their callbacks.
DisposeUnawaited(t) ==
  LET p == cur[t] IN
  /\ sub[t] = "dispose"
  /\ timers' = [timers EXCEPT ![p] = FALSE]
  /\ up' = [up EXCEPT ![p] = FALSE]
  /\ life' = [life EXCEPT ![p] = IF @ = "stopping" THEN "stopped" ELSE @]
  /\ conn' = [conn EXCEPT ![p] = IF life[p] = "stopping" THEN None ELSE @]
  /\ sub' = [sub EXCEPT ![t] = After(t)]
  /\ cur' = [cur EXCEPT ![t] = None]
  /\ UNCHANGED <<disk, conf, pending, pollers, running, flight, op, todo, target, history>>

\* Timer.DisposeAsync is over when no callback of the timer runs; then the
\* driver is disconnected.
Dispose(t) ==
  LET p == cur[t] IN
  /\ sub[t] = "dispose"
  /\ timers[p] => ~flight[p]
  /\ timers' = [timers EXCEPT ![p] = FALSE]
  /\ up' = [up EXCEPT ![p] = FALSE]
  /\ life' = [life EXCEPT ![p] = IF @ = "stopping" THEN "stopped" ELSE @]
  /\ conn' = [conn EXCEPT ![p] = IF life[p] = "stopping" THEN None ELSE @]
  /\ sub' = [sub EXCEPT ![t] = After(t)]
  /\ cur' = [cur EXCEPT ![t] = None]
  /\ UNCHANGED <<disk, conf, pending, pollers, running, flight, op, todo, target, history>>

\* Objects nothing refers to any more are used again.
Unused ==
  {p \in Pollers : life[p] \in {"none", "stopped"} /\ ~timers[p] /\ ~flight[p]
                   /\ \A t \in Threads : cur[t] # p /\ p \notin todo[t]}

\* StartConnectionPollerAsync: the new poller replaces whatever the table
\* holds for the connection, before it is started.
Create(t) ==
  /\ sub[t] = "create" /\ Unused # {}
  /\ LET p == CHOOSE q \in Unused : TRUE IN
     /\ pollers' = [pollers EXCEPT ![target[t]] = p]
     /\ conn' = [conn EXCEPT ![p] = target[t]]
     /\ life' = [life EXCEPT ![p] = "starting"]
     /\ running' = [running EXCEPT ![p] = FALSE]
     /\ up' = [up EXCEPT ![p] = FALSE]
     /\ cur' = [cur EXCEPT ![t] = p]
  /\ sub' = [sub EXCEPT ![t] = "start"]
  /\ target' = [target EXCEPT ![t] = None]
  /\ UNCHANGED <<disk, conf, pending, timers, flight, op, todo, history>>

\* ConnectionPoller.StartAsync: connect, then one timer per poll rate.  A
\* poller of the table may have been stopped before it gets here.
Start(t) ==
  LET p == cur[t] IN
  /\ sub[t] = "start"
  /\ up' = [up EXCEPT ![p] = TRUE]
  /\ running' = [running EXCEPT ![p] = TRUE]
  /\ timers' = [timers EXCEPT ![p] = TRUE]
  /\ life' = [life EXCEPT ![p] = IF @ = "starting" THEN "started" ELSE @]
  /\ sub' = [sub EXCEPT ![t] = "-"]
  /\ cur' = [cur EXCEPT ![t] = None]
  /\ UNCHANGED <<disk, conf, pending, pollers, conn, flight, op, todo, target, history>>

-----------------------------------------------------------------------------
(* The operations the threads are in.                                      *)

Between(t, o) == op[t] = o /\ sub[t] = "-"

\* LoadConnectionsAsync: a half-written file does not parse, and then there
\* are no connections.  The worker service goes on with StartAsync, a reload
\* with ReloadConfigurationAsync.
Load(t) ==
  /\ Between(t, "load")
  /\ conf' = IF writing THEN {} ELSE file
  /\ IF t = "main" THEN /\ op' = [op EXCEPT ![t] = "starting"]
                        /\ todo' = [todo EXCEPT ![t] = conf']
                   ELSE op' = [op EXCEPT ![t] = "collect"] /\ UNCHANGED todo
  /\ UNCHANGED <<disk, pending, objects, flight, sub, cur, target, history>>

\* PollEngine.StartAsync.
StartNext ==
  /\ Between("main", "starting")
  /\ \E c \in todo["main"] :
       /\ target' = [target EXCEPT !["main"] = c]
       /\ todo' = [todo EXCEPT !["main"] = @ \ {c}]
  /\ sub' = [sub EXCEPT !["main"] = "create"]
  /\ UNCHANGED <<disk, conf, pending, objects, flight, op, cur, history>>

\* The pollers are started, and ConfigWatcher.Start makes the watcher.
Serve ==
  /\ Between("main", "starting") /\ todo["main"] = {}
  /\ op' = [op EXCEPT !["main"] = "serving"]
  /\ UNCHANGED <<disk, conf, pending, objects, flight, sub, todo, cur, target, history>>

Reloading == {r \in Reloads : op[r] # "idle"}
Registered == {pollers[c] : c \in Conns} \ {None}

\* Mutant: StopAsync clears the table before it runs over it.
ShutdownClearing ==
  /\ Between("main", "serving")
  /\ pending' = "none"
  /\ op' = [op EXCEPT !["main"] = "halting"]
  /\ pollers' = [c \in Conns |-> None]
  /\ overlap' = (overlap \/ Reloading # {})
  /\ UNCHANGED <<disk, conf, conn, running, up, timers, life, flight, sub, todo, cur, target, missed>>

\* The worker service is cancelled: the watcher and its timer are disposed
\* of (a reload that runs already goes on), and StopAsync begins.
Shutdown ==
  /\ Between("main", "serving")
  /\ pending' = "none"
  /\ op' = [op EXCEPT !["main"] = "halting"]
  /\ todo' = [todo EXCEPT !["main"] = Registered]
  /\ overlap' = (overlap \/ Reloading # {})
  /\ UNCHANGED <<disk, conf, objects, flight, sub, cur, target, missed>>

HaltNext ==
  /\ Between("main", "halting")
  /\ \E p \in todo["main"] :
       /\ todo' = [todo EXCEPT !["main"] = @ \ {p}]
       /\ Halt("main", p)
  /\ UNCHANGED <<disk, conf, pending, pollers, conn, up, timers, flight, op, target, history>>

\* The table is cleared when every poller has been stopped.
Ended ==
  /\ Between("main", "halting") /\ todo["main"] = {}
  /\ pollers' = [c \in Conns |-> None]
  /\ op' = [op EXCEPT !["main"] = "ended"]
  /\ UNCHANGED <<disk, conf, pending, conn, running, up, timers, life, flight, sub, todo, cur, target, history>>

\* ReloadConfigurationAsync: what is to be stopped for good.
Collect(r) ==
  /\ Between(r, "collect")
  /\ op' = [op EXCEPT ![r] = "removing"]
  /\ todo' = [todo EXCEPT ![r] = {c \in Conns : pollers[c] # None} \ conf]
  /\ UNCHANGED <<disk, conf, pending, objects, flight, sub, cur, target, history>>

\* TryRemove, and StopAsync of what it returns.
Take(r, c) ==
  /\ pollers' = [pollers EXCEPT ![c] = None]
  /\ Halt(r, pollers[c])

RemoveNext(r) ==
  /\ Between(r, "removing")
  /\ \E c \in todo[r] :
       /\ todo' = [todo EXCEPT ![r] = @ \ {c}]
       /\ \/ pollers[c] # None /\ Take(r, c)
          \/ pollers[c] = None /\ UNCHANGED <<pollers, running, life, sub, cur>>
  /\ UNCHANGED <<disk, conf, pending, conn, up, timers, flight, op, target, history>>

\* The second loop runs over the connections as they are now.
Restart(r) ==
  /\ Between(r, "removing") /\ todo[r] = {}
  /\ op' = [op EXCEPT ![r] = "restarting"]
  /\ todo' = [todo EXCEPT ![r] = conf]
  /\ UNCHANGED <<disk, conf, pending, objects, flight, sub, cur, target, history>>

\* Mutant: a poller that exists is left in the table and not stopped.
RestartNextOver(r) ==
  /\ Between(r, "restarting")
  /\ \E c \in todo[r] :
       /\ todo' = [todo EXCEPT ![r] = @ \ {c}]
       /\ target' = [target EXCEPT ![r] = c]
  /\ sub' = [sub EXCEPT ![r] = "create"]
  /\ UNCHANGED <<disk, conf, pending, objects, flight, op, cur, history>>

\* An existing poller is stopped first, so that the new one reads the tags
\* as they are configured now.
RestartNext(r) ==
  /\ Between(r, "restarting")
  /\ \E c \in todo[r] :
       /\ todo' = [todo EXCEPT ![r] = @ \ {c}]
       /\ target' = [target EXCEPT ![r] = c]
       /\ \/ pollers[c] # None /\ Take(r, c)
          \/ /\ pollers[c] = None
             /\ sub' = [sub EXCEPT ![r] = "create"]
             /\ UNCHANGED <<pollers, running, life, cur>>
  /\ UNCHANGED <<disk, conf, pending, conn, up, timers, flight, op, history>>

Reloaded(r) ==
  /\ Between(r, "restarting") /\ todo[r] = {}
  /\ op' = [op EXCEPT ![r] = "idle"]
  /\ UNCHANGED <<disk, conf, pending, objects, flight, sub, todo, cur, target, history>>

-----------------------------------------------------------------------------
(* Files, events and the debounce timer.                                   *)

Watching == op["main"] = "serving"

\* Mutant: a timer that is pending is not replaced.
NotifyFirst(kind) ==
  /\ pending' = IF Watching /\ pending = "none" THEN kind ELSE pending
  /\ missed' = CASE kind = "connections" -> ~Watching /\ op["main"] # "load"
                 [] OTHER -> missed \/ pending = "connections"

\* DebouncedReload: one timer for all files, set anew by every event; the
\* file of the last event is the one that is reloaded.  Before the watcher
\* exists nobody hears of a change.
Notify(kind) ==
  /\ pending' = IF Watching THEN kind ELSE pending
  /\ missed' = CASE kind = "connections" -> ~Watching /\ op["main"] # "load"
                 [] OTHER -> missed \/ pending = "connections"

\* The file is truncated and written; both raise an event.
EditBegins ==
  /\ edits < MaxEdits /\ ~writing
  /\ edits' = edits + 1 /\ writing' = TRUE
  /\ Notify("connections")
  /\ UNCHANGED <<file, charts, conf, objects, flight, threads, overlap>>

EditEnds ==
  /\ writing /\ writing' = FALSE
  /\ file' \in SUBSET Conns
  /\ Notify("connections")
  /\ UNCHANGED <<edits, charts, conf, objects, flight, threads, overlap>>

EditCharts ==
  /\ charts < MaxCharts
  /\ charts' = charts + 1
  /\ Notify("charts")
  /\ UNCHANGED <<file, writing, edits, conf, objects, flight, threads, overlap>>

\* The timer fires: a reload starts on a thread of its own, whether or not
\* an earlier one is still under way.
Fire ==
  LET r == CHOOSE r \in Reloads : op[r] = "idle" IN
  /\ pending = "connections" /\ Reloading # Reloads
  /\ pending' = "none"
  /\ op' = [op EXCEPT ![r] = "load"]
  /\ overlap' = (overlap \/ Reloading # {})
  /\ UNCHANGED <<disk, conf, objects, flight, sub, todo, cur, target, missed>>

\* Charts and flows have nothing to do with the pollers.
FireCharts ==
  /\ pending = "charts" /\ pending' = "none"
  /\ UNCHANGED <<disk, conf, objects, flight, threads, history>>

-----------------------------------------------------------------------------
PollerStep(t) == Dispose(t) \/ Create(t) \/ Start(t)

MainStep == PollerStep("main") \/ Load("main") \/ StartNext \/ Serve \/ HaltNext \/ Ended

ReloadStep(r) ==
  PollerStep(r) \/ Load(r) \/ Collect(r) \/ RemoveNext(r) \/ Restart(r) \/ RestartNext(r) \/ Reloaded(r)

Timer == Fire \/ FireCharts

Next ==
  \/ MainStep \/ Shutdown \/ Timer
  \/ \E r \in Reloads : ReloadStep(r)
  \/ \E p \in Pollers : PollBegins(p) \/ PollEnds(p)
  \/ EditBegins \/ EditEnds \/ EditCharts

Spec == Init /\ [][Next]_vars

\* Threads run, callbacks return, timers fire and a writer of the file
\* finishes.  Nobody has to change a file or to stop the engine.
FairSpec ==
  /\ Spec /\ WF_vars(MainStep) /\ WF_vars(Timer) /\ WF_vars(EditEnds)
  /\ \A r \in Reloads : WF_vars(ReloadStep(r))
  /\ \A p \in Pollers : WF_vars(PollEnds(p))

-----------------------------------------------------------------------------
(* Properties.                                                             *)

\* Unless a reload ran into another one or into the shutdown, a poller that
\* reads is the one the table holds for its connection: no connection is
\* polled twice, and every poller can still be stopped.
PollingIsRegistered ==
  ~overlap => \A p \in Pollers : Polling(p) => pollers[conn[p]] = p

\* Once StopAsync of a started poller is over, no callback of it is inside a
\* read of the disconnected driver and none ever starts again, whoever else
\* starts and stops pollers meanwhile.  And after a shutdown that no reload ran
\* into, nothing polls.
StoppedIsQuiet ==
  \A p \in Pollers :
    life[p] = "stopped" \/ (op["main"] = "ended" /\ ~overlap) => ~flight[p] /\ ~Polling(p)

Settled ==
  /\ conf = file
  /\ \A c \in Conns : IF c \in file THEN pollers[c] # None /\ Polling(pollers[c])
                                    ELSE pollers[c] = None

\* In the end the engine polls what connections.json enables, half-written
\* files and failed loads in between notwithstanding: unless the change went
\* unnoticed (before the watcher existed, or because a change of another file
\* followed within the debounce time), reloads overlapped or the engine was
\* stopped.
Converges == <>[](Settled \/ missed \/ overlap \/ op["main"] \in {"halting", "ended"})
=============================================================================
