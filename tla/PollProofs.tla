----------------------------- MODULE PollProofs -----------------------------
(***************************************************************************)
(* What holds of the two programs that poll devices, for any number of     *)
(* connections, pollers, reloads and lost messages: in the C# engine what  *)
(* polls is in the table and what was stopped is quiet (PollEngine), and   *)
(* in the connectivity service a driver taken out of the connection map    *)
(* falls silent (TagSync, at the end).                                     *)
(***************************************************************************)
EXTENDS PollEngine, TagSync, TLAPS

Tables ==
  /\ file \in SUBSET Conns /\ conf \in SUBSET Conns
  /\ pollers \in [Conns -> Pollers \cup {None}]
  /\ conn \in [Pollers -> Conns \cup {None}]
  /\ running \in [Pollers -> BOOLEAN] /\ timers \in [Pollers -> BOOLEAN]
  /\ flight \in [Pollers -> BOOLEAN]
  /\ life = [p \in Pollers |-> life[p]] /\ up = [p \in Pollers |-> up[p]]
  /\ op = [t \in Threads |-> op[t]]
  /\ sub \in [Threads -> {"-", "dispose", "create", "start"}]
  /\ todo = [t \in Threads |-> todo[t]] /\ cur = [t \in Threads |-> cur[t]]
  /\ target = [t \in Threads |-> target[t]]

\* Where a thread is determines what it has in hand.
ThreadShape(t) ==
  /\ sub[t] = "-" => cur[t] = None
  /\ sub[t] = "dispose" => cur[t] \in Pollers /\ op[t] \in {"halting", "removing", "restarting"}
  /\ sub[t] = "create" => cur[t] = None /\ op[t] \in {"starting", "restarting"}
  /\ sub[t] = "start" => cur[t] \in Pollers /\ op[t] \in {"starting", "restarting"}
  /\ op[t] \in {"starting", "removing", "restarting"} => todo[t] \subseteq Conns
  /\ op[t] = "halting" => todo[t] \subseteq Pollers

\* It is about to put a new poller into the table, at once or after a Dispose.
Creating(t) == sub[t] = "create" \/ (sub[t] = "dispose" /\ op[t] = "restarting")

Shape ==
  /\ op["main"] \in {"load", "starting", "serving", "halting", "ended"}
  /\ \A r \in Reloads : op[r] \in {"idle", "load", "collect", "removing", "restarting"}
  /\ \A t \in Threads : ThreadShape(t) /\ (Creating(t) => target[t] \in Conns)

\* The life of a poller: one thread starts it, and its timers are disposed of
\* only when no callback runs.
Life ==
  /\ \A p \in Pollers :
       /\ flight[p] => timers[p]
       /\ life[p] \in {"stopping", "stopped"} => ~running[p]
       /\ life[p] = "stopped" => ~timers[p]
  /\ \A t \in Threads : sub[t] = "start" => life[cur[t]] \in {"starting", "torn"}
  /\ \A t, u \in Threads : sub[t] = "start" /\ sub[u] = "start" /\ cur[t] = cur[u] => t = u

Active(t) == op[t] \notin {"idle", "serving", "ended"}

\* Without overlap one thread at a time works on the pollers.
Alone ==
  /\ pending # "none" => op["main"] = "serving"
  /\ ~overlap => \A t, u \in Threads : Active(t) /\ Active(u) => t = u
  /\ ~overlap /\ op["main"] # "serving" => Reloading = {}

Listed(p) == conn[p] \in Conns /\ pollers[conn[p]] = p

\* What that means for the table.
Registration ==
  /\ \A p \in Pollers : timers[p] /\ running[p] => Listed(p)
  /\ \A p \in Pollers : timers[p] /\ ~running[p] =>
       \E t \in Threads : sub[t] = "dispose" /\ cur[t] = p
  /\ \A t \in Threads : Creating(t) => pollers[target[t]] = None
  /\ \A t \in Threads : sub[t] = "start" => Listed(cur[t])
  /\ op["main"] = "load" => \A c \in Conns : pollers[c] = None
  /\ op["main"] = "starting" => 
       \A c \in todo["main"] : pollers[c] = None /\ (sub["main"] = "create" => c # target["main"])
  /\ op["main"] = "halting" => \A p \in Pollers : timers[p] /\ running[p] => p \in todo["main"]
  /\ op["main"] = "ended" => \A p \in Pollers : ~timers[p]

\* StoppedIsQuiet and PollingIsRegistered say nothing of threads between two
\* steps, which these conjuncts do.
IInv == Tables /\ Shape /\ Life /\ Alone /\ (~overlap => Registration)

LEMMA NoneIsNoPoller == None \notin Pollers
BY PollEngineAssumption DEF None

LEMMA MainIsAThread == "main" \in Threads /\ Reloads \subseteq Threads /\ "main" \notin Reloads
BY PollEngineAssumption DEF Threads

-----------------------------------------------------------------------------
(* Steps of callbacks, files and timers.                                   *)

LEMMA CallbackHolds ==
  ASSUME IInv, NEW p \in Pollers, PollBegins(p) \/ PollEnds(p)
  PROVE  IInv'
<1>1. /\ flight' = [flight EXCEPT ![p] = TRUE] \/ flight' = [flight EXCEPT ![p] = FALSE]
      /\ UNCHANGED <<disk, conf, pending, objects, threads, history>>
  BY DEF PollBegins, PollEnds, Polling
<1> USE DEF disk, objects, threads, history
<1>2. Tables'
  BY <1>1 DEF IInv, Tables
<1>3. Shape' /\ Alone' /\ (~overlap' => Registration')
  BY <1>1 DEF IInv, Shape, ThreadShape, Creating, Alone, Active, Reloading, Registration, Listed
<1>4. Life'
  BY <1>1 DEF IInv, Tables, Life, PollBegins, PollEnds, Polling
<1> QED BY <1>2, <1>3, <1>4 DEF IInv

LEMMA FileHolds ==
  ASSUME IInv, EditBegins \/ EditEnds \/ EditCharts \/ FireCharts \/ UNCHANGED vars
  PROVE  IInv'
<1> USE DEF disk, objects, threads, history
<1>1. /\ UNCHANGED <<conf, objects, flight, threads, overlap>>
      /\ pending' = pending \/ pending' = "none" \/ Watching
      /\ file' \in SUBSET Conns
  BY DEF EditBegins, EditEnds, EditCharts, FireCharts, Notify, vars, IInv, Tables
<1>2. Tables' /\ Life'
  BY <1>1 DEF IInv, Tables, Life
<1>3. Shape' /\ Alone' /\ (~overlap' => Registration')
  BY <1>1
  DEF IInv, Shape, ThreadShape, Creating, Alone, Active, Reloading, Registration, Listed, Watching
<1> QED BY <1>2, <1>3 DEF IInv

\* A second reload sets overlap; the first one finds the worker service idle.
LEMMA FireHolds ==
  ASSUME IInv, Fire
  PROVE  IInv'
<1> DEFINE r == CHOOSE r \in Reloads : op[r] = "idle"
<1> USE DEF disk, objects, threads, history
<1>1. r \in Reloads /\ op[r] = "idle"
  BY DEF Fire, Reloading
<1>2. /\ pending = "connections" /\ pending' = "none" /\ op' = [op EXCEPT ![r] = "load"]
      /\ overlap' = (overlap \/ Reloading # {})
      /\ UNCHANGED <<disk, conf, objects, flight, sub, todo, cur, target>>
  BY DEF Fire
<1> HIDE DEF r
<1>3. r \in Threads /\ r # "main" /\ "main" \in Threads
  BY <1>1, MainIsAThread
<1>4. Tables' /\ Life'
  BY <1>1, <1>2 DEF IInv, Tables, Life
<1>5. sub[r] = "-"
  BY <1>1, <1>3 DEF IInv, Tables, Shape, ThreadShape
<1>6. Shape'
  BY <1>1, <1>2, <1>3, <1>5 DEF IInv, Tables, Shape, ThreadShape, Creating
<1>7. op["main"] = "serving"
  BY <1>2 DEF IInv, Alone
<1>8. Alone'
  <2>1. ASSUME ~overlap', NEW t \in Threads, Active(t)' PROVE t = r
    BY <1>2, <1>3, <1>7, <2>1 DEF IInv, Tables, Active, Reloading, Threads
  <2>2. op'["main"] = "serving"
    BY <1>2, <1>3, <1>7 DEF IInv, Tables
  <2> QED BY <1>2, <2>1, <2>2 DEF Alone
<1>9. ASSUME ~overlap' PROVE Registration'
  BY <1>1, <1>2, <1>3, <1>5, <1>7, <1>9 DEF IInv, Tables, Registration, Creating, Listed
<1> QED BY <1>4, <1>6, <1>8, <1>9 DEF IInv

-----------------------------------------------------------------------------
(* Steps that only take a thread from one operation to the next.           *)

\* Without overlap the other threads have nothing in hand.
LEMMA OthersRest ==
  ASSUME IInv, ~overlap, NEW t \in Threads, Active(t)
  PROVE  \A u \in Threads : u # t => ~Active(u) /\ sub[u] = "-" /\ cur[u] = None
<1>1. \A u \in Threads : sub[u] # "-" => Active(u)
  BY DEF IInv, Tables, Shape, ThreadShape, Active
<1> QED BY <1>1 DEF IInv, Alone, Shape, ThreadShape

\* Without overlap a reload runs only while the worker service waits.
LEMMA MainServes ==
  ASSUME IInv, ~overlap, NEW r \in Reloads, Active(r)
  PROVE  op["main"] = "serving"
BY DEF IInv, Alone, Reloading, Active

LEMMA OpShape ==
  ASSUME IInv, NEW t \in Threads, NEW o, sub[t] = "-",
         op' = [op EXCEPT ![t] = o],
         UNCHANGED <<file, conn, running, up, timers, life, flight, sub, cur, target>>,
         conf' \in SUBSET Conns, pollers' \in [Conns -> Pollers \cup {None}],
         todo' = [u \in Threads |-> IF u = t THEN todo'[t] ELSE todo[u]],
         IF t = "main" THEN o \in {"starting", "serving", "halting", "ended"}
                       ELSE o \in {"idle", "collect", "removing", "restarting"},
         o \in {"starting", "removing", "restarting"} => todo'[t] \subseteq Conns,
         o = "halting" => todo'[t] \subseteq Pollers
  PROVE  Tables' /\ Shape' /\ Life'
<1>1. Tables' /\ Life'
  BY DEF IInv, Tables, Life
<1>2. ASSUME NEW u \in Threads PROVE (ThreadShape(u) /\ (Creating(u) => target[u] \in Conns))'
  BY DEF IInv, Tables, Shape, ThreadShape, Creating
<1>3. op'["main"] \in {"load", "starting", "serving", "halting", "ended"}
  BY MainIsAThread DEF IInv, Tables, Shape
<1>4. \A r \in Reloads : op'[r] \in {"idle", "load", "collect", "removing", "restarting"}
  BY MainIsAThread DEF IInv, Tables, Shape
<1> QED BY <1>1, <1>2, <1>3, <1>4 DEF Shape

LEMMA OpAlone ==
  ASSUME IInv, NEW t \in Threads, NEW o, Active(t), op' = [op EXCEPT ![t] = o],
         o # "load", UNCHANGED <<pending, overlap>>
  PROVE  Alone'
<1>1. \A u \in Threads : Active(u)' => Active(u)
  BY DEF IInv, Tables, Active
<1>2. op["main"] = "serving" => op'["main"] = "serving"
  BY MainIsAThread DEF IInv, Tables, Active
<1>3. ASSUME ~overlap, op'["main"] # "serving" PROVE Reloading' = {}
  <2>1. Reloading = {}
    BY <1>2, <1>3 DEF IInv, Alone
  <2>2. \A r \in Reloads : op'[r] = op[r]
    BY <2>1, MainIsAThread DEF IInv, Tables, Reloading, Active
  <2> QED BY <2>1, <2>2 DEF Reloading
<1> QED BY <1>1, <1>2, <1>3 DEF IInv, Alone

LEMMA LoadHolds ==
  ASSUME IInv, NEW t \in Threads, Load(t)
  PROVE  IInv'
<1> USE DEF disk, objects, threads, history
<1> DEFINE o == IF t = "main" THEN "starting" ELSE "collect"
<1>1. /\ op[t] = "load" /\ sub[t] = "-" /\ conf' \in SUBSET Conns
      /\ op' = [op EXCEPT ![t] = o]
      /\ todo' = IF t = "main" THEN [todo EXCEPT ![t] = conf'] ELSE todo
      /\ UNCHANGED <<disk, pending, objects, flight, sub, cur, target, overlap>>
  BY DEF Load, Between, IInv, Tables
<1>2. /\ todo' = [u \in Threads |-> IF u = t THEN todo'[t] ELSE todo[u]]
      /\ t = "main" => todo'[t] = conf'
  BY <1>1 DEF IInv, Tables
<1>3. Tables' /\ Shape' /\ Life'
  BY <1>1, <1>2, OpShape DEF IInv, Tables
<1>4. Active(t) /\ o # "load"
  BY <1>1 DEF Active
<1>5. Alone'
  BY <1>1, <1>4, OpAlone
<1>6. ASSUME ~overlap' PROVE Registration'
  <2>1. ~overlap
    BY <1>1, <1>6
  <2>2. CASE t = "main"
    BY <1>1, <1>2, <2>1, <2>2, MainIsAThread DEF IInv, Tables, Registration, Creating, Listed
  <2>3. CASE t # "main"
    <3>1. op'["main"] = op["main"] /\ op["main"] = "serving"
      BY <1>1, <1>4, <2>1, <2>3, MainServes, MainIsAThread DEF IInv, Tables, Threads
    <3> QED BY <1>1, <2>1, <2>3, <3>1 DEF IInv, Tables, Registration, Creating, Listed
  <2> QED BY <2>2, <2>3
<1> QED BY <1>3, <1>5, <1>6 DEF IInv

LEMMA ServeHolds ==
  ASSUME IInv, Serve
  PROVE  IInv'
<1> USE DEF disk, objects, threads, history
<1>1. /\ op["main"] = "starting" /\ sub["main"] = "-" /\ op' = [op EXCEPT !["main"] = "serving"]
      /\ UNCHANGED <<disk, conf, pending, objects, flight, sub, todo, cur, target, overlap>>
  BY DEF Serve, Between
<1>2. "main" \in Threads /\ Active("main")
  BY <1>1, MainIsAThread DEF Active
<1>3. todo' = [u \in Threads |-> IF u = "main" THEN todo'["main"] ELSE todo[u]]
  BY <1>1 DEF IInv, Tables
<1>4. Tables' /\ Shape' /\ Life'
  BY <1>1, <1>2, <1>3, OpShape DEF IInv, Tables
<1>5. Alone'
  BY <1>1, <1>2, OpAlone
<1>6. ASSUME ~overlap' PROVE Registration'
  BY <1>1, <1>2, <1>6 DEF IInv, Tables, Registration, Creating, Listed
<1> QED BY <1>4, <1>5, <1>6 DEF IInv

\* What is registered is what polls, and becomes the work of the loop.
LEMMA ShutdownHolds ==
  ASSUME IInv, Shutdown
  PROVE  IInv'
<1> USE DEF disk, objects, threads, history
<1>1. /\ op["main"] = "serving" /\ sub["main"] = "-" /\ op' = [op EXCEPT !["main"] = "halting"]
      /\ todo' = [todo EXCEPT !["main"] = Registered] /\ pending' = "none"
      /\ overlap' = (overlap \/ Reloading # {})
      /\ UNCHANGED <<disk, conf, objects, flight, sub, cur, target>>
  BY DEF Shutdown, Between
<1>2. "main" \in Threads /\ todo'["main"] = Registered /\ Registered \subseteq Pollers
  BY <1>1, MainIsAThread DEF IInv, Tables, Registered
<1>3. todo' = [u \in Threads |-> IF u = "main" THEN todo'["main"] ELSE todo[u]]
  BY <1>1 DEF IInv, Tables
<1>4. Tables' /\ Shape' /\ Life'
  BY <1>1, <1>2, <1>3, OpShape DEF IInv, Tables
<1>5. Alone'
  <2>1. ASSUME ~overlap' PROVE \A r \in Reloads : op'[r] = "idle"
    BY <1>1, <2>1, MainIsAThread DEF IInv, Tables, Reloading
  <2> QED BY <1>1, <2>1 DEF Alone, Active, Reloading, Threads
<1>6. ASSUME ~overlap' PROVE Registration'
  <2>1. \A p \in Pollers : timers[p] /\ running[p] => p \in Registered
    BY <1>1, <1>6, NoneIsNoPoller DEF IInv, Tables, Registration, Listed, Registered
  <2> QED BY <1>1, <1>2, <1>6, <2>1 DEF IInv, Tables, Registration, Creating, Listed
<1> QED BY <1>4, <1>5, <1>6 DEF IInv

\* The loop is through, and Dispose has waited for what it halted.
LEMMA EndedHolds ==
  ASSUME IInv, Ended
  PROVE  IInv'
<1> USE DEF disk, objects, threads, history
<1>1. /\ op["main"] = "halting" /\ sub["main"] = "-" /\ todo["main"] = {}
      /\ op' = [op EXCEPT !["main"] = "ended"] /\ pollers' = [c \in Conns |-> None]
      /\ UNCHANGED <<disk, conf, pending, conn, running, up, timers, life, flight, sub, todo, cur,
                     target, overlap>>
  BY DEF Ended, Between
<1>2. "main" \in Threads /\ Active("main")
  BY <1>1, MainIsAThread DEF Active
<1>3. todo' = [u \in Threads |-> IF u = "main" THEN todo'["main"] ELSE todo[u]]
  BY <1>1 DEF IInv, Tables
<1>4. Tables' /\ Shape' /\ Life'
  BY <1>1, <1>2, <1>3, OpShape DEF IInv, Tables
<1>5. Alone'
  BY <1>1, <1>2, OpAlone
<1>6. ASSUME ~overlap' PROVE Registration'
  <2>1. \A u \in Threads : sub[u] = "-"
    BY <1>1, <1>2, <1>6, OthersRest
  <2>2. \A p \in Pollers : ~timers[p]
    BY <1>1, <1>6, <2>1 DEF IInv, Tables, Registration
  <2>3. op'["main"] = "ended"
    BY <1>1, <1>2 DEF IInv, Tables
  <2> QED BY <1>1, <2>1, <2>2, <2>3 DEF Registration, Creating
<1> QED BY <1>4, <1>5, <1>6 DEF IInv

LEMMA LoopHolds ==
  ASSUME IInv, NEW r \in Reloads, Collect(r) \/ Restart(r) \/ Reloaded(r)
  PROVE  IInv'
<1> USE DEF disk, objects, threads, history
<1>1. PICK o \in {"removing", "restarting", "idle"} :
        /\ Active(r) /\ sub[r] = "-" /\ op' = [op EXCEPT ![r] = o]
        /\ o # "idle" => \E T \in SUBSET Conns : todo' = [todo EXCEPT ![r] = T]
        /\ o = "idle" => todo' = todo
        /\ UNCHANGED <<disk, conf, pending, objects, flight, sub, cur, target, overlap>>
  BY DEF Collect, Restart, Reloaded, Between, Active, IInv, Tables
<1>2. r \in Threads /\ r # "main"
  BY MainIsAThread
<1>3. /\ todo' = [u \in Threads |-> IF u = r THEN todo'[r] ELSE todo[u]]
      /\ o # "idle" => todo'[r] \subseteq Conns
  BY <1>1, <1>2 DEF IInv, Tables
<1>4. Tables' /\ Shape' /\ Life'
  BY <1>1, <1>2, <1>3, OpShape DEF IInv, Tables
<1>5. Alone'
  BY <1>1, <1>2, OpAlone
<1>6. ASSUME ~overlap' PROVE Registration'
  <2>1. op["main"] = "serving" /\ op'["main"] = "serving"
    BY <1>1, <1>2, <1>6, MainServes, MainIsAThread DEF IInv, Tables
  <2>2. \A u \in Threads : Creating(u)' => Creating(u)
    BY <1>1, <1>2 DEF IInv, Tables, Creating
  <2>3. Registration
    BY <1>1, <1>6 DEF IInv
  <2> QED BY <1>1, <2>1, <2>2, <2>3 DEF Registration, Listed
<1> QED BY <1>4, <1>5, <1>6 DEF IInv

-----------------------------------------------------------------------------
(* Steps that stop a poller or start one.                                  *)

\* Whether the other threads work on a poller does not change.
LEMMA SubShape ==
  ASSUME IInv, NEW t \in Threads, NEW s \in {"-", "dispose", "create", "start"},
         sub[t] # "-" \/ op[t] \in {"starting", "halting", "removing", "restarting"},
         sub' = [sub EXCEPT ![t] = s], op' = op,
         todo' = [u \in Threads |-> IF u = t THEN todo'[t] ELSE todo[u]],
         cur' = [u \in Threads |-> IF u = t THEN cur'[t] ELSE cur[u]],
         target' = [u \in Threads |-> IF u = t THEN target'[t] ELSE target[u]],
         todo'[t] \subseteq todo[t],
         s \in {"-", "create"} => cur'[t] = None,
         s \in {"dispose", "start"} => cur'[t] \in Pollers,
         s = "dispose" => op[t] \in {"halting", "removing", "restarting"},
         s \in {"create", "start"} => op[t] \in {"starting", "restarting"},
         s = "create" \/ (s = "dispose" /\ op[t] = "restarting") => target'[t] \in Conns
  PROVE  Shape'
<1>1. ASSUME NEW u \in Threads PROVE (ThreadShape(u) /\ (Creating(u) => target[u] \in Conns))'
  <2>1. CASE u = t
    BY <2>1 DEF IInv, Tables, Shape, ThreadShape, Creating
  <2>2. CASE u # t
    BY <2>2 DEF IInv, Tables, Shape, ThreadShape, Creating
  <2> QED BY <2>1, <2>2
<1> QED BY <1>1 DEF IInv, Shape

LEMMA AloneStays ==
  ASSUME IInv, UNCHANGED <<op, pending, overlap>>
  PROVE  Alone'
BY DEF IInv, Alone, Active, Reloading

LEMMA StartNextHolds ==
  ASSUME IInv, StartNext
  PROVE  IInv'
<1> USE DEF disk, objects, threads, history
<1>1. "main" \in Threads /\ op["main"] = "starting" /\ sub["main"] = "-" /\ Active("main")
  BY MainIsAThread DEF StartNext, Between, Active
<1>2. PICK c \in todo["main"] :
        /\ target' = [target EXCEPT !["main"] = c]
        /\ todo' = [todo EXCEPT !["main"] = @ \ {c}]
        /\ sub' = [sub EXCEPT !["main"] = "create"]
        /\ UNCHANGED <<disk, conf, pending, objects, flight, op, cur, overlap>>
  BY DEF StartNext
<1>3. c \in Conns /\ cur["main"] = None
  BY <1>1 DEF IInv, Shape, ThreadShape
<1>4. Tables' /\ Life'
  BY <1>1, <1>2 DEF IInv, Tables, Life
<1>5. Shape'
  BY <1>1, <1>2, <1>3, SubShape DEF IInv, Tables
<1>6. ASSUME ~overlap' PROVE Registration'
  <2>1. \A u \in Threads : u # "main" => sub[u] = "-"
    BY <1>1, <1>2, <1>6, OthersRest
  <2>2. Registration
    BY <1>2, <1>6 DEF IInv
  <2> QED BY <1>1, <1>2, <1>3, <2>1, <2>2 DEF IInv, Tables, Registration, Creating, Listed
<1> QED BY <1>2, <1>4, <1>5, <1>6, AloneStays DEF IInv

\* Halt(t, p), with p in the table or not.
LEMMA HaltLife ==
  ASSUME IInv, NEW t \in Threads, NEW p \in Pollers, sub[t] = "-", Halt(t, p),
         UNCHANGED <<timers, flight>>
  PROVE  Life'
<1>1. \A q \in Pollers : q # p => life'[q] = life[q] /\ running'[q] = running[q]
  BY DEF Halt, IInv, Tables
<1>2. /\ ~running'[p] /\ life'[p] # "stopped"
      /\ life[p] \in {"starting", "torn"} => life'[p] = "torn"
  BY DEF Halt, IInv, Tables
<1>3. \A u \in Threads :
           sub'[u] = "start" => sub[u] = "start" /\ cur'[u] = cur[u] /\ cur[u] \in Pollers
  BY DEF Halt, IInv, Tables, Shape, ThreadShape
<1> QED BY <1>1, <1>2, <1>3 DEF IInv, Life

LEMMA HaltNextHolds ==
  ASSUME IInv, HaltNext
  PROVE  IInv'
<1> USE DEF disk, objects, threads, history
<1>1. "main" \in Threads /\ op["main"] = "halting" /\ sub["main"] = "-" /\ Active("main")
  BY MainIsAThread DEF HaltNext, Between, Active
<1>2. PICK p \in todo["main"] :
        /\ todo' = [todo EXCEPT !["main"] = @ \ {p}] /\ Halt("main", p)
        /\ UNCHANGED <<disk, conf, pending, pollers, conn, up, timers, flight, op, target, overlap>>
  BY DEF HaltNext
<1>3. p \in Pollers
  BY <1>1 DEF IInv, Shape, ThreadShape
<1>4. Tables' /\ Life'
  BY <1>1, <1>2, <1>3, HaltLife DEF IInv, Tables, Halt
<1>5. Shape'
  BY <1>1, <1>2, <1>3, SubShape DEF IInv, Tables, Halt
<1>6. ASSUME ~overlap' PROVE Registration'
  <2>1. \A u \in Threads : u # "main" => sub[u] = "-"
    BY <1>1, <1>2, <1>6, OthersRest
  <2>2. Registration
    BY <1>2, <1>6 DEF IInv
  <2>3. \A u \in Threads : u # "main" => sub'[u] = "-"
    BY <1>1, <1>2, <2>1 DEF Halt, IInv, Tables
  <2>4. /\ sub'["main"] = "dispose" /\ cur'["main"] = p /\ op' = op
        /\ \A q \in Pollers : running'[q] = IF q = p THEN FALSE ELSE running[q]
        /\ todo'["main"] = todo["main"] \ {p}
    BY <1>1, <1>2, <1>3 DEF Halt, IInv, Tables
  <2>5. \A q \in Pollers : ~(timers[q] /\ ~running[q])
    BY <1>1, <2>1, <2>2 DEF Registration
  <2> QED BY <1>1, <1>2, <2>1, <2>2, <2>3, <2>4, <2>5 DEF Registration, Creating, Listed
<1> QED BY <1>2, <1>4, <1>5, <1>6, AloneStays DEF IInv

-----------------------------------------------------------------------------
LEMMA TakeHolds ==
  ASSUME IInv, NEW r \in Reloads, op[r] \in {"removing", "restarting"}, sub[r] = "-",
         NEW c \in todo[r], pollers[c] # None, Take(r, c),
         todo' = [todo EXCEPT ![r] = @ \ {c}],
         target' = IF op[r] = "restarting" THEN [target EXCEPT ![r] = c] ELSE target,
         UNCHANGED <<disk, conf, pending, conn, up, timers, flight, op, overlap>>
  PROVE  IInv'
<1> DEFINE p == pollers[c]
<1> USE DEF disk
<1>1. r \in Threads /\ r # "main" /\ "main" \in Threads /\ Active(r)
  BY MainIsAThread DEF Active
<1>2. c \in Conns /\ p \in Pollers
  BY <1>1 DEF IInv, Tables, Shape, ThreadShape
<1>3. pollers' = [pollers EXCEPT ![c] = None] /\ Halt(r, p)
  BY DEF Take
<1> HIDE DEF p
<1>4. Tables' /\ Life'
  BY <1>1, <1>2, <1>3, HaltLife DEF IInv, Tables, Halt
<1>5. Shape'
  BY <1>1, <1>2, <1>3, SubShape DEF IInv, Tables, Halt
<1>6. ASSUME ~overlap' PROVE Registration'
  <2>1. op["main"] = "serving" /\ Registration
    BY <1>1, <1>6, MainServes DEF IInv
  <2>2. \A u \in Threads : sub[u] = "-"
    BY <1>1, <1>6, OthersRest
  <2>3. /\ sub'[r] = "dispose" /\ cur'[r] = p
        /\ \A u \in Threads : u # r => sub'[u] = "-"
        /\ \A q \in Pollers : running'[q] = IF q = p THEN FALSE ELSE running[q]
        /\ \A d \in Conns : pollers'[d] = IF d = c THEN None ELSE pollers[d]
        /\ op[r] = "restarting" => target'[r] = c
    BY <1>1, <1>2, <1>3, <2>2 DEF Halt, IInv, Tables
  <2>4. \A q \in Pollers : ~(timers[q] /\ ~running[q])
    BY <2>1, <2>2 DEF Registration
  <2>5. ASSUME NEW q \in Pollers, timers[q], running'[q] PROVE Listed(q)'
    <3>1. q # p /\ running[q] /\ conn' = conn
      BY <2>3, <2>5
    <3>2. conn[q] \in Conns /\ pollers[conn[q]] = q /\ conn[q] # c
      BY <2>1, <2>5, <3>1 DEF Registration, Listed, p
    <3> QED BY <2>3, <3>1, <3>2 DEF Listed
  <2>6. \A q \in Pollers : timers[q] /\ ~running'[q] => sub'[r] = "dispose" /\ cur'[r] = q
    BY <2>3, <2>4
  <2>7. \A u \in Threads : Creating(u)' => pollers'[target'[u]] = None
    BY <1>2, <2>3 DEF Creating
  <2> QED BY <1>1, <2>1, <2>3, <2>5, <2>6, <2>7 DEF Registration
<1> QED BY <1>4, <1>5, <1>6, AloneStays DEF IInv

LEMMA RemoveNextHolds ==
  ASSUME IInv, NEW r \in Reloads, RemoveNext(r)
  PROVE  IInv'
<1> USE DEF disk, objects, threads, history
<1>1. r \in Threads /\ op[r] = "removing" /\ sub[r] = "-" /\ Active(r)
  BY MainIsAThread DEF RemoveNext, Between, Active
<1>2. PICK c \in todo[r] :
        /\ todo' = [todo EXCEPT ![r] = @ \ {c}]
        /\ \/ pollers[c] # None /\ Take(r, c)
           \/ pollers[c] = None /\ UNCHANGED <<pollers, running, life, sub, cur>>
  BY DEF RemoveNext
<1>3. UNCHANGED <<disk, conf, pending, conn, up, timers, flight, op, target, overlap>>
  BY DEF RemoveNext
<1>4. CASE pollers[c] # None /\ Take(r, c)
  BY <1>1, <1>2, <1>3, <1>4, TakeHolds
<1>5. CASE UNCHANGED <<pollers, running, life, sub, cur>>
  <2>1. Tables' /\ Life'
    BY <1>2, <1>3, <1>5 DEF IInv, Tables, Life
  <2>2. Shape'
    BY <1>1, <1>2, <1>3, <1>5 DEF IInv, Tables, Shape, ThreadShape, Creating
  <2>3. ASSUME ~overlap' PROVE Registration'
    <3>1. op["main"] = "serving" /\ Registration
      BY <1>1, <1>3, <2>3, MainServes DEF IInv
    <3> QED BY <1>3, <1>5, <3>1 DEF Registration, Creating, Listed
  <2> QED BY <1>3, <2>1, <2>2, <2>3, AloneStays DEF IInv
<1> QED BY <1>2, <1>4, <1>5

LEMMA RestartNextHolds ==
  ASSUME IInv, NEW r \in Reloads, RestartNext(r)
  PROVE  IInv'
<1> USE DEF disk, objects, threads, history
<1>1. r \in Threads /\ op[r] = "restarting" /\ sub[r] = "-" /\ Active(r)
  BY MainIsAThread DEF RestartNext, Between, Active
<1>2. PICK c \in todo[r] :
        /\ todo' = [todo EXCEPT ![r] = @ \ {c}] /\ target' = [target EXCEPT ![r] = c]
        /\ \/ pollers[c] # None /\ Take(r, c)
           \/ /\ pollers[c] = None /\ sub' = [sub EXCEPT ![r] = "create"]
              /\ UNCHANGED <<pollers, running, life, cur>>
  BY DEF RestartNext
<1>3. UNCHANGED <<disk, conf, pending, conn, up, timers, flight, op, overlap>>
  BY DEF RestartNext
<1>4. CASE pollers[c] # None /\ Take(r, c)
  BY <1>1, <1>2, <1>3, <1>4, TakeHolds
<1>5. CASE /\ pollers[c] = None /\ sub' = [sub EXCEPT ![r] = "create"]
           /\ UNCHANGED <<pollers, running, life, cur>>
  <2>1. Tables' /\ Life'
    BY <1>2, <1>3, <1>5 DEF IInv, Tables, Life
  <2>2. c \in Conns /\ cur[r] = None
    BY <1>1 DEF IInv, Shape, ThreadShape
  <2>3. Shape'
    BY <1>1, <1>2, <1>3, <1>5, <2>2, SubShape DEF IInv, Tables
  <2>4. ASSUME ~overlap' PROVE Registration'
    <3>1. op["main"] = "serving" /\ Registration
      BY <1>1, <1>3, <2>4, MainServes DEF IInv
    <3>2. \A u \in Threads : sub[u] = "-"
      BY <1>1, <1>3, <2>4, OthersRest
    <3> QED BY <1>1, <1>2, <1>3, <1>5, <3>1, <3>2 DEF IInv, Tables, Registration, Creating, Listed
  <2> QED BY <1>3, <2>1, <2>3, <2>4, AloneStays DEF IInv
<1> QED BY <1>2, <1>4, <1>5

\* Timer.DisposeAsync waits for the callback: flight implies timers.
LEMMA DisposeHolds ==
  ASSUME IInv, NEW t \in Threads, Dispose(t)
  PROVE  IInv'
<1> DEFINE p == cur[t]
<1> USE DEF disk, objects, threads, history
<1>1. /\ sub[t] = "dispose" /\ (timers[p] => ~flight[p])
      /\ timers' = [timers EXCEPT ![p] = FALSE] /\ up' = [up EXCEPT ![p] = FALSE]
      /\ life' = [life EXCEPT ![p] = IF @ = "stopping" THEN "stopped" ELSE @]
      /\ conn' = [conn EXCEPT ![p] = IF life[p] = "stopping" THEN None ELSE @]
      /\ sub' = [sub EXCEPT ![t] = After(t)] /\ cur' = [cur EXCEPT ![t] = None]
      /\ UNCHANGED <<disk, conf, pending, pollers, running, flight, op, todo, target, overlap>>
  BY DEF Dispose
<1>2. p \in Pollers /\ op[t] \in {"halting", "removing", "restarting"}
  BY <1>1 DEF IInv, Shape, ThreadShape
<1> HIDE DEF p
<1>3. Tables'
  BY <1>1, <1>2 DEF IInv, Tables, After
<1>4. Life'
  <2>1. /\ timers'[p] = FALSE /\ ~flight[p]
        /\ \A q \in Pollers : q # p => timers'[q] = timers[q] /\ life'[q] = life[q]
        /\ life'[p] = IF life[p] = "stopping" THEN "stopped" ELSE life[p]
    BY <1>1, <1>2 DEF IInv, Tables, Life
  <2>2. \A u \in Threads :
             sub'[u] = "start" => sub[u] = "start" /\ cur'[u] = cur[u] /\ cur[u] \in Pollers
    BY <1>1 DEF IInv, Tables, After, Shape, ThreadShape
  <2> QED BY <1>1, <2>1, <2>2 DEF IInv, Life
<1>5. Shape'
  BY <1>1, <1>2, SubShape DEF IInv, Tables, After, Shape, Creating
<1>6. ASSUME ~overlap' PROVE Registration'
  <2>1. Registration /\ \A u \in Threads : u # t => sub[u] = "-" /\ sub'[u] = "-"
    BY <1>1, <1>2, <1>6, OthersRest DEF IInv, Tables, Active
  <2>2. sub'[t] \in {"-", "create"} /\ (sub'[t] = "create" <=> op[t] = "restarting")
    BY <1>1 DEF IInv, Tables, After
  <2>3. \A q \in Pollers :
             IF q = p THEN ~timers'[q] ELSE timers'[q] = timers[q] /\ conn'[q] = conn[q]
    BY <1>1, <1>2 DEF IInv, Tables
  <2>4. \A q \in Pollers : timers'[q] => running[q]
    BY <1>1, <2>1, <2>3 DEF Registration, p
  <2>5. op["main"] # "starting"
    BY <1>1, <1>2, <1>6, MainServes, MainIsAThread DEF Active, IInv, Tables, Threads
  <2> QED BY <1>1, <2>1, <2>2, <2>3, <2>4, <2>5 DEF Registration, Creating, Listed
<1> QED BY <1>1, <1>3, <1>4, <1>5, <1>6, AloneStays DEF IInv

\* An unused poller: nobody holds it, and its timers do not exist.
LEMMA CreateHolds ==
  ASSUME IInv, NEW t \in Threads, Create(t)
  PROVE  IInv'
<1> DEFINE p == CHOOSE q \in Unused : TRUE
           c == target[t]
<1> USE DEF disk, objects, threads, history
<1>1. /\ sub[t] = "create" /\ Unused # {}
      /\ pollers' = [pollers EXCEPT ![c] = p] /\ conn' = [conn EXCEPT ![p] = c]
      /\ life' = [life EXCEPT ![p] = "starting"] /\ running' = [running EXCEPT ![p] = FALSE]
      /\ up' = [up EXCEPT ![p] = FALSE] /\ cur' = [cur EXCEPT ![t] = p]
      /\ sub' = [sub EXCEPT ![t] = "start"] /\ target' = [target EXCEPT ![t] = None]
      /\ UNCHANGED <<disk, conf, pending, timers, flight, op, todo, overlap>>
  BY DEF Create
<1>2. p \in Unused
  BY <1>1
<1> HIDE DEF p
<1>3. p \in Pollers /\ ~timers[p] /\ ~flight[p] /\ \A u \in Threads : cur[u] # p
  BY <1>2 DEF Unused
<1>4. c \in Conns /\ op[t] \in {"starting", "restarting"}
  BY <1>1 DEF IInv, Shape, ThreadShape, Creating
<1>5. Tables'
  BY <1>1, <1>3, <1>4 DEF IInv, Tables
<1>6. Life'
  <2>1. /\ \A q \in Pollers : q # p => life'[q] = life[q] /\ running'[q] = running[q]
        /\ life'[p] = "starting"
    BY <1>1, <1>3 DEF IInv, Tables
  <2>2. /\ sub'[t] = "start" /\ cur'[t] = p
        /\ \A u \in Threads : u # t => sub'[u] = sub[u] /\ cur'[u] = cur[u]
    BY <1>1 DEF IInv, Tables
  <2>3. \A u \in Threads : sub[u] = "start" => cur[u] \in Pollers
    BY DEF IInv, Shape, ThreadShape
  <2>4. \A u \in Threads : sub'[u] = "start" => life'[cur'[u]] \in {"starting", "torn"}
    BY <1>3, <2>1, <2>2, <2>3 DEF IInv, Life
  <2>5. \A u, v \in Threads : sub'[u] = "start" /\ sub'[v] = "start" /\ cur'[u] = cur'[v] => u = v
    BY <1>3, <2>2 DEF IInv, Life
  <2>6. \A q \in Pollers :
          /\ flight'[q] => timers'[q]
          /\ life'[q] \in {"stopping", "stopped"} => ~running'[q]
          /\ life'[q] = "stopped" => ~timers'[q]
    BY <1>1, <1>3, <2>1 DEF IInv, Life
  <2> QED BY <2>4, <2>5, <2>6 DEF Life
<1>7. Shape'
  BY <1>1, <1>3, <1>4, SubShape DEF IInv, Tables
<1>8. ASSUME ~overlap' PROVE Registration'
  <2>1. Registration /\ \A u \in Threads : u # t => sub[u] = "-" /\ sub'[u] = "-"
    BY <1>1, <1>4, <1>8, OthersRest DEF IInv, Tables, Active
  <2>2. sub'[t] = "start" /\ cur'[t] = p /\ Creating(t)
    BY <1>1 DEF IInv, Tables, Creating
  <2>3. pollers[c] = None
    BY <2>1, <2>2 DEF Registration
  <2>4. /\ conn'[p] = c /\ pollers'[c] = p
        /\ \A d \in Conns : d # c => pollers'[d] = pollers[d]
        /\ \A q \in Pollers : q # p => conn'[q] = conn[q] /\ running'[q] = running[q]
    BY <1>1, <1>3, <1>4 DEF IInv, Tables
  <2>5. conn'[p] \in Conns /\ pollers'[conn'[p]] = p
    BY <1>4, <2>4
  <2>6. ASSUME NEW q \in Pollers, timers[q] PROVE running[q] /\ q # p
    BY <1>1, <1>3, <2>1, <2>6 DEF Registration
  <2>7. ASSUME NEW q \in Pollers, timers[q] PROVE running'[q] /\ Listed(q)'
    <3>1. conn[q] \in Conns /\ pollers[conn[q]] = q /\ conn[q] # c
      BY <2>1, <2>3, <2>6, <2>7, NoneIsNoPoller DEF Registration, Listed
    <3> QED BY <2>4, <2>6, <2>7, <3>1 DEF Listed
  <2>8. \A u \in Threads : ~Creating(u)'
    BY <2>1, <2>2 DEF Creating
  <2>9. op["main"] = "starting" => t = "main"
    BY <1>4, <1>1, <1>8, MainServes, MainIsAThread DEF Active, Threads
  <2>10. op["main"] = "starting" => \A d \in todo["main"] :
              pollers'[d] = None /\ sub'["main"] # "create"
    BY <1>1, <1>4, <2>1, <2>2, <2>4, <2>9, MainIsAThread DEF Registration, IInv, Shape, ThreadShape
  <2>11. op["main"] \notin {"load", "halting", "ended"}
    BY <1>4, <1>1, <1>8, MainServes, MainIsAThread DEF Active, Threads
  <2>12. \A u \in Threads :
              sub'[u] = "start" => conn'[cur'[u]] \in Conns /\ pollers'[conn'[cur'[u]]] = cur'[u]
    BY <2>1, <2>2, <2>5
  <2> QED BY <1>1, <2>7, <2>8, <2>10, <2>11, <2>12 DEF Registration, Listed
<1> QED BY <1>1, <1>5, <1>6, <1>7, <1>8, AloneStays DEF IInv

\* A poller that was stopped before its thread got here is torn, not stopped.
LEMMA StartHolds ==
  ASSUME IInv, NEW t \in Threads, Start(t)
  PROVE  IInv'
<1> DEFINE p == cur[t]
<1> USE DEF disk, objects, threads, history
<1>1. /\ sub[t] = "start" /\ up' = [up EXCEPT ![p] = TRUE]
      /\ running' = [running EXCEPT ![p] = TRUE] /\ timers' = [timers EXCEPT ![p] = TRUE]
      /\ life' = [life EXCEPT ![p] = IF @ = "starting" THEN "started" ELSE @]
      /\ sub' = [sub EXCEPT ![t] = "-"] /\ cur' = [cur EXCEPT ![t] = None]
      /\ UNCHANGED <<disk, conf, pending, pollers, conn, flight, op, todo, target, overlap>>
  BY DEF Start
<1>2. p \in Pollers /\ op[t] \in {"starting", "restarting"} /\ life[p] \in {"starting", "torn"}
  BY <1>1 DEF IInv, Shape, ThreadShape, Life
<1>3. \A u \in Threads : u # t /\ sub[u] = "start" => cur[u] # p
  BY <1>1 DEF IInv, Life
<1> HIDE DEF p
<1>4. Tables'
  BY <1>1, <1>2 DEF IInv, Tables
<1>5. Life'
  <2>1. /\ \A q \in Pollers : q # p => /\ life'[q] = life[q] /\ running'[q] = running[q]
                                       /\ timers'[q] = timers[q]
        /\ life'[p] \in {"started", "torn"} /\ timers'[p]
    BY <1>1, <1>2 DEF IInv, Tables
  <2>2. \A u \in Threads : sub'[u] = "start" =>
          u # t /\ sub[u] = "start" /\ cur'[u] = cur[u] /\ cur[u] \in Pollers
    BY <1>1 DEF IInv, Tables, Shape, ThreadShape
  <2> QED BY <1>1, <1>3, <2>1, <2>2 DEF IInv, Life
<1>6. Shape'
  BY <1>1, <1>2, SubShape DEF IInv, Tables
<1>7. ASSUME ~overlap' PROVE Registration'
  <2>1. Registration /\ \A u \in Threads : sub'[u] = "-"
    BY <1>1, <1>2, <1>7, OthersRest DEF IInv, Tables, Active
  <2>2. /\ \A q \in Pollers : q # p => running'[q] = running[q] /\ timers'[q] = timers[q]
        /\ running'[p] /\ timers'[p]
    BY <1>1, <1>2 DEF IInv, Tables
  <2>3. \A q \in Pollers : timers'[q] => running'[q] /\ Listed(q)'
    <3>1. ASSUME NEW q \in Pollers, timers[q], ~running[q] PROVE q = p
      <4>1. PICK u \in Threads : sub[u] = "dispose" /\ cur[u] = q
        BY <2>1, <3>1 DEF Registration
      <4> QED BY <1>1, <1>2, <1>7, <4>1, OthersRest DEF Active
    <3>2. Listed(p)
      BY <1>1, <2>1 DEF Registration, p
    <3> QED BY <1>1, <2>1, <2>2, <3>1, <3>2 DEF Registration, Listed
  <2>4. op["main"] = "starting" => \A d \in todo["main"] : pollers[d] = None
    BY <2>1 DEF Registration
  <2>5. op["main"] \notin {"load", "halting", "ended"}
    BY <1>1, <1>2, <1>7, MainServes, MainIsAThread DEF Active, Threads
  <2>6. sub'["main"] = "-"
    BY <2>1, MainIsAThread
  <2> QED BY <1>1, <2>1, <2>3, <2>4, <2>5, <2>6 DEF Registration, Creating
<1> QED BY <1>1, <1>4, <1>5, <1>6, <1>7, AloneStays DEF IInv

-----------------------------------------------------------------------------
LEMMA InitHolds == Init => IInv
<1> SUFFICES ASSUME Init PROVE IInv
  OBVIOUS
<1>1. Tables
  BY DEF Init, Tables
<1>2. Shape /\ Life
  BY MainIsAThread DEF Init, Shape, ThreadShape, Creating, Life
<1>3. Alone /\ Registration
  BY MainIsAThread DEF Init, Alone, Active, Reloading, Registration, Creating, Threads
<1> QED BY <1>1, <1>2, <1>3 DEF IInv

LEMMA StepHolds == IInv /\ [Next]_vars => IInv'
<1> SUFFICES ASSUME IInv, [Next]_vars PROVE IInv'
  OBVIOUS
<1>1. ASSUME NEW t \in Threads, PollerStep(t) \/ Load(t) PROVE IInv'
  BY <1>1, DisposeHolds, CreateHolds, StartHolds, LoadHolds DEF PollerStep
<1>2. CASE MainStep
  BY <1>1, <1>2, MainIsAThread, StartNextHolds, ServeHolds, HaltNextHolds, EndedHolds DEF MainStep
<1>3. ASSUME NEW r \in Reloads, ReloadStep(r) PROVE IInv'
  BY <1>1, <1>3, MainIsAThread, LoopHolds, RemoveNextHolds, RestartNextHolds DEF ReloadStep
<1> QED
  BY <1>2, <1>3, ShutdownHolds, FireHolds, FileHolds, CallbackHolds DEF Next, Timer

LEMMA Invariance == Spec => []IInv
BY InitHolds, StepHolds, PTL DEF Spec

\* Without overlapping reloads whatever polls is in the table, where
\* ReloadConfigurationAsync and StopAsync find it.
THEOREM PollersAreRegistered == Spec => []PollingIsRegistered
<1>1. IInv => PollingIsRegistered
  BY DEF IInv, Registration, Listed, PollingIsRegistered, Polling
<1> QED BY <1>1, Invariance, PTL

\* After StopAsync no callback reads and none begins to, even when reloads
\* overlap; after a shutdown that ran into no reload, none at all.
THEOREM StoppedPollersAreQuiet == Spec => []StoppedIsQuiet
<1>1. IInv => StoppedIsQuiet
  BY DEF IInv, Life, Registration, StoppedIsQuiet, Polling
<1> QED BY <1>1, Invariance, PTL

-----------------------------------------------------------------------------
(* The drivers of the connectivity service.                                *)

Places ==
  /\ driver \in Drivers \cup {Nil}
  /\ timer \in [Drivers -> BOOLEAN]

\* A driver that may poll, now or when somebody applies rows to it.
Known(d) == d = driver \/ d \in revived

Quiet == \A d \in Drivers : timer[d] => Known(d)

\* handleConfigUpdate runs one message at a time, so the driver it works on
\* cannot leave the map meanwhile; before the boot there is none.
CfgHolds ==
  /\ cfg = [at |-> cfg.at, driver |-> cfg.driver, rows |-> cfg.rows, cached |-> cfg.cached]
  /\ cfg.at = "boot" => driver = Nil
  /\ cfg.at \notin {"boot", "idle"} => cfg.driver \in Drivers /\ cfg.driver = driver

\* The other loop may hold one that has left.
TagHolds == tag.at # "idle" => tag.driver \in Drivers /\ Known(tag.driver)

\* DroppedIsQuiet follows from Quiet, which needs to know whom the loops hold:
\* their Apply is what starts timers.
QuietInv == Places /\ Quiet /\ CfgHolds /\ TagHolds

LEMMA NoneIsNoDriver == Nil \notin Drivers
BY TagSyncAssumption DEF Nil

LEMMA Untouched ==
  ASSUME QuietInv, UNCHANGED <<driver, timer, cfg, tag, revived>>
  PROVE  QuietInv'
BY DEF QuietInv, Places, Quiet, CfgHolds, TagHolds, Known

\* The config loop goes on within a message, or ends it.
LEMMA CfgMoves ==
  ASSUME QuietInv, UNCHANGED <<driver, timer, tag, revived>>,
         \/ cfg' = Rest
         \/ \E at \in {"connecting", "query", "rows"} : \E R, C :
              cfg' = [at |-> at, driver |-> driver, rows |-> R, cached |-> C] /\ driver # Nil
  PROVE  QuietInv'
<1>1. CfgHolds'
  BY DEF QuietInv, Places, CfgHolds, Rest
<1> QED BY <1>1 DEF QuietInv, Places, Quiet, TagHolds, Known

LEMMA RegisterQuiet ==
  ASSUME QuietInv, driver = Nil, Register, UNCHANGED <<timer, tag, revived>>
  PROVE  QuietInv'
<1> DEFINE d == CHOOSE d \in Drivers : d > made /\ \A e \in Drivers : e > made => d <= e
<1>1. d \in Drivers
  BY DEF Register
<1>2. driver' = d /\ cfg' = [at |-> "connecting", driver |-> d, rows |-> {}, cached |-> {}]
  BY DEF Register
<1> HIDE DEF d
<1>3. \A e \in Drivers : Known(e) => e \in revived
  BY NoneIsNoDriver DEF Known
<1> QED BY <1>1, <1>2, <1>3 DEF QuietInv, Places, Quiet, CfgHolds, TagHolds, Known

\* Drop silences the driver itself, and records it when the tag loop holds it.
LEMMA OffQuiet == QuietInv /\ Off => QuietInv'
<1> SUFFICES ASSUME QuietInv, Off PROVE QuietInv'
  OBVIOUS
<1>1. cfg.at = "idle" /\ cfg' = cfg /\ tag' = tag
  BY DEF Off, loops
<1>2. CASE driver = Nil
  BY <1>1, <1>2, Untouched DEF Off
<1>3. CASE driver # Nil
  <2>1. /\ timer' = [timer EXCEPT ![driver] = FALSE] /\ driver' = Nil
        /\ revived' = IF tag.at # "idle" THEN revived \cup {tag.driver} ELSE revived
    BY <1>3 DEF Off, Drop, Disconnect
  <2>2. Places'
    BY <2>1, <1>3 DEF QuietInv, Places
  <2>3. Quiet'
    BY <2>1, <1>3 DEF QuietInv, Places, Quiet, Known
  <2>4. CfgHolds' /\ TagHolds'
    BY <1>1, <2>1 DEF QuietInv, CfgHolds, TagHolds, Known
  <2> QED BY <2>2, <2>3, <2>4 DEF QuietInv
<1> QED BY <1>2, <1>3

\* Rows applied to a driver start the timers of that driver and no others.
LEMMA ApplyQuiet ==
  ASSUME QuietInv, NEW d \in Drivers, Known(d), NEW T, NEW C, Apply(d, T, C),
         UNCHANGED <<driver, revived>>
  PROVE  Places' /\ Quiet'
BY DEF QuietInv, Places, Quiet, Known, Apply

LEMMA ConfigQuiet == QuietInv /\ ConfigLoop => QuietInv'
<1> SUFFICES ASSUME QuietInv, ConfigLoop PROVE QuietInv'
  OBVIOUS
<1> USE DEF state, past, counts
<1>1. CASE Boot
  <2>1. driver = Nil
    BY <1>1 DEF Boot, QuietInv, CfgHolds
  <2>2. CASE enabled
    BY <1>1, <2>1, <2>2, RegisterQuiet DEF Boot
  <2>3. CASE ~enabled
    BY <1>1, <2>3, CfgMoves DEF Boot
  <2> QED BY <2>2, <2>3
<1>2. CASE Subscribe
  BY <1>2, Untouched DEF Subscribe, loops
<1>3. CASE Off
  BY <1>3, OffQuiet
<1>4. CASE On
  <2>1. CASE driver = Nil
    BY <1>4, <2>1, RegisterQuiet DEF On
  <2>2. CASE driver # Nil
    BY <1>4, <2>2, CfgMoves DEF On
  <2> QED BY <2>1, <2>2
<1>5. CASE Connected \/ CfgQuery
  <2>1. cfg.driver = driver /\ driver # Nil
    BY <1>5, NoneIsNoDriver DEF Connected, CfgQuery, QuietInv, CfgHolds
  <2>2. \E at \in {"query", "rows"} : \E R, C :
            cfg' = [at |-> at, driver |-> cfg.driver, rows |-> R, cached |-> C]
    BY <1>5 DEF Connected, CfgQuery, QuietInv, CfgHolds
  <2> QED BY <1>5, <2>1, <2>2, CfgMoves DEF Connected, CfgQuery
<1>6. CASE ConnectFails \/ CfgQueryFails \/ BootFails
  BY <1>6, CfgMoves DEF ConnectFails, CfgQueryFails, BootFails
<1>7. CASE CfgApply
  <2>1. cfg.driver \in Drivers /\ Known(cfg.driver)
    BY <1>7 DEF CfgApply, QuietInv, CfgHolds, Known
  <2>2. Places' /\ Quiet'
    BY <1>7, <2>1, ApplyQuiet DEF CfgApply
  <2>3. CfgHolds' /\ TagHolds'
    BY <1>7 DEF CfgApply, Rest, QuietInv, CfgHolds, TagHolds, Known
  <2> QED BY <2>2, <2>3 DEF QuietInv
<1> QED BY <1>1, <1>2, <1>3, <1>4, <1>5, <1>6, <1>7 DEF ConfigLoop

LEMMA TagQuiet == QuietInv /\ TagLoop => QuietInv'
<1> SUFFICES ASSUME QuietInv, TagLoop PROVE QuietInv'
  OBVIOUS
<1> USE DEF state, past, counts
<1>1. CASE NextChange
  <2>1. /\ UNCHANGED <<driver, timer, cfg, revived>>
        /\ tag' = tag \/ (tag'.driver = driver /\ driver # Nil)
    BY <1>1 DEF NextChange
  <2> QED BY <2>1 DEF QuietInv, Places, Quiet, CfgHolds, TagHolds, Known
<1>2. CASE TagQuery
  <2>1. /\ UNCHANGED <<driver, timer, cfg, revived>>
        /\ tag.at # "idle" /\ tag'.driver = tag.driver
    BY <1>2 DEF TagQuery
  <2> QED BY <2>1 DEF QuietInv, Places, Quiet, CfgHolds, TagHolds, Known
<1>3. CASE TagQueryFails
  BY <1>3 DEF TagQueryFails, Rest, QuietInv, Places, Quiet, CfgHolds, TagHolds, Known
<1>4. CASE TagApply
  <2>1. tag.driver \in Drivers /\ Known(tag.driver)
    BY <1>4 DEF TagApply, QuietInv, TagHolds
  <2>2. Places' /\ Quiet'
    BY <1>4, <2>1, ApplyQuiet DEF TagApply
  <2>3. CfgHolds' /\ TagHolds'
    BY <1>4 DEF TagApply, Rest, QuietInv, CfgHolds, TagHolds
  <2> QED BY <2>2, <2>3 DEF QuietInv
<1> QED BY <1>1, <1>2, <1>3, <1>4 DEF TagLoop

LEMMA InitQuiet == SyncInit => QuietInv
<1> SUFFICES ASSUME SyncInit PROVE QuietInv
  OBVIOUS
<1>1. cfg = [at |-> "boot", driver |-> Nil, rows |-> {}, cached |-> {}] /\ tag.at = "idle"
  BY DEF SyncInit, Rest
<1>2. driver = Nil /\ timer = [d \in Drivers |-> FALSE]
  BY DEF SyncInit
<1> QED BY <1>1, <1>2 DEF QuietInv, Places, Quiet, CfgHolds, TagHolds

LEMMA StepQuiet == QuietInv /\ [SyncNext]_syncVars => QuietInv'
<1> SUFFICES ASSUME QuietInv, [SyncNext]_syncVars PROVE QuietInv'
  OBVIOUS
<1> USE DEF state, loops, past, counts
<1>1. CASE UNCHANGED syncVars
  BY <1>1, Untouched DEF syncVars
<1>2. CASE Reconcile
  BY <1>2, Untouched DEF Reconcile, SweepQuery, Sweep
<1>3. CASE EndRequest \/ DeleteConnection
  BY <1>3, Untouched DEF EndRequest, DeleteConnection
<1>4. ASSUME NEW on \in BOOLEAN, Switch(on) PROVE QuietInv'
  BY <1>4, Untouched DEF Switch
<1>5. ASSUME NEW does, NEW t, BeginRequest(does, t) PROVE QuietInv'
  BY <1>5, Untouched DEF BeginRequest
<1>6. ASSUME NEW t \in Tags, BeginRegroup(t) \/ Unsubscribe(t) \/ UnsubscribeUnheard(t) PROVE QuietInv'
  BY <1>6, Untouched DEF BeginRegroup, Unsubscribe, UnsubscribeUnheard
<1> QED BY <1>1, <1>2, <1>3, <1>4, <1>5, <1>6, ConfigQuiet, TagQuiet DEF SyncNext

\* A driver that is no longer in the map has its timers stopped for good,
\* unless handleTagSubscriptionChange held it at that moment: the overlap of
\* the two message loops is the only way a dropped driver polls again.
THEOREM DroppedDriversAreQuiet == SyncSpec => []DroppedIsQuiet
<1>1. QuietInv => DroppedIsQuiet
  BY DEF QuietInv, Quiet, Known, DroppedIsQuiet, Polled
<1> QED BY <1>1, InitQuiet, StepQuiet, PTL DEF SyncSpec
=============================================================================
