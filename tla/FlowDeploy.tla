----------------------------- MODULE FlowDeploy -----------------------------
(***************************************************************************)
(* How a flow saved in the .NET application comes to run in the engine:    *)
(* flows.json, the debounced reload by ConfigWatcher, the reload command   *)
(* the application sends over MQTT, the subscriptions of the flow's        *)
(* mqtt-in node, the compiled flows, and the deployment status that the    *)
(* engine publishes about them.                                            *)
(*                                                                         *)
(* Reloads run on threads of the pool, and so does the boot of the worker  *)
(* service.  Nothing keeps two of them apart: each reads the file, sets    *)
(* the configuration, and goes through subscriptions, compiled flows and   *)
(* statuses flow by flow.  A step is an access to state they share.        *)
(*                                                                         *)
(* The content of an enabled flow is whether it compiles and the topic of  *)
(* its mqtt-in node; of any other, that it is off or not in the file.      *)
(***************************************************************************)
EXTENDS Naturals

CONSTANTS Flows,         \* flows, in the order of the file
          Topics,        \* MQTT topics
          Internal,      \* those with the prefix of the system's own
          Files,         \* what the file can say: functions from Flows to Contents
          FirstFiles,    \* what it can say at first
          Threads,       \* bound: boot and reloads under way at once
          MaxEdits,      \* bound: times the file is written
          MaxEvents      \* bound: reload commands, changes of other files, losses
                         \* of the MQTT connection and restarts, taken together

NoNode == "no node"      \* the flow has no mqtt-in node
Blank == "blank"         \* the node has no topic
Off == [is |-> "off", topic |-> NoNode]
Gone == [is |-> "gone", topic |-> NoNode]
None == [is |-> "none", topic |-> NoNode]

Running == [is : {"sound", "broken"}, topic : Topics \cup {NoNode, Blank}]
Contents == Running \cup {Off, Gone}
Nobody == 0

ASSUME FlowDeployAssumption ==
  /\ Flows \subseteq Nat \ {Nobody} /\ Threads \subseteq Nat /\ 1 \in Threads
  /\ Topics \cap {NoNode, Blank} = {} /\ Internal \subseteq Topics
  /\ Files \subseteq [Flows -> Contents] /\ FirstFiles \subseteq Files
  /\ MaxEdits \in Nat /\ MaxEvents \in Nat

VARIABLES
  file,       \* flows.json
  writing,    \* it is truncated and not yet written
  watching,   \* the file watcher exists: the boot is over
  pending,    \* what _debounceTimer will reload: "none", "flows", "other"
  conf,       \* _flows of ConfigService
  tracked,    \* keys of _mqttInNodes
  subs,       \* _subscriptions: the topics of a flow's mqtt-in node
  compiled,   \* _compiledFlows: the content compiled, or None
  link,       \* the MQTT connection: "down", "fresh" (up, not resubscribed), "up"
  broker,     \* topics the broker has for the engine
  status,     \* the retained deploy-status of a flow: hash and isCompiled
  op,         \* op[t]: where a thread is in its reload
  list,       \* list[t]: the flows its loop runs over
  todo,       \* todo[t]: those it has left
  old,        \* old[t]: oldFlowIds
  cur,        \* cur[t]: the flow it subscribes, or whose subscriptions it removes
  mixed,      \* history: the last reloads overlapped
  missed,     \* history: no reload follows the last change of the file
  heard,      \* history: the last reload published every status
  edits, events

disk == <<file, writing>>
watcher == <<watching, pending>>
mqtt == <<link, broker>>
routes == <<tracked, subs>>
threads == <<op, list, todo, old, cur>>
history == <<mixed, missed, heard>>
spent == <<edits, events>>
vars == <<disk, watcher, conf, routes, compiled, mqtt, status, threads, history, spent>>

AllGone == [f \in Flows |-> Gone]
NoFlows == [t \in Threads |-> {}]

TypeOK ==
  /\ file \in Files /\ conf \in Files \cup {AllGone}
  /\ {writing, watching, mixed, missed, heard} \subseteq BOOLEAN
  /\ pending \in {"none", "flows", "other"} /\ link \in {"down", "fresh", "up"}
  /\ tracked \subseteq Flows /\ subs \in [Flows -> SUBSET Topics] /\ broker \subseteq Topics
  /\ compiled \in [Flows -> Running \cup {None}]
  /\ status \in [Flows -> [hash : Contents \cup {None}, ok : BOOLEAN]]
  /\ op \in [Threads -> {"idle", "read", "load", "refresh", "subscribe", "track",
                         "unsubscribe", "compile", "publish"}]
  /\ list \in [Threads -> Files \cup {AllGone}]
  /\ {todo, old} \subseteq [Threads -> SUBSET Flows]
  /\ cur \in [Threads -> Flows \cup {Nobody}]
  /\ edits \in 0 .. MaxEdits /\ events \in 0 .. MaxEvents

First(S) == CHOOSE x \in S : \A y \in S : x <= y

NoTopics == [f \in Flows |-> {}]
Nothing == [f \in Flows |-> None]
NoLists == [t \in Threads |-> AllGone]
NoCur == [t \in Threads |-> Nobody]

\* Thread 1 boots the engine.
Booting == [t \in Threads |-> IF t = 1 THEN "read" ELSE "idle"]

Init ==
  /\ file \in FirstFiles /\ writing = FALSE
  /\ watching = FALSE /\ pending = "none"
  /\ conf = AllGone /\ tracked = {} /\ subs = NoTopics /\ compiled = Nothing
  /\ link = "down" /\ broker = {}
  /\ status = [f \in Flows |-> [hash |-> None, ok |-> FALSE]]
  /\ op = Booting /\ list = NoLists /\ todo = NoFlows /\ old = NoFlows /\ cur = NoCur
  /\ mixed = FALSE /\ missed = FALSE /\ heard = TRUE
  /\ edits = 0 /\ events = 0

Enabled(c) == {f \in Flows : c[f].is \in {"sound", "broken"}}
Present(c) == {f \in Flows : c[f] # Gone}
Busy == {t \in Threads : op[t] # "idle"}
Idle == Busy = {}

Event == events < MaxEvents /\ events' = events + 1 /\ UNCHANGED edits
Goto(t, o) == op' = [op EXCEPT ![t] = o]

-----------------------------------------------------------------------------
(* One reload, as steps of a thread t: LoadFlowsAsync,                     *)
(* RefreshSubscriptionsAsync, RefreshFlowsAsync.  The boot does the same.  *)

\* Reading is awaited before _flows is set.  A half-written file does not
\* parse, and then there are no flows.
Read(t) ==
  /\ op[t] = "read" /\ Goto(t, "load")
  /\ list' = [list EXCEPT ![t] = IF writing THEN AllGone ELSE file]
  /\ missed' = (missed /\ writing)
  /\ UNCHANGED <<disk, watcher, conf, routes, compiled, mqtt, status, todo, old, cur, mixed, heard, spent>>

Load(t) ==
  /\ op[t] = "load" /\ Goto(t, "refresh")
  /\ conf' = list[t]
  /\ list' = [list EXCEPT ![t] = AllGone]
  /\ UNCHANGED <<disk, watcher, routes, compiled, mqtt, status, todo, old, cur, history, spent>>

Refresh(t) ==
  /\ op[t] = "refresh" /\ Goto(t, "subscribe")
  /\ list' = [list EXCEPT ![t] = conf]
  /\ todo' = [todo EXCEPT ![t] = Enabled(conf)]
  /\ old' = [old EXCEPT ![t] = tracked]
  /\ UNCHANGED <<disk, watcher, conf, routes, compiled, mqtt, status, cur, history, spent>>

\* MqttPublisher.SubscribeAsync adds the topic and removes none; the broker
\* hears of it when there is a connection.
Subscribe(f, topic) ==
  /\ subs' = [subs EXCEPT ![f] = @ \cup {topic}]
  /\ broker' = IF link = "down" THEN broker ELSE broker \cup {topic}

\* A flow with an mqtt-in node, whether the flow compiles or not.  A node
\* without a topic is only tracked.
SubscribeNext(t) ==
  /\ op[t] = "subscribe" /\ todo[t] # {}
  /\ LET f == First(todo[t])
         topic == list[t][f].topic
     IN  /\ topic # NoNode
         /\ IF topic = Blank THEN UNCHANGED <<subs, broker>> ELSE Subscribe(f, topic)
         /\ cur' = [cur EXCEPT ![t] = f]
  /\ Goto(t, "track")
  /\ UNCHANGED <<disk, watcher, conf, tracked, compiled, link, status, list, todo, old, history, spent>>

Track(t) ==
  /\ op[t] = "track" /\ Goto(t, "subscribe")
  /\ tracked' = tracked \cup {cur[t]}
  /\ todo' = [todo EXCEPT ![t] = @ \ {cur[t]}]
  /\ old' = [old EXCEPT ![t] = @ \ {cur[t]}]
  /\ cur' = [cur EXCEPT ![t] = Nobody]
  /\ UNCHANGED <<disk, watcher, conf, subs, compiled, mqtt, status, list, history, spent>>

\* A flow that has no mqtt-in node, or is no longer enabled: if it was
\* tracked, its subscriptions are removed next.  oldFlowIds has no order.
Untrack(t) ==
  /\ op[t] = "subscribe"
  /\ \E f \in IF todo[t] # {} THEN {First(todo[t])} ELSE old[t] :
       /\ todo[t] # {} => list[t][f].topic = NoNode
       /\ todo' = [todo EXCEPT ![t] = @ \ {f}]
       /\ old' = [old EXCEPT ![t] = @ \ {f}]
       /\ \/ /\ f \in tracked
             /\ tracked' = tracked \ {f}
             /\ cur' = [cur EXCEPT ![t] = f]
             /\ Goto(t, "unsubscribe")
          \/ f \notin tracked /\ UNCHANGED <<tracked, cur, op>>
  /\ UNCHANGED <<disk, watcher, conf, subs, compiled, mqtt, status, list, history, spent>>

\* Mutant: the connection is asked for before the key is removed.
UnsubscribeConnected(t) ==
  LET kept == UNION {subs[g] : g \in Flows \ {cur[t]}} IN
  /\ op[t] = "unsubscribe" /\ Goto(t, "subscribe")
  /\ subs' = IF link = "down" THEN subs ELSE [subs EXCEPT ![cur[t]] = {}]
  /\ broker' = IF link = "down" THEN broker ELSE broker \ (subs[cur[t]] \ kept)
  /\ cur' = [cur EXCEPT ![t] = Nobody]
  /\ UNCHANGED <<disk, watcher, conf, tracked, compiled, link, status, list, todo, old, history, spent>>

\* Mutant: nobody asks whether the topic is still needed.
UnsubscribeAnyway(t) ==
  /\ op[t] = "unsubscribe" /\ Goto(t, "subscribe")
  /\ subs' = [subs EXCEPT ![cur[t]] = {}]
  /\ broker' = IF link = "down" THEN broker ELSE broker \ subs[cur[t]]
  /\ cur' = [cur EXCEPT ![t] = Nobody]
  /\ UNCHANGED <<disk, watcher, conf, tracked, compiled, link, status, list, todo, old, history, spent>>

\* ClearFlowSubscriptionsAsync: all topics of the flow, old ones included; a
\* topic another flow needs stays with the broker.
Unsubscribe(t) ==
  LET kept == UNION {subs[g] : g \in Flows \ {cur[t]}} IN
  /\ op[t] = "unsubscribe" /\ Goto(t, "subscribe")
  /\ subs' = [subs EXCEPT ![cur[t]] = {}]
  /\ broker' = IF link = "down" THEN broker ELSE broker \ (subs[cur[t]] \ kept)
  /\ cur' = [cur EXCEPT ![t] = Nobody]
  /\ UNCHANGED <<disk, watcher, conf, tracked, compiled, link, status, list, todo, old, history, spent>>

\* CompileAllFlows empties the table first and reads the configuration anew.
Wipe(t) ==
  /\ op[t] = "subscribe" /\ todo[t] = {} /\ old[t] = {} /\ Goto(t, "compile")
  /\ compiled' = [f \in Flows |-> None]
  /\ list' = [list EXCEPT ![t] = conf]
  /\ todo' = [todo EXCEPT ![t] = Enabled(conf)]
  /\ UNCHANGED <<disk, watcher, conf, routes, mqtt, status, old, cur, history, spent>>

\* A flow that does not compile is logged and left out.
CompileNext(t) ==
  /\ op[t] = "compile" /\ todo[t] # {}
  /\ LET f == First(todo[t]) IN
     /\ compiled' = IF list[t][f].is = "broken" THEN compiled
                    ELSE [compiled EXCEPT ![f] = list[t][f]]
     /\ todo' = [todo EXCEPT ![t] = @ \ {f}]
  /\ UNCHANGED <<disk, watcher, conf, routes, mqtt, status, op, list, old, cur, history, spent>>

\* PublishAllDeploymentStatusesAsync runs over the configuration as it is by now.
Report(t) ==
  /\ op[t] = "compile" /\ todo[t] = {} /\ Goto(t, "publish")
  /\ list' = [list EXCEPT ![t] = conf]
  /\ todo' = [todo EXCEPT ![t] = Present(conf)]
  /\ UNCHANGED <<disk, watcher, conf, routes, compiled, mqtt, status, old, cur, history, spent>>

\* Mutant: enabled is taken for compiled.
PublishEnabled(t) ==
  /\ op[t] = "publish" /\ todo[t] # {}
  /\ LET f == First(todo[t]) IN
     /\ todo' = [todo EXCEPT ![t] = @ \ {f}]
     /\ status' = IF link = "down" THEN status
                  ELSE [status EXCEPT ![f] = [hash |-> list[t][f], ok |-> f \in Enabled(conf)]]
  /\ heard' = (heard /\ link # "down")
  /\ UNCHANGED <<disk, watcher, conf, routes, compiled, mqtt, op, list, old, cur, mixed, missed, spent>>

\* Without a connection nothing is published, then or later.
PublishNext(t) ==
  /\ op[t] = "publish" /\ todo[t] # {}
  /\ LET f == First(todo[t]) IN
     /\ todo' = [todo EXCEPT ![t] = @ \ {f}]
     /\ status' = IF link = "down" THEN status
                  ELSE [status EXCEPT ![f] = [hash |-> list[t][f], ok |-> compiled[f] # None]]
  /\ heard' = (heard /\ link # "down")
  /\ UNCHANGED <<disk, watcher, conf, routes, compiled, mqtt, op, list, old, cur, mixed, missed, spent>>

\* The reload is over; at the end of the boot the watcher starts.
Finish(t) ==
  /\ op[t] = "publish" /\ todo[t] = {} /\ Goto(t, "idle")
  /\ watching' = (watching \/ t = 1)
  /\ list' = [list EXCEPT ![t] = AllGone]
  /\ UNCHANGED <<disk, pending, conf, routes, compiled, mqtt, status, todo, old, cur, history, spent>>

-----------------------------------------------------------------------------
(* What starts reloads.                                                    *)

\* On any thread of the pool that is free.
Begin ==
  LET t == CHOOSE t \in Threads \ Busy : TRUE IN
  /\ Busy # Threads
  /\ Goto(t, "read")
  /\ mixed' = ~Idle
  /\ heard' = (Idle \/ heard)

\* The debounce timer fires, after a change of flows.json or of another file.
Fire ==
  /\ pending = "flows" /\ pending' = "none"
  /\ Begin
  /\ UNCHANGED <<disk, watching, conf, routes, compiled, mqtt, status, list, todo, old, cur, missed, spent>>

FireOther ==
  /\ pending = "other" /\ pending' = "none"
  /\ UNCHANGED <<disk, watching, conf, routes, compiled, mqtt, status, threads, history, spent>>

\* HandleEngineCommand: a reload command reloads the flows, whatever the
\* application has changed.  It does not wait for reloads under way.
Command ==
  /\ link # "down" /\ Event
  /\ Begin
  /\ UNCHANGED <<disk, watcher, conf, routes, compiled, mqtt, status, list, todo, old, cur, missed>>

-----------------------------------------------------------------------------
(* Files, events and the debounce timer.                                   *)

\* No reload of the boot will read what is in the file from now on.
Late == ~watching /\ op[1] # "read"

\* Mutant: a timer that is pending is not replaced.
NotifyFirst(kind) ==
  /\ pending' = IF watching /\ pending = "none" THEN kind ELSE pending
  /\ missed' = IF kind = "flows" THEN Late ELSE missed \/ pending = "flows"

\* DebouncedReload: one timer for all files, set anew by every event.
Notify(kind) ==
  /\ pending' = IF watching THEN kind ELSE pending
  /\ missed' = IF kind = "flows" THEN Late ELSE missed \/ pending = "flows"

\* SaveFlowsAsync of the application: the file is truncated and written.
EditBegins ==
  /\ ~writing /\ writing' = TRUE
  /\ edits < MaxEdits /\ edits' = edits + 1
  /\ Notify("flows")
  /\ UNCHANGED <<events, file, watching, conf, routes, compiled, mqtt, status, threads, mixed, heard>>

EditEnds ==
  /\ writing /\ writing' = FALSE
  /\ file' \in Files
  /\ Notify("flows")
  /\ UNCHANGED <<watching, conf, routes, compiled, mqtt, status, threads, mixed, heard, spent>>

EditOther ==
  /\ Event /\ Notify("other")
  /\ UNCHANGED <<disk, watching, conf, routes, compiled, mqtt, status, threads, mixed, heard>>

-----------------------------------------------------------------------------
(* The MQTT connection: sessions are clean, so the broker forgets the      *)
(* subscriptions with it.                                                  *)

Connect ==
  /\ link = "down" /\ link' = "fresh"
  /\ ~watching => op[1] \notin {"read", "load"}
  /\ UNCHANGED <<disk, watcher, conf, routes, compiled, broker, status, threads, history, spent>>

\* ResubscribeAllAsync.
Resubscribe ==
  /\ link = "fresh" /\ link' = "up"
  /\ broker' = broker \cup UNION {subs[f] : f \in Flows}
  /\ UNCHANGED <<disk, watcher, conf, routes, compiled, status, threads, history, spent>>

Disconnect ==
  /\ link # "down" /\ link' = "down" /\ broker' = {}
  /\ Event
  /\ UNCHANGED <<disk, watcher, conf, routes, compiled, status, threads, history>>

\* The process dies and is started again; the statuses are retained.
Reboot ==
  /\ Event
  /\ watching' = FALSE /\ pending' = "none"
  /\ conf' = AllGone /\ tracked' = {} /\ subs' = NoTopics /\ compiled' = Nothing
  /\ link' = "down" /\ broker' = {}
  /\ op' = Booting /\ list' = NoLists /\ todo' = NoFlows /\ old' = NoFlows /\ cur' = NoCur
  /\ mixed' = FALSE /\ missed' = FALSE /\ heard' = TRUE
  /\ UNCHANGED <<disk, status>>

-----------------------------------------------------------------------------
ThreadStep(t) ==
  \/ Read(t) \/ Load(t) \/ Refresh(t) \/ SubscribeNext(t) \/ Track(t) \/ Untrack(t)
  \/ Unsubscribe(t) \/ Wipe(t) \/ CompileNext(t) \/ Report(t) \/ PublishNext(t) \/ Finish(t)

Timer == Fire \/ FireOther

Next ==
  \/ \E t \in Threads : ThreadStep(t)
  \/ Timer \/ Command \/ EditBegins \/ EditEnds \/ EditOther
  \/ Connect \/ Resubscribe \/ Disconnect \/ Reboot

Spec == Init /\ [][Next]_vars

\* Threads run, the timer fires, a writer of the file finishes and the MQTT
\* client connects again.  Nobody has to save a flow or to send a command.
FairSpec ==
  /\ Spec /\ WF_vars(Timer) /\ WF_vars(EditEnds) /\ WF_vars(Connect) /\ WF_vars(Resubscribe)
  /\ \A t \in Threads : WF_vars(ThreadStep(t))

-----------------------------------------------------------------------------
(* Properties.                                                             *)

\* The flows a message on a topic starts: HandleMqttMessage passes over the
\* system's own topics and looks up the subscriptions, ExecuteFlowAsync the
\* compiled flow.
StartedBy(topic) ==
  {f \in Flows : topic \in broker \ Internal /\ topic \in subs[f] /\ compiled[f] # None}

\* Every enabled flow that compiles answers its topic, and no flow answers any
\* that is disabled, does not compile or has no mqtt-in node.
Answering(c) ==
  \A f \in Flows, topic \in Topics :
    /\ c[f] = [is |-> "sound", topic |-> topic] /\ topic \notin Internal => f \in StartedBy(topic)
    /\ f \in StartedBy(topic) => c[f].is = "sound" /\ c[f].topic # NoNode

\* After a reload that ran alone, whatever overlapping reloads, half-written
\* files and lost connections came before it, every flow of the
\* configuration it loaded that compiles is started by messages on its topic,
\* also when another flow has given up the same topic, and a flow that was
\* disabled, removed, broken or lost its mqtt-in node is not started by any.  A
\* flow whose topic was changed or blanked may still be started by the old one.
Responds == Idle /\ ~mixed /\ link = "up" => Answering(conf)

\* However reloads overlap, in the end the subscriptions of a flow are
\* tracked: one that nobody tracks would be removed by no later reload.
SubsTracked == Idle => \A f \in Flows : subs[f] # {} => f \in tracked

\* After a reload that ran alone and was connected throughout, the retained
\* status says of every flow in the configuration whether it is compiled, and
\* the hash is that of the content that is.
StatusTruthful ==
  Idle /\ ~mixed /\ heard =>
    \A f \in Present(conf) : /\ status[f] = [hash |-> conf[f], ok |-> compiled[f] # None]
                             /\ status[f].ok => compiled[f] = status[f].hash

\* In the end the engine runs what flows.json says, half-written files and
\* lost connections notwithstanding: unless the change went unnoticed (before
\* the watcher existed, or because a change of another file followed within
\* the debounce time) or the last reloads overlapped.
Converges == <>[](missed \/ mixed \/ (conf = file /\ Answering(file)))
=============================================================================
