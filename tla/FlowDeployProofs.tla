-------------------------- MODULE FlowDeployProofs --------------------------
(***************************************************************************)
(* Subscriptions and their tracking, and what a reload that runs alone     *)
(* makes of subscriptions, compiled flows and statuses, for any number of  *)
(* flows, topics, overlapping reloads, edits, lost connections, restarts.  *)
(***************************************************************************)
EXTENDS FlowDeploy, TLAPS, WellFoundedInduction

\* The tables are functions on their domains.
Tables ==
  /\ op = [t \in Threads |-> op[t]]
  /\ cur = [t \in Threads |-> cur[t]]
  /\ subs = [f \in Flows |-> subs[f]]

\* Thread t has flow f in hand: it has subscribed it and not yet tracked it, or
\* has given up tracking it and not yet removed its subscriptions.
InHand(t, f) == op[t] \in {"track", "unsubscribe"} /\ cur[t] = f

\* A subscription is tracked or in the hand of a thread.  SubsTracked alone is
\* not inductive: it says nothing while threads are busy.
Held(f) == subs[f] = {} \/ f \in tracked \/ \E t \in Threads : InHand(t, f)

HeldInv == Tables /\ \A f \in Flows : Held(f)

\* A step of a thread that takes nothing in hand and touches no subscription.
LEMMA HandsOff ==
  ASSUME HeldInv, NEW t \in Threads, NEW o,
         op[t] \notin {"track", "unsubscribe"}, Goto(t, o),
         UNCHANGED <<cur, tracked, subs>>
  PROVE  HeldInv'
<1>1. Tables'
  BY DEF HeldInv, Tables, Goto
<1>2. ASSUME NEW f \in Flows, NEW s \in Threads, InHand(s, f) PROVE InHand(s, f)'
  BY <1>2 DEF InHand, Goto, HeldInv, Tables
<1> QED BY <1>1, <1>2 DEF HeldInv, Held

\* A step that leaves all of it alone.
LEMMA Untouched ==
  ASSUME HeldInv, UNCHANGED <<op, cur, tracked, subs>>
  PROVE  HeldInv'
BY DEF HeldInv, Tables, Held, InHand

LEMMA SubscribeHeld ==
  ASSUME HeldInv, NEW t \in Threads, SubscribeNext(t)
  PROVE  HeldInv'
<1> DEFINE f == First(todo[t])
<1>1. /\ op[t] = "subscribe" /\ op' = [op EXCEPT ![t] = "track"]
      /\ cur' = [cur EXCEPT ![t] = f] /\ tracked' = tracked
      /\ subs' = subs \/ subs' = [subs EXCEPT ![f] = @ \cup {list[t][f].topic}]
  BY DEF SubscribeNext, Subscribe, Goto
<1> HIDE DEF f
<1>2. Tables'
  BY <1>1 DEF HeldInv, Tables
<1>3. ASSUME NEW g \in Flows PROVE Held(g)'
  <2>1. CASE g = f
    <3>1. InHand(t, g)'
      BY <1>1, <2>1 DEF InHand, HeldInv, Tables
    <3> QED BY <3>1 DEF Held
  <2>2. CASE g # f
    <3>1. subs'[g] = subs[g]
      BY <1>1, <2>2 DEF HeldInv, Tables
    <3>2. ASSUME NEW s \in Threads, InHand(s, g) PROVE InHand(s, g)'
      BY <1>1, <3>2 DEF InHand, HeldInv, Tables
    <3> QED BY <1>1, <3>1, <3>2 DEF HeldInv, Held
  <2> QED BY <2>1, <2>2
<1> QED BY <1>2, <1>3 DEF HeldInv

LEMMA TrackHeld ==
  ASSUME HeldInv, NEW t \in Threads, Track(t)
  PROVE  HeldInv'
<1>1. /\ op[t] = "track" /\ op' = [op EXCEPT ![t] = "subscribe"]
      /\ cur' = [cur EXCEPT ![t] = Nobody] /\ subs' = subs
      /\ tracked' = tracked \cup {cur[t]}
  BY DEF Track, Goto
<1>2. Tables'
  BY <1>1 DEF HeldInv, Tables
<1>3. ASSUME NEW g \in Flows, NEW s \in Threads, InHand(s, g)
      PROVE  g \in tracked' \/ InHand(s, g)'
  BY <1>1, <1>3 DEF InHand, HeldInv, Tables
<1> QED BY <1>1, <1>2, <1>3 DEF HeldInv, Held

LEMMA UntrackHeld ==
  ASSUME HeldInv, NEW t \in Threads, Untrack(t)
  PROVE  HeldInv'
<1>1. op[t] = "subscribe" /\ subs' = subs
  BY DEF Untrack
<1>2. PICK f : \/ /\ tracked' = tracked \ {f} /\ cur' = [cur EXCEPT ![t] = f]
                  /\ op' = [op EXCEPT ![t] = "unsubscribe"]
               \/ UNCHANGED <<tracked, cur, op>>
  BY DEF Untrack, Goto
<1>3. CASE UNCHANGED <<tracked, cur, op>>
  BY <1>1, <1>3, Untouched
<1>4. CASE /\ tracked' = tracked \ {f} /\ cur' = [cur EXCEPT ![t] = f]
           /\ op' = [op EXCEPT ![t] = "unsubscribe"]
  <2>1. Tables'
    BY <1>1, <1>4 DEF HeldInv, Tables
  <2>2. InHand(t, f)'
    BY <1>4 DEF InHand, HeldInv, Tables
  <2>3. ASSUME NEW g \in Flows, NEW s \in Threads, InHand(s, g) PROVE InHand(s, g)'
    BY <1>1, <1>4, <2>3 DEF InHand, HeldInv, Tables
  <2> QED BY <1>1, <1>4, <2>1, <2>2, <2>3 DEF HeldInv, Held
<1> QED BY <1>2, <1>3, <1>4

LEMMA UnsubscribeHeld ==
  ASSUME HeldInv, NEW t \in Threads, Unsubscribe(t)
  PROVE  HeldInv'
<1>1. /\ op[t] = "unsubscribe" /\ op' = [op EXCEPT ![t] = "subscribe"]
      /\ cur' = [cur EXCEPT ![t] = Nobody] /\ tracked' = tracked
      /\ subs' = [subs EXCEPT ![cur[t]] = {}]
  BY DEF Unsubscribe, Goto
<1>2. Tables'
  BY <1>1 DEF HeldInv, Tables
<1>3. ASSUME NEW g \in Flows PROVE Held(g)'
  <2>1. CASE g = cur[t]
    BY <1>1, <2>1 DEF Held, HeldInv, Tables
  <2>2. CASE g # cur[t]
    <3>1. subs'[g] = subs[g]
      BY <1>1, <2>2 DEF HeldInv, Tables
    <3>2. ASSUME NEW s \in Threads, InHand(s, g) PROVE InHand(s, g)'
      BY <1>1, <2>2, <3>2 DEF InHand, HeldInv, Tables
    <3> QED BY <1>1, <3>1, <3>2 DEF HeldInv, Held
  <2> QED BY <2>1, <2>2
<1> QED BY <1>2, <1>3 DEF HeldInv

\* A reload starts on a thread that is idle.
LEMMA BeginHeld ==
  ASSUME HeldInv, Begin, UNCHANGED <<cur, tracked, subs>>
  PROVE  HeldInv'
<1> DEFINE t == CHOOSE t \in Threads \ Busy : TRUE
<1>1. Threads \ Busy # {} /\ Goto(t, "read")
  BY DEF Begin, Busy
<1>2. t \in Threads /\ op[t] = "idle"
  BY <1>1 DEF Busy
<1> HIDE DEF t
<1> QED BY <1>1, <1>2, HandsOff

LEMMA InitHeld == Init => HeldInv
BY DEF Init, HeldInv, Tables, Held, NoTopics, Booting, NoCur

LEMMA StepHeld == HeldInv /\ [Next]_vars => HeldInv'
<1> SUFFICES ASSUME HeldInv, [Next]_vars PROVE HeldInv'
  OBVIOUS
<1>1. CASE UNCHANGED vars
  BY <1>1, Untouched DEF vars, routes, threads
<1>2. ASSUME NEW t \in Threads, ThreadStep(t) PROVE HeldInv'
  <2>1. CASE Read(t) \/ Load(t) \/ Refresh(t) \/ Wipe(t) \/ Report(t) \/ Finish(t)
    <3>1. op[t] \notin {"track", "unsubscribe"} /\ \E o : Goto(t, o)
      BY <2>1 DEF Read, Load, Refresh, Wipe, Report, Finish
    <3>2. UNCHANGED <<cur, tracked, subs>>
      BY <2>1 DEF Read, Load, Refresh, Wipe, Report, Finish, routes
    <3> QED BY <3>1, <3>2, HandsOff
  <2>2. CASE CompileNext(t) \/ PublishNext(t)
    BY <2>2, Untouched DEF CompileNext, PublishNext, routes
  <2> QED
    BY <1>2, <2>1, <2>2, SubscribeHeld, TrackHeld, UntrackHeld, UnsubscribeHeld DEF ThreadStep
<1>3. CASE Fire \/ Command
  BY <1>3, BeginHeld DEF Fire, Command, routes
<1>4. CASE FireOther \/ EditBegins \/ EditEnds \/ EditOther \/ Connect \/ Resubscribe \/ Disconnect
  BY <1>4, Untouched
  DEF FireOther, EditBegins, EditEnds, EditOther, Connect, Resubscribe, Disconnect, routes, threads
<1>5. CASE Reboot
  BY <1>5 DEF Reboot, HeldInv, Tables, Held, NoTopics, Booting, NoCur
<1> QED BY <1>1, <1>2, <1>3, <1>4, <1>5 DEF Next, Timer

\* When no reload is under way, every subscription is tracked, however reloads,
\* lost connections and restarts have interleaved: a later reload can remove it.
THEOREM SubscriptionsAreTracked == Spec => []SubsTracked
<1>1. HeldInv => SubsTracked
  BY DEF HeldInv, Held, InHand, SubsTracked, Idle, Busy
<1> QED BY <1>1, InitHeld, StepHeld, PTL DEF Spec

-----------------------------------------------------------------------------
(* Types, and what a thread knows of its own lists.                        *)

\* A set of numbers has a first element.
LEMMA FirstIsMember ==
  ASSUME NEW S \in SUBSET Nat, S # {}
  PROVE  First(S) \in S
<1> DEFINE R == OpToRel(<, Nat)
<1>1. \A x, y \in Nat : <<x, y>> \in R <=> x < y
  BY DEF OpToRel
<1>2. IsWellFoundedOn(R, Nat)
  BY NatLessThanWellFounded
<1> HIDE DEF R
<1>3. PICK x \in S : \A y \in S : ~(<<y, x>> \in R)
  BY <1>2, WFMin, Zenon
<1>4. \A y \in S : x <= y
  <2> SUFFICES ASSUME NEW y \in S PROVE x <= y
    OBVIOUS
  <2>1. ~(y < x) /\ x \in Nat /\ y \in Nat
    BY <1>1, <1>3
  <2> QED BY <2>1
<1> QED BY <1>3, <1>4 DEF First

\* The flows of the loop a thread is in are flows of the list it has read.
LocalInv(t) ==
  /\ op[t] \in {"subscribe", "track", "unsubscribe", "compile"} => todo[t] \subseteq Enabled(list[t])
  /\ op[t] = "track" => cur[t] \in todo[t] /\ list[t][cur[t]].topic # NoNode
  /\ op[t] = "unsubscribe" => cur[t] \in Flows /\ list[t][cur[t]].topic = NoNode
  /\ op[t] \in {"subscribe", "track", "unsubscribe"} =>
       \A f \in Enabled(list[t]) : f \in old[t] => f \in todo[t]

TypeInv == TypeOK /\ \A t \in Threads : LocalInv(t)

Configs == Files \cup {AllGone}
Ops == {"idle", "read", "load", "refresh", "subscribe", "track", "unsubscribe", "compile", "publish"}

ThreadTypes ==
  /\ op \in [Threads -> Ops] /\ list \in [Threads -> Configs]
  /\ todo \in [Threads -> SUBSET Flows] /\ old \in [Threads -> SUBSET Flows]
  /\ cur \in [Threads -> Flows \cup {Nobody}]
TableTypes ==
  /\ conf \in Configs /\ tracked \subseteq Flows /\ broker \subseteq Topics
  /\ subs \in [Flows -> SUBSET Topics]
  /\ compiled \in [Flows -> Running \cup {None}]
  /\ status \in [Flows -> [hash : Contents \cup {None}, ok : BOOLEAN]]
OtherTypes ==
  /\ file \in Files
  /\ {writing, watching, mixed, missed, heard} \subseteq BOOLEAN
  /\ pending \in {"none", "flows", "other"} /\ link \in {"down", "fresh", "up"}
  /\ edits \in 0 .. MaxEdits /\ events \in 0 .. MaxEvents

LEMMA TypeParts == TypeOK <=> ThreadTypes /\ TableTypes /\ OtherTypes
BY DEF TypeOK, ThreadTypes, TableTypes, OtherTypes, Configs, Ops

LEMMA NextTypeParts == TypeOK' <=> ThreadTypes' /\ TableTypes' /\ OtherTypes'
BY DEF TypeOK, ThreadTypes, TableTypes, OtherTypes, Configs, Ops

LEMMA ConfigsAreFunctions ==
  /\ \A c \in Configs : c \in [Flows -> Contents]
  /\ \A c : Enabled(c) \subseteq Flows /\ Present(c) \subseteq Flows
  /\ Flows \subseteq Nat /\ Nobody \notin Flows
BY FlowDeployAssumption DEF Configs, AllGone, Contents, Enabled, Present

\* A flow that is not enabled has no node.
LEMMA IdleContents ==
  ASSUME NEW c \in Configs, NEW f \in Flows, f \notin Enabled(c)
  PROVE  c[f] \in {Off, Gone} /\ c[f].topic = NoNode
<1>1. c[f] \in Contents /\ c[f].is \notin {"sound", "broken"}
  BY ConfigsAreFunctions DEF Enabled
<1>2. c[f] \notin Running
  BY <1>1 DEF Running
<1> QED BY <1>1, <1>2 DEF Contents, Off, Gone

\* First on the flows a thread has left.
LEMMA FirstLeft ==
  ASSUME ThreadTypes, NEW t \in Threads, todo[t] # {}
  PROVE  First(todo[t]) \in todo[t] /\ First(todo[t]) \in Flows
<1>1. todo[t] \in SUBSET Flows
  BY DEF ThreadTypes
<1>2. todo[t] \in SUBSET Nat
  BY <1>1, ConfigsAreFunctions
<1> QED BY <1>1, <1>2, FirstIsMember

\* A step of thread t sets its own entries; those of the others stay.
LEMMA OthersKeep ==
  ASSUME TypeInv, NEW t \in Threads, LocalInv(t)',
         \A s \in Threads : s # t =>
            /\ op'[s] = op[s] /\ list'[s] = list[s] /\ todo'[s] = todo[s]
            /\ old'[s] = old[s] /\ cur'[s] = cur[s]
  PROVE  \A s \in Threads : LocalInv(s)'
<1> SUFFICES ASSUME NEW s \in Threads, s # t PROVE LocalInv(s)'
  OBVIOUS
<1>1. LocalInv(s)
  BY DEF TypeInv
<1> QED BY <1>1 DEF LocalInv

LEMMA ListSteps ==
  ASSUME TypeInv, NEW t \in Threads,
         Read(t) \/ Load(t) \/ Refresh(t) \/ Wipe(t) \/ Report(t) \/ Finish(t)
  PROVE  TypeInv'
<1> USE ConfigsAreFunctions
<1>1. ThreadTypes /\ TableTypes /\ OtherTypes
  BY TypeParts DEF TypeInv
<1>2. PICK o \in Ops : op' = [op EXCEPT ![t] = o]
  BY DEF Read, Load, Refresh, Wipe, Report, Finish, Goto, Ops
<1>3. cur' = cur
  BY DEF Read, Load, Refresh, Wipe, Report, Finish
<1>4. PICK c \in Configs : list' = [list EXCEPT ![t] = c]
  BY <1>1 DEF Read, Load, Refresh, Wipe, Report, Finish, TableTypes, OtherTypes, Configs
<1>5. \E S \in SUBSET Flows : todo' = [todo EXCEPT ![t] = S] \/ todo' = todo
  BY DEF Read, Load, Refresh, Wipe, Report, Finish
<1>6. old' = [old EXCEPT ![t] = tracked] \/ old' = old
  BY DEF Read, Load, Refresh, Wipe, Report, Finish
<1>7. ThreadTypes'
  <2>1. op' \in [Threads -> Ops] /\ list' \in [Threads -> Configs]
    BY <1>1, <1>2, <1>4 DEF ThreadTypes
  <2>2. todo' \in [Threads -> SUBSET Flows]
    BY <1>1, <1>5 DEF ThreadTypes
  <2>3. old' \in [Threads -> SUBSET Flows]
    BY <1>1, <1>6 DEF ThreadTypes, TableTypes
  <2> QED BY <1>1, <1>3, <2>1, <2>2, <2>3 DEF ThreadTypes
<1>8. TableTypes'
  <2>1. UNCHANGED <<tracked, broker, subs, status>>
    BY DEF Read, Load, Refresh, Wipe, Report, Finish, routes, mqtt
  <2>2. conf' \in Configs
    BY <1>1 DEF Read, Load, Refresh, Wipe, Report, Finish, ThreadTypes, TableTypes
  <2>3. compiled' \in [Flows -> Running \cup {None}]
    BY <1>1 DEF Read, Load, Refresh, Wipe, Report, Finish, TableTypes
  <2> QED BY <1>1, <2>1, <2>2, <2>3 DEF TableTypes
<1>9. OtherTypes'
  BY <1>1 DEF Read, Load, Refresh, Wipe, Report, Finish, OtherTypes, disk, watcher, mqtt, history, spent
<1>10. LocalInv(t)'
  <2>1. CASE Read(t) \/ Load(t) \/ Report(t) \/ Finish(t)
    <3>1. op'[t] \in {"idle", "load", "refresh", "publish"}
      BY <1>1, <2>1 DEF Read, Load, Report, Finish, Goto, ThreadTypes
    <3> QED BY <3>1 DEF LocalInv
  <2>2. CASE Refresh(t)
    <3>1. op'[t] = "subscribe" /\ list'[t] = conf /\ todo'[t] = Enabled(conf)
      BY <1>1, <2>2 DEF Refresh, Goto, ThreadTypes
    <3> QED BY <3>1 DEF LocalInv
  <2>3. CASE Wipe(t)
    <3>1. op'[t] = "compile" /\ list'[t] = conf /\ todo'[t] = Enabled(conf)
      BY <1>1, <2>3 DEF Wipe, Goto, ThreadTypes
    <3> QED BY <3>1 DEF LocalInv
  <2> QED BY <2>1, <2>2, <2>3
<1>11. \A s \in Threads : LocalInv(s)'
  <2>1. \A s \in Threads : s # t =>
            /\ op'[s] = op[s] /\ list'[s] = list[s] /\ todo'[s] = todo[s]
            /\ old'[s] = old[s] /\ cur'[s] = cur[s]
    BY <1>1, <1>2, <1>3, <1>4, <1>5, <1>6 DEF ThreadTypes
  <2> QED BY <1>10, <2>1, OthersKeep
<1> QED BY <1>7, <1>8, <1>9, <1>11, NextTypeParts DEF TypeInv

LEMMA SubscribeTyped ==
  ASSUME TypeInv, NEW t \in Threads, SubscribeNext(t)
  PROVE  TypeInv'
<1> USE ConfigsAreFunctions
<1>1. ThreadTypes /\ TableTypes /\ OtherTypes
  BY TypeParts DEF TypeInv
<1> DEFINE f == First(todo[t])
<1>2. f \in todo[t] /\ f \in Flows
  BY <1>1, FirstLeft DEF SubscribeNext
<1>3. /\ op' = [op EXCEPT ![t] = "track"] /\ cur' = [cur EXCEPT ![t] = f]
      /\ op[t] = "subscribe" /\ list[t][f].topic # NoNode
      /\ \/ UNCHANGED <<subs, broker>>
         \/ /\ list[t][f].topic # Blank
            /\ subs' = [subs EXCEPT ![f] = @ \cup {list[t][f].topic}]
            /\ broker' = broker \/ broker' = broker \cup {list[t][f].topic}
      /\ UNCHANGED <<disk, watcher, conf, tracked, compiled, link, status, list, todo, old, history, spent>>
  BY DEF SubscribeNext, Subscribe, Goto
<1> HIDE DEF f
<1>4. ThreadTypes'
  BY <1>1, <1>2, <1>3 DEF ThreadTypes, Ops
<1>5. TableTypes'
  <2>1. list[t] \in Configs /\ list[t][f] \in Contents
    BY <1>1, <1>2 DEF ThreadTypes
  <2>2. list[t][f].topic \in Topics \cup {NoNode, Blank}
    BY <2>1 DEF Contents, Running, Off, Gone
  <2>3. subs' \in [Flows -> SUBSET Topics] /\ broker' \subseteq Topics
    BY <1>1, <1>2, <1>3, <2>2 DEF TableTypes
  <2> QED BY <1>1, <1>3, <2>3 DEF TableTypes
<1>6. OtherTypes'
  BY <1>1, <1>3 DEF OtherTypes, disk, watcher, history, spent
<1>7. LocalInv(t)'
  <2>1. op'[t] = "track" /\ cur'[t] = f /\ list'[t] = list[t] /\ todo'[t] = todo[t] /\ old'[t] = old[t]
    BY <1>1, <1>3 DEF ThreadTypes
  <2> QED BY <1>2, <1>3, <2>1 DEF TypeInv, LocalInv
<1>8. \A s \in Threads : LocalInv(s)'
  <2>1. \A s \in Threads : s # t =>
            /\ op'[s] = op[s] /\ list'[s] = list[s] /\ todo'[s] = todo[s]
            /\ old'[s] = old[s] /\ cur'[s] = cur[s]
    BY <1>1, <1>3 DEF ThreadTypes
  <2> QED BY <1>7, <2>1, OthersKeep
<1> QED BY <1>4, <1>5, <1>6, <1>8, NextTypeParts DEF TypeInv

LEMMA TrackTyped ==
  ASSUME TypeInv, NEW t \in Threads, Track(t)
  PROVE  TypeInv'
<1> USE ConfigsAreFunctions
<1>1. ThreadTypes /\ TableTypes /\ OtherTypes
  BY TypeParts DEF TypeInv
<1>2. /\ op' = [op EXCEPT ![t] = "subscribe"] /\ cur' = [cur EXCEPT ![t] = Nobody]
      /\ op[t] = "track" /\ tracked' = tracked \cup {cur[t]}
      /\ todo' = [todo EXCEPT ![t] = @ \ {cur[t]}] /\ old' = [old EXCEPT ![t] = @ \ {cur[t]}]
      /\ UNCHANGED <<disk, watcher, conf, subs, compiled, mqtt, status, list, history, spent>>
  BY DEF Track, Goto
<1>3. cur[t] \in todo[t] /\ cur[t] \in Flows /\ LocalInv(t)
  BY <1>1, <1>2 DEF TypeInv, LocalInv, ThreadTypes
<1>4. ThreadTypes'
  BY <1>1, <1>2 DEF ThreadTypes, Ops
<1>5. TableTypes'
  BY <1>1, <1>2, <1>3 DEF TableTypes, mqtt
<1>6. OtherTypes'
  BY <1>1, <1>2 DEF OtherTypes, disk, watcher, mqtt, history, spent
<1>7. LocalInv(t)'
  <2>1. /\ op'[t] = "subscribe" /\ list'[t] = list[t]
        /\ todo'[t] = todo[t] \ {cur[t]} /\ old'[t] = old[t] \ {cur[t]}
    BY <1>1, <1>2 DEF ThreadTypes
  <2> QED BY <1>2, <1>3, <2>1 DEF LocalInv
<1>8. \A s \in Threads : LocalInv(s)'
  <2>1. \A s \in Threads : s # t =>
            /\ op'[s] = op[s] /\ list'[s] = list[s] /\ todo'[s] = todo[s]
            /\ old'[s] = old[s] /\ cur'[s] = cur[s]
    BY <1>1, <1>2 DEF ThreadTypes
  <2> QED BY <1>7, <2>1, OthersKeep
<1> QED BY <1>4, <1>5, <1>6, <1>8, NextTypeParts DEF TypeInv

\* The flow that loses its subscriptions has no mqtt-in node, or is not enabled.
LEMMA UntrackFacts ==
  ASSUME TypeInv, NEW t \in Threads, Untrack(t)
  PROVE  \E f \in Flows :
           /\ f \in todo[t] \cup old[t] /\ list[t][f].topic = NoNode
           /\ op[t] = "subscribe"
           /\ todo' = [todo EXCEPT ![t] = @ \ {f}] /\ old' = [old EXCEPT ![t] = @ \ {f}]
           /\ \/ /\ f \in tracked /\ tracked' = tracked \ {f}
                 /\ cur' = [cur EXCEPT ![t] = f] /\ op' = [op EXCEPT ![t] = "unsubscribe"]
              \/ f \notin tracked /\ UNCHANGED <<tracked, cur, op>>
           /\ UNCHANGED <<disk, watcher, conf, subs, compiled, mqtt, status, list, history, spent>>
<1> USE ConfigsAreFunctions
<1>1. ThreadTypes
  BY TypeParts DEF TypeInv
<1>2. op[t] = "subscribe"
  BY DEF Untrack
<1>3. PICK f : /\ f \in IF todo[t] # {} THEN {First(todo[t])} ELSE old[t]
               /\ todo[t] # {} => list[t][f].topic = NoNode
               /\ todo' = [todo EXCEPT ![t] = @ \ {f}]
               /\ old' = [old EXCEPT ![t] = @ \ {f}]
               /\ \/ /\ f \in tracked /\ tracked' = tracked \ {f}
                     /\ cur' = [cur EXCEPT ![t] = f] /\ op' = [op EXCEPT ![t] = "unsubscribe"]
                  \/ f \notin tracked /\ UNCHANGED <<tracked, cur, op>>
  BY DEF Untrack, Goto
<1>4. f \in Flows /\ f \in todo[t] \cup old[t]
  BY <1>1, <1>3, FirstLeft DEF ThreadTypes
<1>5. list[t][f].topic = NoNode
  <2>1. CASE todo[t] = {}
    <3>1. f \notin Enabled(list[t])
      BY <1>2, <1>3, <2>1 DEF TypeInv, LocalInv
    <3> QED BY <1>1, <1>4, <3>1, IdleContents DEF ThreadTypes
  <2> QED BY <1>3, <2>1
<1>6. UNCHANGED <<disk, watcher, conf, subs, compiled, mqtt, status, list, history, spent>>
  BY DEF Untrack
<1> QED BY <1>2, <1>3, <1>4, <1>5, <1>6

LEMMA UntrackTyped ==
  ASSUME TypeInv, NEW t \in Threads, Untrack(t)
  PROVE  TypeInv'
<1> USE ConfigsAreFunctions
<1>1. ThreadTypes /\ TableTypes /\ OtherTypes
  BY TypeParts DEF TypeInv
<1>2. PICK f \in Flows :
           /\ f \in todo[t] \cup old[t] /\ list[t][f].topic = NoNode
           /\ op[t] = "subscribe"
           /\ todo' = [todo EXCEPT ![t] = @ \ {f}] /\ old' = [old EXCEPT ![t] = @ \ {f}]
           /\ \/ /\ tracked' = tracked \ {f}
                 /\ cur' = [cur EXCEPT ![t] = f] /\ op' = [op EXCEPT ![t] = "unsubscribe"]
              \/ UNCHANGED <<tracked, cur, op>>
           /\ UNCHANGED <<disk, watcher, conf, subs, compiled, mqtt, status, list, history, spent>>
  BY UntrackFacts
<1>3. ThreadTypes'
  BY <1>1, <1>2 DEF ThreadTypes, Ops
<1>4. TableTypes'
  BY <1>1, <1>2 DEF TableTypes, mqtt
<1>5. OtherTypes'
  BY <1>1, <1>2 DEF OtherTypes, disk, watcher, mqtt, history, spent
<1>6. LocalInv(t)'
  <2>1. /\ list'[t] = list[t] /\ todo'[t] = todo[t] \ {f} /\ old'[t] = old[t] \ {f}
        /\ op'[t] = "subscribe" \/ (op'[t] = "unsubscribe" /\ cur'[t] = f)
    BY <1>1, <1>2 DEF ThreadTypes
  <2> QED BY <1>2, <2>1 DEF TypeInv, LocalInv
<1>7. \A s \in Threads : LocalInv(s)'
  <2>1. \A s \in Threads : s # t =>
            /\ op'[s] = op[s] /\ list'[s] = list[s] /\ todo'[s] = todo[s]
            /\ old'[s] = old[s] /\ cur'[s] = cur[s]
    BY <1>1, <1>2 DEF ThreadTypes
  <2> QED BY <1>6, <2>1, OthersKeep
<1> QED BY <1>3, <1>4, <1>5, <1>7, NextTypeParts DEF TypeInv

LEMMA UnsubscribeTyped ==
  ASSUME TypeInv, NEW t \in Threads, Unsubscribe(t)
  PROVE  TypeInv'
<1> USE ConfigsAreFunctions
<1>1. ThreadTypes /\ TableTypes /\ OtherTypes
  BY TypeParts DEF TypeInv
<1>2. /\ op[t] = "unsubscribe" /\ op' = [op EXCEPT ![t] = "subscribe"]
      /\ cur' = [cur EXCEPT ![t] = Nobody]
      /\ subs' = [subs EXCEPT ![cur[t]] = {}] /\ broker' \subseteq broker
      /\ UNCHANGED <<disk, watcher, conf, tracked, compiled, link, status, list, todo, old, history, spent>>
  BY DEF Unsubscribe, Goto
<1>3. ThreadTypes'
  BY <1>1, <1>2 DEF ThreadTypes, Ops
<1>4. TableTypes'
  BY <1>1, <1>2 DEF TableTypes
<1>5. OtherTypes'
  BY <1>1, <1>2 DEF OtherTypes, disk, watcher, history, spent
<1>6. LocalInv(t)'
  <2>1. op'[t] = "subscribe" /\ list'[t] = list[t] /\ todo'[t] = todo[t] /\ old'[t] = old[t]
    BY <1>1, <1>2 DEF ThreadTypes
  <2> QED BY <1>2, <2>1 DEF TypeInv, LocalInv
<1>7. \A s \in Threads : LocalInv(s)'
  <2>1. \A s \in Threads : s # t =>
            /\ op'[s] = op[s] /\ list'[s] = list[s] /\ todo'[s] = todo[s]
            /\ old'[s] = old[s] /\ cur'[s] = cur[s]
    BY <1>1, <1>2 DEF ThreadTypes
  <2> QED BY <1>6, <2>1, OthersKeep
<1> QED BY <1>3, <1>4, <1>5, <1>7, NextTypeParts DEF TypeInv

LEMMA FlowByFlowTyped ==
  ASSUME TypeInv, NEW t \in Threads, CompileNext(t) \/ PublishNext(t)
  PROVE  TypeInv'
<1> USE ConfigsAreFunctions
<1>1. ThreadTypes /\ TableTypes /\ OtherTypes
  BY TypeParts DEF TypeInv
<1> DEFINE f == First(todo[t])
<1>2. f \in todo[t] /\ f \in Flows
  BY <1>1, FirstLeft DEF CompileNext, PublishNext
<1>3. list[t][f] \in Contents /\ list[t] \in Configs
  BY <1>1, <1>2 DEF ThreadTypes
<1>4. /\ todo' = [todo EXCEPT ![t] = @ \ {f}] /\ op[t] \in {"compile", "publish"}
      /\ UNCHANGED <<disk, watcher, conf, routes, mqtt, op, list, old, cur, mixed, missed, spent>>
  BY DEF CompileNext, PublishNext, history
<1>5. ThreadTypes'
  BY <1>1, <1>4 DEF ThreadTypes
<1>6. compiled' \in [Flows -> Running \cup {None}]
  <2>1. CASE CompileNext(t)
    <3>1. compiled' = IF list[t][f].is = "broken" THEN compiled ELSE [compiled EXCEPT ![f] = list[t][f]]
      BY <2>1 DEF CompileNext
    <3>2. f \in Enabled(list[t])
      BY <1>2, <2>1 DEF CompileNext, TypeInv, LocalInv
    <3>3. list[t][f] \in Running
      BY <1>3, <3>2 DEF Enabled, Contents, Off, Gone
    <3> HIDE DEF f
    <3> QED BY <1>1, <1>2, <3>1, <3>3 DEF TableTypes
  <2>2. CASE PublishNext(t)
    BY <1>1, <2>2 DEF PublishNext, TableTypes
  <2> QED BY <2>1, <2>2
<1>7. status' \in [Flows -> [hash : Contents \cup {None}, ok : BOOLEAN]]
  <2>1. CASE CompileNext(t)
    BY <1>1, <2>1 DEF CompileNext, TableTypes
  <2>2. CASE PublishNext(t)
    <3>1. \/ status' = status
          \/ status' = [status EXCEPT ![f] = [hash |-> list[t][f], ok |-> compiled[f] # None]]
      BY <2>2 DEF PublishNext
    <3>2. [hash |-> list[t][f], ok |-> compiled[f] # None] \in [hash : Contents \cup {None}, ok : BOOLEAN]
      BY <1>3
    <3> QED BY <1>1, <1>2, <3>1, <3>2 DEF TableTypes
  <2> QED BY <2>1, <2>2
<1>8. TableTypes'
  BY <1>1, <1>4, <1>6, <1>7 DEF TableTypes, routes, mqtt
<1>9. OtherTypes'
  <2>1. heard' \in BOOLEAN
    BY <1>1 DEF CompileNext, PublishNext, history, OtherTypes
  <2> QED BY <1>1, <1>4, <2>1 DEF OtherTypes, disk, watcher, mqtt, spent
<1>10. LocalInv(t)'
  <2>1. op'[t] = op[t] /\ list'[t] = list[t] /\ todo'[t] \subseteq todo[t]
    BY <1>1, <1>4 DEF ThreadTypes
  <2> QED BY <1>4, <2>1 DEF TypeInv, LocalInv
<1>11. \A s \in Threads : LocalInv(s)'
  <2>1. \A s \in Threads : s # t =>
            /\ op'[s] = op[s] /\ list'[s] = list[s] /\ todo'[s] = todo[s]
            /\ old'[s] = old[s] /\ cur'[s] = cur[s]
    BY <1>1, <1>4 DEF ThreadTypes
  <2> QED BY <1>10, <2>1, OthersKeep
<1> QED BY <1>5, <1>8, <1>9, <1>11, NextTypeParts DEF TypeInv

LEMMA BeginTyped ==
  ASSUME TypeInv, Begin, UNCHANGED <<list, todo, old, cur>>, TableTypes', OtherTypes'
  PROVE  TypeInv'
<1>1. ThreadTypes
  BY TypeParts DEF TypeInv
<1>2. PICK t \in Threads : op[t] = "idle" /\ op' = [op EXCEPT ![t] = "read"]
  <2> DEFINE b == CHOOSE x \in Threads \ Busy : TRUE
  <2>1. Threads \ Busy # {} /\ Goto(b, "read")
    BY DEF Begin, Busy
  <2>2. b \in Threads /\ op[b] = "idle"
    BY <2>1 DEF Busy
  <2> HIDE DEF b
  <2> QED BY <2>1, <2>2 DEF Goto
<1>3. ThreadTypes'
  BY <1>1, <1>2 DEF ThreadTypes, Ops
<1>4. op'[t] = "read" /\ \A s \in Threads : s # t => op'[s] = op[s]
  BY <1>1, <1>2 DEF ThreadTypes
<1>5. LocalInv(t)'
  BY <1>4 DEF LocalInv
<1>6. \A s \in Threads : LocalInv(s)'
  BY <1>4, <1>5, OthersKeep
<1> QED BY <1>3, <1>6, NextTypeParts DEF TypeInv

LEMMA InitTyped == Init => TypeInv
<1> SUFFICES ASSUME Init PROVE TypeInv
  OBVIOUS
<1>1. ThreadTypes
  BY DEF Init, ThreadTypes, Booting, NoLists, NoFlows, NoCur, Configs, Ops
<1>2. TableTypes
  BY DEF Init, TableTypes, Configs, NoTopics, Nothing
<1>3. OtherTypes
  <2>1. file \in Files /\ edits \in 0 .. MaxEdits /\ events \in 0 .. MaxEvents
    BY FlowDeployAssumption DEF Init
  <2>2. {writing, watching, mixed, missed, heard} \subseteq BOOLEAN
    BY DEF Init
  <2> QED BY <2>1, <2>2 DEF Init, OtherTypes
<1>4. \A t \in Threads : LocalInv(t)
  BY DEF Init, Booting, LocalInv
<1> QED BY <1>1, <1>2, <1>3, <1>4, TypeParts DEF TypeInv

LEMMA RebootTyped == TypeInv /\ Reboot => TypeInv'
<1> SUFFICES ASSUME TypeInv, Reboot PROVE TypeInv'
  OBVIOUS
<1>1. TableTypes /\ OtherTypes
  BY TypeParts DEF TypeInv
<1>2. ThreadTypes'
  BY DEF Reboot, ThreadTypes, Booting, NoLists, NoFlows, NoCur, Configs, Ops
<1>3. TableTypes'
  BY <1>1 DEF Reboot, TableTypes, Configs, NoTopics, Nothing
<1>4. OtherTypes'
  <2>1. events' \in 0 .. MaxEvents /\ edits' = edits
    BY <1>1, FlowDeployAssumption DEF Reboot, Event, OtherTypes
  <2> QED BY <1>1, <2>1 DEF Reboot, OtherTypes, disk
<1>5. \A t \in Threads : LocalInv(t)'
  BY DEF Reboot, Booting, LocalInv
<1> QED BY <1>2, <1>3, <1>4, <1>5, NextTypeParts DEF TypeInv

LEMMA StepTyped == TypeInv /\ [Next]_vars => TypeInv'
<1> SUFFICES ASSUME TypeInv, [Next]_vars PROVE TypeInv'
  OBVIOUS
<1>1. ThreadTypes /\ TableTypes /\ OtherTypes
  BY TypeParts DEF TypeInv
<1>2. ASSUME UNCHANGED threads, TableTypes', OtherTypes' PROVE TypeInv'
  <2>1. ThreadTypes' /\ \A t \in Threads : LocalInv(t)'
    BY <1>1, <1>2 DEF ThreadTypes, TypeInv, LocalInv, threads
  <2> QED BY <1>2, <2>1, NextTypeParts DEF TypeInv
<1>3. CASE UNCHANGED vars
  <2>1. TableTypes' /\ OtherTypes'
    BY <1>1, <1>3 DEF TableTypes, OtherTypes, vars, disk, watcher, routes, mqtt, history, spent
  <2> QED BY <1>2, <1>3, <2>1 DEF vars
<1>4. ASSUME NEW t \in Threads, ThreadStep(t) PROVE TypeInv'
  BY <1>4, ListSteps, SubscribeTyped, TrackTyped, UntrackTyped, UnsubscribeTyped, FlowByFlowTyped
  DEF ThreadStep
<1>5. CASE Fire \/ Command
  <2>1. /\ Begin /\ UNCHANGED <<list, todo, old, cur>>
        /\ UNCHANGED <<disk, watching, conf, routes, compiled, mqtt, status, missed>>
        /\ pending' \in {pending, "none"} /\ edits' = edits
    BY <1>5 DEF Fire, Command, watcher, Event, spent
  <2>2. TableTypes'
    BY <1>1, <2>1 DEF TableTypes, routes, mqtt
  <2>3. events' \in 0 .. MaxEvents
    BY <1>1, <1>5, FlowDeployAssumption DEF Fire, Command, Event, spent, OtherTypes
  <2>4. mixed' \in BOOLEAN /\ heard' \in BOOLEAN
    BY <1>1, <2>1 DEF Begin, Idle, OtherTypes
  <2>5. OtherTypes'
    BY <1>1, <2>1, <2>3, <2>4 DEF OtherTypes, disk, mqtt
  <2> QED BY <2>1, <2>2, <2>5, BeginTyped
<1>6. CASE FireOther \/ EditBegins \/ EditEnds \/ EditOther
  <2>1. UNCHANGED threads /\ UNCHANGED <<watching, conf, routes, compiled, mqtt, status, mixed, heard>>
    BY <1>6 DEF FireOther, EditBegins, EditEnds, EditOther, watcher, history
  <2>2. TableTypes'
    BY <1>1, <2>1 DEF TableTypes, routes, mqtt
  <2>3. file' \in Files /\ writing' \in BOOLEAN
    BY <1>1, <1>6 DEF FireOther, EditBegins, EditEnds, EditOther, disk, OtherTypes
  <2>4. pending' \in {"none", "flows", "other"} /\ missed' \in BOOLEAN
    BY <1>1, <1>6 DEF FireOther, EditBegins, EditEnds, EditOther, Notify, Late, history, OtherTypes
  <2>5. edits' \in 0 .. MaxEdits /\ events' \in 0 .. MaxEvents
    BY <1>1, <1>6, FlowDeployAssumption
    DEF FireOther, EditBegins, EditEnds, EditOther, Event, spent, OtherTypes
  <2>6. OtherTypes'
    BY <1>1, <2>1, <2>3, <2>4, <2>5 DEF OtherTypes, mqtt
  <2> QED BY <1>2, <2>1, <2>2, <2>6
<1>7. CASE Connect \/ Resubscribe \/ Disconnect
  <2>1. UNCHANGED threads /\ UNCHANGED <<disk, watcher, conf, routes, compiled, status, history, edits>>
    BY <1>7 DEF Connect, Resubscribe, Disconnect, Event, spent
  <2>2. broker' \subseteq Topics
    <3>1. \A f \in Flows : subs[f] \subseteq Topics
      BY <1>1 DEF TableTypes
    <3>2. UNION {subs[f] : f \in Flows} \subseteq Topics
      BY <3>1
    <3> QED BY <1>1, <1>7, <3>2 DEF Connect, Resubscribe, Disconnect, TableTypes
  <2>3. TableTypes'
    BY <1>1, <2>1, <2>2 DEF TableTypes, routes
  <2>4. link' \in {"down", "fresh", "up"}
    BY <1>7 DEF Connect, Resubscribe, Disconnect
  <2>5. events' \in 0 .. MaxEvents
    BY <1>1, <1>7, FlowDeployAssumption DEF Connect, Resubscribe, Disconnect, Event, spent, OtherTypes
  <2>6. OtherTypes'
    BY <1>1, <2>1, <2>4, <2>5 DEF OtherTypes, disk, watcher, history
  <2> QED BY <1>2, <2>1, <2>3, <2>6
<1>8. CASE Reboot
  BY <1>8, RebootTyped
<1> QED BY <1>3, <1>4, <1>5, <1>6, <1>7, <1>8 DEF Next, Timer

-----------------------------------------------------------------------------
(* The broker knows the topics of a resubscribed connection.               *)

BrokerInv == link = "up" => \A f \in Flows : subs[f] \subseteq broker

LEMMA StepBroker == TypeInv /\ BrokerInv /\ [Next]_vars => BrokerInv'
<1> SUFFICES ASSUME TypeInv, BrokerInv, [Next]_vars PROVE BrokerInv'
  OBVIOUS
<1>1. ThreadTypes /\ TableTypes
  BY TypeParts DEF TypeInv
<1>2. ASSUME UNCHANGED <<link, subs, broker>> PROVE BrokerInv'
  BY <1>2 DEF BrokerInv
<1>3. CASE UNCHANGED vars
  BY <1>2, <1>3 DEF vars, routes, mqtt
<1>4. ASSUME NEW t \in Threads, ThreadStep(t) PROVE BrokerInv'
  <2>1. CASE SubscribeNext(t)
    <3> DEFINE f == First(todo[t])
               topic == list[t][f].topic
    <3>1. /\ link' = link
          /\ \/ UNCHANGED <<subs, broker>>
             \/ /\ subs' = [subs EXCEPT ![f] = @ \cup {topic}]
                /\ broker' = IF link = "down" THEN broker ELSE broker \cup {topic}
      BY <2>1 DEF SubscribeNext, Subscribe
    <3> HIDE DEF f, topic
    <3> QED BY <1>1, <3>1 DEF BrokerInv, TableTypes
  <2>2. CASE Unsubscribe(t)
    <3> DEFINE kept == UNION {subs[g] : g \in Flows \ {cur[t]}}
    <3>1. /\ subs' = [subs EXCEPT ![cur[t]] = {}] /\ link' = link
          /\ broker' = IF link = "down" THEN broker ELSE broker \ (subs[cur[t]] \ kept)
      BY <2>2 DEF Unsubscribe
    <3>2. \A g \in Flows \ {cur[t]} : subs[g] \subseteq kept
      OBVIOUS
    <3> HIDE DEF kept
    <3>3. ASSUME link' = "up", NEW g \in Flows PROVE subs'[g] \subseteq broker'
      <4>1. broker' = broker \ (subs[cur[t]] \ kept) /\ subs[g] \subseteq broker
        BY <3>1, <3>3 DEF BrokerInv
      <4>2. CASE g = cur[t]
        BY <1>1, <3>1, <4>2 DEF TableTypes
      <4>3. CASE g # cur[t]
        <5>1. subs'[g] = subs[g] /\ subs[g] \subseteq kept
          BY <1>1, <3>1, <3>2, <4>3 DEF TableTypes
        <5> QED BY <4>1, <5>1
      <4> QED BY <4>2, <4>3
    <3> QED BY <3>3 DEF BrokerInv
  <2>3. CASE ~(SubscribeNext(t) \/ Unsubscribe(t))
    <3>1. UNCHANGED <<link, subs, broker>>
      BY <1>4, <2>3 DEF ThreadStep, Read, Load, Refresh, Track, Untrack, Wipe, CompileNext, Report,
                        PublishNext, Finish, routes, mqtt
    <3> QED BY <1>2, <3>1
  <2> QED BY <2>1, <2>2, <2>3
<1>5. CASE Timer \/ Command \/ EditBegins \/ EditEnds \/ EditOther
  <2>1. UNCHANGED <<link, subs, broker>>
    BY <1>5 DEF Timer, Fire, FireOther, Command, EditBegins, EditEnds, EditOther, routes, mqtt
  <2> QED BY <1>2, <2>1
<1>6. CASE Connect \/ Disconnect \/ Reboot
  BY <1>6 DEF Connect, Disconnect, Reboot, BrokerInv
<1>7. CASE Resubscribe
  <2>1. subs' = subs /\ broker' = broker \cup UNION {subs[f] : f \in Flows}
    BY <1>7 DEF Resubscribe, routes
  <2> QED BY <2>1 DEF BrokerInv
<1> QED BY <1>3, <1>4, <1>5, <1>6, <1>7 DEF Next

-----------------------------------------------------------------------------
(* A reload that runs alone.                                               *)

\* What a reload makes of flow f: the topic of its node subscribed, or nothing
\* if it has none (with a blank topic, what it was); its content compiled, or
\* nothing; and a status that says so.
Subscribed(f) ==
  /\ conf[f].topic \notin {NoNode, Blank} => conf[f].topic \in subs[f]
  /\ conf[f].topic = NoNode => subs[f] = {}
Target(f) == IF conf[f].is = "sound" THEN conf[f] ELSE None
Reported(f) == status[f] = [hash |-> conf[f], ok |-> compiled[f] # None]

\* The loops of the reload, each with the flows it has left.
Subscribing(t) ==
  /\ list[t] = conf
  /\ \A f \in Flows : \/ f \in todo[t] \cup old[t]
                      \/ op[t] = "unsubscribe" /\ cur[t] = f
                      \/ Subscribed(f)
  /\ op[t] = "track" => Subscribed(cur[t])
Compiling(t) ==
  /\ list[t] = conf
  /\ \A f \in Flows : Subscribed(f) /\ compiled[f] = IF f \in todo[t] THEN None ELSE Target(f)
Publishing(t) ==
  /\ list[t] = conf
  /\ \A f \in Flows : Subscribed(f) /\ compiled[f] = Target(f)
  /\ heard => \A f \in Present(conf) \ todo[t] : Reported(f)
Settled ==
  /\ \A f \in Flows : Subscribed(f) /\ compiled[f] = Target(f)
  /\ heard => \A f \in Present(conf) : Reported(f)

Stage(t) ==
  /\ op[t] \in {"subscribe", "track", "unsubscribe"} => Subscribing(t)
  /\ op[t] = "compile" => Compiling(t)
  /\ op[t] = "publish" => Publishing(t)
  /\ op[t] = "idle" => Settled

\* Unless reloads overlapped, thread t alone has reloaded last or is about to.
Alone(t) == (\A s \in Threads \ {t} : op[s] = "idle") /\ Stage(t)
Phase == ~mixed => \E t \in Threads : Alone(t)

LEMMA PhaseUntouched ==
  ASSUME Phase, UNCHANGED <<threads, conf, subs, compiled, status, mixed, heard>>
  PROVE  Phase'
BY DEF Phase, Alone, Stage, Subscribing, Compiling, Publishing, Settled, Subscribed, Target, Reported,
       threads

\* No subscription of another flow than the one in hand is untracked.
LEMMA UntrackedIsFree ==
  ASSUME HeldInv, NEW t \in Threads, Alone(t), op[t] \notin {"track", "unsubscribe"},
         NEW f \in Flows \ tracked
  PROVE  subs[f] = {}
BY DEF HeldInv, Held, InHand, Alone

LEMMA RefreshStage ==
  ASSUME TypeInv, HeldInv, NEW t \in Threads, Alone(t), Refresh(t)
  PROVE  Stage(t)'
<1>1. ThreadTypes
  BY TypeParts DEF TypeInv
<1>2. /\ op[t] = "refresh" /\ op'[t] = "subscribe" /\ list'[t] = conf
      /\ todo'[t] = Enabled(conf) /\ old'[t] = tracked /\ UNCHANGED <<conf, subs>>
  BY <1>1 DEF Refresh, Goto, ThreadTypes, routes
<1>3. ASSUME NEW f \in Flows, f \notin Enabled(conf) \cup tracked PROVE Subscribed(f)
  <2>1. subs[f] = {}
    BY <1>2, <1>3, UntrackedIsFree
  <2>2. conf[f].topic = NoNode
    BY <1>3, IdleContents, TypeParts DEF TypeInv, TableTypes
  <2> QED BY <2>1, <2>2 DEF Subscribed, NoNode
<1>4. Subscribing(t)'
  BY <1>2, <1>3 DEF Subscribing, Subscribed
<1> QED BY <1>2, <1>4 DEF Stage

LEMMA SubscribeStage ==
  ASSUME TypeInv, NEW t \in Threads, Alone(t), SubscribeNext(t)
  PROVE  Stage(t)'
<1>1. ThreadTypes /\ TableTypes
  BY TypeParts DEF TypeInv
<1>2. PICK f \in Flows : f = First(todo[t]) /\ f \in todo[t]
  BY <1>1, FirstLeft DEF SubscribeNext
<1>3. Subscribing(t)
  BY DEF Alone, Stage, SubscribeNext
<1>4. /\ op[t] = "subscribe" /\ op'[t] = "track" /\ cur'[t] = f
      /\ conf[f].topic # NoNode
      /\ IF conf[f].topic = Blank THEN subs' = subs
         ELSE subs' = [subs EXCEPT ![f] = @ \cup {conf[f].topic}]
      /\ UNCHANGED <<conf, list, todo, old>>
  BY <1>1, <1>2, <1>3 DEF SubscribeNext, Subscribe, Goto, ThreadTypes, Subscribing
<1>5. Subscribing(t)'
  <2>1. \A g \in Flows : g # f => subs'[g] = subs[g]
    BY <1>1, <1>4 DEF TableTypes
  <2>2. Subscribed(f)'
    <3>1. CASE conf[f].topic = Blank
      BY <1>4, <3>1 DEF Subscribed
    <3>2. CASE conf[f].topic # Blank
      <4>1. conf[f].topic \in subs'[f]
        BY <1>1, <1>2, <1>4, <3>2 DEF TableTypes
      <4> QED BY <1>4, <4>1 DEF Subscribed
    <3> QED BY <3>1, <3>2
  <2>3. \A g \in Flows : g # f /\ Subscribed(g) => Subscribed(g)'
    BY <1>4, <2>1 DEF Subscribed
  <2>4. cur'[t] = f
    BY <1>4
  <2> QED BY <1>2, <1>3, <1>4, <2>2, <2>3, <2>4 DEF Subscribing
<1> QED BY <1>4, <1>5 DEF Stage

LEMMA TrackStage ==
  ASSUME TypeInv, NEW t \in Threads, Alone(t), Track(t)
  PROVE  Stage(t)'
<1>1. ThreadTypes
  BY TypeParts DEF TypeInv
<1>2. Subscribing(t)
  BY DEF Alone, Stage, Track
<1>3. /\ op[t] = "track" /\ op'[t] = "subscribe" /\ UNCHANGED <<conf, list, subs>>
      /\ todo'[t] = todo[t] \ {cur[t]} /\ old'[t] = old[t] \ {cur[t]}
  BY <1>1 DEF Track, Goto, ThreadTypes
<1>4. Subscribed(cur[t])
  BY <1>2, <1>3 DEF Subscribing
<1>5. Subscribing(t)'
  BY <1>2, <1>3, <1>4 DEF Subscribing, Subscribed
<1> QED BY <1>3, <1>5 DEF Stage

LEMMA UntrackStage ==
  ASSUME TypeInv, HeldInv, NEW t \in Threads, Alone(t), Untrack(t)
  PROVE  Stage(t)'
<1>1. ThreadTypes
  BY TypeParts DEF TypeInv
<1>2. PICK f \in Flows :
           /\ f \in todo[t] \cup old[t] /\ list[t][f].topic = NoNode
           /\ op[t] = "subscribe"
           /\ todo' = [todo EXCEPT ![t] = @ \ {f}] /\ old' = [old EXCEPT ![t] = @ \ {f}]
           /\ \/ /\ f \in tracked /\ tracked' = tracked \ {f}
                 /\ cur' = [cur EXCEPT ![t] = f] /\ op' = [op EXCEPT ![t] = "unsubscribe"]
              \/ f \notin tracked /\ UNCHANGED <<tracked, cur, op>>
           /\ UNCHANGED <<disk, watcher, conf, subs, compiled, mqtt, status, list, history, spent>>
  BY UntrackFacts
<1>3. Subscribing(t)
  BY <1>2 DEF Alone, Stage
<1>4. /\ todo'[t] = todo[t] \ {f} /\ old'[t] = old[t] \ {f}
      /\ \/ op'[t] = "unsubscribe" /\ cur'[t] = f
         \/ op'[t] = "subscribe" /\ f \notin tracked
  BY <1>1, <1>2 DEF ThreadTypes
<1>5. f \notin tracked => Subscribed(f)
  <2>1. f \notin tracked => subs[f] = {}
    BY <1>2, UntrackedIsFree
  <2> QED BY <1>2, <1>3, <2>1 DEF Subscribing, Subscribed
<1>6. Subscribing(t)'
  <2>1. UNCHANGED <<conf, list, subs>>
    BY <1>2
  <2>2. \A g \in Flows : Subscribed(g)' <=> Subscribed(g)
    BY <2>1 DEF Subscribed
  <2> QED BY <1>2, <1>3, <1>4, <1>5, <2>1, <2>2 DEF Subscribing
<1> QED BY <1>4, <1>6 DEF Stage

LEMMA UnsubscribeStage ==
  ASSUME TypeInv, NEW t \in Threads, Alone(t), Unsubscribe(t)
  PROVE  Stage(t)'
<1>1. ThreadTypes /\ TableTypes
  BY TypeParts DEF TypeInv
<1>2. Subscribing(t)
  BY DEF Alone, Stage, Unsubscribe
<1>3. /\ op[t] = "unsubscribe" /\ op'[t] = "subscribe" /\ UNCHANGED <<conf, list, todo, old>>
      /\ subs' = [subs EXCEPT ![cur[t]] = {}]
  BY <1>1 DEF Unsubscribe, Goto, ThreadTypes
<1>4. conf[cur[t]].topic = NoNode /\ cur[t] \in Flows
  BY <1>2, <1>3 DEF TypeInv, LocalInv, Subscribing
<1>5. Subscribing(t)'
  <2>1. subs'[cur[t]] = {}
    BY <1>1, <1>3, <1>4 DEF TableTypes
  <2>2. \A g \in Flows : g = cur[t] => Subscribed(g)'
    BY <1>3, <1>4, <2>1 DEF Subscribed, NoNode
  <2>3. \A g \in Flows : g # cur[t] /\ Subscribed(g) => Subscribed(g)'
    BY <1>1, <1>3 DEF Subscribed, TableTypes
  <2> QED BY <1>2, <1>3, <2>2, <2>3 DEF Subscribing
<1> QED BY <1>3, <1>5 DEF Stage

LEMMA CompileStage ==
  ASSUME TypeInv, NEW t \in Threads, Alone(t), Wipe(t) \/ CompileNext(t)
  PROVE  Stage(t)'
<1>1. ThreadTypes /\ TableTypes
  BY TypeParts DEF TypeInv
<1>2. CASE Wipe(t)
  <2>1. /\ op[t] = "subscribe" /\ todo[t] = {} /\ old[t] = {} /\ op'[t] = "compile"
        /\ list'[t] = conf /\ todo'[t] = Enabled(conf)
        /\ compiled' = [f \in Flows |-> None] /\ UNCHANGED <<conf, subs>>
    BY <1>1, <1>2 DEF Wipe, Goto, ThreadTypes, routes
  <2>2. \A f \in Flows : Subscribed(f)
    BY <2>1 DEF Alone, Stage, Subscribing
  <2>3. \A f \in Flows : f \notin todo'[t] => Target(f)' = None
    BY <2>1 DEF Target, Enabled
  <2>4. Compiling(t)'
    BY <2>1, <2>2, <2>3 DEF Compiling, Subscribed
  <2> QED BY <2>1, <2>4 DEF Stage
<1>3. CASE CompileNext(t)
  <2> DEFINE f == First(todo[t])
  <2>1. f \in todo[t] /\ f \in Flows
    BY <1>1, <1>3, FirstLeft DEF CompileNext
  <2>2. Compiling(t) /\ f \in Enabled(list[t])
    BY <1>3, <2>1 DEF Alone, Stage, CompileNext, TypeInv, LocalInv
  <2>3. /\ op[t] = "compile" /\ op' = op /\ todo'[t] = todo[t] \ {f}
        /\ compiled' = IF conf[f].is = "broken" THEN compiled ELSE [compiled EXCEPT ![f] = conf[f]]
        /\ UNCHANGED <<conf, list, subs>>
    BY <1>1, <1>3, <2>2 DEF CompileNext, ThreadTypes, routes, Compiling
  <2> HIDE DEF f
  <2>4. \A g \in Flows : compiled'[g] = IF g \in todo'[t] THEN None ELSE Target(g)
    <3>1. list[t] = conf /\ \A g \in Flows : compiled[g] = IF g \in todo[t] THEN None ELSE Target(g)
      BY <2>2 DEF Compiling
    <3>2. compiled'[f] = Target(f)
      <4>1. conf[f].is \in {"sound", "broken"} /\ compiled[f] = None
        BY <2>1, <2>2, <3>1 DEF Enabled
      <4> QED BY <1>1, <2>1, <2>3, <4>1 DEF Target, TableTypes
    <3>3. \A g \in Flows : g # f => compiled'[g] = compiled[g]
      BY <1>1, <2>3 DEF TableTypes
    <3> QED BY <2>3, <3>1, <3>2, <3>3
  <2>5. Compiling(t)'
    BY <2>2, <2>3, <2>4 DEF Compiling, Subscribed, Target
  <2> QED BY <2>3, <2>5 DEF Stage
<1> QED BY <1>2, <1>3

LEMMA PublishStage ==
  ASSUME TypeInv, NEW t \in Threads, Alone(t), Report(t) \/ PublishNext(t) \/ Finish(t)
  PROVE  Stage(t)'
<1>1. ThreadTypes /\ TableTypes
  BY TypeParts DEF TypeInv
<1>2. CASE Report(t)
  <2>1. /\ op[t] = "compile" /\ todo[t] = {} /\ op'[t] = "publish"
        /\ list'[t] = conf /\ todo'[t] = Present(conf) /\ UNCHANGED <<conf, subs, compiled>>
    BY <1>1, <1>2 DEF Report, Goto, ThreadTypes, routes
  <2>2. Compiling(t)
    BY <2>1 DEF Alone, Stage
  <2>3. Publishing(t)'
    BY <2>1, <2>2 DEF Compiling, Publishing, Subscribed, Target
  <2> QED BY <2>1, <2>3 DEF Stage
<1>3. CASE PublishNext(t)
  <2> DEFINE f == First(todo[t])
  <2>1. f \in todo[t] /\ f \in Flows
    BY <1>1, <1>3, FirstLeft DEF PublishNext
  <2>2. Publishing(t)
    BY <1>3 DEF Alone, Stage, PublishNext
  <2>3. /\ op[t] = "publish" /\ op' = op /\ todo'[t] = todo[t] \ {f}
        /\ \/ heard' = FALSE
           \/ /\ heard' = heard
              /\ status' = [status EXCEPT ![f] = [hash |-> conf[f], ok |-> compiled[f] # None]]
        /\ UNCHANGED <<conf, list, subs, compiled>>
    <3>1. list[t] = conf
      BY <2>2 DEF Publishing
    <3>2. heard \in BOOLEAN
      BY TypeParts DEF TypeInv, OtherTypes
    <3> QED BY <1>1, <1>3, <3>1, <3>2 DEF PublishNext, ThreadTypes, routes
  <2> HIDE DEF f
  <2>4. heard' => \A g \in Present(conf) \ todo'[t] : Reported(g)'
    <3> SUFFICES ASSUME heard', NEW g \in Present(conf) \ todo'[t] PROVE Reported(g)'
      OBVIOUS
    <3>1. heard /\ status' = [status EXCEPT ![f] = [hash |-> conf[f], ok |-> compiled[f] # None]]
      BY <2>3
    <3>2. g \in Flows
      BY DEF Present
    <3>3. CASE g = f
      BY <1>1, <2>1, <2>3, <3>1, <3>3 DEF Reported, TableTypes
    <3>4. CASE g # f
      <4>1. Reported(g)
        BY <2>2, <2>3, <3>1, <3>4 DEF Publishing
      <4>2. status'[g] = status[g]
        BY <1>1, <3>1, <3>2, <3>4 DEF TableTypes
      <4> QED BY <2>3, <4>1, <4>2 DEF Reported
    <3> QED BY <3>3, <3>4
  <2>5. Publishing(t)'
    BY <2>2, <2>3, <2>4 DEF Publishing, Subscribed, Target
  <2> QED BY <2>3, <2>5 DEF Stage
<1>4. CASE Finish(t)
  <2>1. /\ op[t] = "publish" /\ todo[t] = {} /\ op'[t] = "idle"
        /\ UNCHANGED <<conf, subs, compiled, status, heard>>
    BY <1>1, <1>4 DEF Finish, Goto, ThreadTypes, routes, history
  <2>2. Publishing(t)
    BY <2>1 DEF Alone, Stage
  <2>3. Settled'
    BY <2>1, <2>2 DEF Publishing, Settled, Subscribed, Target, Reported
  <2> QED BY <2>1, <2>3 DEF Stage
<1> QED BY <1>2, <1>3, <1>4

LEMMA ThreadPhase ==
  ASSUME TypeInv, HeldInv, Phase, NEW s \in Threads, ThreadStep(s)
  PROVE  Phase'
<1> SUFFICES ASSUME ~mixed' PROVE \E t \in Threads : Alone(t)'
  BY DEF Phase
<1>1. ThreadTypes
  BY TypeParts DEF TypeInv
<1>2. mixed' = mixed /\ op[s] # "idle"
  BY DEF ThreadStep, Read, Load, Refresh, SubscribeNext, Track, Untrack, Unsubscribe, Wipe, CompileNext,
         Report, PublishNext, Finish, history
<1>3. Alone(s)
  BY <1>2 DEF Phase, Alone
<1>4. \A t \in Threads \ {s} : op'[t] = "idle"
  <2>1. op' = op \/ \E o : op' = [op EXCEPT ![s] = o]
    BY DEF ThreadStep, Read, Load, Refresh, SubscribeNext, Track, Untrack, Unsubscribe, Wipe,
           CompileNext, Report, PublishNext, Finish, Goto
  <2> QED BY <1>1, <1>3, <2>1 DEF Alone, ThreadTypes
<1>5. Stage(s)'
  <2>1. CASE Read(s) \/ Load(s)
    <3>1. op'[s] \in {"load", "refresh"}
      BY <1>1, <2>1 DEF Read, Load, Goto, ThreadTypes
    <3> QED BY <3>1 DEF Stage
  <2> QED
    BY <1>3, <2>1, RefreshStage, SubscribeStage, TrackStage, UntrackStage, UnsubscribeStage,
       CompileStage, PublishStage DEF ThreadStep
<1> QED BY <1>4, <1>5 DEF Alone

LEMMA BeginPhase ==
  ASSUME TypeInv, Begin
  PROVE  Phase'
<1> SUFFICES ASSUME ~mixed' PROVE \E t \in Threads : Alone(t)'
  BY DEF Phase
<1>1. ThreadTypes
  BY TypeParts DEF TypeInv
<1> DEFINE t == CHOOSE x \in Threads \ Busy : TRUE
<1>2. Threads \ Busy # {} /\ Goto(t, "read") /\ Idle
  BY DEF Begin, Busy
<1>3. t \in Threads
  BY <1>2
<1> HIDE DEF t
<1>4. op'[t] = "read" /\ \A s \in Threads \ {t} : op'[s] = "idle"
  BY <1>1, <1>2, <1>3 DEF Goto, Idle, Busy, ThreadTypes
<1> QED BY <1>3, <1>4 DEF Alone, Stage

LEMMA BootPhase == Init => Phase
BY FlowDeployAssumption DEF Init, Booting, Phase, Alone, Stage

LEMMA RebootPhase == Reboot => Phase'
BY FlowDeployAssumption DEF Reboot, Booting, Phase, Alone, Stage

LEMMA StepPhase == TypeInv /\ HeldInv /\ Phase /\ [Next]_vars => Phase'
<1> SUFFICES ASSUME TypeInv, HeldInv, Phase, [Next]_vars PROVE Phase'
  OBVIOUS
<1>1. CASE UNCHANGED vars
  BY <1>1, PhaseUntouched DEF vars, routes, history
<1>2. CASE \E t \in Threads : ThreadStep(t)
  BY <1>2, ThreadPhase
<1>3. CASE Fire \/ Command
  BY <1>3, BeginPhase DEF Fire, Command
<1>4. CASE FireOther \/ EditBegins \/ EditEnds \/ EditOther \/ Connect \/ Resubscribe \/ Disconnect
  BY <1>4, PhaseUntouched
  DEF FireOther, EditBegins, EditEnds, EditOther, Connect, Resubscribe, Disconnect, routes, history
<1>5. CASE Reboot
  BY <1>5, RebootPhase
<1> QED BY <1>1, <1>2, <1>3, <1>4, <1>5 DEF Next, Timer

IInv == TypeInv /\ HeldInv /\ BrokerInv /\ Phase

LEMMA Invariance == Spec => []IInv
<1>1. Init => BrokerInv
  BY DEF Init, BrokerInv
<1>2. Init => IInv
  BY <1>1, InitTyped, InitHeld, BootPhase DEF IInv
<1>3. IInv /\ [Next]_vars => IInv'
  BY StepTyped, StepHeld, StepBroker, StepPhase DEF IInv
<1> QED BY <1>2, <1>3, PTL DEF Spec

\* What is settled after a reload that ran alone.
LEMMA IdleIsSettled ==
  ASSUME Phase, Idle, ~mixed
  PROVE  Settled
BY DEF Phase, Alone, Stage, Idle, Busy

\* After a reload that ran alone, messages on a topic start every enabled flow
\* that compiles and names it, and no flow that is disabled, does not compile or
\* has no mqtt-in node, whatever overlapping reloads, lost connections and
\* restarts came before.
THEOREM ReloadedFlowsRespond == Spec => []Responds
<1>1. IInv => Responds
  <2> SUFFICES ASSUME IInv, Idle, ~mixed, link = "up", NEW f \in Flows, NEW topic \in Topics
               PROVE  /\ conf[f] = [is |-> "sound", topic |-> topic] /\ topic \notin Internal
                           => f \in StartedBy(topic)
                      /\ f \in StartedBy(topic) => conf[f].is = "sound" /\ conf[f].topic # NoNode
    BY DEF Responds, Answering
  <2>1. Subscribed(f) /\ compiled[f] = Target(f) /\ subs[f] \subseteq broker
    BY IdleIsSettled DEF IInv, Settled, BrokerInv
  <2>2. ASSUME conf[f] = [is |-> "sound", topic |-> topic], topic \notin Internal
        PROVE  f \in StartedBy(topic)
    <3>1. conf[f].is = "sound" /\ conf[f].topic = topic
      BY <2>2
    <3>2. topic \notin {NoNode, Blank}
      BY FlowDeployAssumption
    <3>3. topic \in subs[f]
      BY <2>1, <3>1, <3>2 DEF Subscribed
    <3>4. compiled[f].is = "sound"
      BY <2>1, <3>1 DEF Target
    <3>5. compiled[f] # None
      BY <3>4 DEF None
    <3> QED BY <2>1, <2>2, <3>3, <3>5 DEF StartedBy
  <2>3. ASSUME f \in StartedBy(topic) PROVE conf[f].is = "sound" /\ conf[f].topic # NoNode
    <3>1. topic \in subs[f] /\ compiled[f] # None
      BY <2>3 DEF StartedBy
    <3> QED BY <2>1, <3>1 DEF Subscribed, Target
  <2> QED BY <2>2, <2>3
<1> QED BY <1>1, Invariance, PTL

\* After a reload that ran alone and was connected throughout, the retained
\* status of each flow says whether it is compiled, and from which content.
THEOREM StatusIsTruthful == Spec => []StatusTruthful
<1>1. IInv => StatusTruthful
  <2> SUFFICES ASSUME IInv, Idle, ~mixed, heard, NEW f \in Present(conf)
               PROVE  /\ status[f] = [hash |-> conf[f], ok |-> compiled[f] # None]
                      /\ status[f].ok => compiled[f] = status[f].hash
    BY DEF StatusTruthful
  <2>1. Reported(f) /\ f \in Flows /\ compiled[f] = Target(f)
    BY IdleIsSettled DEF IInv, Settled, Present
  <2>2. status[f] = [hash |-> conf[f], ok |-> compiled[f] # None]
    BY <2>1 DEF Reported
  <2>3. status[f].hash = conf[f] /\ status[f].ok = (compiled[f] # None)
    BY <2>2
  <2>4. compiled[f] # None => compiled[f] = conf[f]
    BY <2>1 DEF Target
  <2> QED BY <2>2, <2>3, <2>4
<1> QED BY <1>1, Invariance, PTL
=============================================================================
