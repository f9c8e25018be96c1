------------------------------ MODULE TagSync ------------------------------
(***************************************************************************)
(* How the connectivity service keeps what it polls in step with the       *)
(* database: one connection, its drivers and its tags, as                  *)
(* connectivity/src/index-multirate.mjs and drivers/s7.mjs treat them, and *)
(* the requests of core/src/routes/connectivity.js that change the rows    *)
(* and publish the changes.                                                *)
(*                                                                         *)
(* Three activities of one process interleave at their awaits: the loop    *)
(* over configuration messages, the loop over tag changes and the periodic *)
(* reconciliation.  Each reads the tags from the database and applies what *)
(* it has read to a driver some time later.  NATS keeps the order of each  *)
(* subject and nothing between the two.  Spec, Init and others have names  *)
(* of their own here: PollProofs holds the theorems of PollEngine too.     *)
(***************************************************************************)
EXTENDS Naturals, Sequences, FiniteSets

CONSTANTS Tags,         \* tags of the connection
          Drivers,      \* bound: drivers created
          MaxRequests,  \* bound: requests that save, touch or regroup tags
          MaxRemovals,  \* bound: tags unsubscribed
          MaxSwitches,  \* bound: the connection enabled, disabled or deleted
          MaxFaults     \* bound: publications skipped because NATS is away,
                        \* failing connects and queries

ASSUME TagSyncAssumption ==
  /\ Tags \subseteq Nat \ {0} /\ Drivers \subseteq Nat \ {0}
  /\ IsFiniteSet(Tags) /\ IsFiniteSet(Drivers)
  /\ {MaxRequests, MaxRemovals, MaxSwitches, MaxFaults} \subseteq Nat

Nil == 0
Reload == 0             \* a tag change that makes the service read all tags

VARIABLES
  db,          \* tags with is_subscribed
  cached,      \* those of a poll group that is in pollGroupsCache, which holds
               \* the groups that were active when the service started
  enabled,     \* connections.enabled, FALSE too when deleted_at is set
  deleted,     \* connections.deleted_at is set
  request,     \* a request between its read of the connection and its
               \* publications: what it does, the tag it saves and whether
               \* the connection was enabled
  cfgQ, tagQ,  \* messages on their way: "on" or "off"; a removed tag or Reload
  subscribed,  \* the service has subscribed to both
  driver,      \* connections.get(id): a driver or Nil
  made,        \* drivers created
  tagMap,      \* tagMap[d]
  group,       \* group[d]: tagIds of its poll groups
  timer,       \* timer[d]: its poll timers run
  cfg, tag,    \* the two loops: where they stand, their driver and its rows
  sweep,       \* the reconciliation: where it stands and its rows
  revived,     \* history: drivers dropped while the tag loop had them in hand
  late,        \* history: the last message says "on" of a connection that is off
               \* by then, or the other way round
  behind,      \* history: a message never reached the service, or the sweep
               \* took a tag away that was subscribed
  requests, removals, switches, lost, failures

rows == <<db, cached, enabled, deleted>>
queues == <<cfgQ, tagQ>>
state == <<tagMap, group, timer>>
loops == <<cfg, tag, sweep>>
past == <<revived, late, behind>>
counts == <<requests, removals, switches, lost, failures>>
syncVars == <<rows, request, queues, subscribed, driver, made, state, loops, past, counts>>

NoRequest == [does |-> "nothing", tag |-> Nil, on |-> FALSE]
Rest == [at |-> "idle", driver |-> Nil, rows |-> {}, cached |-> {}]
Loop(places) ==
  [at : places, driver : Drivers \cup {Nil}, rows : SUBSET Tags, cached : SUBSET Tags]

SyncTypeOK ==
  /\ db \in SUBSET Tags /\ cached \in SUBSET db /\ {enabled, deleted, subscribed, late, behind} \subseteq BOOLEAN
  /\ request \in [does : {"nothing", "save", "touch", "regroup"}, tag : Tags \cup {Nil}, on : BOOLEAN]
  /\ cfgQ \in Seq({"on", "off"}) /\ tagQ \in Seq(Tags \cup {Reload})
  /\ driver \in Drivers \cup {Nil} /\ made \in Drivers \cup {Nil}
  /\ {tagMap, group} \subseteq [Drivers -> SUBSET Tags]
  /\ timer \in [Drivers -> BOOLEAN]
  /\ cfg \in Loop({"boot", "idle", "connecting", "query", "rows"})
  /\ tag \in Loop({"idle", "query", "rows"})
  /\ sweep \in Loop({"idle", "rows"})
  /\ revived \in SUBSET Drivers
  /\ requests \in 0 .. MaxRequests /\ removals \in 0 .. MaxRemovals
  /\ switches \in 0 .. MaxSwitches /\ lost \in 0 .. MaxFaults
  /\ failures \in 0 .. MaxFaults

SyncInit ==
  /\ db \in SUBSET Tags /\ cached \in SUBSET db
  /\ enabled \in BOOLEAN /\ deleted = FALSE
  /\ request = NoRequest
  /\ cfgQ = <<>> /\ tagQ = <<>> /\ subscribed = FALSE
  /\ driver = Nil /\ made = Nil
  /\ tagMap = [d \in Drivers |-> {}] /\ group = tagMap
  /\ timer = [d \in Drivers |-> FALSE]
  /\ cfg = [Rest EXCEPT !.at = "boot"] /\ tag = Rest /\ sweep = Rest
  /\ revived = {} /\ late = FALSE /\ behind = FALSE
  /\ requests = 0 /\ removals = 0 /\ switches = 0 /\ lost = 0 /\ failures = 0

Polled(d) == IF timer[d] THEN group[d] \cap tagMap[d] ELSE {}

-----------------------------------------------------------------------------
(* The core service: rows and messages.                                    *)

\* A message nobody is subscribed to yet is gone; one may also be skipped
\* because the core has lost its connection to NATS.
Publish(toCfg, toTag) ==
  \/ /\ subscribed
     /\ cfgQ' = cfgQ \o toCfg /\ tagQ' = tagQ \o toTag
     /\ UNCHANGED <<behind, lost>>
  \/ /\ ~subscribed
     /\ behind' = TRUE /\ UNCHANGED <<queues, lost>>
  \/ /\ lost + failures < MaxFaults /\ lost' = lost + 1
     /\ behind' = TRUE /\ UNCHANGED queues

\* POST /tags/save and POST /tags/remove, which leaves the rows read here as
\* they are: they read the connection, and publish what they have read much
\* later.
BeginRequest(does, t) ==
  /\ requests < MaxRequests /\ requests' = requests + 1
  /\ request.does = "nothing" /\ ~deleted
  /\ request' = [does |-> does, tag |-> t, on |-> enabled]
  /\ UNCHANGED <<rows, queues, subscribed, driver, made, state, loops, past, removals, switches, lost, failures>>

\* A tag comes into a poll group, of those in the cache or another one.
Regrouped(t) == cached' \in {cached \cup {t}, cached \ {t}}

\* PUT /tags/poll-group, into the cached groups or out of them: the rows come
\* first.  PATCH /tags/poll-groups and the
\* reassignment of a deleted group's tags publish nothing: what is lost below.
BeginRegroup(t) ==
  /\ requests < MaxRequests /\ requests' = requests + 1
  /\ request.does = "nothing" /\ ~deleted
  /\ t \in db /\ Regrouped(t) /\ cached' # cached
  /\ request' = [does |-> "regroup", tag |-> Nil, on |-> enabled]
  /\ UNCHANGED <<db, enabled, deleted, queues, subscribed, driver, made, state, loops, past, removals, switches, lost, failures>>

\* Saving a tag subscribes it and enables the connection if it was not.
EndRequest ==
  LET saves == request.does = "save"
      on == request.on \/ saves
  IN  /\ request.does # "nothing" /\ request' = NoRequest
      /\ db' = IF saves THEN db \cup {request.tag} ELSE db
      /\ IF saves THEN Regrouped(request.tag) ELSE UNCHANGED cached
      /\ enabled' = (enabled \/ (saves /\ ~request.on /\ ~deleted))
      /\ Publish(<<IF on THEN "on" ELSE "off">>, IF request.does = "regroup" THEN <<>> ELSE <<Reload>>)
      /\ late' = (on # enabled')
      /\ UNCHANGED <<deleted, subscribed, driver, made, state, loops, revived, requests, removals, switches, failures>>

\* A connection is started or stopped: the row, then POST /config.
Switch(on) ==
  /\ switches < MaxSwitches /\ switches' = switches + 1
  /\ ~deleted /\ enabled # on /\ enabled' = on
  /\ Publish(<<IF on THEN "on" ELSE "off">>, <<>>)
  /\ late' = FALSE
  /\ UNCHANGED <<db, cached, deleted, request, subscribed, driver, made, state, loops, revived, requests, removals, failures>>

\* POST /connections with op delete: the tags of the connection stay
\* subscribed; the tag change follows when the history has been purged.
DeleteConnection ==
  /\ switches < MaxSwitches /\ switches' = switches + 1
  /\ ~deleted /\ deleted' = TRUE /\ enabled' = FALSE
  /\ Publish(<<"off">>, <<Reload>>)
  /\ late' = FALSE
  /\ UNCHANGED <<db, cached, request, subscribed, driver, made, state, loops, revived, requests, removals, failures>>

\* The deletion job unsubscribes a tag; the message may be lost, and the
\* reconciliation has to make up for it.
Unsubscribe(t) ==
  /\ removals < MaxRemovals /\ removals' = removals + 1
  /\ t \in db /\ db' = db \ {t} /\ cached' = cached \ {t}
  /\ tagQ' = IF subscribed THEN Append(tagQ, t) ELSE tagQ
  /\ UNCHANGED <<enabled, deleted, request, cfgQ, subscribed, driver, made, state, loops, past, requests, switches, lost, failures>>

UnsubscribeUnheard(t) ==
  /\ removals < MaxRemovals /\ removals' = removals + 1
  /\ t \in db /\ db' = db \ {t} /\ cached' = cached \ {t}
  /\ lost + failures < MaxFaults /\ lost' = lost + 1
  /\ UNCHANGED <<enabled, deleted, request, queues, subscribed, driver, made, state, loops, past, requests, switches, failures>>

-----------------------------------------------------------------------------
(* S7Driver.                                                               *)

\* removeTag.
RemoveTags(d, T) ==
  /\ tagMap' = [tagMap EXCEPT ![d] = @ \ T]
  /\ group' = [group EXCEPT ![d] = @ \ T]

\* Mutant: updateTagSubscriptions comes before the tag map is replaced.
ApplyFirst(d, T, C) ==
  /\ tagMap' = [tagMap EXCEPT ![d] = T]
  /\ group' = [group EXCEPT ![d] = C \cap tagMap[d]]
  /\ timer' = [timer EXCEPT ![d] = C \cap tagMap[d] # {}]

\* The tag map and updateTagSubscriptions: timers are stopped, the groups
\* filled anew, and started where there is something to poll.  Of the tags T
\* those that are not in C have a poll group the driver does not know: it
\* skips them.
Apply(d, T, C) ==
  /\ tagMap' = [tagMap EXCEPT ![d] = T]
  /\ group' = [group EXCEPT ![d] = C]
  /\ timer' = [timer EXCEPT ![d] = C # {}]

\* disconnect.
Disconnect(d) == timer' = [timer EXCEPT ![d] = FALSE]

-----------------------------------------------------------------------------
(* handleConfigUpdate, one message at a time.                              *)

\* Mutant: the connection is taken out of the map and its driver forgotten.
DropUnstopped ==
  /\ driver' = Nil
  /\ revived' = IF tag.at # "idle" THEN revived \cup {tag.driver} ELSE revived
  /\ UNCHANGED timer

\* A connection that is deleted or disabled: its driver is disconnected and
\* taken out of the map.  The tag loop may have it in hand.
Drop ==
  /\ Disconnect(driver) /\ driver' = Nil
  /\ revived' = IF tag.at # "idle" THEN revived \cup {tag.driver} ELSE revived

Off ==
  /\ cfg.at = "idle" /\ cfgQ # <<>> /\ Head(cfgQ) = "off"
  /\ cfgQ' = Tail(cfgQ)
  /\ IF driver = Nil THEN UNCHANGED <<driver, timer, revived>> ELSE Drop
  /\ UNCHANGED <<rows, request, tagQ, subscribed, made, tagMap, group, loops, late, behind, counts>>

\* A new driver is in the map before it is connected.
Register ==
  /\ \E d \in Drivers : d > made /\ \A e \in Drivers : e > made => d <= e
  /\ LET d == CHOOSE d \in Drivers : d > made /\ \A e \in Drivers : e > made => d <= e IN
     /\ driver' = d /\ made' = d
     /\ cfg' = [at |-> "connecting", driver |-> d, rows |-> {}, cached |-> {}]

\* handleS7ConfigUpdate; an existing driver gets its poll groups anew.
On ==
  /\ cfg.at = "idle" /\ cfgQ # <<>> /\ Head(cfgQ) = "on"
  /\ cfgQ' = Tail(cfgQ)
  /\ IF driver = Nil THEN Register
     ELSE /\ cfg' = [at |-> "query", driver |-> driver, rows |-> {}, cached |-> {}]
          /\ UNCHANGED <<driver, made>>
  /\ UNCHANGED <<rows, request, tagQ, subscribed, state, tag, sweep, past, counts>>

Connected ==
  /\ cfg.at = "connecting"
  /\ cfg' = [cfg EXCEPT !.at = "query"]
  /\ UNCHANGED <<rows, request, queues, subscribed, driver, made, state, tag, sweep, past, counts>>

\* The driver stays in the map, with the tags others have given it.
ConnectFails ==
  /\ cfg.at = "connecting"
  /\ lost + failures < MaxFaults /\ failures' = failures + 1
  /\ cfg' = Rest
  /\ UNCHANGED <<rows, request, queues, subscribed, driver, made, state, tag, sweep, past, requests, removals, switches, lost>>

\* getTagMetadataByConnection.
CfgQuery ==
  /\ cfg.at = "query"
  /\ cfg' = [cfg EXCEPT !.at = "rows", !.rows = db, !.cached = cached]
  /\ UNCHANGED <<rows, request, queues, subscribed, driver, made, state, tag, sweep, past, counts>>

\* The message is done with; the driver polls what it polled.
CfgQueryFails ==
  /\ cfg.at = "query"
  /\ lost + failures < MaxFaults /\ failures' = failures + 1
  /\ cfg' = Rest
  /\ UNCHANGED <<rows, request, queues, subscribed, driver, made, state, tag, sweep, past, requests, removals, switches, lost>>

CfgApply ==
  /\ cfg.at = "rows"
  /\ Apply(cfg.driver, cfg.rows, cfg.cached)
  /\ cfg' = Rest
  /\ UNCHANGED <<rows, request, queues, subscribed, driver, made, tag, sweep, past, counts>>

\* loadEnabledConnections, then both subscriptions: what is published in
\* between is heard by nobody.
Boot ==
  /\ cfg.at = "boot"
  /\ IF enabled THEN Register ELSE cfg' = Rest /\ UNCHANGED <<driver, made>>
  /\ UNCHANGED <<rows, request, queues, subscribed, state, tag, sweep, past, counts>>

\* The query fails: no connection is loaded.
BootFails ==
  /\ cfg.at = "boot"
  /\ lost + failures < MaxFaults /\ failures' = failures + 1
  /\ cfg' = Rest
  /\ UNCHANGED <<rows, request, queues, subscribed, driver, made, state, tag, sweep, past, requests, removals, switches, lost>>

Subscribe ==
  /\ ~subscribed /\ cfg.at = "idle"
  /\ subscribed' = TRUE
  /\ UNCHANGED <<rows, request, queues, driver, made, state, loops, past, counts>>

-----------------------------------------------------------------------------
(* handleTagSubscriptionChange, one message at a time.                     *)

NextChange ==
  /\ tag.at = "idle" /\ tagQ # <<>>
  /\ tagQ' = Tail(tagQ)
  /\ IF driver = Nil THEN UNCHANGED <<tagMap, group, tag>>
     ELSE \/ /\ Head(tagQ) = Reload
             /\ tag' = [at |-> "query", driver |-> driver, rows |-> {}, cached |-> {}]
             /\ UNCHANGED <<tagMap, group>>
          \/ /\ Head(tagQ) # Reload
             /\ RemoveTags(driver, {Head(tagQ)})
             /\ UNCHANGED tag
  /\ UNCHANGED <<rows, request, cfgQ, subscribed, driver, made, timer, cfg, sweep, past, counts>>

TagQuery ==
  /\ tag.at = "query"
  /\ tag' = [tag EXCEPT !.at = "rows", !.rows = db, !.cached = cached]
  /\ UNCHANGED <<rows, request, queues, subscribed, driver, made, state, cfg, sweep, past, counts>>

\* The change is lost.
TagQueryFails ==
  /\ tag.at = "query"
  /\ lost + failures < MaxFaults /\ failures' = failures + 1
  /\ tag' = Rest
  /\ UNCHANGED <<rows, request, queues, subscribed, driver, made, state, cfg, sweep, past, requests, removals, switches, lost>>

\* The driver the message found in the map gets the rows, even if it has
\* been dropped from the map meanwhile.
TagApply ==
  /\ tag.at = "rows"
  /\ Apply(tag.driver, tag.rows, tag.cached)
  /\ tag' = Rest
  /\ UNCHANGED <<rows, request, queues, subscribed, driver, made, cfg, sweep, past, counts>>

-----------------------------------------------------------------------------
(* The periodic reconciliation: tags of the driver that were not among the *)
(* subscribed ones when the database was asked are removed from it.  A     *)
(* query that fails is asked again in the next round.                      *)

SweepQuery ==
  /\ subscribed /\ sweep.at = "idle"
  /\ sweep' = [sweep EXCEPT !.at = "rows", !.rows = db]
  /\ UNCHANGED <<rows, request, queues, subscribed, driver, made, state, cfg, tag, past, counts>>

\* Mutant: the driver has no removeTag.
SweepNothing ==
  /\ sweep.at = "rows" /\ sweep' = Rest
  /\ UNCHANGED <<rows, request, queues, subscribed, driver, made, state, cfg, tag, past, counts>>

Sweep ==
  LET gone == IF driver = Nil THEN {} ELSE tagMap[driver] \ sweep.rows IN
  /\ sweep.at = "rows" /\ sweep' = Rest
  /\ IF driver = Nil THEN UNCHANGED <<tagMap, group>> ELSE RemoveTags(driver, gone)
  /\ behind' = (behind \/ gone \cap db # {})
  /\ UNCHANGED <<rows, request, queues, subscribed, driver, made, timer, cfg, tag, revived, late, counts>>

-----------------------------------------------------------------------------
ConfigLoop ==
  \/ Boot \/ BootFails \/ Subscribe \/ Off \/ On
  \/ Connected \/ ConnectFails \/ CfgQuery \/ CfgQueryFails \/ CfgApply
TagLoop == NextChange \/ TagQuery \/ TagQueryFails \/ TagApply
Reconcile == SweepQuery \/ Sweep

SyncNext ==
  \/ ConfigLoop \/ TagLoop \/ Reconcile
  \/ EndRequest \/ DeleteConnection
  \/ \E on \in BOOLEAN : Switch(on)
  \/ BeginRequest("touch", Nil)
  \/ \E t \in Tags : BeginRequest("save", t) \/ BeginRegroup(t) \/ Unsubscribe(t) \/ UnsubscribeUnheard(t)

SyncSpec == SyncInit /\ [][SyncNext]_syncVars

\* The three activities go on: queries are answered and a connect ends, one
\* way or the other.  Requests end; none has to come.
SyncFairness ==
  /\ WF_syncVars(ConfigLoop)
  /\ WF_syncVars(TagLoop)
  /\ WF_syncVars(Reconcile)
  /\ WF_syncVars(EndRequest)

FairSyncSpec == SyncSpec /\ SyncFairness

-----------------------------------------------------------------------------
(* Properties.                                                             *)

\* A driver that is not in the map polls only if the tag loop had it in hand
\* when it was dropped: disconnect alone silences every other one.
DroppedIsQuiet ==
  \A d \in Drivers : Polled(d) # {} => d = driver \/ d \in revived

\* What is unsubscribed is in the end not polled, although messages are lost
\* and both loops apply what they read before the change.  On a connection that
\* is deleted or disabled nothing is: unless a request published its old state
\* afterwards, the tag loop revived the driver or the change never reached the
\* service.
UnwantedEnds ==
  /\ <>[](driver # Nil => Polled(driver) \subseteq db)
  /\ <>[](behind \/ late \/ revived # {} \/ enabled \/ \A d \in Drivers : Polled(d) = {})

\* What is subscribed in a poll group that the service had read at its start is
\* in the end polled, on an enabled connection: unless a change never reached
\* the service, a connect or a query failed, or the reconciliation removed a
\* tag that was subscribed after it had asked the database.  Without the poll
\* group a tag is in the tag map and never polled.
SubscribedStarts ==
  <>[](\/ behind \/ late \/ failures # 0
       \/ enabled => driver # Nil /\ cached \subseteq Polled(driver))
=============================================================================
