------------------------------ MODULE Ingestor ------------------------------
(***************************************************************************)
(* The ingestor process of ingestor/src/index.mjs in JetStream mode: a     *)
(* fetch loop that collects the points of telemetry messages in `acc` and  *)
(* the messages in `pend`, and flush(), which takes both over, COPYs the   *)
(* points into the database (row by row in a transaction if COPY fails)    *)
(* and then acknowledges the messages, or gives them back with nak().      *)
(*                                                                         *)
(* flush() is called by the loop, which awaits it, and by an interval,     *)
(* which does not; so any number of flushes can be under way.  The process *)
(* may die anywhere; the server redelivers what is not acknowledged.       *)
(*                                                                         *)
(* A message is delivered possibly several times; <<m, k>> is its k-th     *)
(* delivery, and stands in acc, pend and the flushes for its points.       *)
(***************************************************************************)
EXTENDS Naturals, FiniteSets

CONSTANTS Msgs,           \* messages published on df.telemetry.batch.v1
          Kinds,          \* what a message may be, see AllKinds
          BatchMax,       \* BATCH_MAX, in messages
          MaxDeliveries,  \* bound: deliveries of one message
          MaxErrors,      \* bound: database calls that fail, acks that are lost
          MaxCrashes,     \* bound: process deaths
          MaxSlow         \* bound: messages whose ack_wait ends while they are held

AllKinds == {"good",      \* points the database accepts
             "poison",    \* passes the schema, rejected by the database
             "invalid",   \* JSON that fails the schema: term()
             "garbled"}   \* not JSON: nak()

ASSUME IngestorAssumption ==
  /\ Kinds \subseteq AllKinds
  /\ BatchMax \in Nat /\ MaxDeliveries \in Nat
  /\ MaxErrors \in Nat /\ MaxCrashes \in Nat /\ MaxSlow \in Nat

Deliveries == Msgs \X (1 .. MaxDeliveries)

VARIABLES
  kind,       \* kind[m]
  srv,        \* srv[m]: the consumer's view of the message
  delivered,  \* how often it was delivered
  up,         \* the process runs
  acc, pend,  \* deliveries whose points, whose message the process collects
  flights,    \* the flushes under way
  copies,     \* copies[d]: how often delivery d was stored
  errors, crashes, slow

server  == <<kind, srv, delivered>>
memory  == <<up, acc, pend, flights>>
history == <<errors, crashes, slow>>
vars == <<server, memory, copies, history>>

Flight == [by : {"loop", "timer"}, at : {"connect", "copy", "insert", "ack", "nak"},
           rows : SUBSET Deliveries, msgs : SUBSET Deliveries]

TypeOK ==
  /\ kind \in [Msgs -> Kinds]
  /\ srv \in [Msgs -> {"new", "ready", "out", "acked", "termed"}]
  /\ delivered \in [Msgs -> 0 .. MaxDeliveries]
  /\ up \in BOOLEAN
  /\ acc \in SUBSET Deliveries
  /\ pend = acc                                     \* collected and flushed together
  /\ flights \in SUBSET Flight
  /\ \A f \in flights : f.msgs = f.rows
  /\ copies \in [Deliveries -> Nat]
  /\ errors \in 0 .. MaxErrors
  /\ crashes \in 0 .. MaxCrashes
  /\ slow \in 0 .. MaxSlow

Init ==
  /\ kind \in [Msgs -> Kinds]
  /\ srv = [m \in Msgs |-> "new"]
  /\ delivered = [m \in Msgs |-> 0]
  /\ up = TRUE
  /\ acc = {} /\ pend = {} /\ flights = {}
  /\ copies = [d \in Deliveries |-> 0]
  /\ errors = 0 /\ crashes = 0 /\ slow = 0

-----------------------------------------------------------------------------
(* JetStream, as the consumer is configured: explicit acks, ack_wait,      *)
(* unlimited deliveries.  An ack or nak of an earlier delivery counts.     *)

Messages(D) == {d[1] : d \in D}

Holds(m) == m \in Messages(acc \cup pend \cup UNION {f.rows \cup f.msgs : f \in flights})

Acked(M) == [m \in Msgs |-> IF m \in M /\ srv[m] \in {"ready", "out"} THEN "acked" ELSE srv[m]]

Nakked(M) == [m \in Msgs |-> IF m \in M /\ srv[m] = "out" THEN "ready" ELSE srv[m]]

Publish(m) ==
  /\ srv[m] = "new"
  /\ srv' = [srv EXCEPT ![m] = "ready"]
  /\ UNCHANGED <<kind, delivered, memory, copies, history>>

\* Mutant: max_deliver is 1.
ExpireFinally(m) ==
  /\ srv[m] = "out"
  /\ slow' = IF Holds(m) THEN slow + 1 ELSE slow
  /\ slow' <= MaxSlow
  /\ srv' = [srv EXCEPT ![m] = "termed"]
  /\ UNCHANGED <<kind, delivered, memory, copies, errors, crashes>>

\* ack_wait passes: counted only while the process still holds the message.
Expire(m) ==
  /\ srv[m] = "out"
  /\ slow' = IF Holds(m) THEN slow + 1 ELSE slow
  /\ slow' <= MaxSlow
  /\ srv' = [srv EXCEPT ![m] = "ready"]
  /\ UNCHANGED <<kind, delivered, memory, copies, errors, crashes>>

-----------------------------------------------------------------------------
(* The fetch loop and the interval.                                        *)

LoopBusy == \E f \in flights : f.by = "loop"

\* Mutant: the buffers are emptied only once a database client is there.
FlushKeeping(who, rows, msgs) ==
  /\ flights' = flights \cup {[by |-> who, at |-> "connect", rows |-> rows, msgs |-> msgs]}
  /\ acc' = rows /\ pend' = msgs

\* flush() up to its first await, with the points and messages it finds.
Flush(who, rows, msgs) ==
  /\ flights' = flights \cup {[by |-> who, at |-> "connect", rows |-> rows, msgs |-> msgs]}
  /\ acc' = {} /\ pend' = {}

\* maybeFlush() after new points: a full batch must be flushed, and the
\* batch may be old enough to be flushed anyway.
MaybeFlush(rows, msgs) ==
  \/ Flush("loop", rows, msgs)
  \/ Cardinality(rows) < BatchMax /\ acc' = rows /\ pend' = msgs /\ UNCHANGED flights

Fetch(m) ==
  /\ up /\ ~LoopBusy
  /\ srv[m] = "ready" /\ delivered[m] < MaxDeliveries
  /\ delivered' = [delivered EXCEPT ![m] = @ + 1]
  /\ UNCHANGED <<kind, up, copies, history>>

\* A message of the right shape is collected.
Collect(m) ==
  /\ Fetch(m)
  /\ kind[m] \in {"good", "poison"}
  /\ srv' = [srv EXCEPT ![m] = "out"]
  /\ LET d == <<m, delivered[m] + 1>> IN MaybeFlush(acc \cup {d}, pend \cup {d})

\* A schema violation ends the message; text that is not JSON is given back.
Reject(m) ==
  /\ Fetch(m)
  /\ \/ kind[m] = "invalid" /\ srv' = [srv EXCEPT ![m] = "termed"]
     \/ kind[m] = "garbled" /\ UNCHANGED srv
  /\ UNCHANGED <<acc, pend, flights>>

\* maybeFlush() at the end of a fetch, when enough time has passed.
LoopFlush ==
  /\ up /\ ~LoopBusy /\ acc # {}
  /\ Flush("loop", acc, pend)
  /\ UNCHANGED <<server, up, copies, history>>

TimerFlush ==
  /\ up /\ acc # {}
  /\ Flush("timer", acc, pend)
  /\ UNCHANGED <<server, up, copies, history>>

-----------------------------------------------------------------------------
(* flush() from its first await on.                                        *)

Goto(f, at) == flights' = (flights \ {f}) \cup {[f EXCEPT !.at = at]}

Error == errors < MaxErrors /\ errors' = errors + 1

Poisoned(f) == \E d \in f.rows : kind[d[1]] = "poison"

Stored(f) == [d \in Deliveries |-> IF d \in f.rows THEN copies[d] + 1 ELSE copies[d]]

Connect(f) ==
  /\ f.at = "connect"
  /\ \/ Goto(f, "copy") /\ UNCHANGED errors
     \/ Goto(f, "nak") /\ Error
  /\ UNCHANGED <<server, up, acc, pend, copies, crashes, slow>>

\* Mutant: the messages are not acknowledged after a COPY.
CopyUnacked(f) ==
  /\ f.at = "copy" /\ ~Poisoned(f)
  /\ copies' = Stored(f)
  /\ flights' = flights \ {f}
  /\ UNCHANGED <<server, up, acc, pend, history>>

Copy(f) ==
  /\ f.at = "copy" /\ ~Poisoned(f)
  /\ copies' = Stored(f)
  /\ Goto(f, "ack")
  /\ UNCHANGED <<server, up, acc, pend, history>>

\* Mutant: a failing COPY is taken for a success.
CopyFailsUnseen(f) ==
  /\ f.at = "copy"
  /\ (Poisoned(f) /\ UNCHANGED errors) \/ Error
  /\ Goto(f, "ack")
  /\ UNCHANGED <<server, up, acc, pend, copies, crashes, slow>>

CopyFails(f) ==
  /\ f.at = "copy"
  /\ (Poisoned(f) /\ UNCHANGED errors) \/ Error
  /\ Goto(f, "insert")
  /\ UNCHANGED <<server, up, acc, pend, copies, crashes, slow>>

\* BEGIN, one INSERT per row, COMMIT: all or nothing.
Insert(f) ==
  /\ f.at = "insert" /\ ~Poisoned(f)
  /\ copies' = Stored(f)
  /\ Goto(f, "ack")
  /\ UNCHANGED <<server, up, acc, pend, history>>

InsertFails(f) ==
  /\ f.at = "insert"
  /\ (Poisoned(f) /\ UNCHANGED errors) \/ Error
  /\ Goto(f, "nak")
  /\ UNCHANGED <<server, up, acc, pend, copies, crashes, slow>>

\* The connection breaks after the server committed: the reply to the COPY or
\* the COMMIT is lost, and what follows on that client fails as well.
CutOff(f) ==
  /\ f.at \in {"copy", "insert"} /\ ~Poisoned(f)
  /\ Error
  /\ copies' = Stored(f)
  /\ Goto(f, "nak")
  /\ UNCHANGED <<server, up, acc, pend, crashes, slow>>

\* The acks are sent in one go; some of them may never arrive.
Ack(f) ==
  /\ f.at = "ack"
  /\ \/ srv' = Acked(Messages(f.msgs)) /\ UNCHANGED errors
     \/ Error /\ \E M \in SUBSET Messages(f.msgs) : srv' = Acked(M)
  /\ flights' = flights \ {f}
  /\ UNCHANGED <<kind, delivered, up, acc, pend, copies, crashes, slow>>

Nak(f) ==
  /\ f.at = "nak"
  /\ srv' = Nakked(Messages(f.msgs))
  /\ flights' = flights \ {f}
  /\ UNCHANGED <<kind, delivered, up, acc, pend, copies, history>>

FlightStep(f) ==
  \/ Connect(f) \/ Copy(f) \/ CopyFails(f) \/ Insert(f) \/ InsertFails(f)
  \/ CutOff(f) \/ Ack(f) \/ Nak(f)

-----------------------------------------------------------------------------
Crash ==
  /\ up /\ crashes < MaxCrashes
  /\ up' = FALSE
  /\ acc' = {} /\ pend' = {} /\ flights' = {}
  /\ crashes' = crashes + 1
  /\ UNCHANGED <<server, copies, errors, slow>>

Restart ==
  /\ ~up
  /\ up' = TRUE
  /\ UNCHANGED <<server, acc, pend, flights, copies, history>>

Next ==
  \/ \E m \in Msgs : Publish(m) \/ Expire(m) \/ Collect(m) \/ Reject(m)
  \/ LoopFlush \/ TimerFlush
  \/ \E f \in flights : FlightStep(f)
  \/ Crash \/ Restart

Spec == Init /\ [][Next]_vars

\* The server delivers and redelivers, the interval fires, every database call
\* returns (with what result is open), and the process is restarted.
FairSpec ==
  /\ Spec
  /\ \A m \in Msgs : WF_vars(Collect(m)) /\ WF_vars(Reject(m)) /\ WF_vars(Expire(m) /\ ~Holds(m))
  /\ WF_vars(TimerFlush)
  /\ WF_vars(\E f \in flights : FlightStep(f))
  /\ WF_vars(Restart)

-----------------------------------------------------------------------------
\* A message is acknowledged only after one of its deliveries was stored, so no
\* crash, failing COPY or overlap of flushes loses a message the server has
\* been told to forget.
AckedStored ==
  \A m \in Msgs : srv[m] = "acked" => \E d \in Deliveries : d[1] = m /\ copies[d] > 0

\* Two overlapping flushes never store the same delivery: flush() takes the
\* buffers over before its first await, and the fallback to INSERT runs only
\* for a COPY that stored nothing.  Every further stored delivery of a message
\* goes back to a failing call, a lost ack, a crash or a passed ack_wait.
DuplicatesNeedFaults ==
  \A m \in Msgs :
    /\ \A d \in Deliveries : copies[d] <= 1
    /\ Cardinality({d \in Deliveries : d[1] = m /\ copies[d] > 0}) <= 1 + errors + crashes + slow

\* If no message is poisonous, each good one is stored and acknowledged in the
\* end, whatever invalid and garbled messages come with it.  (A poisonous one
\* takes the whole flush with it, again and again.)
GoodIsAcked ==
  (\A m \in Msgs : kind[m] # "poison") =>
    \A m \in Msgs : (kind[m] = "good" /\ srv[m] = "ready") ~> (srv[m] = "acked")
=============================================================================
