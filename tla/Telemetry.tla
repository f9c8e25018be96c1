------------------------------ MODULE Telemetry -----------------------------
(***************************************************************************)
(* The telemetry worker of core/src/services/telemetry-ingest.js: every    *)
(* message on df.telemetry.raw.* starts a handler that pushes a row to     *)
(* `batch`, puts the value into the tag cache of runtime-state-store.js    *)
(* and calls maybeFlush().  Handlers are not awaited by the subscription;  *)
(* the first message of a tag awaits the tag's metadata before it caches   *)
(* its value.  flush() upserts the batch; rows of one (connection, tag,    *)
(* ts) exclude each other, the last one counts.                            *)
(*                                                                         *)
(* Message m is the m-th to arrive; its value is m.  The filter of deleted *)
(* tags is part of module TagDelete.                                       *)
(***************************************************************************)
EXTENDS Naturals, Sequences, FiniteSets, FiniteSetsExt

CONSTANTS Tags,         \* tag ids
          Stamps,       \* timestamps
          MaxBatch,     \* MAX_BATCH
          MaxMessages,  \* bound: messages that arrive
          MaxFailures   \* bound: batches the database rejects

ASSUME TelemetryAssumption ==
  MaxBatch \in Nat /\ MaxMessages \in Nat /\ MaxFailures \in Nat

Keys == Tags \X Stamps

VARIABLES
  key,         \* key[m]: tag and timestamp of message m
  batch,       \* rows pushed and not flushed
  flights,     \* batches whose INSERT is awaited
  stored,      \* stored[k]: the value in tag_values, 0 if there is no row
  known,       \* tags in tagMetadataCache
  waiting,     \* handlers that await the metadata of their tag
  cache,       \* cache[t]: the value in RuntimeStateStore.tagCache
  open,        \* the interval is armed (onClose has not run)
  landed,      \* history: rows of batches the database accepted
  failed,      \* history: batches it rejected
  unsure       \* history: tags with a message that arrived during a wait

vars == <<key, batch, flights, stored, known, waiting, cache, open, landed, failed, unsure>>

Messages == 1 .. Len(key)

TypeOK ==
  /\ key \in Seq(Keys) /\ Len(key) <= MaxMessages
  /\ batch \in SUBSET Messages
  /\ flights \in SUBSET SUBSET Messages /\ Cardinality(flights) <= 1  \* `flushing`
  /\ stored \in [Keys -> {0} \cup Messages]
  /\ known \in SUBSET Tags
  /\ waiting \in SUBSET Messages
  /\ cache \in [Tags -> {0} \cup Messages]
  /\ open \in BOOLEAN
  /\ landed \in SUBSET Messages
  /\ failed \in SUBSET SUBSET Messages /\ Cardinality(failed) <= MaxFailures
  /\ unsure \in SUBSET Tags

Init ==
  /\ key = <<>>
  /\ batch = {} /\ flights = {}
  /\ stored = [k \in Keys |-> 0]
  /\ known = {} /\ waiting = {}
  /\ cache = [t \in Tags |-> 0]
  /\ open = TRUE
  /\ landed = {} /\ failed = {} /\ unsure = {}

-----------------------------------------------------------------------------
(* Flushing.                                                               *)

\* Mutant: the batch is taken before `flushing` is looked at.
FlushDropping(rows) ==
  IF flights # {} \/ rows = {} THEN batch' = {} /\ UNCHANGED flights
                               ELSE batch' = {} /\ flights' = flights \cup {rows}

\* flush() up to its INSERT, on the rows it finds: nothing while another
\* flush is under way.
Flush(rows) ==
  IF flights # {} \/ rows = {} THEN batch' = rows /\ UNCHANGED flights
                               ELSE batch' = {} /\ flights' = flights \cup {rows}

\* maybeFlush(): a full batch, or one that is older than MAX_AGE_MS.
MaybeFlush(rows) ==
  \/ Flush(rows)
  \/ Cardinality(rows) < MaxBatch /\ batch' = rows /\ UNCHANGED flights

\* Mutant: the interval flushes full batches only.
TickFull ==
  /\ open
  /\ flights = {} /\ Cardinality(batch) >= MaxBatch
  /\ Flush(batch)
  /\ UNCHANGED <<key, stored, known, waiting, cache, open, landed, failed, unsure>>

Tick ==
  /\ open
  /\ flights = {} /\ batch # {}
  /\ Flush(batch)
  /\ UNCHANGED <<key, stored, known, waiting, cache, open, landed, failed, unsure>>

\* Mutant: the first row of a key is kept instead of the last.
UpsertFirst(rows) ==
  [k \in Keys |-> LET own == {m \in rows : key[m] = k}
                  IN  IF own = {} THEN stored[k] ELSE Min(own)]

\* The last row of each key in the batch replaces what is stored.
Upsert(rows) ==
  [k \in Keys |-> LET own == {m \in rows : key[m] = k}
                  IN  IF own = {} THEN stored[k] ELSE Max(own)]

Inserted(rows) ==
  /\ rows \in flights
  /\ flights' = flights \ {rows}
  /\ stored' = Upsert(rows)
  /\ landed' = landed \cup rows
  /\ UNCHANGED <<key, batch, known, waiting, cache, open, failed, unsure>>

\* One bad row is enough: the whole batch is logged and forgotten.
InsertFails(rows) ==
  /\ rows \in flights
  /\ Cardinality(failed) < MaxFailures
  /\ flights' = flights \ {rows}
  /\ failed' = failed \cup {rows}
  /\ UNCHANGED <<key, batch, stored, known, waiting, cache, open, landed, unsure>>

\* The onClose hook: no more ticks, one last flush().
Close ==
  /\ open
  /\ open' = FALSE
  /\ Flush(batch)
  /\ UNCHANGED <<key, stored, known, waiting, cache, landed, failed, unsure>>

-----------------------------------------------------------------------------
(* The handlers.                                                           *)

Of(t, M) == {m \in M : key[m][1] = t}

\* A message of tag t with timestamp s: the row is pushed, and the value cached
\* at once if the metadata of the tag are known.
Arrive(t, s) ==
  LET m == Len(key) + 1 IN
    /\ m <= MaxMessages
    /\ key' = Append(key, <<t, s>>)
    /\ IF t \in known
       THEN /\ cache' = [cache EXCEPT ![t] = m]
            /\ MaybeFlush(batch \cup {m})
            /\ UNCHANGED waiting
       ELSE /\ waiting' = waiting \cup {m}
            /\ batch' = batch \cup {m}
            /\ UNCHANGED <<cache, flights>>
    /\ unsure' = CASE Of(t, waiting) # {}  -> unsure \cup {t}
                   [] Of(t, waiting) = {} /\ t \in known -> unsure \ {t}
                   [] OTHER -> unsure
    /\ UNCHANGED <<stored, known, open, landed, failed>>

\* Mutant: a tag without metadata is not cached.
AnswerOnlyKnown(m, found) ==
  LET t == key[m][1] IN
    /\ m \in waiting
    /\ waiting' = waiting \ {m}
    /\ known' = IF found THEN known \cup {t} ELSE known
    /\ cache' = IF t \in known' THEN [cache EXCEPT ![t] = m] ELSE cache
    /\ MaybeFlush(batch)
    /\ UNCHANGED <<key, stored, open, landed, failed, unsure>>

\* The metadata query of handler m returns a row, or none, or fails; the value
\* is cached in any case.
Answer(m, found) ==
  LET t == key[m][1] IN
    /\ m \in waiting
    /\ waiting' = waiting \ {m}
    /\ known' = IF found THEN known \cup {t} ELSE known
    /\ cache' = [cache EXCEPT ![t] = m]
    /\ MaybeFlush(batch)
    /\ UNCHANGED <<key, stored, open, landed, failed, unsure>>

Next ==
  \/ Tick \/ Close
  \/ \E rows \in flights : Inserted(rows) \/ InsertFails(rows)
  \/ \E t \in Tags, s \in Stamps : Arrive(t, s)
  \/ \E m \in waiting, found \in BOOLEAN : Answer(m, found)

Spec == Init /\ [][Next]_vars

\* The interval fires and the database answers.
FairSpec ==
  /\ Spec
  /\ WF_vars(Tick)
  /\ WF_vars(\E rows \in flights : Inserted(rows) \/ InsertFails(rows))

-----------------------------------------------------------------------------
\* Of all rows the database accepted for a connection, tag and timestamp, the
\* one that arrived last is stored: neither the order of the INSERTs nor the
\* removal of duplicates inside a batch brings back an older one.
StoredNewest == \A k \in Keys : stored[k] = Max({0} \cup {m \in landed : key[m] = k})

\* Every row that arrived is in the batch, in the INSERT under way, accepted,
\* or in a batch that was rejected as a whole.
Accounted == Messages = ((batch \cup landed) \cup UNION flights) \cup UNION failed

\* The cache a flow reads holds the newest value of a tag whose handler has
\* run to its end, unless a message of the tag arrived while an earlier one
\* waited for the metadata and none has arrived undisturbed since.
CacheNewest ==
  \A t \in Tags \ unsure : cache[t] = Max({0} \cup Of(t, Messages \ waiting))

\* A row in the batch leaves it, until the hook stops the interval.
BatchDrains == \A m \in 1 .. MaxMessages : (m \in batch /\ open) ~> (m \notin batch \/ ~open)
=============================================================================
