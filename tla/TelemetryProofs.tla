-------------------------- MODULE TelemetryProofs --------------------------
(***************************************************************************)
(* No row of the telemetry worker vanishes, and the database and the cache *)
(* hold the newest values, for any number of tags, messages and rejected   *)
(* batches.                                                                *)
(***************************************************************************)
EXTENDS Telemetry, TLAPS, FiniteSetTheorems

\* Each handler pushes its row; Len(key) counts them.
IInv == key \in Seq(Keys) /\ Accounted

\* However flush() finds the buffer, its rows are afterwards in the buffer or
\* in the INSERT under way.
LEMMA FlushKeepsRows ==
  ASSUME NEW rows, Flush(rows) \/ MaybeFlush(rows)
  PROVE  batch' \cup UNION flights' = rows \cup UNION flights
<1>1. \/ batch' = rows /\ flights' = flights
      \/ batch' = {} /\ flights' = flights \cup {rows}
  BY DEF Flush, MaybeFlush
<1> QED BY <1>1

LEMMA UnionMembers ==
  ASSUME NEW S, NEW e
  PROVE  e \in UNION S <=> \E y \in S : e \in y
  BY Zenon

LEMMA SameMembers ==
  ASSUME NEW A, NEW B, \A e : e \in A <=> e \in B
  PROVE  A = B
  OBVIOUS

LEMMA UnionWithout ==
  ASSUME NEW S, NEW x \in S
  PROVE  UNION S = (UNION (S \ {x})) \cup x
<1> DEFINE A == UNION S
           B == (UNION (S \ {x})) \cup x
<1>1. ASSUME NEW e PROVE e \in A <=> e \in B
  <2>1. (\E y \in S : e \in y) <=> (\E y \in S \ {x} : e \in y) \/ e \in x
    OBVIOUS
  <2>2. /\ e \in UNION S <=> \E y \in S : e \in y
        /\ e \in UNION (S \ {x}) <=> \E y \in S \ {x} : e \in y
    BY UnionMembers, Zenon
  <2> QED BY <2>1, <2>2, Zenon
<1>2. \A e : e \in A <=> e \in B
  BY <1>1
<1> HIDE DEF A, B
<1>3. A = B
  BY <1>2, SameMembers
<1> QED BY <1>3 DEF A, B

LEMMA UnionWith ==
  ASSUME NEW S, NEW x
  PROVE  UNION (S \cup {x}) = (UNION S) \cup x
<1> DEFINE A == UNION (S \cup {x})
           B == (UNION S) \cup x
<1>1. ASSUME NEW e PROVE e \in A <=> e \in B
  <2>1. (\E y \in S \cup {x} : e \in y) <=> (\E y \in S : e \in y) \/ e \in x
    OBVIOUS
  <2>2. /\ e \in UNION S <=> \E y \in S : e \in y
        /\ e \in UNION (S \cup {x}) <=> \E y \in S \cup {x} : e \in y
    BY UnionMembers, Zenon
  <2> QED BY <2>1, <2>2, Zenon
<1>2. \A e : e \in A <=> e \in B
  BY <1>1
<1> HIDE DEF A, B
<1>3. A = B
  BY <1>2, SameMembers
<1> QED BY <1>3 DEF A, B

LEMMA StepAccounted == IInv /\ [Next]_vars => IInv'
<1> SUFFICES ASSUME IInv, [Next]_vars PROVE IInv'
  OBVIOUS
<1> USE DEF IInv, Accounted
<1>1. CASE UNCHANGED vars
  BY <1>1 DEF vars, Messages
<1>2. CASE Tick \/ Close
  <2>1. Flush(batch) /\ UNCHANGED <<key, landed, failed>>
    BY <1>2 DEF Tick, Close
  <2>2. batch' \cup UNION flights' = batch \cup UNION flights
    BY <2>1, FlushKeepsRows
  <2> QED BY <2>1, <2>2 DEF Messages
<1>3. ASSUME NEW rows \in flights, Inserted(rows) PROVE IInv'
  <2>1. /\ flights' = flights \ {rows} /\ landed' = landed \cup rows
        /\ UNCHANGED <<key, batch, failed>>
    BY <1>3 DEF Inserted
  <2>2. UNION flights = (UNION flights') \cup rows
    BY <2>1, UnionWithout
  <2> QED BY <2>1, <2>2 DEF Messages
<1>4. ASSUME NEW rows \in flights, InsertFails(rows) PROVE IInv'
  <2>1. /\ flights' = flights \ {rows} /\ failed' = failed \cup {rows}
        /\ UNCHANGED <<key, batch, landed>>
    BY <1>4 DEF InsertFails
  <2>2. UNION flights = (UNION flights') \cup rows /\ UNION failed' = (UNION failed) \cup rows
    BY <2>1, UnionWithout, UnionWith
  <2> QED BY <2>1, <2>2 DEF Messages
<1>5. ASSUME NEW t \in Tags, NEW s \in Stamps, Arrive(t, s) PROVE IInv'
  <2> DEFINE m == Len(key) + 1
  <2>1. key' = Append(key, <<t, s>>) /\ UNCHANGED <<landed, failed>>
    BY <1>5 DEF Arrive
  <2>2. key' \in Seq(Keys) /\ Messages' = Messages \cup {m}
    BY <2>1 DEF Messages, Keys
  <2>3. batch' \cup UNION flights' = (batch \cup {m}) \cup UNION flights
    BY <1>5, FlushKeepsRows DEF Arrive
  <2> QED BY <2>1, <2>2, <2>3
<1>6. ASSUME NEW m \in waiting, NEW found \in BOOLEAN, Answer(m, found) PROVE IInv'
  <2>1. MaybeFlush(batch) /\ UNCHANGED <<key, landed, failed>>
    BY <1>6 DEF Answer
  <2>2. batch' \cup UNION flights' = batch \cup UNION flights
    BY <2>1, FlushKeepsRows
  <2> QED BY <2>1, <2>2 DEF Messages
<1> QED BY <1>1, <1>2, <1>3, <1>4, <1>5, <1>6 DEF Next

LEMMA InitAccounted == Init => IInv
BY DEF Init, IInv, Accounted, Messages

\* Every row that arrived is waiting, on its way, stored, or was rejected with
\* its whole batch: no handler, interval or hook drops one in between.
THEOREM NoRowIsLost == Spec => []Accounted
<1>1. IInv => Accounted
  BY DEF IInv
<1> QED BY <1>1, InitAccounted, StepAccounted, PTL DEF Spec

-----------------------------------------------------------------------------
(* Maxima.                                                                 *)

\* What Max returns where a maximum exists.
LEMMA MaxIs ==
  ASSUME NEW S \in SUBSET Int, NEW x \in S, \A y \in S : x >= y
  PROVE  Max(S) = x
<1>1. \E z \in S : \A y \in S : z >= y
  OBVIOUS
<1>2. Max(S) \in S /\ \A y \in S : Max(S) >= y
  BY <1>1 DEF Max
<1>3. Max(S) >= x /\ x >= Max(S) /\ x \in Int /\ Max(S) \in Int
  BY <1>2
<1> HIDE DEF Max
<1> QED BY <1>3

\* A finite nonempty set of numbers has a maximum: in a smallest one without,
\* the maximum of the rest, or the element taken away, would be one.
LEMMA MaxExists ==
  ASSUME NEW S \in SUBSET Nat, IsFiniteSet(S), S # {}
  PROVE  Max(S) \in S /\ \A y \in S : Max(S) >= y
<1> DEFINE Has(U) == \E x \in U : \A y \in U : x >= y
           Bad == {U \in FiniteSubsetsOf(Nat) : U # {} /\ ~Has(U)}
<1>1. Bad = {}
  <2> SUFFICES ASSUME Bad # {} PROVE FALSE
    OBVIOUS
  <2>1. IsWellFoundedOn(StrictSubsetOrdering(Nat), FiniteSubsetsOf(Nat))
    BY FS_StrictSubsetOrderingWellFounded
  <2>2. Bad \subseteq FiniteSubsetsOf(Nat)
    OBVIOUS
  <2>3. \E U \in Bad : \A V \in Bad : ~(<<V, U>> \in StrictSubsetOrdering(Nat))
    <3> HIDE DEF Bad
    <3> QED BY <2>1, <2>2, WFMin, Zenon
  <2>4. PICK U \in Bad : \A V \in Bad : ~(<<V, U>> \in StrictSubsetOrdering(Nat))
    BY <2>3
  <2>5. U \in SUBSET Nat /\ IsFiniteSet(U) /\ U # {} /\ ~Has(U)
    BY DEF FiniteSubsetsOf
  <2>6. PICK x \in U : TRUE
    BY <2>5
  <2> DEFINE V == U \ {x}
  <2>7. V \in FiniteSubsetsOf(Nat)
    <3>1. IsFiniteSet(V)
      BY <2>5, FS_RemoveElement
    <3> QED BY <2>5, <3>1 DEF FiniteSubsetsOf
  <2>8. <<V, U>> \in StrictSubsetOrdering(Nat)
    BY <2>5 DEF StrictSubsetOrdering
  <2>9. V \notin Bad
    BY <2>4, <2>8
  <2>10. V = {} \/ Has(V)
    BY <2>7, <2>9
  <2>11. CASE V = {}
    <3>1. \A y \in U : x >= y
      BY <2>5, <2>11
    <3> QED BY <2>5, <3>1
  <2>12. CASE Has(V)
    <3>1. PICK z \in V : \A y \in V : z >= y
      BY <2>12
    <3>2. CASE z >= x
      <4>1. \A y \in U : z >= y
        BY <3>1, <3>2
      <4> QED BY <2>5, <3>1, <4>1
    <3>3. CASE ~(z >= x)
      <4>1. \A y \in U : x >= y
        BY <2>5, <3>1, <3>3
      <4> QED BY <2>5, <4>1
    <3> QED BY <3>2, <3>3
  <2> QED BY <2>10, <2>11, <2>12
<1>2. S \in FiniteSubsetsOf(Nat)
  BY DEF FiniteSubsetsOf
<1>3. Has(S)
  BY <1>1, <1>2
<1>4. PICK x \in S : \A y \in S : x >= y
  BY <1>3
<1>5. Max(S) = x
  BY <1>4, MaxIs
<1> QED BY <1>4, <1>5
-----------------------------------------------------------------------------
(* The order of the rows.                                                  *)

\* One INSERT is awaited at a time, and rows reach the database in the order
\* in which they arrived: accepted ones, the batch under way, the buffer.
OneFlight == \A f, g \in flights : f = g
InOrder ==
  /\ \A a \in landed, b \in batch : a < b
  /\ \A f \in flights :
       \A b \in f : (\A a \in landed : a < b) /\ (\A c \in batch : b < c)

\* A message that waits for the metadata is the last of its tag, unless the
\* tag is unsure.
WaitingIsLast ==
  \A m \in waiting :
    /\ m \in Messages
    /\ key[m][1] \notin unsure =>
         \A j \in Messages : key[j][1] = key[m][1] => j <= m

FlushInv == OneFlight /\ InOrder /\ StoredNewest /\ stored \in [Keys -> Nat]
CacheInv == WaitingIsLast /\ CacheNewest /\ cache \in [Tags -> Nat]

LEMMA Numbers ==
  ASSUME IInv
  PROVE  /\ Len(key) \in Nat /\ Messages \subseteq Nat \ {0}
         /\ landed \subseteq Messages /\ batch \subseteq Messages
         /\ \A f \in flights : f \subseteq Messages
         /\ \A m \in Messages : key[m] \in Keys
<1>1. Len(key) \in Nat /\ \A m \in Messages : m \in Nat \ {0} /\ key[m] \in Keys
  BY DEF IInv, Messages
<1>2. \A f \in flights : f \subseteq UNION flights
  OBVIOUS
<1> QED BY <1>1, <1>2 DEF IInv, Accounted

\* flush() on the buffer, with or without a new row at its end.
LEMMA FlushKeepsOrder ==
  ASSUME IInv, FlushInv, NEW rows,
         \A r \in rows : r \in batch \/ (r \in Nat /\ \A m \in Messages : m < r),
         Flush(rows) \/ MaybeFlush(rows) \/ (batch' = rows /\ flights' = flights),
         UNCHANGED landed
  PROVE  (OneFlight /\ InOrder)'
<1>1. /\ landed \subseteq Messages /\ Messages \subseteq Nat
      /\ \A f \in flights : f \subseteq Messages
  BY Numbers
<1>2. /\ \A a \in landed, b \in rows : a < b
      /\ \A f \in flights : \A b \in f : \A c \in rows : b < c
  BY <1>1 DEF FlushInv, InOrder
<1>3. CASE batch' = rows /\ flights' = flights
  BY <1>2, <1>3 DEF FlushInv, InOrder, OneFlight
<1>4. CASE flights = {} /\ batch' = {} /\ flights' = flights \cup {rows}
  BY <1>2, <1>4 DEF InOrder, OneFlight
<1> QED BY <1>3, <1>4 DEF Flush, MaybeFlush

LEMMA InsertKeepsNewest ==
  ASSUME IInv, FlushInv, NEW rows \in flights, Inserted(rows)
  PROVE  (StoredNewest /\ stored \in [Keys -> Nat])'
<1>1. SUFFICES ASSUME NEW k \in Keys
               PROVE  /\ stored'[k] = Max({0} \cup {m \in landed' : key[m] = k})
                      /\ stored'[k] \in Nat
  <2>1. stored' = [k \in Keys |-> stored'[k]] /\ key' = key
    BY DEF Inserted, Upsert
  <2> QED BY <1>1, <2>1 DEF StoredNewest
<1> DEFINE own == {m \in rows : key[m] = k}
           old == {0} \cup {m \in landed : key[m] = k}
           new == {0} \cup {m \in landed' : key[m] = k}
<1>2. landed' = landed \cup rows /\ stored' = Upsert(rows)
  BY DEF Inserted
<1>3. rows \subseteq Messages /\ landed \subseteq Messages /\ Messages \subseteq Nat
  BY Numbers
<1>4. new = old \cup own
  BY <1>2
<1>5. CASE own = {}
  <2>1. stored'[k] = stored[k]
    BY <1>2, <1>5 DEF Upsert
  <2>2. stored[k] = Max(old) /\ stored[k] \in Nat
    BY DEF FlushInv, StoredNewest
  <2>3. new = old
    BY <1>4, <1>5
  <2> QED BY <2>1, <2>2, <2>3
<1>6. CASE own # {}
  <2>1. stored'[k] = Max(own)
    BY <1>2, <1>6 DEF Upsert
  <2>2. IsFiniteSet(own)
    <3>1. Len(key) \in Nat /\ own \in SUBSET (1 .. Len(key))
      BY <1>3, Numbers DEF Messages
    <3>2. IsFiniteSet(1 .. Len(key))
      BY <3>1, FS_Interval
    <3> HIDE DEF own
    <3> QED BY <3>1, <3>2, FS_Subset
  <2>3. Max(own) \in own /\ \A y \in own : Max(own) >= y
    BY <1>3, <1>6, <2>2, MaxExists
  <2>4. \A a \in landed, b \in own : a < b
    BY DEF FlushInv, InOrder
  <2>5. own \in SUBSET Nat /\ new \in SUBSET Int
    <3>1. \A j \in rows \cup landed : j \in Nat
      BY <1>3
    <3>2. \A j \in own : j \in Nat
      BY <3>1
    <3>3. \A j \in new : j \in Int
      BY <1>2, <3>1
    <3> HIDE DEF own, new
    <3> QED BY <3>2, <3>3
  <2> HIDE DEF own
  <2>6. \A y \in new : Max(own) >= y
    BY <1>3, <1>4, <2>3, <2>4, <2>5
  <2>7. Max(new) = Max(own)
    <3>1. Max(own) \in new
      BY <1>4, <2>3
    <3> HIDE DEF new
    <3> QED BY <2>5, <2>6, <3>1, MaxIs
  <2> QED BY <2>1, <2>3, <2>5, <2>7
<1> QED BY <1>5, <1>6

LEMMA StepFlush == IInv /\ FlushInv /\ [Next]_vars => FlushInv'
<1> SUFFICES ASSUME IInv, FlushInv, [Next]_vars PROVE FlushInv'
  OBVIOUS
<1>1. CASE UNCHANGED vars
  BY <1>1 DEF vars, FlushInv, OneFlight, InOrder, StoredNewest
<1>2. CASE Tick \/ Close
  <2>1. Flush(batch) /\ UNCHANGED <<key, stored, landed>>
    BY <1>2 DEF Tick, Close
  <2>2. (OneFlight /\ InOrder)'
    BY <2>1, FlushKeepsOrder
  <2> QED BY <2>1, <2>2 DEF FlushInv, StoredNewest
<1>3. ASSUME NEW rows \in flights, Inserted(rows) PROVE FlushInv'
  <2>1. (StoredNewest /\ stored \in [Keys -> Nat])'
    BY <1>3, InsertKeepsNewest
  <2>2. flights' = {} /\ landed' = landed \cup rows /\ batch' = batch
    BY <1>3 DEF Inserted, FlushInv, OneFlight
  <2> QED BY <2>1, <2>2 DEF FlushInv, OneFlight, InOrder
<1>4. ASSUME NEW rows \in flights, InsertFails(rows) PROVE FlushInv'
  BY <1>4 DEF InsertFails, FlushInv, OneFlight, InOrder, StoredNewest
<1>5. ASSUME NEW t \in Tags, NEW s \in Stamps, Arrive(t, s) PROVE FlushInv'
  <2> DEFINE m == Len(key) + 1
  <2>1. m \in Nat /\ \A j \in Messages : j < m
    BY Numbers DEF Messages
  <2>2. key' = Append(key, <<t, s>>) /\ UNCHANGED <<stored, landed>>
    BY <1>5 DEF Arrive
  <2>3. \/ MaybeFlush(batch \cup {m})
        \/ batch' = batch \cup {m} /\ flights' = flights
    BY <1>5 DEF Arrive
  <2>4. (OneFlight /\ InOrder)'
    <3> HIDE DEF m
    <3>1. \A r \in batch \cup {m} : r \in batch \/ (r \in Nat /\ \A j \in Messages : j < r)
      BY <2>1
    <3> QED BY <2>2, <2>3, <3>1, FlushKeepsOrder
  <2>5. \A j \in landed : key'[j] = key[j]
    BY <2>2, Numbers DEF IInv, Messages
  <2>6. \A k \in Keys : {j \in landed : key'[j] = k} = {j \in landed : key[j] = k}
    BY <2>5
  <2>7. StoredNewest'
    BY <2>2, <2>6 DEF FlushInv, StoredNewest
  <2> QED BY <2>2, <2>4, <2>7 DEF FlushInv
<1>6. ASSUME NEW m \in waiting, NEW found \in BOOLEAN, Answer(m, found) PROVE FlushInv'
  <2>1. MaybeFlush(batch) /\ UNCHANGED <<key, stored, landed>>
    BY <1>6 DEF Answer
  <2>2. (OneFlight /\ InOrder)'
    BY <2>1, FlushKeepsOrder
  <2> QED BY <2>1, <2>2 DEF FlushInv, StoredNewest
<1> QED BY <1>1, <1>2, <1>3, <1>4, <1>5, <1>6 DEF Next

-----------------------------------------------------------------------------
(* The cache.                                                              *)

\* The newest message of a tag that is not waiting, once it is known to be the
\* newest.
LEMMA NewestIs ==
  ASSUME IInv, NEW t \in Tags, NEW M \in SUBSET Nat, NEW m \in M,
         key[m][1] = t, \A j \in M : key[j][1] = t => j <= m
  PROVE  Max({0} \cup Of(t, M)) = m
<1> DEFINE S == {0} \cup Of(t, M)
<1>1. (\A y \in S : y \in Int) /\ m \in S
  BY DEF Of
<1>2. \A y \in S : m >= y
  BY DEF Of
<1> HIDE DEF S
<1>3. Max(S) = m
  BY <1>1, <1>2, MaxIs
<1> QED BY <1>3 DEF S

\* The same of a message that has just arrived.
LEMMA LatestOf ==
  ASSUME NEW M \in SUBSET Nat, NEW x \in Nat, \A j \in M : j < x,
         NEW S, S \subseteq M \cup {0, x}, x \in S
  PROVE  Max(S) = x
<1>1. ASSUME NEW y \in S PROVE y \in Int /\ x >= y
  <2>1. y \in M \/ y = 0 \/ y = x
    OBVIOUS
  <2>2. y \in M => y \in Nat /\ y < x
    OBVIOUS
  <2> QED BY <2>1, <2>2
<1> QED BY <1>1, MaxIs

LEMMA StepCacheArrive ==
  ASSUME IInv, CacheInv, NEW t \in Tags, NEW s \in Stamps, Arrive(t, s)
  PROVE  CacheInv'
<1>0. PICK m \in Nat : m = Len(key) + 1
  BY Numbers
<1>1. m \in Nat /\ Messages \subseteq Nat \ {0} /\ (\A j \in Messages : j < m) /\ m \notin Messages
  BY <1>0, Numbers DEF Messages
<1>2. key' = Append(key, <<t, s>>)
  BY DEF Arrive
<1>3. /\ Messages' = Messages \cup {m} /\ key'[m] = <<t, s>>
      /\ \A j \in Messages : key'[j] = key[j]
  BY <1>0, <1>2 DEF IInv, Messages
<1>4. IInv'
  BY StepAccounted DEF Next
<1>5. waiting \subseteq Messages
  BY DEF CacheInv, WaitingIsLast
<1>6. /\ t \in known => cache' = [cache EXCEPT ![t] = m] /\ waiting' = waiting
      /\ t \notin known => cache' = cache /\ waiting' = waiting \cup {m}
  BY <1>0 DEF Arrive
<1>7. /\ Of(t, waiting) # {} => unsure' = unsure \cup {t}
      /\ Of(t, waiting) = {} /\ t \in known => unsure' = unsure \ {t}
      /\ Of(t, waiting) = {} /\ t \notin known => unsure' = unsure
  BY DEF Arrive
<1>8. WaitingIsLast'
  <2> SUFFICES ASSUME NEW w \in waiting'
               PROVE  /\ w \in Messages'
                      /\ key'[w][1] \notin unsure' =>
                           \A j \in Messages' : key'[j][1] = key'[w][1] => j <= w
    BY DEF WaitingIsLast
  <2>1. CASE w \in waiting
    <3>1. w \in Messages /\ key'[w] = key[w]
      BY <1>3, <1>5, <2>1
    <3>2. CASE key[w][1] = t
      <4>1. unsure' = unsure \cup {t}
        BY <1>7, <2>1, <3>2 DEF Of
      <4> QED BY <1>3, <3>1, <3>2, <4>1
    <3>3. CASE key[w][1] # t
      <4>1. key[w][1] \in unsure' <=> key[w][1] \in unsure
        BY <1>7, <3>3
      <4>2. key[w][1] \notin unsure => \A j \in Messages : key[j][1] = key[w][1] => j <= w
        BY <2>1 DEF CacheInv, WaitingIsLast
      <4> QED BY <1>3, <3>1, <3>3, <4>1, <4>2
    <3> QED BY <3>2, <3>3
  <2>2. CASE w \notin waiting
    <3>1. w = m
      BY <1>6, <2>2
    <3> QED BY <1>1, <1>3, <3>1
  <2> QED BY <2>1, <2>2
<1>9. CacheNewest' /\ cache' \in [Tags -> Nat]
  <2>1. cache' \in [Tags -> Nat]
    BY <1>1, <1>6 DEF CacheInv
  <2> SUFFICES ASSUME NEW u \in Tags \ unsure'
               PROVE  cache'[u] = Max({0} \cup Of(u, Messages \ waiting)')
    BY <2>1 DEF CacheNewest
  <2> DEFINE done == Messages' \ waiting'
  <2>2. done \in SUBSET Nat
    BY <1>1, <1>3
  <2>3. Of(u, Messages \ waiting)' = {j \in done : key'[j][1] = u}
    BY DEF Of
  <2>4. CASE u = t /\ t \in known
    <3>1. Messages' = Messages \cup {m} /\ waiting' = waiting /\ m \notin waiting
      BY <1>1, <1>3, <1>5, <1>6, <2>4
    <3>2. m \in done /\ done \subseteq Messages \cup {m}
      BY <3>1
    <3>3. cache'[u] = m /\ key'[m][1] = u
      BY <1>3, <1>6, <2>4 DEF CacheInv
    <3> DEFINE S == {0} \cup {j \in done : key'[j][1] = u}
    <3>4. S \subseteq Messages \cup {0, m} /\ m \in S
      BY <3>2, <3>3
    <3> HIDE DEF S
    <3>5. Messages \in SUBSET Nat
      BY <1>1
    <3>6. Max(S) = m
      BY <1>1, <3>4, <3>5, LatestOf
    <3> QED BY <2>3, <3>3, <3>6 DEF S
  <2>5. CASE ~(u = t /\ t \in known)
    <3>1. cache'[u] = cache[u] /\ u \notin unsure
      BY <1>6, <1>7, <2>5 DEF CacheInv
    <3>2. \A j : j \in done /\ key'[j][1] = u <=> j \in Messages \ waiting /\ key[j][1] = u
      <4>1. CASE t \in known
        BY <1>3, <1>6, <2>5, <4>1
      <4>2. CASE t \notin known
        <5>1. \A j : j \in done <=> j \in Messages \ waiting
          BY <1>1, <1>3, <1>5, <1>6, <4>2
        <5> QED BY <1>3, <5>1
      <4> QED BY <4>1, <4>2
    <3>3. Of(u, Messages \ waiting)' = Of(u, Messages \ waiting)
      BY <2>3, <3>2 DEF Of
    <3> QED BY <3>1, <3>3 DEF CacheInv, CacheNewest
  <2> QED BY <2>4, <2>5
<1> QED BY <1>8, <1>9 DEF CacheInv

LEMMA StepCacheAnswer ==
  ASSUME IInv, CacheInv, NEW m \in waiting, NEW found \in BOOLEAN, Answer(m, found)
  PROVE  CacheInv'
<1> DEFINE t == key[m][1]
<1>1. Messages \subseteq Nat \ {0} /\ \A j \in Messages : key[j] \in Keys
  BY Numbers
<1>2. m \in Messages /\ t \in Tags
  BY <1>1 DEF CacheInv, WaitingIsLast, Keys
<1>3. /\ waiting' = waiting \ {m} /\ cache' = [cache EXCEPT ![t] = m]
      /\ UNCHANGED <<key, unsure>> /\ Messages' = Messages
  BY DEF Answer, Messages
<1>4. WaitingIsLast'
  BY <1>3 DEF CacheInv, WaitingIsLast
<1>5. cache' \in [Tags -> Nat]
  BY <1>1, <1>2, <1>3 DEF CacheInv
<1>6. ASSUME NEW u \in Tags \ unsure
      PROVE  cache'[u] = Max({0} \cup Of(u, Messages \ (waiting \ {m})))
  <2>1. CASE u = t
    <3>1. \A j \in Messages : key[j][1] = t => j <= m
      BY <2>1 DEF CacheInv, WaitingIsLast
    <3> DEFINE M == Messages \ (waiting \ {m})
    <3>2. M \in SUBSET Nat /\ m \in M
      BY <1>1, <1>2
    <3>3. key[m][1] = u /\ \A j \in M : key[j][1] = u => j <= m
      BY <2>1, <3>1
    <3> HIDE DEF M
    <3>4. Max({0} \cup Of(u, M)) = m
      BY <3>2, <3>3, NewestIs
    <3>5. cache'[u] = m
      BY <1>2, <1>3, <2>1 DEF CacheInv
    <3> QED BY <3>4, <3>5 DEF M
  <2>2. CASE u # t
    <3>1. Of(u, Messages \ (waiting \ {m})) = Of(u, Messages \ waiting)
      BY <2>2 DEF Of
    <3>2. cache'[u] = cache[u]
      BY <1>3, <2>2 DEF CacheInv
    <3> QED BY <3>1, <3>2 DEF CacheInv, CacheNewest
  <2> QED BY <2>1, <2>2
<1>7. CacheNewest'
  BY <1>3, <1>6 DEF CacheNewest, Of
<1> QED BY <1>4, <1>5, <1>7 DEF CacheInv

LEMMA StepCache == IInv /\ CacheInv /\ [Next]_vars => CacheInv'
<1> SUFFICES ASSUME IInv, CacheInv, [Next]_vars PROVE CacheInv'
  OBVIOUS
<1>1. ASSUME UNCHANGED <<key, waiting, cache, unsure>> PROVE CacheInv'
  BY <1>1 DEF CacheInv, WaitingIsLast, CacheNewest, Messages, Of
<1>2. CASE UNCHANGED vars
  BY <1>1, <1>2 DEF vars
<1>3. CASE Tick \/ Close
  BY <1>1, <1>3 DEF Tick, Close
<1>4. ASSUME NEW rows \in flights, Inserted(rows) \/ InsertFails(rows) PROVE CacheInv'
  BY <1>1, <1>4 DEF Inserted, InsertFails
<1> QED BY <1>2, <1>3, <1>4, StepCacheArrive, StepCacheAnswer DEF Next

LEMMA InitOrderAndCache == Init => FlushInv /\ CacheInv
<1> SUFFICES ASSUME Init PROVE FlushInv /\ CacheInv
  OBVIOUS
<1>1. \A S : S = {} => Max({0} \cup S) = 0
  <2>1. {0} \in SUBSET Int /\ 0 \in {0} /\ \A y \in {0} : 0 >= y
    OBVIOUS
  <2>2. Max({0}) = 0
    BY <2>1, MaxIs
  <2>3. \A S : S = {} => {0} \cup S = {0}
    OBVIOUS
  <2> QED BY <2>2, <2>3
<1>2. \A k \in Keys : stored[k] = 0 /\ {m \in landed : key[m] = k} = {}
  BY DEF Init
<1>3. \A t \in Tags : cache[t] = 0 /\ Of(t, Messages \ waiting) = {}
  BY DEF Init, Messages, Of
<1> QED BY <1>1, <1>2, <1>3 DEF Init, FlushInv, OneFlight, InOrder, StoredNewest,
                                CacheInv, WaitingIsLast, CacheNewest

\* For every tag and timestamp the newest row the database accepted is stored,
\* whatever batches were rejected before, between and after.
THEOREM NewestRowStored == Spec => []StoredNewest
<1>1. Init => IInv /\ FlushInv
  BY InitAccounted, InitOrderAndCache
<1>2. IInv /\ FlushInv /\ [Next]_vars => (IInv /\ FlushInv)'
  BY StepAccounted, StepFlush
<1>3. FlushInv => StoredNewest
  BY DEF FlushInv
<1> QED BY <1>1, <1>2, <1>3, PTL DEF Spec

\* The cache holds the newest value of every tag whose messages did not overtake
\* each other while the metadata were read.
THEOREM NewestValueCached == Spec => []CacheNewest
<1>1. Init => IInv /\ CacheInv
  BY InitAccounted, InitOrderAndCache
<1>2. IInv /\ CacheInv /\ [Next]_vars => (IInv /\ CacheInv)'
  BY StepAccounted, StepCache
<1>3. CacheInv => CacheNewest
  BY DEF CacheInv
<1> QED BY <1>1, <1>2, <1>3, PTL DEF Spec
=============================================================================
