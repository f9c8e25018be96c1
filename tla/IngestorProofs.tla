--------------------------- MODULE IngestorProofs ---------------------------
(***************************************************************************)
(* What an acknowledgement means and how often a delivery is stored, for   *)
(* any number of messages, deliveries, overlapping flushes, failing calls, *)
(* lost acks and crashes.                                                  *)
(***************************************************************************)
EXTENDS Ingestor, TLAPS, FiniteSetTheorems

\* A flush that has reached its acks has stored all its points.
AcksFollowStores == \A f \in flights : f.at = "ack" => \A d \in f.rows : copies[d] > 0

\* Points that are collected, or in a flush before its COPY or INSERT, are not
\* stored, and no two places hold the same ones.
Unstored(f) == f.at \in {"connect", "copy", "insert"}

Fresh(d) == d[2] > delivered[d[1]]

OnePlace ==
  /\ \A d \in acc : copies[d] = 0 /\ ~Fresh(d) /\ \A f \in flights : d \notin f.rows
  /\ \A f \in flights : \A d \in f.rows :
       /\ Unstored(f) => copies[d] = 0
       /\ ~Fresh(d)
       /\ \A g \in flights : g # f => d \notin g.rows

\* A delivery still to come is stored nowhere, the others at most once.
StoredOnce == \A d \in Deliveries : copies[d] <= 1 /\ (Fresh(d) => copies[d] = 0)

\* AckedStored alone is not inductive: an ack covers the messages of a flush,
\* and that they are those of its points is part of TypeOK.
IInv == TypeOK /\ AcksFollowStores /\ AckedStored /\ OnePlace /\ StoredOnce

Servers == {"new", "ready", "out", "acked", "termed"}

-----------------------------------------------------------------------------
(* What the steps of the loop and of a flush do to the flights.            *)

LEMMA GotoFlights ==
  ASSUME NEW f \in flights, NEW at, Goto(f, at), flights \subseteq Flight,
         at \in {"connect", "copy", "insert", "ack", "nak"}
  PROVE  \E g \in Flight :
           /\ g.at = at /\ g.rows = f.rows /\ g.msgs = f.msgs /\ g.by = f.by
           /\ flights' = (flights \ {f}) \cup {g}
<1> DEFINE g == [f EXCEPT !.at = at]
<1>1. f \in Flight
  OBVIOUS
<1>2. g \in Flight /\ g.at = at /\ g.rows = f.rows /\ g.msgs = f.msgs /\ g.by = f.by
  BY <1>1 DEF Flight
<1>3. flights' = (flights \ {f}) \cup {g}
  BY DEF Goto
<1> HIDE DEF g
<1> QED BY <1>2, <1>3

\* A flush takes the points and messages it is given, and leaves none behind.
LEMMA FlushTypes ==
  ASSUME TypeOK, NEW who \in {"loop", "timer"}, NEW D \in SUBSET Deliveries, Flush(who, D, D)
  PROVE  \E g \in Flight :
           /\ g.at = "connect" /\ g.rows = D /\ g.msgs = D
           /\ flights' = flights \cup {g} /\ acc' = {} /\ pend' = {}
<1> DEFINE g == [by |-> who, at |-> "connect", rows |-> D, msgs |-> D]
<1>1. g \in Flight /\ g.at = "connect" /\ g.rows = D /\ g.msgs = D
  BY DEF Flight
<1>2. flights' = flights \cup {g} /\ acc' = {} /\ pend' = {}
  BY DEF Flush
<1> HIDE DEF g
<1> QED BY <1>1, <1>2

\* A step that only adds points to what is collected, or hands them to a flush.
LEMMA CollectFacts ==
  ASSUME TypeOK, NEW m \in Msgs, Collect(m)
  PROVE  \E d \in Deliveries :
           /\ d = <<m, delivered[m] + 1>>
           /\ delivered[m] + 1 \in 1 .. MaxDeliveries
           /\ delivered' = [delivered EXCEPT ![m] = @ + 1]
           /\ srv' = [srv EXCEPT ![m] = "out"]
           /\ UNCHANGED <<kind, up, copies, history>>
           /\ \/ Flush("loop", acc \cup {d}, acc \cup {d})
              \/ acc' = acc \cup {d} /\ pend' = acc \cup {d} /\ UNCHANGED flights
<1>1. delivered[m] + 1 \in 1 .. MaxDeliveries
  BY IngestorAssumption DEF Collect, Fetch, TypeOK
<1>2. <<m, delivered[m] + 1>> \in Deliveries
  BY <1>1 DEF Deliveries
<1> QED BY <1>1, <1>2 DEF Collect, Fetch, MaybeFlush, TypeOK

-----------------------------------------------------------------------------
(* Type correctness.                                                       *)

LEMMA FlightType ==
  ASSUME TypeOK, NEW f \in flights, FlightStep(f)
  PROVE  TypeOK'
<1>1. f \in Flight /\ f.msgs = f.rows /\ flights \subseteq Flight
  BY DEF TypeOK
<1>2. /\ kind' = kind /\ delivered' = delivered /\ up' = up /\ acc' = acc /\ pend' = pend
      /\ crashes' = crashes /\ slow' = slow
  BY DEF FlightStep, Connect, Copy, CopyFails, Insert, InsertFails, CutOff, Ack, Nak,
     server, history
<1>3. errors' \in 0 .. MaxErrors
  BY IngestorAssumption
  DEF FlightStep, Connect, Copy, CopyFails, Insert, InsertFails, CutOff, Ack, Nak,
      Error, TypeOK, history
<1>4. srv' \in [Msgs -> Servers]
  <2>1. \A M : Acked(M) \in [Msgs -> Servers] /\ Nakked(M) \in [Msgs -> Servers]
    BY DEF Acked, Nakked, TypeOK, Servers
  <2>2. srv \in [Msgs -> Servers]
    BY DEF TypeOK, Servers
  <2> QED
    BY <2>1, <2>2
    DEF FlightStep, Connect, Copy, CopyFails, Insert, InsertFails, CutOff, Ack, Nak, server
<1>5. copies' \in [Deliveries -> Nat]
  <2>1. Stored(f) \in [Deliveries -> Nat] /\ copies \in [Deliveries -> Nat]
    BY DEF Stored, TypeOK
  <2> QED
    BY <2>1 DEF FlightStep, Connect, Copy, CopyFails, Insert, InsertFails, CutOff, Ack, Nak
<1>6. flights' \subseteq Flight /\ \A g \in flights' : g.msgs = g.rows
  <2>1. CASE \E at \in {"connect", "copy", "insert", "ack", "nak"} : Goto(f, at)
    <3>1. PICK at \in {"connect", "copy", "insert", "ack", "nak"} : Goto(f, at)
      BY <2>1
    <3>2. PICK g \in Flight : /\ g.rows = f.rows /\ g.msgs = f.msgs
                              /\ flights' = (flights \ {f}) \cup {g}
      BY <1>1, <3>1, GotoFlights
    <3> QED BY <1>1, <3>2 DEF TypeOK
  <2>2. CASE flights' = flights \ {f}
    BY <2>2 DEF TypeOK
  <2> QED
    BY <2>1, <2>2 DEF FlightStep, Connect, Copy, CopyFails, Insert, InsertFails, CutOff, Ack, Nak
<1> QED BY <1>2, <1>3, <1>4, <1>5, <1>6 DEF TypeOK, Servers

LEMMA StepType == TypeOK /\ [Next]_vars => TypeOK'
<1> SUFFICES ASSUME TypeOK, [Next]_vars PROVE TypeOK'
  OBVIOUS
<1>1. CASE UNCHANGED vars
  BY <1>1 DEF TypeOK, vars, server, memory, history
<1>2. ASSUME NEW m \in Msgs, Publish(m) \/ Reject(m) PROVE TypeOK'
  BY <1>2, IngestorAssumption DEF Publish, Reject, Fetch, TypeOK, memory, history
<1>3. ASSUME NEW m \in Msgs, Expire(m) PROVE TypeOK'
  <2>1. slow' \in 0 .. MaxSlow
    BY <1>3, IngestorAssumption DEF Expire, TypeOK
  <2> QED BY <1>3, <2>1 DEF Expire, TypeOK, memory
<1>4. ASSUME NEW m \in Msgs, Collect(m) PROVE TypeOK'
  <2>1. PICK d \in Deliveries :
           /\ delivered[m] + 1 \in 1 .. MaxDeliveries
           /\ delivered' = [delivered EXCEPT ![m] = @ + 1]
           /\ srv' = [srv EXCEPT ![m] = "out"]
           /\ UNCHANGED <<kind, up, copies, history>>
           /\ \/ Flush("loop", acc \cup {d}, acc \cup {d})
              \/ acc' = acc \cup {d} /\ pend' = acc \cup {d} /\ UNCHANGED flights
    BY <1>4, CollectFacts
  <2>2. acc \cup {d} \in SUBSET Deliveries
    BY DEF TypeOK
  <2>3. /\ acc' \in SUBSET Deliveries /\ pend' = acc'
        /\ flights' \subseteq Flight /\ \A f \in flights' : f.msgs = f.rows
    <3>1. CASE Flush("loop", acc \cup {d}, acc \cup {d})
      BY <2>2, <3>1, FlushTypes DEF TypeOK
    <3>2. CASE acc' = acc \cup {d} /\ pend' = acc \cup {d} /\ UNCHANGED flights
      BY <2>2, <3>2 DEF TypeOK
    <3> QED BY <2>1, <3>1, <3>2
  <2>4. /\ delivered' \in [Msgs -> 0 .. MaxDeliveries]
        /\ srv' \in [Msgs -> {"new", "ready", "out", "acked", "termed"}]
    BY <2>1, IngestorAssumption DEF TypeOK
  <2> QED BY <2>1, <2>3, <2>4 DEF TypeOK, history
<1>5. CASE LoopFlush \/ TimerFlush
  <2>1. /\ \E who \in {"loop", "timer"} : Flush(who, acc, acc)
        /\ UNCHANGED <<server, up, copies, history>>
    BY <1>5 DEF LoopFlush, TimerFlush, TypeOK
  <2>2. acc \in SUBSET Deliveries
    BY DEF TypeOK
  <2>3. /\ acc' = {} /\ pend' = {}
        /\ flights' \subseteq Flight /\ \A f \in flights' : f.msgs = f.rows
    BY <2>1, <2>2, FlushTypes DEF TypeOK
  <2> QED BY <2>1, <2>3 DEF TypeOK, server, history
<1>6. ASSUME NEW f \in flights, FlightStep(f) PROVE TypeOK'
  BY <1>6, FlightType
<1>7. CASE Crash
  <2>1. crashes' \in 0 .. MaxCrashes
    BY <1>7, IngestorAssumption DEF Crash, TypeOK
  <2> QED BY <1>7, <2>1 DEF Crash, TypeOK, server
<1>8. CASE Restart
  BY <1>8 DEF Restart, TypeOK, server, history
<1> QED BY <1>1, <1>2, <1>3, <1>4, <1>5, <1>6, <1>7, <1>8 DEF Next

LEMMA InitType == Init => TypeOK
BY IngestorAssumption DEF Init, TypeOK

LEMMA TypeInvariance == Spec => []TypeOK
  BY InitType, StepType, PTL DEF Spec

-----------------------------------------------------------------------------
(* The other parts, by what a step does to points and messages.            *)

\* Nothing moves in the process; the server acknowledges nothing.
LEMMA QuietStep ==
  ASSUME IInv, TypeOK', UNCHANGED <<acc, flights, copies>>,
         \A m \in Msgs : delivered'[m] >= delivered[m],
         \A m \in Msgs : srv'[m] = "acked" => srv[m] = "acked"
  PROVE  IInv'
<1> USE DEF IInv
<1>1. \A d \in Deliveries : Fresh(d)' => Fresh(d)
  <2>1. \A d \in Deliveries : d[1] \in Msgs /\ d[2] \in Nat
    BY DEF Deliveries
  <2>2. \A m \in Msgs : delivered[m] \in Nat /\ delivered'[m] \in Nat
    BY IngestorAssumption DEF TypeOK
  <2> QED BY <2>1, <2>2 DEF Fresh
<1>2. AcksFollowStores' /\ AckedStored'
  BY DEF AcksFollowStores, AckedStored
<1>3. \A f \in flights : f.rows \subseteq Deliveries
  BY DEF TypeOK, Flight
<1>4. OnePlace'
  BY <1>1, <1>3 DEF OnePlace, Unstored, TypeOK
<1>5. StoredOnce'
  BY <1>1 DEF StoredOnce
<1> QED BY <1>2, <1>4, <1>5

\* A flush takes over what was collected.
LEMMA FlushStep ==
  ASSUME IInv, TypeOK', NEW who \in {"loop", "timer"}, Flush(who, acc, acc),
         UNCHANGED <<server, copies>>
  PROVE  IInv'
<1> USE DEF IInv
<1>1. PICK g \in Flight : /\ g.at = "connect" /\ g.rows = acc
                           /\ flights' = flights \cup {g} /\ acc' = {}
  BY FlushTypes DEF TypeOK
<1>2. AcksFollowStores' /\ AckedStored'
  BY <1>1 DEF AcksFollowStores, AckedStored, server
<1>3. \A d : Fresh(d)' = Fresh(d)
  BY DEF Fresh, server
<1>4. OnePlace'
  BY <1>1, <1>3 DEF OnePlace, Unstored
<1>5. StoredOnce'
  BY <1>3 DEF StoredOnce
<1> QED BY <1>2, <1>4, <1>5

\* The loop collects a delivery that was never seen before.
LEMMA CollectStep ==
  ASSUME IInv, TypeOK', NEW m \in Msgs, Collect(m)
  PROVE  IInv'
<1> USE DEF IInv
<1>1. PICK d \in Deliveries :
         /\ d = <<m, delivered[m] + 1>>
         /\ delivered' = [delivered EXCEPT ![m] = @ + 1]
         /\ srv' = [srv EXCEPT ![m] = "out"]
         /\ copies' = copies
         /\ \/ Flush("loop", acc \cup {d}, acc \cup {d})
            \/ acc' = acc \cup {d} /\ pend' = acc \cup {d} /\ UNCHANGED flights
  BY CollectFacts
<1>2. delivered \in [Msgs -> Nat] /\ \A e \in Deliveries : e[1] \in Msgs /\ e[2] \in Nat
  BY IngestorAssumption DEF TypeOK, Deliveries
<1>3. Fresh(d) /\ ~Fresh(d)' /\ \A e \in Deliveries : Fresh(e)' => Fresh(e)
  BY <1>1, <1>2 DEF Fresh
<1>4. /\ acc \subseteq Deliveries /\ \A f \in flights : f.rows \subseteq Deliveries
      /\ copies[d] = 0 /\ d \notin acc /\ \A f \in flights : d \notin f.rows
  BY <1>3 DEF TypeOK, Flight, OnePlace, StoredOnce
<1>5. StoredOnce'
  BY <1>1, <1>3 DEF StoredOnce
<1>6. AckedStored'
  BY <1>1 DEF AckedStored, TypeOK
<1>7. CASE Flush("loop", acc \cup {d}, acc \cup {d})
  <2>1. PICK g \in Flight : /\ g.at = "connect" /\ g.rows = acc \cup {d}
                             /\ flights' = flights \cup {g} /\ acc' = {}
    BY <1>4, <1>7, FlushTypes
  <2>2. AcksFollowStores'
    BY <1>1, <2>1 DEF AcksFollowStores
  <2>3. OnePlace'
    BY <1>1, <1>3, <1>4, <2>1 DEF OnePlace, Unstored
  <2> QED BY <1>5, <1>6, <2>2, <2>3
<1>8. CASE acc' = acc \cup {d} /\ UNCHANGED flights
  <2>1. AcksFollowStores'
    BY <1>1, <1>8 DEF AcksFollowStores
  <2>2. OnePlace'
    BY <1>1, <1>3, <1>4, <1>8 DEF OnePlace, Unstored
  <2> QED BY <1>5, <1>6, <2>1, <2>2
<1> QED BY <1>1, <1>7, <1>8

\* A flush goes on without storing anything.
LEMMA MoveStep ==
  ASSUME IInv, TypeOK', NEW f \in flights, NEW at \in {"copy", "insert", "nak"}, Goto(f, at),
         Unstored(f), UNCHANGED <<server, acc, copies>>
  PROVE  IInv'
<1> USE DEF IInv
<1>1. PICK g \in Flight : /\ g.at = at /\ g.rows = f.rows
                           /\ flights' = (flights \ {f}) \cup {g}
  BY GotoFlights DEF TypeOK
<1>2. AcksFollowStores' /\ AckedStored'
  BY <1>1 DEF AcksFollowStores, AckedStored, server
<1>3. \A d : Fresh(d)' = Fresh(d)
  BY DEF Fresh, server
<1>4. OnePlace'
  BY <1>1, <1>3 DEF OnePlace, Unstored
<1>5. StoredOnce'
  BY <1>3 DEF StoredOnce
<1> QED BY <1>2, <1>4, <1>5

\* A flush stores its points, and learns of it or not.
LEMMA StoreStep ==
  ASSUME IInv, TypeOK', NEW f \in flights, NEW at \in {"ack", "nak"}, Goto(f, at),
         Unstored(f), copies' = Stored(f), UNCHANGED <<server, acc>>
  PROVE  IInv'
<1> USE DEF IInv
<1>1. PICK g \in Flight : /\ g.at = at /\ g.rows = f.rows
                           /\ flights' = (flights \ {f}) \cup {g}
  BY GotoFlights DEF TypeOK
<1>2. /\ acc \subseteq Deliveries /\ \A h \in flights : h.rows \subseteq Deliveries
      /\ copies \in [Deliveries -> Nat]
  BY DEF TypeOK, Flight
<1>3. \A d \in Deliveries : copies'[d] = IF d \in f.rows THEN copies[d] + 1 ELSE copies[d]
  BY DEF Stored
<1>4. \A d : Fresh(d)' = Fresh(d)
  BY DEF Fresh, server
<1>5. AcksFollowStores'
  <2>1. \A h \in flights' : h.at = "ack" => h = g \/ h \in flights
    BY <1>1
  <2>2. \A d \in Deliveries : copies[d] > 0 => copies'[d] > 0
    BY <1>2, <1>3
  <2>3. \A d \in f.rows : copies'[d] > 0
    BY <1>2, <1>3
  <2> QED BY <1>1, <1>2, <2>1, <2>2, <2>3 DEF AcksFollowStores
<1>6. AckedStored'
  BY <1>2, <1>3 DEF AckedStored, server
<1>7. OnePlace'
  <2>1. \A d \in acc : d \notin f.rows /\ copies'[d] = 0
    BY <1>2, <1>3 DEF OnePlace
  <2>2. \A h \in flights : h # f => \A d \in h.rows : d \notin f.rows /\ copies'[d] = copies[d]
    BY <1>2, <1>3 DEF OnePlace
  <2> QED BY <1>1, <1>4, <2>1, <2>2 DEF OnePlace, Unstored
<1>8. StoredOnce'
  <2>1. \A d \in f.rows : copies[d] = 0 /\ ~Fresh(d)
    BY DEF OnePlace
  <2> QED BY <1>2, <1>3, <1>4, <2>1 DEF StoredOnce
<1> QED BY <1>5, <1>6, <1>7, <1>8

\* A flush ends; it may acknowledge its messages if its points are stored.
LEMMA LeaveStep ==
  ASSUME IInv, TypeOK', NEW f \in flights, flights' = flights \ {f},
         UNCHANGED <<acc, copies, delivered>>,
         \A m \in Msgs : srv'[m] = "acked" =>
            srv[m] = "acked" \/ (f.at = "ack" /\ m \in Messages(f.msgs))
  PROVE  IInv'
<1> USE DEF IInv
<1>1. AcksFollowStores'
  BY DEF AcksFollowStores
<1>2. AckedStored'
  <2>1. ASSUME NEW m \in Msgs, f.at = "ack", m \in Messages(f.msgs)
        PROVE  \E d \in Deliveries : d[1] = m /\ copies[d] > 0
    <3>1. PICK d \in f.rows : d[1] = m
      BY <2>1 DEF TypeOK, Messages
    <3>2. d \in Deliveries /\ copies[d] > 0
      BY <2>1, <3>1 DEF TypeOK, Flight, AcksFollowStores
    <3> QED BY <3>1, <3>2
  <2> QED BY <2>1 DEF AckedStored
<1>3. OnePlace' /\ StoredOnce'
  BY DEF OnePlace, Unstored, StoredOnce, Fresh
<1> QED BY <1>1, <1>2, <1>3

LEMMA FlightInv ==
  ASSUME IInv, TypeOK', NEW f \in flights, FlightStep(f)
  PROVE  IInv'
<1>1. CASE Connect(f) \/ CopyFails(f) \/ InsertFails(f)
  BY <1>1, MoveStep DEF Connect, CopyFails, InsertFails, Unstored
<1>2. CASE Copy(f) \/ Insert(f) \/ CutOff(f)
  BY <1>2, StoreStep DEF Copy, Insert, CutOff, Unstored
<1>3. CASE Ack(f)
  <2>1. /\ f.at = "ack" /\ flights' = flights \ {f} /\ UNCHANGED <<acc, copies, delivered>>
        /\ \E M \in SUBSET Messages(f.msgs) : srv' = Acked(M)
    BY <1>3 DEF Ack
  <2>2. \A m \in Msgs :
          srv'[m] = "acked" => srv[m] = "acked" \/ (f.at = "ack" /\ m \in Messages(f.msgs))
    BY <2>1 DEF Acked
  <2> QED BY <2>1, <2>2, LeaveStep
<1>4. CASE Nak(f)
  <2>1. flights' = flights \ {f} /\ UNCHANGED <<acc, copies, delivered>>
    BY <1>4 DEF Nak
  <2>2. \A m \in Msgs :
          srv'[m] = "acked" => srv[m] = "acked" \/ (f.at = "ack" /\ m \in Messages(f.msgs))
    BY <1>4 DEF Nak, Nakked
  <2> QED BY <2>1, <2>2, LeaveStep
<1> QED BY <1>1, <1>2, <1>3, <1>4 DEF FlightStep

-----------------------------------------------------------------------------
(* The theorems.                                                           *)

LEMMA InitIInv == Init => IInv
BY InitType DEF Init, IInv, AcksFollowStores, AckedStored, OnePlace, StoredOnce, Deliveries

LEMMA StepIInv == IInv /\ [Next]_vars => IInv'
<1> SUFFICES ASSUME IInv, [Next]_vars PROVE IInv'
  OBVIOUS
<1> USE DEF IInv
<1>0. TypeOK' /\ delivered \in [Msgs -> Nat]
  BY StepType, IngestorAssumption DEF TypeOK
<1>1. CASE UNCHANGED vars \/ Restart
  BY <1>0, <1>1, QuietStep DEF vars, server, memory, Restart
<1>2. ASSUME NEW m \in Msgs, Publish(m) \/ Expire(m) \/ Reject(m) PROVE IInv'
  <2>1. UNCHANGED <<acc, flights, copies>>
    BY <1>2 DEF Publish, Expire, Reject, Fetch, memory
  <2>2. \A n \in Msgs : delivered'[n] >= delivered[n]
    BY <1>0, <1>2 DEF Publish, Expire, Reject, Fetch
  <2>3. \A n \in Msgs : srv'[n] = "acked" => srv[n] = "acked"
    BY <1>2 DEF Publish, Expire, Reject, TypeOK
  <2> QED BY <1>0, <2>1, <2>2, <2>3, QuietStep
<1>3. ASSUME NEW m \in Msgs, Collect(m) PROVE IInv'
  BY <1>0, <1>3, CollectStep
<1>4. CASE LoopFlush \/ TimerFlush
  <2>1. (\E who \in {"loop", "timer"} : Flush(who, acc, acc)) /\ UNCHANGED <<server, copies>>
    BY <1>4 DEF LoopFlush, TimerFlush, TypeOK
  <2> QED BY <1>0, <2>1, FlushStep
<1>5. ASSUME NEW f \in flights, FlightStep(f) PROVE IInv'
  BY <1>0, <1>5, FlightInv
<1>6. CASE Crash
  <2>1. acc' = {} /\ flights' = {} /\ UNCHANGED <<server, copies>>
    BY <1>6 DEF Crash
  <2> QED BY <1>0, <2>1 DEF AcksFollowStores, AckedStored, OnePlace, StoredOnce, Fresh, server
<1> QED BY <1>1, <1>2, <1>3, <1>4, <1>5, <1>6 DEF Next

LEMMA Invariance == Spec => []IInv
  BY InitIInv, StepIInv, PTL DEF Spec

\* A message the server was told to forget is stored, whichever calls fail,
\* whichever flushes overlap and wherever the process dies.
THEOREM AcknowledgedIsStored == Spec => []AckedStored
<1>1. IInv => AckedStored
  BY DEF IInv
<1> QED BY <1>1, Invariance, PTL

-----------------------------------------------------------------------------
(* How many deliveries of one message are stored.  What may still become   *)
(* one is counted with them: the points that are held and not stored, the  *)
(* flushes that will give the message back, and the server's own right to  *)
(* deliver it.  Only a fault adds to the sum.                              *)

Stays(m) ==
  {d \in Deliveries :
     /\ d[1] = m
     /\ copies[d] > 0 \/ d \in acc \/ \E f \in flights : Unstored(f) /\ d \in f.rows}

Naks(m) == {f \in flights : f.at = "nak" /\ m \in Messages(f.rows)}

Due(m) ==
  IF srv[m] \in {"new", "ready"} \/ (srv[m] = "out" /\ ~Holds(m)) THEN 1 ELSE 0

Faults == errors + crashes + slow

Account(m) == Cardinality(Stays(m)) + Cardinality(Naks(m)) + Due(m) <= 1 + Faults

CountInv == IsFiniteSet(flights) /\ \A m \in Msgs : Account(m)

LEMMA AtMostOneMore ==
  ASSUME NEW T, NEW U, NEW x, IsFiniteSet(T), U \subseteq T \cup {x}
  PROVE  Cardinality(U) \in Nat /\ Cardinality(U) <= Cardinality(T) + 1
<1>0. Cardinality(T) \in Nat
  BY FS_CardinalityType
<1>1. IsFiniteSet(T \cup {x}) /\ Cardinality(T \cup {x}) <= Cardinality(T) + 1
  <2>1. /\ IsFiniteSet(T \cup {x})
        /\ Cardinality(T \cup {x}) = IF x \in T THEN Cardinality(T) ELSE Cardinality(T) + 1
    BY FS_AddElement
  <2> QED BY <1>0, <2>1
<1>2. IsFiniteSet(U) /\ Cardinality(U) <= Cardinality(T \cup {x})
  BY <1>1, FS_Subset
<1>3. Cardinality(U) \in Nat /\ Cardinality(T \cup {x}) \in Nat /\ Cardinality(T) \in Nat
  BY <1>1, <1>2, FS_CardinalityType
<1> QED BY <1>1, <1>2, <1>3

LEMMA AtLeastOneLess ==
  ASSUME NEW T, NEW U, NEW x \in T, IsFiniteSet(T), U \subseteq T \ {x}
  PROVE  Cardinality(U) + 1 <= Cardinality(T)
<1>1. IsFiniteSet(T \ {x}) /\ Cardinality(T \ {x}) = Cardinality(T) - 1
  BY FS_RemoveElement
<1>2. IsFiniteSet(U) /\ Cardinality(U) <= Cardinality(T \ {x})
  BY <1>1, FS_Subset
<1>3. Cardinality(U) \in Nat /\ Cardinality(T) \in Nat
  BY <1>2, FS_CardinalityType
<1> QED BY <1>1, <1>2, <1>3

LEMMA NoMore ==
  ASSUME NEW T, NEW U, IsFiniteSet(T), U \subseteq T
  PROVE  Cardinality(U) <= Cardinality(T)
BY FS_Subset

LEMMA FinitelyMany ==
  ASSUME TypeOK, IsFiniteSet(flights), NEW m \in Msgs
  PROVE  /\ IsFiniteSet(Stays(m)) /\ Cardinality(Stays(m)) \in Nat
         /\ IsFiniteSet(Naks(m)) /\ Cardinality(Naks(m)) \in Nat
         /\ Due(m) \in {0, 1} /\ Faults \in Nat
<1>1. IsFiniteSet({m} \X (1 .. MaxDeliveries))
  <2>1. IsFiniteSet({m})
    BY FS_Singleton
  <2>2. IsFiniteSet(1 .. MaxDeliveries)
    BY IngestorAssumption, FS_Interval
  <2> QED BY <2>1, <2>2, FS_Product
<1>2. Stays(m) \subseteq {m} \X (1 .. MaxDeliveries)
  BY DEF Stays, Deliveries
<1>3. IsFiniteSet(Stays(m))
  BY <1>1, <1>2, FS_Subset
<1>4. IsFiniteSet(Naks(m))
  <2>1. Naks(m) \subseteq flights
    BY DEF Naks
  <2> QED BY <2>1, FS_Subset
<1>5. Faults \in Nat
  BY IngestorAssumption DEF Faults, TypeOK
<1> QED BY <1>3, <1>4, <1>5, FS_CardinalityType DEF Due

\* The process holds a message if one of its points is collected or in a flush.
LEMMA HoldsIs ==
  ASSUME TypeOK, NEW m \in Msgs
  PROVE  Holds(m) <=> m \in Messages(acc) \/ \E f \in flights : m \in Messages(f.rows)
<1>1. pend = acc /\ \A f \in flights : f.msgs = f.rows
  BY DEF TypeOK
<1> DEFINE D == UNION {f.rows \cup f.msgs : f \in flights}
<1>2. \A d : d \in D <=> \E f \in flights : d \in f.rows
  BY <1>1
<1>3. Holds(m) <=> \E d \in acc \cup D : d[1] = m
  BY <1>1 DEF Holds, Messages
<1> HIDE DEF D
<1> QED BY <1>2, <1>3 DEF Messages

LEMMA NextTypes ==
  ASSUME TypeOK', NEW m \in Msgs
  PROVE  Due(m)' \in {0, 1} /\ Faults' \in Nat
<1>1. Due(m)' \in {0, 1}
  BY DEF Due
<1>2. errors' \in Nat /\ crashes' \in Nat /\ slow' \in Nat
  BY IngestorAssumption DEF TypeOK
<1>3. \A a, b, c \in Nat : a + b + c \in Nat
  OBVIOUS
<1> QED BY <1>1, <1>2, <1>3 DEF Faults

LEMMA Sums ==
  ASSUME NEW s \in Nat, NEW n \in Nat, NEW u \in {0, 1}, NEW F \in Nat, s + n + u <= 1 + F,
         NEW p \in Nat, NEW q \in Nat, NEW v \in {0, 1}, NEW G \in Nat,
         \/ p <= s /\ q <= n /\ v + F <= u + G
         \/ p <= s + 1 /\ q <= n /\ v = 0 /\ u = 1 /\ G = F
         \/ p <= s /\ q <= n + 1 /\ v = u /\ G = F + 1
         \/ p + 1 <= s /\ q <= n + 1 /\ v = u /\ G >= F
         \/ p <= s /\ q + 1 <= n /\ G = F
  PROVE  p + q + v <= 1 + G
OBVIOUS

LEMMA HoldsNext ==
  ASSUME TypeOK', NEW m \in Msgs
  PROVE  Holds(m)' <=> m \in Messages(acc') \/ \E f \in flights' : m \in Messages(f.rows)
<1>1. pend' = acc' /\ \A f \in flights' : f.msgs = f.rows
  BY DEF TypeOK
<1> DEFINE D == UNION {f.rows \cup f.msgs : f \in flights'}
<1>2. \A d : d \in D <=> \E f \in flights' : d \in f.rows
  BY <1>1
<1>3. Holds(m)' <=> \E d \in acc' \cup D : d[1] = m
  BY <1>1 DEF Holds, Messages
<1> HIDE DEF D
<1> QED BY <1>2, <1>3 DEF Messages

\* The ways in which a step leaves the account in order.
LEMMA Settle ==
  ASSUME TypeOK, TypeOK', IsFiniteSet(flights), NEW m \in Msgs, Account(m),
         \/ /\ Stays(m)' \subseteq Stays(m) /\ Naks(m)' \subseteq Naks(m)
            /\ Due(m)' + Faults <= Due(m) + Faults'
         \/ /\ \E d : Stays(m)' \subseteq Stays(m) \cup {d}
            /\ Naks(m)' \subseteq Naks(m)
            /\ Due(m)' = 0 /\ Due(m) = 1 /\ Faults' = Faults
         \/ /\ Stays(m)' \subseteq Stays(m)
            /\ \E g : Naks(m)' \subseteq Naks(m) \cup {g}
            /\ Due(m)' = Due(m) /\ Faults' = Faults + 1
         \/ /\ \E d \in Stays(m) : Stays(m)' \subseteq Stays(m) \ {d}
            /\ \E g : Naks(m)' \subseteq Naks(m) \cup {g}
            /\ Due(m)' = Due(m) /\ Faults' >= Faults
         \/ /\ Stays(m)' \subseteq Stays(m)
            /\ \E f \in Naks(m) : Naks(m)' \subseteq Naks(m) \ {f}
            /\ Faults' = Faults
  PROVE  Account(m)'
<1> DEFINE s == Cardinality(Stays(m))   n == Cardinality(Naks(m))   u == Due(m)
           p == Cardinality(Stays(m)')  q == Cardinality(Naks(m)')  v == Due(m)'
<1>1. /\ IsFiniteSet(Stays(m)) /\ IsFiniteSet(Naks(m))
      /\ s \in Nat /\ n \in Nat /\ u \in {0, 1} /\ Faults \in Nat
  BY FinitelyMany
<1>2. v \in {0, 1} /\ Faults' \in Nat
  BY NextTypes
<1>3. s + n + u <= 1 + Faults
  BY DEF Account
<1>4. \A d : /\ Stays(m)' \subseteq Stays(m) \cup {d} => p \in Nat /\ p <= s + 1
             /\ Naks(m)' \subseteq Naks(m) \cup {d} => q \in Nat /\ q <= n + 1
  BY <1>1, AtMostOneMore
<1>5. /\ \A d \in Stays(m) : Stays(m)' \subseteq Stays(m) \ {d} => p + 1 <= s
      /\ \A f \in Naks(m) : Naks(m)' \subseteq Naks(m) \ {f} => q + 1 <= n
  BY <1>1, AtLeastOneLess
<1>6. /\ Stays(m)' \subseteq Stays(m) => p <= s
      /\ Naks(m)' \subseteq Naks(m) => q <= n
  BY <1>1, NoMore
<1>7. p \in Nat /\ q \in Nat
  <2>1. \E d : Stays(m)' \subseteq Stays(m) \cup {d}
    OBVIOUS
  <2>2. \E g : Naks(m)' \subseteq Naks(m) \cup {g}
    OBVIOUS
  <2> QED BY <1>4, <2>1, <2>2
<1>8. p + q + v <= 1 + Faults'
  <2>1. PICK G \in Nat : G = Faults'
    BY <1>2
  <2>2. \/ p <= s /\ q <= n /\ v + Faults <= u + G
        \/ p <= s + 1 /\ q <= n /\ v = 0 /\ u = 1 /\ G = Faults
        \/ p <= s /\ q <= n + 1 /\ v = u /\ G = Faults + 1
        \/ p + 1 <= s /\ q <= n + 1 /\ v = u /\ G >= Faults
        \/ p <= s /\ q + 1 <= n /\ G = Faults
    BY <1>4, <1>5, <1>6, <2>1
  <2> HIDE DEF s, n, u, p, q, v
  <2>3. p + q + v <= 1 + G
    BY <1>1, <1>2, <1>3, <1>7, <2>2, Sums
  <2> QED BY <2>1, <2>3
<1> QED BY <1>8 DEF p, q, v, Account

\* What a flush that goes on, and one that ends, change for a message.
LEMMA GotoCounts ==
  ASSUME IInv, NEW f \in flights, NEW at \in {"connect", "copy", "insert", "ack", "nak"}, Goto(f, at),
         acc' = acc, copies' = copies \/ (Unstored(f) /\ copies' = Stored(f)),
         Unstored(f), TypeOK', NEW m \in Msgs
  PROVE  /\ Stays(m)' \subseteq Stays(m)
         /\ at # "nak" => Naks(m)' \subseteq Naks(m)
         /\ at = "nak" => \E g : Naks(m)' \subseteq Naks(m) \cup {g}
         /\ m \notin Messages(f.rows) => Naks(m)' \subseteq Naks(m)
         /\ at = "nak" /\ copies' = copies =>
              \A d \in f.rows : d[1] = m => Stays(m)' \subseteq Stays(m) \ {d}
         /\ Holds(m)' = Holds(m)
<1>1. PICK g \in Flight : /\ g.at = at /\ g.rows = f.rows
                           /\ flights' = (flights \ {f}) \cup {g}
  BY GotoFlights DEF IInv, TypeOK
<1>2. /\ acc \subseteq Deliveries /\ \A h \in flights : h.rows \subseteq Deliveries
      /\ copies \in [Deliveries -> Nat]
  BY DEF IInv, TypeOK, Flight
<1>3. \A d \in Deliveries : copies'[d] > 0 => copies[d] > 0 \/ d \in f.rows
  BY <1>2 DEF Stored
<1>4. Stays(m)' \subseteq Stays(m)
  <2> SUFFICES ASSUME NEW d \in Stays(m)' PROVE d \in Stays(m)
    OBVIOUS
  <2>1. /\ d \in Deliveries /\ d[1] = m
        /\ copies'[d] > 0 \/ d \in acc \/ \E h \in flights' : Unstored(h) /\ d \in h.rows
    BY DEF Stays
  <2>2. copies'[d] > 0 => copies[d] > 0 \/ (Unstored(f) /\ d \in f.rows)
    BY <1>3, <2>1
  <2>3. (\E h \in flights' : Unstored(h) /\ d \in h.rows)
           => \E h \in flights : Unstored(h) /\ d \in h.rows
    BY <1>1
  <2> QED BY <2>1, <2>2, <2>3 DEF Stays
<1>5. Naks(m)' \subseteq Naks(m) \cup {g}
  BY <1>1 DEF Naks
<1>6. at # "nak" \/ m \notin Messages(f.rows) => Naks(m)' \subseteq Naks(m)
  BY <1>1 DEF Naks
<1>7. ASSUME at = "nak", copies' = copies, NEW d \in f.rows, d[1] = m
      PROVE  Stays(m)' \subseteq Stays(m) \ {d}
  <2>1. copies[d] = 0 /\ d \notin acc /\ \A h \in flights : h # f => d \notin h.rows
    BY DEF IInv, OnePlace
  <2>2. \A h \in flights' : Unstored(h) => d \notin h.rows
    BY <1>1, <1>7, <2>1 DEF Unstored
  <2>3. d \notin Stays(m)'
    BY <1>7, <2>1, <2>2 DEF Stays
  <2> QED BY <1>4, <2>3
<1>8. Holds(m)' = Holds(m)
  <2>1. (\E h \in flights' : m \in Messages(h.rows)) <=> \E h \in flights : m \in Messages(h.rows)
    BY <1>1
  <2>2. Holds(m) <=> m \in Messages(acc) \/ \E h \in flights : m \in Messages(h.rows)
    BY HoldsIs DEF IInv
  <2>3. Holds(m)' <=> m \in Messages(acc) \/ \E h \in flights' : m \in Messages(h.rows)
    BY HoldsNext
  <2>4. Holds(m)' \in BOOLEAN /\ Holds(m) \in BOOLEAN
    BY DEF Holds
  <2> QED BY <2>1, <2>2, <2>3, <2>4
<1> QED BY <1>4, <1>5, <1>6, <1>7, <1>8

LEMMA FlightCounts ==
  ASSUME IInv, CountInv, NEW f \in flights, FlightStep(f), TypeOK', NEW m \in Msgs
  PROVE  Account(m)'
<1> USE DEF IInv, CountInv
<1>1. acc' = acc /\ crashes' = crashes /\ slow' = slow /\ kind' = kind
  BY DEF FlightStep, Connect, Copy, CopyFails, Insert, InsertFails, CutOff, Ack, Nak, server, history
<1>2. /\ errors' = errors => Faults' = Faults
      /\ Error => Faults' = Faults + 1
  BY <1>1, IngestorAssumption DEF Faults, Error, TypeOK
<1>3. Faults \in Nat /\ Due(m) \in {0, 1} /\ Due(m)' \in {0, 1} /\ Faults' \in Nat
  BY FinitelyMany, NextTypes
<1>4. ASSUME srv' = srv, Holds(m)' = Holds(m) PROVE Due(m)' = Due(m)
  BY <1>4 DEF Due
<1>5. m \in Messages(f.rows) => \E d \in f.rows : d[1] = m /\ (Unstored(f) => d \in Stays(m))
  <2>1. f.rows \subseteq Deliveries
    BY DEF TypeOK, Flight
  <2> QED BY <2>1 DEF Messages, Stays
<1>6. CASE Connect(f) \/ CopyFails(f) \/ InsertFails(f)
  <2>1. Unstored(f) /\ copies' = copies /\ srv' = srv
    BY <1>6 DEF Connect, CopyFails, InsertFails, Unstored, server
  <2>2. \/ (\E at \in {"copy", "insert"} : Goto(f, at)) /\ (errors' = errors \/ Error)
        \/ Goto(f, "nak") /\ (errors' = errors \/ Error)
    BY <1>6 DEF Connect, CopyFails, InsertFails
  <2>3. Faults' >= Faults
    BY <1>2, <1>3, <2>2
  <2>4. CASE \E at \in {"copy", "insert"} : Goto(f, at)
    <3>1. /\ Stays(m)' \subseteq Stays(m) /\ Naks(m)' \subseteq Naks(m)
          /\ Holds(m)' = Holds(m)
      BY <1>1, <2>1, <2>4, GotoCounts
    <3>2. Due(m)' + Faults <= Due(m) + Faults'
      BY <1>3, <1>4, <2>1, <2>3, <3>1
    <3> QED BY <3>1, <3>2, Settle
  <2>5. CASE Goto(f, "nak")
    <3>1. /\ Stays(m)' \subseteq Stays(m)
          /\ \E g : Naks(m)' \subseteq Naks(m) \cup {g}
          /\ m \notin Messages(f.rows) => Naks(m)' \subseteq Naks(m)
          /\ \A d \in f.rows : d[1] = m => Stays(m)' \subseteq Stays(m) \ {d}
          /\ Holds(m)' = Holds(m)
      BY <1>1, <2>1, <2>5, GotoCounts
    <3>2. Due(m)' = Due(m)
      BY <1>4, <2>1, <3>1
    <3>3. CASE m \in Messages(f.rows)
      <4>1. \E d \in Stays(m) : Stays(m)' \subseteq Stays(m) \ {d}
        BY <1>5, <2>1, <3>1, <3>3
      <4> QED BY <2>3, <3>1, <3>2, <4>1, Settle
    <3>4. CASE m \notin Messages(f.rows)
      <4>1. Due(m)' + Faults <= Due(m) + Faults'
        BY <1>3, <2>3, <3>2
      <4> QED BY <3>1, <3>4, <4>1, Settle
    <3> QED BY <3>3, <3>4
  <2> QED BY <2>2, <2>4, <2>5
<1>7. CASE Copy(f) \/ Insert(f)
  <2>1. Unstored(f) /\ copies' = Stored(f) /\ srv' = srv /\ errors' = errors /\ Goto(f, "ack")
    BY <1>7 DEF Copy, Insert, Unstored, server, history
  <2>2. /\ Stays(m)' \subseteq Stays(m) /\ Naks(m)' \subseteq Naks(m)
        /\ Holds(m)' = Holds(m)
    BY <1>1, <2>1, GotoCounts
  <2>3. Due(m)' + Faults <= Due(m) + Faults'
    BY <1>2, <1>3, <1>4, <2>1, <2>2
  <2> QED BY <2>2, <2>3, Settle
<1>8. CASE CutOff(f)
  <2>1. Unstored(f) /\ copies' = Stored(f) /\ srv' = srv /\ Error /\ Goto(f, "nak")
    BY <1>8 DEF CutOff, Unstored, server
  <2>2. /\ Stays(m)' \subseteq Stays(m)
        /\ \E g : Naks(m)' \subseteq Naks(m) \cup {g}
        /\ Holds(m)' = Holds(m)
    BY <1>1, <2>1, GotoCounts
  <2>3. Due(m)' = Due(m) /\ Faults' = Faults + 1
    BY <1>2, <1>4, <2>1, <2>2
  <2> QED BY <2>2, <2>3, Settle
<1>9. CASE Ack(f) \/ Nak(f)
  <2>1. flights' = flights \ {f} /\ copies' = copies
    BY <1>9 DEF Ack, Nak
  <2>2. Stays(m)' \subseteq Stays(m) /\ Naks(m)' \subseteq Naks(m)
    BY <1>1, <2>1 DEF Stays, Naks
  <2>3. m \notin Messages(f.rows) => Holds(m)' = Holds(m)
    <3>1. Holds(m) <=> m \in Messages(acc) \/ \E h \in flights : m \in Messages(h.rows)
      BY HoldsIs
    <3>2. Holds(m)' <=> m \in Messages(acc) \/ \E h \in flights' : m \in Messages(h.rows)
      BY <1>1, HoldsNext
    <3>3. Holds(m)' \in BOOLEAN /\ Holds(m) \in BOOLEAN
      BY DEF Holds
    <3> QED BY <2>1, <3>1, <3>2, <3>3
  <2>4. f.msgs = f.rows /\ srv \in [Msgs -> Servers]
    BY DEF TypeOK, Servers
  <2>5. CASE Ack(f)
    <3>1. \/ srv' = Acked(Messages(f.msgs)) /\ errors' = errors
          \/ Error /\ \E M \in SUBSET Messages(f.msgs) : srv' = Acked(M)
      BY <2>5 DEF Ack
    <3>2. srv'[m] = srv[m] \/ srv'[m] = "acked"
      BY <3>1 DEF Acked
    <3>3. CASE Error
      <4>1. Faults' = Faults + 1
        BY <1>2, <3>3
      <4>2. Due(m)' + Faults <= Due(m) + Faults'
        BY <1>3, <4>1
      <4> QED BY <2>2, <4>2, Settle
    <3>4. CASE srv' = Acked(Messages(f.msgs)) /\ errors' = errors
      <4>1. Faults' = Faults
        BY <1>2, <3>4
      <4>2. CASE m \in Messages(f.rows)
        <5>1. srv'[m] \in {"new", "ready", "out"} => srv'[m] = "new" /\ srv[m] = "new"
          BY <2>4, <3>4, <4>2 DEF Acked
        <5>2. Due(m)' <= Due(m)
          BY <1>3, <5>1 DEF Due
        <5> QED BY <1>3, <2>2, <4>1, <5>2, Settle
      <4>3. CASE m \notin Messages(f.rows)
        <5>1. srv'[m] = srv[m]
          BY <2>4, <3>4, <4>3 DEF Acked
        <5>2. Due(m)' = Due(m)
          BY <2>3, <4>3, <5>1 DEF Due
        <5> QED BY <1>3, <2>2, <4>1, <5>2, Settle
      <4> QED BY <4>2, <4>3
    <3> QED BY <3>1, <3>3, <3>4
  <2>6. CASE Nak(f)
    <3>1. f.at = "nak" /\ srv' = Nakked(Messages(f.msgs)) /\ errors' = errors
      BY <2>6 DEF Nak, history
    <3>2. Faults' = Faults
      BY <1>2, <3>1
    <3>3. CASE m \in Messages(f.rows)
      <4>1. f \in Naks(m) /\ Naks(m)' \subseteq Naks(m) \ {f}
        BY <2>1, <3>1, <3>3 DEF Naks
      <4> QED BY <2>2, <3>2, <4>1, Settle
    <3>4. CASE m \notin Messages(f.rows)
      <4>1. srv'[m] = srv[m]
        BY <2>4, <3>1, <3>4 DEF Nakked
      <4>2. Due(m)' = Due(m)
        BY <2>3, <3>4, <4>1 DEF Due
      <4> QED BY <1>3, <2>2, <3>2, <4>2, Settle
    <3> QED BY <3>3, <3>4
  <2> QED BY <1>9, <2>5, <2>6
<1> QED BY <1>6, <1>7, <1>8, <1>9 DEF FlightStep

\* Collecting a delivery uses the server's right to deliver up.
LEMMA CollectCounts ==
  ASSUME IInv, CountInv, NEW c \in Msgs, Collect(c), TypeOK', NEW m \in Msgs
  PROVE  Account(m)'
<1> USE DEF IInv, CountInv
<1>1. PICK d \in Deliveries :
         /\ d = <<c, delivered[c] + 1>>
         /\ srv' = [srv EXCEPT ![c] = "out"]
         /\ UNCHANGED <<copies, history>>
         /\ \/ Flush("loop", acc \cup {d}, acc \cup {d})
            \/ acc' = acc \cup {d} /\ pend' = acc \cup {d} /\ UNCHANGED flights
  BY CollectFacts
<1>2. \/ \E g \in Flight : /\ g.at = "connect" /\ g.rows = acc \cup {d}
                            /\ flights' = flights \cup {g} /\ acc' = {}
      \/ acc' = acc \cup {d} /\ flights' = flights
  <2>1. acc \cup {d} \in SUBSET Deliveries
    BY DEF TypeOK
  <2> QED BY <1>1, <2>1, FlushTypes
<1>3. /\ \A e : (\/ e \in acc' \/ \E h \in flights' : Unstored(h) /\ e \in h.rows)
                  => e = d \/ e \in acc \/ \E h \in flights : Unstored(h) /\ e \in h.rows
      /\ \A h \in flights' : h.at = "nak" => h \in flights
      /\ \A n : (n \in Messages(acc') \/ \E h \in flights' : n \in Messages(h.rows))
                 <=> n = c \/ n \in Messages(acc) \/ \E h \in flights : n \in Messages(h.rows)
  <2>1. d[1] = c
    BY <1>1
  <2> QED BY <1>2, <2>1 DEF Unstored, Messages
<1>4. Naks(m)' \subseteq Naks(m) /\ Stays(m)' \subseteq Stays(m) \cup {d}
  BY <1>1, <1>3 DEF Naks, Stays
<1>5. Faults' = Faults /\ Faults \in Nat
  BY <1>1, FinitelyMany DEF Faults, history
<1>6. srv \in [Msgs -> Servers] /\ srv[c] = "ready"
  BY DEF TypeOK, Servers, Collect, Fetch
<1>7. CASE m = c
  <2>1. srv'[m] = "out" /\ Holds(m)'
    BY <1>1, <1>3, <1>6, <1>7, HoldsNext
  <2>2. Due(m)' = 0 /\ Due(m) = 1
    BY <1>6, <1>7, <2>1 DEF Due
  <2> QED BY <1>4, <1>5, <2>2, Settle
<1>8. CASE m # c
  <2>1. srv'[m] = srv[m]
    BY <1>1, <1>6, <1>8
  <2>2. Holds(m)' = Holds(m)
    <3>1. Holds(m)' <=> Holds(m)
      BY <1>3, <1>8, HoldsIs, HoldsNext
    <3>2. Holds(m)' \in BOOLEAN /\ Holds(m) \in BOOLEAN
      BY DEF Holds
    <3> QED BY <3>1, <3>2
  <2>3. Due(m)' = Due(m)
    BY <2>1, <2>2 DEF Due
  <2>4. Stays(m)' \subseteq Stays(m)
    <3>1. d[1] # m
      BY <1>1, <1>8
    <3> QED BY <1>4, <3>1 DEF Stays
  <2>5. Due(m) \in {0, 1}
    BY FinitelyMany
  <2> QED BY <1>4, <1>5, <2>3, <2>4, <2>5, Settle
<1> QED BY <1>7, <1>8

\* A flush takes over what is collected; the sum is the same.
LEMMA FlushCounts ==
  ASSUME IInv, CountInv, NEW who \in {"loop", "timer"}, Flush(who, acc, acc),
         UNCHANGED <<server, copies, history>>, TypeOK', NEW m \in Msgs
  PROVE  Account(m)'
<1> USE DEF IInv, CountInv
<1>1. PICK g \in Flight : /\ g.at = "connect" /\ g.rows = acc
                           /\ flights' = flights \cup {g} /\ acc' = {}
  BY FlushTypes DEF TypeOK
<1>2. Naks(m)' \subseteq Naks(m) /\ Stays(m)' \subseteq Stays(m)
  BY <1>1 DEF Naks, Stays, Unstored
<1>3. Holds(m)' = Holds(m)
  <2>1. Holds(m) <=> m \in Messages(acc) \/ \E h \in flights : m \in Messages(h.rows)
    BY HoldsIs
  <2>2. Holds(m)' <=> m \in Messages(acc') \/ \E h \in flights' : m \in Messages(h.rows)
    BY HoldsNext
  <2>3. m \notin Messages({})
    BY DEF Messages
  <2>4. Holds(m)' \in BOOLEAN /\ Holds(m) \in BOOLEAN
    BY DEF Holds
  <2> QED BY <1>1, <2>1, <2>2, <2>3, <2>4
<1>4. Due(m)' = Due(m) /\ Due(m) \in {0, 1}
  BY <1>3, FinitelyMany DEF Due, server
<1>5. Faults' = Faults /\ Faults \in Nat
  BY FinitelyMany DEF Faults, history
<1> QED BY <1>2, <1>4, <1>5, Settle

\* Every other step of the server or the process.
LEMMA OtherCounts ==
  ASSUME IInv, CountInv, TypeOK', NEW m \in Msgs,
         \/ UNCHANGED vars \/ Restart \/ Crash
         \/ \E c \in Msgs : Publish(c) \/ Expire(c) \/ Reject(c)
  PROVE  Account(m)'
<1> USE DEF IInv, CountInv
<1>1. Faults \in Nat /\ Due(m) \in {0, 1} /\ Due(m)' \in {0, 1} /\ Faults' \in Nat
  BY FinitelyMany, NextTypes
<1>2. srv \in [Msgs -> Servers]
  BY DEF TypeOK, Servers
<1>3. CASE Crash
  <2>1. /\ acc' = {} /\ flights' = {} /\ copies' = copies
        /\ errors' = errors /\ slow' = slow /\ crashes' = crashes + 1
    BY <1>3 DEF Crash
  <2>2. Stays(m)' \subseteq Stays(m) /\ Naks(m)' \subseteq Naks(m)
    BY <2>1 DEF Stays, Naks
  <2>3. Faults' = Faults + 1
    BY <2>1, IngestorAssumption DEF Faults, TypeOK
  <2>4. Due(m)' + Faults <= Due(m) + Faults'
    BY <1>1, <2>3
  <2> QED BY <2>2, <2>4, Settle
<1>4. ASSUME UNCHANGED <<acc, pend, flights, copies>>, Due(m)' + Faults <= Due(m) + Faults'
      PROVE  Account(m)'
  <2>1. Stays(m)' = Stays(m) /\ Naks(m)' = Naks(m)
    BY <1>4 DEF Stays, Naks
  <2> QED BY <1>4, <2>1, Settle
<1>5. ASSUME UNCHANGED <<acc, pend, flights>> PROVE Holds(m)' = Holds(m)
  BY <1>5 DEF Holds
<1>6. CASE UNCHANGED vars \/ Restart
  <2>1. UNCHANGED <<acc, pend, flights, copies, srv, history>>
    BY <1>6 DEF vars, memory, server, Restart
  <2>2. Due(m)' = Due(m) /\ Faults' = Faults
    BY <1>5, <2>1 DEF Due, Faults, history
  <2> QED BY <1>1, <1>4, <2>1, <2>2
<1>7. ASSUME NEW c \in Msgs, Publish(c) \/ Reject(c) PROVE Account(m)'
  <2>1. UNCHANGED <<acc, pend, flights, copies, history>>
    BY <1>7 DEF Publish, Reject, Fetch, memory
  <2>2. \/ srv'[m] = srv[m]
        \/ srv[m] \in {"new", "ready"} /\ srv'[m] \in {"ready", "termed"}
    BY <1>2, <1>7 DEF Publish, Reject, Fetch
  <2>3. Due(m)' <= Due(m)
    BY <1>1, <1>5, <2>1, <2>2 DEF Due
  <2>4. Faults' = Faults
    BY <2>1 DEF Faults, history
  <2> QED BY <1>1, <1>4, <2>1, <2>3, <2>4
<1>8. ASSUME NEW c \in Msgs, Expire(c) PROVE Account(m)'
  <2>1. /\ UNCHANGED <<acc, pend, flights, copies, errors, crashes>>
        /\ srv[c] = "out" /\ srv' = [srv EXCEPT ![c] = "ready"]
        /\ slow' = IF Holds(c) THEN slow + 1 ELSE slow
    BY <1>8 DEF Expire, memory
  <2>2. Faults' = IF Holds(c) THEN Faults + 1 ELSE Faults
    BY <2>1, IngestorAssumption DEF Faults, TypeOK
  <2>3. CASE m = c /\ ~Holds(c)
    <3>1. Due(m) = 1
      BY <2>1, <2>3 DEF Due
    <3> QED BY <1>1, <1>4, <2>1, <2>2, <2>3, <3>1
  <2>4. CASE m = c /\ Holds(c)
    BY <1>1, <1>4, <2>1, <2>2, <2>4
  <2>5. CASE m # c
    <3>1. srv'[m] = srv[m]
      BY <1>2, <2>1, <2>5
    <3>2. Due(m)' = Due(m)
      BY <1>5, <2>1, <3>1 DEF Due
    <3> QED BY <1>1, <1>4, <2>1, <2>2, <3>2
  <2> QED BY <2>3, <2>4, <2>5
<1> QED BY <1>3, <1>6, <1>7, <1>8

LEMMA InitCounts == Init => CountInv
<1> SUFFICES ASSUME Init PROVE CountInv
  OBVIOUS
<1>1. IsFiniteSet(flights) /\ flights = {}
  BY FS_EmptySet DEF Init
<1>2. ASSUME NEW m \in Msgs PROVE Account(m)
  <2>1. Stays(m) = {} /\ Naks(m) = {}
    BY DEF Init, Stays, Naks
  <2>2. Due(m) = 1 /\ Faults = 0
    BY DEF Init, Due, Faults
  <2>3. Cardinality({}) = 0
    BY FS_EmptySet
  <2> QED BY <2>1, <2>2, <2>3 DEF Account
<1> QED BY <1>1, <1>2 DEF CountInv

LEMMA StepCounts == IInv /\ CountInv /\ [Next]_vars => CountInv'
<1> SUFFICES ASSUME IInv, CountInv, [Next]_vars PROVE CountInv'
  OBVIOUS
<1>1. TypeOK'
  BY StepIInv DEF IInv
<1>2. IsFiniteSet(flights')
  <2>1. \E g : flights' \subseteq flights \cup {g}
    BY DEF Next, vars, memory, Publish, Expire, Collect, Reject, Fetch, MaybeFlush, Flush, LoopFlush,
        TimerFlush, FlightStep, Connect, Copy, CopyFails, Insert, InsertFails, CutOff, Ack, Nak,
        Goto, Crash, Restart
  <2>2. \A g : IsFiniteSet(flights \cup {g})
    BY FS_AddElement DEF CountInv
  <2> QED BY <2>1, <2>2, FS_Subset
<1>3. ASSUME NEW m \in Msgs PROVE Account(m)'
  <2>1. CASE \/ UNCHANGED vars \/ Restart \/ Crash
             \/ \E c \in Msgs : Publish(c) \/ Expire(c) \/ Reject(c)
    BY <1>1, <2>1, OtherCounts
  <2>2. CASE \E c \in Msgs : Collect(c)
    BY <1>1, <2>2, CollectCounts
  <2>3. CASE LoopFlush \/ TimerFlush
    <3>1. /\ \E who \in {"loop", "timer"} : Flush(who, acc, acc)
          /\ UNCHANGED <<server, copies, history>>
      BY <2>3 DEF LoopFlush, TimerFlush, IInv, TypeOK
    <3> QED BY <1>1, <3>1, FlushCounts
  <2>4. CASE \E f \in flights : FlightStep(f)
    BY <1>1, <2>4, FlightCounts
  <2> QED BY <2>1, <2>2, <2>3, <2>4 DEF Next
<1> QED BY <1>2, <1>3 DEF CountInv

\* No delivery is stored twice, and the stored deliveries of a message are at
\* most one more than the failing calls, lost acks, crashes and passed ack_waits.
THEOREM DuplicatesAreFaults == Spec => []DuplicatesNeedFaults
<1>1. IInv /\ CountInv => DuplicatesNeedFaults
  <2> SUFFICES ASSUME IInv, CountInv, NEW m \in Msgs
               PROVE  /\ \A d \in Deliveries : copies[d] <= 1
                      /\ Cardinality({d \in Deliveries : d[1] = m /\ copies[d] > 0})
                           <= 1 + errors + crashes + slow
    BY DEF DuplicatesNeedFaults
  <2> DEFINE S == {d \in Deliveries : d[1] = m /\ copies[d] > 0}
  <2>1. \A d \in Deliveries : copies[d] <= 1
    BY DEF IInv, StoredOnce
  <2>2. /\ IsFiniteSet(Stays(m)) /\ Cardinality(Stays(m)) \in Nat
        /\ Cardinality(Naks(m)) \in Nat /\ Due(m) \in {0, 1} /\ Faults \in Nat
    BY FinitelyMany DEF IInv, CountInv
  <2>3. IsFiniteSet(S) /\ Cardinality(S) <= Cardinality(Stays(m)) /\ Cardinality(S) \in Nat
    <3>1. S \subseteq Stays(m)
      BY DEF Stays
    <3> HIDE DEF S
    <3> QED BY <2>2, <3>1, FS_Subset, FS_CardinalityType
  <2>4. Cardinality(Stays(m)) + Cardinality(Naks(m)) + Due(m) <= 1 + Faults
    BY DEF CountInv, Account
  <2> HIDE DEF S
  <2>5. Cardinality(S) <= 1 + Faults
    BY <2>2, <2>3, <2>4
  <2>6. 1 + Faults = 1 + errors + crashes + slow
    BY IngestorAssumption DEF Faults, IInv, TypeOK
  <2> QED BY <2>1, <2>5, <2>6 DEF S
<1>2. Init => IInv /\ CountInv
  BY InitIInv, InitCounts
<1>3. IInv /\ CountInv /\ [Next]_vars => (IInv /\ CountInv)'
  BY StepIInv, StepCounts
<1> QED BY <1>1, <1>2, <1>3, PTL DEF Spec
=============================================================================
