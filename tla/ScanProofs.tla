---------------------------- MODULE ScanProofs -----------------------------
(***************************************************************************)
(* Proofs about the scan loop (ScanCycle), and about the log buffer it     *)
(* writes to (LogBuffer, at the end), for every graph on any number of     *)
(* nodes, of cycles, deployments, presses, logs and failing INSERTs.       *)
(*                                                                         *)
(*   - OrderCorrect: Kahn's algorithm on any graph.  After each turn of    *)
(*     the loop sorted and queue hold distinct nodes, a sorted node is     *)
(*     behind all its sources, and a node is in one of the two exactly     *)
(*     when its sources are all sorted (SortInv).  So an empty queue means *)
(*     that each node left has a source left, and that is a cycle.         *)
(*   - InputsFresh: a port that was ever set has an edge from a node whose *)
(*     own ports were (Fed); a visited node whose ports are set has an     *)
(*     output (Visited), and an output has reached the ports behind it     *)
(*     (Handed).  Sources come first in the order, so a port that is set   *)
(*     when its node is reached has been set again in this cycle.          *)
(*   - JumpCurrent: executors of a flow succeed each other (Succession),   *)
(*     so only one that is stopped in a cycle can replace a jump value.    *)
(***************************************************************************)
EXTENDS ScanCycle, LogBuffer, TLAPS, FiniteSetTheorems, SequenceTheorems, WellFoundedInduction

-----------------------------------------------------------------------------
(* Recursion.                                                              *)

\* Induction over the natural numbers, for a set instead of a formula.
LEMMA AllNumbers ==
  ASSUME NEW S, 0 \in S, \A n \in Nat : n \in S => n + 1 \in S
  PROVE  \A n \in Nat : n \in S
<1> SUFFICES ASSUME Nat \ S # {} PROVE FALSE
  OBVIOUS
<1> DEFINE R == OpToRel(<, Nat)
<1>1. \A x, y \in Nat : <<x, y>> \in R <=> x < y
  BY DEF OpToRel
<1>2. IsWellFoundedOn(R, Nat)
  BY NatLessThanWellFounded
<1> HIDE DEF R
<1>3. Nat \ S \subseteq Nat
  OBVIOUS
<1>4. PICK x \in Nat \ S : \A y \in Nat \ S : ~(<<y, x>> \in R)
  BY <1>2, <1>3, WFMin, Zenon
<1>5. x \in Nat /\ x # 0
  BY <1>4
<1>6. x - 1 \in Nat /\ x - 1 < x /\ (x - 1) + 1 = x
  BY <1>5
<1>7. x - 1 \in S
  BY <1>1, <1>4, <1>5, <1>6
<1> QED BY <1>4, <1>6, <1>7

\* f counts up to N from a by the steps of g.
Counts(f, a, g) == f = [n \in 0 .. N |-> IF n = 0 THEN a ELSE g[<<n, f[n - 1]>>]]

LEMMA CountsExist ==
  ASSUME NEW T, NEW a \in T, NEW g \in [Nat \X T -> T]
  PROVE  \E f \in [0 .. N -> T] : Counts(f, a, g)
<1> USE ScanCycleAssumption
<1> DEFINE Upto(f, n) == f[0] = a /\ \A k \in 1 .. N : k <= n => f[k] = g[<<k, f[k - 1]>>]
           S == {n \in Nat : \E f \in [0 .. N -> T] : Upto(f, n)}
<1>1. 0 \in S
  <2>1. [k \in 0 .. N |-> a] \in [0 .. N -> T] /\ Upto([k \in 0 .. N |-> a], 0)
    OBVIOUS
  <2> QED BY <2>1
<1>2. ASSUME NEW n \in Nat, n \in S PROVE n + 1 \in S
  <2>1. PICK f \in [0 .. N -> T] : Upto(f, n)
    BY <1>2
  <2>2. CASE n + 1 \in 1 .. N
    <3>1. n \in 0 .. N /\ n + 1 \in 0 .. N /\ f[n] \in T /\ <<n + 1, f[n]>> \in Nat \X T
      BY <2>2
    <3> DEFINE x == g[<<n + 1, f[n]>>]
               h == [f EXCEPT ![n + 1] = x]
    <3>2. x \in T
      BY <3>1
    <3>3. h \in [0 .. N -> T] /\ h[n + 1] = x /\ \A k \in 0 .. N : k # n + 1 => h[k] = f[k]
      BY <3>1, <3>2
    <3> HIDE DEF h
    <3>4. h[0] = a
      BY <2>1, <3>3
    <3>5. ASSUME NEW k \in 1 .. N, k <= n + 1 PROVE h[k] = g[<<k, h[k - 1]>>]
      <4>1. k - 1 \in 0 .. N /\ k \in 0 .. N /\ k - 1 # n + 1 /\ (k # n + 1 => k <= n)
        BY <3>5
      <4>2. h[k - 1] = f[k - 1]
        BY <3>3, <4>1
      <4>3. CASE k = n + 1
        <5>1. k - 1 = n
          BY <4>3
        <5> QED BY <3>3, <4>2, <4>3, <5>1
      <4>4. CASE k # n + 1
        BY <2>1, <3>3, <4>1, <4>2, <4>4
      <4> QED BY <4>3, <4>4
    <3>6. Upto(h, n + 1)
      BY <3>4, <3>5
    <3> HIDE DEF Upto
    <3>7. n + 1 \in Nat
      OBVIOUS
    <3> QED BY <3>3, <3>6, <3>7, Zenon
  <2>3. CASE n + 1 \notin 1 .. N
    <3>1. \A k \in 1 .. N : k <= n
      BY <2>3
    <3>2. Upto(f, n + 1)
      BY <2>1, <3>1
    <3> HIDE DEF Upto
    <3> QED BY <3>2
  <2> QED BY <2>2, <2>3
<1> HIDE DEF S
<1>3. N \in S
  BY <1>1, <1>2, AllNumbers
<1>4. PICK f \in [0 .. N -> T] : Upto(f, N)
  BY <1>3 DEF S
<1>5. f = [n \in 0 .. N |-> f[n]] /\ \A n \in 0 .. N : f[n] = IF n = 0 THEN a ELSE g[<<n, f[n - 1]>>]
  BY <1>4
<1> QED BY <1>5 DEF Counts

-----------------------------------------------------------------------------
(* Sequences of nodes.                                                     *)

Distinct(s) == \A i, j \in 1 .. Len(s) : s[i] = s[j] => i = j

LEMMA EmptyNodes == <<>> \in Seq(Nodes) /\ Distinct(<<>>) /\ Elements(<<>>) = {}
BY DEF Distinct, Elements

LEMMA AppendNode ==
  ASSUME NEW s \in Seq(Nodes), NEW n \in Nodes
  PROVE  /\ Append(s, n) \in Seq(Nodes) /\ Len(Append(s, n)) = Len(s) + 1
         /\ \A i \in 1 .. Len(s) : Append(s, n)[i] = s[i]
         /\ Append(s, n)[Len(s) + 1] = n
         /\ Elements(Append(s, n)) = Elements(s) \cup {n}
         /\ Distinct(s) /\ n \notin Elements(s) => Distinct(Append(s, n))
<1> DEFINE u == Append(s, n)
<1>1. /\ u \in Seq(Nodes) /\ Len(u) = Len(s) + 1
      /\ \A i \in 1 .. Len(s) : u[i] = s[i]
      /\ u[Len(s) + 1] = n
  BY AppendProperties
<1>2. Len(s) \in Nat
  OBVIOUS
<1> HIDE DEF u
<1>3. \A i \in 1 .. Len(u) : i \in 1 .. Len(s) \/ i = Len(s) + 1
  BY <1>1, <1>2
<1>4. Elements(u) = Elements(s) \cup {n}
  <2>1. ASSUME NEW i \in 1 .. Len(u) PROVE u[i] \in Elements(s) \cup {n}
    BY <1>1, <1>3 DEF Elements
  <2>2. ASSUME NEW i \in 1 .. Len(s) PROVE s[i] \in Elements(u)
    <3>1. i \in 1 .. Len(u) /\ u[i] = s[i]
      BY <1>1, <1>2
    <3> QED BY <3>1 DEF Elements
  <2>3. n \in Elements(u)
    <3>1. Len(s) + 1 \in 1 .. Len(u)
      BY <1>1, <1>2
    <3> QED BY <1>1, <3>1 DEF Elements
  <2> QED BY <2>1, <2>2, <2>3 DEF Elements
<1>5. ASSUME Distinct(s), n \notin Elements(s) PROVE Distinct(u)
  <2> SUFFICES ASSUME NEW i \in 1 .. Len(u), NEW j \in 1 .. Len(u), u[i] = u[j] PROVE i = j
    BY DEF Distinct
  <2>1. CASE i \in 1 .. Len(s) /\ j \in 1 .. Len(s)
    BY <1>1, <1>5, <2>1 DEF Distinct
  <2>2. CASE i \in 1 .. Len(s) /\ j = Len(s) + 1
    BY <1>1, <1>5, <2>2 DEF Elements
  <2>3. CASE i = Len(s) + 1 /\ j \in 1 .. Len(s)
    BY <1>1, <1>5, <2>3 DEF Elements
  <2> QED BY <1>3, <2>1, <2>2, <2>3
<1> QED BY <1>1, <1>4, <1>5 DEF u

LEMMA ConcatNodes ==
  ASSUME NEW s \in Seq(Nodes), NEW t \in Seq(Nodes)
  PROVE  /\ s \o t \in Seq(Nodes)
         /\ Elements(s \o t) = Elements(s) \cup Elements(t)
         /\ Distinct(s) /\ Distinct(t) /\ Elements(s) \cap Elements(t) = {} => Distinct(s \o t)
<1> DEFINE u == s \o t
<1>1. /\ u \in Seq(Nodes) /\ Len(u) = Len(s) + Len(t) /\ Len(s) \in Nat /\ Len(t) \in Nat
      /\ \A i \in 1 .. Len(s) + Len(t) : u[i] = IF i <= Len(s) THEN s[i] ELSE t[i - Len(s)]
  BY ConcatProperties
<1> HIDE DEF u
<1>2. /\ \A i \in 1 .. Len(s) : i \in 1 .. Len(u) /\ u[i] = s[i]
      /\ \A i \in 1 .. Len(t) : i + Len(s) \in 1 .. Len(u) /\ u[i + Len(s)] = t[i]
  <2>1. ASSUME NEW i \in 1 .. Len(s) PROVE i \in 1 .. Len(u) /\ u[i] = s[i]
    BY <1>1
  <2>2. ASSUME NEW i \in 1 .. Len(t)
        PROVE  i + Len(s) \in 1 .. Len(u) /\ u[i + Len(s)] = t[i]
    <3>1. i + Len(s) \in 1 .. Len(s) + Len(t) /\ ~(i + Len(s) <= Len(s)) /\ (i + Len(s)) - Len(s) = i
      BY <1>1
    <3>2. u[i + Len(s)] = t[(i + Len(s)) - Len(s)]
      BY <1>1, <3>1
    <3> QED BY <1>1, <3>1, <3>2
  <2> QED BY <2>1, <2>2
<1>3. \A i \in 1 .. Len(u) : \/ i \in 1 .. Len(s) /\ u[i] = s[i]
                             \/ i > Len(s) /\ i - Len(s) \in 1 .. Len(t) /\ u[i] = t[i - Len(s)]
  BY <1>1
<1>4. Elements(u) = Elements(s) \cup Elements(t)
  <2>1. ASSUME NEW i \in 1 .. Len(u) PROVE u[i] \in Elements(s) \cup Elements(t)
    BY <1>3 DEF Elements
  <2>2. ASSUME NEW i \in 1 .. Len(s) PROVE s[i] \in Elements(u)
    <3>1. i \in 1 .. Len(u) /\ u[i] = s[i]
      BY <1>2
    <3> QED BY <3>1 DEF Elements
  <2>3. ASSUME NEW i \in 1 .. Len(t) PROVE t[i] \in Elements(u)
    <3>1. i + Len(s) \in 1 .. Len(u) /\ u[i + Len(s)] = t[i]
      BY <1>2
    <3> QED BY <3>1 DEF Elements
  <2> QED BY <2>1, <2>2, <2>3 DEF Elements
<1>5. ASSUME Distinct(s), Distinct(t), Elements(s) \cap Elements(t) = {} PROVE Distinct(u)
  <2> SUFFICES ASSUME NEW i \in 1 .. Len(u), NEW j \in 1 .. Len(u), u[i] = u[j] PROVE i = j
    BY DEF Distinct
  <2>1. \A k \in 1 .. Len(s) : s[k] \in Elements(s)
    BY DEF Elements
  <2>2. \A k \in 1 .. Len(t) : t[k] \in Elements(t)
    BY DEF Elements
  <2>3. CASE i \in 1 .. Len(s) /\ u[i] = s[i]
    BY <1>3, <1>5, <2>1, <2>2, <2>3 DEF Distinct
  <2>4. CASE i > Len(s) /\ i - Len(s) \in 1 .. Len(t) /\ u[i] = t[i - Len(s)]
    <3>1. j > Len(s) /\ j - Len(s) \in 1 .. Len(t) /\ u[j] = t[j - Len(s)]
      BY <1>3, <1>5, <2>1, <2>2, <2>4
    <3>2. i - Len(s) = j - Len(s)
      BY <1>5, <2>4, <3>1 DEF Distinct
    <3> QED BY <1>1, <3>2
  <2> QED BY <1>3, <2>3, <2>4
<1> QED BY <1>1, <1>4, <1>5 DEF u

\* As many different nodes as the sequence is long.
LEMMA DistinctCounts ==
  ASSUME NEW s \in Seq(Nodes), Distinct(s)
  PROVE  /\ Len(s) = N <=> Elements(s) = Nodes
         /\ Len(s) <= N
<1> USE ScanCycleAssumption
<1>1. IsFiniteSet(Nodes) /\ Cardinality(Nodes) = N
  BY FS_Interval DEF Nodes
<1>2. Len(s) \in Nat /\ s \in [1 .. Len(s) -> Nodes] /\ Elements(s) \subseteq Nodes
  BY DEF Elements
<1>3. IsFiniteSet(1 .. Len(s)) /\ Cardinality(1 .. Len(s)) = Len(s)
  <2>1. PICK k \in Nat : k = Len(s)
    BY <1>2
  <2>2. IsFiniteSet(1 .. k) /\ Cardinality(1 .. k) = k
    BY FS_Interval
  <2> QED BY <2>1, <2>2
<1>4. s \in Bijection(1 .. Len(s), Elements(s))
  <2>1. s \in [1 .. Len(s) -> Elements(s)]
    BY <1>2 DEF Elements
  <2>2. s \in Injection(1 .. Len(s), Elements(s))
    BY <2>1 DEF Injection, IsInjective, Distinct
  <2>3. s \in Surjection(1 .. Len(s), Elements(s))
    BY <2>1 DEF Surjection, Elements
  <2> QED BY <2>2, <2>3 DEF Bijection
<1>5. Cardinality(Elements(s)) = Len(s)
  BY <1>3, <1>4, FS_Bijection DEF ExistsBijection
<1>6. Cardinality(Elements(s)) <= N /\ (Cardinality(Elements(s)) = N => Elements(s) = Nodes)
  BY <1>1, <1>2, FS_Subset
<1> QED BY <1>1, <1>5, <1>6

-----------------------------------------------------------------------------
(* Listing lists each node of a set once.                                  *)

Lists(f, S) ==
  f = [n \in 0 .. N |->
         IF n = 0 THEN <<>> ELSE IF n \in S THEN Append(f[n - 1], n) ELSE f[n - 1]]

LEMMA ListsExist ==
  ASSUME NEW S \in SUBSET Nodes PROVE \E f \in [0 .. N -> Seq(Nodes)] : Lists(f, S)
<1> USE ScanCycleAssumption
<1> DEFINE g == [p \in Nat \X Seq(Nodes) |-> IF p[1] \in S THEN Append(p[2], p[1]) ELSE p[2]]
<1>1. g \in [Nat \X Seq(Nodes) -> Seq(Nodes)]
  <2>1. ASSUME NEW n \in Nat, NEW s \in Seq(Nodes), n \in S PROVE Append(s, n) \in Seq(Nodes)
    BY <2>1
  <2> QED BY <2>1
<1>2. \A n \in Nat, s \in Seq(Nodes) : g[<<n, s>>] = IF n \in S THEN Append(s, n) ELSE s
  OBVIOUS
<1> HIDE DEF g
<1>3. PICK f \in [0 .. N -> Seq(Nodes)] : Counts(f, <<>>, g)
  BY <1>1, CountsExist, EmptyNodes
<1>4. ASSUME NEW n \in 0 .. N
      PROVE  f[n] = IF n = 0 THEN <<>> ELSE IF n \in S THEN Append(f[n - 1], n) ELSE f[n - 1]
  <2>1. f[n] = IF n = 0 THEN <<>> ELSE g[<<n, f[n - 1]>>]
    BY <1>3 DEF Counts
  <2>2. n # 0 => n \in Nat /\ n - 1 \in 0 .. N /\ f[n - 1] \in Seq(Nodes)
    OBVIOUS
  <2> QED BY <1>2, <2>1, <2>2
<1>5. f = [n \in 0 .. N |-> f[n]]
  OBVIOUS
<1>6. Lists(f, S)
  BY <1>4, <1>5 DEF Lists
<1> QED BY <1>6

LEMMA ListingIs ==
  ASSUME NEW S \in SUBSET Nodes
  PROVE  /\ Listing[S] \in Seq(Nodes) /\ Distinct(Listing[S])
         /\ Elements(Listing[S]) = S
<1> USE ScanCycleAssumption
<1> DEFINE f == CHOOSE f : Lists(f, S)
<1>1. Listing[S] = f[N]
  BY DEF Listing, Lists
<1>2. Lists(f, S)
  BY ListsExist, Zenon
<1> HIDE DEF f
<1>3. \A n \in 0 .. N :
        f[n] = IF n = 0 THEN <<>> ELSE IF n \in S THEN Append(f[n - 1], n) ELSE f[n - 1]
  BY <1>2, Zenon DEF Lists
<1> DEFINE Good(n) == /\ f[n] \in Seq(Nodes) /\ Distinct(f[n])
                      /\ Elements(f[n]) = S \cap (1 .. n)
           K == {n \in Nat : n <= N => Good(n)}
<1>4. 0 \in K
  <2>1. f[0] = <<>> /\ S \cap (1 .. 0) = {}
    BY <1>3
  <2> QED BY <2>1, EmptyNodes
<1>5. ASSUME NEW n \in Nat, n \in K PROVE n + 1 \in K
  <2> SUFFICES ASSUME n + 1 <= N PROVE Good(n + 1)
    OBVIOUS
  <2>1. f[n + 1] = IF n + 1 \in S THEN Append(f[n], n + 1) ELSE f[n]
    <3>1. n + 1 \in 0 .. N /\ n + 1 # 0 /\ (n + 1) - 1 = n
      OBVIOUS
    <3> QED BY <1>3, <3>1
  <2>2. Good(n) /\ n + 1 \in Nodes
    BY <1>5 DEF Nodes
  <2>3. CASE n + 1 \in S
    <3>1. n + 1 \notin Elements(f[n])
      BY <2>2
    <3>2. S \cap (1 .. n + 1) = (S \cap (1 .. n)) \cup {n + 1}
      BY <2>3 DEF Nodes
    <3> QED BY <2>1, <2>2, <2>3, <3>1, <3>2, AppendNode
  <2>4. CASE n + 1 \notin S
    <3>1. S \cap (1 .. n + 1) = S \cap (1 .. n)
      BY <2>4 DEF Nodes
    <3> QED BY <2>1, <2>2, <2>4, <3>1
  <2> QED BY <2>3, <2>4
<1>6. N \in K
  <2> HIDE DEF K
  <2>1. \A n \in Nat : n \in K
    BY <1>4, <1>5, AllNumbers
  <2> QED BY <2>1
<1>7. Good(N)
  BY <1>6
<1>8. S \cap (1 .. N) = S
  BY DEF Nodes
<1> QED BY <1>1, <1>7, <1>8

-----------------------------------------------------------------------------
(* The topological sort.                                                   *)

SortState == [queue : Seq(Nodes), sorted : Seq(Nodes)]

\* What is sorted lies behind its sources; what is queued has all its sources
\* sorted, and every node of which that is true is one or the other.
SortInv(E, s) ==
  /\ s \in SortState
  /\ Distinct(s.sorted) /\ Distinct(s.queue)
  /\ Elements(s.sorted) \cap Elements(s.queue) = {}
  /\ \A i \in 1 .. Len(s.sorted) :
       Sources(E, s.sorted[i]) \subseteq {s.sorted[j] : j \in 1 .. (i - 1)}
  /\ \A n \in Nodes :
       Sources(E, n) \subseteq Elements(s.sorted)
         <=> n \in Elements(s.sorted) \cup Elements(s.queue)

LEMMA HeadAndTail ==
  ASSUME NEW s \in Seq(Nodes), s # <<>>
  PROVE  /\ Head(s) \in Nodes /\ Tail(s) \in Seq(Nodes)
         /\ Elements(s) = {Head(s)} \cup Elements(Tail(s))
         /\ Distinct(s) => Distinct(Tail(s)) /\ Head(s) \notin Elements(Tail(s))
<1> DEFINE u == Tail(s)
<1>1. /\ Head(s) \in Nodes /\ Head(s) = s[1] /\ u \in Seq(Nodes)
      /\ Len(s) \in Nat /\ Len(s) >= 1 /\ Len(u) = Len(s) - 1
      /\ \A i \in 1 .. Len(u) : u[i] = s[i + 1]
  <2>1. Len(s) \in Nat /\ Len(s) >= 1
    BY EmptySeq
  <2> QED BY <2>1, HeadTailProperties
<1> HIDE DEF u
<1>2. \A i \in 1 .. Len(u) : i + 1 \in 1 .. Len(s) /\ u[i] = s[i + 1]
  BY <1>1
<1>3. \A i \in 1 .. Len(s) : i = 1 \/ (i - 1 \in 1 .. Len(u) /\ u[i - 1] = s[i])
  BY <1>1
<1>4. 1 \in 1 .. Len(s)
  BY <1>1
<1>5. Elements(s) = {s[1]} \cup Elements(u)
  <2>1. ASSUME NEW i \in 1 .. Len(s) PROVE s[i] \in {s[1]} \cup Elements(u)
    BY <1>3 DEF Elements
  <2>2. ASSUME NEW i \in 1 .. Len(u) PROVE u[i] \in Elements(s)
    <3>1. i + 1 \in 1 .. Len(s) /\ u[i] = s[i + 1]
      BY <1>2
    <3> QED BY <3>1 DEF Elements
  <2>3. s[1] \in Elements(s)
    BY <1>4 DEF Elements
  <2> QED BY <2>1, <2>2, <2>3 DEF Elements
<1>6. ASSUME Distinct(s) PROVE Distinct(u) /\ s[1] \notin Elements(u)
  <2>1. ASSUME NEW i \in 1 .. Len(u), NEW j \in 1 .. Len(u), u[i] = u[j] PROVE i = j
    <3>1. i + 1 = j + 1
      BY <1>2, <1>6, <2>1 DEF Distinct
    <3> QED BY <3>1, <1>1
  <2>2. ASSUME NEW i \in 1 .. Len(u), s[1] = u[i] PROVE FALSE
    <3>1. 1 = i + 1
      BY <1>2, <1>4, <1>6, <2>2 DEF Distinct
    <3> QED BY <3>1, <1>1
  <2> QED BY <2>1, <2>2 DEF Distinct, Elements
<1> QED BY <1>1, <1>5, <1>6 DEF u

LEMMA StepKeeps ==
  ASSUME NEW E, NEW s, SortInv(E, s), s.queue # <<>>
  PROVE  SortInv(E, Step(E, s)) /\ Len(Step(E, s).sorted) = Len(s.sorted) + 1
<1> DEFINE n == Head(s.queue)
           V == Elements(s.sorted)
           Q == Elements(Tail(s.queue))
           free == {t \in Targets(E, n) : Sources(E, t) \ V = {n}}
           q == Tail(s.queue) \o Listing[free]
           v == Append(s.sorted, n)
<1>1. Step(E, s) = [queue |-> q, sorted |-> v]
  BY DEF Step
<1>2. s.queue \in Seq(Nodes) /\ s.sorted \in Seq(Nodes)
  BY DEF SortInv, SortState
<1>3. /\ n \in Nodes /\ Tail(s.queue) \in Seq(Nodes) /\ Elements(s.queue) = {n} \cup Q
      /\ Distinct(Tail(s.queue)) /\ n \notin Q
  BY <1>2, HeadAndTail DEF SortInv
<1>4. free \in SUBSET Nodes
  BY DEF Targets
<1>5. /\ V \cap ({n} \cup Q) = {}
      /\ \A t \in Nodes : Sources(E, t) \subseteq V <=> t \in V \cup {n} \cup Q
  BY <1>3 DEF SortInv
<1>6. free = {t \in Nodes : n \in Sources(E, t) /\ Sources(E, t) \subseteq V \cup {n}}
  <2>1. \A t \in Nodes : t \in Targets(E, n) <=> n \in Sources(E, t)
    BY <1>3 DEF Targets, Sources
  <2>2. \A t \in Nodes : n \in Sources(E, t) =>
           (Sources(E, t) \ V = {n} <=> Sources(E, t) \subseteq V \cup {n})
    BY <1>5
  <2>3. Targets(E, n) \subseteq Nodes
    BY DEF Targets
  <2> QED BY <2>1, <2>2, <2>3
<1>7. free \cap (V \cup {n} \cup Q) = {}
  BY <1>3, <1>5, <1>6
<1> HIDE DEF n, V, Q, free
<1>8. /\ v \in Seq(Nodes) /\ Len(v) = Len(s.sorted) + 1 /\ Elements(v) = V \cup {n}
      /\ \A i \in 1 .. Len(s.sorted) : v[i] = s.sorted[i]
      /\ v[Len(s.sorted) + 1] = n
      /\ Distinct(v)
  BY <1>2, <1>3, <1>5, AppendNode DEF SortInv, V
<1>9. /\ q \in Seq(Nodes) /\ Elements(q) = Q \cup free /\ Distinct(q)
  <2>1. Listing[free] \in Seq(Nodes) /\ Distinct(Listing[free]) /\ Elements(Listing[free]) = free
    BY <1>4, ListingIs
  <2>2. Elements(Tail(s.queue)) \cap Elements(Listing[free]) = {}
    BY <1>7, <2>1 DEF Q
  <2> HIDE DEF q
  <2>3. q = Tail(s.queue) \o Listing[free]
    BY DEF q
  <2> QED BY <1>3, <2>1, <2>2, <2>3, ConcatNodes DEF Q
<1> HIDE DEF v, q
<1>10. ASSUME NEW t \in Nodes
       PROVE  Sources(E, t) \subseteq V \cup {n} <=> t \in V \cup {n} \cup Q \cup free
  BY <1>3, <1>5, <1>6
<1>11. ASSUME NEW i \in 1 .. Len(v)
       PROVE  Sources(E, v[i]) \subseteq {v[j] : j \in 1 .. (i - 1)}
  <2>1. Len(s.sorted) \in Nat
    BY <1>2
  <2>2. CASE i \in 1 .. Len(s.sorted)
    <3>1. Sources(E, s.sorted[i]) \subseteq {s.sorted[j] : j \in 1 .. (i - 1)}
      BY <2>2 DEF SortInv
    <3>2. \A j \in 1 .. (i - 1) : v[j] = s.sorted[j]
      BY <1>8, <2>1, <2>2
    <3> QED BY <1>8, <2>2, <3>1, <3>2
  <2>3. CASE i = Len(s.sorted) + 1
    <3>1. Sources(E, n) \subseteq V
      BY <1>3, <1>5
    <3>2. V = {v[j] : j \in 1 .. (i - 1)}
      <4>1. i - 1 = Len(s.sorted)
        BY <2>1, <2>3
      <4> QED BY <1>8, <4>1 DEF V, Elements
    <3> QED BY <1>8, <2>3, <3>1, <3>2
  <2>4. i \in 1 .. Len(s.sorted) \/ i = Len(s.sorted) + 1
    BY <1>8, <2>1
  <2> QED BY <2>2, <2>3, <2>4
<1> DEFINE z == [queue |-> q, sorted |-> v]
<1>12. z \in SortState /\ z.sorted = v /\ z.queue = q
  BY <1>8, <1>9 DEF SortState
<1> HIDE DEF z
<1>13. SortInv(E, z)
  <2>1. Elements(v) \cap Elements(q) = {}
    BY <1>3, <1>5, <1>7, <1>8, <1>9
  <2>2. \A t \in Nodes :
          Sources(E, t) \subseteq Elements(v) <=> t \in Elements(v) \cup Elements(q)
    <3> TAKE t \in Nodes
    <3>1. Elements(v) \cup Elements(q) = V \cup {n} \cup Q \cup free
      BY <1>8, <1>9
    <3> QED BY <1>8, <1>10, <3>1
  <2>3. Distinct(v) /\ Distinct(q)
    BY <1>8, <1>9
  <2> HIDE DEF Distinct, Elements, Sources
  <2> QED BY <1>11, <1>12, <2>1, <2>2, <2>3 DEF SortInv
<1> QED BY <1>1, <1>8, <1>12, <1>13 DEF z

First(E) == [queue |-> Listing[{n \in Nodes : Sources(E, n) = {}}], sorted |-> <<>>]
Sorts(f, E) == f = [k \in 0 .. N |-> IF k = 0 THEN First(E) ELSE Step(E, f[k - 1])]

LEMMA StepType ==
  ASSUME NEW E, NEW s \in SortState PROVE Step(E, s) \in SortState
<1>1. CASE s.queue = <<>>
  BY <1>1 DEF Step
<1>2. CASE s.queue # <<>>
  <2> DEFINE n == Head(s.queue)
             free == {t \in Targets(E, n) : Sources(E, t) \ Elements(s.sorted) = {n}}
             q == Tail(s.queue) \o Listing[free]
             v == Append(s.sorted, n)
  <2>1. s.queue \in Seq(Nodes) /\ s.sorted \in Seq(Nodes)
    BY DEF SortState
  <2>2. n \in Nodes /\ Tail(s.queue) \in Seq(Nodes)
    BY <1>2, <2>1, HeadAndTail
  <2>3. free \in SUBSET Nodes
    BY DEF Targets
  <2>4. Listing[free] \in Seq(Nodes)
    BY <2>3, ListingIs
  <2>5. Step(E, s) = [queue |-> q, sorted |-> v]
    BY <1>2 DEF Step
  <2> HIDE DEF free
  <2>6. q \in Seq(Nodes)
    BY <2>2, <2>4, ConcatNodes
  <2>7. v \in Seq(Nodes)
    BY <2>1, <2>2, AppendNode
  <2> HIDE DEF q, v
  <2> QED BY <2>5, <2>6, <2>7 DEF SortState
<1> QED BY <1>1, <1>2

LEMMA FirstIs == ASSUME NEW E PROVE SortInv(E, First(E)) /\ Len(First(E).sorted) = 0
<1> DEFINE S == {n \in Nodes : Sources(E, n) = {}}
           q == Listing[S]
<1>1. S \in SUBSET Nodes
  OBVIOUS
<1>2. q \in Seq(Nodes) /\ Distinct(q) /\ Elements(q) = S
  <2> HIDE DEF S
  <2> QED BY <1>1, ListingIs
<1>3. First(E) = [queue |-> q, sorted |-> <<>>]
  BY DEF First
<1> HIDE DEF q
<1>4. First(E) \in SortState /\ First(E).queue = q /\ First(E).sorted = <<>>
  BY <1>2, <1>3, EmptyNodes DEF SortState
<1>5. \A n \in Nodes : Sources(E, n) \subseteq {} <=> n \in {} \cup S
  OBVIOUS
<1>6. Len(<<>>) = 0 /\ \A i \in 1 .. Len(<<>>) : FALSE
  OBVIOUS
<1> HIDE DEF S
<1> QED BY <1>2, <1>4, <1>5, <1>6, EmptyNodes DEF SortInv

LEMMA SortsExist == ASSUME NEW E PROVE \E f \in [0 .. N -> SortState] : Sorts(f, E)
<1> USE ScanCycleAssumption
<1> DEFINE g == [p \in Nat \X SortState |-> Step(E, p[2])]
<1>1. g \in [Nat \X SortState -> SortState]
  BY StepType
<1>2. \A n \in Nat, s \in SortState : g[<<n, s>>] = Step(E, s)
  OBVIOUS
<1> HIDE DEF g
<1>3. First(E) \in SortState
  BY FirstIs DEF SortInv
<1>4. PICK f \in [0 .. N -> SortState] : Counts(f, First(E), g)
  BY <1>1, <1>3, CountsExist
<1>5. ASSUME NEW n \in 0 .. N PROVE f[n] = IF n = 0 THEN First(E) ELSE Step(E, f[n - 1])
  <2>1. f[n] = IF n = 0 THEN First(E) ELSE g[<<n, f[n - 1]>>]
    BY <1>4 DEF Counts
  <2>2. n # 0 => n \in Nat /\ n - 1 \in 0 .. N /\ f[n - 1] \in SortState
    OBVIOUS
  <2> QED BY <1>2, <2>1, <2>2
<1>6. f = [n \in 0 .. N |-> f[n]]
  OBVIOUS
<1>7. Sorts(f, E)
  BY <1>5, <1>6 DEF Sorts
<1> QED BY <1>7

\* Where the loop ends.
LEMMA SortEnds ==
  ASSUME NEW E
  PROVE  \E s : /\ SortInv(E, s)
                /\ s.queue = <<>> \/ Len(s.sorted) = N
                /\ TopologicalSort(E) = IF Len(s.sorted) = N THEN s.sorted ELSE <<>>
<1> USE ScanCycleAssumption
<1> DEFINE f == CHOOSE f : Sorts(f, E)
<1>1. TopologicalSort(E) = IF Len(f[N].sorted) = N THEN f[N].sorted ELSE <<>>
  BY DEF TopologicalSort, Sorts, First
<1>2. Sorts(f, E)
  BY SortsExist, Zenon
<1> HIDE DEF f
<1>3. \A n \in 0 .. N : f[n] = IF n = 0 THEN First(E) ELSE Step(E, f[n - 1])
  BY <1>2, Zenon DEF Sorts
<1> DEFINE Good(n) == SortInv(E, f[n]) /\ (f[n].queue = <<>> \/ Len(f[n].sorted) = n)
           K == {n \in Nat : n <= N => Good(n)}
<1>4. 0 \in K
  <2>1. f[0] = First(E)
    BY <1>3
  <2> QED BY <2>1, FirstIs
<1>5. ASSUME NEW n \in Nat, n \in K PROVE n + 1 \in K
  <2> SUFFICES ASSUME n + 1 <= N PROVE Good(n + 1)
    OBVIOUS
  <2>1. f[n + 1] = Step(E, f[n])
    <3>1. n + 1 \in 0 .. N /\ n + 1 # 0 /\ (n + 1) - 1 = n
      OBVIOUS
    <3> QED BY <1>3, <3>1
  <2>2. Good(n)
    BY <1>5
  <2>3. CASE f[n].queue = <<>>
    <3>1. f[n + 1] = f[n]
      BY <2>1, <2>3 DEF Step
    <3> QED BY <2>2, <2>3, <3>1
  <2>4. CASE f[n].queue # <<>>
    <3>1. SortInv(E, f[n + 1]) /\ Len(f[n + 1].sorted) = Len(f[n].sorted) + 1
      BY <2>1, <2>2, <2>4, StepKeeps
    <3> QED BY <2>2, <2>4, <3>1
  <2> QED BY <2>3, <2>4
<1>6. N \in K
  <2> HIDE DEF K
  <2>1. \A n \in Nat : n \in K
    BY <1>4, <1>5, AllNumbers
  <2> QED BY <2>1
<1>7. Good(N)
  BY <1>6
<1> QED BY <1>1, <1>7

\* Some nodes all have a source among themselves.
Cyclic(E) == \E S \in (SUBSET Nodes) \ {{}} : \A n \in S : Sources(E, n) \cap S # {}

\* Every node once, behind all its sources.
Ordered(E, o) ==
  /\ o \in Seq(Nodes) /\ Len(o) = N /\ Distinct(o) /\ Elements(o) = Nodes
  /\ \A i, j \in 1 .. N : <<o[i], o[j]>> \in E => i < j

\* Kahn's algorithm orders the nodes, or finds a cycle.
LEMMA TopologicalSortIs ==
  ASSUME NEW E
  PROVE  /\ Cyclic(E) => TopologicalSort(E) = <<>>
         /\ ~Cyclic(E) => Ordered(E, TopologicalSort(E))
<1>0. N \in Nat
  BY ScanCycleAssumption
<1> USE <1>0
<1>1. PICK s : /\ SortInv(E, s)
               /\ s.queue = <<>> \/ Len(s.sorted) = N
               /\ TopologicalSort(E) = IF Len(s.sorted) = N THEN s.sorted ELSE <<>>
  BY SortEnds
<1>2. PICK o : o = s.sorted
  OBVIOUS
<1>3. o \in Seq(Nodes) /\ Distinct(o) /\ s.queue \in Seq(Nodes) /\ Len(o) \in Nat
  BY <1>1, <1>2 DEF SortInv, SortState
<1>4. Len(o) = N <=> Elements(o) = Nodes
  BY <1>3, DistinctCounts
<1>5. \A i \in 1 .. Len(o) : Sources(E, o[i]) \subseteq {o[j] : j \in 1 .. (i - 1)}
  <2>1. \A i \in 1 .. Len(s.sorted) :
          Sources(E, s.sorted[i]) \subseteq {s.sorted[j] : j \in 1 .. (i - 1)}
    BY <1>1, Zenon DEF SortInv
  <2> QED BY <1>2, <2>1, Zenon
<1>6. ASSUME Len(o) = N PROVE ~Cyclic(E) /\ Ordered(E, o)
  <2>1. ASSUME NEW S \in SUBSET Nodes, \A n \in S : Sources(E, n) \cap S # {} PROVE S = {}
    <3> DEFINE K == {n \in Nat : \A i \in 1 .. N : i <= n => o[i] \notin S}
    <3>1. 0 \in K
      OBVIOUS
    <3>2. ASSUME NEW n \in Nat, n \in K PROVE n + 1 \in K
      <4> SUFFICES ASSUME n + 1 \in 1 .. N, o[n + 1] \in S PROVE FALSE
        BY <3>2
      <4>1. PICK t \in Sources(E, o[n + 1]) : t \in S
        BY <2>1
      <4>2. PICK j \in 1 .. ((n + 1) - 1) : t = o[j]
        BY <1>5, <1>6, <4>1
      <4>3. j \in 1 .. N /\ j <= n
        BY <4>2
      <4> QED BY <3>2, <4>1, <4>2, <4>3
    <3> HIDE DEF K
    <3>3. \A n \in Nat : n \in K
      BY <3>1, <3>2, AllNumbers
    <3>4. N \in K
      BY <3>3
    <3>5. \A i \in 1 .. N : o[i] \notin S
      BY <3>4 DEF K
    <3> QED BY <1>4, <1>6, <3>5 DEF Elements
  <2>2. ASSUME NEW i \in 1 .. N, NEW j \in 1 .. N, <<o[i], o[j]>> \in E PROVE i < j
    <3>1. o[i] \in Nodes
      BY <1>3, <1>6
    <3>2. o[i] \in Sources(E, o[j])
      BY <2>2, <3>1 DEF Sources
    <3>3. PICK k \in 1 .. (j - 1) : o[i] = o[k]
      BY <1>5, <1>6, <3>2
    <3>4. k \in 1 .. Len(o) /\ i \in 1 .. Len(o) /\ k < j
      BY <1>6, <3>3
    <3>5. i = k
      BY <1>3, <3>3, <3>4 DEF Distinct
    <3> QED BY <3>4, <3>5
  <2>3. ~Cyclic(E)
    BY <2>1 DEF Cyclic
  <2>4. Elements(o) = Nodes
    BY <1>4, <1>6
  <2>5. Ordered(E, o)
    <3> HIDE DEF Distinct, Elements, Sources
    <3> QED BY <1>3, <1>6, <2>2, <2>4 DEF Ordered
  <2> QED BY <2>3, <2>5
<1>7. ASSUME Len(o) # N PROVE Cyclic(E)
  <2>1. s.queue = <<>>
    BY <1>1, <1>2, <1>7
  <2>2. \A n \in Nodes : Sources(E, n) \subseteq Elements(o) <=> n \in Elements(o)
    BY <1>1, <1>2, <2>1, EmptyNodes DEF SortInv
  <2> DEFINE S == Nodes \ Elements(o)
  <2>3. S # {}
    <3>1. Elements(o) \subseteq Nodes
      BY <1>3 DEF Elements
    <3> QED BY <1>4, <1>7, <3>1
  <2>4. \A n \in S : Sources(E, n) \cap S # {}
    BY <2>2 DEF Sources
  <2> QED BY <2>3, <2>4 DEF Cyclic
<1> QED BY <1>1, <1>2, <1>6, <1>7

-----------------------------------------------------------------------------
(* The invariant.                                                          *)

\* An executor that had a cycle has the order of its flow.
Sorted(e) ==
  /\ order[e] = IF cycle[e] = 0 THEN <<>> ELSE Order[flow]
  /\ pos[e] > 0 => order[e] # <<>>

\* Port p of executor e was ever set.
Set(e, p) == inp[e][p].at > 0

\* The ports of n that have an edge were all set, and n is no comment.
Served(e, n) ==
  /\ flow.kind[n] # "comment"
  /\ \A s \in Sources(ExecutionEdges(flow), n) : Set(e, Port(flow, <<s, n>>))

\* A port is set only when a node it has an edge from was served.
Fed(e) ==
  \A d \in ExecutionEdges(flow) : Set(e, Port(flow, d)) =>
    \E b \in ExecutionEdges(flow) : Port(flow, b) = Port(flow, d) /\ Served(e, b[1])

\* An output of the cycle has reached the ports behind it.
Handed(e) ==
  pos[e] > 0 => \A d \in ExecutionEdges(flow) :
    out[e][d[1]] # "none" => inp[e][Port(flow, d)].at = cycle[e]

\* A node that was visited and served has an output.
Visited(e) ==
  pos[e] > 0 => \A i \in 1 .. (pos[e] - 1) :
    Served(e, order[e][i]) => out[e][order[e][i]] # "none"

\* A node that is awaited was ready.
WasReady(e) ==
  busy[e] => pos[e] > 0 /\ flow.kind[Here(e)] \in {"lax", "strict"} /\ Ready(e, Here(e))

CycleInv(e) == Sorted(e) /\ Fed(e) /\ Handed(e) /\ Visited(e) /\ WasReady(e)

\* Executors run one after the other.
Succession ==
  \A e \in Executors :
    /\ run[e] = "on" => /\ phase = "deployed"
                        /\ \A d \in Executors : (d < e => run[d] = "off") /\ (d > e => run[d] = "new")
    /\ run[e] = "new" => pos[e] = 0 /\ ~busy[e]

\* The jump value of a Jump Out that had its turn is there, or an executor
\* before this one has replaced it.
Jumped ==
  \A e \in Executors, n \in Nodes :
    (run[e] = "on" /\ pos[e] > 0 /\ flow.kind[n] = "jump-out" /\ out[e][n] = "value") =>
      jump = <<e, cycle[e]>> \/ (jump[1] \in Executors /\ jump[1] < e)

IInv == TypeOK /\ (\A e \in Executors : CycleInv(e)) /\ Succession /\ Jumped

-----------------------------------------------------------------------------
(* One executor.                                                           *)

LEMMA OrderIs ==
  ASSUME flow \in Flows
  PROVE  /\ Order[flow] \in Seq(Nodes) /\ Len(Order[flow]) \in {0, N}
         /\ Order[flow] # <<>> => Ordered(ExecutionEdges(flow), Order[flow])
         /\ IF Cyclic(ExecutionEdges(flow)) THEN Order[flow] = <<>>
            ELSE Ordered(ExecutionEdges(flow), Order[flow])
<1>1. PICK g \in Flows : g = flow
  OBVIOUS
<1>2. Order[g] = TopologicalSort(ExecutionEdges(g))
  BY DEF Order
<1>3. PICK E : E = ExecutionEdges(g)
  OBVIOUS
<1>4. /\ Cyclic(E) => TopologicalSort(E) = <<>>
      /\ ~Cyclic(E) => Ordered(E, TopologicalSort(E))
  BY TopologicalSortIs
<1>5. <<>> \in Seq(Nodes) /\ Len(<<>>) = 0
  OBVIOUS
<1> QED BY <1>1, <1>2, <1>3, <1>4, <1>5 DEF Ordered

LEMMA EdgesAre ==
  ASSUME NEW g \in Flows
  PROVE  /\ ExecutionEdges(g) \subseteq Edges
         /\ \A d \in ExecutionEdges(g) : Port(g, d) \in Ports
<1>1. g.edges \subseteq Edges /\ g.handle \in [g.edges -> Handles]
  BY ScanCycleAssumption
<1>2. ExecutionEdges(g) \subseteq Edges
  BY <1>1 DEF ExecutionEdges
<1>3. ASSUME NEW d \in ExecutionEdges(g) PROVE Port(g, d) \in Ports
  <2>1. d[2] \in Nodes /\ (d \in g.edges => g.handle[d] \in Handles)
    BY <1>1, <1>2 DEF Edges
  <2> QED BY <2>1 DEF Port, Ports
<1> QED BY <1>2, <1>3

\* While a cycle is under way there is an order, and a node at its place.
LEMMA Underway ==
  ASSUME TypeOK, NEW e \in Executors, Sorted(e), pos[e] > 0
  PROVE  /\ Ordered(ExecutionEdges(flow), order[e]) /\ Here(e) \in Nodes
         /\ pos[e] \in 1 .. N /\ cycle[e] > 0 /\ cycle[e] \in Nat
         /\ order[e] \in [1 .. N -> Nodes]
<1> USE ScanCycleAssumption
<1>1. /\ flow \in Flows /\ pos[e] \in 0 .. N /\ cycle[e] \in 0 .. MaxCycles
  BY DEF TypeOK
<1>2. cycle[e] > 0 /\ order[e] = Order[flow] /\ Order[flow] # <<>>
  BY <1>1 DEF Sorted
<1>3. Ordered(ExecutionEdges(flow), order[e])
  BY <1>1, <1>2, OrderIs
<1>4. order[e] \in Seq(Nodes) /\ Len(order[e]) = N
  BY <1>3 DEF Ordered
<1>5. order[e] \in [1 .. N -> Nodes]
  BY <1>4
<1> QED BY <1>1, <1>2, <1>3, <1>5 DEF Here

\* A node that is ready has on each port what a source produced in this cycle.
LEMMA ReadyIsFresh ==
  ASSUME TypeOK, NEW e \in Executors, CycleInv(e), pos[e] > 0, Ready(e, Here(e))
  PROVE  \A s \in Sources(ExecutionEdges(flow), Here(e)) :
           /\ inp[e][Port(flow, <<s, Here(e)>>)].at = cycle[e]
           /\ \E r \in Sources(ExecutionEdges(flow), Here(e)) : out[e][r] # "none"
<1> DEFINE E == ExecutionEdges(flow)
           n == Here(e)
           o == order[e]
<1>1. Sorted(e) /\ Fed(e) /\ Handed(e) /\ Visited(e) /\ flow \in Flows
  BY DEF CycleInv, TypeOK
<1>2. Ordered(E, o) /\ n \in Nodes /\ pos[e] \in 1 .. N
  BY <1>1, Underway
<1> SUFFICES ASSUME NEW s \in Sources(E, n)
             PROVE  /\ inp[e][Port(flow, <<s, n>>)].at = cycle[e]
                    /\ \E r \in Sources(E, n) : out[e][r] # "none"
  OBVIOUS
<1>3. s \in Nodes /\ <<s, n>> \in E
  BY DEF Sources
<1>4. CASE out[e][s] # "none"
  BY <1>1, <1>3, <1>4 DEF Handed
<1>5. CASE Set(e, Port(flow, <<s, n>>))
  <2>1. PICK b \in E : Port(flow, b) = Port(flow, <<s, n>>) /\ Served(e, b[1])
    BY <1>1, <1>3, <1>5 DEF Fed
  <2>2. b[2] = n
    BY <2>1 DEF Port
  <2>3. b \in Edges
    BY <1>1, EdgesAre
  <2>4. b[1] \in Nodes /\ b = <<b[1], n>>
    BY <2>2, <2>3 DEF Edges
  <2>5. PICK i \in 1 .. N : o[i] = b[1]
    BY <1>2, <2>4 DEF Ordered, Elements
  <2>6. i < pos[e]
    BY <1>2, <2>4, <2>5 DEF Ordered, Here
  <2>7. i \in 1 .. (pos[e] - 1)
    BY <1>2, <2>6, ScanCycleAssumption
  <2>8. out[e][b[1]] # "none"
    BY <1>1, <2>1, <2>5, <2>7 DEF Visited
  <2>9. inp[e][Port(flow, b)].at = cycle[e]
    BY <1>1, <2>8 DEF Handed
  <2>10. b[1] \in Sources(E, n)
    BY <2>4 DEF Sources
  <2> QED BY <2>1, <2>8, <2>9, <2>10
<1> QED BY <1>4, <1>5 DEF Ready, Set

\* Nothing of executor e changes.
Same(e) ==
  /\ flow' = flow /\ cycle'[e] = cycle[e] /\ order'[e] = order[e] /\ pos'[e] = pos[e]
  /\ busy'[e] = busy[e] /\ out'[e] = out[e] /\ inp'[e] = inp[e]

LEMMA SameKeeps ==
  ASSUME NEW e \in Executors, CycleInv(e), Same(e) PROVE CycleInv(e)'
BY DEF Same, CycleInv, Sorted, Fed, Handed, Visited, WasReady, Served, Set, Ready, Here

\* A cycle begins.
LEMMA TickKeeps ==
  ASSUME TypeOK, NEW e \in Executors, CycleInv(e), Tick(e) PROVE CycleInv(e)'
<1> USE ScanCycleAssumption
<1>1. /\ order \in [Executors -> Seq(Nodes)] /\ pos \in [Executors -> 0 .. N]
      /\ cycle \in [Executors -> 0 .. MaxCycles] /\ out \in [Executors -> [Nodes -> Outputs]]
      /\ flow \in Flows
  BY DEF TypeOK
<1>2. /\ cycle'[e] = cycle[e] + 1 /\ order'[e] = Order[flow] /\ flow' = flow
      /\ busy'[e] = busy[e] /\ inp'[e] = inp[e] /\ pos[e] = 0
  BY <1>1 DEF Tick
<1>3. \/ Order[flow] = <<>> /\ pos'[e] = 0
      \/ Order[flow] # <<>> /\ pos'[e] = 1 /\ out'[e] = [n \in Nodes |-> "none"]
  BY <1>1, <1>2 DEF Tick
<1>4. Sorted(e)'
  BY <1>1, <1>2, <1>3 DEF Sorted
<1>5. Fed(e)'
  BY <1>2 DEF CycleInv, Fed, Served, Set
<1>6. Handed(e)'
  <2>1. ASSUME NEW d \in ExecutionEdges(flow), pos'[e] > 0 PROVE out'[e][d[1]] = "none"
    <3>1. d[1] \in Nodes
      BY <1>1, EdgesAre DEF Edges
    <3> QED BY <1>3, <2>1, <3>1
  <2> QED BY <1>2, <2>1 DEF Handed
<1>7. Visited(e)'
  BY <1>3 DEF Visited
<1>8. WasReady(e)'
  BY <1>2 DEF CycleInv, WasReady
<1> QED BY <1>4, <1>5, <1>6, <1>7, <1>8 DEF CycleInv

\* The place after this one, if the cycle goes on.
LEMMA NextPlace ==
  ASSUME TypeOK, NEW e \in Executors, Sorted(e), pos[e] > 0, Advance(e)
  PROVE  /\ pos'[e] = 0 \/ pos'[e] = pos[e] + 1
         /\ \A i \in 1 .. (pos'[e] - 1) : i \in 1 .. N /\ (i \in 1 .. (pos[e] - 1) \/ i = pos[e])
<1>1. pos[e] \in 1 .. N
  BY Underway
<1>2. pos \in [Executors -> 0 .. N]
  BY DEF TypeOK
<1>3. pos'[e] = IF pos[e] = N THEN 0 ELSE pos[e] + 1
  BY <1>2 DEF Advance
<1> QED BY <1>1, <1>3, ScanCycleAssumption

\* A node has an output, and the cycle goes on.
LEMMA ProduceKeeps ==
  ASSUME TypeOK, NEW e \in Executors, CycleInv(e), pos[e] > 0,
         flow.kind[Here(e)] # "comment", Ready(e, Here(e)),
         NEW result \in Outputs \ {"none"},
         Produce(e, Here(e), result), Advance(e),
         flow' = flow, cycle' = cycle, order' = order, ~busy'[e]
  PROVE  CycleInv(e)'
<1> USE ScanCycleAssumption
<1> DEFINE E == ExecutionEdges(flow)
           n == Here(e)
           o == order[e]
           c == cycle[e]
<1>1. Sorted(e) /\ Fed(e) /\ Handed(e) /\ Visited(e)
  BY DEF CycleInv
<1>2. Ordered(E, o) /\ n \in Nodes /\ pos[e] \in 1 .. N /\ c > 0 /\ o \in [1 .. N -> Nodes]
  BY <1>1, Underway
<1>3. /\ flow \in Flows /\ out \in [Executors -> [Nodes -> Outputs]]
      /\ inp \in [Executors -> [Ports -> Input]]
  BY DEF TypeOK
<1>4. E \subseteq Edges /\ \A d \in E : Port(flow, d) \in Ports
  BY <1>3, EdgesAre
<1>5. out'[e] = [out[e] EXCEPT ![n] = result]
  BY <1>3 DEF Produce
<1>6. out'[e][n] = result /\ \A m \in Nodes \ {n} : out'[e][m] = out[e][m]
  BY <1>2, <1>3, <1>5
<1>7. \A p \in Ports : IF \E d \in E : d[1] = n /\ Port(flow, d) = p
                      THEN inp'[e][p].at = c ELSE inp'[e][p] = inp[e][p]
  BY <1>3 DEF Produce
<1>8. \A p \in Ports : Set(e, p) => Set(e, p)'
  BY <1>2, <1>7 DEF Set
<1>9. Served(e, n)
  BY <1>2, ReadyIsFresh DEF Set, Served
<1>10. \A d \in E : d[1] \in Nodes
  BY <1>4 DEF Edges
<1>11. ExecutionEdges(flow)' = E /\ cycle'[e] = c /\ order'[e] = o
  OBVIOUS
<1>12. Sorted(e)'
  BY <1>1, <1>2, <1>11 DEF Sorted, Ordered
<1>13. ASSUME NEW m, Served(e, m) PROVE Served(e, m)'
  <2>1. ASSUME NEW s \in Sources(E, m) PROVE Set(e, Port(flow, <<s, m>>))'
    <3>1. Set(e, Port(flow, <<s, m>>))
      BY <1>13 DEF Served
    <3>2. Port(flow, <<s, m>>) \in Ports
      BY <1>4 DEF Sources
    <3>3. inp'[e][Port(flow, <<s, m>>)].at > 0
      BY <1>8, <3>1, <3>2 DEF Set
    <3> QED BY <3>3 DEF Set, Port
  <2> QED BY <1>11, <1>13, <2>1 DEF Served
<1>14. Fed(e)'
  <2>1. ASSUME NEW d \in E, inp'[e][Port(flow, d)].at > 0
        PROVE  \E b \in E : Port(flow, b) = Port(flow, d) /\ Served(e, b[1])
    <3>1. CASE \E b \in E : b[1] = n /\ Port(flow, b) = Port(flow, d)
      BY <1>9, <3>1
    <3>2. CASE ~ \E b \in E : b[1] = n /\ Port(flow, b) = Port(flow, d)
      <4>1. Set(e, Port(flow, d))
        BY <1>4, <1>7, <2>1, <3>2 DEF Set
      <4> QED BY <1>1, <4>1 DEF Fed
    <3> QED BY <3>1, <3>2
  <2>2. ASSUME NEW d \in E, inp'[e][Port(flow, d)].at > 0
        PROVE  \E b \in E : Port(flow, b) = Port(flow, d) /\ Served(e, b[1])'
    BY <1>13, <2>1, <2>2
  <2> QED BY <1>11, <2>2 DEF Fed, Set, Port
<1>15. ASSUME NEW d \in E, out'[e][d[1]] # "none" PROVE inp'[e][Port(flow, d)].at = c
  <2>1. CASE d[1] = n
    BY <1>4, <1>7, <2>1
  <2>2. CASE d[1] # n
    BY <1>1, <1>4, <1>6, <1>7, <1>10, <1>15, <2>2 DEF Handed
  <2> QED BY <2>1, <2>2
<1>16. Handed(e)'
  BY <1>11, <1>15 DEF Handed, Port
<1>17. ASSUME NEW i \in 1 .. (pos'[e] - 1), pos'[e] > 0, Served(e, o[i])'
       PROVE  out'[e][o[i]] # "none"
  <2>1. i \in 1 .. N /\ (i \in 1 .. (pos[e] - 1) \/ i = pos[e])
    BY <1>1, NextPlace
  <2>2. CASE o[i] = n
    BY <1>6, <2>2
  <2>3. CASE o[i] # n
    <3>1. i \in 1 .. (pos[e] - 1)
      BY <2>1, <2>3 DEF Here
    <3>2. ASSUME NEW r \in Sources(E, o[i]) PROVE Set(e, Port(flow, <<r, o[i]>>))
      <4>1. <<r, o[i]>> \in E /\ inp'[e][Port(flow, <<r, o[i]>>)].at > 0
        BY <1>11, <1>17 DEF Sources, Served, Set, Port
      <4>2. ASSUME NEW b \in E, Port(flow, b) = Port(flow, <<r, o[i]>>) PROVE b[1] # n
        <5>1. b[2] = o[i]
          BY <4>2 DEF Port
        <5>2. b = <<b[1], o[i]>>
          BY <1>4, <5>1 DEF Edges
        <5>3. ASSUME b[1] = n PROVE FALSE
          <6>1. <<o[pos[e]], o[i]>> \in E
            BY <5>2, <5>3 DEF Here
          <6>2. pos[e] < i
            BY <1>2, <2>1, <6>1 DEF Ordered
          <6> QED BY <1>2, <3>1, <6>2
        <5> QED BY <5>3
      <4> QED BY <1>4, <1>7, <4>1, <4>2 DEF Set
    <3>3. Served(e, o[i])
      BY <1>17, <3>2 DEF Served
    <3>4. out[e][o[i]] # "none"
      BY <1>1, <3>1, <3>3 DEF Visited
    <3> QED BY <1>2, <1>6, <2>1, <2>3, <3>4
  <2> QED BY <2>2, <2>3
<1>18. Visited(e)'
  BY <1>11, <1>17 DEF Visited
<1>19. WasReady(e)'
  BY DEF WasReady
<1> QED BY <1>12, <1>14, <1>16, <1>18, <1>19 DEF CycleInv

\* A node has no output, and the cycle goes on.
LEMMA PassKeeps ==
  ASSUME TypeOK, NEW e \in Executors, CycleInv(e), Pass(e) PROVE CycleInv(e)'
<1> USE ScanCycleAssumption
<1> DEFINE E == ExecutionEdges(flow)
           n == Here(e)
           o == order[e]
<1>1. Sorted(e) /\ Fed(e) /\ Handed(e) /\ Visited(e) /\ pos[e] > 0 /\ ~busy[e]
  BY DEF CycleInv, Pass, Visiting
<1>2. pos[e] \in 1 .. N
  BY <1>1, Underway
<1>3. /\ flow' = flow /\ cycle' = cycle /\ order' = order /\ busy' = busy /\ out' = out
      /\ inp' = inp /\ Advance(e) /\ (flow.kind[n] = "comment" \/ ~Ready(e, n))
  BY DEF Pass
<1>4. Sorted(e)'
  BY <1>1, <1>3 DEF Sorted
<1>5. Fed(e)'
  BY <1>1, <1>3 DEF Fed, Served, Set
<1>6. Handed(e)'
  BY <1>1, <1>3 DEF Handed
<1>7. ASSUME NEW i \in 1 .. (pos'[e] - 1), pos'[e] > 0, Served(e, o[i])
      PROVE  out[e][o[i]] # "none"
  <2>1. i \in 1 .. (pos[e] - 1) \/ i = pos[e]
    BY <1>1, <1>3, NextPlace
  <2>2. i # pos[e]
    BY <1>3, <1>7 DEF Here, Ready, Served, Set
  <2> QED BY <1>1, <1>7, <2>1, <2>2 DEF Visited
<1>8. Visited(e)'
  BY <1>3, <1>7 DEF Visited, Served, Set
<1>9. WasReady(e)'
  BY <1>1, <1>3 DEF WasReady
<1> QED BY <1>4, <1>5, <1>6, <1>8, <1>9 DEF CycleInv

\* A node begins to work.
LEMMA BeginKeeps ==
  ASSUME TypeOK, NEW e \in Executors, CycleInv(e), Begin(e) PROVE CycleInv(e)'
<1>1. /\ pos[e] > 0 /\ Ready(e, Here(e)) /\ flow.kind[Here(e)] \in {"lax", "strict"}
      /\ UNCHANGED <<flow, cycle, order, pos, out, inp>>
  BY DEF Begin, Executes, Runs, Visiting
<1>2. Sorted(e)' /\ Handed(e)' /\ WasReady(e)'
  BY <1>1 DEF CycleInv, Sorted, Handed, WasReady, Here, Ready
<1>3. Fed(e)' /\ Visited(e)'
  BY <1>1 DEF CycleInv, Fed, Visited, Served, Set
<1> QED BY <1>2, <1>3 DEF CycleInv

-----------------------------------------------------------------------------
(* Every step.                                                             *)

\* The node at the place of e has output r, and the cycle of e goes on.
Works(e, r) ==
  /\ pos[e] > 0 /\ flow.kind[Here(e)] # "comment" /\ Ready(e, Here(e))
  /\ Produce(e, Here(e), r) /\ Advance(e)
  /\ busy' = [busy EXCEPT ![e] = FALSE]
  /\ UNCHANGED <<flow, phase, run, cycle, order, presses>>
  /\ trig' \subseteq trig
  /\ shown' = shown \/ Show(e, Here(e))
  /\ jump' = jump \/ jump' = <<e, cycle[e]>>
  /\ r = "value" /\ flow.kind[Here(e)] = "jump-out" => jump' = <<e, cycle[e]>>

Results == {"value", "null", "error"}

LEMMA WorksIs ==
  ASSUME TypeOK, NEW e \in Executors, CycleInv(e),
         \/ Skip(e) \/ ExecuteTrigger(e) \/ ExecuteJumpOut(e) \/ ExecuteJumpIn(e)
         \/ Return(e) \/ TimeOut(e)
  PROVE  \E r \in Results : Works(e, r)
<1> USE DEF Results
<1>1. busy \in [Executors -> BOOLEAN]
  BY DEF TypeOK
<1>2. ASSUME Runs(e), busy' = busy
      PROVE  /\ busy' = [busy EXCEPT ![e] = FALSE]
             /\ pos[e] > 0 /\ flow.kind[Here(e)] # "comment" /\ Ready(e, Here(e))
  <2>1. busy[e] = FALSE
    BY <1>2 DEF Runs, Visiting
  <2>2. busy = [busy EXCEPT ![e] = FALSE]
    BY <1>1, <2>1
  <2> QED BY <1>2, <2>2 DEF Runs, Visiting
<1>3. ASSUME busy[e]
      PROVE  pos[e] > 0 /\ flow.kind[Here(e)] \in {"lax", "strict"} /\ Ready(e, Here(e))
  BY <1>3 DEF CycleInv, WasReady
<1>4. CASE Skip(e)
  <2>1. Works(e, "null")
    BY <1>2, <1>4 DEF Works, Skip, store
  <2> QED BY <2>1
<1>5. CASE ExecuteTrigger(e)
  <2>1. Works(e, "value")
    BY <1>2, <1>5 DEF Works, ExecuteTrigger, Executes
  <2> QED BY <2>1
<1>6. CASE ExecuteJumpOut(e)
  <2>1. Works(e, "value")
    BY <1>2, <1>6 DEF Works, ExecuteJumpOut, Executes
  <2> QED BY <2>1
<1>7. CASE ExecuteJumpIn(e)
  <2> DEFINE r == IF jump = Never THEN "null" ELSE "value"
  <2>1. Works(e, r)
    BY <1>2, <1>7 DEF Works, ExecuteJumpIn, Executes
  <2> QED BY <2>1
<1>8. CASE Return(e)
  <2>1. PICK r \in {"value", "null"} : Produce(e, Here(e), r)
    BY <1>8 DEF Return
  <2>2. Works(e, r)
    BY <1>3, <1>8, <2>1 DEF Works, Return
  <2> QED BY <2>2
<1>9. CASE TimeOut(e)
  <2>1. Works(e, "error")
    BY <1>3, <1>9 DEF Works, TimeOut, store
  <2> QED BY <2>1
<1> QED BY <1>4, <1>5, <1>6, <1>7, <1>8, <1>9

\* A step of executor e.
Moves(e) == Tick(e) \/ Pass(e) \/ Begin(e) \/ \E r \in Results : Works(e, r)

\* A request.
Requests == Deploy \/ Stop \/ Clear \/ (\E n \in Nodes : Press(n)) \/ \E e \in Executors : Start(e)

LEMMA NextIs ==
  ASSUME TypeOK, \A e \in Executors : CycleInv(e), Next
  PROVE  Requests \/ \E e \in Executors : Moves(e)
<1>1. CASE Deploy \/ Stop \/ Clear \/ \E n \in Nodes : Press(n)
  BY <1>1 DEF Requests
<1>2. CASE \E e \in Executors : Start(e) \/ Tick(e) \/ VisitNext(e) \/ Return(e) \/ TimeOut(e)
  <2>1. PICK e \in Executors : Start(e) \/ Tick(e) \/ VisitNext(e) \/ Return(e) \/ TimeOut(e)
    BY <1>2
  <2>2. CASE Start(e)
    BY <2>2 DEF Requests
  <2>3. CASE Tick(e) \/ Pass(e) \/ Begin(e)
    BY <2>3 DEF Moves
  <2>4. CASE \/ Skip(e) \/ ExecuteTrigger(e) \/ ExecuteJumpOut(e) \/ ExecuteJumpIn(e)
             \/ Return(e) \/ TimeOut(e)
    BY <2>4, WorksIs DEF Moves
  <2> QED BY <2>1, <2>2, <2>3, <2>4 DEF VisitNext
<1> QED BY <1>1, <1>2 DEF Next

\* A step of one executor leaves the others alone.
LEMMA MovesAlone ==
  ASSUME TypeOK, NEW e \in Executors, Moves(e), NEW d \in Executors, d # e
  PROVE  Same(d)
<1>1. /\ cycle \in [Executors -> 0 .. MaxCycles] /\ order \in [Executors -> Seq(Nodes)]
      /\ pos \in [Executors -> 0 .. N] /\ busy \in [Executors -> BOOLEAN]
      /\ out \in [Executors -> [Nodes -> Outputs]] /\ inp \in [Executors -> [Ports -> Input]]
  BY DEF TypeOK
<1>2. CASE Tick(e)
  BY <1>1, <1>2 DEF Tick, Same
<1>3. CASE Pass(e)
  BY <1>1, <1>3 DEF Pass, Advance, Same
<1>4. CASE Begin(e)
  BY <1>1, <1>4 DEF Begin, Same
<1>5. ASSUME NEW r \in Results, Works(e, r) PROVE Same(d)
  <2>1. UNCHANGED <<flow, cycle, order>> /\ pos'[d] = pos[d] /\ busy'[d] = busy[d]
    BY <1>1, <1>5 DEF Works, Advance
  <2>2. out'[d] = out[d] /\ inp'[d] = inp[d]
    BY <1>1, <1>5 DEF Works, Produce
  <2> QED BY <2>1, <2>2 DEF Same
<1> QED BY <1>2, <1>3, <1>4, <1>5 DEF Moves

LEMMA MovesType ==
  ASSUME TypeOK, NEW e \in Executors, CycleInv(e), Moves(e) PROVE TypeOK'
<1> USE ScanCycleAssumption
<1>1. /\ cycle \in [Executors -> 0 .. MaxCycles] /\ order \in [Executors -> Seq(Nodes)]
      /\ pos \in [Executors -> 0 .. N] /\ busy \in [Executors -> BOOLEAN]
      /\ out \in [Executors -> [Nodes -> Outputs]] /\ inp \in [Executors -> [Ports -> Input]]
      /\ flow \in Flows /\ \A d \in Executors : Len(order[d]) \in {0, N}
  BY DEF TypeOK
<1>2. CASE Tick(e)
  <2>1. cycle' \in [Executors -> 0 .. MaxCycles]
    BY <1>1, <1>2 DEF Tick
  <2>2. Order[flow] \in Seq(Nodes) /\ Len(Order[flow]) \in {0, N}
    BY <1>1, OrderIs
  <2>3. order' \in [Executors -> Seq(Nodes)] /\ \A d \in Executors : Len(order'[d]) \in {0, N}
    BY <1>1, <1>2, <2>2 DEF Tick
  <2>4. pos' \in [Executors -> 0 .. N] /\ out' \in [Executors -> [Nodes -> Outputs]]
    <3>1. order'[e] = Order[flow]
      BY <1>1, <1>2 DEF Tick
    <3>2. CASE order'[e] = <<>>
      BY <1>1, <1>2, <3>2 DEF Tick
    <3>3. CASE order'[e] # <<>>
      <4>1. N > 0
        <5>1. Order[flow] \in Seq(Nodes) /\ Order[flow] # <<>>
          BY <2>2, <3>1, <3>3
        <5>2. Len(Order[flow]) # 0
          BY <5>1
        <5> QED BY <2>2, <5>2
      <4>2. [n \in Nodes |-> "none"] \in [Nodes -> Outputs]
        BY DEF Outputs
      <4>3. pos' = [pos EXCEPT ![e] = 1] /\ out' = [out EXCEPT ![e] = [n \in Nodes |-> "none"]]
        BY <1>2, <3>3 DEF Tick
      <4>4. 1 \in 0 .. N
        BY <4>1
      <4>5. pos' \in [Executors -> 0 .. N]
        BY <1>1, <4>3, <4>4
      <4>6. out' \in [Executors -> [Nodes -> Outputs]]
        BY <1>1, <4>2, <4>3
      <4> QED BY <4>5, <4>6
    <3> QED BY <3>2, <3>3
  <2> QED BY <1>2, <2>1, <2>3, <2>4 DEF TypeOK, Tick, store
<1>3. CASE Pass(e) \/ \E r \in Results : Works(e, r)
  <2>1. Advance(e) /\ pos[e] \in 1 .. N /\ UNCHANGED <<flow, phase, run, cycle, order, presses>>
    BY <1>3, Underway DEF Pass, Works, CycleInv, Visiting
  <2>2. pos' \in [Executors -> 0 .. N]
    BY <1>1, <2>1 DEF Advance
  <2>3. CASE Pass(e)
    BY <2>1, <2>2, <2>3 DEF TypeOK, Pass, store
  <2>4. ASSUME NEW r \in Results, Works(e, r) PROVE TypeOK'
    <3>1. busy' \in [Executors -> BOOLEAN]
      BY <1>1, <2>4 DEF Works
    <3>2. r \in Outputs
      BY DEF Results, Outputs
    <3>3. Here(e) \in Nodes /\ cycle[e] \in 1 .. MaxCycles
      BY <1>1, <2>1, Underway DEF CycleInv
    <3>4. out' \in [Executors -> [Nodes -> Outputs]]
      BY <1>1, <2>4, <3>2 DEF Works, Produce
    <3>5. [at |-> cycle[e], ok |-> r = "value"] \in Input
      BY <3>3 DEF Input
    <3>6. inp' \in [Executors -> [Ports -> Input]]
      <4> DEFINE row == [p \in Ports |->
                           IF \E d \in ExecutionEdges(flow) : d[1] = Here(e) /\ Port(flow, d) = p
                           THEN [at |-> cycle[e], ok |-> r = "value"] ELSE inp[e][p]]
      <4>1. inp' = [inp EXCEPT ![e] = row]
        BY <1>1, <2>4 DEF Works, Produce
      <4>2. row \in [Ports -> Input]
        BY <1>1, <3>5
      <4> HIDE DEF row
      <4> QED BY <1>1, <4>1, <4>2
    <3>7. <<e, cycle[e]>> \in Stamps
      BY <3>3 DEF Stamps
    <3>8. shown' \in [Nodes -> Stamps] /\ jump' \in Stamps /\ trig' \in SUBSET Nodes
      BY <2>4, <3>7 DEF Works, Show, TypeOK
    <3> QED BY <2>1, <2>2, <3>1, <3>4, <3>6, <3>8 DEF TypeOK
  <2> QED BY <1>3, <2>3, <2>4
<1>4. CASE Begin(e)
  BY <1>1, <1>4 DEF TypeOK, Begin, store
<1> QED BY <1>2, <1>3, <1>4 DEF Moves

LEMMA MovesKeep ==
  ASSUME TypeOK, \A d \in Executors : CycleInv(d), NEW e \in Executors, Moves(e)
  PROVE  \A d \in Executors : CycleInv(d)'
<1> SUFFICES ASSUME NEW d \in Executors PROVE CycleInv(d)'
  OBVIOUS
<1>1. CycleInv(d)
  OBVIOUS
<1>2. CASE d # e
  BY <1>1, <1>2, MovesAlone, SameKeeps
<1>3. CASE d = e
  <2>1. ASSUME NEW r \in Results, Works(e, r) PROVE CycleInv(e)'
    <3>1. r \in Outputs \ {"none"}
      BY DEF Results, Outputs
    <3>2. ~busy'[e]
      BY <2>1 DEF Works, TypeOK
    <3> QED BY <2>1, <3>1, <3>2, ProduceKeeps DEF Works
  <2> QED BY <1>1, <1>3, <2>1, TickKeeps, PassKeeps, BeginKeeps DEF Moves
<1> QED BY <1>2, <1>3

LEMMA MovesJump ==
  ASSUME IInv, NEW e \in Executors, Moves(e) PROVE Succession' /\ Jumped'
<1> USE ScanCycleAssumption
<1>1. TypeOK /\ Succession /\ Jumped /\ CycleInv(e)
  BY DEF IInv
<1>2. /\ busy \in [Executors -> BOOLEAN] /\ pos \in [Executors -> 0 .. N]
      /\ cycle \in [Executors -> 0 .. MaxCycles] /\ out \in [Executors -> [Nodes -> Outputs]]
      /\ run \in [Executors -> {"new", "on", "off"}] /\ flow \in Flows
  BY <1>1 DEF TypeOK
<1>3. UNCHANGED <<flow, phase, run>>
  BY DEF Moves, Tick, Pass, Begin, Works
<1>4. run[e] # "new"
  <2>1. run[e] = "on" \/ pos[e] > 0
    BY DEF Moves, Tick, Pass, Begin, Works, Executes, Runs, Visiting
  <2> QED BY <1>1, <2>1 DEF Succession
<1>5. Succession'
  BY <1>1, <1>3, <1>4, MovesAlone DEF Succession, Same
<1>6. ASSUME NEW d \in Executors, NEW n \in Nodes, run[d] = "on", pos'[d] > 0,
             flow.kind[n] = "jump-out", out'[d][n] = "value"
      PROVE  jump' = <<d, cycle'[d]>> \/ (jump'[1] \in Executors /\ jump'[1] < d)
  <2>1. CASE d # e
    <3>1. cycle'[d] = cycle[d] /\ pos'[d] = pos[d] /\ out'[d] = out[d]
      BY <1>1, <2>1, MovesAlone DEF Same
    <3>2. jump = <<d, cycle[d]>> \/ (jump[1] \in Executors /\ jump[1] < d)
      BY <1>1, <1>6, <3>1 DEF Jumped
    <3>3. jump' = jump \/ jump' = <<e, cycle[e]>>
      BY DEF Moves, Tick, Pass, Begin, Works, store
    <3>4. e < d
      BY <1>1, <1>4, <1>6, <2>1 DEF Succession
    <3> QED BY <3>1, <3>2, <3>3, <3>4
  <2>2. CASE d = e /\ Tick(e)
    BY <1>2, <1>6, <2>2 DEF Tick
  <2>3. CASE d = e /\ (Pass(e) \/ Begin(e))
    <3>1. out' = out /\ cycle' = cycle /\ jump' = jump
      BY <2>3 DEF Pass, Begin, store
    <3>2. pos[e] > 0
      BY <2>3 DEF Pass, Begin, Executes, Runs, Visiting
    <3> QED BY <1>1, <1>6, <2>3, <3>1, <3>2 DEF Jumped
  <2>4. ASSUME d = e, NEW r \in Results, Works(e, r)
        PROVE  jump' = <<d, cycle'[d]>> \/ (jump'[1] \in Executors /\ jump'[1] < d)
    <3>1. /\ cycle' = cycle /\ pos[e] > 0 /\ Produce(e, Here(e), r)
          /\ jump' = jump \/ jump' = <<e, cycle[e]>>
          /\ r = "value" /\ flow.kind[Here(e)] = "jump-out" => jump' = <<e, cycle[e]>>
      BY <2>4 DEF Works
    <3>2. out'[e] = [out[e] EXCEPT ![Here(e)] = r]
      BY <1>2, <3>1 DEF Produce
    <3>3. CASE n = Here(e)
      <4>1. r = "value"
        BY <1>2, <1>6, <2>4, <3>2, <3>3
      <4> QED BY <1>6, <2>4, <3>1, <3>3, <4>1
    <3>4. CASE n # Here(e)
      <4>1. out[e][n] = "value"
        BY <1>2, <1>6, <2>4, <3>2, <3>4
      <4>2. jump = <<e, cycle[e]>> \/ (jump[1] \in Executors /\ jump[1] < e)
        BY <1>1, <1>6, <2>4, <3>1, <4>1 DEF Jumped
      <4> QED BY <2>4, <3>1, <4>2
    <3> QED BY <3>3, <3>4
  <2> QED BY <2>1, <2>2, <2>3, <2>4 DEF Moves
<1>7. Jumped'
  BY <1>3, <1>6 DEF Jumped
<1> QED BY <1>5, <1>7

LEMMA RequestsKeep == ASSUME IInv, Requests PROVE IInv'
<1> USE ScanCycleAssumption
<1>1. TypeOK /\ Succession /\ Jumped /\ (\A d \in Executors : CycleInv(d))
  BY DEF IInv
<1>2. /\ run \in [Executors -> {"new", "on", "off"}]
      /\ phase \in {"undeployed", "deployed", "stopping"}
  BY <1>1 DEF TypeOK
<1>3. UNCHANGED <<flow, cycle, order, pos, busy, out, inp>>
  BY DEF Requests, Deploy, Stop, Clear, Press, Start, executors
<1>4. ASSUME NEW d \in Executors PROVE CycleInv(d)'
  BY <1>1, <1>3, SameKeeps DEF Same
<1>5. TypeOK'
  <2>1. Never \in Stamps
    BY DEF Stamps
  <2>2. run' \in [Executors -> {"new", "on", "off"}] /\ phase' \in {"undeployed", "deployed", "stopping"}
    BY <1>2 DEF Requests, Deploy, Stop, Clear, Press, Start, executors
  <2>3. shown' \in [Nodes -> Stamps] /\ jump' \in Stamps
    BY <1>1, <2>1 DEF Requests, Deploy, Stop, Clear, Press, Start, store, TypeOK
  <2>4. trig' \in SUBSET Nodes /\ presses' \in 0 .. MaxPresses
    BY <1>1 DEF Requests, Deploy, Stop, Clear, Press, Start, store, TypeOK
  <2> QED BY <1>1, <1>3, <2>2, <2>3, <2>4 DEF TypeOK
<1>6. Succession'
  <2>1. CASE Deploy \/ Clear \/ \E n \in Nodes : Press(n)
    BY <1>1, <1>2, <1>3, <2>1 DEF Succession, Deploy, Clear, Press, executors
  <2>2. CASE Stop
    BY <1>1, <1>2, <1>3, <2>2 DEF Succession, Stop
  <2>3. ASSUME NEW e \in Executors, Start(e) PROVE Succession'
    <3>1. \A d \in Executors : run[d] # "on"
      <4>1. ASSUME NEW d \in Executors, run[d] = "on" PROVE FALSE
        <5>1. d \in Nat /\ e \in Nat
          OBVIOUS
        <5> QED BY <1>1, <2>3, <4>1, <5>1 DEF Start, Succession
      <4> QED BY <4>1
    <3>2. /\ run'[e] = "on" /\ \A d \in Executors \ {e} : run'[d] = run[d]
          /\ phase' = "deployed" /\ run[e] = "new"
          /\ \A d \in Executors : (d < e => run[d] = "off") /\ (d > e => run[d] = "new")
      BY <1>2, <2>3 DEF Start
    <3>3. ASSUME NEW f \in Executors, run'[f] = "on"
          PROVE  /\ phase' = "deployed"
                 /\ \A d \in Executors : (d < f => run'[d] = "off") /\ (d > f => run'[d] = "new")
      <4>1. f = e
        BY <3>1, <3>2, <3>3
      <4> QED BY <3>2, <4>1
    <3>4. ASSUME NEW f \in Executors, run'[f] = "new" PROVE pos'[f] = 0 /\ ~busy'[f]
      BY <1>1, <1>3, <3>2, <3>4 DEF Succession
    <3> QED BY <3>3, <3>4 DEF Succession
  <2> QED BY <2>1, <2>2, <2>3 DEF Requests
<1>7. Jumped'
  <2>1. CASE Deploy \/ Stop \/ \E n \in Nodes : Press(n)
    BY <1>1, <1>2, <1>3, <2>1 DEF Jumped, Deploy, Stop, Press, executors, store
  <2>2. CASE Clear
    BY <1>1, <2>2 DEF Succession, Jumped, Clear, executors
  <2>3. ASSUME NEW e \in Executors, Start(e) PROVE Jumped'
    BY <1>1, <1>2, <1>3, <2>3 DEF Jumped, Start, store, Succession
  <2> QED BY <2>1, <2>2, <2>3 DEF Requests
<1> QED BY <1>4, <1>5, <1>6, <1>7 DEF IInv

-----------------------------------------------------------------------------
(* The theorems of the scan loop.                                          *)

LEMMA InitInv == ASSUME Init PROVE IInv
<1> USE ScanCycleAssumption
<1>1. TypeOK
  <2>1. <<>> \in Seq(Nodes) /\ Len(<<>>) = 0
    OBVIOUS
  <2>2. [p \in Ports |-> [at |-> 0, ok |-> FALSE]] \in [Ports -> Input]
    BY DEF Input
  <2>3. Never \in Stamps
    BY DEF Stamps
  <2>4. [n \in Nodes |-> "none"] \in [Nodes -> Outputs]
    BY DEF Outputs
  <2> QED BY <2>1, <2>2, <2>3, <2>4 DEF Init, TypeOK
<1>2. ASSUME NEW e \in Executors PROVE CycleInv(e)
  <2>1. Sorted(e) /\ Handed(e) /\ Visited(e) /\ WasReady(e)
    BY DEF Init, Sorted, Handed, Visited, WasReady
  <2>2. Fed(e)
    <3>1. \A d \in ExecutionEdges(flow) : Port(flow, d) \in Ports
      BY EdgesAre DEF Init
    <3> QED BY <3>1 DEF Init, Fed, Set
  <2> QED BY <2>1, <2>2 DEF CycleInv
<1>3. Succession /\ Jumped
  BY DEF Init, Succession, Jumped
<1> QED BY <1>1, <1>2, <1>3 DEF IInv

LEMMA StepInv == ASSUME IInv, [Next]_vars PROVE IInv'
<1>1. TypeOK /\ \A d \in Executors : CycleInv(d)
  BY DEF IInv
<1>2. CASE Requests
  BY <1>2, RequestsKeep
<1>3. ASSUME NEW e \in Executors, Moves(e) PROVE IInv'
  <2>1. TypeOK'
    BY <1>1, <1>3, MovesType
  <2>2. \A d \in Executors : CycleInv(d)'
    BY <1>1, <1>3, MovesKeep
  <2>3. Succession' /\ Jumped'
    BY <1>3, MovesJump
  <2> QED BY <2>1, <2>2, <2>3 DEF IInv
<1>4. CASE UNCHANGED vars
  <2>1. UNCHANGED <<flow, phase, run, cycle, order, pos, busy, out, inp, trig, shown, jump, presses>>
    BY <1>4 DEF vars, executors, store
  <2>2. TypeOK' /\ Succession' /\ Jumped'
    BY <2>1 DEF IInv, TypeOK, Succession, Jumped
  <2>3. \A d \in Executors : CycleInv(d)'
    BY <1>1, <2>1, SameKeeps DEF Same
  <2> QED BY <2>2, <2>3 DEF IInv
<1> QED BY <1>1, <1>2, <1>3, <1>4, NextIs

LEMMA Invariant == Spec => []IInv
BY InitInv, StepInv, PTL DEF Spec

\* topologicalSort is Kahn's algorithm, on any graph: what a cycle visits is
\* every node once and behind its sources, or nothing because of a cycle.
THEOREM OrdersAreTopological == Spec => []OrderCorrect
<1>1. ASSUME IInv PROVE OrderCorrect
  <2> DEFINE E == ExecutionEdges(flow)
  <2>1. flow \in Flows
    BY <1>1 DEF IInv, TypeOK
  <2>2. ASSUME NEW e \in Executors, cycle[e] > 0
        PROVE  IF Cyclic(E) THEN order[e] = <<>> ELSE Ordered(E, order[e])
    <3>1. Sorted(e) /\ cycle[e] # 0
      BY <1>1, <2>2 DEF IInv, CycleInv
    <3>2. order[e] = Order[flow]
      BY <3>1 DEF Sorted
    <3> QED BY <2>1, <3>2, OrderIs
  <2> QED BY <2>2 DEF OrderCorrect, Cyclic, Ordered
<1> QED BY <1>1, Invariant, PTL

\* A node that is awaited reads on each port what a source produced in this cycle.
THEOREM InputsAreFresh == Spec => []InputsFresh
<1>1. ASSUME IInv PROVE InputsFresh
  BY <1>1, ReadyIsFresh DEF IInv, CycleInv, WasReady, InputsFresh
<1> QED BY <1>1, Invariant, PTL

\* A Jump In follows the turn of every Jump Out of its label, executes only behind
\* a source that has an output, and reads what a Jump Out stored in this cycle, if
\* one did, for any number of Jump Outs, whichever of them are passed over.
THEOREM JumpsAreCurrent == Spec => []JumpCurrent
<1>1. ASSUME IInv, NEW e \in Executors, NEW o \in Nodes,
             run[e] = "on", Executes(e, "jump-in"), flow.kind[o] = "jump-out"
      PROVE  /\ \E i \in 1 .. pos[e] - 1 : order[e][i] = o
             /\ \E s \in Sources(ExecutionEdges(flow), Here(e)) : out[e][s] # "none"
             /\ out[e][o] = "value" =>
                  jump = <<e, cycle[e]>> \/ (jump[1] \in Executors /\ jump[1] < e)
  <2>1. TypeOK /\ CycleInv(e) /\ Jumped
    BY <1>1 DEF IInv
  <2>2. pos[e] > 0 /\ Ready(e, Here(e)) /\ flow.kind[Here(e)] = "jump-in"
    BY <1>1 DEF Executes, Runs, Visiting
  <2>3. /\ Ordered(ExecutionEdges(flow), order[e]) /\ Here(e) \in Nodes /\ pos[e] \in 1 .. N
    BY <2>1, <2>2, Underway DEF CycleInv
  <2>4. o \in Sources(ExecutionEdges(flow), Here(e))
    BY <1>1, <2>2, <2>3 DEF Sources, ExecutionEdges, Edges
  <2>5. \E s \in Sources(ExecutionEdges(flow), Here(e)) : out[e][s] # "none"
    BY <2>1, <2>2, <2>4, ReadyIsFresh
  <2>6. \E i \in 1 .. pos[e] - 1 : order[e][i] = o
    <3>1. PICK i \in 1 .. N : order[e][i] = o
      BY <2>3 DEF Ordered, Elements
    <3>2. i < pos[e]
      BY <2>3, <2>4, <3>1 DEF Ordered, Sources, Here
    <3> QED BY <2>3, <3>1, <3>2, ScanCycleAssumption
  <2> QED BY <1>1, <2>1, <2>2, <2>5, <2>6 DEF Jumped
<1>2. ASSUME IInv PROVE JumpCurrent
  BY <1>1, <1>2 DEF JumpCurrent
<1> QED BY <1>2, Invariant, PTL

-----------------------------------------------------------------------------
(* The log buffer of an executor: a log moves from the buffer to a batch   *)
(* under way to the table.  The inductive invariant orders the three: what *)
(* is stored comes before the batch, the batch before the buffer, and      *)
(* there is one batch at most.                                             *)

Increasing(s) == \A i, j \in DOMAIN s : i < j => s[i] < s[j]
Below(s, t) == \A i \in DOMAIN s, j \in DOMAIN t : s[i] < t[j]

\* b may be the buffer when m logs have been added: a new add() appends to it
\* before flush() looks at it.
Behind(b, m) ==
  /\ b \in Seq(1 .. m) /\ Increasing(b)
  /\ Below(table, b)
  /\ \A f \in flights : Below(f, b)

\* The batch under way: flushing tells whether there is one.
OneFlight ==
  /\ flushing \in BOOLEAN /\ (flushing <=> flights # {})
  /\ \A f, g \in flights : f = g

InFlight ==
  /\ OneFlight
  /\ \A f \in flights : f \in Seq(1 .. added) /\ Increasing(f) /\ Below(table, f)

OnTable == added \in Nat /\ table \in Seq(1 .. added) /\ InOrder

OrderInv == OnTable /\ InFlight /\ Behind(buffer, added)

-----------------------------------------------------------------------------
(* The buffer keeps the order of its logs.                                 *)

LEMMA InitOrder == LogInit => OrderInv
<1> SUFFICES ASSUME LogInit PROVE OrderInv
  OBVIOUS
<1>1. buffer = <<>> /\ table = <<>> /\ flights = {} /\ flushing = FALSE /\ added = 0
  BY DEF LogInit
<1>2. \A S : <<>> \in Seq(S)
  OBVIOUS
<1>3. DOMAIN table = {} /\ DOMAIN buffer = {}
  <2>1. \A i \in DOMAIN <<>> : FALSE
    OBVIOUS
  <2> QED BY <1>1, <2>1
<1> QED BY <1>1, <1>2, <1>3
         DEF OrderInv, OnTable, InFlight, OneFlight, Behind, InOrder, Increasing, Below

\* What add() hands to flush() has its place behind everything else.
LEMMA PushedBehind ==
  ASSUME OrderInv
  PROVE  Behind(Pushed, added + 1)
<1>1. added \in Nat /\ buffer \in Seq(1 .. added) /\ added + 1 \in 1 .. (added + 1)
  BY DEF OrderInv, OnTable, Behind
<1>2. buffer \in Seq(1 .. (added + 1))
  BY <1>1
<1>3. /\ Pushed \in Seq(1 .. (added + 1))
      /\ DOMAIN Pushed = 1 .. (Len(buffer) + 1) /\ Len(buffer) \in Nat
      /\ \A i \in DOMAIN buffer :
           i \in 1 .. Len(buffer) /\ Pushed[i] = buffer[i] /\ buffer[i] \in 1 .. added
      /\ \A i \in 1 .. Len(buffer) : i \in DOMAIN buffer
      /\ Pushed[Len(buffer) + 1] = added + 1
  BY <1>1, <1>2 DEF Pushed
<1>4. Increasing(Pushed)
  <2> SUFFICES ASSUME NEW i \in DOMAIN Pushed, NEW j \in DOMAIN Pushed, i < j
               PROVE  Pushed[i] < Pushed[j]
    BY DEF Increasing
  <2>1. i \in 1 .. Len(buffer) /\ Pushed[i] = buffer[i] /\ buffer[i] \in 1 .. added
    BY <1>3
  <2>2. CASE j = Len(buffer) + 1
    BY <1>1, <1>3, <2>1, <2>2
  <2>3. CASE j \in 1 .. Len(buffer)
    <3>1. buffer[i] < buffer[j] /\ Pushed[j] = buffer[j]
      BY <1>3, <2>1, <2>3 DEF Increasing, OrderInv, Behind
    <3> QED BY <2>1, <3>1
  <2> QED BY <1>3, <2>2, <2>3
<1>5. ASSUME NEW s \in Seq(1 .. added), Below(s, buffer) PROVE Below(s, Pushed)
  <2> SUFFICES ASSUME NEW i \in DOMAIN s, NEW j \in DOMAIN Pushed
               PROVE  s[i] < Pushed[j]
    BY DEF Below
  <2>1. s[i] \in 1 .. added
    <3>1. s \in Seq(1 .. added) /\ i \in DOMAIN s
      OBVIOUS
    <3>2. \A S : \A q \in Seq(S) : \A k \in DOMAIN q : q[k] \in S
      OBVIOUS
    <3> HIDE DEF Pushed
    <3> QED BY <3>1, <3>2
  <2>2. CASE j = Len(buffer) + 1
    BY <1>1, <1>3, <2>1, <2>2
  <2>3. CASE j \in 1 .. Len(buffer)
    <3>1. j \in DOMAIN buffer /\ Pushed[j] = buffer[j]
      BY <1>3, <2>3
    <3> QED BY <1>5, <3>1 DEF Below
  <2> QED BY <1>3, <2>2, <2>3
<1> QED BY <1>3, <1>4, <1>5 DEF OrderInv, OnTable, InFlight, Behind

\* flush() takes the whole buffer as the one batch under way, or nothing.
LEMMA FlushOrder ==
  ASSUME OrderInv, NEW b, NEW t, NEW m \in {added, added + 1},
         Behind(b, m), Flush(b, t), added' = m, UNCHANGED table
  PROVE  OrderInv'
<1>1. added \in Nat /\ m \in Nat /\ added <= m
  BY DEF OrderInv, OnTable
<1>2. \A s \in Seq(1 .. added) : s \in Seq(1 .. m)
  BY <1>1
<1>3. OnTable'
  BY <1>1, <1>2 DEF OrderInv, OnTable, InOrder
<1>4. CASE b = <<>> \/ flushing
  <2>1. buffer' = b /\ UNCHANGED <<flushing, flights>>
    BY <1>4 DEF Flush
  <2> QED BY <1>1, <1>2, <1>3, <2>1 DEF OrderInv, InFlight, OneFlight, Behind, Below
<1>5. CASE ~(b = <<>> \/ flushing)
  <2>1. buffer' = <<>> /\ flushing' = TRUE /\ flights' = {b}
    BY <1>5 DEF Flush, OrderInv, InFlight, OneFlight
  <2>2. InFlight'
    BY <2>1, <1>1 DEF InFlight, OneFlight, Behind, Below
  <2>3. Behind(buffer, added)'
    BY <2>1 DEF Behind, Increasing, Below
  <2> QED BY <1>3, <2>2, <2>3 DEF OrderInv
<1> QED BY <1>4, <1>5

\* The batch lands behind the table, or its INSERT fails.
LEMMA LandOrder ==
  ASSUME OrderInv, NEW b \in flights, InsertEnds(b)
  PROVE  OrderInv'
<1>1. flights' = {} /\ flushing' = FALSE /\ UNCHANGED <<buffer, added>>
  BY DEF InsertEnds, Landed, OrderInv, InFlight, OneFlight
<1>2. /\ table \in Seq(1 .. added) /\ b \in Seq(1 .. added) /\ added \in Nat
      /\ Below(table, b) /\ Increasing(b)
  BY DEF OrderInv, OnTable, InFlight
<1>3. CASE UNCHANGED table
  BY <1>1, <1>2, <1>3 DEF OrderInv, OnTable, InOrder, InFlight, OneFlight, Behind, Below
<1>4. CASE table' = table \o b
  <2>1. /\ table' \in Seq(1 .. added) /\ Len(table) \in Nat /\ Len(b) \in Nat
        /\ DOMAIN table' = 1 .. (Len(table) + Len(b))
        /\ DOMAIN table = 1 .. Len(table) /\ DOMAIN b = 1 .. Len(b)
    BY <1>2, <1>4
  <2>2. \A i \in DOMAIN table' :
          IF i <= Len(table) THEN i \in DOMAIN table /\ table'[i] = table[i]
          ELSE i - Len(table) \in DOMAIN b /\ table'[i] = b[i - Len(table)]
    BY <1>2, <1>4, <2>1
  <2>3. InOrder'
    <3> SUFFICES ASSUME NEW i \in DOMAIN table', NEW j \in DOMAIN table', i < j
                 PROVE  table'[i] < table'[j]
      BY DEF InOrder
    <3>1. CASE j <= Len(table)
      BY <2>1, <2>2, <3>1 DEF OrderInv, OnTable, InOrder
    <3>2. CASE i <= Len(table) /\ ~(j <= Len(table))
      BY <1>2, <2>1, <2>2, <3>2 DEF Below
    <3>3. CASE ~(i <= Len(table))
      BY <1>2, <2>1, <2>2, <3>3 DEF Increasing
    <3> QED BY <2>1, <3>1, <3>2, <3>3
  <2>4. Below(table', buffer)
    BY <2>1, <2>2 DEF OrderInv, Behind, Below
  <2> QED BY <1>1, <1>2, <2>1, <2>3, <2>4 DEF OrderInv, OnTable, InFlight, OneFlight, Behind
<1> QED BY <1>3, <1>4 DEF InsertEnds, Landed

LEMMA NextOrder == OrderInv /\ [LogNext]_logVars => OrderInv'
<1> SUFFICES ASSUME OrderInv, [LogNext]_logVars PROVE OrderInv'
  OBVIOUS
<1>1. Behind(buffer, added)
  BY DEF OrderInv
<1>2. Behind(Pushed, added + 1)
  BY PushedBehind
<1>3. CASE Log
  <2>1. added' = added + 1 /\ UNCHANGED table
    BY <1>3 DEF Log, stored
  <2>2. CASE Full
    BY <1>2, <1>3, <2>1, <2>2, FlushOrder DEF Log
  <2>3. CASE ~Full
    <3>1. buffer' = Pushed /\ UNCHANGED <<flushing, flights>>
      BY <1>3, <2>3 DEF Log
    <3>2. added \in Nat /\ \A s \in Seq(1 .. added) : s \in Seq(1 .. (added + 1))
      BY DEF OrderInv, OnTable
    <3> QED BY <1>2, <2>1, <3>1, <3>2 DEF OrderInv, OnTable, InOrder, InFlight, OneFlight, Behind
  <2> QED BY <2>2, <2>3
<1>4. CASE TimerFires \/ Finalize \/ CycleEnds
  <2>1. added' = added /\ UNCHANGED table /\ \E t : Flush(buffer, t)
    BY <1>4 DEF TimerFires, Finalize, CycleEnds, stored
  <2> QED BY <1>1, <2>1, FlushOrder
<1>5. CASE LogLast \/ StopScan
  <2>1. added' = added + 1 /\ UNCHANGED table /\ Flush(Pushed, Timed)
    BY <1>5 DEF LogLast, StopScan, stored
  <2> QED BY <1>2, <2>1, FlushOrder
<1>6. CASE Complete \/ UNCHANGED logVars
  BY <1>6 DEF Complete, logVars, stored,
                  OrderInv, OnTable, InOrder, InFlight, OneFlight, Behind
<1> QED BY <1>3, <1>4, <1>5, <1>6, LandOrder DEF LogNext

\* The table holds the logs in the order of add(), whoever calls flush() and
\* whatever INSERT fails.
THEOREM LogsAreInOrder == LogSpec => []InOrder
<1>1. OrderInv => InOrder
  BY DEF OrderInv, OnTable
<1> QED BY <1>1, InitOrder, NextOrder, PTL DEF LogSpec

-----------------------------------------------------------------------------
(* The buffer loses nothing.                                               *)

\* Every log of 1 .. m is in b or has left the buffer.
Holds(b, m) ==
  1 .. m = In(b) \cup (UNION {In(f) : f \in flights}) \cup In(table) \cup dropped

LEMMA InitHolds == LogInit => Accounted
<1>1. ASSUME NEW s, s = <<>> PROVE In(s) = {}
  <2>1. \A i \in DOMAIN <<>> : FALSE
    OBVIOUS
  <2> QED BY <1>1, <2>1 DEF In
<1> QED BY <1>1 DEF LogInit, Accounted

LEMMA PushedHolds ==
  ASSUME OrderInv, Accounted
  PROVE  Holds(Pushed, added + 1)
<1>1. added \in Nat /\ buffer \in Seq(Nat)
  BY DEF OrderInv, OnTable, Behind
<1>2. /\ DOMAIN Pushed = DOMAIN buffer \cup {Len(buffer) + 1}
      /\ \A i \in DOMAIN buffer : Pushed[i] = buffer[i]
      /\ Pushed[Len(buffer) + 1] = added + 1
  BY <1>1 DEF Pushed
<1>3. In(Pushed) = In(buffer) \cup {added + 1}
  BY ONLY <1>2 DEF In
<1>4. 1 .. (added + 1) = (1 .. added) \cup {added + 1}
  BY <1>1
<1> QED BY <1>3, <1>4 DEF Holds, Accounted

LEMMA FlushHolds ==
  ASSUME OrderInv, NEW b, NEW t, NEW m, Holds(b, m), Flush(b, t),
         added' = m, UNCHANGED <<table, dropped>>
  PROVE  Accounted'
<1>1. CASE b = <<>> \/ flushing
  BY <1>1 DEF Flush, Holds, Accounted, In
<1>2. CASE ~(b = <<>> \/ flushing)
  <2>1. flights = {} /\ flights' = {b} /\ buffer' = <<>>
    BY <1>2 DEF Flush, OrderInv, InFlight, OneFlight
  <2>2. In(<<>>) = {}
    <3>1. \A i \in DOMAIN <<>> : FALSE
      OBVIOUS
    <3> QED BY <3>1 DEF In
  <2>3. UNION {In(f) : f \in flights} = {} /\ UNION {In(f) : f \in {b}} = In(b)
    BY <2>1
  <2>4. /\ In(buffer)' = {} /\ In(table)' = In(table)
        /\ (UNION {In(f) : f \in flights})' = In(b)
    BY <2>1, <2>2, <2>3 DEF In
  <2> QED BY <2>3, <2>4 DEF Holds, Accounted
<1> QED BY <1>1, <1>2

\* The batch goes to the table or to the dropped logs.
LEMMA LandHolds ==
  ASSUME OrderInv, Accounted, NEW b \in flights, InsertEnds(b)
  PROVE  Accounted'
<1>1. flights = {b} /\ flights' = {} /\ UNCHANGED <<buffer, added>>
  BY DEF InsertEnds, Landed, OrderInv, InFlight, OneFlight
<1>2. 1 .. added = In(buffer) \cup In(b) \cup In(table) \cup dropped
  <2>1. UNION {In(f) : f \in {b}} = In(b)
    OBVIOUS
  <2> QED BY <1>1, <2>1 DEF Accounted
<1>3. In(table)' \cup dropped' = In(b) \cup In(table) \cup dropped
  <2>1. CASE dropped' = dropped \cup In(b) /\ UNCHANGED table
    BY <2>1 DEF In
  <2>2. CASE table' = table \o b /\ UNCHANGED dropped
    <3>1. table \in Seq(Nat) /\ b \in Seq(Nat)
      BY DEF OrderInv, OnTable, InFlight
    <3>2. /\ \A i \in DOMAIN table' :
               IF i <= Len(table) THEN i \in DOMAIN table /\ table'[i] = table[i]
               ELSE i - Len(table) \in DOMAIN b /\ table'[i] = b[i - Len(table)]
          /\ \A i \in DOMAIN table : i \in DOMAIN table' /\ table'[i] = table[i]
          /\ \A i \in DOMAIN b : i + Len(table) \in DOMAIN table' /\ table'[i + Len(table)] = b[i]
      BY <2>2, <3>1
    <3>3. In(table)' = In(table) \cup In(b)
      BY ONLY <3>2 DEF In
    <3> QED BY <2>2, <3>3
  <2> QED BY <2>1, <2>2 DEF InsertEnds, Landed
<1>4. In(buffer)' = In(buffer) /\ (UNION {In(f) : f \in flights})' = {}
  BY <1>1 DEF In
<1> QED BY <1>1, <1>2, <1>3, <1>4 DEF Accounted

LEMMA NextHolds == OrderInv /\ Accounted /\ [LogNext]_logVars => Accounted'
<1> SUFFICES ASSUME OrderInv, Accounted, [LogNext]_logVars PROVE Accounted'
  OBVIOUS
<1>1. Holds(buffer, added)
  BY DEF Holds, Accounted
<1>2. Holds(Pushed, added + 1)
  BY PushedHolds
<1>3. CASE Log
  <2>1. added' = added + 1 /\ UNCHANGED <<table, dropped>>
    BY <1>3 DEF Log, stored
  <2>2. CASE Full
    BY <1>2, <1>3, <2>1, <2>2, FlushHolds DEF Log
  <2>3. CASE ~Full
    <3>1. buffer' = Pushed /\ UNCHANGED flights
      BY <1>3, <2>3 DEF Log
    <3> QED BY <1>2, <2>1, <3>1 DEF Holds, Accounted, In
  <2> QED BY <2>2, <2>3
<1>4. CASE TimerFires \/ Finalize \/ CycleEnds
  <2>1. added' = added /\ UNCHANGED <<table, dropped>> /\ \E t : Flush(buffer, t)
    BY <1>4 DEF TimerFires, Finalize, CycleEnds, stored
  <2> QED BY <1>1, <2>1, FlushHolds
<1>5. CASE LogLast \/ StopScan
  <2>1. added' = added + 1 /\ UNCHANGED <<table, dropped>> /\ Flush(Pushed, Timed)
    BY <1>5 DEF LogLast, StopScan, stored
  <2> QED BY <1>2, <2>1, FlushHolds
<1>6. CASE Complete \/ UNCHANGED logVars
  BY <1>6 DEF Complete, logVars, stored, Accounted, In
<1> QED BY <1>3, <1>4, <1>5, <1>6, LandHolds DEF LogNext

\* A log given to add() is buffered, in the batch under way, stored or in a
\* batch whose INSERT failed, whatever is added while the INSERT is awaited.
THEOREM NoLogIsLost == LogSpec => []Accounted
<1> QED BY InitOrder, NextOrder, InitHolds, NextHolds, PTL DEF LogSpec
=============================================================================
