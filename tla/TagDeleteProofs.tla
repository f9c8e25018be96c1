-------------------------- MODULE TagDeleteProofs ---------------------------
(***************************************************************************)
(* What holds of the deletion of tags, for every number of tags, of stored *)
(* values, crashes and failing statements, and every size of a batch.      *)
(*                                                                         *)
(* The handler, the passes of the dispatcher, the telemetry and crashes    *)
(* interleave freely, so each theorem needs to know where all of them can  *)
(* be at a time (Shape) and one fact more, proved inductive with it:       *)
(*   - DeletedIsEmpty: whoever is about to write 'deleted' has found the   *)
(*     tag without rows, but for late ones (EmptyInv);                     *)
(*   - HandlerSettles: the tags the handler has behind it are settled      *)
(*     (SettleInv);                                                        *)
(*   - CompletedDeletes: a handler that is not cancelled and meets no late *)
(*     value gives no tag up (OrderlyInv), and those behind it are deleted *)
(*     (CompleteInv);                                                      *)
(*   - CancelSpares: the values counted as deleted and those still stored  *)
(*     never exceed the total counted at first, so where the progress lets *)
(*     a pass take the job, the tags not begun hold no more than what is   *)
(*     missing to 100 % (SpareInv, on the lemmas of Sum).                  *)
(***************************************************************************)
EXTENDS TagDelete, TLAPS, FiniteSetTheorems, WellFoundedInduction

-----------------------------------------------------------------------------
(* Sum.                                                                    *)

\* Induction over the natural numbers, for a set instead of a formula.
LEMMA AllNumbers ==
  ASSUME NEW S, 0 \in S, \A n \in Nat : n \in S => n + 1 \in S
  PROVE  \A n \in Nat : n \in S
<1> SUFFICES ASSUME Nat \ S # {} PROVE FALSE
  OBVIOUS
<1> DEFINE R == OpToRel(<, Nat)
<1>1. \A x, y \in Nat : <<x, y>> \in R <=> x < y
  BY DEF OpToRel
<1>2. IsWellFoundedOn(R, Nat)
  BY NatLessThanWellFounded
<1> HIDE DEF R
<1>3. Nat \ S \subseteq Nat
  OBVIOUS
<1>4. PICK x \in Nat \ S : \A y \in Nat \ S : ~(<<y, x>> \in R)
  BY <1>2, <1>3, WFMin, Zenon
<1>5. x \in Nat /\ x # 0
  BY <1>4
<1>6. x - 1 \in Nat /\ x - 1 < x /\ (x - 1) + 1 = x
  BY <1>5
<1>7. x - 1 \in S
  BY <1>1, <1>4, <1>5, <1>6
<1> QED BY <1>4, <1>6, <1>7

\* s[n] is the sum of the first n values of f.
Adds(s, f) == s = [t \in 0 .. NumTags |-> IF t = 0 THEN 0 ELSE f[t] + s[t - 1]]

LEMMA SumsExist == ASSUME NEW f \in [Tags -> Nat] PROVE \E s : Adds(s, f)
<1> USE TagDeleteAssumption
<1> DEFINE Upto(s, n) == s[0] = 0 /\ \A t \in Tags : t <= n => s[t] = f[t] + s[t - 1]
           S == {n \in Nat : \E s \in [0 .. NumTags -> Nat] : Upto(s, n)}
<1>1. 0 \in S
  <2>1. Upto([t \in 0 .. NumTags |-> 0], 0)
    BY DEF Tags
  <2> QED BY <2>1
<1>2. ASSUME NEW n \in Nat, n \in S PROVE n + 1 \in S
  <2>1. PICK s \in [0 .. NumTags -> Nat] : Upto(s, n)
    BY <1>2
  <2>2. CASE n + 1 \in Tags
    <3>1. f[n + 1] \in Nat /\ s[n] \in Nat /\ n + 1 \in 0 .. NumTags /\ n \in 0 .. NumTags
      BY <2>2 DEF Tags
    <3> DEFINE u == [s EXCEPT ![n + 1] = f[n + 1] + s[n]]
    <3>2. u \in [0 .. NumTags -> Nat]
      BY <3>1
    <3>3. u[n + 1] = f[n + 1] + s[n] /\ \A t \in 0 .. NumTags : t # n + 1 => u[t] = s[t]
      BY <3>1
    <3> HIDE DEF u
    <3>4. Upto(u, n + 1)
      <4>1. u[0] = 0
        BY <2>1, <3>3
      <4>2. ASSUME NEW t \in Tags, t <= n + 1 PROVE u[t] = f[t] + u[t - 1]
        <5>1. t \in 0 .. NumTags /\ t - 1 \in 0 .. NumTags /\ t - 1 # n + 1 /\ (t # n + 1 => t <= n)
          BY <4>2 DEF Tags
        <5>2. u[t - 1] = s[t - 1]
          BY <3>3, <5>1
        <5>3. CASE t = n + 1
          BY <3>3, <5>2, <5>3
        <5>4. CASE t # n + 1
          BY <2>1, <3>3, <5>1, <5>2, <5>4
        <5> QED BY <5>3, <5>4
      <4> QED BY <4>1, <4>2
    <3> HIDE DEF Upto
    <3>5. \E v \in [0 .. NumTags -> Nat] : Upto(v, n + 1)
      BY <3>2, <3>4, Zenon
    <3>6. n + 1 \in Nat
      OBVIOUS
    <3> QED BY <3>5, <3>6, Zenon
  <2>3. CASE n + 1 \notin Tags
    <3>1. \A t \in Tags : t <= n
      BY <2>3 DEF Tags
    <3>2. Upto(s, n + 1)
      BY <2>1, <3>1
    <3> HIDE DEF Upto
    <3> QED BY <3>2
  <2> QED BY <2>2, <2>3
<1> HIDE DEF S
<1>3. NumTags \in S
  BY <1>1, <1>2, AllNumbers
<1>4. PICK s \in [0 .. NumTags -> Nat] : Upto(s, NumTags)
  BY <1>3 DEF S
<1>5. \A t \in 0 .. NumTags : s[t] = IF t = 0 THEN 0 ELSE f[t] + s[t - 1]
  BY <1>4 DEF Tags
<1> QED BY <1>5 DEF Adds

LEMMA SumIs ==
  ASSUME NEW f \in [Tags -> Nat], last \in 0 .. NumTags
  PROVE  \E s \in [0 .. NumTags -> Nat] :
           /\ Sum(f) = s[last]
           /\ s[0] = 0 /\ \A t \in Tags : s[t] = f[t] + s[t - 1]
<1> USE TagDeleteAssumption
<1> DEFINE s == CHOOSE s : Adds(s, f)
<1>1. Sum(f) = s[last]
  BY DEF Sum, Adds
<1>2. Adds(s, f)
  BY SumsExist, Zenon
<1> HIDE DEF s
<1>3. s[0] = 0 /\ \A t \in Tags : s[t] = f[t] + s[t - 1]
  <2>1. \A t \in 0 .. NumTags : s[t] = IF t = 0 THEN 0 ELSE f[t] + s[t - 1]
    BY <1>2, Zenon DEF Adds
  <2>2. 0 \in 0 .. NumTags /\ \A t \in Tags : t \in 0 .. NumTags /\ t # 0
    BY DEF Tags
  <2> QED BY <2>1, <2>2
<1> DEFINE S == {n \in Nat : n <= NumTags => s[n] \in Nat}
<1>4. 0 \in S
  BY <1>3
<1>5. ASSUME NEW n \in Nat, n \in S PROVE n + 1 \in S
  <2> SUFFICES ASSUME n + 1 <= NumTags PROVE s[n + 1] \in Nat
    OBVIOUS
  <2>1. n + 1 \in Tags /\ (n + 1) - 1 = n /\ s[n] \in Nat
    BY <1>5 DEF Tags
  <2>2. s[n + 1] = f[n + 1] + s[n] /\ f[n + 1] \in Nat
    BY <1>3, <2>1
  <2> QED BY <2>1, <2>2
<1>6. \A n \in Nat : n \in S
  <2> HIDE DEF S
  <2> QED BY <1>4, <1>5, AllNumbers
<1>7. \A t \in 0 .. NumTags : s[t] \in Nat
  BY <1>6
<1>8. s \in [0 .. NumTags -> Nat]
  BY <1>2, <1>7 DEF Adds
<1> QED BY <1>1, <1>3, <1>8

LEMMA SumIsNatural == ASSUME NEW f \in [Tags -> Nat], last \in 0 .. NumTags PROVE Sum(f) \in Nat
<1>1. PICK s \in [0 .. NumTags -> Nat] : Sum(f) = s[last]
  BY SumIs
<1> QED BY <1>1

\* One value differs, and the total by as much.
LEMMA SumDiffers ==
  ASSUME NEW f \in [Tags -> Nat], NEW g \in [Tags -> Nat], last \in 0 .. NumTags,
         NEW c \in Named, \A t \in Tags \ {c} : g[t] = f[t]
  PROVE  Sum(g) + f[c] = Sum(f) + g[c]
<1> USE TagDeleteAssumption
<1>1. PICK s \in [0 .. NumTags -> Nat] :
        Sum(f) = s[last] /\ s[0] = 0 /\ \A t \in Tags : s[t] = f[t] + s[t - 1]
  BY SumIs
<1>2. PICK u \in [0 .. NumTags -> Nat] :
        Sum(g) = u[last] /\ u[0] = 0 /\ \A t \in Tags : u[t] = g[t] + u[t - 1]
  BY SumIs
<1>3. c \in Tags /\ c \in Nat /\ c >= 1 /\ c <= last /\ f[c] \in Nat /\ g[c] \in Nat
  BY DEF Named, Tags
<1> PICK d \in Int : d = g[c] - f[c]
  BY <1>3
<1> DEFINE S == {n \in Nat : n <= NumTags => u[n] = IF n < c THEN s[n] ELSE s[n] + d}
<1>4. 0 \in S
  BY <1>1, <1>2, <1>3
<1>5. ASSUME NEW n \in Nat, n \in S PROVE n + 1 \in S
  <2> SUFFICES ASSUME n + 1 <= NumTags
               PROVE  u[n + 1] = IF n + 1 < c THEN s[n + 1] ELSE s[n + 1] + d
    OBVIOUS
  <2>1. n + 1 \in Tags /\ (n + 1) - 1 = n /\ s[n] \in Nat /\ u[n] \in Nat
    BY DEF Tags
  <2>2. u[n] = IF n < c THEN s[n] ELSE s[n] + d
    BY <1>5
  <2>3. s[n + 1] = f[n + 1] + s[n] /\ u[n + 1] = g[n + 1] + u[n]
    BY <1>1, <1>2, <2>1
  <2>4. f[n + 1] \in Nat /\ g[n + 1] \in Nat
    BY <2>1
  <2>5. CASE n + 1 = c
    <3>1. n < c /\ ~(n + 1 < c)
      BY <1>3, <2>5
    <3>2. u[n] = s[n] /\ f[n + 1] = f[c] /\ g[n + 1] = g[c]
      BY <2>2, <2>5, <3>1
    <3> QED BY <1>3, <2>1, <2>3, <3>1, <3>2
  <2>6. CASE n + 1 # c
    <3>1. g[n + 1] = f[n + 1] /\ (n + 1 < c <=> n < c)
      BY <1>3, <2>1, <2>6
    <3> QED BY <2>1, <2>2, <2>3, <2>4, <3>1
  <2> QED BY <2>5, <2>6
<1>6. last \in S
  <2> HIDE DEF S
  <2>1. \A n \in Nat : n \in S
    BY <1>4, <1>5, AllNumbers
  <2>2. last \in Nat
    OBVIOUS
  <2> QED BY <2>1, <2>2
<1> QED BY <1>1, <1>2, <1>3, <1>6

\* Of values that are not greater the total is not either.
LEMMA SumGrows ==
  ASSUME NEW f \in [Tags -> Nat], NEW g \in [Tags -> Nat], last \in 0 .. NumTags,
         \A t \in Tags : f[t] <= g[t]
  PROVE  Sum(f) <= Sum(g)
<1> USE TagDeleteAssumption
<1>1. PICK s \in [0 .. NumTags -> Nat] :
        Sum(f) = s[last] /\ s[0] = 0 /\ \A t \in Tags : s[t] = f[t] + s[t - 1]
  BY SumIs
<1>2. PICK u \in [0 .. NumTags -> Nat] :
        Sum(g) = u[last] /\ u[0] = 0 /\ \A t \in Tags : u[t] = g[t] + u[t - 1]
  BY SumIs
<1> DEFINE S == {n \in Nat : n <= NumTags => s[n] <= u[n]}
<1>3. 0 \in S
  BY <1>1, <1>2
<1>4. ASSUME NEW n \in Nat, n \in S PROVE n + 1 \in S
  <2> SUFFICES ASSUME n + 1 <= NumTags PROVE s[n + 1] <= u[n + 1]
    OBVIOUS
  <2>1. n + 1 \in Tags /\ (n + 1) - 1 = n /\ s[n] \in Nat /\ u[n] \in Nat
    BY DEF Tags
  <2>2. s[n] <= u[n] /\ f[n + 1] <= g[n + 1] /\ f[n + 1] \in Nat /\ g[n + 1] \in Nat
    BY <1>4, <2>1
  <2>3. s[n + 1] = f[n + 1] + s[n] /\ u[n + 1] = g[n + 1] + u[n]
    BY <1>1, <1>2, <2>1
  <2> QED BY <2>1, <2>2, <2>3
<1>5. last \in S
  <2> HIDE DEF S
  <2>1. \A n \in Nat : n \in S
    BY <1>3, <1>4, AllNumbers
  <2>2. last \in Nat
    OBVIOUS
  <2> QED BY <2>1, <2>2
<1> QED BY <1>1, <1>2, <1>5

\* No value exceeds the total.
LEMMA PartOfSum ==
  ASSUME NEW f \in [Tags -> Nat], last \in 0 .. NumTags, NEW c \in Named
  PROVE  f[c] <= Sum(f)
<1> USE TagDeleteAssumption
<1>1. PICK s \in [0 .. NumTags -> Nat] :
        Sum(f) = s[last] /\ s[0] = 0 /\ \A t \in Tags : s[t] = f[t] + s[t - 1]
  BY SumIs
<1>2. c \in Tags /\ c \in Nat /\ c >= 1 /\ c <= last /\ f[c] \in Nat
  BY DEF Named, Tags
<1> DEFINE S == {n \in Nat : n <= NumTags /\ n >= c => s[n] >= f[c]}
<1>3. 0 \in S
  BY <1>2
<1>4. ASSUME NEW n \in Nat, n \in S PROVE n + 1 \in S
  <2> SUFFICES ASSUME n + 1 <= NumTags, n + 1 >= c PROVE s[n + 1] >= f[c]
    OBVIOUS
  <2>1. n + 1 \in Tags /\ (n + 1) - 1 = n /\ s[n] \in Nat /\ f[n + 1] \in Nat
    BY DEF Tags
  <2>2. s[n + 1] = f[n + 1] + s[n]
    BY <1>1, <2>1
  <2>3. CASE n + 1 = c
    BY <1>2, <2>1, <2>2, <2>3
  <2>4. CASE n + 1 # c
    <3>1. s[n] >= f[c]
      BY <1>2, <1>4, <2>4
    <3> QED BY <1>2, <2>1, <2>2, <3>1
  <2> QED BY <2>3, <2>4
<1>5. last \in S
  <2> HIDE DEF S
  <2>1. \A n \in Nat : n \in S
    BY <1>3, <1>4, AllNumbers
  <2>2. last \in Nat
    OBVIOUS
  <2> QED BY <2>1, <2>2
<1> QED BY <1>1, <1>2, <1>5

-----------------------------------------------------------------------------
(* Where the parts of the system can be at a time.                         *)

Working == {"next", "batch", "delete", "verify", "redelete", "residual", "clean", "restore"}
Touching == {"batch", "delete", "verify", "redelete", "clean"}

Places ==
  /\ route = "idle" => last = 0 /\ pass \in {"idle", "startup"}
  /\ route \in {"idle", "enqueue"} => job = "none"
  /\ route # "idle" => last \in Tags
  /\ job = "none" => h = "off"
  /\ h = "off" => job \in {"none", "queued"} /\ pass \in {"idle", "startup"}
  /\ route \in {"idle", "enqueue", "remark"} => ~late
  /\ h \in {"off", "mark", "count"} => cur = 0
  /\ h \in Working => cur \in Named
  /\ h \in {"batch", "delete", "verify"} => tries < 3
  /\ pass = "drain" => mcur \in Named

Shape == TypeOK /\ Places

LEMMA InitShape == Init => Shape
<1> SUFFICES ASSUME Init PROVE Shape
  OBVIOUS
<1>1. /\ last \in 0 .. NumTags /\ cur \in 0 .. NumTags + 1 /\ mcur \in 0 .. NumTags + 1
      /\ rows \in [Tags -> Nat] /\ came \in [Tags -> 0 .. MaxInserts]
      /\ crashes \in 0 .. MaxCrashes /\ errors \in 0 .. MaxErrors
  BY TagDeleteAssumption DEF Init
<1>2. tag \in [Tags -> {"active", "deleted"} \cup Deleting]
  BY DEF Init
<1>3. tries \in 0 .. 3 /\ deleted \in Nat /\ total \in Nat /\ dropped \subseteq Tags /\ spared \subseteq Tags
  BY DEF Init
<1>4. TypeOK
  BY <1>1, <1>2, <1>3 DEF Init, TypeOK
<1> QED BY <1>4 DEF Init, Shape, Places, Working

\* Named and Tags are numbers.
LEMMA Bounds ==
  ASSUME TypeOK
  PROVE  /\ NumTags \in Nat /\ last \in Nat /\ cur \in Nat /\ mcur \in Nat
         /\ Named \subseteq Tags
         /\ \A t \in Tags : t \in Nat /\ t >= 1 /\ t <= NumTags
         /\ \A t \in Named : t \in Nat /\ t >= 1 /\ t <= last
         /\ last \in Tags => 1 \in Named /\ NumTags >= 1
         /\ MaxErrors \in Nat /\ MaxCrashes \in Nat /\ MaxInserts \in Nat
         /\ \A n \in Nat : n >= 1 /\ n <= last => n \in Named
BY TagDeleteAssumption DEF TypeOK, Named, Tags

LEMMA LessIsLess ==
  ASSUME NEW n \in Nat
  PROVE  /\ Less(n, Batch) \in Nat /\ Less(n, Batch) <= n
         /\ Less(n, MiniBatch) \in Nat /\ Less(n, MiniBatch) <= n
         /\ n = 0 => Less(n, Batch) = 0 /\ Less(n, MiniBatch) = 0
BY TagDeleteAssumption DEF Less, MiniBatch

LEMMA ErrTypes == ASSUME TypeOK, Err PROVE errors' \in 0 .. MaxErrors
BY TagDeleteAssumption DEF TypeOK, Err

LEMMA WritesTypes ==
  ASSUME TypeOK, NEW status \in [Tags -> {"active", "deleted"} \cup Deleting], Writes(status)
  PROVE  tag' \in [Tags -> {"active", "deleted"} \cup Deleting] /\ errors' \in 0 .. MaxErrors
BY ErrTypes DEF TypeOK, Writes

LEMMA RestoredType ==
  ASSUME TypeOK, NEW t PROVE Restored(t) \in [Tags -> {"active", "deleted"} \cup Deleting]
BY DEF TypeOK, Restored, Deleting

LEMMA ApiShape ==
  ASSUME Shape, \/ \E n \in Tags : Remove(n) \/ Insert(n)
                \/ Enqueue \/ Remark \/ RequestCancel \/ Refresh \/ Crash \/ Start
  PROVE  Shape'
<1> USE Bounds DEF Shape, data, work, maint, faults, kept, rest
<1>1. ASSUME NEW n \in Tags, Remove(n) PROVE Shape'
  <2>1. tag' \in [Tags -> {"active", "deleted"} \cup Deleting]
    BY <1>1 DEF Remove, TypeOK, Deleting
  <2>2. last' \in 0 .. NumTags
    BY <1>1 DEF Remove
  <2>3. TypeOK'
    BY <1>1, <2>1, <2>2 DEF Remove, TypeOK
  <2>4. Places'
    BY <1>1 DEF Remove, Places, Working
  <2> QED BY <2>3, <2>4
<1>2. ASSUME NEW n \in Tags, Insert(n) PROVE Shape'
  <2>1. came \in [Tags -> Nat]
    BY DEF TypeOK
  <2>2. came[n] <= Sum(came) /\ Sum(came) \in Nat
    BY <1>2, <2>1, PartOfSum, SumIsNatural DEF TypeOK, Insert
  <2>3. came[n] + 1 \in 0 .. MaxInserts /\ rows[n] + 1 \in Nat
    BY <1>2, <2>1, <2>2 DEF Insert, TypeOK
  <2>4. TypeOK'
    BY <1>2, <2>3 DEF Insert, TypeOK
  <2>5. Places'
    BY <1>2 DEF Insert, Places, Named, Working
  <2> QED BY <2>4, <2>5
<1>3. CASE Enqueue
  BY <1>3 DEF Enqueue, TypeOK, Places, Named, Working
<1>4. CASE Remark
  <2>1. tag' \in [Tags -> {"active", "deleted"} \cup Deleting]
    BY <1>4 DEF Remark, TypeOK, Deleting
  <2>2. TypeOK'
    BY <1>4, <2>1 DEF Remark, TypeOK
  <2>3. Places'
    BY <1>4 DEF Remark, Places, Named, Working
  <2> QED BY <2>2, <2>3
<1>5. CASE RequestCancel
  <2>1. spared' \subseteq Tags
    BY <1>5 DEF RequestCancel, Untouched
  <2>2. TypeOK'
    BY <1>5, <2>1 DEF RequestCancel, TypeOK
  <2>3. Places'
    BY <1>5 DEF RequestCancel, Places, Named, Working
  <2> QED BY <2>2, <2>3
<1>6. CASE Refresh
  BY <1>6 DEF Refresh, TypeOK, Places, Named, Working
<1>7. CASE Crash
  <2>1. crashes' \in 0 .. MaxCrashes /\ mcur' \in 0 .. NumTags + 1
    BY <1>7 DEF Crash, Repair, TypeOK
  <2>2. TypeOK'
    BY <1>7, <2>1 DEF Crash, Repair, TypeOK
  <2>3. Places'
    BY <1>7 DEF Crash, Repair, Places, Named, Working, TypeOK
  <2> QED BY <2>2, <2>3
<1>8. CASE Start
  <2>1. mcur' \in 0 .. NumTags + 1
    BY <1>8 DEF Start, Repair
  <2>2. TypeOK'
    BY <1>8, <2>1 DEF Start, Repair, TypeOK
  <2>3. Places'
    BY <1>8 DEF Start, Repair, Places, Named, Working, TypeOK
  <2> QED BY <2>2, <2>3
<1> QED BY <1>1, <1>2, <1>3, <1>4, <1>5, <1>6, <1>7, <1>8

LEMMA HandlerShape == ASSUME Shape, Claim \/ Handle PROVE Shape'
<1> USE Bounds, ErrTypes DEF Shape, data, work, maint, faults, kept, rest
<1>1. CASE Claim
  <2>1. cur' \in 0 .. NumTags + 1
    BY <1>1 DEF Claim
  <2> QED BY <1>1, <2>1 DEF Claim, TypeOK, Places, Named, Working
<1>2. CASE MarkDeleting
  <2>1. tag' \in [Tags -> {"active", "deleted"} \cup Deleting] /\ errors' \in 0 .. MaxErrors
    <3>1. [t \in Tags |-> IF t \in Named /\ tag[t] # "deleted" THEN "deleting" ELSE tag[t]]
            \in [Tags -> {"active", "deleted"} \cup Deleting]
      BY DEF TypeOK, Deleting
    <3> QED BY <1>2, <3>1, WritesTypes DEF MarkDeleting
  <2> QED BY <1>2, <2>1 DEF MarkDeleting, At, TypeOK, Places, Named, Working
<1>3. CASE CountRows
  <2>1. total' \in Nat /\ errors' \in 0 .. MaxErrors
    BY <1>3, SumIsNatural DEF CountRows, TypeOK
  <2>2. last \in Tags
    BY <1>3 DEF CountRows, At, Places
  <2>3. cur' = 1 /\ cur' \in Named /\ cur' \in 0 .. NumTags + 1
    BY <1>3, <2>2 DEF CountRows
  <2>4. TypeOK'
    BY <1>3, <2>1, <2>3 DEF CountRows, TypeOK
  <2>5. Places'
    BY <1>3, <2>3 DEF CountRows, At, Places, Named, Working
  <2> QED BY <2>4, <2>5
<1>4. CASE NextTag \/ SelectBatch
  BY <1>4 DEF NextTag, SelectBatch, At, TypeOK, Places, Named, Working
<1>5. CASE DeleteBatch
  <2>1. cur \in Tags /\ rows[cur] \in Nat
    BY <1>5 DEF DeleteBatch, At, Places, Working, TypeOK
  <2>2. Less(rows[cur], Batch) \in Nat /\ deleted' \in Nat
    <3>1. Less(rows[cur], Batch) \in Nat /\ Less(rows[cur], Batch) <= rows[cur]
      BY <2>1, LessIsLess
    <3>2. rows'[cur] = Less(rows[cur], Batch)
      BY <1>5, <2>1 DEF DeleteBatch, TypeOK
    <3>3. deleted' = deleted + (rows[cur] - rows'[cur]) /\ deleted \in Nat
      BY <1>5 DEF DeleteBatch, TypeOK
    <3> QED BY <2>1, <3>1, <3>2, <3>3
  <2>3. full' \in BOOLEAN
    <3>1. Nearly(deleted', total) \in BOOLEAN /\ \A n : Nearly(n, last) \in BOOLEAN
      BY DEF Nearly
    <3>2. \/ full' \in {Nearly(deleted', total), full}
          \/ \E n : full' = Nearly(n, last)
      BY <1>5, Zenon DEF DeleteBatch
    <3> QED BY <3>1, <3>2, Zenon DEF TypeOK
  <2>4. TypeOK'
    BY <1>5, <2>1, <2>2, <2>3 DEF DeleteBatch, At, TypeOK
  <2>5. Places'
    BY <1>5 DEF DeleteBatch, At, Places, Named, Working
  <2> QED BY <2>4, <2>5
<1>6. CASE Verify
  <2>1. tries' \in 0 .. 3
    BY <1>6 DEF Verify, At, Places, TypeOK
  <2> QED BY <1>6, <2>1 DEF Verify, At, TypeOK, Places, Named, Working
<1>7. CASE Redelete
  <2>1. cur \in Tags /\ rows[cur] \in Nat
    BY <1>7 DEF Redelete, At, Places, Working, TypeOK
  <2>2. Less(rows[cur], Batch) \in Nat
    BY <2>1, LessIsLess
  <2>3. TypeOK'
    BY <1>7, <2>1, <2>2 DEF Redelete, At, TypeOK
  <2>4. Places'
    BY <1>7 DEF Redelete, At, Places, Named, Working, TypeOK
  <2> QED BY <2>3, <2>4
<1>8. CASE Residual \/ FinishTag \/ RestoreTag
  <2>1. cur \in Named
    BY <1>8 DEF Residual, FinishTag, RestoreTag, At, Places, Working
  <2>2. /\ [tag EXCEPT ![cur] = "active"] \in [Tags -> {"active", "deleted"} \cup Deleting]
        /\ [tag EXCEPT ![cur] = "deleted"] \in [Tags -> {"active", "deleted"} \cup Deleting]
    BY DEF TypeOK
  <2>3. tag' \in [Tags -> {"active", "deleted"} \cup Deleting] /\ errors' \in 0 .. MaxErrors
    BY <1>8, <2>2, WritesTypes, RestoredType DEF Residual, FinishTag, RestoreTag
  <2>4. cur' \in 0 .. NumTags + 1 /\ full' \in BOOLEAN
    <3>1. cur' = cur \/ cur' = cur + 1
      BY <1>8 DEF Residual, FinishTag, RestoreTag
    <3>2. Nearly(deleted, total) \in BOOLEAN /\ Nearly(cur, last) \in BOOLEAN
      BY DEF Nearly
    <3>3. full' \in {full, Nearly(deleted, total), Nearly(cur, last)}
      BY <1>8, Zenon DEF Residual, FinishTag, RestoreTag
    <3>4. full' \in BOOLEAN
      BY <3>2, <3>3, Zenon DEF TypeOK
    <3> QED BY <2>1, <3>1, <3>4
  <2>5. TypeOK'
    BY <1>8, <2>3, <2>4 DEF Residual, FinishTag, RestoreTag, At, TypeOK
  <2>6. h' \in Working => cur' \in Named
    BY <1>8, <2>1 DEF Residual, FinishTag, RestoreTag, Working
  <2>7. Places'
    BY <1>8, <2>6 DEF Residual, FinishTag, RestoreTag, At, Places, Named, Working
  <2> QED BY <2>5, <2>7
<1>9. CASE EndJob
  BY <1>9 DEF EndJob, TypeOK, Places, Named, Working
<1>10. CASE Throw
  BY <1>10 DEF Throw, TypeOK, Places, Named, Working
<1> QED
  BY <1>1, <1>2, <1>3, <1>4, <1>5, <1>6, <1>7, <1>8, <1>9, <1>10 DEF Handle

LEMMA RepairTypes == ASSUME TypeOK, NEW where, Repair(where) PROVE mcur' \in 0 .. NumTags + 1
BY Bounds DEF Repair

LEMMA MaintenanceShape == ASSUME Shape, Maintain PROVE Shape'
<1> USE Bounds, ErrTypes DEF Shape, data, work, maint, faults, kept, rest
<1>1. CASE FailStale
  BY <1>1 DEF FailStale, Idle, TypeOK, Places, Named, Working
<1>2. CASE BeginEnforce \/ EnforceCancel \/ BeginReconcile \/ ReconcileCount \/ FinishJob
  <2>1. mcur' \in 0 .. NumTags + 1
    BY <1>2 DEF BeginEnforce, EnforceCancel, BeginReconcile, ReconcileCount, FinishJob, Repair
  <2>2. TypeOK'
    BY <1>2, <2>1
    DEF BeginEnforce, EnforceCancel, BeginReconcile, ReconcileCount, FinishJob, Repair, TypeOK
  <2>3. Places'
    BY <1>2
    DEF BeginEnforce, EnforceCancel, BeginReconcile, ReconcileCount, FinishJob, Repair, Idle,
        TypeOK, Places, Named, Working
  <2> QED BY <2>2, <2>3
<1>3. CASE EnforceRestore
  <2>1. tag' \in [Tags -> {"active", "deleted"} \cup Deleting] /\ errors' \in 0 .. MaxErrors
    BY <1>3, WritesTypes, RestoredType DEF EnforceRestore
  <2>2. mcur' \in 0 .. NumTags + 1
    BY <1>3 DEF EnforceRestore, Repair
  <2>3. TypeOK'
    BY <1>3, <2>1, <2>2 DEF EnforceRestore, Repair, TypeOK
  <2>4. Places'
    BY <1>3 DEF EnforceRestore, Repair, Places, Named, Working
  <2> QED BY <2>3, <2>4
<1>4. CASE ForceDeleted
  <2>1. tag' \in [Tags -> {"active", "deleted"} \cup Deleting]
    BY <1>4 DEF ForceDeleted, TypeOK
  <2>2. mcur' \in 0 .. NumTags + 1
    BY <1>4 DEF ForceDeleted, Repair
  <2>3. TypeOK'
    BY <1>4, <2>1, <2>2 DEF ForceDeleted, Repair, TypeOK
  <2>4. Places'
    BY <1>4 DEF ForceDeleted, Repair, Places, Named, Working
  <2> QED BY <2>3, <2>4
<1>5. CASE BeginStalled \/ StalledCountFails
  <2>1. mcur' = 1 /\ mcur' \in 0 .. NumTags + 1 /\ errors' \in 0 .. MaxErrors
    BY <1>5 DEF BeginStalled, StalledCountFails, Repair, TypeOK
  <2>2. last \in Tags
    BY <1>5 DEF BeginStalled, StalledCountFails, Idle, Places
  <2>3. TypeOK'
    <3>1. CASE BeginStalled
      BY <2>1, <3>1 DEF BeginStalled, Repair, TypeOK
    <3>2. CASE StalledCountFails
      BY <2>1, <3>2 DEF StalledCountFails, Repair, TypeOK
    <3> QED BY <1>5, <3>1, <3>2
  <2>4. Places'
    BY <1>5, <2>1, <2>2 DEF BeginStalled, StalledCountFails, Idle, Repair, Places, Named, Working
  <2> QED BY <2>3, <2>4
<1>6. CASE Drain
  <2>1. mcur \in Named /\ rows[mcur] \in Nat
    BY <1>6 DEF Drain, Places, TypeOK
  <2>2. Less(rows[mcur], MiniBatch) \in Nat /\ mcur' \in 0 .. NumTags + 1
    BY <1>6, <2>1, LessIsLess DEF Drain
  <2>3. TypeOK'
    BY <1>6, <2>1, <2>2 DEF Drain, TypeOK
  <2>4. mcur = last \/ mcur + 1 \in Named
    BY <2>1
  <2>5. Places'
    BY <1>6, <2>4 DEF Drain, Places, Named, Working
  <2> QED BY <2>3, <2>5
<1>7. CASE StartupReconcile
  <2>1. mcur' \in 0 .. NumTags + 1
    BY <1>7 DEF StartupReconcile, Repair
  <2>2. TypeOK'
    BY <1>7, <2>1 DEF StartupReconcile, Repair, TypeOK
  <2>3. Places'
    BY <1>7 DEF StartupReconcile, Repair, Places, Named, Working
  <2> QED BY <2>2, <2>3
<1>8. CASE PassFails
  <2>1. mcur' \in 0 .. NumTags + 1
    BY <1>8 DEF PassFails, Repair
  <2> QED BY <1>8, <2>1 DEF PassFails, Repair, TypeOK, Places, Named, Working
<1> QED
  BY <1>1, <1>2, <1>3, <1>4, <1>5, <1>6, <1>7, <1>8 DEF Maintain

LEMMA ShapeStep == ASSUME Shape, [Next]_vars PROVE Shape'
<1>1. CASE UNCHANGED vars
  BY <1>1 DEF vars, data, work, maint, kept, rest, Shape, TypeOK, Places, Named, Working
<1> QED BY <1>1, ApiShape, HandlerShape, MaintenanceShape DEF Next

-----------------------------------------------------------------------------
(* A tag is declared deleted when it is empty.                             *)

EmptyInv ==
  /\ h = "clean" => rows[cur] <= came[cur]
  /\ pass = "force" /\ ~blind => \A t \in Named : rows[t] <= came[t]

\* Whatever happens, at most the late values come in.
LEMMA EmptyStays ==
  ASSUME Shape, [Next]_vars, NEW t \in Tags, rows[t] <= came[t] PROVE rows'[t] <= came'[t]
<1> USE DEF Shape, data, work, maint, faults, kept, rest
<1>1. rows[t] \in Nat /\ came[t] \in Nat /\ rows \in [Tags -> Nat] /\ came \in [Tags -> 0 .. MaxInserts]
  BY TagDeleteAssumption DEF TypeOK
<1>2. \A n \in Nat : /\ Less(n, Batch) <= n /\ Less(n, Batch) \in Nat
                     /\ Less(n, MiniBatch) <= n /\ Less(n, MiniBatch) \in Nat
  BY LessIsLess
<1>3. CASE \E n \in Tags : Insert(n)
  BY <1>1, <1>3 DEF Insert
<1>4. CASE DeleteBatch \/ Redelete \/ Drain
  <2>1. \E c : /\ rows' \in {[rows EXCEPT ![c] = Less(@, Batch)], [rows EXCEPT ![c] = Less(@, MiniBatch)]}
               /\ came' = came
    BY <1>4 DEF DeleteBatch, Redelete, Drain
  <2>2. rows'[t] \in {rows[t], Less(rows[t], Batch), Less(rows[t], MiniBatch)} /\ came'[t] = came[t]
    BY <1>1, <2>1
  <2> QED BY <1>1, <1>2, <2>2
<1>5. CASE UNCHANGED <<rows, came>>
  BY <1>5
<1> QED
  BY <1>3, <1>4, <1>5
  DEF Next, Handle, Maintain, vars, Remove, Enqueue, Remark, RequestCancel, Claim, Refresh, Crash,
      Start, MarkDeleting, CountRows, NextTag, SelectBatch, Verify, Residual, FinishTag, RestoreTag,
      EndJob, Throw, FailStale, BeginEnforce, EnforceRestore, EnforceCancel, BeginReconcile,
      ReconcileCount, ForceDeleted, FinishJob, BeginStalled, StalledCountFails, StartupReconcile,
      PassFails

\* A tag becomes deleted behind the verification or behind a count.
LEMMA DeletedBy ==
  ASSUME Shape, [Next]_vars, NEW t \in Tags, tag'[t] = "deleted"
  PROVE  \/ tag[t] = "deleted"
         \/ h = "clean" /\ t = cur
         \/ pass = "force" /\ t \in Named /\ blind' = blind
<1> USE DEF Shape, data, work, maint, faults, kept, rest
<1>1. tag \in [Tags -> {"active", "deleted"} \cup Deleting]
  BY DEF TypeOK
<1>2. CASE \E n \in Tags : Remove(n)
  BY <1>1, <1>2 DEF Remove
<1>3. CASE Remark \/ MarkDeleting
  BY <1>1, <1>3 DEF Remark, MarkDeleting, Writes
<1>4. CASE Residual \/ FinishTag \/ RestoreTag \/ EnforceRestore
  BY <1>1, <1>4 DEF Residual, FinishTag, RestoreTag, EnforceRestore, Restored, At, Writes
<1>5. CASE ForceDeleted
  BY <1>1, <1>5 DEF ForceDeleted
<1>6. CASE UNCHANGED tag
  BY <1>6
<1> QED
  BY <1>2, <1>3, <1>4, <1>5, <1>6
  DEF Next, Handle, Maintain, vars, Insert, Enqueue, RequestCancel, Claim, Refresh, Crash,
      Start, CountRows, NextTag, SelectBatch, DeleteBatch, Verify, Redelete, EndJob, Throw,
      FailStale, BeginEnforce, EnforceCancel, BeginReconcile, ReconcileCount, FinishJob,
      BeginStalled, StalledCountFails, Drain, StartupReconcile, PassFails

\* The handler is in "clean" behind a verification that found nothing.
LEMMA CleanBy ==
  ASSUME Shape, [Next]_vars, h' = "clean"
  PROVE  /\ cur' = cur /\ cur \in Named
         /\ h = "clean" \/ (rows[cur] = 0 /\ UNCHANGED <<rows, came>>)
<1> USE DEF Shape, data, work, maint, faults, kept, rest
<1>1. CASE Claim \/ Handle
  BY <1>1
  DEF Handle, Claim, MarkDeleting, CountRows, NextTag, SelectBatch, DeleteBatch, Verify, Redelete,
      Residual, FinishTag, RestoreTag, EndJob, Throw, At, Places, Working
<1>2. CASE Crash
  BY <1>2 DEF Crash
<1>3. CASE UNCHANGED <<h, cur>>
  BY <1>3 DEF Places, Working
<1> QED
  BY <1>1, <1>2, <1>3
  DEF Next, Maintain, vars, Remove, Insert, Enqueue, Remark, RequestCancel, Refresh, Start,
      FailStale, BeginEnforce, EnforceRestore, EnforceCancel, BeginReconcile, ReconcileCount,
      ForceDeleted, FinishJob, BeginStalled, StalledCountFails, Drain, StartupReconcile, PassFails

\* A pass forces the tags behind a count that found nothing, or failed.
LEMMA ForceBy ==
  ASSUME Shape, [Next]_vars, pass' = "force", ~blind'
  PROVE  /\ ~blind /\ last' = last
         /\ pass = "force" \/ (AllEmpty /\ UNCHANGED <<rows, came>>)
<1> USE DEF Shape, data, work, maint, faults, kept, rest
<1>1. CASE Maintain
  BY <1>1
  DEF Maintain, FailStale, BeginEnforce, EnforceRestore, EnforceCancel, BeginReconcile,
      ReconcileCount, ForceDeleted, FinishJob, BeginStalled, StalledCountFails, Drain,
      StartupReconcile, PassFails, Repair
<1>2. CASE Crash \/ Start
  BY <1>2 DEF Crash, Start, Repair
<1>3. CASE \E n \in Tags : Remove(n)
  BY <1>3 DEF Remove, Places
<1>4. CASE UNCHANGED <<pass, blind, last>>
  BY <1>4
<1> QED
  BY <1>1, <1>2, <1>3, <1>4
  DEF Next, Handle, vars, Insert, Enqueue, Remark, RequestCancel, Claim, Refresh,
      MarkDeleting, CountRows, NextTag, SelectBatch, DeleteBatch, Verify, Redelete, Residual,
      FinishTag, RestoreTag, EndJob, Throw

LEMMA EmptyStep ==
  ASSUME Shape, EmptyInv, DeletedIsEmpty, [Next]_vars PROVE EmptyInv' /\ DeletedIsEmpty'
<1>1. Shape'
  BY ShapeStep
<1>2. ASSUME h' = "clean" PROVE rows'[cur'] <= came'[cur']
  <2>1. cur' = cur /\ cur \in Tags
    BY <1>2, CleanBy, Bounds DEF Shape
  <2>2. rows[cur] <= came[cur] \/ (rows[cur] = 0 /\ UNCHANGED <<rows, came>>)
    BY <1>2, CleanBy DEF EmptyInv
  <2>3. came[cur] \in Nat
    BY <2>1, TagDeleteAssumption DEF Shape, TypeOK
  <2> QED BY <2>1, <2>2, <2>3, EmptyStays
<1>3. ASSUME pass' = "force", ~blind', NEW t \in Named' PROVE rows'[t] <= came'[t]
  <2>1. t \in Named /\ t \in Tags
    BY <1>3, ForceBy, Bounds DEF Shape, Named
  <2>2. rows[t] <= came[t]
    <3>1. came[t] \in Nat
      BY <2>1, TagDeleteAssumption DEF Shape, TypeOK
    <3> QED BY <1>3, <2>1, <3>1, ForceBy DEF EmptyInv, AllEmpty
  <2> QED BY <2>1, <2>2, EmptyStays
<1>4. ASSUME ~blind', NEW t \in Tags, tag'[t] = "deleted" PROVE rows'[t] <= came'[t]
  <2>1. ~blind
    BY <1>4 DEF Next, Handle, Maintain, vars, data, work, maint, faults, kept, rest, Shape, TypeOK,
      Remove, Insert, Enqueue, Remark, RequestCancel, Claim, Refresh, Crash, Start,
      MarkDeleting, CountRows, NextTag, SelectBatch, DeleteBatch, Verify, Redelete, Residual,
      FinishTag, RestoreTag, EndJob, Throw, FailStale, BeginEnforce, EnforceRestore, EnforceCancel,
      BeginReconcile, ReconcileCount, ForceDeleted, FinishJob, BeginStalled, StalledCountFails,
      Drain, StartupReconcile, PassFails
  <2>2. rows[t] <= came[t]
    BY <1>4, <2>1, DeletedBy DEF EmptyInv, DeletedIsEmpty
  <2> QED BY <2>2, EmptyStays
<1> QED BY <1>2, <1>3, <1>4 DEF EmptyInv, DeletedIsEmpty

-----------------------------------------------------------------------------
(* What happens to the tags once the handler has begun.                    *)

LEMMA TagMoves ==
  ASSUME Shape, [Next]_vars, h # "off", ~late'
  PROVE  /\ last' = last /\ ~late /\ route # "idle"
         /\ \/ tag' = tag
            \/ MarkDeleting \/ Residual \/ FinishTag \/ RestoreTag
            \/ EnforceRestore \/ ForceDeleted
<1> USE DEF Shape, data, work, maint, faults, kept, rest
<1>1. route # "idle"
  BY DEF Places
<1>2. CASE \E n \in Tags : Insert(n)
  BY <1>1, <1>2 DEF Insert
<1>3. CASE Remark
  BY <1>3 DEF Remark
<1>4. CASE UNCHANGED <<tag, late, last>>
  BY <1>1, <1>4
<1>5. CASE MarkDeleting \/ Residual \/ FinishTag \/ RestoreTag \/ EnforceRestore \/ ForceDeleted
  BY <1>1, <1>5 DEF MarkDeleting, Residual, FinishTag, RestoreTag, EnforceRestore, ForceDeleted
<1> QED
  BY <1>1, <1>2, <1>3, <1>4, <1>5
  DEF Next, Handle, Maintain, vars, Remove, Enqueue, RequestCancel, Claim, Refresh, Crash, Start,
      CountRows, NextTag, SelectBatch, DeleteBatch, Verify, Redelete, EndJob, Throw,
      FailStale, BeginEnforce, EnforceCancel, BeginReconcile, ReconcileCount, FinishJob,
      BeginStalled, StalledCountFails, Drain, StartupReconcile, PassFails

\* Steps of others leave the handler alone, but for the death of the process.
LEMMA HandlerMoves ==
  ASSUME [Next]_vars
  PROVE  \/ UNCHANGED <<h, cur, tries, deleted, total>>
         \/ Claim
         \/ Handle
         \/ Crash
BY DEF data, work, maint, faults, kept, rest,
      Next, Maintain, vars, Remove, Insert, Enqueue, Remark, RequestCancel, Refresh, Start,
      FailStale, BeginEnforce, EnforceRestore, EnforceCancel, BeginReconcile, ReconcileCount,
      ForceDeleted, FinishJob, BeginStalled, StalledCountFails, Drain, StartupReconcile, PassFails

\* Errors are never forgotten.
LEMMA ErrorsStay == ASSUME Shape, [Next]_vars, errors' = 0 PROVE errors = 0 /\ ~Err
<1>1. errors \in Nat
  BY TagDeleteAssumption DEF Shape, TypeOK
<1>2. ~(errors' = errors + 1)
  BY <1>1
<1>3. errors' = errors
  BY <1>2 DEF data, work, maint, faults, kept, rest, Err, Writes,
      Next, Handle, Maintain, vars, Remove, Insert, Enqueue, Remark, RequestCancel, Claim, Refresh,
      Crash, Start, MarkDeleting, CountRows, NextTag, SelectBatch, DeleteBatch, Verify, Redelete,
      Residual, FinishTag, RestoreTag, EndJob, Throw, FailStale, BeginEnforce, EnforceRestore,
      EnforceCancel, BeginReconcile, ReconcileCount, ForceDeleted, FinishJob, BeginStalled,
      StalledCountFails, Drain, StartupReconcile, PassFails
<1> QED BY <1>1, <1>2, <1>3 DEF Err

-----------------------------------------------------------------------------
(* A handler that has ended leaves no tag in deletion but behind one it    *)
(* gave up.                                                                *)

Behind == \A t \in Named : tag[t] \in Deleting => \E u \in 1 .. (t - 1) : tag[u] = "active"
Ended == {"cancel", "complete", "fail", "done"}

SettleInv ==
  ~late /\ errors = 0 =>
    /\ h \in Working => \A t \in 1 .. (cur - 1) : tag[t] \notin Deleting
    /\ h \in Ended => Behind

\* Where the handler is and where it was.
LEMMA Progress ==
  ASSUME Shape, [Next]_vars, h' \in Working \cup Ended
  PROVE  \/ h' \in Working /\ cur' = 1
         \/ h' \in Working /\ h \in Working /\ cur' = cur
         \/ (FinishTag \/ RestoreTag) /\ h \in Working /\ cur \in Named /\ cur' = cur + 1
            /\ (h' \in Ended => cur = last)
         \/ Residual /\ h' = "fail" /\ cur \in Named /\ h \in Working
         \/ h' = "fail" /\ Err
         \/ h' \in Ended /\ h \in Ended
<1> USE DEF Shape, data, work, maint, faults, kept, rest, Working, Ended
<1>1. CASE Claim \/ MarkDeleting \/ CountRows \/ NextTag \/ SelectBatch \/ DeleteBatch
           \/ Verify \/ Redelete
  BY <1>1 DEF Claim, MarkDeleting, CountRows, NextTag, SelectBatch, DeleteBatch, Verify, Redelete, At
<1>2. CASE FinishTag
  BY <1>2 DEF FinishTag, At, Places
<1>3. CASE RestoreTag
  BY <1>3 DEF RestoreTag, At, Places
<1>4. CASE Residual
  BY <1>4 DEF Residual, At, Places
<1>5. CASE Throw
  BY <1>5 DEF Throw, Err
<1>6. CASE EndJob
  BY <1>6 DEF EndJob
<1>7. CASE Crash
  BY <1>7 DEF Crash
<1>8. CASE UNCHANGED <<h, cur>>
  BY <1>8
<1> QED BY <1>1, <1>2, <1>3, <1>4, <1>5, <1>6, <1>7, <1>8, HandlerMoves DEF Handle

\* Nobody puts a tag back into deletion, and only a pass that declares all
\* tags deleted takes back that one was given up.
LEMMA TagsSettle ==
  ASSUME Shape, [Next]_vars, h \in Working \cup Ended, ~late', errors' = 0, NEW t \in Named
  PROVE  /\ tag'[t] \in Deleting => tag[t] \in Deleting
         /\ FinishTag \/ RestoreTag => tag'[cur] \notin Deleting
         /\ Residual => tag'[cur] = "active"
         /\ h \in Ended /\ tag[t] = "active" =>
              tag'[t] = "active" \/ \A u \in Named : tag'[u] \notin Deleting
<1> USE DEF Shape, Deleting
<1>1. /\ tag \in [Tags -> {"active", "deleted", "pending_delete", "deleting"}] /\ t \in Tags
      /\ \A u \in Named : u \in Tags
      /\ h \notin {"off", "mark"}
  BY Bounds DEF TypeOK, Working, Ended
<1>2. /\ tag' = tag \/ Residual \/ FinishTag \/ RestoreTag \/ EnforceRestore \/ ForceDeleted
      /\ errors = 0 /\ ~Err
  BY <1>1, TagMoves, ErrorsStay DEF MarkDeleting, At
<1>3. CASE Residual \/ FinishTag \/ RestoreTag
  <2>1. cur \in Tags /\ h \notin Ended
    BY <1>3, Bounds DEF Residual, FinishTag, RestoreTag, At, Places, Working, Ended
  <2> QED BY <1>1, <1>2, <1>3, <2>1 DEF Residual, FinishTag, RestoreTag, At, Writes, Restored
<1>4. CASE EnforceRestore
  <2>1. tag' = Restored(1)
    BY <1>2, <1>4 DEF EnforceRestore, Writes
  <2>2. tag'[t] = tag[t] \/ (tag[t] \in Deleting /\ tag'[t] = "active")
    BY <1>1, <2>1 DEF Restored
  <2> QED BY <1>1, <1>3, <2>2
<1>5. CASE ForceDeleted
  <2>1. \A u \in Named : tag'[u] = "deleted"
    BY <1>1, <1>5 DEF ForceDeleted
  <2> QED BY <1>1, <1>3, <2>1
<1>6. CASE tag' = tag
  BY <1>1, <1>3, <1>6
<1> QED BY <1>2, <1>3, <1>4, <1>5, <1>6

LEMMA SettleStep == ASSUME Shape, SettleInv, [Next]_vars PROVE SettleInv'
<1> SUFFICES ASSUME ~late', errors' = 0, h' \in Working \cup Ended
             PROVE  /\ h' \in Working => \A t \in 1 .. (cur' - 1) : tag'[t] \notin Deleting
                    /\ h' \in Ended => Behind'
  BY DEF SettleInv
<1> USE DEF Shape
<1>1. Working \cap Ended = {}
  BY DEF Working, Ended
<1>2. ~Err
  BY ErrorsStay
<1>3. CASE h' \in Working /\ cur' = 1
  BY <1>1, <1>3
<1>4. CASE h \in Working \cup Ended
  <2>1. ~late /\ errors = 0 /\ last' = last
    <3>1. h # "off"
      BY <1>4 DEF Working, Ended
    <3> QED BY <3>1, ErrorsStay, TagMoves
  <2>2. /\ h \in Working => cur \in Named /\ \A t \in Named : t < cur => tag[t] \notin Deleting
        /\ h \in Ended => Behind
    BY <2>1, Bounds DEF SettleInv, Places
  <2>3. \A t \in Named : tag'[t] \in Deleting => tag[t] \in Deleting
    BY <1>4, TagsSettle
  <2>4. Named' = Named /\ \A t \in Named : t \in Nat /\ t >= 1 /\ t <= last
    BY <2>1, Bounds DEF Named
  <2>5. \A c \in Named : \A t \in 1 .. (c - 1) : t \in Named /\ t < c
    BY <2>4, Bounds DEF Named
  <2>6. CASE h' \in Working /\ h \in Working /\ cur' = cur
    BY <1>1, <2>2, <2>3, <2>5, <2>6
  <2>7. CASE (FinishTag \/ RestoreTag) /\ h \in Working /\ cur \in Named /\ cur' = cur + 1
             /\ (h' \in Ended => cur = last)
    <3>1. tag'[cur] \notin Deleting
      BY <1>4, <2>7, TagsSettle
    <3>2. \A t \in Named : t < cur + 1 => tag'[t] \notin Deleting
      <4> SUFFICES ASSUME NEW t \in Named, t < cur + 1 PROVE tag'[t] \notin Deleting
        OBVIOUS
      <4>1. t < cur \/ t = cur
        BY <2>4, <2>7
      <4> QED BY <2>2, <2>3, <2>7, <3>1, <4>1
    <3>3. \A t \in 1 .. (cur' - 1) : t \in Named /\ t < cur + 1
      BY <2>4, <2>7, Bounds DEF Named
    <3>4. h' \in Ended => Behind'
      <4> SUFFICES ASSUME h' \in Ended, NEW t \in Named PROVE tag'[t] \notin Deleting
        BY <2>4 DEF Behind
      <4>1. t < cur + 1
        BY <2>4, <2>7
      <4> QED BY <3>2, <4>1
    <3> QED BY <3>2, <3>3, <3>4
  <2>8. CASE Residual /\ h' = "fail" /\ cur \in Named /\ h \in Working
    <3>1. tag'[cur] = "active"
      BY <1>4, <2>8, TagsSettle
    <3>2. Behind'
      <4> SUFFICES ASSUME NEW t \in Named, tag'[t] \in Deleting
                   PROVE  \E u \in 1 .. (t - 1) : tag'[u] = "active"
        BY <2>4 DEF Behind
      <4>1. ~(t < cur) /\ t # cur
        BY <2>2, <2>3, <2>8, <3>1 DEF Deleting
      <4>2. cur \in 1 .. (t - 1)
        BY <2>4, <2>8, <4>1
      <4> QED BY <3>1, <4>2
    <3> QED BY <2>8, <3>2 DEF Working
  <2>9. CASE h' \in Ended /\ h \in Ended
    <3>1. Behind'
      <4> SUFFICES ASSUME NEW t \in Named, tag'[t] \in Deleting
                   PROVE  \E u \in 1 .. (t - 1) : tag'[u] = "active"
        BY <2>4 DEF Behind
      <4>1. PICK u \in 1 .. (t - 1) : tag[u] = "active"
        BY <2>2, <2>3, <2>9 DEF Behind
      <4>2. u \in Named
        BY <2>5
      <4>3. tag'[u] = "active"
        BY <1>4, <2>9, <4>1, <4>2, TagsSettle
      <4> QED BY <4>3
    <3> QED BY <1>1, <2>9, <3>1
  <2> QED BY <1>2, <1>3, <2>6, <2>7, <2>8, <2>9, Progress
<1>5. CASE h \notin Working \cup Ended
  BY <1>2, <1>3, <1>5, Progress
<1> QED BY <1>4, <1>5

-----------------------------------------------------------------------------
(* A run that is not cancelled and meets no late values gives no tag up,   *)
(* and completes when all are deleted.                                     *)

Orderly == ~cancel /\ NoneLate

OrderlyInv ==
  Orderly =>
    /\ route # "idle" => \A t \in Named : tag[t] # "active"
    /\ h \notin {"redelete", "residual", "restore", "cancel"}
    /\ h = "verify" => rows[cur] = 0
    /\ pass \notin {"enforce", "cancel"}

\* Neither a cancellation nor a late value is ever taken back.
LEMMA OrderlyBefore ==
  ASSUME Shape, [Next]_vars
  PROVE  /\ NoneLate' => NoneLate /\ UNCHANGED came
         /\ ~cancel' => ~cancel /\ ~RequestCancel
<1> USE DEF Shape, data, work, maint, faults, kept, rest
<1>1. CASE \E n \in Tags : Insert(n)
  <2>1. PICK n \in Tags : Insert(n)
    BY <1>1
  <2>2. came[n] \in Nat /\ came'[n] = came[n] + 1
    BY <2>1, TagDeleteAssumption DEF Insert, TypeOK
  <2>3. ~NoneLate'
    BY <2>2 DEF NoneLate
  <2> QED BY <1>1, <2>3 DEF Insert, RequestCancel
<1>2. CASE RequestCancel
  BY <1>2 DEF RequestCancel, NoneLate
<1>3. CASE UNCHANGED <<came, cancel>>
  BY <1>3 DEF NoneLate, RequestCancel
<1> QED
  BY <1>1, <1>2, <1>3
  DEF Next, Handle, Maintain, vars, Remove, Enqueue, Remark, Claim, Refresh, Crash, Start,
      MarkDeleting, CountRows, NextTag, SelectBatch, DeleteBatch, Verify, Redelete, Residual,
      FinishTag, RestoreTag, EndJob, Throw, FailStale, BeginEnforce, EnforceRestore, EnforceCancel,
      BeginReconcile, ReconcileCount, ForceDeleted, FinishJob, BeginStalled, StalledCountFails,
      Drain, StartupReconcile, PassFails

\* An orderly step is none of those that follow a cancellation.
LEMMA OrderlySteps ==
  ASSUME Shape, OrderlyInv, [Next]_vars, Orderly'
  PROVE  /\ Orderly /\ came' = came
         /\ ~(\E n \in Tags : Insert(n)) /\ ~RequestCancel /\ ~BeginEnforce /\ ~EnforceRestore
         /\ ~EnforceCancel /\ ~Redelete /\ ~Residual /\ ~RestoreTag
<1>1. Orderly /\ came' = came /\ ~RequestCancel
  BY OrderlyBefore DEF Orderly
<1>2. ~(\E n \in Tags : Insert(n))
  <2>1. came \in [Tags -> Nat]
    BY TagDeleteAssumption DEF Shape, TypeOK
  <2> QED BY <1>1, <2>1 DEF Insert
<1> QED
  BY <1>1, <1>2
  DEF OrderlyInv, Orderly, BeginEnforce, EnforceRestore, EnforceCancel, Redelete, Residual,
      RestoreTag, At

LEMMA OrderlyStep == ASSUME Shape, OrderlyInv, [Next]_vars PROVE OrderlyInv'
<1> SUFFICES ASSUME Orderly' PROVE OrderlyInv'
  BY DEF OrderlyInv
<1> USE DEF Shape, data, work, maint, faults, kept, rest
<1>1. /\ route # "idle" => \A t \in Named : tag[t] # "active"
      /\ h \notin {"redelete", "residual", "restore", "cancel"}
      /\ h = "verify" => rows[cur] = 0
      /\ pass \notin {"enforce", "cancel"}
      /\ ~cancel /\ ~cancel'
  BY OrderlySteps DEF OrderlyInv, Orderly
<1>2. ASSUME route' # "idle", NEW t \in Named' PROVE tag'[t] # "active"
  <2>1. tag \in [Tags -> {"active", "deleted"} \cup Deleting]
    BY DEF TypeOK
  <2>2. CASE \E n \in Tags : Remove(n)
    <3>1. PICK n \in Tags : Remove(n)
      BY <2>2
    <3>2. t <= n /\ t \in Tags
      BY <1>2, <3>1, Bounds DEF Remove, Named, Tags
    <3> QED BY <3>1, <3>2 DEF Remove
  <2>3. CASE last' = last /\ (route # "idle" \/ tag' = tag)
    <3>1. t \in Named /\ t \in Tags /\ route # "idle"
      BY <1>2, <2>3, Bounds DEF Named, Places
    <3>2. tag[t] # "active"
      BY <1>1, <3>1
    <3>3. CASE Remark \/ MarkDeleting \/ FinishTag \/ ForceDeleted
      BY <2>1, <3>1, <3>2, <3>3 DEF Remark, MarkDeleting, FinishTag, ForceDeleted, Writes
    <3>4. CASE tag' = tag
      BY <3>2, <3>4
    <3> QED
      BY <2>2, <3>3, <3>4, OrderlySteps
      DEF Next, Handle, Maintain, vars, Enqueue, Claim, Refresh, Crash, Start,
          CountRows, NextTag, SelectBatch, DeleteBatch, Verify, EndJob, Throw, FailStale,
          BeginReconcile, ReconcileCount, FinishJob, BeginStalled, StalledCountFails,
          Drain, StartupReconcile, PassFails
  <2> QED
    BY <2>2, <2>3, OrderlySteps
    DEF Next, Handle, Maintain, vars, Enqueue, Remark, Claim, Refresh, Crash, Start, Places,
        MarkDeleting, CountRows, NextTag, SelectBatch, DeleteBatch, Verify, FinishTag, EndJob,
        Throw, FailStale, BeginReconcile, ReconcileCount, ForceDeleted, FinishJob, BeginStalled,
        StalledCountFails, Drain, StartupReconcile, PassFails, Idle, At, Working
<1>3. h' \notin {"redelete", "residual", "restore", "cancel"}
  <2>1. CASE Claim \/ MarkDeleting \/ CountRows \/ NextTag \/ SelectBatch \/ DeleteBatch \/ Verify
             \/ FinishTag \/ EndJob \/ Throw
    BY <1>1, <2>1
    DEF Claim, MarkDeleting, CountRows, NextTag, SelectBatch, DeleteBatch, Verify, FinishTag, EndJob,
        Throw, At
  <2>2. CASE Crash
    BY <1>1, <2>2 DEF Crash
  <2> QED BY <1>1, <2>1, <2>2, HandlerMoves, OrderlySteps DEF Handle
<1>4. ASSUME h' = "verify" PROVE rows'[cur'] = 0
  <2>1. CASE SelectBatch
    BY <1>1, <1>4, <2>1 DEF SelectBatch, At
  <2>2. CASE DeleteBatch
    <3>1. cur \in Tags /\ rows \in [Tags -> Nat] /\ h = "delete"
      BY <2>2, Bounds DEF DeleteBatch, At, Places, Working, TypeOK
    <3>2. ~(rows[cur] > 0) /\ cur' = cur /\ rows'[cur] = Less(rows[cur], Batch)
      BY <1>4, <2>2, <3>1 DEF DeleteBatch
    <3>3. rows[cur] = 0
      BY <3>1, <3>2
    <3> QED BY <3>2, <3>3, LessIsLess
  <2>3. CASE h = "verify" /\ cur' = cur
    <3>1. cur \in Tags /\ rows \in [Tags -> Nat] /\ rows[cur] = 0
      BY <1>1, <2>3, Bounds DEF Places, Working, TypeOK
    <3>2. CASE Drain
      BY <3>1, <2>3, <3>2, LessIsLess DEF Drain
    <3>3. CASE rows' = rows
      BY <3>1, <2>3, <3>3
    <3> QED
      BY <2>3, <3>2, <3>3, OrderlySteps
      DEF Next, Handle, Maintain, vars, Remove, Enqueue, Remark, Claim, Refresh, Crash, Start,
          MarkDeleting, CountRows, NextTag, SelectBatch, DeleteBatch, Verify, FinishTag, EndJob,
          Throw, FailStale, BeginReconcile, ReconcileCount, ForceDeleted, FinishJob, BeginStalled,
          StalledCountFails, StartupReconcile, PassFails, At
  <2>4. CASE Claim \/ MarkDeleting \/ CountRows \/ NextTag \/ Verify \/ FinishTag \/ EndJob \/ Throw \/ Crash
    BY <1>1, <1>4, <2>4
    DEF Claim, MarkDeleting, CountRows, NextTag, Verify, FinishTag, EndJob, Throw, Crash, At
  <2> QED BY <1>4, <2>1, <2>2, <2>3, <2>4, HandlerMoves, OrderlySteps DEF Handle
<1>5. pass' \notin {"enforce", "cancel"}
  BY <1>1, OrderlySteps
  DEF Next, Handle, Maintain, vars, Remove, Enqueue, Remark, Claim, Refresh, Crash, Start, Repair,
      MarkDeleting, CountRows, NextTag, SelectBatch, DeleteBatch, Verify, FinishTag, EndJob,
      Throw, FailStale, BeginReconcile, ReconcileCount, ForceDeleted, FinishJob, BeginStalled,
      StalledCountFails, Drain, StartupReconcile, PassFails
<1> QED BY <1>2, <1>3, <1>4, <1>5 DEF OrderlyInv

CompleteInv ==
  Orderly /\ ~late /\ errors = 0 =>
    /\ h \in Working => \A t \in 1 .. (cur - 1) : tag[t] = "deleted"
    /\ h = "complete" \/ pass = "finish" \/ job = "completed" => AllDeleted

\* What is deleted stays so, and what the handler finishes is deleted.
LEMMA DeletedStays ==
  ASSUME Shape, OrderlyInv, [Next]_vars, h # "off", Orderly', ~late', errors' = 0
  PROVE  /\ last' = last
         /\ \A t \in Named : tag[t] = "deleted" => tag'[t] = "deleted"
         /\ FinishTag => tag'[cur] = "deleted"
         /\ ForceDeleted => AllDeleted'
<1> USE DEF Shape
<1>1. tag \in [Tags -> {"active", "deleted"} \cup Deleting] /\ \A t \in Named : t \in Tags
  BY Bounds DEF TypeOK
<1>2. /\ last' = last
      /\ tag' = tag \/ MarkDeleting \/ FinishTag \/ ForceDeleted
      /\ ~Err
  BY TagMoves, OrderlySteps, ErrorsStay
<1>3. FinishTag => cur \in Tags
  BY Bounds DEF FinishTag, At, Places, Working
<1>4. ASSUME FinishTag PROVE tag' = [tag EXCEPT ![cur] = "deleted"]
  BY <1>2, <1>4 DEF FinishTag, Writes
<1>5. ASSUME MarkDeleting, NEW t \in Named, tag[t] = "deleted" PROVE tag'[t] = "deleted"
  BY <1>1, <1>2, <1>5 DEF MarkDeleting, Writes
<1>6. ASSUME ForceDeleted, NEW t \in Named PROVE tag'[t] = "deleted"
  BY <1>1, <1>6 DEF ForceDeleted
<1> QED BY <1>1, <1>2, <1>3, <1>4, <1>5, <1>6 DEF AllDeleted, Named

LEMMA CompleteStep == ASSUME Shape, OrderlyInv, CompleteInv, [Next]_vars PROVE CompleteInv'
<1> SUFFICES ASSUME Orderly', ~late', errors' = 0 PROVE CompleteInv'
  BY DEF CompleteInv
<1> USE DEF Shape
<1>1. CASE h = "off"
  <2>1. h' \in {"off", "mark"} /\ pass' # "finish" /\ job' # "completed"
    BY <1>1, HandlerMoves
    DEF Next, Handle, Maintain, vars, Remove, Insert, Enqueue, Remark, RequestCancel, Claim, Refresh,
        Crash, Start, MarkDeleting, CountRows, NextTag, SelectBatch, DeleteBatch, Verify, Redelete,
        Residual, FinishTag, RestoreTag, EndJob, Throw, FailStale, BeginEnforce, EnforceRestore,
        EnforceCancel, BeginReconcile, ReconcileCount, ForceDeleted, FinishJob, BeginStalled,
        StalledCountFails, Drain, StartupReconcile, PassFails, At, Idle, Repair, Places,
        data, work, maint, faults, kept, rest
  <2> QED BY <2>1 DEF CompleteInv, Working
<1>2. CASE h # "off"
  <2>1. /\ last' = last /\ Named' = Named
        /\ \A t \in Named : tag[t] = "deleted" => tag'[t] = "deleted"
        /\ FinishTag => tag'[cur] = "deleted"
        /\ ForceDeleted => AllDeleted'
        /\ AllDeleted => AllDeleted'
    BY <1>2, DeletedStays DEF Named, AllDeleted
  <2>2. Orderly /\ ~late /\ errors = 0 /\ ~Err /\ ~RestoreTag /\ ~Residual
    BY <1>2, OrderlySteps, TagMoves, ErrorsStay
  <2>3. /\ h \in Working => cur \in Named /\ \A t \in Named : t < cur => tag[t] = "deleted"
        /\ h = "complete" \/ pass = "finish" \/ job = "completed" => AllDeleted
    BY <2>2, Bounds DEF CompleteInv, Places
  <2>4. \A t \in Named : t \in Nat /\ t >= 1 /\ t <= last
    BY Bounds
  <2>5. \A c \in Named : \A t \in 1 .. (c - 1) : t \in Named /\ t < c
    BY <2>4, Bounds DEF Named
  <2>6. ASSUME FinishTag, NEW t \in Named, t < cur + 1 PROVE tag'[t] = "deleted"
    <3>1. h \in Working /\ cur \in Named
      BY <2>6 DEF FinishTag, At, Working, Places
    <3>2. t < cur \/ t = cur
      BY <2>4, <2>6, <3>1
    <3> QED BY <2>1, <2>3, <2>6, <3>1, <3>2
  <2>7. ASSUME h' \in Working, NEW t \in 1 .. (cur' - 1) PROVE tag'[t] = "deleted"
    <3>1. CASE cur' = 1
      BY <3>1
    <3>2. CASE h \in Working /\ cur' = cur
      BY <2>1, <2>3, <2>5, <3>2
    <3>3. CASE FinishTag /\ cur \in Named /\ cur' = cur + 1
      <4>1. t \in Named /\ t < cur + 1
        BY <2>4, <3>3, Bounds DEF Named
      <4> QED BY <2>6, <3>3, <4>1
    <3> QED BY <2>2, <2>7, <3>1, <3>2, <3>3, Progress DEF Working, Ended
  <2>8. ASSUME h' = "complete" PROVE AllDeleted'
    <3>1. h = "complete" \/ (FinishTag /\ cur = last)
      BY <2>2, <2>8, HandlerMoves
      DEF Handle, Claim, MarkDeleting, CountRows, NextTag, SelectBatch, DeleteBatch, Verify, Redelete,
          FinishTag, EndJob, Throw, Crash
    <3>2. CASE FinishTag /\ cur = last
      <4>1. \A t \in Named : t < cur + 1
        BY <2>4, <3>2, Bounds
      <4> QED BY <2>1, <2>6, <3>2, <4>1 DEF AllDeleted
    <3> QED BY <2>1, <2>3, <3>1, <3>2
  <2>9. ASSUME pass' = "finish" PROVE AllDeleted'
    <3>1. pass = "finish" \/ AllDeleted \/ ForceDeleted
      BY <2>9
      DEF Next, Handle, Maintain, vars, Remove, Insert, Enqueue, Remark, RequestCancel, Claim, Refresh,
          Crash, Start, MarkDeleting, CountRows, NextTag, SelectBatch, DeleteBatch, Verify, Redelete,
          Residual, FinishTag, RestoreTag, EndJob, Throw, FailStale, BeginEnforce, EnforceRestore,
          EnforceCancel, BeginReconcile, ReconcileCount, FinishJob, BeginStalled,
          StalledCountFails, Drain, StartupReconcile, PassFails, Repair,
          data, work, maint, faults, kept, rest
    <3> QED BY <2>1, <2>3, <3>1
  <2>10. ASSUME job' = "completed" PROVE AllDeleted'
    <3>1. job = "completed" \/ h = "complete" \/ pass = "finish"
      BY <2>10
      DEF Next, Handle, Maintain, vars, Remove, Insert, Enqueue, Remark, RequestCancel, Claim, Refresh,
          Crash, Start, MarkDeleting, CountRows, NextTag, SelectBatch, DeleteBatch, Verify, Redelete,
          Residual, FinishTag, RestoreTag, EndJob, Throw, FailStale, BeginEnforce, EnforceRestore,
          EnforceCancel, BeginReconcile, ReconcileCount, ForceDeleted, FinishJob, BeginStalled,
          StalledCountFails, Drain, StartupReconcile, PassFails,
          data, work, maint, faults, kept, rest
    <3> QED BY <2>1, <2>3, <3>1
  <2> QED BY <2>7, <2>8, <2>9, <2>10 DEF CompleteInv
<1> QED BY <1>1, <1>2

-----------------------------------------------------------------------------
(* A cancellation spares what the handler has not begun.                   *)

Intact(S) == \A t \in S : rows[t] = Rows[t]

\* The tags ahead of the handler are untouched, unless they are few; the job
\* is at 99.5 % only when they are, so that the pass that drains it costs few
\* tags their values.
SpareInv ==
  /\ spared \subseteq Named
  /\ ~cancel => spared = {}
  /\ h \in Touching => \A t \in spared : t > cur
  /\ NoneLate =>
       /\ route = "idle" => rows = Rows
       /\ \A t \in Tags : rows[t] <= Rows[t]
       /\ job = "queued" => h = "off" \/ cancel
       /\ h \in {"off", "mark", "count"} => ~full /\ pass # "drain"
       /\ ~cancel => Intact(Untouched) \/ Few(Untouched)
       /\ full \/ pass = "drain" => Few(spared) /\ (cancel \/ Few(Untouched))
       /\ total > 0 /\ h \in Working => deleted + Sum(rows) <= total /\ total <= Sum(Rows)

LEMMA SumKept == ASSUME rows' = rows, last' = last PROVE Sum(rows)' = Sum(rows)
BY DEF Sum

LEMMA HeldIs ==
  ASSUME TypeOK, NEW S \in SUBSET Tags
  PROVE  /\ [t \in Tags |-> IF t \in S THEN Rows[t] ELSE 0] \in [Tags -> Nat]
         /\ Held(S) = Sum([t \in Tags |-> IF t \in S THEN Rows[t] ELSE 0])
         /\ Held(S) \in Nat /\ Sum(Rows) \in Nat
<1>1. Rows \in [Tags -> Nat] /\ last \in 0 .. NumTags
  BY TagDeleteAssumption DEF TypeOK
<1>2. [t \in Tags |-> IF t \in S THEN Rows[t] ELSE 0] \in [Tags -> Nat]
  BY <1>1
<1>3. Held(S) = Sum([t \in Tags |-> IF t \in S THEN Rows[t] ELSE 0])
  BY Zenon DEF Held
<1> QED BY <1>1, <1>2, <1>3, SumIsNatural

LEMMA SubsetsOfTags ==
  ASSUME TypeOK, NEW S \in SUBSET Tags PROVE IsFiniteSet(S) /\ Cardinality(S) \in Nat
<1>1. IsFiniteSet(Tags)
  BY TagDeleteAssumption, FS_Interval DEF Tags
<1> QED BY <1>1, FS_Subset, FS_CardinalityType

\* Fewer tags are few.
LEMMA FewerAreFew ==
  ASSUME TypeOK, NEW T \in SUBSET Tags, NEW S \in SUBSET T, Few(T) PROVE Few(S)
<1>1. last \in 0 .. NumTags /\ last \in Nat /\ Rows \in [Tags -> Nat] /\ S \subseteq Tags
  BY TagDeleteAssumption DEF TypeOK
<1>2. CASE 200 * Held(T) <= Sum(Rows)
  <2> DEFINE f == [t \in Tags |-> IF t \in S THEN Rows[t] ELSE 0]
             g == [t \in Tags |-> IF t \in T THEN Rows[t] ELSE 0]
  <2>1. f \in [Tags -> Nat] /\ g \in [Tags -> Nat] /\ \A t \in Tags : f[t] <= g[t]
    BY <1>1
  <2>2. /\ Held(S) = Sum(f) /\ Held(T) = Sum(g)
        /\ Held(S) \in Nat /\ Held(T) \in Nat /\ Sum(Rows) \in Nat
    BY <1>1, HeldIs
  <2> HIDE DEF f, g
  <2>3. Sum(f) <= Sum(g)
    BY <1>1, <2>1, SumGrows
  <2>4. 200 * Held(S) <= Sum(Rows)
    BY <1>2, <2>2, <2>3
  <2> QED BY <2>4 DEF Few
<1>3. CASE 200 * Cardinality(T) <= last
  <2>1. Cardinality(S) <= Cardinality(T) /\ Cardinality(S) \in Nat /\ Cardinality(T) \in Nat
    BY <1>1, SubsetsOfTags, FS_Subset
  <2>2. 200 * Cardinality(S) <= last
    BY <1>1, <1>3, <2>1
  <2> QED BY <2>2 DEF Few
<1> QED BY <1>2, <1>3 DEF Few

LEMMA NoneAreFew == ASSUME TypeOK PROVE Few({})
<1>1. Cardinality({}) = 0 /\ last \in Nat
  BY FS_EmptySet, TagDeleteAssumption DEF TypeOK
<1> QED BY <1>1 DEF Few

\* What is untouched at 99.5 % of the values is few.
LEMMA FewByValues ==
  ASSUME TypeOK, NEW S \in SUBSET Tags, NEW f \in [Tags -> Nat], NEW d \in Nat, Nearly(d, total),
         d + Sum(f) <= total, total <= Sum(Rows), \A t \in S : f[t] = Rows[t]
  PROVE  Few(S)
<1>1. last \in 0 .. NumTags /\ Rows \in [Tags -> Nat] /\ total \in Nat
  BY TagDeleteAssumption DEF TypeOK
<1> DEFINE g == [t \in Tags |-> IF t \in S THEN Rows[t] ELSE 0]
<1>2. g \in [Tags -> Nat] /\ \A t \in Tags : g[t] <= f[t]
  BY <1>1
<1>3. Held(S) = Sum(g) /\ Held(S) \in Nat /\ Sum(Rows) \in Nat /\ Sum(f) \in Nat
  BY <1>1, HeldIs, SumIsNatural
<1> HIDE DEF g
<1>4. Held(S) <= Sum(f)
  BY <1>1, <1>2, <1>3, SumGrows
<1>5. 200 * Held(S) <= Sum(Rows)
  BY <1>1, <1>3, <1>4 DEF Nearly
<1> QED BY <1>5 DEF Few

\* What is ahead at 99.5 % of the tags is few.
LEMMA FewByTags ==
  ASSUME TypeOK, cur \in Named, Nearly(cur, last), NEW S \in SUBSET Named, \A t \in S : t > cur
  PROVE  Few(S)
<1>1. last \in Nat /\ cur \in Nat /\ cur <= last /\ cur + 1 \in Nat
  BY Bounds
<1>2. S \subseteq (cur + 1) .. last
  BY <1>1, Bounds
<1>3. /\ IsFiniteSet((cur + 1) .. last)
      /\ Cardinality((cur + 1) .. last) = IF cur + 1 > last THEN 0 ELSE last - (cur + 1) + 1
  BY <1>1, FS_Interval
<1>4. Cardinality(S) <= Cardinality((cur + 1) .. last) /\ Cardinality(S) \in Nat
  BY <1>2, <1>3, FS_Subset, FS_CardinalityType
<1>5. 200 * Cardinality(S) <= last
  BY <1>1, <1>3, <1>4 DEF Nearly
<1> QED BY <1>5 DEF Few

LEMMA FewKept == ASSUME last' = last, NEW S PROVE Few(S)' <=> Few(S)
BY DEF Few, Held, Sum

\* The same of the spared and the untouched tags, which change with the state.
LEMMA FewKeep ==
  ASSUME Shape, last' = last, spared \subseteq Named
  PROVE  /\ spared' = spared /\ Few(spared) => Few(spared)'
         /\ Untouched' \subseteq Untouched /\ Few(Untouched) => Few(Untouched)'
<1>1. TypeOK /\ Untouched \in SUBSET Tags
  BY Bounds DEF Shape, Untouched
<1>2. ASSUME spared' = spared, Few(spared) PROVE Few(spared)'
  BY <1>2 DEF Few, Held, Sum
<1>3. ASSUME Untouched' \subseteq Untouched, Few(Untouched) PROVE Few(Untouched)'
  <2>1. PICK S : S = Untouched'
    OBVIOUS
  <2>2. Few(S)
    BY <1>1, <1>3, <2>1, FewerAreFew
  <2>3. Few(S)'
    BY <2>2, FewKept
  <2> QED BY <2>1, <2>3 DEF Few, Held, Sum
<1> QED BY <1>2, <1>3

\* Steps that delete nothing.
LEMMA StillSpared ==
  ASSUME Shape, SpareInv, CancelSpares, [Next]_vars,
         UNCHANGED <<rows, last, cancel, spared>>,
         Untouched' \subseteq Untouched,
         h' \in Touching => spared = {} \/ (h \in Touching /\ cur' = cur),
         NoneLate =>
           /\ route' = "idle" => route = "idle"
           /\ job' = "queued" => h' = "off" \/ cancel
           /\ h' \in {"off", "mark", "count"} => ~full' /\ pass' # "drain"
           /\ full' => full \/ (Few(spared) /\ (cancel \/ Few(Untouched)'))
           /\ pass' = "drain" => pass = "drain" \/ full
           /\ total' > 0 /\ h' \in Working => deleted' + Sum(rows) <= total' /\ total' <= Sum(Rows)
  PROVE  SpareInv' /\ CancelSpares'
<1>1. /\ spared' \subseteq Named' /\ (~cancel' => spared' = {})
      /\ h' \in Touching => \A t \in spared' : t > cur'
  BY DEF SpareInv, Named
<1>2. NoneLate' => NoneLate
  BY OrderlyBefore
<1>3. /\ Few(spared) => Few(spared)'
      /\ Few(Untouched) => Few(Untouched)'
  BY FewKeep DEF SpareInv
<1>4. ASSUME NoneLate
      PROVE  /\ route' = "idle" => rows' = Rows
             /\ \A t \in Tags : rows'[t] <= Rows[t]
             /\ job' = "queued" => h' = "off" \/ cancel'
             /\ h' \in {"off", "mark", "count"} => ~full' /\ pass' # "drain"
             /\ ~cancel' => Intact(Untouched)' \/ Few(Untouched)'
             /\ total' > 0 /\ h' \in Working => deleted' + Sum(rows)' <= total' /\ total' <= Sum(Rows)'
  <2>1. Sum(rows)' = Sum(rows) /\ Sum(Rows)' = Sum(Rows)
    BY SumKept DEF Sum
  <2>2. Intact(Untouched) => Intact(Untouched)'
    BY DEF Intact
  <2> QED BY <1>3, <1>4, <2>1, <2>2 DEF SpareInv
<1>5. ASSUME NoneLate, full' \/ pass' = "drain"
      PROVE  Few(spared)' /\ (cancel' \/ Few(Untouched)')
  <2>1. CASE full \/ pass = "drain"
    BY <1>3, <1>5, <2>1 DEF SpareInv
  <2>2. CASE ~(full \/ pass = "drain")
    BY <1>3, <1>5, <2>2
  <2> QED BY <2>1, <2>2
<1>6. NoneLate => (\A t \in spared' : rows'[t] = Rows[t]) \/ Few(spared)'
  BY <1>3 DEF CancelSpares
<1>7. SpareInv'
  BY <1>1, <1>2, <1>4, <1>5 DEF SpareInv
<1>8. CancelSpares'
  BY <1>2, <1>6 DEF CancelSpares
<1> QED BY <1>7, <1>8

\* What a batch deletes of a tag is missing in the total.
LEMMA SumFalls ==
  ASSUME Shape, NEW c \in Named, NEW n \in Nat, n <= rows[c], rows' = [rows EXCEPT ![c] = n],
         last' = last
  PROVE  /\ rows' \in [Tags -> Nat] /\ Sum(rows) \in Nat /\ Sum(rows)' \in Nat
         /\ Sum(rows)' + (rows[c] - rows'[c]) = Sum(rows)
         /\ rows'[c] = n /\ \A t \in Tags \ {c} : rows'[t] = rows[t]
         /\ Sum(rows)' <= Sum(rows) /\ \A t \in Tags : rows'[t] <= rows[t]
<1>1. /\ rows \in [Tags -> Nat] /\ last \in 0 .. NumTags /\ c \in Tags /\ rows[c] \in Nat
      /\ \A t \in Named : t \in Tags
  BY Bounds DEF Shape, TypeOK
<1>2. PICK g : g = [rows EXCEPT ![c] = n]
  OBVIOUS
<1>3. g \in [Tags -> Nat] /\ g[c] = n /\ \A t \in Tags \ {c} : g[t] = rows[t]
  BY <1>1, <1>2
<1>4. rows' = g
  BY <1>2
<1>5. Sum(rows)' = Sum(g)
  BY <1>4 DEF Sum
<1>6. Sum(rows) \in Nat /\ Sum(g) \in Nat
  BY <1>1, <1>3, SumIsNatural
<1>7. Sum(g) + rows[c] = Sum(rows) + g[c]
  BY <1>1, <1>3, SumDiffers
<1>8. \A t \in Tags : g[t] <= rows[t]
  BY <1>1, <1>3
<1> QED BY <1>1, <1>3, <1>4, <1>5, <1>6, <1>7, <1>8

\* The steps of the API, the process and the passes but for Drain.
LEMMA OthersSpare ==
  ASSUME Shape, OrderlyInv, SpareInv, CancelSpares, [Next]_vars,
         \/ Enqueue \/ Remark \/ Refresh \/ Start
         \/ FailStale \/ BeginEnforce \/ EnforceRestore \/ EnforceCancel \/ BeginReconcile
         \/ ReconcileCount \/ ForceDeleted \/ FinishJob \/ BeginStalled \/ StalledCountFails
         \/ StartupReconcile \/ PassFails \/ UNCHANGED vars
  PROVE  SpareInv' /\ CancelSpares'
<1> USE DEF Shape, data, work, maint, faults, kept, rest
<1>1. /\ UNCHANGED <<rows, last, h, cur, deleted, total, cancel, spared, came, full>>
      /\ route' = "idle" => route = "idle"
      /\ pass' = "drain" => pass = "drain" \/ full
  BY DEF vars, Enqueue, Remark, Refresh, Start, FailStale, BeginEnforce, EnforceRestore,
         EnforceCancel, BeginReconcile, ReconcileCount, ForceDeleted, FinishJob, BeginStalled,
         StalledCountFails, StartupReconcile, PassFails, Repair
<1>2. Untouched' = Untouched
  BY <1>1 DEF Untouched, Named
<1>3. ASSUME NoneLate, job' = "queued" PROVE h' = "off" \/ cancel
  <2>1. CASE StartupReconcile /\ job = "running"
    <3>1. ~AllDeleted /\ ~AnyPending
      BY <1>3, <2>1 DEF StartupReconcile
    <3>2. PICK t \in Named : tag[t] = "active"
      <4>1. PICK t \in Named : tag[t] # "deleted"
        BY <3>1 DEF AllDeleted
      <4>2. tag[t] \notin Deleting /\ tag[t] \in {"active", "deleted"} \cup Deleting
        BY <3>1, Bounds DEF AnyPending, TypeOK
      <4> QED BY <4>1, <4>2
    <3>3. route # "idle"
      BY <2>1 DEF Places
    <3> QED BY <1>3, <3>2, <3>3 DEF OrderlyInv, Orderly
  <2>2. CASE Enqueue
    BY <1>1, <2>2 DEF Enqueue, Places
  <2>3. CASE job = "queued"
    BY <1>1, <1>3, <2>3 DEF SpareInv
  <2>4. CASE ~Enqueue /\ ~(StartupReconcile /\ job = "running")
    <3>1. job = "queued"
      BY <1>3, <2>4
      DEF vars, Remark, Refresh, Start, FailStale, BeginEnforce, EnforceRestore,
          EnforceCancel, BeginReconcile, ReconcileCount, ForceDeleted, FinishJob, BeginStalled,
          StalledCountFails, StartupReconcile, PassFails, Repair, Idle
    <3> QED BY <2>3, <3>1
  <2> QED BY <2>1, <2>2, <2>4
<1>4. NoneLate =>
        /\ h' \in {"off", "mark", "count"} => ~full' /\ pass' # "drain"
        /\ total' > 0 /\ h' \in Working => deleted' + Sum(rows) <= total' /\ total' <= Sum(Rows)
  BY <1>1 DEF SpareInv
<1> QED BY <1>1, <1>2, <1>3, <1>4, StillSpared

LEMMA RemoveSpares ==
  ASSUME Shape, SpareInv, CancelSpares, [Next]_vars, NEW n \in Tags, Remove(n)
  PROVE  SpareInv' /\ CancelSpares'
<1> USE DEF Shape, data, work, maint, faults, kept, rest
<1>1. /\ route = "idle" /\ route' = "enqueue" /\ h = "off" /\ job = "none" /\ last = 0 /\ pass # "drain"
      /\ UNCHANGED <<rows, job, cancel, full, h, cur, total, pass, spared, came>>
      /\ last' = n
  BY DEF Remove, Places
<1>2. spared = {}
  BY <1>1, Bounds DEF SpareInv, Named
<1>3. NoneLate' => rows = Rows /\ ~full
  BY <1>1 DEF SpareInv, NoneLate
<1>4. Intact(Untouched)' \/ ~NoneLate'
  <2>1. \A t \in 1 .. n : t \in Tags
    BY Bounds DEF Tags
  <2>2. Untouched' \subseteq Tags
    BY <1>1, <2>1 DEF Untouched, Named
  <2> QED BY <1>1, <1>3, <2>2 DEF Intact
<1>5. \A t \in Tags : Rows[t] <= Rows[t]
  BY TagDeleteAssumption
<1> QED BY <1>1, <1>2, <1>3, <1>4, <1>5 DEF SpareInv, CancelSpares, Touching, Working

\* A late value ends the claim about them, and the rest does not mention them.
LEMMA InsertSpares ==
  ASSUME Shape, SpareInv, [Next]_vars, NEW n \in Tags, Insert(n)
  PROVE  SpareInv' /\ CancelSpares'
<1> USE DEF Shape, data, work, maint, faults, kept, rest
<1>1. ~NoneLate'
  <2>1. came[n] \in Nat /\ came'[n] = came[n] + 1
    BY TagDeleteAssumption DEF Insert, TypeOK
  <2> QED BY <2>1 DEF NoneLate
<1>2. UNCHANGED <<last, h, cur, cancel, spared>>
  BY DEF Insert
<1> QED BY <1>1, <1>2 DEF SpareInv, CancelSpares, Named

LEMMA RequestSpares ==
  ASSUME Shape, SpareInv, [Next]_vars, RequestCancel
  PROVE  SpareInv' /\ CancelSpares'
<1> USE DEF Shape, data, work, maint, faults, kept, rest
<1>1. /\ UNCHANGED <<rows, last, h, cur, deleted, total, came, full, pass, job, route>>
      /\ ~cancel /\ cancel' /\ spared' = Untouched
  BY DEF RequestCancel
<1>2. Untouched \subseteq Named /\ \A t \in Untouched : h \in Touching => t > cur
  BY DEF Untouched, Touching
<1>3. Sum(rows)' = Sum(rows) /\ Sum(Rows)' = Sum(Rows)
  BY <1>1, SumKept DEF Sum
<1>4. NoneLate' => NoneLate
  BY OrderlyBefore
<1>5. Few(Untouched) => Few(spared)'
  BY <1>1 DEF Few, Held, Sum
<1>6. SpareInv'
  BY <1>1, <1>2, <1>3, <1>4, <1>5 DEF SpareInv, Named
<1>7. CancelSpares'
  BY <1>1, <1>4, <1>5 DEF SpareInv, CancelSpares, Intact
<1> QED BY <1>6, <1>7

\* A pass drains only when what there is to spare is few.
LEMMA DrainSpares ==
  ASSUME Shape, SpareInv, CancelSpares, [Next]_vars, Drain
  PROVE  SpareInv' /\ CancelSpares'
<1> USE DEF Shape, data, work, maint, faults, kept, rest
<1>1. /\ UNCHANGED <<last, h, cur, deleted, total, came, full, job, cancel, spared, route>>
      /\ rows' = [rows EXCEPT ![mcur] = Less(@, MiniBatch)] /\ pass = "drain" /\ mcur \in Named
      /\ pass' \in {"drain", "idle"}
  BY DEF Drain, Places
<1>2. /\ Sum(rows) \in Nat /\ Sum(rows)' \in Nat /\ Sum(rows)' <= Sum(rows)
      /\ rows' \in [Tags -> Nat] /\ \A t \in Tags : rows'[t] <= rows[t]
  <2>1. PICK c : c = mcur
    OBVIOUS
  <2>2. PICK n : n = Less(rows[mcur], MiniBatch)
    OBVIOUS
  <2>3. n \in Nat /\ n <= rows[c] /\ c \in Named
    BY <1>1, <2>1, <2>2, Bounds, LessIsLess DEF TypeOK
  <2>4. rows' = [rows EXCEPT ![c] = n]
    BY <1>1, <2>1, <2>2
  <2> QED BY <1>1, <2>3, <2>4, SumFalls
<1>3. Untouched' = Untouched /\ Named' = Named
  BY <1>1 DEF Untouched, Named
<1>4. NoneLate' => NoneLate
  BY OrderlyBefore
<1>5. ASSUME NoneLate
      PROVE  /\ Few(spared)' /\ (cancel \/ Few(Untouched)')
             /\ h \notin {"off", "mark", "count"}
             /\ route # "idle"
  BY <1>1, <1>3, <1>5, FewKeep DEF SpareInv, Places
<1>6. Sum(Rows)' = Sum(Rows)
  BY <1>1 DEF Sum
<1>7. ASSUME total > 0, h \in Working, deleted + Sum(rows) <= total PROVE deleted + Sum(rows)' <= total
  BY <1>2, <1>7 DEF TypeOK
<1>8. ASSUME NoneLate, NEW t \in Tags PROVE rows'[t] <= Rows[t]
  <2>1. rows'[t] \in Nat /\ rows[t] \in Nat /\ Rows[t] \in Nat /\ rows'[t] <= rows[t] /\ rows[t] <= Rows[t]
    BY <1>2, <1>8, TagDeleteAssumption DEF TypeOK, SpareInv
  <2> QED BY <2>1
<1>9. SpareInv'
  BY <1>1, <1>2, <1>3, <1>4, <1>5, <1>6, <1>7, <1>8 DEF SpareInv
<1>10. CancelSpares'
  BY <1>1, <1>4, <1>5 DEF CancelSpares
<1> QED BY <1>9, <1>10

\* The handler claims, and counts: it has touched nothing.
LEMMA ClaimSpares ==
  ASSUME Shape, SpareInv, CancelSpares, [Next]_vars, Claim \/ MarkDeleting \/ CountRows
  PROVE  SpareInv' /\ CancelSpares'
<1> USE DEF Shape, data, work, maint, faults, kept, rest
<1>1. /\ UNCHANGED <<rows, last, cancel, spared, pass, route, came>>
      /\ h' \in {"mark", "count", "next"} /\ route # "idle"
      /\ job' = "queued" => job = "queued"
  BY DEF Claim, MarkDeleting, CountRows, At, Places
<1>2. CASE NoneLate
  <2>1. h \in {"off", "mark", "count"} /\ cur = 0 /\ ~full /\ pass # "drain"
    BY <1>2 DEF SpareInv, Claim, MarkDeleting, CountRows, At, Places
  <2>2. Untouched = Named /\ Untouched' \subseteq Named
    BY <1>1, <2>1, Bounds DEF Untouched, Named
  <2>3. full' = FALSE
    BY <2>1 DEF Claim, MarkDeleting, CountRows, TypeOK
  <2>4. job' = "queued" => cancel
    BY <1>1, <1>2, <2>1 DEF SpareInv, Claim, MarkDeleting, CountRows, At
  <2>5. total' > 0 /\ h' \in Working => deleted' + Sum(rows) <= total' /\ total' <= Sum(Rows)
    <3>1. CASE CountRows
      <4>1. Rows \in [Tags -> Nat] /\ rows \in [Tags -> Nat] /\ last \in 0 .. NumTags
        BY TagDeleteAssumption DEF TypeOK
      <4>2. Sum(rows) \in Nat /\ Sum(rows) <= Sum(Rows)
        BY <1>2, <4>1, SumIsNatural, SumGrows DEF SpareInv
      <4> QED BY <3>1, <4>2 DEF CountRows
    <3>2. CASE ~CountRows
      BY <3>2 DEF Claim, MarkDeleting, Working
    <3> QED BY <3>1, <3>2
  <2> QED BY <1>1, <2>1, <2>2, <2>3, <2>4, <2>5, StillSpared DEF Touching
<1>3. CASE ~NoneLate
  BY <1>1, <1>3 DEF SpareInv, CancelSpares, Touching, NoneLate, Named
<1> QED BY <1>2, <1>3

\* The handler goes on, or ends, without deleting.
LEMMA MovesSpare ==
  ASSUME Shape, SpareInv, CancelSpares, [Next]_vars,
         NextTag \/ SelectBatch \/ Verify \/ Residual \/ RestoreTag \/ EndJob \/ Throw \/ Crash
  PROVE  SpareInv' /\ CancelSpares'
<1> USE DEF Shape, data, work, maint, faults, kept, rest
<1>1. /\ UNCHANGED <<rows, last, deleted, total, cancel, spared, came, full>>
      /\ job' = "queued" => job = "queued"
      /\ route' = "idle" => route = "idle"
      /\ pass' = pass \/ pass' = "idle"
      /\ h' \in Touching => (h \in Touching /\ cur' = cur) \/ h = "next"
      /\ h = "off" => h' = "off"
      /\ h' \in {"off", "mark", "count"} => h' = h
      /\ h' \in Working => h \in Working
      /\ h' = "next" => FALSE
      /\ cur' = cur \/ (cur' = cur + 1 /\ cur \in Named)
  BY DEF NextTag, SelectBatch, Verify, Residual, RestoreTag, EndJob, Throw, Crash, Repair, At,
         Working, Touching, Places
<1>2. ASSUME h' \in Touching, h = "next" PROVE spared = {}
  BY <1>2 DEF NextTag, SelectBatch, Verify, Residual, RestoreTag, EndJob, Throw, Crash, At,
              SpareInv, Touching
<1>3. Untouched' \subseteq Untouched
  BY <1>1, Bounds DEF Untouched, Named
<1>4. NoneLate =>
        /\ job' = "queued" => h' = "off" \/ cancel
        /\ h' \in {"off", "mark", "count"} => ~full' /\ pass' # "drain"
        /\ total' > 0 /\ h' \in Working => deleted' + Sum(rows) <= total' /\ total' <= Sum(Rows)
  BY <1>1 DEF SpareInv
<1> QED BY <1>1, <1>2, <1>3, <1>4, StillSpared

LEMMA FinishSpares ==
  ASSUME Shape, SpareInv, CancelSpares, [Next]_vars, FinishTag
  PROVE  SpareInv' /\ CancelSpares'
<1> USE DEF Shape, data, work, maint, faults, kept, rest
<1>1. /\ UNCHANGED <<rows, last, deleted, total, cancel, spared, came, job, pass, route>>
      /\ h = "clean" /\ h' \in {"next", "complete"} /\ cur' = cur + 1 /\ cur \in Named
      /\ full' = IF job # "running" THEN full
                 ELSE IF total > 0 THEN Nearly(deleted, total) ELSE Nearly(cur, last)
  BY DEF FinishTag, At, Places, Working
<1>2. Untouched' \subseteq Untouched /\ Untouched' \subseteq {t \in Named : t > cur}
  BY <1>1, Bounds DEF Untouched, Named
<1>3. spared \subseteq Named /\ (\A t \in spared : t > cur) /\ spared \subseteq Tags
      /\ Untouched \subseteq Tags
  BY <1>1, Bounds DEF SpareInv, Touching, Untouched
<1>4. ASSUME NoneLate, total > 0, Nearly(deleted, total) PROVE Few(spared) /\ (cancel \/ Few(Untouched)')
  <2>1. /\ rows \in [Tags -> Nat] /\ deleted \in Nat
        /\ deleted + Sum(rows) <= total /\ total <= Sum(Rows)
    BY <1>1, <1>4 DEF TypeOK, SpareInv, Working
  <2>2. Few(spared)
    BY <1>3, <1>4, <2>1, FewByValues DEF CancelSpares
  <2>3. cancel \/ Few(Untouched)
    BY <1>3, <1>4, <2>1, FewByValues DEF SpareInv, Intact
  <2> QED BY <1>1, <1>2, <1>3, <2>2, <2>3, FewKeep
<1>5. ASSUME Nearly(cur, last) PROVE Few(spared) /\ Few(Untouched)'
  <2>1. Few(spared)
    BY <1>1, <1>3, <1>5, FewByTags
  <2>2. PICK S : S = Untouched'
    OBVIOUS
  <2>3. Few(S)
    BY <1>1, <1>2, <1>5, <2>2, FewByTags
  <2>4. Few(S)'
    BY <1>1, <2>3, FewKept
  <2> QED BY <2>1, <2>2, <2>4 DEF Few, Held, Sum
<1>6. NoneLate =>
        /\ job' = "queued" => h' = "off" \/ cancel
        /\ full' => full \/ (Few(spared) /\ (cancel \/ Few(Untouched)'))
        /\ total' > 0 /\ h' \in Working => deleted' + Sum(rows) <= total' /\ total' <= Sum(Rows)
  BY <1>1, <1>4, <1>5 DEF SpareInv, Working
<1> QED BY <1>1, <1>2, <1>6, StillSpared DEF Touching

\* A batch is deleted of a tag that is not to be spared.
LEMMA DeleteSpares ==
  ASSUME Shape, SpareInv, CancelSpares, [Next]_vars, DeleteBatch \/ Redelete
  PROVE  SpareInv' /\ CancelSpares'
<1> USE DEF Shape, data, work, maint, faults, kept, rest
<1>1. /\ UNCHANGED <<last, cur, total, cancel, spared, came, job, pass, route>>
      /\ rows' = [rows EXCEPT ![cur] = Less(@, Batch)]
      /\ h \in {"delete", "redelete"} /\ cur \in Named
      /\ h' \in {"batch", "verify", "residual"}
      /\ route # "idle"
  BY DEF DeleteBatch, Redelete, At, Places, Working
<1>2. /\ rows' \in [Tags -> Nat] /\ Sum(rows) \in Nat /\ Sum(rows)' \in Nat
      /\ Sum(rows)' + (rows[cur] - rows'[cur]) = Sum(rows) /\ Sum(rows)' <= Sum(rows)
      /\ \A t \in Tags \ {cur} : rows'[t] = rows[t]
      /\ \A t \in Tags : rows'[t] <= rows[t]
  <2>1. PICK c : c = cur
    OBVIOUS
  <2>2. PICK n : n = Less(rows[cur], Batch)
    OBVIOUS
  <2>3. n \in Nat /\ n <= rows[c] /\ c \in Named
    BY <1>1, <2>1, <2>2, Bounds, LessIsLess DEF TypeOK
  <2>4. rows' = [rows EXCEPT ![c] = n]
    BY <1>1, <2>1, <2>2
  <2> QED BY <1>1, <2>1, <2>3, <2>4, SumFalls
<1>3. /\ rows[cur] \in Nat /\ rows'[cur] \in Nat /\ rows'[cur] <= rows[cur]
      /\ deleted \in Nat /\ total \in Nat /\ deleted' \in Nat
      /\ deleted' = deleted \/ deleted' = deleted + (rows[cur] - rows'[cur])
  <2>1. rows[cur] \in Nat /\ rows'[cur] \in Nat /\ rows'[cur] <= rows[cur]
    BY <1>1, <1>2, Bounds DEF TypeOK
  <2>2. deleted \in Nat /\ total \in Nat
    BY DEF TypeOK
  <2>3. deleted' = deleted \/ deleted' = deleted + (rows[cur] - rows'[cur])
    BY DEF DeleteBatch, Redelete
  <2> QED BY <2>1, <2>2, <2>3
<1>4. /\ Untouched' = {t \in Named : t > cur} /\ Untouched = {t \in Named : t > cur}
      /\ spared \subseteq {t \in Named : t > cur} /\ Named' = Named
      /\ \A t \in Named : t > cur => t \in Tags \ {cur}
  <2>1. \A t \in Named : t > cur => t \in Tags \ {cur}
    BY Bounds
  <2>2. spared \subseteq {t \in Named : t > cur}
    BY <1>1 DEF SpareInv, Touching
  <2> QED BY <1>1, <2>1, <2>2 DEF Untouched, Named
<1>5. NoneLate' => NoneLate
  BY OrderlyBefore
<1>6. ASSUME NoneLate, total > 0 PROVE deleted' + Sum(rows)' <= total /\ total <= Sum(Rows)
  <2>1. deleted + Sum(rows) <= total /\ total <= Sum(Rows)
    BY <1>1, <1>6 DEF SpareInv, Working
  <2> QED BY <1>2, <1>3, <2>1
<1>7. /\ Few(spared) => Few(spared)'
      /\ Few(Untouched) => Few(Untouched)'
  BY <1>1, <1>4, FewKeep
<1>8. /\ Intact(Untouched) => \A t \in Untouched : rows'[t] = Rows[t]
      /\ Intact(spared) => \A t \in spared : rows'[t] = Rows[t]
  BY <1>2, <1>4 DEF Intact
<1>9. ASSUME NoneLate, full' \/ pass' = "drain"
      PROVE  Few(spared) /\ (cancel \/ Few(Untouched))
  <2>1. CASE full \/ pass = "drain"
    BY <1>9, <2>1 DEF SpareInv
  <2>2. CASE total > 0 /\ Nearly(deleted', total)
    <3>1. spared \subseteq Tags /\ Untouched \subseteq Tags
      BY <1>4
    <3>2. PICK f, d : f = rows' /\ d = deleted'
      OBVIOUS
    <3>3. f \in [Tags -> Nat] /\ d \in Nat /\ Nearly(d, total)
      BY <1>2, <1>3, <2>2, <3>2
    <3>4. Sum(f) = Sum(rows)'
      BY <1>1, <3>2 DEF Sum
    <3>5. d + Sum(f) <= total /\ total <= Sum(Rows)
      BY <1>6, <1>9, <2>2, <3>2, <3>4
    <3>6. Few(spared)
      BY <1>8, <1>9, <3>1, <3>2, <3>3, <3>5, FewByValues DEF CancelSpares, Intact
    <3>7. cancel \/ Few(Untouched)
      BY <1>8, <1>9, <3>1, <3>2, <3>3, <3>5, FewByValues DEF SpareInv
    <3> QED BY <3>6, <3>7
  <2>3. CASE Nearly(cur, last)
    BY <1>1, <1>4, <2>3, FewByTags
  <2>4. CASE ~(full \/ pass = "drain")
    <3>1. DeleteBatch /\ full'
      BY <1>1, <1>9, <2>4 DEF Redelete
    <3>2. CASE total > 0
      <4>1. full' = Nearly(deleted', total)
        BY <2>4, <3>1, <3>2 DEF DeleteBatch
      <4> QED BY <2>2, <3>1, <3>2, <4>1
    <3>3. CASE ~(total > 0)
      <4>1. PICK share \in 0 .. 1 + came[cur] : full' = Nearly(cur - 1 + share, last)
        BY <2>4, <3>1, <3>3, Zenon DEF DeleteBatch
      <4>2. came[cur] = 0 /\ cur \in Nat /\ last \in Nat
        BY <1>1, <1>9, Bounds DEF NoneLate
      <4>3. share \in 0 .. 1
        BY <4>1, <4>2
      <4>4. Nearly(cur, last)
        <5>1. Nearly(cur - 1 + share, last)
          BY <3>1, <4>1
        <5>2. cur - 1 + share \in Int /\ cur - 1 + share <= cur
          BY <4>2, <4>3
        <5>3. 200 * (cur - 1 + share) >= 199 * last
          BY <5>1 DEF Nearly
        <5>4. 200 * cur >= 199 * last
          BY <4>2, <5>2, <5>3
        <5> QED BY <5>4 DEF Nearly
      <4> QED BY <2>3, <4>4
    <3> QED BY <3>2, <3>3
  <2> QED BY <2>1, <2>4
<1>10. ASSUME NoneLate, NEW t \in Tags PROVE rows'[t] <= Rows[t]
  <2>1. rows'[t] \in Nat /\ rows[t] \in Nat /\ Rows[t] \in Nat /\ rows'[t] <= rows[t] /\ rows[t] <= Rows[t]
    BY <1>2, <1>10, TagDeleteAssumption DEF TypeOK, SpareInv
  <2> QED BY <2>1
<1>11. SpareInv'
  <2>1. spared' \subseteq Named' /\ (~cancel' => spared' = {}) /\ (\A t \in spared' : t > cur')
    BY <1>1, <1>4 DEF SpareInv
  <2>2. ASSUME NoneLate
        PROVE  /\ job' = "queued" => h' = "off" \/ cancel'
               /\ ~cancel' => Intact(Untouched)' \/ Few(Untouched)'
    BY <1>1, <1>4, <1>7, <1>8, <2>2 DEF SpareInv, Intact
  <2>3. Sum(Rows)' = Sum(Rows)
    BY <1>1 DEF Sum
  <2>4. ASSUME NoneLate, full' \/ pass' = "drain" PROVE Few(spared)' /\ (cancel' \/ Few(Untouched)')
    BY <1>1, <1>7, <1>9, <2>4
  <2> QED BY <1>1, <1>5, <1>6, <1>10, <2>1, <2>2, <2>3, <2>4 DEF SpareInv
<1>12. CancelSpares'
  BY <1>1, <1>5, <1>7, <1>8 DEF CancelSpares, Intact
<1> QED BY <1>11, <1>12

-----------------------------------------------------------------------------
(* The theorems.                                                           *)

IInv ==
  /\ Shape
  /\ EmptyInv /\ DeletedIsEmpty
  /\ SettleInv
  /\ OrderlyInv /\ CompleteInv
  /\ SpareInv /\ CancelSpares

LEMMA InitIInv == Init => IInv
<1> SUFFICES ASSUME Init PROVE IInv
  OBVIOUS
<1>1. Shape
  BY InitShape
<1>2. EmptyInv /\ DeletedIsEmpty /\ SettleInv
  BY DEF Init, EmptyInv, DeletedIsEmpty, SettleInv, Working, Ended
<1>3. Named = {}
  BY DEF Init, Named
<1>4. OrderlyInv /\ CompleteInv
  BY <1>3 DEF Init, OrderlyInv, CompleteInv, Working
<1>5. SpareInv /\ CancelSpares
  <2>1. Untouched = {} /\ spared = {} /\ rows = Rows /\ \A t \in Tags : Rows[t] <= Rows[t]
    BY <1>3, TagDeleteAssumption DEF Init, Untouched
  <2> QED BY <2>1 DEF Init, SpareInv, CancelSpares, Intact, Touching, Working
<1> QED BY <1>1, <1>2, <1>4, <1>5 DEF IInv

LEMMA SpareStep ==
  ASSUME Shape, OrderlyInv, SpareInv, CancelSpares, [Next]_vars PROVE SpareInv' /\ CancelSpares'
BY OthersSpare, RemoveSpares, InsertSpares, RequestSpares, DrainSpares, ClaimSpares, MovesSpare,
   FinishSpares, DeleteSpares
DEF Next, Handle, Maintain

LEMMA StepIInv == ASSUME IInv, [Next]_vars PROVE IInv'
BY ShapeStep, EmptyStep, SettleStep, OrderlyStep, CompleteStep, SpareStep DEF IInv

LEMMA Invariance == Spec => []IInv
BY InitIInv, StepIInv, PTL DEF Spec

\* Whoever declares a tag deleted, the handler or a pass that repairs its job,
\* before or after a crash: its values are gone, but for late ones and for the
\* count whose failure is taken for 0.
THEOREM DeletedTagsAreEmpty == Spec => []DeletedIsEmpty
<1>1. IInv => DeletedIsEmpty
  BY DEF IInv
<1> QED BY <1>1, Invariance, PTL

\* A job completes, by its handler or by a pass, only with all its tags deleted.
THEOREM CompletedJobsDelete == Spec => []CompletedDeletes
<1>1. IInv => CompletedDeletes
  BY DEF IInv, CompleteInv, Orderly, CompletedDeletes
<1> QED BY <1>1, Invariance, PTL

\* Where the handler ends, no tag is left in deletion but behind one it gave up.
THEOREM HandlersSettle == Spec => []HandlerSettles
<1>1. IInv => HandlerSettles
  BY DEF IInv, SettleInv, Ended, Behind, HandlerSettles
<1> QED BY <1>1, Invariance, PTL

\* Neither the handler nor a repair deletes values of the tags the handler had
\* not begun when the cancellation was requested, unless these are few: 0.5 %
\* of the values, or of the tags where the values could not be counted.
THEOREM CancelledTagsAreSpared == Spec => []CancelSpares
<1>1. IInv => CancelSpares
  BY DEF IInv
<1> QED BY <1>1, Invariance, PTL
=============================================================================
