------------------------------ MODULE ScanCycle -----------------------------
(***************************************************************************)
(* The scan loop of a deployed flow: ScanExecutor of                       *)
(* core/src/services/flow-executor.js with its InputStateManager, the      *)
(* entry of the flow in the RuntimeStateStore, and the requests that touch *)
(* both: deploy, undeploy and the manual trigger of routes/flows.js.       *)
(*                                                                         *)
(* A flow is a graph on nodes 1 .. N.  Each cycle of an executor sorts the *)
(* nodes, clears the outputs of the cycle before and visits the nodes one  *)
(* by one; a node that works is awaited, for as long as its timeout allows.*)
(* A deployed flow has one executor; an undeployed one may still be in a   *)
(* cycle while its successor scans.  Values are the cycle they come from.  *)
(***************************************************************************)
EXTENDS Naturals, Sequences, FiniteSets

CONSTANTS N,            \* nodes of the flow
          Handles,      \* input handles of nodes
          Flows,        \* flows considered: edges, the handle each goes to, kinds of
                        \* the nodes, and how often the flow is deployed (a bound)
          Executors,    \* 1 .. deployments of the flow
          MaxCycles,    \* bound: cycles of one executor
          MaxPresses    \* bound: trigger requests

Nodes == 1 .. N
Edges == Nodes \X Nodes
Ports == (Handles \cup {"input"}) \X Nodes
Kinds == {"lax",        \* works asynchronously, takes null inputs
          "strict",     \* works asynchronously, its inputs are required
          "comment", "trigger", "jump-out", "jump-in"}

ASSUME ScanCycleAssumption ==
  /\ N \in Nat /\ MaxCycles \in Nat /\ MaxPresses \in Nat
  /\ Executors \subseteq Nat
  /\ \A g \in Flows : /\ g.edges \subseteq Edges /\ g.handle \in [g.edges -> Handles]
                      /\ g.kind \in [Nodes -> Kinds] /\ g.deploys \in Executors

VARIABLES
  flow,      \* the definition: flow.edges, flow.handle, flow.kind
  phase,     \* "undeployed", "deployed", "stopping"
  run,       \* run[e]: isRunning of executor e, "new" before start()
  cycle,     \* cycle[e]: scanCycle
  order,     \* order[e]: executionOrder of the cycle
  pos,       \* pos[e]: place in the order, 0 when isExecuting is false
  busy,      \* busy[e]: the execution of the node at pos[e] is awaited
  out,       \* out[e][n]: nodeOutputs
  inp,       \* inp[e][<<h, n>>]: input state of n for its handle h
  trig,      \* store: trigger flags
  shown,     \* store: node outputs, shown[n] = <<executor, cycle>>
  jump,      \* store: who set the jump value, <<executor, cycle>>
  presses

executors == <<run, cycle, order, pos, busy, out, inp>>
store == <<trig, shown, jump>>
vars == <<flow, phase, executors, store, presses>>

Never == <<0, 0>>
Stamps == {Never} \cup (Executors \X (1 .. MaxCycles))

\* What nodeOutputs says of a node in this cycle, and what an input holds.
Outputs == {"none", "value", "null", "error"}
Input == [at : 0 .. MaxCycles, ok : BOOLEAN]

TypeOK ==
  /\ flow \in Flows
  /\ phase \in {"undeployed", "deployed", "stopping"}
  /\ run \in [Executors -> {"new", "on", "off"}]
  /\ cycle \in [Executors -> 0 .. MaxCycles]
  /\ order \in [Executors -> Seq(Nodes)]
  /\ \A e \in Executors : Len(order[e]) \in {0, N}
  /\ pos \in [Executors -> 0 .. N]
  /\ busy \in [Executors -> BOOLEAN]
  /\ out \in [Executors -> [Nodes -> Outputs]]
  /\ inp \in [Executors -> [Ports -> Input]]
  /\ trig \in SUBSET Nodes
  /\ shown \in [Nodes -> Stamps]
  /\ jump \in Stamps
  /\ presses \in 0 .. MaxPresses

Init ==
  /\ flow \in Flows
  /\ phase = "undeployed"
  /\ run = [e \in Executors |-> "new"]
  /\ cycle = [e \in Executors |-> 0]
  /\ order = [e \in Executors |-> <<>>]
  /\ pos = [e \in Executors |-> 0]
  /\ busy = [e \in Executors |-> FALSE]
  /\ out = [e \in Executors |-> [n \in Nodes |-> "none"]]
  /\ inp = [e \in Executors |-> [p \in Ports |-> [at |-> 0, ok |-> FALSE]]]
  /\ trig = {} /\ jump = Never
  /\ shown = [n \in Nodes |-> Never]
  /\ presses = 0

-----------------------------------------------------------------------------
(* The order of execution.                                                 *)

\* Mutant: jumps add no edges.
DrawnEdges(g) == g.edges

\* buildExecutionEdges: a Jump Out precedes every Jump In of its label (the
\* flows have one label).
ExecutionEdges(g) ==
  g.edges \cup {d \in Edges : g.kind[d[1]] = "jump-out" /\ g.kind[d[2]] = "jump-in"}

\* The port an edge goes to.  Virtual edges have no handle of their own: those
\* of one Jump In share a port.
Port(g, d) == <<IF d \in g.edges THEN g.handle[d] ELSE "input", d[2]>>

Sources(E, n) == {s \in Nodes : <<s, n>> \in E}
Targets(E, n) == {t \in Nodes : <<n, t>> \in E}

\* The nodes of a set in the order of the definition.
Listing ==
  [S \in SUBSET Nodes |->
     LET upto[n \in 0 .. N] ==
           IF n = 0 THEN <<>> ELSE IF n \in S THEN Append(upto[n - 1], n) ELSE upto[n - 1]
     IN  upto[N]]
Elements(s) == {s[i] : i \in 1 .. Len(s)}

\* Mutant: a node is queued as soon as one of its sources is sorted.
StepEager(E, s) ==
  IF s.queue = <<>> THEN s ELSE
  LET n == Head(s.queue)
      free == {t \in Targets(E, n) : t \notin Elements(s.sorted \o s.queue)}
  IN  [queue |-> Tail(s.queue) \o Listing[free], sorted |-> Append(s.sorted, n)]

\* One turn of the loop: the head of the queue is sorted, and the targets
\* that wait for it alone are queued (their in-degree has come down to 0).
Step(E, s) ==
  IF s.queue = <<>> THEN s ELSE
  LET n == Head(s.queue)
      free == {t \in Targets(E, n) : Sources(E, t) \ Elements(s.sorted) = {n}}
  IN  [queue |-> Tail(s.queue) \o Listing[free], sorted |-> Append(s.sorted, n)]

\* topologicalSort: <<>> where the code throws.
TopologicalSort(E) ==
  LET sort[k \in 0 .. N] ==
        IF k = 0 THEN [queue |-> Listing[{n \in Nodes : Sources(E, n) = {}}], sorted |-> <<>>]
                 ELSE Step(E, sort[k - 1])
      sorted == sort[N].sorted
  IN  IF Len(sorted) = N THEN sorted ELSE <<>>

\* What each cycle of a flow sorts anew.
Order == [g \in Flows |-> TopologicalSort(ExecutionEdges(g))]

-----------------------------------------------------------------------------
(* A scan cycle.                                                           *)

\* The interval fires: nothing happens while a cycle is under way; an order
\* that cannot be computed ends the cycle at once.
Tick(e) ==
  /\ run[e] = "on" /\ pos[e] = 0
  /\ cycle[e] < MaxCycles
  /\ cycle' = [cycle EXCEPT ![e] = @ + 1]
  /\ order' = [order EXCEPT ![e] = Order[flow]]
  /\ IF order'[e] = <<>> THEN UNCHANGED <<pos, out>>
                         ELSE /\ pos' = [pos EXCEPT ![e] = 1]
                              /\ out' = [out EXCEPT ![e] = [n \in Nodes |-> "none"]]
  /\ UNCHANGED <<flow, phase, run, busy, inp, store, presses>>

Here(e) == order[e][pos[e]]

Advance(e) == pos' = [pos EXCEPT ![e] = IF @ = N THEN 0 ELSE @ + 1]

\* The output of n is kept and handed to the ports behind its edges.
Produce(e, n, result) ==
  /\ out' = [out EXCEPT ![e][n] = result]
  /\ inp' = [inp EXCEPT ![e] = [p \in Ports |->
               IF \E d \in ExecutionEdges(flow) : d[1] = n /\ Port(flow, d) = p
               THEN [at |-> cycle[e], ok |-> result = "value"] ELSE @[p]]]

\* Mutant: nodes execute whether or not their sources have.
ReadyAnyway(e, n) == TRUE

\* Every source has an output in this cycle, or the port its edge goes to has
\* been set: in an earlier cycle, or in this one by another edge.
Ready(e, n) ==
  \A s \in Sources(ExecutionEdges(flow), n) :
    out[e][s] # "none" \/ inp[e][Port(flow, <<s, n>>)].at > 0

\* shouldSkipNode: required inputs must be connected and not null.
Skipped(e, n) ==
  /\ flow.kind[n] \in {"strict", "jump-out"}
  /\ LET S == Sources(flow.edges, n)
     IN  S = {} \/ \E s \in S : ~inp[e][Port(flow, <<s, n>>)].ok

Visiting(e) == pos[e] > 0 /\ ~busy[e]

\* A comment, or a node that still waits for inputs: no output at all.
Pass(e) ==
  /\ Visiting(e)
  /\ flow.kind[Here(e)] = "comment" \/ ~Ready(e, Here(e))
  /\ Advance(e)
  /\ UNCHANGED <<flow, phase, run, cycle, order, busy, out, inp, store, presses>>

Runs(e) == Visiting(e) /\ flow.kind[Here(e)] # "comment" /\ Ready(e, Here(e))

Skip(e) ==
  /\ Runs(e) /\ Skipped(e, Here(e))
  /\ Produce(e, Here(e), "null")
  /\ Advance(e)
  /\ UNCHANGED <<flow, phase, run, cycle, order, busy, store, presses>>

Executes(e, kind) == Runs(e) /\ ~Skipped(e, Here(e)) /\ flow.kind[Here(e)] = kind

Show(e, n) == shown' = [shown EXCEPT ![n] = <<e, cycle[e]>>]

\* Mutant: the flag is read and not cleared.
ExecuteTriggerSticky(e) ==
  /\ Executes(e, "trigger")
  /\ Produce(e, Here(e), "value")
  /\ Show(e, Here(e))
  /\ Advance(e)
  /\ UNCHANGED <<flow, phase, run, cycle, order, busy, trig, jump, presses>>

\* ManualTriggerNode reads and clears its flag and returns at once.
ExecuteTrigger(e) ==
  /\ Executes(e, "trigger")
  /\ trig' = trig \ {Here(e)}
  /\ Produce(e, Here(e), "value")
  /\ Show(e, Here(e))
  /\ Advance(e)
  /\ UNCHANGED <<flow, phase, run, cycle, order, busy, jump, presses>>

ExecuteJumpOut(e) ==
  /\ Executes(e, "jump-out")
  /\ jump' = <<e, cycle[e]>>
  /\ Produce(e, Here(e), "value")
  /\ Show(e, Here(e))
  /\ Advance(e)
  /\ UNCHANGED <<flow, phase, run, cycle, order, busy, trig, presses>>

\* JumpInNode has no inputs of its own: it returns what the store holds.
ExecuteJumpIn(e) ==
  /\ Executes(e, "jump-in")
  /\ Produce(e, Here(e), IF jump = Never THEN "null" ELSE "value")
  /\ Show(e, Here(e))
  /\ Advance(e)
  /\ UNCHANGED <<flow, phase, run, cycle, order, busy, trig, jump, presses>>

\* A node that works asynchronously begins; its inputs are read now.
Begin(e) ==
  /\ Executes(e, "lax") \/ Executes(e, "strict")
  /\ busy' = [busy EXCEPT ![e] = TRUE]
  /\ UNCHANGED <<flow, phase, run, cycle, order, pos, out, inp, store, presses>>

\* It returns a value or null.
Return(e) ==
  /\ busy[e]
  /\ busy' = [busy EXCEPT ![e] = FALSE]
  /\ \E result \in {"value", "null"} : Produce(e, Here(e), result)
  /\ Show(e, Here(e))
  /\ Advance(e)
  /\ UNCHANGED <<flow, phase, run, cycle, order, trig, jump, presses>>

\* Mutant: there is no timeout, only errors of the node.
NeverTimeOut(e) == FALSE /\ UNCHANGED vars

\* It fails, or its timeout passes first: the race is lost, and what the node
\* returns later is dropped.
TimeOut(e) ==
  /\ busy[e]
  /\ busy' = [busy EXCEPT ![e] = FALSE]
  /\ Produce(e, Here(e), "error")
  /\ Advance(e)
  /\ UNCHANGED <<flow, phase, run, cycle, order, store, presses>>

VisitNext(e) ==
  Pass(e) \/ Skip(e) \/ ExecuteTrigger(e) \/ ExecuteJumpOut(e) \/ ExecuteJumpIn(e) \/ Begin(e)

-----------------------------------------------------------------------------
(* Requests.                                                               *)

Deploy ==
  /\ phase = "undeployed"
  /\ phase' = "deployed"
  /\ UNCHANGED <<flow, executors, store, presses>>

\* The job of the deployment is claimed: a new executor starts.
Start(e) ==
  /\ phase = "deployed"
  /\ e <= flow.deploys /\ run[e] = "new"
  /\ \A d \in Executors : (d < e => run[d] = "off") /\ (d > e => run[d] = "new")
  /\ run' = [run EXCEPT ![e] = "on"]
  /\ UNCHANGED <<flow, phase, cycle, order, pos, busy, out, inp, store, presses>>

\* The undeploy request: stop() of the running executor, then, after an await,
\* clearFlow().  A cycle in progress goes on.
Stop ==
  /\ phase = "deployed"
  /\ phase' = "stopping"
  /\ run' = [e \in Executors |-> IF run[e] = "on" THEN "off" ELSE run[e]]
  /\ UNCHANGED <<flow, cycle, order, pos, busy, out, inp, store, presses>>

Clear ==
  /\ phase = "stopping"
  /\ phase' = "undeployed"
  /\ trig' = {} /\ jump' = Never
  /\ shown' = [n \in Nodes |-> Never]
  /\ UNCHANGED <<flow, executors, presses>>

\* The trigger request does not ask whether the flow is deployed.
Press(n) ==
  /\ presses < MaxPresses
  /\ flow.kind[n] = "trigger"
  /\ trig' = trig \cup {n}
  /\ presses' = presses + 1
  /\ UNCHANGED <<flow, phase, executors, shown, jump>>

Next ==
  \/ Deploy \/ Stop \/ Clear
  \/ \E n \in Nodes : Press(n)
  \/ \E e \in Executors : Start(e) \/ Tick(e) \/ VisitNext(e) \/ Return(e) \/ TimeOut(e)

Spec == Init /\ [][Next]_vars

\* The event loop turns, intervals and timeouts fire, an undeploy request runs
\* to its end.  Whether a node ever returns is its own affair.
FairSpec ==
  /\ Spec
  /\ WF_vars(Clear)
  /\ \A e \in Executors : WF_vars(Tick(e) \/ VisitNext(e) \/ TimeOut(e))

-----------------------------------------------------------------------------
\* topologicalSort throws exactly when some nodes all have a source among
\* themselves, virtual edges included; otherwise the order has each node once,
\* behind all its sources.
OrderCorrect ==
  LET E == ExecutionEdges(flow)
      cyclic == \E S \in (SUBSET Nodes) \ {{}} : \A n \in S : Sources(E, n) \cap S # {}
  IN  \A e \in {d \in Executors : cycle[d] > 0} :
        IF cyclic THEN order[e] = <<>>
        ELSE /\ Len(order[e]) = N /\ Elements(order[e]) = Nodes
             /\ \A i, j \in 1 .. N : <<order[e][i], order[e][j]>> \in E => i < j

\* A node that executes reads on each connected port what a source produced in
\* this very cycle, although inputs persist from one cycle to the next and a
\* node runs behind a port that only some of its edges have reached.
InputsFresh ==
  \A e \in Executors : busy[e] =>
    \A s \in Sources(ExecutionEdges(flow), Here(e)) :
      inp[e][Port(flow, <<s, Here(e)>>)].at = cycle[e]

\* A Jump In executes after every Jump Out of its label had its turn in the same
\* cycle, and when at least one of its sources has an output, though others may
\* have been passed over; and until its flow is undeployed it reads what a Jump
\* Out stored in this cycle, if one did.  Only an executor undeployed in the
\* middle of a cycle may interfere.
JumpCurrent ==
  \A e \in Executors, o \in Nodes :
    (run[e] = "on" /\ Executes(e, "jump-in") /\ flow.kind[o] = "jump-out") =>
      /\ \E i \in 1 .. pos[e] - 1 : order[e][i] = o
      /\ \E s \in Sources(ExecutionEdges(flow), Here(e)) : out[e][s] # "none"
      /\ out[e][o] = "value" =>
           jump = <<e, cycle[e]>> \/ (jump[1] \in Executors /\ jump[1] < e)

\* Every cycle ends, also that of a stopped executor and also if nodes hang.
CyclesEnd == \A e \in Executors : (pos[e] > 0) ~> (pos[e] = 0)

\* A press is seen by a scan: while the flow's executor runs (and has cycles
\* left in the model), the flag is read and cleared, whatever the other nodes do,
\* unless the order of the flow cannot be computed.
PressSeen ==
  \A e \in Executors :
    (trig # {} /\ run[e] = "on" /\ cycle[e] < MaxCycles)
      ~> (trig = {} \/ run[e] = "off" \/ order[e] = <<>>)
=============================================================================
