----------------------------- MODULE MCScanCycle ----------------------------
(* ScanCycle on small flows: every graph of three plain nodes, deployed       *)
(* once, and flows with required inputs, comments, triggers, jumps and ports  *)
(* that several edges share.  Nodes a flow has no use for are comments.       *)
EXTENDS ScanCycle

\* Edges from different nodes go to handles of their own, or all to one.
Apart(E) == [d \in E |-> <<"input-0", "input-1", "input-2", "input-3", "input-4">>[d[1]]]
Together(E) == [d \in E |-> "input-0"]

Kind(k) == [n \in Nodes |-> IF n <= Len(k) THEN k[n] ELSE "comment"]
Flow(h, k, d) == [edges |-> DOMAIN h, handle |-> h, kind |-> Kind(k), deploys |-> d]

PlainFlows ==
  {Flow(Apart(E), <<"lax", "lax", "lax">>, 1) : E \in SUBSET {d \in (1 .. 3) \X (1 .. 3) : d[1] # d[2]}}

SpecialFlows == {
  Flow(Apart({<<1, 2>>, <<2, 3>>}), <<"trigger", "strict", "lax">>, 1),
  Flow(Apart({<<1, 3>>, <<2, 3>>}), <<"trigger", "lax", "strict">>, 1),
  Flow(Apart({<<1, 2>>}), <<"trigger", "strict">>, 2),
  Flow(Apart({<<1, 3>>, <<2, 3>>}), <<"comment", "trigger", "lax">>, 1),
  Flow(Together({<<1, 3>>, <<2, 3>>}), <<"comment", "trigger", "lax">>, 2),
  Flow(Together({<<1, 2>>, <<1, 3>>, <<2, 3>>}), <<"trigger", "lax", "strict">>, 1),
  Flow(Apart({<<3, 2>>}), <<"jump-in", "jump-out", "lax">>, 2),
  Flow(Apart({<<1, 2>>}), <<"trigger", "jump-out", "jump-in">>, 2),
  Flow(Apart({<<1, 3>>, <<2, 4>>}), <<"comment", "trigger", "jump-out", "jump-out", "jump-in">>, 2),
  Flow(Apart({<<1, 2>>}), <<"trigger", "jump-out", "jump-out", "jump-in">>, 2),
  Flow(Apart({<<1, 3>>, <<2, 4>>}), <<"trigger", "lax", "jump-out", "jump-out", "jump-in">>, 1),
  Flow(Apart({<<2, 2>>}), <<"trigger", "lax", "lax">>, 1)}

MCFlows == PlainFlows \cup SpecialFlows
=============================================================================
