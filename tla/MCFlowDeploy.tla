---------------------------- MODULE MCFlowDeploy ----------------------------
(* A small instance of FlowDeploy for TLC: flow 1 is edited, flow 2 stays and *)
(* shares one of its topics.                                               *)
EXTENDS FlowDeploy

Sound(topic) == [is |-> "sound", topic |-> topic]
Broken(topic) == [is |-> "broken", topic |-> topic]

With(c) == [f \in Flows |-> IF f = 1 THEN c ELSE Sound("a")]

MCFiles ==
  {With(c) : c \in {Off, Broken("a")} \cup {Sound(topic) : topic \in {"a", "b", "own", Blank, NoNode}}}
Shared == {With(Sound("a"))}
=============================================================================
