----------------------------- MODULE MCChainPlan -----------------------------
(***************************************************************************)
(* Instances of ChainPlan for TLC.                                         *)
(***************************************************************************)
EXTENDS ChainPlan

CONSTANTS n1, n2, n3, n4

\* Every graph whose edges lead from a lower to a higher of four nodes, each
\* static or a fan-out.
Upward == {<<n1, n2>>, <<n1, n3>>, <<n1, n4>>, <<n2, n3>>, <<n2, n4>>,
           <<n3, n4>>}
AllGraphs ==
  {{[parent |-> pc[1], child |-> pc[2], fan |-> f[pc] = "fan"] :
      pc \in {q \in Upward : f[q] # "no"}} :
     f \in [Upward -> {"no", "static", "fan"}]}

\* Two edges that close a cycle with the graph or with each other.
Backward == {<<n4, n2>>, <<n2, n1>>}

TwoOrders == {<<n1, n2, n3, n4>>, <<n4, n2, n3, n1>>}
=============================================================================
