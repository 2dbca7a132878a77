---------------------------- MODULE MCTaskRollup ----------------------------
(***************************************************************************)
(* Instances of TaskRollup for TLC.                                        *)
(***************************************************************************)
EXTENDS TaskRollup, TLC

CONSTANTS j1, j2, j3, j4, j5

Edge(p, c, m) == [parent |-> p, child |-> c, mode |-> m]
NoRows == [j \in {} |-> "ready"]

\* j1 fans out into j2, with j4 behind it for its failure; j3 joins the two
\* entries.
Fan      == {Edge(j1, j2, "on_success"), Edge(j2, j4, "on_failure"),
             Edge(j1, j3, "on_completion"), Edge(j5, j3, "on_completion")}
FanRows  == [j \in Jobs |-> IF j = j1 THEN (j2 :> "ready") @@ (j4 :> "waiting")
                            ELSE NoRows]
Expanded == {j1, j3, j5}
=============================================================================
