--------------------------- MODULE MCJobLifecycle ---------------------------
(***************************************************************************)
(* Instances of JobLifecycle for TLC.                                      *)
(***************************************************************************)
EXTENDS JobLifecycle, TLC

CONSTANTS j1, j2, j3, j4, h1, h2, r1, r2, r3

Edge(p, c, m) == [parent |-> p, child |-> c, mode |-> m]
Resources(c, g, r) == [cores |-> c, gpus |-> g, runtime |-> r]

\* Jobs of one expansion are created in one transaction.
SameTime == [j \in Jobs |-> 0]

NoEdges   == {}
OneHost   == h1 :> 3
OneDocker == h1 :> "kubernetes"

\* Placement: two equal hosts, their runtimes apart, with three threads; two
\* jobs compete for the GPUs, and not every two fit into the cores of a host.
PairNeed    == (j1 :> Resources(2, 1, "docker")) @@ (j2 :> Resources(3, 0, "none"))
               @@ (j3 :> Resources(1, 1, "none"))
EqualHosts  == (h1 :> 4) @@ (h2 :> 4)
EqualGpu    == (h1 :> 1) @@ (h2 :> 1)
PairRuntime == (h1 :> "apptainer") @@ (h2 :> "docker")
Threads == (r1 :> h1) @@ (r2 :> h1) @@ (r3 :> h2)

\* Dependencies: after j1 either j2 or j3 runs, and j4 joins them.
Branches  == {Edge(j1, j2, "on_success"), Edge(j1, j3, "on_failure"),
              Edge(j2, j4, "on_completion"), Edge(j3, j4, "on_completion")}
Chain     == {Edge(j1, j2, "on_success"), Edge(j2, j3, "on_success")}
UnitNeed  == [j \in Jobs |-> Resources(1, 0, "none")]
OneRunner == r1 :> h1
NoGpu     == [h \in Hosts |-> 0]
=============================================================================
