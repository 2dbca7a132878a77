----------------------------- MODULE Placement -----------------------------
(***************************************************************************)
(* The pure placement rules of the dispatcher                              *)
(* (apps/dispatcher/src/domain/dispatch.py and enums.py), on one scalar    *)
(* resource that stands for cores, RAM and disk (each is compared and      *)
(* summed in the same way) and on the GPU indices of a host.               *)
(***************************************************************************)
EXTENDS Integers, FiniteSets

Runtime == {"none", "docker", "apptainer", "kubernetes"}

\* runtime_satisfies: a script that needs nothing runs anywhere, an OCI
\* image also runs on Kubernetes, any other runtime only on its equal.
RuntimeSatisfies(host, need) ==
  CASE need = "none"   -> TRUE
    [] need = "docker" -> host \in {"docker", "kubernetes"}
    [] OTHER           -> host = need

\* gpu_free[:n]: the n lowest of a set of free indices.
LowestGpus(free, n) ==
  {g \in free : Cardinality({x \in free : x < g}) < n}

(***************************************************************************)
(* _fits: a host that is up, has the runtime, and has enough of the scalar *)
(* resource and enough GPUs left.  A job with gpus = 0 is one that         *)
(* requires no GPU.                                                        *)
(***************************************************************************)
Fits(hostStatus, hostRuntime, left, gpuFree, need) ==
  /\ hostStatus = "up"
  /\ RuntimeSatisfies(hostRuntime, need.runtime)
  /\ left >= need.cores
  /\ need.gpus > 0 => Cardinality(gpuFree) >= need.gpus
=============================================================================
