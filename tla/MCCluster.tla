------------------------------- MODULE MCCluster -------------------------------
(* Small instances of Cluster. *)
EXTENDS Cluster

\* All agents are up and registered, the scheduler waits for work.
CUpInit ==
  /\ JMInit /\ HubInit /\ ExecInit
  /\ nodes = [n \in Nodes |-> [Unregistered EXCEPT !.status = "online", !.total = CPUs[n]]]
  /\ sched = [SchedIdle EXCEPT !.pc = "wait"]
  /\ kick = FALSE
  /\ idSeq = 0
  /\ th = [t \in Threads |-> Idle]
  /\ dead = {} /\ faults = 0 /\ lost = {}
  /\ life = [n \in Nodes |-> "up"]
  /\ starts = [n \in Nodes |-> 1]
  /\ on = [n \in Nodes |-> NoStream]
  /\ asked = [s \in Streams |-> Nobody]
  /\ beat = [n \in Nodes |-> NoBeat]

CUpSpec     == CUpInit /\ [][ClusterNext]_clusterVars
CUpFairSpec == CUpSpec /\ ClusterFairness

\* One stream is as good as another.
Symmetry == Permutations(Streams)

OneCPU  == [n \in Nodes |-> 1]
Singles == {[nodes |-> 1, cpus |-> 1]}
================================================================================
