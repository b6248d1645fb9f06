------------------------------- MODULE Registry -------------------------------
(***************************************************************************)
(* internal/cluster/registry.go: the nodes the controller knows.  Every    *)
(* method holds r.mu throughout, so each is one action.                    *)
(*                                                                         *)
(* The heartbeat clock is abstracted to what ReapStale decides on: a node  *)
(* is late when now - LastHeartbeat exceeds the timeout.  Registering and  *)
(* Touch reset it; Expire is time passing without a beat.  Hostname and    *)
(* address are left out.  UpdateNode and MarkNodeOffline have no caller.   *)
(***************************************************************************)
EXTENDS Ids

VARIABLE nodes   \* r.nodes; status "absent" for an id the map does not hold

Unregistered == [status |-> "absent", total |-> 0, alloc |-> 0, job |-> NoJob, late |-> FALSE]

RegInit == nodes = [n \in Nodes |-> Unregistered]

Registered(n) == nodes[n].status # "absent"

\* A node that registers again starts afresh, its reservation forgotten.
MutRegisterNode(n, cpus) ==
  nodes' = [nodes EXCEPT ![n] = [Unregistered EXCEPT !.status = "online", !.total = cpus]]

\* A known node keeps its reservation, and its CPU count if none is announced.
RegisterNode(n, cpus) ==
  nodes' = [nodes EXCEPT ![n] =
              [status |-> "online",
               total  |-> IF cpus = 0 /\ Registered(n) THEN @.total ELSE cpus,
               alloc  |-> @.alloc,
               job    |-> @.job,
               late   |-> FALSE]]

Touch(n) ==
  /\ Registered(n)
  /\ nodes' = [nodes EXCEPT ![n].status = "online", ![n].late = FALSE]

\* The heartbeat timeout of n passes without a beat.
Expire(n) ==
  /\ Registered(n)
  /\ nodes' = [nodes EXCEPT ![n].late = TRUE]

\* The nodes ReapStale returns, and what it leaves behind.
Stale == {n \in Nodes : nodes[n].status = "online" /\ nodes[n].late}

ReapStale ==
  nodes' = [n \in Nodes |-> IF n \in Stale THEN [nodes[n] EXCEPT !.status = "offline"] ELSE nodes[n]]

\* The check ReserveNodes makes under its lock.
CanReserve(gang, cpus) ==
  \A n \in gang : /\ nodes[n].status = "online"
                  /\ nodes[n].job = NoJob
                  /\ nodes[n].total - nodes[n].alloc >= cpus

\* All nodes of the gang or none; CanReserve is false for an error return.
ReserveNodes(j, gang, cpus) ==
  /\ CanReserve(gang, cpus)
  /\ nodes' = [n \in Nodes |->
                 IF n \in gang THEN [nodes[n] EXCEPT !.alloc = @ + cpus, !.job = j]
                 ELSE nodes[n]]

\* Forgets CurrentJobID.
MutReleaseNodes(gang, cpus) ==
  nodes' = [n \in Nodes |->
              IF n \in gang /\ Registered(n)
                THEN [nodes[n] EXCEPT !.alloc = IF @ < cpus THEN 0 ELSE @ - cpus]
                ELSE nodes[n]]

\* Does not stop at zero.
MutReleaseNodesTwice(gang, cpus) ==
  nodes' = [n \in Nodes |->
              IF n \in gang /\ Registered(n)
                THEN [nodes[n] EXCEPT !.alloc = @ - cpus, !.job = NoJob]
                ELSE nodes[n]]

\* Takes no job id: the nodes are freed whichever job they hold by now.
ReleaseNodes(gang, cpus) ==
  nodes' = [n \in Nodes |->
              IF n \in gang /\ Registered(n)
                THEN [nodes[n] EXCEPT !.alloc = IF @ < cpus THEN 0 ELSE @ - cpus,
                                      !.job = NoJob]
                ELSE nodes[n]]

===============================================================================
