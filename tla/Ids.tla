---------------------------------- MODULE Ids ----------------------------------
(***************************************************************************)
(* Names every component shares.  Job ids "job-1", "job-2", ... are the    *)
(* numbers the controller's sequence hands out; node ids are numbers whose *)
(* order is the id order of Registry.ListNodes.                            *)
(***************************************************************************)
EXTENDS Integers, FiniteSets

CONSTANTS JobIds, Nodes

ASSUME JobIdsAssumption == JobIds \subseteq Nat \ {0}
ASSUME NodesAssumption  == Nodes \subseteq Nat \ {0} /\ IsFiniteSet(Nodes)

NoJob == 0      \* an empty job id
================================================================================
