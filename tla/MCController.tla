------------------------------ MODULE MCController ------------------------------
(* Small instances of Controller; the cfg files choose among these constants.  *)
EXTENDS Controller

\* No handler reads the hub's queues and cancel entries back in these runs, so
\* states that differ only there are the same state to them.
WithoutMail == <<jmVars, nodes, schedVars, idSeq, th, dead>>

\* A cluster whose nodes have all registered, the scheduler waiting for work.
UpInit ==
  /\ JMInit /\ HubInit
  /\ nodes = [n \in Nodes |-> [Unregistered EXCEPT !.status = "online", !.total = CPUs[n]]]
  /\ sched = [SchedIdle EXCEPT !.pc = "wait"]
  /\ kick = FALSE
  /\ idSeq = 0
  /\ th = [t \in Threads |-> Idle]
  /\ dead = {}

UpSpec     == UpInit /\ [][Next]_vars
UpFairSpec == UpSpec /\ Fairness

TwoCPUs  == [n \in Nodes |-> 2]
NoCPUs   == [n \in Nodes |-> 0]       \* what an agent may announce; 1 is taken

Pairs    == {[nodes |-> 2, cpus |-> 1], [nodes |-> 2, cpus |-> 0]}
================================================================================
