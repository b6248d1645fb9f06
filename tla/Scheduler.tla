------------------------------- MODULE Scheduler -------------------------------
(***************************************************************************)
(* internal/scheduler: the scheduler goroutine.  s.mu only keeps           *)
(* trySchedule from running twice at once; the job manager, the registry   *)
(* and the hub are each locked call by call, so every call trySchedule     *)
(* makes is an action of its own, and RPC handlers and the monitor run     *)
(* between any two of them.                                                *)
(*                                                                         *)
(* Dispatch returns an error for an empty node id only, and registered ids *)
(* are not empty, so the error path of dispatchWork is not reached and the *)
(* actions leave it out.  The work payload (args, env, rank) is left out.  *)
(***************************************************************************)
EXTENDS JobManager, Registry, Hub

VARIABLES
  sched,      \* where trySchedule is, and its locals
  kick        \* the one-slot kick channel holds a token

schedVars == <<sched, kick>>

SchedIdle == [pc |-> "try", job |-> NoJob, spec |-> NoSpec, gang |-> {}, todo |-> {}]

SchedInit == sched = SchedIdle /\ kick = FALSE

\* A channel without a slot: the kick is dropped unless Run is waiting for it.
MutKick == kick' = (kick \/ sched.pc = "wait")

\* Kick: a full channel already promises a wake-up.
Kick == kick' = TRUE

-------------------------------------------------------------------------------
(* resources.go *)

FreeCPUs(n) == IF nodes[n].total < nodes[n].alloc THEN 0 ELSE nodes[n].total - nodes[n].alloc

nodeFits(n, cpus) == nodes[n].status = "online" /\ nodes[n].job = NoJob /\ FreeCPUs(n) >= cpus

\* Stops one node short.
MutSelectGang(spec) ==
  LET fits == {n \in Nodes : nodeFits(n, spec.cpus)}
  IN  {gang \in SUBSET fits :
         /\ gang # {} /\ Cardinality(gang) >= spec.nodes - 1 /\ Cardinality(gang) <= spec.nodes
         /\ \A a \in gang, b \in fits \ gang : a < b}

\* The first spec.nodes fitting nodes in id order, as a set of gangs that is empty
\* when there are not enough of them.
SelectGang(spec) ==
  LET fits == {n \in Nodes : nodeFits(n, spec.cpus)}
  IN  {gang \in SUBSET fits :
         /\ Validate(spec)
         /\ Cardinality(gang) = spec.nodes
         /\ \A a \in gang, b \in fits \ gang : a < b}

-------------------------------------------------------------------------------
(* trySchedule *)

SchedPeek ==
  /\ sched.pc = "try"
  /\ sched' = IF HasPending
                THEN [SchedIdle EXCEPT !.pc = "select", !.job = PeekPending,
                                       !.spec = jobs[PeekPending].spec]
                ELSE [SchedIdle EXCEPT !.pc = "exit"]
  /\ UNCHANGED <<jmVars, nodes, hubVars, kick>>

SchedSelect ==
  /\ sched.pc = "select"
  /\ \/ \E gang \in SelectGang(sched.spec) :
          sched' = [sched EXCEPT !.pc = "reserve", !.gang = gang]
     \/ SelectGang(sched.spec) = {} /\ sched' = [SchedIdle EXCEPT !.pc = "exit"]
  /\ UNCHANGED <<jmVars, nodes, hubVars, kick>>

SchedReserve ==
  /\ sched.pc = "reserve"
  /\ \/ /\ ReserveNodes(sched.job, sched.gang, sched.spec.cpus)
        /\ sched' = [sched EXCEPT !.pc = "mark"]
     \/ /\ ~CanReserve(sched.gang, sched.spec.cpus)
        /\ sched' = [SchedIdle EXCEPT !.pc = "exit"]
        /\ UNCHANGED nodes
  /\ UNCHANGED <<jmVars, hubVars, kick>>

SchedMark ==
  /\ sched.pc = "mark"
  /\ \/ /\ MarkRunning(sched.job, sched.gang)
        /\ sched' = [sched EXCEPT !.pc = "dispatch", !.todo = sched.gang]
     \/ /\ ~CanTransition(jobs[sched.job].status, "running")
        /\ sched' = [sched EXCEPT !.pc = "undo"]
        /\ UNCHANGED jmVars
  /\ UNCHANGED <<nodes, hubVars, kick>>

\* Keeps the nodes of a job that can no longer start.
MutSchedUndo ==
  /\ sched.pc = "undo"
  /\ sched' = [SchedIdle EXCEPT !.pc = "exit"]
  /\ UNCHANGED <<jmVars, nodes, hubVars, kick>>

\* MarkRunning failed: give the nodes back.
SchedUndo ==
  /\ sched.pc = "undo"
  /\ ReleaseNodes(sched.gang, sched.spec.cpus)
  /\ sched' = [SchedIdle EXCEPT !.pc = "exit"]
  /\ UNCHANGED <<jmVars, hubVars, kick>>

\* dispatchWork: Hub.Dispatch in two steps, node by node in gang order.
SchedDropCancel ==
  /\ sched.pc = "dispatch"
  /\ DropCancel(Min(sched.todo))
  /\ sched' = [sched EXCEPT !.pc = "send"]
  /\ UNCHANGED <<jmVars, nodes, kick>>

SchedSend ==
  /\ sched.pc = "send"
  /\ LET n == Min(sched.todo)
     IN  /\ send(n, Assign(sched.job))
         /\ sched' = IF sched.todo = {n} THEN SchedIdle
                     ELSE [sched EXCEPT !.pc = "dispatch", !.todo = @ \ {n}]
  /\ UNCHANGED <<jmVars, nodes, kick>>

-------------------------------------------------------------------------------
(* Run: once trySchedule has returned false, wait for a kick or for the ticker. *)

SchedPark ==
  /\ sched.pc = "exit"
  /\ sched' = [SchedIdle EXCEPT !.pc = "wait"]
  /\ UNCHANGED <<jmVars, nodes, hubVars, kick>>

SchedWake ==
  /\ sched.pc = "wait"
  /\ kick
  /\ kick' = FALSE
  /\ sched' = SchedIdle
  /\ UNCHANGED <<jmVars, nodes, hubVars>>

SchedTick ==
  /\ sched.pc = "wait"
  /\ sched' = SchedIdle
  /\ UNCHANGED <<jmVars, nodes, hubVars, kick>>

SchedStep ==
  SchedPeek \/ SchedSelect \/ SchedReserve \/ SchedMark \/ SchedUndo
    \/ SchedDropCancel \/ SchedSend \/ SchedPark \/ SchedWake

\* n has been sent its assignment of job j, as far as the scheduler is concerned.
Dispatched(n, j) == ~(sched.job = j /\ n \in sched.todo)
===============================================================================
