------------------------------- MODULE Executor -------------------------------
(***************************************************************************)
(* internal/node/executor.go: the one job a node runs.  e.mu protects      *)
(* jobID and cancel, nothing else, so Run is a sequence of steps of the    *)
(* goroutine that handles the assignment, and Stop may fall between any    *)
(* two of them.                                                            *)
(*                                                                         *)
(* A task is that goroutine with the context Run makes and the process it  *)
(* starts.  The operating system is external: the process may exit at any  *)
(* time, and a process whose agent is gone runs on.  cpus, mergeEnv and    *)
(* error texts are left out, and so is the empty command, which the        *)
(* controller has turned away (Spec.Validate).                             *)
(***************************************************************************)
EXTENDS Ids

CONSTANTS
  Limited,    \* jobs submitted with a max_duration
  Exits       \* how programs end by themselves

ASSUME ExecutorAssumption ==
  /\ Limited \subseteq JobIds
  /\ Exits \subseteq {"exit0", "exit1"}

VARIABLES
  slot,     \* e.jobID; e.cancel cancels the context of that job's task
  task      \* per node and job, the goroutine of its assignment

execVars == <<slot, task>>

NoTask == [pc |-> "none", ctx |-> "live", proc |-> "none", event |-> "none"]

ExecInit ==
  /\ slot = [n \in Nodes |-> NoJob]
  /\ task = [n \in Nodes |-> [j \in JobIds |-> NoTask]]

TaskAt(n, j, pc) == task[n][j].pc = pc

\* The result Run returns; the deferred clear comes first once the slot was taken.
Result(n, j, event, pc) == [task EXCEPT ![n][j].event = event, ![n][j].pc = pc]

-------------------------------------------------------------------------------
(* Run *)

\* Does not look whether the slot is taken.
MutRunBegin(n, j) ==
  /\ TaskAt(n, j, "received")
  /\ slot' = [slot EXCEPT ![n] = j] /\ task' = [task EXCEPT ![n][j].pc = "start"]

\* "node busy" while another job holds the slot.
RunBegin(n, j) ==
  /\ TaskAt(n, j, "received")
  /\ \/ /\ slot[n] = NoJob
        /\ slot' = [slot EXCEPT ![n] = j]
        /\ task' = [task EXCEPT ![n][j].pc = "start"]
     \/ /\ slot[n] # NoJob
        /\ task' = Result(n, j, "failed", "report")
        /\ UNCHANGED slot

\* cmd.Start, also when the context has been cancelled by then.
RunStart(n, j) ==
  /\ TaskAt(n, j, "start")
  /\ \/ task' = [task EXCEPT ![n][j].pc = "wait", ![n][j].proc = "alive"]
     \/ task' = Result(n, j, "failed", "clear")
  /\ UNCHANGED slot

\* select, case done: resultFromWait.
RunDone(n, j) ==
  /\ TaskAt(n, j, "wait")
  /\ \/ task[n][j].proc = "exit0" /\ task' = Result(n, j, "completed", "clear")
     \/ task[n][j].proc = "exit1" /\ task' = Result(n, j, "failed", "clear")
  /\ UNCHANGED slot

\* Waits for the process instead of killing it.
MutRunKill(n, j) ==
  /\ TaskAt(n, j, "wait")
  /\ task[n][j].ctx # "live"
  /\ task[n][j].proc # "alive"
  /\ task' = Result(n, j, IF task[n][j].ctx = "expired" THEN "failed" ELSE "cancelled", "clear")
  /\ UNCHANGED slot

\* Kills and waits, and leaves the result empty.
MutRunKillEmpty(n, j) ==
  /\ TaskAt(n, j, "wait")
  /\ task[n][j].ctx # "live"
  /\ task' = [task EXCEPT ![n][j].pc = "clear",
                          ![n][j].proc = IF @ = "alive" THEN "killed" ELSE @]
  /\ UNCHANGED slot

\* select, case ctx.Done: SIGKILL and wait.  The process may have ended by then,
\* and select may take this case all the same.
RunKill(n, j) ==
  /\ TaskAt(n, j, "wait")
  /\ task[n][j].ctx # "live"
  /\ task' = [Result(n, j, IF task[n][j].ctx = "expired" THEN "failed" ELSE "cancelled", "clear")
                EXCEPT ![n][j].proc = IF @ = "alive" THEN "killed" ELSE @]
  /\ UNCHANGED slot

clear(n, j) ==
  /\ TaskAt(n, j, "clear")
  /\ slot' = [slot EXCEPT ![n] = IF @ = j THEN NoJob ELSE @]
  /\ task' = [task EXCEPT ![n][j].pc = "report"]

RunStep(n, j) ==
  RunBegin(n, j) \/ RunStart(n, j) \/ RunDone(n, j) \/ RunKill(n, j) \/ clear(n, j)

-------------------------------------------------------------------------------
(* What ends a context or a process from outside *)

Cancelled(t) == [t EXCEPT !.ctx = IF @ = "live" THEN "cancelled" ELSE @]

\* Stops whatever runs, also for the cancel of another job.
MutStop(n, j) ==
  IF slot[n] = NoJob THEN task ELSE [task EXCEPT ![n][slot[n]] = Cancelled(@)]

\* The tasks after Stop(j); an empty id stops any job.
Stop(n, j) ==
  IF slot[n] # NoJob /\ j \in {NoJob, slot[n]}
    THEN [task EXCEPT ![n][slot[n]] = Cancelled(@)]
    ELSE task

\* context.WithTimeout: the first reason to end a context is the one it keeps.
Overrun(n, j) ==
  /\ j \in Limited
  /\ task[n][j].pc \in {"start", "wait"}
  /\ task[n][j].ctx = "live"
  /\ task' = [task EXCEPT ![n][j].ctx = "expired"]
  /\ UNCHANGED slot

\* The process ends by itself.  When one without an agent does is of no account.
ProcExit(n, j) ==
  /\ TaskAt(n, j, "wait")
  /\ task[n][j].proc = "alive"
  /\ \E status \in Exits : task' = [task EXCEPT ![n][j].proc = status]
  /\ UNCHANGED slot
===============================================================================
