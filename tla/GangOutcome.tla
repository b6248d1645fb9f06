------------------------------ MODULE GangOutcome ------------------------------
(***************************************************************************)
(* What the job manager promises about a gang job, without its tables: a   *)
(* job waits, starts on a non-empty gang, and then either completes at the *)
(* moment the LAST node that still owed a report delivers a success, with  *)
(* the worst exit code delivered, or is aborted (failed or cancelled) at   *)
(* any moment before.  Nothing happens to a job after that.                *)
(***************************************************************************)
EXTENDS Integers

CONSTANTS JobIds, Nodes, ExitCodes

VARIABLES
  phase,   \* where each job is
  owed,    \* nodes of a running job whose success is still awaited
  worst    \* largest exit code delivered so far (0 at least); final once ended

goVars == <<phase, owed, worst>>

GOInit ==
  /\ phase = [j \in JobIds |-> "absent"]
  /\ owed  = [j \in JobIds |-> {}]
  /\ worst = [j \in JobIds |-> 0]

Move(j, from, to) == phase[j] = from /\ phase' = [phase EXCEPT ![j] = to]

Enqueue(j) == Move(j, "absent", "pending") /\ UNCHANGED <<owed, worst>>

Withdraw(j) == Move(j, "pending", "cancelled") /\ UNCHANGED <<owed, worst>>

Start(j) ==
  /\ Move(j, "pending", "running")
  /\ \E gang \in (SUBSET Nodes) \ {{}} : owed' = [owed EXCEPT ![j] = gang]
  /\ UNCHANGED worst

\* Node n of the gang delivers its success; the last one completes the job.
Deliver(j, n, exit) ==
  /\ phase[j] = "running"
  /\ n \in owed[j]
  /\ owed'  = [owed EXCEPT ![j] = @ \ {n}]
  /\ worst' = [worst EXCEPT ![j] = IF exit > @ THEN exit ELSE @]
  /\ phase' = [phase EXCEPT ![j] = IF owed[j] = {n} THEN "completed" ELSE @]

\* A node failed with its exit code, a node was lost (exit code 1), or a client
\* cancelled the job (exit code 0).
Abort(j) ==
  /\ \E to \in {"failed", "cancelled"} : Move(j, "running", to)
  /\ owed' = [owed EXCEPT ![j] = {}]
  /\ \E exit \in ExitCodes \cup {0, 1} : worst' = [worst EXCEPT ![j] = exit]

GONext ==
  \E j \in JobIds :
    \/ Enqueue(j) \/ Withdraw(j) \/ Start(j) \/ Abort(j)
    \/ \E n \in Nodes, exit \in ExitCodes : Deliver(j, n, exit)

GOSpec == GOInit /\ [][GONext]_goVars
================================================================================
