------------------------------ MODULE Controller ------------------------------
(***************************************************************************)
(* The controller process: the RPC handlers of internal/controller/        *)
(* server.go, the heartbeat monitor and its reaper (internal/cluster/      *)
(* heartbeat.go, reaper.go, and Failer in hub.go), and the scheduler.      *)
(*                                                                         *)
(* gRPC runs every RPC in a goroutine of its own.  A handler holds no lock *)
(* of its own: it calls the job manager, the registry and the hub one      *)
(* after the other, and each call is an action here.  A thread             *)
(* <<op, n, j>> is one handler call:                                       *)
(*   <<"submit", 0, j>>   SubmitJob that is given the id j                 *)
(*   <<"cancel", 0, j>>   CancelJob of j                                   *)
(*   <<"report", n, j>>   the final ReportJobStatus of node n for job j    *)
(*   <<"register", n, 0>> RegisterNode of n                                *)
(*   <<"monitor", 0, 0>>  the monitor goroutine                            *)
(* Agents and clients are the environment, bounded by constants: an agent  *)
(* sends one final report per assignment (agent.go has no retry) once the  *)
(* scheduler has dispatched it.  WatchWork is in module Hub; here every    *)
(* node's mail goes through its queue.  ListJobs, ListNodes and the STARTED *)
(* report change nothing.                                                  *)
(***************************************************************************)
EXTENDS Scheduler

CONSTANTS
  CPUs,         \* total_cpus each agent announces
  Cancellable,  \* jobs a client may cancel
  Events,       \* final events agents may report
  Silent,       \* nodes whose heartbeats may stop, and come back
  Restarting    \* nodes that may register again

ASSUME ControllerAssumption ==
  /\ CPUs \in [Nodes -> Int]
  /\ Cancellable \subseteq JobIds
  /\ Events \subseteq {"completed", "failed", "cancelled"}
  /\ Silent \subseteq Nodes
  /\ Restarting \subseteq Nodes
  /\ {0, 1} \subseteq ExitCodes

VARIABLES
  idSeq,      \* s.idSeq
  th,         \* where each handler call is, and its locals
  dead        \* what the monitor still has to handle of ReapStale's answer

vars == <<jmVars, nodes, hubVars, schedVars, idSeq, th, dead>>

Monitor == <<"monitor", 0, 0>>
Threads == ({"submit", "cancel"} \X {0} \X JobIds) \cup ({"report"} \X Nodes \X JobIds)
             \cup ({"register"} \X Nodes \X {0}) \cup {Monitor}

\* fresh: before was not terminal.  job, gang and cpus: what the call works on.
Idle == [pc |-> "idle", event |-> "none", fresh |-> FALSE,
         job |-> NoJob, gang |-> {}, cpus |-> 0, todo |-> {}]

Init ==
  /\ JMInit /\ RegInit /\ HubInit /\ SchedInit
  /\ idSeq = 0
  /\ th = [t \in Threads |-> Idle]
  /\ dead = {}

At(t, pc)   == th[t].pc = pc
Goto(t, pc) == th' = [th EXCEPT ![t].pc = pc]

\* The call needs its locals no more.  CancelJob's snapshot is kept for the
\* properties.
Over(t, pc) ==
  th' = [th EXCEPT ![t] = [Idle EXCEPT !.pc = pc,
                                       !.gang = IF t[1] = "cancel" THEN th[t].gang ELSE {}]]

Done(t) == Over(t, "done")

-------------------------------------------------------------------------------
(* RegisterNode, SubmitJob *)

Register(n) ==
  LET t == <<"register", n, 0>> IN
  /\ At(t, "idle")
  /\ ~Registered(n) \/ n \in Restarting
  /\ RegisterNode(n, IF CPUs[n] < 1 THEN 1 ELSE CPUs[n])
  /\ Goto(t, "kick")
  /\ UNCHANGED <<jmVars, hubVars, schedVars, idSeq, dead>>

\* The spec is valid by now; an invalid one was turned away before.
SubmitDraw(j) ==
  /\ j = idSeq + 1
  /\ idSeq' = j
  /\ Goto(<<"submit", 0, j>>, "submit")
  /\ UNCHANGED <<jmVars, nodes, hubVars, schedVars, dead>>

SubmitStore(j) ==
  LET t == <<"submit", 0, j>> IN
  /\ At(t, "submit")
  /\ \E spec \in Specs : Validate(spec) /\ Submit(j, spec)
  /\ Goto(t, "kick")
  /\ UNCHANGED <<nodes, hubVars, schedVars, idSeq, dead>>

-------------------------------------------------------------------------------
(* CancelJob: the snapshot it releases and notifies is taken before Cancel. *)

CancelGet(j) ==
  LET t == <<"cancel", 0, j>> IN
  /\ At(t, "idle")
  /\ j \in Cancellable
  /\ jobs[j].status # "absent"
  /\ th' = [th EXCEPT ![t] = [@ EXCEPT !.pc = "cancel", !.job = j, !.gang = jobs[j].assigned,
                                       !.cpus = jobs[j].spec.cpus, !.todo = jobs[j].assigned]]
  /\ UNCHANGED <<jmVars, nodes, hubVars, schedVars, idSeq, dead>>

\* Marks the job cancelled and leaves it on the queue.
MutCancelApply(j) ==
  LET t == <<"cancel", 0, j>> IN
  /\ At(t, "cancel")
  /\ CanTransition(jobs[j].status, "cancelled")
  /\ jobs' = [jobs EXCEPT ![j].status = "cancelled"]
  /\ IF jobs[j].status = "running" THEN Goto(t, "release") ELSE Done(t)
  /\ UNCHANGED <<pending, reports, nodes, hubVars, schedVars, idSeq, dead>>

CancelApply(j) ==
  LET t == <<"cancel", 0, j>> IN
  /\ At(t, "cancel")
  /\ \/ Cancel(j) /\ (IF jobs[j].status = "running" THEN Goto(t, "release") ELSE Done(t))
     \/ ~CanTransition(jobs[j].status, "cancelled") /\ Done(t) /\ UNCHANGED jmVars
  /\ UNCHANGED <<nodes, hubVars, schedVars, idSeq, dead>>

-------------------------------------------------------------------------------
(* ReportJobStatus *)

\* Acknowledges a failure like a cancel, and records nothing.
MutReportGet(n, j) ==
  LET t == <<"report", n, j>> IN
  /\ At(t, "idle")
  /\ n \in jobs[j].assigned /\ Dispatched(n, j)
  /\ \E event \in Events :
       th' = [th EXCEPT ![t] = [@ EXCEPT !.pc = IF event # "completed" THEN "ack" ELSE "report",
                                         !.event = event, !.job = j,
                                         !.fresh = ~Terminal(jobs[j].status)]]
  /\ UNCHANGED <<jmVars, nodes, hubVars, schedVars, idSeq, dead>>

ReportGet(n, j) ==
  LET t == <<"report", n, j>> IN
  /\ At(t, "idle")
  /\ n \in jobs[j].assigned /\ Dispatched(n, j)
  /\ \E event \in Events :
       th' = [th EXCEPT ![t] = [@ EXCEPT !.pc = IF event = "cancelled" THEN "ack" ELSE "report",
                                         !.event = event, !.job = j,
                                         !.fresh = ~Terminal(jobs[j].status)]]
  /\ UNCHANGED <<jmVars, nodes, hubVars, schedVars, idSeq, dead>>

\* Takes every report for a success.
MutReportApply(n, j) ==
  LET t == <<"report", n, j>> IN
  /\ At(t, "report")
  /\ ReportNodeEvent(j, n, FALSE, 0)
  /\ th' = [th EXCEPT ![t] = [@ EXCEPT !.pc = "clear", !.event = "none"]]
  /\ UNCHANGED <<nodes, hubVars, schedVars, idSeq, dead>>

ReportApply(n, j) ==
  LET t == <<"report", n, j>>
      failed == th[t].event = "failed" IN
  /\ At(t, "report")
  /\ ReportNodeEvent(j, n, failed, IF failed THEN 1 ELSE 0)
  /\ th' = [th EXCEPT ![t] = [@ EXCEPT !.pc = "clear", !.event = "none"]]
  /\ UNCHANGED <<nodes, hubVars, schedVars, idSeq, dead>>

ReportClear(n, j) ==
  LET t == <<"report", n, j>> IN
  /\ ClearCancel(n, j)
  /\ \/ At(t, "clear") /\ Goto(t, "after")
     \/ At(t, "ack") /\ Done(t)
  /\ UNCHANGED <<jmVars, nodes, schedVars, idSeq, dead>>

\* Releases only when the job failed.
MutReportAfter(n, j) ==
  LET t == <<"report", n, j>> IN
  /\ At(t, "after")
  /\ IF jobs[j].status = "failed" /\ th[t].fresh
       THEN th' = [th EXCEPT ![t] = [@ EXCEPT !.pc = "release", !.gang = jobs[j].assigned,
                                              !.cpus = jobs[j].spec.cpus,
                                              !.todo = jobs[j].assigned \ {n}]]
       ELSE Done(t)
  /\ UNCHANGED <<jmVars, nodes, hubVars, schedVars, idSeq, dead>>

\* The report that finds the job ended, having found it not ended before, frees
\* the gang and, after a failure, stops the other nodes.
ReportAfter(n, j) ==
  LET t == <<"report", n, j>> IN
  /\ At(t, "after")
  /\ IF Terminal(jobs[j].status) /\ th[t].fresh
       THEN th' = [th EXCEPT ![t] = [@ EXCEPT !.pc = "release", !.gang = jobs[j].assigned,
                                              !.cpus = jobs[j].spec.cpus,
                                              !.todo = IF jobs[j].status = "failed"
                                                         THEN jobs[j].assigned \ {n} ELSE {}]]
       ELSE Done(t)
  /\ UNCHANGED <<jmVars, nodes, hubVars, schedVars, idSeq, dead>>

-------------------------------------------------------------------------------
(* The monitor *)

\* A beat taken from the heartbeat channel; the goroutine is busy while it reaps.
MonTouch(n) ==
  /\ At(Monitor, "idle")
  /\ n \in Silent
  /\ Touch(n)
  /\ UNCHANGED <<jmVars, hubVars, schedVars, idSeq, th, dead>>

Silence(n) ==
  /\ n \in Silent
  /\ Expire(n)
  /\ UNCHANGED <<jmVars, hubVars, schedVars, idSeq, th, dead>>

MonReap ==
  /\ At(Monitor, "idle")
  /\ Stale # {}
  /\ ReapStale
  /\ dead' = {[id |-> n, job |-> nodes[n].job, alloc |-> nodes[n].alloc] :
                n \in {m \in Stale : nodes[m].job # NoJob}}
  /\ Goto(Monitor, IF dead' = {} THEN "idle" ELSE "handle")
  /\ UNCHANGED <<jmVars, hubVars, schedVars, idSeq>>

\* A lost node whose job is not running keeps its reservation.
MutMonHandle ==
  /\ At(Monitor, "handle")
  /\ \E d \in dead :
       /\ dead' = {e \in dead : e.job # d.job}
       /\ \/ /\ FailRunningJob(d.job)
             /\ th' = [th EXCEPT ![Monitor] = [@ EXCEPT !.pc = "notify", !.job = d.job,
                         !.gang = jobs[d.job].assigned, !.cpus = jobs[d.job].spec.cpus,
                         !.todo = jobs[d.job].assigned]]
          \/ /\ jobs[d.job].status # "running"
             /\ Goto(Monitor, IF dead' = {} THEN "idle" ELSE "handle")
             /\ UNCHANGED jmVars
  /\ UNCHANGED <<nodes, hubVars, schedVars, idSeq>>

\* handleDeadNodes, one job per round, in map order.  A running job fails and is
\* notified and released as a whole; otherwise this one node is released.
MonHandle ==
  /\ At(Monitor, "handle")
  /\ \E d \in dead :
       /\ dead' = {e \in dead : e.job # d.job}
       /\ \/ /\ FailRunningJob(d.job)
             /\ th' = [th EXCEPT ![Monitor] = [@ EXCEPT !.pc = "notify", !.job = d.job,
                         !.gang = jobs[d.job].assigned, !.cpus = jobs[d.job].spec.cpus,
                         !.todo = jobs[d.job].assigned]]
          \/ /\ jobs[d.job].status # "running"
             /\ th' = [th EXCEPT ![Monitor] = [@ EXCEPT !.pc = "release", !.job = d.job,
                         !.gang = {d.id}, !.cpus = d.alloc, !.todo = {}]]
             /\ UNCHANGED jmVars
  /\ UNCHANGED <<nodes, hubVars, schedVars, idSeq>>

-------------------------------------------------------------------------------
(* The tails the calls share: ReleaseNodes, NotifyCancel, kick.  A handler     *)
(* releases, then notifies, then kicks; the monitor notifies, then releases,   *)
(* and does not kick.                                                          *)

Release(t) ==
  /\ At(t, "release")
  /\ ReleaseNodes(th[t].gang, th[t].cpus)
  /\ \/ t = Monitor /\ Over(t, IF dead = {} THEN "idle" ELSE "handle")
     \/ t # Monitor /\ th[t].todo = {} /\ Over(t, "kick")
     \/ t # Monitor /\ th[t].todo # {} /\ Goto(t, "notify")
  /\ UNCHANGED <<jmVars, hubVars, schedVars, idSeq, dead>>

NotifySet(t) ==
  /\ At(t, "notify")
  /\ SetCancel(Min(th[t].todo), th[t].job)
  /\ Goto(t, "tell")
  /\ UNCHANGED <<jmVars, nodes, schedVars, idSeq, dead>>

NotifySend(t) ==
  /\ At(t, "tell")
  /\ LET n == Min(th[t].todo)
     IN  /\ send(n, CancelWork(th[t].job))
         /\ IF th[t].todo # {n}
              THEN th' = [th EXCEPT ![t] = [@ EXCEPT !.pc = "notify", !.todo = th[t].todo \ {n}]]
              ELSE IF t = Monitor
                THEN th' = [th EXCEPT ![t] = [@ EXCEPT !.pc = "release", !.todo = {}]]
                ELSE Over(t, "kick")
  /\ UNCHANGED <<jmVars, nodes, schedVars, idSeq, dead>>

\* A registration may be repeated; every other call is over.
KickStep(t) ==
  /\ At(t, "kick")
  /\ Kick
  /\ IF t[1] = "register" THEN th' = [th EXCEPT ![t] = Idle] ELSE Done(t)
  /\ UNCHANGED <<jmVars, nodes, hubVars, sched, idSeq, dead>>

-------------------------------------------------------------------------------
SchedulerNext == (SchedStep \/ SchedTick) /\ UNCHANGED <<idSeq, th, dead>>

ThreadStep(t) == Release(t) \/ NotifySet(t) \/ NotifySend(t) \/ KickStep(t)

Next ==
  \/ \E n \in Nodes : Register(n) \/ MonTouch(n) \/ Silence(n)
  \/ \E j \in JobIds : SubmitDraw(j) \/ SubmitStore(j) \/ CancelGet(j) \/ CancelApply(j)
  \/ \E n \in Nodes, j \in JobIds :
       ReportGet(n, j) \/ ReportApply(n, j) \/ ReportClear(n, j) \/ ReportAfter(n, j)
  \/ MonReap \/ MonHandle
  \/ \E t \in Threads : ThreadStep(t)
  \/ SchedulerNext

Spec == Init /\ [][Next]_vars

\* Goroutines that can run do run; agents that have been given work end it and
\* report; nodes register.  The scheduler's ticker is not assumed to help.
Fairness ==
  /\ \A t \in Threads : WF_vars(ThreadStep(t))
  /\ \A j \in JobIds : WF_vars(SubmitStore(j)) /\ WF_vars(CancelApply(j))
  /\ \A n \in Nodes, j \in JobIds :
       WF_vars(ReportGet(n, j) \/ ReportApply(n, j) \/ ReportClear(n, j) \/ ReportAfter(n, j))
  /\ \A n \in Nodes : WF_vars(~Registered(n) /\ Register(n))
  /\ WF_vars(SchedStep /\ UNCHANGED <<idSeq, th, dead>>)

FairSpec == Spec /\ Fairness

-------------------------------------------------------------------------------
(* Properties *)

NodeRecords == [status : {"absent", "online", "offline"}, total : Nat, alloc : Nat,
                job : JobIds \cup {NoJob}, late : BOOLEAN]

SchedRecords == [pc : {"try", "select", "reserve", "mark", "undo", "dispatch", "send", "exit", "wait"},
                 job : JobIds \cup {NoJob}, spec : Specs \cup {NoSpec},
                 gang : SUBSET Nodes, todo : SUBSET Nodes]

ThreadRecords == [pc : {"idle", "submit", "cancel", "report", "ack", "clear", "after",
                        "handle", "release", "notify", "tell", "kick", "done"},
                  event : Events \cup {"none"}, fresh : BOOLEAN, job : JobIds \cup {NoJob},
                  gang : SUBSET Nodes, cpus : Int, todo : SUBSET Nodes]

\* Type invariant of the controller.  That AllocatedCPUs is a natural number is
\* the clamp of ReleaseNodes at work: the same gang may be released twice.
TypeOK ==
  /\ JMTypeOK /\ HubTypeOK
  /\ nodes \in [Nodes -> NodeRecords]
  /\ sched \in SchedRecords
  /\ kick \in BOOLEAN
  /\ idSeq \in Nat
  /\ th \in [Threads -> ThreadRecords]
  /\ dead \subseteq [id : Nodes, job : JobIds, alloc : Nat]

\* A handler still going to release node n, which job j held.
WillRelease(t, n, j) ==
  /\ th[t].job = j
  /\ \/ th[t].pc = "release" /\ n \in th[t].gang
     \/ t = Monitor /\ th[t].pc \in {"notify", "tell"} /\ n \in th[t].gang
     \/ /\ t[1] = "report" /\ th[t].fresh
        /\ th[t].pc \in {"report", "clear", "after"}
        /\ n \in jobs[j].assigned

\* CancelJob of j read the job before the scheduler started it and cancelled it
\* afterwards: it had no assignment to release.
StaleCancel(j) ==
  /\ jobs[j].status = "cancelled"
  /\ jobs[j].assigned # {}
  /\ th[<<"cancel", 0, j>>].gang = {}

\* The scheduler has reserved n for j and not yet started j.
Placing(n, j) == sched.job = j /\ sched.pc \in {"mark", "undo"} /\ n \in sched.gang

Holds(n, j) ==
  \/ Placing(n, j)
  \/ jobs[j].status = "running" /\ n \in jobs[j].assigned
  \/ \E t \in Threads : WillRelease(t, n, j)
  \/ StaleCancel(j) /\ n \in jobs[j].assigned

\* The CPUs the jobs that hold n asked for.
Claims(n) == UNION {{j} \X (1..jobs[j].spec.cpus) : j \in {k \in JobIds : Holds(n, k)}}

\* No reservation is orphaned: whatever interleaving of submissions, cancels,
\* reports and node losses, a node marked with a job, and every CPU accounted
\* for on it, is backed by a job that is being placed or running there, or by a
\* call in flight that will release it.  The one exception is StaleCancel.
ReservationHasOwner ==
  \A n \in Nodes :
    /\ nodes[n].job # NoJob => Holds(n, nodes[n].job)
    /\ nodes[n].alloc <= Cardinality(Claims(n))

\* All or none: a job that was started was given exactly the number of nodes it
\* asked for, whatever happened between the scheduler's look at the nodes, the
\* reservation and the start.
GangIsComplete ==
  \A j \in JobIds :
    jobs[j].assigned # {} => Cardinality(jobs[j].assigned) = jobs[j].spec.nodes

\* After the monitor has dealt with a lost node the node is reserved for nobody,
\* so it is free when it comes back.
LostNodeIsFree ==
  At(Monitor, "idle") => \A n \in Nodes : nodes[n].status = "offline" => nodes[n].job = NoJob

\* The registry agrees with the job table: each node of a running job is marked
\* with that job.  True of single-node jobs that nobody cancels and whose nodes are
\* not lost, also when agents register again (a gang may be released twice, see
\* NodesNotShared).
RunningHoldsGang ==
  \A j \in JobIds : jobs[j].status = "running" =>
    \A n \in jobs[j].assigned : nodes[n].job = j

\* Without cancels and node losses the scheduler never sleeps through work: when
\* it waits with no kick pending and no call in flight that will kick it, the job
\* at the head of the queue cannot be placed.
NoLostWakeup ==
  /\ sched.pc = "wait" /\ ~kick
  /\ \A t \in Threads : th[t].pc \in {"idle", "done"}
  /\ HasPending
  => SelectGang(jobs[PeekPending].spec) = {}

\* The whole controller uses the job manager the way JobManager assumes, so what
\* is proved there holds here.
UsesManagerRight == JMSpec

\* Every job accepted into the queue ends, driven by kicks alone, when it fits the
\* cluster, no node is lost and nothing is cancelled.
JobsEnd == \A j \in JobIds : jobs[j].status = "pending" ~> Terminal(jobs[j].status)

-------------------------------------------------------------------------------
(* What the repository's documentation says and the code does not keep.        *)

\* README.md: "The controller waits until all nodes are free, assigns them
\* together", so two running jobs never share a node.
NodesNotShared ==
  \A j, k \in JobIds :
    j # k /\ jobs[j].status = "running" /\ jobs[k].status = "running"
      => jobs[j].assigned \cap jobs[k].assigned = {}

\* resources.go: "Release resources when a job completes, fails, or is cancelled":
\* once CancelJob has returned, no node is reserved for the job, but for the
\* moment the scheduler takes to give back a reservation it just made.
CancelReleases ==
  \A j \in JobIds :
    jobs[j].status = "cancelled" /\ At(<<"cancel", 0, j>>, "done")
      => \A n \in Nodes : nodes[n].job = j => Placing(n, j)

\* heartbeat.go: "JobFailure fails a running job when a node is lost": when the
\* monitor is done with a lost node, no job runs on it.
LostNodeFailsJob ==
  At(Monitor, "idle") =>
    \A n \in Nodes, j \in JobIds :
      nodes[n].status = "offline" /\ jobs[j].status = "running" => n \notin jobs[j].assigned
===============================================================================
