------------------------------ MODULE QuietProofs ------------------------------
(***************************************************************************)
(* What holds of the controller where fewer things can happen at once.     *)
(* The properties proved here fail in general.  They were found to hold on *)
(* instances without cancels, with few losses or without gangs (the runs   *)
(* lost_gang and cluster); with that proved for any number of jobs and     *)
(* nodes, what goes wrong elsewhere has its cause in what is excluded      *)
(* here: two losses of one gang, cancels, node losses, gangs of several    *)
(* nodes.                                                                  *)
(*   1. LossesApart: a lost node is free                                   *)
(*   2. QuietCluster: no wakeup of the scheduler is lost                   *)
(*   3. and SingleNodeJobs: a running job has its nodes to itself          *)
(*   4. and then it ends by its own report, and free nodes are unused      *)
(***************************************************************************)
EXTENDS ControllerProofs

SingleNodeJobs == \A spec \in Specs : spec.nodes <= 1

\* At most one node can be lost, or no job has more than one.
LossesApart == (\A a, b \in Silent : a = b) \/ SingleNodeJobs

\* Nobody cancels a job and no node falls silent.
QuietCluster == Cancellable = {} /\ Silent = {}

\* All that these invariants speak of: the controller's state but for the hub.
tableVars == <<jmVars, nodes, schedVars, th, dead>>

LEMMA OneOfOne ==
  ASSUME NEW g \in SUBSET Nodes, Cardinality(g) <= 1, NEW n \in g, NEW m \in g
  PROVE  n = m
<1>1. IsFiniteSet(g)
  BY NodesAssumption, FS_Subset
<1>2. IsFiniteSet(g \ {n}) /\ Cardinality(g \ {n}) = Cardinality(g) - 1
  BY <1>1, FS_RemoveElement
<1>3. Cardinality(g \ {n}) = 0
  BY <1>1, <1>2, FS_CardinalityType
<1>4. g \ {n} = {}
  BY <1>2, <1>3, FS_EmptySet
<1> QED BY <1>4

-------------------------------------------------------------------------------
(* 1. Lost nodes *)

\* A node that is marked with a job is of the job's gang, or of the one about to be
\* given to it.
MarkedInGang ==
  \A n \in Nodes, j \in JobIds : nodes[n].job = j =>
    n \in jobs[j].assigned \/ Placing(n, j)

\* Where the monitor can be, and that between its rounds it has nothing in hand.
MonitorPlace ==
  /\ th[Monitor].pc \in {"idle", "handle"} \cup Ending
  /\ At(Monitor, "idle") => dead = {}

LateIsSilent == \A n \in Nodes : nodes[n].late => n \in Silent

\* No two nodes that are lost in one round had the same job.
DeadApart == \A d, e \in dead : d.job = e.job => d.id = e.id

\* A lost node that is still marked is in the monitor's hands.
LostInHand ==
  \A n \in Nodes : nodes[n].status = "offline" /\ nodes[n].job # NoJob =>
    \/ \E d \in dead : d.id = n /\ d.job = nodes[n].job
    \/ th[Monitor].pc \in Ending /\ n \in th[Monitor].gang

LostInv == MarkedInGang /\ MonitorPlace /\ LateIsSilent /\ DeadApart /\ LostInHand

-------------------------------------------------------------------------------
(* Steps of the handlers, of the monitor and of the scheduler *)

\* A step of an RPC handler or of the monitor.
HandlerMove ==
  \/ \E n \in Nodes : Register(n) \/ MonTouch(n) \/ Silence(n)
  \/ \E j \in JobIds : SubmitDraw(j) \/ SubmitStore(j) \/ CancelGet(j) \/ CancelApply(j)
  \/ \E n \in Nodes, j \in JobIds :
       ReportGet(n, j) \/ ReportApply(n, j) \/ ReportClear(n, j) \/ ReportAfter(n, j)
  \/ MonReap \/ MonHandle
  \/ \E t \in Threads : ThreadStep(t)

LEMMA NextSplits == Next => HandlerMove \/ SchedulerNext
BY DEF Next, HandlerMove

LEMMA MoveIsStep == CtrlInv /\ HandlerMove => HandlerStep /\ CtrlInv'
<1> SUFFICES ASSUME CtrlInv, HandlerMove PROVE HandlerStep
  BY HandlerKeeps
<1>1. ASSUME NEW n \in Nodes, Register(n) \/ MonTouch(n) \/ Silence(n) PROVE HandlerStep
  BY <1>1, RegisterStep, BeatSteps
<1>2. ASSUME NEW j \in JobIds, SubmitDraw(j) \/ SubmitStore(j) \/ CancelGet(j) \/ CancelApply(j)
      PROVE  HandlerStep
  BY <1>2, SubmitSteps, CancelSteps
<1>3. ASSUME NEW n \in Nodes, NEW j \in JobIds,
             ReportGet(n, j) \/ ReportApply(n, j) \/ ReportClear(n, j) \/ ReportAfter(n, j)
      PROVE  HandlerStep
  BY <1>3, ReportSteps, ReportAfterStep
<1>4. MonReap \/ MonHandle => HandlerStep
  BY ReapStep, HandleStep
<1> QED BY <1>1, <1>2, <1>3, <1>4, TailSteps DEF HandlerMove

\* What a handler's step can do to one node: free it, see it late, lose it.
LEMMA RegistryMoves ==
  ASSUME CtrlInv, HandlerMove, NEW m \in Nodes
  PROVE  /\ nodes'[m].job \in {nodes[m].job, NoJob}
         /\ nodes'[m].status = "offline" => nodes[m].status = "offline" \/ (MonReap /\ m \in Stale)
         /\ nodes'[m].late => nodes[m].late \/ m \in Silent
<1>1. nodes \in [Nodes -> NodeRecords]
  BY DEF CtrlInv, TypeOK
<1>2. CASE UNCHANGED nodes
  BY <1>2
<1>3. ASSUME NEW n \in Nodes, Register(n) \/ MonTouch(n) \/ Silence(n)
      PROVE  /\ nodes'[m].job = nodes[m].job
             /\ nodes'[m].status = "offline" => nodes[m].status = "offline"
             /\ nodes'[m].late => nodes[m].late \/ m \in Silent
  <2>1. CASE Register(n)
    BY <1>1, <2>1 DEF Register, RegisterNode, NodeRecords
  <2>2. CASE MonTouch(n)
    BY <1>1, <2>2 DEF MonTouch, Touch, NodeRecords
  <2>3. CASE Silence(n)
    BY <1>1, <2>3 DEF Silence, Expire, NodeRecords
  <2> QED BY <1>3, <2>1, <2>2, <2>3
<1>4. CASE MonReap
  BY <1>1, <1>4 DEF MonReap, ReapStale, NodeRecords
<1>5. ASSUME NEW t \in Threads, Release(t)
      PROVE  /\ nodes'[m].job \in {nodes[m].job, NoJob}
             /\ nodes'[m].status = nodes[m].status /\ nodes'[m].late = nodes[m].late
  BY <1>1, <1>5 DEF Release, ReleaseNodes, NodeRecords
<1> QED BY <1>2, <1>3, <1>4, <1>5
        DEF HandlerMove, SubmitDraw, SubmitStore, CancelGet, CancelApply, ReportGet, ReportApply,
            ReportClear, ReportAfter, MonHandle, ThreadStep, NotifySet, NotifySend, KickStep

MonitorStep ==
  \/ MonReap \/ MonHandle \/ Release(Monitor)
  \/ NotifySet(Monitor) \/ NotifySend(Monitor) \/ KickStep(Monitor)

\* The other calls do not touch what the monitor has in hand.
LEMMA MonitorStands ==
  ASSUME CtrlInv, HandlerMove PROVE MonitorStep \/ (th'[Monitor] = th[Monitor] /\ dead' = dead)
<1>1. th \in [Threads -> ThreadRecords] /\ Monitor \in Threads
  BY ThreadIds DEF CtrlInv, TypeOK
<1>2. ASSUME NEW n \in Nodes, Register(n) \/ MonTouch(n) \/ Silence(n)
      PROVE  th'[Monitor] = th[Monitor] /\ dead' = dead
  BY <1>1, <1>2, ThreadIds DEF Register, MonTouch, Silence, Goto, Monitor
<1>3. ASSUME NEW j \in JobIds, SubmitDraw(j) \/ SubmitStore(j) \/ CancelGet(j) \/ CancelApply(j)
      PROVE  th'[Monitor] = th[Monitor] /\ dead' = dead
  BY <1>1, <1>3, ThreadIds
     DEF SubmitDraw, SubmitStore, CancelGet, CancelApply, Goto, Done, Over, Monitor
<1>4. ASSUME NEW n \in Nodes, NEW j \in JobIds,
             ReportGet(n, j) \/ ReportApply(n, j) \/ ReportClear(n, j) \/ ReportAfter(n, j)
      PROVE  th'[Monitor] = th[Monitor] /\ dead' = dead
  BY <1>1, <1>4, ThreadIds
     DEF ReportGet, ReportApply, ReportClear, ReportAfter, Goto, Done, Over, Monitor
<1>5. ASSUME NEW t \in Threads, t # Monitor, ThreadStep(t)
      PROVE  th'[Monitor] = th[Monitor] /\ dead' = dead
  BY <1>1, <1>5
     DEF ThreadStep, Release, NotifySet, NotifySend, KickStep, Goto, Done, Over
<1> QED BY <1>2, <1>3, <1>4, <1>5 DEF HandlerMove, MonitorStep, ThreadStep

\* What a step of the scheduler can do to one node: only ReserveNodes marks one, which
\* it found online.
LEMMA SchedulerMoves ==
  ASSUME CtrlInv, SchedulerNext, NEW m \in Nodes
  PROVE  /\ nodes'[m].status = nodes[m].status /\ nodes'[m].late = nodes[m].late
         /\ nodes'[m].total = nodes[m].total
         /\ \/ nodes'[m].job \in {nodes[m].job, NoJob}
            \/ /\ sched.pc = "reserve" /\ m \in sched.gang /\ nodes[m].status = "online"
               /\ nodes'[m].job = sched.job
               /\ sched'.pc = "mark" /\ sched'.job = sched.job /\ sched'.gang = sched.gang
<1>1. nodes \in [Nodes -> NodeRecords] /\ sched \in SchedRecords
  BY DEF CtrlInv, TypeOK
<1>2. CASE UNCHANGED nodes
  BY <1>2
<1>3. CASE SchedReserve /\ ReserveNodes(sched.job, sched.gang, sched.spec.cpus)
           /\ sched' = [sched EXCEPT !.pc = "mark"]
  <2>1. sched'.pc = "mark" /\ sched'.job = sched.job /\ sched'.gang = sched.gang
    BY <1>1, <1>3 DEF SchedRecords
  <2>2. CASE m \in sched.gang
    <3>1. nodes[m].status = "online"
      BY <1>3, <2>2 DEF ReserveNodes, CanReserve
    <3>2. nodes'[m] = [nodes[m] EXCEPT !.alloc = @ + sched.spec.cpus, !.job = sched.job]
      BY <1>3, <2>2 DEF ReserveNodes
    <3>3. nodes'[m].status = nodes[m].status /\ nodes'[m].late = nodes[m].late
          /\ nodes'[m].total = nodes[m].total /\ nodes'[m].job = sched.job
      BY <1>1, <3>2 DEF NodeRecords
    <3> QED BY <1>3, <2>1, <2>2, <3>1, <3>3 DEF SchedReserve
  <2>3. CASE m \notin sched.gang
    BY <1>3, <2>3 DEF ReserveNodes
  <2> QED BY <2>2, <2>3
<1>4. CASE ReleaseNodes(sched.gang, sched.spec.cpus)
  BY <1>1, <1>4 DEF ReleaseNodes, NodeRecords
<1> QED BY <1>2, <1>3, <1>4
        DEF SchedulerNext, SchedStep, SchedTick, SchedPeek, SchedSelect, SchedReserve, SchedMark,
            SchedUndo, SchedDropCancel, SchedSend, SchedPark, SchedWake

-------------------------------------------------------------------------------
(* Marked nodes are of the gang *)

LEMMA MarkedMoves ==
  ASSUME CtrlInv, ResInv, MarkedInGang, HandlerMove PROVE MarkedInGang'
<1>1. JobsOnward
  BY MoveIsStep, Onward DEF CtrlInv, TypeOK, ResInv, ResBase, HandlerStep
<1>2. sched' = sched
  BY MoveIsStep DEF HandlerStep
<1>3. ASSUME NEW n \in Nodes, NEW j \in JobIds, nodes'[n].job = j
      PROVE  n \in jobs'[j].assigned \/ Placing(n, j)'
  <2>1. nodes[n].job = j
    BY <1>3, RegistryMoves, JobIdsAssumption DEF NoJob
  <2>2. n \in jobs[j].assigned \/ Placing(n, j)
    BY <2>1 DEF MarkedInGang
  <2> QED BY <1>1, <1>2, <2>2 DEF JobsOnward, Placing
<1> QED BY <1>3 DEF MarkedInGang

LEMMA MarkedSchedules ==
  ASSUME CtrlInv, ResInv, MarkedInGang, SchedulerNext PROVE MarkedInGang'
<1>1. JobsOnward
  BY SchedBase
<1>2. ASSUME NEW n \in Nodes, NEW j \in JobIds, nodes'[n].job = j, nodes[n].job = j, Placing(n, j)
      PROVE  n \in jobs'[j].assigned \/ Placing(n, j)'
  <2>1. sched.job = j /\ n \in sched.gang /\ sched.pc \in {"mark", "undo"}
    BY <1>2 DEF Placing
  <2>2. CASE sched.pc = "mark"
    <3>1. SchedMark /\ sched \in SchedRecords
      BY <2>2 DEF SchedulerNext, SchedStep, SchedPeek, SchedSelect, SchedReserve, SchedUndo,
                  SchedDropCancel, SchedSend, SchedPark, SchedWake, SchedTick, CtrlInv, TypeOK
    <3>2. CASE MarkRunning(sched.job, sched.gang)
      BY <2>1, <3>2 DEF MarkRunning, CtrlInv, TypeOK, JMTypeOK, JobRecords
    <3>3. CASE sched' = [sched EXCEPT !.pc = "undo"]
      BY <2>1, <3>1, <3>3 DEF SchedRecords, Placing
    <3> QED BY <3>1, <3>2, <3>3 DEF SchedMark
  <2>3. CASE sched.pc = "undo"
    <3>1. ReleaseNodes(sched.gang, sched.spec.cpus)
      BY <2>3 DEF SchedulerNext, SchedStep, SchedPeek, SchedSelect, SchedReserve, SchedMark, SchedUndo,
                  SchedDropCancel, SchedSend, SchedPark, SchedWake, SchedTick
    <3>2. j # NoJob
      BY JobIdsAssumption DEF NoJob
    <3>3. Registered(n)
      BY <1>2, <3>2 DEF ResInv, ResBase, MarkedIsKnown
    <3>4. nodes'[n].job = NoJob
      BY <2>1, <3>1, <3>3 DEF ReleaseNodes, CtrlInv, TypeOK, NodeRecords
    <3> QED BY <1>2, <3>2, <3>4
  <2> QED BY <2>1, <2>2, <2>3
<1>3. ASSUME NEW n \in Nodes, NEW j \in JobIds, nodes'[n].job = j
      PROVE  n \in jobs'[j].assigned \/ Placing(n, j)'
  <2>1. CASE nodes[n].job = j
    BY <1>1, <1>2, <1>3, <2>1 DEF MarkedInGang, JobsOnward
  <2>2. CASE nodes[n].job # j
    BY <1>3, <2>2, SchedulerMoves, JobIdsAssumption DEF NoJob, Placing
  <2> QED BY <2>1, <2>2
<1> QED BY <1>3 DEF MarkedInGang

\* A started job's gang and the one being placed are never the same job's.
LEMMA PlacedOrStarted ==
  ASSUME CtrlInv, ResInv, MarkedInGang, NEW n \in Nodes, NEW j \in JobIds, nodes[n].job = j
  PROVE  /\ n \in jobs[j].assigned \/ (jobs[j].assigned = {} /\ Placing(n, j))
         /\ jobs[j].status = "running" => n \in jobs[j].assigned
<1>1. Placing(n, j) => jobs[j].assigned = {}
  BY DEF Placing, ResInv, ResBase, ReservedOnce
<1>2. jobs[j].status = "running" => jobs[j].assigned # {}
  BY DEF CtrlInv, JMInv, SomeoneStillOwes
<1> QED BY <1>1, <1>2 DEF MarkedInGang

\* Of a job that needs one node, one node is marked.
LEMMA OneMarked ==
  ASSUME CtrlInv, ResInv, MarkedInGang, SingleNodeJobs,
         NEW n \in Nodes, NEW m \in Nodes, NEW j \in JobIds, nodes[n].job = j, nodes[m].job = j
  PROVE  n = m
<1>1. ASSUME NEW g \in SUBSET Nodes, n \in g, m \in g, Cardinality(g) = jobs[j].spec.nodes
      PROVE  n = m
  <2>1. jobs[j].spec.nodes <= 1
    BY DEF SingleNodeJobs, CtrlInv, TypeOK, JMTypeOK, JobRecords, NoSpec
  <2> QED BY <1>1, <2>1, OneOfOne
<1>2. CASE jobs[j].assigned = {}
  <2>1. Placing(n, j) /\ Placing(m, j)
    BY <1>2, PlacedOrStarted
  <2>2. Placed
    BY <2>1, PlacedWhen DEF Placing
  <2> QED BY <1>1, <2>1, <2>2 DEF Placing, Placed
<1>3. CASE jobs[j].assigned # {}
  <2>1. n \in jobs[j].assigned /\ m \in jobs[j].assigned
    BY <1>3, PlacedOrStarted
  <2>2. jobs[j].assigned \in SUBSET Nodes /\ Cardinality(jobs[j].assigned) = jobs[j].spec.nodes
    BY <1>3 DEF CtrlInv, TypeOK, JMTypeOK, JobRecords, GangIsComplete
  <2> QED BY <1>1, <2>1, <2>2
<1> QED BY <1>2, <1>3

-------------------------------------------------------------------------------
(* The monitor's rounds *)

\* The nodes lost in one round.
LEMMA ReapLost ==
  ASSUME CtrlInv, ResInv, LostInv, LossesApart, MonReap
  PROVE  MonitorPlace' /\ DeadApart' /\ LostInHand'
<1>1. /\ th[Monitor].pc = "idle" /\ dead = {}
      /\ Goto(Monitor, IF dead' = {} THEN "idle" ELSE "handle")
      /\ dead' = {[id |-> n, job |-> nodes[n].job, alloc |-> nodes[n].alloc] :
                    n \in {m \in Stale : nodes[m].job # NoJob}}
  BY DEF MonReap, At, LostInv, MonitorPlace
<1>2. th'[Monitor].pc = IF dead' = {} THEN "idle" ELSE "handle"
  BY <1>1, ThreadIds, GotoFields DEF CtrlInv
<1>3. MonitorPlace'
  BY <1>2 DEF MonitorPlace, At
<1>4. \A n \in Stale : nodes[n].late /\ nodes[n].job \in JobIds \cup {NoJob}
  BY DEF Stale, CtrlInv, TypeOK, NodeRecords
<1>5. ASSUME NEW d \in dead', NEW e \in dead', d.job = e.job PROVE d.id = e.id
  <2>1. PICK n \in Stale : nodes[n].job # NoJob /\ d.id = n /\ d.job = nodes[n].job
    BY <1>1
  <2>2. PICK m \in Stale : nodes[m].job # NoJob /\ e.id = m /\ e.job = nodes[m].job
    BY <1>1
  <2>3. CASE \A a, b \in Silent : a = b
    BY <1>4, <2>1, <2>2, <2>3 DEF LostInv, LateIsSilent, Stale
  <2>4. CASE SingleNodeJobs
    BY <1>4, <1>5, <2>1, <2>2, <2>4, OneMarked DEF LostInv, Stale
  <2> QED BY <2>1, <2>2, <2>3, <2>4 DEF LossesApart
<1>6. ASSUME NEW n \in Nodes, nodes'[n].status = "offline", nodes'[n].job # NoJob
      PROVE  \E d \in dead' : d.id = n /\ d.job = nodes'[n].job
  <2>1. nodes'[n].job = nodes[n].job
    BY <1>6, RegistryMoves DEF HandlerMove
  <2>2. n \in Stale
    <3>1. ~(nodes[n].status = "offline")
      BY <1>1, <1>6, <2>1 DEF LostInv, LostInHand, Ending
    <3> QED BY <1>6, <3>1, RegistryMoves DEF HandlerMove
  <2> DEFINE d == [id |-> n, job |-> nodes[n].job, alloc |-> nodes[n].alloc]
  <2>3. d \in dead'
    BY <1>1, <1>6, <2>1, <2>2
  <2> QED BY <2>1, <2>3
<1> QED BY <1>3, <1>5, <1>6 DEF DeadApart, LostInHand

\* One job handled: the node given up with it is among those to be released.
LEMMA HandleLost ==
  ASSUME CtrlInv, ResInv, LostInv, MonHandle
  PROVE  MonitorPlace' /\ DeadApart' /\ LostInHand'
<1>1. th \in [Threads -> ThreadRecords] /\ Monitor \in Threads /\ th[Monitor].pc = "handle"
      /\ UNCHANGED nodes
  BY ThreadIds DEF MonHandle, At, CtrlInv, TypeOK
<1>2. PICK d \in dead :
        /\ dead' = {e \in dead : e.job # d.job}
        /\ \/ /\ jobs[d.job].status = "running"
              /\ th' = [th EXCEPT ![Monitor] = [@ EXCEPT !.pc = "notify", !.job = d.job,
                          !.gang = jobs[d.job].assigned, !.cpus = jobs[d.job].spec.cpus,
                          !.todo = jobs[d.job].assigned]]
           \/ th' = [th EXCEPT ![Monitor] = [@ EXCEPT !.pc = "release", !.job = d.job,
                       !.gang = {d.id}, !.cpus = d.alloc, !.todo = {}]]
  BY DEF MonHandle, FailRunningJob
<1>3. d.id \in Nodes /\ d.job \in JobIds
  BY DEF CtrlInv, TypeOK
<1>4. \/ th'[Monitor].pc = "notify" /\ jobs[d.job].status = "running"
         /\ th'[Monitor].gang = jobs[d.job].assigned
      \/ th'[Monitor].pc = "release" /\ th'[Monitor].gang = {d.id}
  BY <1>1, <1>2 DEF ThreadRecords
<1>5. MonitorPlace' /\ DeadApart'
  BY <1>2, <1>4 DEF MonitorPlace, At, Ending, LostInv, DeadApart
<1>6. ASSUME NEW n \in Nodes, nodes[n].status = "offline", nodes[n].job # NoJob
      PROVE  \/ \E e \in dead' : e.id = n /\ e.job = nodes[n].job
             \/ th'[Monitor].pc \in Ending /\ n \in th'[Monitor].gang
  <2>1. PICK e \in dead : e.id = n /\ e.job = nodes[n].job
    BY <1>1, <1>6 DEF LostInv, LostInHand, Ending
  <2>2. CASE e.job # d.job
    BY <1>2, <2>1, <2>2
  <2>3. CASE e.job = d.job
    <3>1. n = d.id /\ nodes[n].job = d.job
      BY <2>1, <2>3 DEF LostInv, DeadApart
    <3>2. jobs[d.job].status = "running" => n \in jobs[d.job].assigned
      BY <1>3, <3>1, PlacedOrStarted DEF LostInv
    <3> QED BY <1>4, <3>1, <3>2 DEF Ending
  <2> QED BY <2>2, <2>3
<1> QED BY <1>1, <1>5, <1>6 DEF LostInHand

\* The release that ends the monitor's work on a job frees the nodes in its hands.
LEMMA ReleaseLost ==
  ASSUME CtrlInv, ResInv, LostInv, Release(Monitor)
  PROVE  MonitorPlace' /\ DeadApart' /\ LostInHand'
<1>1. /\ th[Monitor].pc = "release" /\ ReleaseNodes(th[Monitor].gang, th[Monitor].cpus)
      /\ Over(Monitor, IF dead = {} THEN "idle" ELSE "handle") /\ dead' = dead
  BY DEF Release, At
<1>2. th'[Monitor].pc = IF dead = {} THEN "idle" ELSE "handle"
  BY <1>1, ThreadIds, OverFields DEF CtrlInv
<1>3. MonitorPlace' /\ DeadApart'
  BY <1>1, <1>2 DEF MonitorPlace, At, LostInv, DeadApart
<1>4. ASSUME NEW n \in Nodes, nodes'[n].status = "offline", nodes'[n].job # NoJob
      PROVE  \E d \in dead' : d.id = n /\ d.job = nodes'[n].job
  <2>1. nodes[n] \in NodeRecords
    BY DEF CtrlInv, TypeOK
  <2>2. CASE n \in th[Monitor].gang /\ Registered(n)
    BY <1>1, <1>4, <2>1, <2>2 DEF ReleaseNodes, NodeRecords
  <2>3. CASE ~(n \in th[Monitor].gang /\ Registered(n))
    <3>1. nodes'[n] = nodes[n]
      BY <1>1, <2>3 DEF ReleaseNodes
    <3>2. n \notin th[Monitor].gang
      BY <1>4, <2>3, <3>1 DEF Registered
    <3> QED BY <1>1, <1>4, <3>1, <3>2 DEF LostInv, LostInHand
  <2> QED BY <2>2, <2>3
<1> QED BY <1>3, <1>4 DEF LostInHand

\* Telling the gang to stop keeps it in hand.
LEMMA NotifyLost ==
  ASSUME CtrlInv, LostInv, NotifySet(Monitor) \/ NotifySend(Monitor)
  PROVE  MonitorPlace' /\ DeadApart' /\ LostInHand'
<1>1. th \in [Threads -> ThreadRecords] /\ Monitor \in Threads /\ UNCHANGED <<nodes, dead>>
  BY ThreadIds DEF NotifySet, NotifySend, CtrlInv, TypeOK
<1>2. th[Monitor].pc \in Ending /\ th'[Monitor].pc \in Ending /\ th'[Monitor].gang = th[Monitor].gang
  <2>1. CASE NotifySet(Monitor)
    BY <1>1, <2>1, GotoFields DEF NotifySet, At, Ending, CtrlInv
  <2>2. CASE NotifySend(Monitor)
    BY <1>1, <2>2 DEF NotifySend, At, Ending, ThreadRecords
  <2> QED BY <2>1, <2>2
<1> QED BY <1>1, <1>2 DEF LostInv, MonitorPlace, At, DeadApart, LostInHand, Ending

\* A handler, whoever's, and the scheduler.
LEMMA OthersLost ==
  ASSUME CtrlInv, LostInv, th'[Monitor] = th[Monitor], dead' = dead,
         \A n \in Nodes : nodes'[n].status = "offline" =>
           nodes[n].status = "offline" /\ nodes'[n].job \in {nodes[n].job, NoJob}
  PROVE  MonitorPlace' /\ DeadApart' /\ LostInHand'
<1>1. MonitorPlace' /\ DeadApart'
  BY DEF LostInv, MonitorPlace, At, DeadApart
<1>2. ASSUME NEW n \in Nodes, nodes'[n].status = "offline", nodes'[n].job # NoJob
      PROVE  \/ \E d \in dead' : d.id = n /\ d.job = nodes'[n].job
             \/ th'[Monitor].pc \in Ending /\ n \in th'[Monitor].gang
  <2>1. nodes[n].status = "offline" /\ nodes'[n].job = nodes[n].job
    BY <1>2
  <2> QED BY <1>2, <2>1 DEF LostInv, LostInHand
<1> QED BY <1>1, <1>2 DEF LostInHand

LEMMA LostMoves ==
  ASSUME CtrlInv, ResInv, LostInv, LossesApart, HandlerMove PROVE LostInv'
<1>1. MarkedInGang'
  BY MarkedMoves DEF LostInv
<1>2. LateIsSilent'
  BY RegistryMoves DEF LostInv, LateIsSilent
<1>3. CASE MonitorStep
  <2>1. ~KickStep(Monitor)
    BY DEF KickStep, At, LostInv, MonitorPlace, Ending
  <2> QED BY <1>1, <1>2, <1>3, <2>1, ReapLost, HandleLost, ReleaseLost, NotifyLost
          DEF MonitorStep, LostInv
<1>4. CASE ~MonitorStep
  <2>1. th'[Monitor] = th[Monitor] /\ dead' = dead /\ ~MonReap
    BY <1>4, MonitorStands DEF MonitorStep
  <2>2. MonitorPlace' /\ DeadApart' /\ LostInHand'
    BY <2>1, RegistryMoves, OthersLost
  <2> QED BY <1>1, <1>2, <2>2 DEF LostInv
<1> QED BY <1>3, <1>4

LEMMA LostSchedules ==
  ASSUME CtrlInv, ResInv, LostInv, SchedulerNext PROVE LostInv'
<1>1. MarkedInGang'
  BY MarkedSchedules DEF LostInv
<1>2. LateIsSilent'
  BY SchedulerMoves DEF LostInv, LateIsSilent
<1>3. MonitorPlace' /\ DeadApart' /\ LostInHand'
  <2>1. th' = th /\ dead' = dead
    BY DEF SchedulerNext
  <2> QED BY <2>1, SchedulerMoves, OthersLost
<1> QED BY <1>1, <1>2, <1>3 DEF LostInv

LEMMA LostInit == Init => LostInv
<1> SUFFICES ASSUME Init PROVE LostInv
  OBVIOUS
<1>1. /\ \A n \in Nodes : nodes[n].job = NoJob /\ nodes[n].status = "absent" /\ ~nodes[n].late
      /\ th[Monitor].pc = "idle" /\ dead = {}
  BY ThreadIds DEF Init, RegInit, Unregistered, Idle
<1> QED BY <1>1, JobIdsAssumption
        DEF LostInv, MarkedInGang, NoJob, MonitorPlace, At, LateIsSilent, DeadApart, LostInHand

LEMMA LostRests == ASSUME LostInv, UNCHANGED tableVars PROVE LostInv'
BY DEF tableVars, jmVars, schedVars, LostInv, MarkedInGang, Placing, MonitorPlace, At, LateIsSilent,
       DeadApart, LostInHand

LEMMA LostNext == LossesApart /\ CtrlInv /\ ResInv /\ LostInv /\ [Next]_vars => LostInv'
<1>1. UNCHANGED vars => UNCHANGED tableVars
  BY DEF vars, tableVars
<1> QED BY <1>1, NextSplits, LostMoves, LostSchedules, LostRests

LEMMA LostInvariant == ASSUME LossesApart PROVE Spec => []LostInv
BY LossesApart, ControllerInvariant, ReservationInvariant, LostInit, LostNext, PTL DEF Spec

\* While no two nodes of one job are lost in one round of the monitor, a lost node is
\* free once the round is over: handleDeadNode, ReleaseNodes, the reports, cancels and
\* registrations that come between leave no reservation on it.
THEOREM LostNodesFree == ASSUME LossesApart PROVE Spec => []LostNodeIsFree
<1>1. LostInv => LostNodeIsFree
  BY DEF LostInv, MonitorPlace, At, LostInHand, LostNodeIsFree, Ending
<1> QED BY <1>1, LossesApart, LostInvariant, PTL

-------------------------------------------------------------------------------
(* 2. Wakeups *)

\* The monitor has nothing to do.
NothingLost == At(Monitor, "idle") /\ \A n \in Nodes : nodes[n].status # "offline"

NothingCancelled == \A j \in JobIds : At(<<"cancel", 0, j>>, "idle")

\* The job trySchedule works on waits at the head of the queue until it is started.
StillQueued ==
  /\ sched.pc # "undo"
  /\ sched.pc \in {"select", "reserve", "mark"} =>
       HasPending /\ PeekPending = sched.job /\ jobs[sched.job].status = "pending"

AnnouncedCPUs(n) == IF CPUs[n] < 1 THEN 1 ELSE CPUs[n]

Announced == \A n \in Nodes : Registered(n) => nodes[n].total = AnnouncedCPUs(n)

\* The gang that was selected stays free until it is reserved.
StaysFree == sched.pc = "reserve" => CanReserve(sched.gang, sched.spec.cpus)

WillKick(t) == th[t].pc \in Ending \cup {"kick"}

\* When trySchedule gives up with work in the queue, the scheduler is kicked, or will
\* be, or the job at the head does not fit.
Awake ==
  sched.pc \in {"exit", "wait"} /\ HasPending =>
    kick \/ (\E t \in Threads : WillKick(t)) \/ SelectGang(jobs[PeekPending].spec) = {}

QuietInv == NothingLost /\ NothingCancelled /\ StillQueued /\ Announced /\ StaysFree /\ Awake

QuietBase == QuietCluster /\ CtrlInv /\ ResInv /\ LostInv

\* The job at the head of the queue is pending.
LEMMA HeadIsPending ==
  ASSUME CtrlInv, HasPending PROVE PeekPending \in JobIds /\ jobs[PeekPending].status = "pending"
<1>1. pending \in Seq(JobIds) /\ pending # <<>>
  BY DEF HasPending, CtrlInv, TypeOK, JMTypeOK
<1>2. Head(pending) \in JobIds /\ Contains(pending, Head(pending))
  <2>1. 1 \in 1..Len(pending) /\ pending[1] = Head(pending)
    BY <1>1
  <2> QED BY <1>1, <2>1 DEF Contains
<1> QED BY <1>2 DEF PeekPending, CtrlInv, JMInv, QueueIsPending

-------------------------------------------------------------------------------
(* Steps that do not occur *)

LEMMA NoMonitor ==
  ASSUME QuietBase, QuietInv
  PROVE  /\ ~MonReap /\ ~MonHandle
         /\ \A n \in Nodes : ~MonTouch(n) /\ ~Silence(n)
         /\ ~ThreadStep(Monitor)
         /\ \A j \in JobIds : ~CancelGet(j) /\ ~CancelApply(j) /\ ~ThreadStep(<<"cancel", 0, j>>)
<1>1. Stale = {}
  BY DEF Stale, QuietBase, QuietCluster, LostInv, LateIsSilent
<1> QED BY <1>1 DEF QuietBase, QuietCluster, QuietInv, NothingLost, NothingCancelled, At, MonReap,
                    MonHandle, MonTouch, Silence, CancelGet, CancelApply, ThreadStep, Release,
                    NotifySet, NotifySend, KickStep

\* What is left of the handlers: registrations, submissions, reports and their tails.
QuietMove ==
  \/ \E n \in Nodes : Register(n)
  \/ \E j \in JobIds : SubmitDraw(j) \/ SubmitStore(j)
  \/ \E n \in Nodes, j \in JobIds :
       ReportGet(n, j) \/ ReportApply(n, j) \/ ReportClear(n, j) \/ ReportAfter(n, j)
  \/ \E t \in Threads : ThreadStep(t)

LEMMA MovesAreQuiet == QuietBase /\ QuietInv /\ HandlerMove => QuietMove
BY NoMonitor DEF HandlerMove, QuietMove

\* Such a step puts no job back in the queue or out of it.
LEMMA QueueKept ==
  ASSUME QuietBase, QuietInv, QuietMove
  PROVE  /\ \A j \in JobIds : jobs[j].status = "pending" => jobs'[j].status = "pending"
         /\ \A j \in JobIds : jobs[j].status # "absent" => jobs'[j].spec = jobs[j].spec
         /\ HasPending => HasPending' /\ PeekPending' = PeekPending
<1>1. JMTypeOK
  BY DEF QuietBase, CtrlInv, TypeOK
<1>2. CASE UNCHANGED jmVars
  BY <1>2 DEF jmVars, HasPending, PeekPending
<1>3. ASSUME NEW j \in JobIds, SubmitStore(j)
      PROVE  /\ \A k \in JobIds : jobs[k].status = "pending" => jobs'[k].status = "pending"
             /\ \A k \in JobIds : jobs[k].status # "absent" => jobs'[k].spec = jobs[k].spec
             /\ HasPending => HasPending' /\ PeekPending' = PeekPending
  <2>1. PICK spec \in Specs : Submit(j, spec)
    BY <1>3 DEF SubmitStore
  <2>2. pending' = Append(pending, j) /\ pending \in Seq(JobIds)
    BY <1>1, <2>1 DEF Submit, JMTypeOK
  <2>3. pending # <<>> => pending' # <<>> /\ Head(pending') = Head(pending)
    BY <2>2
  <2> QED BY <1>1, <2>1, <2>3 DEF Submit, HasPending, PeekPending, JMTypeOK
<1>4. ASSUME NEW n \in Nodes, NEW j \in JobIds, ReportApply(n, j)
      PROVE  /\ \A k \in JobIds : jobs[k].status = "pending" => jobs'[k].status = "pending"
             /\ \A k \in JobIds : jobs[k].status # "absent" => jobs'[k].spec = jobs[k].spec
             /\ HasPending => HasPending' /\ PeekPending' = PeekPending
  <2>1. pending' = pending
    BY <1>4 DEF ReportApply, ReportNodeEvent, IgnoreReport, AcceptReport, jmVars
  <2>2. ASSUME NEW k \in JobIds
        PROVE  /\ jobs[k].status = "pending" => jobs'[k].status = "pending"
               /\ jobs'[k].spec = jobs[k].spec
    <3>1. \/ jobs' = jobs
          \/ jobs[j].status = "running" /\ \E to, exit : Finish(j, to, exit)
      BY <1>4 DEF ReportApply, ReportNodeEvent, IgnoreReport, AcceptReport, jmVars
    <3>2. ASSUME NEW to, NEW exit, Finish(j, to, exit), jobs[j].status = "running"
          PROVE  /\ jobs[k].status = "pending" => jobs'[k].status = "pending"
                 /\ jobs'[k].spec = jobs[k].spec
      BY <1>1, <3>2 DEF Finish, JMTypeOK, JobRecords
    <3> QED BY <3>1, <3>2
  <2> QED BY <2>1, <2>2 DEF HasPending, PeekPending
<1> QED BY <1>2, <1>3, <1>4
        DEF QuietMove, Register, SubmitDraw, ReportGet, ReportClear, ReportAfter, ThreadStep,
            Release, NotifySet, NotifySend, KickStep

\* One call moves.  It goes on to kick the scheduler if it was about to, and also when
\* it has changed the registry or the queue.
KicksOn(t) ==
  /\ OnlyMoves(t)
  /\ t # Monitor /\ \A j \in JobIds : t # <<"cancel", 0, j>>
  /\ WillKick(t) => WillKick(t)' \/ kick'
  /\ UNCHANGED <<nodes, pending>> \/ WillKick(t)'

LEMMA CallKicksOn ==
  ASSUME QuietBase, QuietInv, QuietMove PROVE (kick => kick') /\ \E t \in Threads : KicksOn(t)
<1>1. CtrlInv /\ TypeOK /\ th \in [Threads -> ThreadRecords]
  BY DEF QuietBase, CtrlInv, TypeOK
<1> USE DEF KicksOn, WillKick, Ending
<1>2. ASSUME NEW n \in Nodes, Register(n) PROVE (kick => kick') /\ KicksOn(<<"register", n, 0>>)
  <2> DEFINE t == <<"register", n, 0>>
  <2>1. t \in Threads /\ t # Monitor /\ \A j \in JobIds : t # <<"cancel", 0, j>>
    BY ThreadIds DEF Monitor
  <2>2. Goto(t, "kick") /\ kick' = kick
    BY <1>2 DEF Register, schedVars
  <2> HIDE DEF t
  <2>3. OnlyMoves(t) /\ th'[t].pc = "kick"
    BY <1>1, <2>1, <2>2, GotoFields
  <2> QED BY <2>1, <2>2, <2>3 DEF t
<1>3. ASSUME NEW j \in JobIds, SubmitDraw(j) \/ SubmitStore(j)
      PROVE  (kick => kick') /\ KicksOn(<<"submit", 0, j>>)
  <2> DEFINE t == <<"submit", 0, j>>
  <2>1. t \in Threads /\ t # Monitor /\ \A k \in JobIds : t # <<"cancel", 0, k>>
    BY ThreadIds DEF Monitor
  <2>2. \/ Goto(t, "submit") /\ th[t].pc = "idle" /\ UNCHANGED <<nodes, pending>>
        \/ Goto(t, "kick") /\ th[t].pc = "submit"
    <3>1. CASE SubmitDraw(j)
      <4>1. ~(j <= idSeq)
        BY <3>1, <1>1 DEF SubmitDraw, TypeOK
      <4>2. th[t].pc = "idle"
        BY <4>1 DEF QuietBase, ResInv, ResBase, KnownIsDrawn
      <4> QED BY <3>1, <4>2 DEF SubmitDraw, jmVars
    <3> QED BY <1>3, <3>1 DEF SubmitStore, At
  <2>3. kick' = kick
    BY <1>3 DEF SubmitDraw, SubmitStore, schedVars
  <2> HIDE DEF t
  <2>4. OnlyMoves(t) /\ th'[t].pc \in {"submit", "kick"} /\ (th'[t].pc = "submit" => UNCHANGED <<nodes, pending>>)
        /\ th[t].pc \in {"idle", "submit"}
    BY <1>1, <2>1, <2>2, GotoFields
  <2> QED BY <2>1, <2>3, <2>4 DEF t
<1>4. ASSUME NEW n \in Nodes, NEW j \in JobIds,
             ReportGet(n, j) \/ ReportApply(n, j) \/ ReportClear(n, j) \/ ReportAfter(n, j)
      PROVE  (kick => kick') /\ KicksOn(<<"report", n, j>>)
  <2> DEFINE t == <<"report", n, j>>
  <2>1. t \in Threads /\ t # Monitor /\ \A k \in JobIds : t # <<"cancel", 0, k>>
    BY ThreadIds DEF Monitor
  <2>2. th[t].pc \in {"idle", "report", "clear", "ack", "after"} /\ kick' = kick /\ UNCHANGED nodes
    BY <1>4 DEF ReportGet, ReportApply, ReportClear, ReportAfter, At, schedVars
  <2>3. pending' = pending
    BY <1>4 DEF ReportGet, ReportApply, ReportClear, ReportAfter, jmVars, ReportNodeEvent,
                IgnoreReport, AcceptReport
  <2>4. OnlyMoves(t)
    BY <1>1, <1>4, <2>1 DEF ReportGet, ReportApply, ReportClear, ReportAfter, Goto, Done, Over, OnlyMoves
  <2> HIDE DEF t
  <2> QED BY <2>1, <2>2, <2>3, <2>4 DEF t
<1>5. ASSUME NEW t \in Threads, ThreadStep(t) PROVE (kick => kick') /\ KicksOn(t)
  <2>1. t # Monitor /\ \A j \in JobIds : t # <<"cancel", 0, j>>
    BY <1>5, NoMonitor
  <2>2. OnlyMoves(t)
    BY <1>1, <1>5 DEF ThreadStep, Release, NotifySet, NotifySend, KickStep, Goto, Done, Over, OnlyMoves
  <2>3. CASE Release(t)
    <3>1. Over(t, "kick") \/ Goto(t, "notify")
      BY <2>1, <2>3 DEF Release
    <3>2. th'[t].pc \in {"kick", "notify"}
      BY <1>1, <3>1, GotoFields, OverFields
    <3> QED BY <2>1, <2>2, <2>3, <3>2 DEF Release, schedVars
  <2>4. CASE NotifySet(t)
    <3>1. th'[t].pc = "tell"
      BY <1>1, <2>4, GotoFields DEF NotifySet
    <3> QED BY <2>1, <2>2, <2>4, <3>1 DEF NotifySet, schedVars
  <2>5. CASE NotifySend(t)
    <3>1. \/ Over(t, "kick")
          \/ \E todo : th' = [th EXCEPT ![t] = [@ EXCEPT !.pc = "notify", !.todo = todo]]
      BY <2>1, <2>5 DEF NotifySend
    <3>2. th'[t].pc \in {"kick", "notify"}
      <4>1. CASE Over(t, "kick")
        BY <1>1, <4>1, OverFields
      <4>2. ASSUME NEW todo, th' = [th EXCEPT ![t] = [@ EXCEPT !.pc = "notify", !.todo = todo]]
            PROVE  th'[t].pc = "notify"
        BY <1>1, <4>2 DEF ThreadRecords
      <4> QED BY <3>1, <4>1, <4>2
    <3> QED BY <2>1, <2>2, <2>5, <3>2 DEF NotifySend, schedVars
  <2>6. CASE KickStep(t)
    BY <2>1, <2>2, <2>6 DEF KickStep, Kick, jmVars
  <2> QED BY <1>5, <2>3, <2>4, <2>5, <2>6 DEF ThreadStep
<1> QED BY <1>2, <1>3, <1>4, <1>5, ThreadIds DEF QuietMove

\* A node is registered, again perhaps, or freed, or left alone.
LEMMA QuietRegistry ==
  ASSUME QuietBase, QuietInv, QuietMove, NEW m \in Nodes
  PROVE  \/ nodes'[m] = nodes[m]
         \/ /\ nodes'[m].status = "online" /\ nodes'[m].total = AnnouncedCPUs(m)
            /\ nodes'[m].alloc = nodes[m].alloc /\ nodes'[m].job = nodes[m].job
         \/ /\ Registered(m)
            /\ nodes'[m].status = nodes[m].status /\ nodes'[m].total = nodes[m].total
            /\ nodes'[m].alloc <= nodes[m].alloc /\ nodes'[m].job = NoJob
<1>1. nodes \in [Nodes -> NodeRecords]
  BY DEF QuietBase, CtrlInv, TypeOK
<1>2. CASE UNCHANGED nodes
  BY <1>2
<1>3. ASSUME NEW n \in Nodes, Register(n)
      PROVE  \/ nodes'[m] = nodes[m]
             \/ /\ nodes'[m].status = "online" /\ nodes'[m].total = AnnouncedCPUs(m)
                /\ nodes'[m].alloc = nodes[m].alloc /\ nodes'[m].job = nodes[m].job
  <2> DEFINE c == AnnouncedCPUs(n)
  <2>1. RegisterNode(n, c) /\ c # 0
    BY <1>3, ControllerAssumption DEF Register, AnnouncedCPUs
  <2> HIDE DEF c
  <2>2. CASE m = n
    <3>1. nodes'[n] = [status |-> "online", total |-> c, alloc |-> nodes[n].alloc,
                       job |-> nodes[n].job, late |-> FALSE]
      BY <1>1, <2>1 DEF RegisterNode
    <3> QED BY <2>2, <3>1 DEF c
  <2>3. CASE m # n
    BY <1>1, <2>1, <2>3 DEF RegisterNode
  <2> QED BY <2>2, <2>3
<1>4. ASSUME NEW t \in Threads, Release(t)
      PROVE  \/ nodes'[m] = nodes[m]
             \/ /\ Registered(m)
                /\ nodes'[m].status = nodes[m].status /\ nodes'[m].total = nodes[m].total
                /\ nodes'[m].alloc <= nodes[m].alloc /\ nodes'[m].job = NoJob
  <2>1. th[t].cpus \in Nat
    BY <1>4, TailKnows DEF Release, At, Ending, QuietBase
  <2> DEFINE c == th[t].cpus
             g == th[t].gang
  <2>2. ReleaseNodes(g, c) /\ c \in Nat
    BY <1>4, <2>1 DEF Release
  <2> HIDE DEF c, g
  <2>3. CASE m \in g /\ Registered(m)
    <3>1. /\ nodes'[m].status = nodes[m].status /\ nodes'[m].total = nodes[m].total
          /\ nodes'[m].alloc = IF nodes[m].alloc < c THEN 0 ELSE nodes[m].alloc - c
          /\ nodes'[m].job = NoJob /\ nodes[m].alloc \in Nat
      BY <1>1, <2>2, <2>3 DEF ReleaseNodes, NodeRecords
    <3>2. nodes'[m].alloc <= nodes[m].alloc
      BY <2>2, <3>1
    <3> QED BY <2>3, <3>1, <3>2
  <2>4. CASE ~(m \in g /\ Registered(m))
    BY <1>1, <2>2, <2>4 DEF ReleaseNodes
  <2> QED BY <2>3, <2>4
<1> QED BY <1>2, <1>3, <1>4
        DEF QuietMove, SubmitDraw, SubmitStore, ReportGet, ReportApply, ReportClear, ReportAfter,
            ThreadStep, NotifySet, NotifySend, KickStep

\* A node with room for a job keeps it.
LEMMA RoomKept ==
  ASSUME QuietBase, QuietInv, QuietMove, NEW gang \in SUBSET Nodes, NEW cpus \in Int,
         CanReserve(gang, cpus)
  PROVE  CanReserve(gang, cpus)'
<1>1. ASSUME NEW n \in gang
      PROVE  /\ nodes'[n].status = "online" /\ nodes'[n].job = NoJob
             /\ nodes'[n].total - nodes'[n].alloc >= cpus
  <2>1. /\ nodes[n].status = "online" /\ nodes[n].job = NoJob
        /\ nodes[n].total - nodes[n].alloc >= cpus
    BY DEF CanReserve
  <2>2. nodes[n].total = AnnouncedCPUs(n)
    BY <2>1 DEF QuietInv, Announced, Registered
  <2>3. nodes[n].total \in Nat /\ nodes[n].alloc \in Nat
    BY DEF QuietBase, CtrlInv, TypeOK, NodeRecords
  <2>4. nodes'[n].total \in Nat /\ nodes'[n].alloc \in Nat
    <3>1. TypeOK'
      BY MoveIsStep DEF QuietBase, QuietMove, HandlerMove, CtrlInv
    <3> QED BY <3>1 DEF TypeOK, NodeRecords
  <2> QED BY <2>1, <2>2, <2>3, <2>4, QuietRegistry
<1> QED BY <1>1 DEF CanReserve

LEMMA QuietMoves == ASSUME QuietBase, QuietInv, HandlerMove PROVE QuietInv'
<1>1. QuietMove
  BY MovesAreQuiet
<1>2. PICK t \in Threads : KicksOn(t)
  BY <1>1, CallKicksOn
<1>3. CtrlInv /\ CtrlInv' /\ sched' = sched
  BY MoveIsStep DEF QuietBase, HandlerStep
<1>4. NothingLost' /\ NothingCancelled'
  <2>1. th'[Monitor] = th[Monitor] /\ \A j \in JobIds : th'[<<"cancel", 0, j>>] = th[<<"cancel", 0, j>>]
    BY <1>2, ThreadIds DEF KicksOn, OnlyMoves
  <2>2. \A n \in Nodes : nodes'[n].status # "offline"
    BY NoMonitor, RegistryMoves, <1>3 DEF QuietInv, NothingLost
  <2> QED BY <2>1, <2>2 DEF QuietInv, NothingLost, NothingCancelled, At
<1>5. StillQueued'
  <2>1. CASE sched.pc \in {"select", "reserve", "mark"}
    <3>1. sched.job \in JobIds
      BY <1>3, <2>1 DEF CtrlInv, GoodSched
    <3> QED BY <1>1, <1>3, <3>1, QueueKept DEF QuietInv, StillQueued
  <2> QED BY <1>3, <2>1 DEF QuietInv, StillQueued
<1>6. Announced'
  <2>1. ASSUME NEW n \in Nodes, nodes'[n].status # "absent" PROVE nodes'[n].total = AnnouncedCPUs(n)
    BY <1>1, <2>1, QuietRegistry DEF QuietInv, Announced, Registered
  <2> QED BY <2>1 DEF Announced, Registered
<1>7. StaysFree'
  <2>1. CASE sched.pc = "reserve"
    <3>1. Placed
      BY <1>3, <2>1, PlacedWhen
    <3> DEFINE g == sched.gang
               c == sched.spec.cpus
    <3>2. g \in SUBSET Nodes /\ c \in Int /\ CanReserve(g, c)
      BY <2>1, <3>1 DEF Placed, QuietInv, StaysFree
    <3>3. g' = g /\ c' = c
      BY <1>3
    <3> HIDE DEF g, c
    <3>4. CanReserve(g, c)'
      BY <1>1, <3>2, <3>3, RoomKept DEF CanReserve
    <3> QED BY <3>4 DEF StaysFree, g, c
  <2> QED BY <1>3, <2>1 DEF StaysFree
<1>8. Awake'
  <2> SUFFICES ASSUME sched.pc \in {"exit", "wait"}, HasPending', ~kick', \A u \in Threads : ~WillKick(u)'
               PROVE  SelectGang(jobs[PeekPending].spec)' = {}
    BY <1>3 DEF Awake
  <2>1. UNCHANGED <<nodes, pending>>
    BY <1>2 DEF KicksOn
  <2>2. ~kick /\ \A u \in Threads : ~WillKick(u)
    <3>1. kick => kick'
      BY <1>1, CallKicksOn
    <3>2. ASSUME NEW u \in Threads PROVE ~WillKick(u)
      <4>1. CASE u = t
        BY <1>2, <4>1 DEF KicksOn
      <4>2. CASE u # t
        BY <1>2, <4>2 DEF KicksOn, OnlyMoves, WillKick
      <4> QED BY <4>1, <4>2
    <3> QED BY <3>1, <3>2
  <2>3. HasPending /\ PeekPending' = PeekPending
    BY <2>1 DEF HasPending, PeekPending
  <2>4. SelectGang(jobs[PeekPending].spec) = {}
    BY <2>2, <2>3 DEF QuietInv, Awake
  <2>5. PeekPending \in JobIds /\ jobs[PeekPending].status = "pending"
    BY <2>3, HeadIsPending DEF QuietBase
  <2>6. jobs'[PeekPending].spec = jobs[PeekPending].spec
    BY <1>1, <2>5, QueueKept
  <2> QED BY <2>1, <2>3, <2>4, <2>6 DEF SelectGang, nodeFits, FreeCPUs
<1> QED BY <1>4, <1>5, <1>6, <1>7, <1>8 DEF QuietInv

\* The gang that was selected fits.
LEMMA SelectedFits ==
  ASSUME CtrlInv, NEW spec \in Specs \cup {NoSpec}, NEW gang \in SelectGang(spec)
  PROVE  CanReserve(gang, spec.cpus)
<1>1. spec.cpus \in Int /\ spec.cpus >= 1
  BY SpecsAssumption DEF SelectGang, Validate, NoSpec
<1>2. ASSUME NEW n \in gang PROVE n \in Nodes /\ nodeFits(n, spec.cpus)
  BY <1>2 DEF SelectGang
<1>3. ASSUME NEW n \in gang PROVE nodes[n].total - nodes[n].alloc >= spec.cpus
  <2>1. nodes[n].total \in Nat /\ nodes[n].alloc \in Nat
    BY <1>2 DEF CtrlInv, TypeOK, NodeRecords
  <2> QED BY <1>1, <1>2, <2>1 DEF nodeFits, FreeCPUs
<1> QED BY <1>2, <1>3 DEF CanReserve, nodeFits

\* The scheduler's own steps.
LEMMA QuietSchedules == ASSUME QuietBase, QuietInv, SchedulerNext PROVE QuietInv'
<1>1. CtrlInv /\ sched \in SchedRecords /\ th' = th
  BY DEF QuietBase, CtrlInv, TypeOK, SchedulerNext
<1>2. NothingLost' /\ NothingCancelled' /\ Announced'
  <2>1. \A n \in Nodes : nodes'[n].status = nodes[n].status /\ nodes'[n].total = nodes[n].total
    BY <1>1, SchedulerMoves
  <2> QED BY <1>1, <2>1 DEF QuietInv, NothingLost, NothingCancelled, Announced, Registered, At
<1>3. CASE SchedPeek
  <2>1. UNCHANGED <<jobs, pending>>
    BY <1>3 DEF SchedPeek, jmVars
  <2>2. CASE HasPending
    <3>1. sched'.pc = "select" /\ sched'.job = PeekPending
      BY <1>3, <2>2 DEF SchedPeek, SchedIdle
    <3> QED BY <1>1, <1>2, <2>1, <2>2, <3>1, HeadIsPending
            DEF QuietInv, StillQueued, StaysFree, Awake, HasPending, PeekPending
  <2>3. CASE ~HasPending
    <3>1. sched'.pc = "exit"
      BY <1>3, <2>3 DEF SchedPeek, SchedIdle
    <3> QED BY <1>2, <2>1, <2>3, <3>1 DEF QuietInv, StillQueued, StaysFree, Awake, HasPending
  <2> QED BY <2>2, <2>3
<1>4. CASE SchedSelect
  <2>1. sched.pc = "select" /\ UNCHANGED <<jobs, pending, nodes>>
    BY <1>4 DEF SchedSelect, jmVars
  <2>2. HasPending /\ PeekPending = sched.job /\ jobs[sched.job].status = "pending"
        /\ sched.spec = jobs[sched.job].spec /\ sched.spec \in Specs \cup {NoSpec}
    BY <1>1, <2>1 DEF QuietInv, StillQueued, CtrlInv, GoodSched, SchedRecords
  <2>3. ASSUME NEW gang \in SelectGang(sched.spec), sched' = [sched EXCEPT !.pc = "reserve", !.gang = gang]
        PROVE  QuietInv'
    <3>1. sched'.pc = "reserve" /\ sched'.job = sched.job /\ sched'.spec = sched.spec /\ sched'.gang = gang
      BY <1>1, <2>3 DEF SchedRecords
    <3>2. CanReserve(gang, sched.spec.cpus)
      BY <1>1, <2>2, <2>3, SelectedFits
    <3>3. StaysFree'
      BY <2>1, <3>1, <3>2 DEF StaysFree, CanReserve
    <3> QED BY <1>2, <2>1, <2>2, <3>1, <3>3 DEF QuietInv, StillQueued, Awake, HasPending, PeekPending
  <2>4. ASSUME SelectGang(sched.spec) = {}, sched' = [SchedIdle EXCEPT !.pc = "exit"] PROVE QuietInv'
    <3>1. sched'.pc = "exit"
      BY <2>4 DEF SchedIdle
    <3>2. SelectGang(jobs[PeekPending].spec)' = {}
      BY <2>1, <2>2, <2>4 DEF SelectGang, nodeFits, FreeCPUs, PeekPending
    <3> QED BY <1>2, <3>1, <3>2 DEF QuietInv, StillQueued, StaysFree, Awake
  <2> QED BY <1>4, <2>3, <2>4 DEF SchedSelect
<1>5. CASE SchedReserve
  <2>1. sched.pc = "reserve" /\ UNCHANGED <<jobs, pending>>
    BY <1>5 DEF SchedReserve, jmVars
  <2>2. sched' = [sched EXCEPT !.pc = "mark"]
    BY <1>5, <2>1 DEF SchedReserve, QuietInv, StaysFree
  <2>3. sched'.pc = "mark" /\ sched'.job = sched.job
    BY <1>1, <2>2 DEF SchedRecords
  <2> QED BY <1>2, <2>1, <2>3 DEF QuietInv, StillQueued, StaysFree, Awake, HasPending, PeekPending
<1>6. CASE SchedMark
  <2>1. CanTransition(jobs[sched.job].status, "running")
    BY <1>6 DEF SchedMark, QuietInv, StillQueued, CanTransition
  <2>2. sched'.pc = "dispatch"
    BY <1>1, <1>6, <2>1 DEF SchedMark, SchedRecords
  <2> QED BY <1>2, <2>2 DEF QuietInv, StillQueued, StaysFree, Awake
<1>7. CASE SchedUndo
  BY <1>7 DEF SchedUndo, QuietInv, StillQueued
<1>8. CASE SchedDropCancel \/ SchedSend
  <2>1. CASE SchedDropCancel
    <3>1. sched'.pc = "send"
      BY <1>1, <2>1 DEF SchedDropCancel, SchedRecords
    <3> QED BY <1>2, <3>1 DEF QuietInv, StillQueued, StaysFree, Awake
  <2>2. CASE SchedSend
    <3> DEFINE todo == sched.todo \ {Min(sched.todo)}
    <3>1. sched' = SchedIdle \/ sched' = [sched EXCEPT !.pc = "dispatch", !.todo = todo]
      BY <2>2 DEF SchedSend
    <3> HIDE DEF todo
    <3>2. SchedIdle.pc = "try" /\ [sched EXCEPT !.pc = "dispatch", !.todo = todo].pc = "dispatch"
      BY <1>1 DEF SchedIdle, SchedRecords
    <3>3. sched'.pc \in {"try", "dispatch"}
      BY <3>1, <3>2
    <3> QED BY <1>2, <3>3 DEF QuietInv, StillQueued, StaysFree, Awake
  <2> QED BY <1>8, <2>1, <2>2
<1>9. CASE SchedPark
  <2>1. sched.pc = "exit" /\ sched'.pc = "wait" /\ UNCHANGED <<jobs, pending, nodes, kick>>
    BY <1>9 DEF SchedPark, jmVars, SchedIdle
  <2>2. Awake'
    <3> SUFFICES ASSUME HasPending', ~kick', ~\E u \in Threads : WillKick(u)'
                 PROVE  SelectGang(jobs[PeekPending].spec)' = {}
      BY DEF Awake
    <3>1. HasPending /\ ~kick /\ \A u \in Threads : ~WillKick(u)
      BY <1>1, <2>1 DEF HasPending, WillKick
    <3>2. SelectGang(jobs[PeekPending].spec) = {}
      BY <2>1, <3>1 DEF QuietInv, Awake
    <3> QED BY <2>1, <3>2 DEF SelectGang, nodeFits, FreeCPUs, PeekPending
  <2> QED BY <1>2, <2>1, <2>2 DEF QuietInv, StillQueued, StaysFree
<1>10. CASE SchedWake \/ SchedTick
  <2>1. sched'.pc = "try"
    BY <1>10 DEF SchedWake, SchedTick, SchedIdle
  <2> QED BY <1>2, <2>1 DEF QuietInv, StillQueued, StaysFree, Awake
<1> QED BY <1>3, <1>4, <1>5, <1>6, <1>7, <1>8, <1>9, <1>10 DEF SchedulerNext, SchedStep

-------------------------------------------------------------------------------
(* No wakeup is lost *)

LEMMA QuietInit == Init => QuietInv
<1> SUFFICES ASSUME Init PROVE QuietInv
  OBVIOUS
<1>1. /\ \A n \in Nodes : nodes[n].status = "absent"
      /\ \A t \in Threads : th[t].pc = "idle"
      /\ sched.pc = "try"
  BY DEF Init, RegInit, Unregistered, Idle, SchedInit, SchedIdle
<1> QED BY <1>1, ThreadIds DEF QuietInv, NothingLost, NothingCancelled, StillQueued, Announced,
                               Registered, StaysFree, Awake, At

LEMMA QuietRests == ASSUME QuietInv, UNCHANGED tableVars PROVE QuietInv'
<1> USE DEF tableVars, jmVars, schedVars
<1>1. NothingLost' /\ NothingCancelled' /\ Announced'
  BY DEF QuietInv, NothingLost, NothingCancelled, Announced, Registered, At
<1>2. StillQueued' /\ StaysFree'
  BY DEF QuietInv, StillQueued, StaysFree, CanReserve, HasPending, PeekPending
<1>3. Awake'
  BY DEF QuietInv, Awake, HasPending, PeekPending, WillKick, SelectGang, nodeFits, FreeCPUs
<1> QED BY <1>1, <1>2, <1>3 DEF QuietInv

LEMMA QuietNext == QuietBase /\ QuietInv /\ [Next]_vars => QuietInv'
<1>1. UNCHANGED vars => UNCHANGED tableVars
  BY DEF vars, tableVars
<1> QED BY <1>1, NextSplits, QuietMoves, QuietSchedules, QuietRests

LEMMA QuietKept ==
  QuietBase /\ QuietInv /\ CtrlInv' /\ ResInv' /\ ([Next]_vars \/ UNCHANGED tableVars)
    => (QuietBase /\ QuietInv)'
<1>1. QuietCluster => LossesApart
  BY DEF QuietCluster, LossesApart
<1>2. QuietBase /\ LostInv' /\ CtrlInv' /\ ResInv' => QuietBase'
  BY DEF QuietBase, QuietCluster
<1> QED BY <1>1, <1>2, LostNext, LostRests, QuietNext, QuietRests DEF QuietBase

LEMMA QuietStart == ASSUME QuietCluster PROVE Init => QuietBase /\ QuietInv
BY CtrlInit, ResInit, LostInit, QuietInit DEF QuietBase

LEMMA QuietInvariant == ASSUME QuietCluster PROVE Spec => [](QuietBase /\ QuietInv)
BY QuietStart, QuietKept, ControllerInvariant, ReservationInvariant, PTL DEF Spec

\* Without cancels and node losses, trySchedule never goes to sleep over a job that
\* fits: whatever registrations, submissions, reports and releases come between its
\* look at the queue, its look at the nodes and its wait, the channel of kicks holds
\* one or a handler is about to send one.
THEOREM NoWakeupLost == ASSUME QuietCluster PROVE Spec => []NoLostWakeup
<1>1. QuietInv => NoLostWakeup
  BY DEF QuietInv, Awake, NoLostWakeup, WillKick, Ending
<1> QED BY <1>1, QuietCluster, QuietInvariant, PTL

-------------------------------------------------------------------------------
(* 3. Nodes of running jobs *)

\* A report in hand is of a node of the job's gang; while it may be the one to free
\* the gang, the node is marked with the job.
ReportsHold ==
  \A n \in Nodes, j \in JobIds :
    LET r == th[<<"report", n, j>>] IN
      /\ r.pc \in {"report", "clear", "after", "release"} =>
           n \in jobs[j].assigned /\ (r.fresh => nodes[n].job = j)
      /\ r.pc = "release" => r.fresh /\ Terminal(jobs[j].status)

\* Only reports free nodes.
ReportsEnd == \A t \in Threads : At(t, "release") => t[1] = "report"

\* What ReserveNodes has marked stays marked until the job is started.
PlacedMarked == sched.pc = "mark" => \A n \in sched.gang : nodes[n].job = sched.job

SoloInv == ReportsHold /\ ReportsEnd /\ PlacedMarked /\ RunningHoldsGang

SoloBase == SingleNodeJobs /\ QuietBase /\ QuietInv

-------------------------------------------------------------------------------
(* Who frees a node *)

\* A gang of a single-node job is one node.
LEMMA OneInGang ==
  ASSUME SoloBase, NEW j \in JobIds, NEW n \in jobs[j].assigned, NEW m \in jobs[j].assigned
  PROVE  n = m
<1>1. jobs[j].spec.nodes <= 1 /\ jobs[j].assigned \in SUBSET Nodes
      /\ Cardinality(jobs[j].assigned) = jobs[j].spec.nodes
  BY DEF SoloBase, SingleNodeJobs, QuietBase, CtrlInv, TypeOK, JMTypeOK, JobRecords, NoSpec, GangIsComplete
<1> QED BY <1>1, OneOfOne

\* A release frees the one node of a job that has ended, and which is still marked.
LEMMA ReleaseFreesEnded ==
  ASSUME SoloBase, SoloInv, NEW t \in Threads, Release(t), NEW m \in th[t].gang
  PROVE  \E j \in JobIds : t = <<"report", m, j>> /\ nodes[m].job = j /\ Terminal(jobs[j].status)
                           /\ th[t].pc = "release"
<1>1. th[t].pc = "release" /\ t[1] = "report"
  BY DEF Release, At, SoloInv, ReportsEnd
<1>2. PICK n \in Nodes, j \in JobIds : t = <<"report", n, j>>
  BY <1>1 DEF Threads, Monitor
<1>3. CallKnows(t)
  BY DEF SoloBase, QuietBase, ResInv, ResBase, CallsKnow
<1>4. t # Monitor /\ t[3] = j
  BY <1>2 DEF Monitor
<1>5. th[t].gang = jobs[j].assigned
  BY <1>1, <1>3, <1>4 DEF CallKnows, Begun, Ending
<1>6. n \in jobs[j].assigned /\ nodes[n].job = j /\ Terminal(jobs[j].status)
  BY <1>1, <1>2 DEF SoloInv, ReportsHold
<1>7. m = n
  BY <1>5, <1>6, OneInGang
<1> QED BY <1>1, <1>2, <1>6, <1>7

\* A handler unmarks a node only then.
LEMMA UnmarkedByRelease ==
  ASSUME SoloBase, SoloInv, QuietMove, NEW m \in Nodes, NEW k \in JobIds,
         nodes[m].job = k, nodes'[m].job # k
  PROVE  /\ Terminal(jobs[k].status)
         /\ th[<<"report", m, k>>].pc = "release" /\ Release(<<"report", m, k>>)
<1>1. nodes \in [Nodes -> NodeRecords]
  BY DEF SoloBase, QuietBase, CtrlInv, TypeOK
<1>2. PICK t \in Threads : Release(t) /\ m \in th[t].gang
  <2>1. ~(nodes' = nodes)
    OBVIOUS
  <2>2. ASSUME NEW n \in Nodes, Register(n) PROVE FALSE
    BY <1>1, <2>2 DEF Register, RegisterNode, NodeRecords
  <2>3. PICK t \in Threads : Release(t)
    BY <2>1, <2>2 DEF QuietMove, SubmitDraw, SubmitStore, ReportGet, ReportApply, ReportClear,
                      ReportAfter, ThreadStep, NotifySet, NotifySend, KickStep
  <2>4. m \in th[t].gang
    BY <1>1, <2>3 DEF Release, ReleaseNodes
  <2> QED BY <2>3, <2>4
<1> QED BY <1>2, ReleaseFreesEnded

\* The scheduler unmarks nothing.
LEMMA MarkedStays ==
  ASSUME SoloBase, SchedulerNext, NEW m \in Nodes, nodes[m].job # NoJob
  PROVE  nodes'[m].job = nodes[m].job
<1>1. ~SchedUndo
  BY DEF SoloBase, QuietInv, StillQueued, SchedUndo
<1>2. CASE SchedReserve
  BY <1>2 DEF SchedReserve, ReserveNodes, CanReserve
<1> QED BY <1>1, <1>2 DEF SchedulerNext, SchedStep, SchedTick, SchedPeek, SchedSelect, SchedMark,
                        SchedDropCancel, SchedSend, SchedPark, SchedWake

-------------------------------------------------------------------------------
(* What handlers do *)

\* A report's place is changed by its own steps only.
LEMMA MovedReport ==
  ASSUME CtrlInv, QuietMove, NEW n \in Nodes, NEW j \in JobIds,
         th'[<<"report", n, j>>] # th[<<"report", n, j>>]
  PROVE  \/ ReportGet(n, j) \/ ReportApply(n, j) \/ ReportClear(n, j) \/ ReportAfter(n, j)
         \/ ThreadStep(<<"report", n, j>>)
<1> DEFINE u == <<"report", n, j>>
<1>1. u \in Threads /\ th \in [Threads -> ThreadRecords]
  BY ThreadIds DEF CtrlInv, TypeOK
<1>2. ASSUME NEW m \in Nodes, Register(m) PROVE th'[u] = th[u]
  BY <1>1, <1>2 DEF Register, Goto
<1>3. ASSUME NEW k \in JobIds, SubmitDraw(k) \/ SubmitStore(k) PROVE th'[u] = th[u]
  BY <1>1, <1>3 DEF SubmitDraw, SubmitStore, Goto
<1>4. ASSUME NEW m \in Nodes, NEW k \in JobIds, m # n \/ k # j,
             ReportGet(m, k) \/ ReportApply(m, k) \/ ReportClear(m, k) \/ ReportAfter(m, k)
      PROVE  th'[u] = th[u]
  BY <1>1, <1>4 DEF ReportGet, ReportApply, ReportClear, ReportAfter, Goto, Done, Over
<1>5. ASSUME NEW t \in Threads, t # u, ThreadStep(t) PROVE th'[u] = th[u]
  BY <1>1, <1>5 DEF ThreadStep, Release, NotifySet, NotifySend, KickStep, Goto, Done, Over
<1> QED BY <1>2, <1>3, <1>4, <1>5 DEF QuietMove

\* What handlers do to the job table: a new job, or a report that ends one.
LEMMA QuietJobs ==
  ASSUME QuietMove
  PROVE  \/ jobs' = jobs
         \/ \E k \in JobIds, spec \in Specs : SubmitStore(k) /\ jobs' = [jobs EXCEPT ![k] = NewJob(spec)]
                                              /\ jobs[k].status = "absent"
         \/ \E m \in Nodes, k \in JobIds, to \in {"completed", "failed"} :
              ReportApply(m, k) /\ \E exit : Finish(k, to, exit)
<1>1. ASSUME NEW k \in JobIds, SubmitStore(k)
      PROVE  \E spec \in Specs : jobs' = [jobs EXCEPT ![k] = NewJob(spec)] /\ jobs[k].status = "absent"
  BY <1>1 DEF SubmitStore, Submit
<1>2. ASSUME NEW m \in Nodes, NEW k \in JobIds, ReportApply(m, k)
      PROVE  jobs' = jobs \/ \E to \in {"completed", "failed"} : \E exit : Finish(k, to, exit)
  BY <1>2 DEF ReportApply, ReportNodeEvent, IgnoreReport, AcceptReport, jmVars
<1>3. \/ jobs' = jobs
      \/ \E k \in JobIds : SubmitStore(k)
      \/ \E m \in Nodes, k \in JobIds : ReportApply(m, k)
  BY DEF QuietMove, Register, SubmitDraw, ReportGet, ReportClear, ReportAfter, ThreadStep,
         Release, NotifySet, NotifySend, KickStep, jmVars
<1> QED BY <1>1, <1>2, <1>3

\* No handler starts a job.
LEMMA NothingStarts ==
  ASSUME QuietBase, QuietInv, QuietMove, NEW j \in JobIds, jobs'[j].status = "running"
  PROVE  jobs[j].status = "running" /\ jobs'[j].assigned = jobs[j].assigned
<1>1. jobs \in [JobIds -> JobRecords]
  BY DEF QuietBase, CtrlInv, TypeOK, JMTypeOK
<1>2. \/ jobs' = jobs
      \/ \E k \in JobIds, spec \in Specs : jobs' = [jobs EXCEPT ![k] = NewJob(spec)]
      \/ \E k \in JobIds, to \in {"completed", "failed"} : \E exit : Finish(k, to, exit)
  BY QuietJobs
<1>3. ASSUME NEW k \in JobIds, NEW spec \in Specs, jobs' = [jobs EXCEPT ![k] = NewJob(spec)]
      PROVE  jobs'[j] = jobs[j]
  BY <1>1, <1>3 DEF NewJob
<1>4. ASSUME NEW k \in JobIds, NEW to, NEW exit, to # "running", Finish(k, to, exit)
      PROVE  jobs'[j] = jobs[j]
  BY <1>1, <1>4 DEF Finish, JobRecords
<1> QED BY <1>2, <1>3, <1>4

\* The report of node n for job j that does not move.
LEMMA OtherReports ==
  ASSUME SoloBase, SoloInv, HandlerMove, NEW n \in Nodes, NEW j \in JobIds,
         th'[<<"report", n, j>>] = th[<<"report", n, j>>]
  PROVE  LET r == th'[<<"report", n, j>>] IN
           /\ r.pc \in {"report", "clear", "after", "release"} =>
                n \in jobs'[j].assigned /\ (r.fresh => nodes'[n].job = j)
           /\ r.pc = "release" => r.fresh /\ Terminal(jobs'[j].status)
<1> DEFINE u == <<"report", n, j>>
<1>1. QuietMove /\ JobsOnward
  BY MovesAreQuiet, MoveIsStep, Onward
     DEF SoloBase, QuietBase, HandlerStep, CtrlInv, TypeOK, ResInv, ResBase
<1>2. u \in Threads /\ th[u] \in ThreadRecords
  BY ThreadIds DEF SoloBase, QuietBase, CtrlInv, TypeOK
<1>3. ASSUME nodes[n].job = j, nodes'[n].job # j PROVE FALSE
  <2>1. Release(u) /\ th[u].pc = "release"
    BY <1>1, <1>3, UnmarkedByRelease
  <2>2. Over(u, "kick") \/ Goto(u, "notify")
    BY <2>1 DEF Release, Monitor
  <2>3. th'[u].pc \in {"kick", "notify"}
    BY <1>2, <2>2, GotoFields, OverFields DEF SoloBase, QuietBase, CtrlInv
  <2> QED BY <2>1, <2>3
<1>4. Terminal(jobs[j].status) => Terminal(jobs'[j].status)
  BY <1>1 DEF JobsOnward
<1>5. n \in jobs[j].assigned => n \in jobs'[j].assigned
  BY <1>1 DEF JobsOnward
<1> QED BY <1>3, <1>4, <1>5 DEF SoloInv, ReportsHold

\* The report that moves.
LEMMA MovingReport ==
  ASSUME SoloBase, SoloInv, NEW n \in Nodes, NEW j \in JobIds,
         \/ ReportGet(n, j) \/ ReportApply(n, j) \/ ReportClear(n, j) \/ ReportAfter(n, j)
         \/ ThreadStep(<<"report", n, j>>)
  PROVE  LET r == th'[<<"report", n, j>>] IN
           /\ r.pc \in {"report", "clear", "after", "release"} =>
                n \in jobs'[j].assigned /\ (r.fresh => nodes'[n].job = j)
           /\ r.pc = "release" => r.fresh /\ Terminal(jobs'[j].status)
<1> DEFINE u == <<"report", n, j>>
           Good == /\ th'[u].pc \in {"report", "clear", "after", "release"} =>
                        n \in jobs'[j].assigned /\ (th'[u].fresh => nodes'[n].job = j)
                   /\ th'[u].pc = "release" => th'[u].fresh /\ Terminal(jobs'[j].status)
<1>1. u \in Threads /\ th \in [Threads -> ThreadRecords] /\ th[u] \in ThreadRecords
      /\ u # Monitor /\ CtrlInv /\ TypeOK
  BY ThreadIds DEF SoloBase, QuietBase, CtrlInv, TypeOK, Monitor
<1>2. HandlerMove
  BY <1>1 DEF HandlerMove
<1>3. JobsOnward
  BY <1>2, MoveIsStep, Onward
     DEF SoloBase, QuietBase, HandlerStep, CtrlInv, TypeOK, ResInv, ResBase
<1>4. /\ th[u].pc \in {"report", "clear", "after", "release"} =>
           n \in jobs[j].assigned /\ (th[u].fresh => nodes[n].job = j)
      /\ th[u].pc = "release" => th[u].fresh /\ Terminal(jobs[j].status)
  BY DEF SoloInv, ReportsHold
<1>5. n \in jobs[j].assigned => n \in jobs'[j].assigned
  BY <1>3 DEF JobsOnward
<1> HIDE DEF u
<1>6. CASE ReportGet(n, j)
  <2>1. n \in jobs[j].assigned /\ UNCHANGED nodes
    BY <1>6 DEF ReportGet
  <2> DEFINE f == ~Terminal(jobs[j].status)
  <2>2. th'[u].pc \in {"ack", "report"} /\ th'[u].fresh = f
    <3>1. PICK event \in Events :
            th' = [th EXCEPT ![u] = [th[u] EXCEPT !.pc = IF event = "cancelled" THEN "ack" ELSE "report",
                                                  !.event = event, !.job = j, !.fresh = f]]
      BY <1>6 DEF ReportGet, u
    <3> DEFINE pc == IF event = "cancelled" THEN "ack" ELSE "report"
               r == [th[u] EXCEPT !.pc = pc, !.event = event, !.job = j, !.fresh = f]
    <3>2. pc \in {"ack", "report"} /\ th' = [th EXCEPT ![u] = r]
      BY <3>1
    <3> HIDE DEF pc, f
    <3>3. r.pc = pc /\ r.fresh = f
      BY <1>1 DEF ThreadRecords
    <3> HIDE DEF r
    <3> QED BY <1>1, <3>2, <3>3
  <2>3. ~Terminal(jobs[j].status) => nodes[n].job = j
    BY <1>1, <2>1, StartedRuns DEF SoloInv, RunningHoldsGang, SoloBase, QuietBase, ResInv
  <2> QED BY <1>5, <2>1, <2>2, <2>3 DEF u
<1>7. CASE ReportApply(n, j)
  <2>1. th[u].pc = "report" /\ UNCHANGED nodes
    BY <1>7 DEF ReportApply, At, u
  <2>2. th'[u].pc = "clear" /\ th'[u].fresh = th[u].fresh
    BY <1>1, <1>7 DEF ReportApply, ThreadRecords, u
  <2> QED BY <1>4, <1>5, <2>1, <2>2 DEF u
<1>8. CASE ReportClear(n, j)
  <2>1. UNCHANGED nodes
    BY <1>8 DEF ReportClear
  <2>2. \/ th[u].pc = "clear" /\ Goto(u, "after")
        \/ Over(u, "done")
    BY <1>8 DEF ReportClear, At, Done, u
  <2>3. \/ th[u].pc = "clear" /\ th'[u].pc = "after" /\ th'[u].fresh = th[u].fresh
        \/ th'[u].pc = "done"
    BY <1>1, <2>2, GotoFields, OverFields
  <2> QED BY <1>4, <1>5, <2>1, <2>3 DEF u
<1>9. CASE ReportAfter(n, j)
  <2>1. th[u].pc = "after" /\ UNCHANGED <<nodes, jobs>>
    BY <1>9 DEF ReportAfter, At, jmVars, u
  <2>2. CASE Terminal(jobs[j].status) /\ th[u].fresh
    <3> DEFINE todo == IF jobs[j].status = "failed" THEN jobs[j].assigned \ {n} ELSE {}
               r == [th[u] EXCEPT !.pc = "release", !.gang = jobs[j].assigned,
                                  !.cpus = jobs[j].spec.cpus, !.todo = todo]
    <3>1. th'[u].fresh = th[u].fresh
      <4>1. th' = [th EXCEPT ![u] = r]
        BY <1>9, <2>2 DEF ReportAfter, u
      <4> HIDE DEF todo
      <4>2. r.fresh = th[u].fresh
        BY <1>1 DEF ThreadRecords
      <4> HIDE DEF r
      <4> QED BY <1>1, <4>1, <4>2
    <3> QED BY <1>4, <2>1, <2>2, <3>1 DEF u
  <2>3. CASE ~(Terminal(jobs[j].status) /\ th[u].fresh)
    <3>1. Over(u, "done")
      BY <1>9, <2>3 DEF ReportAfter, Done, u
    <3>2. th'[u].pc = "done"
      BY <1>1, <3>1, OverFields
    <3> QED BY <3>2 DEF u
  <2> QED BY <2>2, <2>3
<1>10. CASE ThreadStep(u)
  <2>1. th'[u].pc \in {"kick", "notify", "tell", "done"}
    <3>1. CASE Release(u)
      BY <1>1, <3>1, GotoFields, OverFields DEF Release
    <3>2. CASE NotifySet(u)
      BY <1>1, <3>2, GotoFields DEF NotifySet
    <3>3. CASE NotifySend(u)
      <4>1. \/ Over(u, "kick")
            \/ \E todo : th' = [th EXCEPT ![u] = [@ EXCEPT !.pc = "notify", !.todo = todo]]
        BY <1>1, <3>3 DEF NotifySend
      <4>2. ASSUME NEW todo, th' = [th EXCEPT ![u] = [@ EXCEPT !.pc = "notify", !.todo = todo]]
            PROVE  th'[u].pc = "notify"
        BY <1>1, <4>2 DEF ThreadRecords
      <4> QED BY <1>1, <4>1, <4>2, OverFields
    <3>4. CASE KickStep(u)
      <4>1. Over(u, "done")
        BY <3>4 DEF KickStep, Done, u
      <4> QED BY <1>1, <4>1, OverFields
    <3> QED BY <1>10, <3>1, <3>2, <3>3, <3>4 DEF ThreadStep
  <2> QED BY <2>1 DEF u
<1> QED BY <1>6, <1>7, <1>8, <1>9, <1>10 DEF u

\* Only ReportAfter sends a call to release.
LEMMA EndingReports ==
  ASSUME SoloBase, SoloInv, QuietMove, NEW t \in Threads, th'[t].pc = "release"
  PROVE  t[1] = "report"
<1>1. th \in [Threads -> ThreadRecords] /\ TypeOK
  BY DEF SoloBase, QuietBase, CtrlInv, TypeOK
<1>2. CASE th'[t] = th[t]
  BY <1>2 DEF SoloInv, ReportsEnd, At
<1>3. ASSUME NEW n \in Nodes, Register(n), t = <<"register", n, 0>> PROVE FALSE
  BY <1>1, <1>3, GotoFields DEF Register
<1>4. ASSUME NEW j \in JobIds, SubmitDraw(j) \/ SubmitStore(j), t = <<"submit", 0, j>> PROVE FALSE
  BY <1>1, <1>4, GotoFields DEF SubmitDraw, SubmitStore
<1>5. ASSUME ThreadStep(t) PROVE FALSE
  <2>1. t # Monitor
    BY <1>5, NoMonitor DEF SoloBase
  <2>2. CASE Release(t)
    BY <1>1, <2>1, <2>2, GotoFields, OverFields DEF Release
  <2>3. CASE NotifySet(t)
    BY <1>1, <2>3, GotoFields DEF NotifySet
  <2>4. CASE NotifySend(t)
    <3>1. \/ Over(t, "kick")
          \/ \E todo : th' = [th EXCEPT ![t] = [@ EXCEPT !.pc = "notify", !.todo = todo]]
      BY <2>1, <2>4 DEF NotifySend
    <3>2. ASSUME NEW todo, th' = [th EXCEPT ![t] = [@ EXCEPT !.pc = "notify", !.todo = todo]]
          PROVE  th'[t].pc = "notify"
      BY <1>1, <3>2 DEF ThreadRecords
    <3> QED BY <1>1, <3>1, <3>2, OverFields
  <2>5. CASE KickStep(t)
    <3>1. th' = [th EXCEPT ![t] = Idle] \/ Over(t, "done")
      BY <2>5 DEF KickStep, Done
    <3> QED BY <1>1, <3>1, OverFields DEF Idle
  <2> QED BY <1>5, <2>2, <2>3, <2>4, <2>5 DEF ThreadStep
<1>6. ASSUME NEW n \in Nodes, Register(n), t # <<"register", n, 0>> PROVE th'[t] = th[t]
  BY <1>1, <1>6 DEF Register, Goto
<1>7. ASSUME NEW j \in JobIds, SubmitDraw(j) \/ SubmitStore(j), t # <<"submit", 0, j>>
      PROVE  th'[t] = th[t]
  BY <1>1, <1>7 DEF SubmitDraw, SubmitStore, Goto
<1>8. ASSUME NEW n \in Nodes, NEW j \in JobIds,
             ReportGet(n, j) \/ ReportApply(n, j) \/ ReportClear(n, j) \/ ReportAfter(n, j),
             t # <<"report", n, j>>
      PROVE  th'[t] = th[t]
  BY <1>1, <1>8 DEF ReportGet, ReportApply, ReportClear, ReportAfter, Goto, Done, Over
<1>9. ASSUME NEW u \in Threads, ThreadStep(u), t # u PROVE th'[t] = th[t]
  BY <1>1, <1>9 DEF ThreadStep, Release, NotifySet, NotifySend, KickStep, Goto, Done, Over
<1> QED BY <1>2, <1>3, <1>4, <1>5, <1>6, <1>7, <1>8, <1>9 DEF QuietMove

LEMMA SoloMoves == ASSUME SoloBase, SoloInv, HandlerMove PROVE SoloInv'
<1>1. QuietMove /\ JobsOnward /\ sched' = sched
  BY MovesAreQuiet, MoveIsStep, Onward
     DEF SoloBase, QuietBase, HandlerStep, CtrlInv, TypeOK, ResInv, ResBase
<1>2. ReportsHold'
  <2> DEFINE Good(n, j) ==
        LET r == th'[<<"report", n, j>>] IN
          /\ r.pc \in {"report", "clear", "after", "release"} =>
               n \in jobs'[j].assigned /\ (r.fresh => nodes'[n].job = j)
          /\ r.pc = "release" => r.fresh /\ Terminal(jobs'[j].status)
  <2>1. ASSUME NEW n \in Nodes, NEW j \in JobIds PROVE Good(n, j)
    <3> DEFINE u == <<"report", n, j>>
    <3>1. u \in Threads
      BY ThreadIds
    <3>2. CASE th'[u] = th[u]
      BY <3>2, OtherReports
    <3>3. CASE th'[u] # th[u]
      <4>1. \/ ReportGet(n, j) \/ ReportApply(n, j) \/ ReportClear(n, j) \/ ReportAfter(n, j)
            \/ ThreadStep(u)
        BY <1>1, <3>1, <3>3, MovedReport DEF SoloBase, QuietBase
      <4> QED BY <4>1, MovingReport
    <3> QED BY <3>2, <3>3
  <2> QED BY <2>1 DEF ReportsHold
<1>3. ReportsEnd'
  BY <1>1, EndingReports DEF ReportsEnd, At
<1>4. PlacedMarked'
  <2> SUFFICES ASSUME sched.pc = "mark", NEW n \in sched.gang PROVE nodes'[n].job = sched.job
    BY <1>1 DEF PlacedMarked
  <2>1. sched.job \in JobIds /\ n \in Nodes
    BY PlacedWhen DEF SoloBase, QuietBase, Placed
  <2>2. nodes[n].job = sched.job /\ ~Terminal(jobs[sched.job].status)
    BY DEF SoloInv, PlacedMarked, SoloBase, QuietInv, StillQueued, Terminal
  <2> QED BY <1>1, <2>1, <2>2, UnmarkedByRelease
<1>5. RunningHoldsGang'
  <2> SUFFICES ASSUME NEW j \in JobIds, jobs'[j].status = "running", NEW n \in jobs'[j].assigned
               PROVE  nodes'[n].job = j
    BY DEF RunningHoldsGang
  <2>1. jobs[j].status = "running" /\ jobs'[j].assigned = jobs[j].assigned
    BY <1>1, NothingStarts DEF SoloBase
  <2>2. n \in Nodes /\ nodes[n].job = j
    BY <2>1 DEF SoloInv, RunningHoldsGang, SoloBase, QuietBase, CtrlInv, TypeOK, JMTypeOK, JobRecords
  <2> QED BY <1>1, <2>1, <2>2, UnmarkedByRelease DEF Terminal
<1> QED BY <1>2, <1>3, <1>4, <1>5 DEF SoloInv

LEMMA SoloSchedules == ASSUME SoloBase, SoloInv, SchedulerNext PROVE SoloInv'
<1>1. th' = th /\ CtrlInv /\ sched \in SchedRecords /\ JobsOnward
  BY SchedBase DEF SchedulerNext, SoloBase, QuietBase, CtrlInv, TypeOK
<1>2. ReportsHold'
  <2>1. ASSUME NEW n \in Nodes, NEW j \in JobIds
        PROVE  /\ n \in jobs[j].assigned => n \in jobs'[j].assigned
               /\ nodes[n].job = j => nodes'[n].job = j
               /\ Terminal(jobs[j].status) => Terminal(jobs'[j].status)
    <3>1. j # NoJob
      BY JobIdsAssumption DEF NoJob
    <3> QED BY <1>1, <3>1, MarkedStays DEF JobsOnward
  <2>2. ASSUME NEW n \in Nodes, NEW j \in JobIds
        PROVE  LET r == th'[<<"report", n, j>>] IN
                 /\ r.pc \in {"report", "clear", "after", "release"} =>
                      n \in jobs'[j].assigned /\ (r.fresh => nodes'[n].job = j)
                 /\ r.pc = "release" => r.fresh /\ Terminal(jobs'[j].status)
    BY <1>1, <2>1 DEF SoloInv, ReportsHold
  <2> QED BY <2>2 DEF ReportsHold
<1>3. ReportsEnd'
  BY <1>1 DEF SoloInv, ReportsEnd, At
<1>4. PlacedMarked'
  <2> SUFFICES ASSUME sched'.pc = "mark", NEW n \in sched'.gang PROVE nodes'[n].job = sched'.job
    BY DEF PlacedMarked
  <2>1. SchedReserve /\ sched.pc = "reserve" /\ sched' = [sched EXCEPT !.pc = "mark"]
        /\ ReserveNodes(sched.job, sched.gang, sched.spec.cpus)
    <3>1. SchedReserve
      <4>1. ~SchedPeek /\ ~SchedSelect /\ ~SchedMark /\ ~SchedUndo
        BY <1>1 DEF SchedPeek, SchedSelect, SchedMark, SchedUndo, SchedIdle, SchedRecords
      <4>2. ~SchedDropCancel /\ ~SchedPark /\ ~SchedWake /\ ~SchedTick
        BY <1>1 DEF SchedDropCancel, SchedPark, SchedWake, SchedTick, SchedIdle, SchedRecords
      <4>3. ~SchedSend
        <5> DEFINE todo == sched.todo \ {Min(sched.todo)}
        <5>1. SchedSend => sched' = SchedIdle \/ sched' = [sched EXCEPT !.pc = "dispatch", !.todo = todo]
          BY DEF SchedSend
        <5> HIDE DEF todo
        <5>2. SchedIdle.pc = "try" /\ [sched EXCEPT !.pc = "dispatch", !.todo = todo].pc = "dispatch"
          BY <1>1 DEF SchedIdle, SchedRecords
        <5> QED BY <5>1, <5>2
      <4> QED BY <4>1, <4>2, <4>3 DEF SchedulerNext, SchedStep
    <3> QED BY <3>1 DEF SchedReserve, SchedIdle
  <2>2. sched'.gang = sched.gang /\ sched'.job = sched.job
    BY <1>1, <2>1 DEF SchedRecords
  <2>3. n \in Nodes /\ n \in sched.gang
    BY <1>1, <2>2 DEF SchedRecords
  <2>4. nodes'[n] = [nodes[n] EXCEPT !.alloc = @ + sched.spec.cpus, !.job = sched.job]
    BY <2>1, <2>3 DEF ReserveNodes
  <2>5. nodes[n] \in NodeRecords
    BY <1>1, <2>3 DEF CtrlInv, TypeOK
  <2> QED BY <2>2, <2>4, <2>5 DEF NodeRecords
<1>5. RunningHoldsGang'
  <2> SUFFICES ASSUME NEW j \in JobIds, jobs'[j].status = "running", NEW n \in jobs'[j].assigned
               PROVE  nodes'[n].job = j
    BY DEF RunningHoldsGang
  <2>1. j # NoJob
    BY JobIdsAssumption DEF NoJob
  <2>2. n \in Nodes /\ nodes[n].job = j
    <3>1. CASE jobs'[j] = jobs[j]
      BY <3>1 DEF SoloInv, RunningHoldsGang, SoloBase, QuietBase, CtrlInv, TypeOK, JMTypeOK, JobRecords
    <3>2. CASE jobs'[j] # jobs[j]
      <4>1. SchedMark /\ jobs' # jobs
        BY <3>2 DEF SchedulerNext, SchedStep, SchedPeek, SchedSelect, SchedReserve, SchedUndo,
                    SchedDropCancel, SchedSend, SchedPark, SchedWake, SchedTick, jmVars
      <4>2. sched.pc = "mark" /\ MarkRunning(sched.job, sched.gang)
        BY <4>1 DEF SchedMark, jmVars
      <4>3. j = sched.job /\ jobs'[j].assigned = sched.gang
        BY <1>1, <3>2, <4>2 DEF MarkRunning, CtrlInv, TypeOK, JMTypeOK, JobRecords
      <4> QED BY <1>1, <4>2, <4>3 DEF SoloInv, PlacedMarked, SchedRecords
    <3> QED BY <3>1, <3>2
  <2> QED BY <2>1, <2>2, MarkedStays
<1> QED BY <1>2, <1>3, <1>4, <1>5 DEF SoloInv

-------------------------------------------------------------------------------
(* Running jobs hold their gangs *)

LEMMA SoloInit == Init => SoloInv
<1> SUFFICES ASSUME Init PROVE SoloInv
  OBVIOUS
<1>1. /\ \A j \in JobIds : jobs[j].status = "absent"
      /\ \A t \in Threads : th[t].pc = "idle"
      /\ sched.pc = "try"
  BY DEF Init, JMInit, NoJobRecord, Idle, SchedInit, SchedIdle
<1> QED BY <1>1, ThreadIds DEF SoloInv, ReportsHold, ReportsEnd, PlacedMarked, RunningHoldsGang, At

LEMMA SoloRests == ASSUME SoloInv, UNCHANGED tableVars PROVE SoloInv'
BY DEF tableVars, jmVars, schedVars, SoloInv, ReportsHold, ReportsEnd, PlacedMarked, RunningHoldsGang, At

LEMMA SoloNext == SoloBase /\ SoloInv /\ [Next]_vars => SoloInv'
<1>1. UNCHANGED vars => UNCHANGED tableVars
  BY DEF vars, tableVars
<1> QED BY <1>1, NextSplits, SoloMoves, SoloSchedules, SoloRests

LEMMA SoloInvariant == ASSUME QuietCluster, SingleNodeJobs PROVE Spec => [](SoloBase /\ SoloInv)
<1>1. QuietBase /\ QuietInv => SoloBase
  BY SingleNodeJobs DEF SoloBase
<1> QED BY <1>1, QuietCluster, QuietInvariant, SoloInit, SoloNext, PTL DEF Spec

\* Without cancels, node losses and gangs of several nodes, a running job has its node
\* to itself: no late or repeated release, no registration and no reservation takes
\* the node's mark away or gives it to another job before the job's own report does.
THEOREM RunningHeld == ASSUME QuietCluster, SingleNodeJobs PROVE Spec => []RunningHoldsGang
<1>1. SoloInv => RunningHoldsGang
  BY DEF SoloInv
<1> QED BY <1>1, QuietCluster, SingleNodeJobs, SoloInvariant, PTL

-------------------------------------------------------------------------------
(* For the controller with real agents *)

\* The two invariants together, after a step of the controller or one that leaves
\* all of it but the hub alone.
LEMMA SoloKept ==
  ASSUME SoloBase, SoloInv, CtrlInv', ResInv', [Next]_vars \/ UNCHANGED tableVars
  PROVE  (SoloBase /\ SoloInv)'
<1>1. (QuietBase /\ QuietInv)'
  BY QuietKept DEF SoloBase
<1>2. SoloBase'
  BY <1>1 DEF SoloBase, SingleNodeJobs
<1> QED BY <1>2, SoloNext, SoloRests

LEMMA SoloStart == ASSUME QuietCluster, SingleNodeJobs PROVE Init => SoloBase /\ SoloInv
BY QuietStart, SoloInit DEF SoloBase

===============================================================================
