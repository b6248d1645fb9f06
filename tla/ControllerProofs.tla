---------------------------- MODULE ControllerProofs ----------------------------
(***************************************************************************)
(* The controller, for any number of jobs, nodes and concurrent calls:     *)
(* its state is well typed, it uses the job manager as JobManager assumes  *)
(* (so the manager's theorems hold of the whole process), a job that was   *)
(* started was given a complete gang, and every reservation and every CPU  *)
(* accounted for is backed by a job that is being placed or runs, or by a  *)
(* call in flight that will release it.                                    *)
(***************************************************************************)
EXTENDS Controller, JobManagerProofs, HubProofs

\* A thread that works on a job knows which; one that notifies has someone left.
GoodThread(r) ==
  /\ r.pc \in {"cancel", "report", "ack", "clear", "after", "release", "notify", "tell"}
       => r.job \in JobIds
  /\ r.pc \in {"notify", "tell"} => r.todo # {}

\* What trySchedule holds: the job it peeked, with that job's own request, and
\* from the reservation on a gang of the requested size.
GoodSched ==
  /\ sched.pc \in {"select", "reserve", "mark", "undo", "dispatch", "send"} =>
       /\ sched.job \in JobIds
       /\ jobs[sched.job].status # "absent"
       /\ sched.spec = jobs[sched.job].spec
  /\ sched.pc \in {"reserve", "mark", "undo", "dispatch", "send"} =>
       /\ Validate(sched.spec)
       /\ Cardinality(sched.gang) = sched.spec.nodes
  /\ sched.pc \in {"dispatch", "send"} => sched.todo # {}

CtrlInv ==
  /\ TypeOK /\ JMInv
  /\ GoodSched
  /\ \A t \in Threads : GoodThread(th[t])
  /\ GangIsComplete

-------------------------------------------------------------------------------
(* Facts about the parts *)

\* The calls the actions name are threads.
LEMMA ThreadIds ==
  /\ Monitor \in Threads
  /\ \A j \in JobIds : <<"submit", 0, j>> \in Threads /\ <<"cancel", 0, j>> \in Threads
  /\ \A n \in Nodes, j \in JobIds : <<"report", n, j>> \in Threads
  /\ \A n \in Nodes : <<"register", n, 0>> \in Threads
BY DEF Threads, Monitor

\* Registered, reserved, released, touched, expired and reaped nodes are typed.
LEMMA RegistryTyped ==
  ASSUME nodes \in [Nodes -> NodeRecords]
  PROVE  /\ \A n \in Nodes, c \in Nat : RegisterNode(n, c) => nodes' \in [Nodes -> NodeRecords]
         /\ \A n \in Nodes : Touch(n) \/ Expire(n) => nodes' \in [Nodes -> NodeRecords]
         /\ ReapStale => nodes' \in [Nodes -> NodeRecords]
         /\ \A j \in JobIds, g \in SUBSET Nodes, c \in Nat :
              ReserveNodes(j, g, c) => nodes' \in [Nodes -> NodeRecords]
         /\ \A g \in SUBSET Nodes, c \in Int :
              ReleaseNodes(g, c) => nodes' \in [Nodes -> NodeRecords]
<1> USE DEF NodeRecords
<1>1. ASSUME NEW n \in Nodes, NEW c \in Nat, RegisterNode(n, c)
      PROVE  nodes' \in [Nodes -> NodeRecords]
  <2> DEFINE r == [status |-> "online",
                   total  |-> IF c = 0 /\ Registered(n) THEN nodes[n].total ELSE c,
                   alloc  |-> nodes[n].alloc, job |-> nodes[n].job, late |-> FALSE]
  <2>1. r \in NodeRecords
    OBVIOUS
  <2>2. nodes' = [nodes EXCEPT ![n] = r]
    BY <1>1 DEF RegisterNode
  <2> QED BY <2>1, <2>2
<1>2. ASSUME NEW n \in Nodes, Touch(n) \/ Expire(n) PROVE nodes' \in [Nodes -> NodeRecords]
  <2>1. [nodes[n] EXCEPT !.status = "online", !.late = FALSE] \in NodeRecords
    OBVIOUS
  <2>2. [nodes[n] EXCEPT !.late = TRUE] \in NodeRecords
    OBVIOUS
  <2> QED BY <1>2, <2>1, <2>2 DEF Touch, Expire
<1>3. ReapStale => nodes' \in [Nodes -> NodeRecords]
  BY DEF ReapStale
<1>4. ASSUME NEW j \in JobIds, NEW g \in SUBSET Nodes, NEW c \in Nat, ReserveNodes(j, g, c)
      PROVE  nodes' \in [Nodes -> NodeRecords]
  <2> DEFINE r(n) == [nodes[n] EXCEPT !.alloc = @ + c, !.job = j]
  <2>1. ASSUME NEW n \in Nodes PROVE r(n) \in NodeRecords
    <3>1. nodes[n].alloc + c \in Nat /\ j \in JobIds \cup {NoJob}
      OBVIOUS
    <3> QED BY <3>1
  <2>2. nodes' = [n \in Nodes |-> IF n \in g THEN r(n) ELSE nodes[n]]
    BY <1>4 DEF ReserveNodes
  <2> HIDE DEF r
  <2> QED BY <2>1, <2>2
<1>5. ASSUME NEW g \in SUBSET Nodes, NEW c \in Int, ReleaseNodes(g, c)
      PROVE  nodes' \in [Nodes -> NodeRecords]
  <2> DEFINE r(n) == [nodes[n] EXCEPT !.alloc = IF @ < c THEN 0 ELSE @ - c, !.job = NoJob]
  <2>1. ASSUME NEW n \in Nodes PROVE r(n) \in NodeRecords
    <3>1. nodes[n].alloc \in Nat /\ (~(nodes[n].alloc < c) => nodes[n].alloc - c \in Nat)
      OBVIOUS
    <3> QED BY <3>1
  <2>2. nodes' = [n \in Nodes |-> IF n \in g /\ Registered(n) THEN r(n) ELSE nodes[n]]
    BY <1>5 DEF ReleaseNodes
  <2> HIDE DEF r
  <2> QED BY <2>1, <2>2
<1> QED BY <1>1, <1>2, <1>3, <1>4, <1>5

\* A thread that moves to a good state leaves all threads typed and good.
LEMMA ThreadMoves ==
  ASSUME th \in [Threads -> ThreadRecords], \A t \in Threads : GoodThread(th[t]),
         NEW t \in Threads, NEW r \in ThreadRecords, GoodThread(r),
         th' = [th EXCEPT ![t] = r]
  PROVE  th' \in [Threads -> ThreadRecords] /\ \A u \in Threads : GoodThread(th'[u])
BY DEF GoodThread

-------------------------------------------------------------------------------
(* What a call of the manager leaves alone *)

\* A job that is known stays known, with the request it was submitted with.
KeptJobs ==
  \A j \in JobIds : jobs[j].status # "absent" =>
    jobs'[j].status # "absent" /\ jobs'[j].spec = jobs[j].spec

\* No job is given a gang.
KeptGangs ==
  \A j \in JobIds :
    \/ jobs'[j].assigned = {}
    \/ jobs'[j].assigned = jobs[j].assigned /\ jobs'[j].spec = jobs[j].spec

\* Every call of the manager keeps the jobs, and only MarkRunning gives a gang.
LEMMA CallsKeep ==
  ASSUME JMTypeOK, NEW id \in JobIds
  PROVE  /\ \A spec \in Specs : Submit(id, spec) => KeptJobs /\ KeptGangs
         /\ \A to, exit : Finish(id, to, exit) => KeptJobs /\ KeptGangs
         /\ Cancel(id) => KeptJobs /\ KeptGangs
         /\ FailRunningJob(id) => KeptJobs /\ KeptGangs
         /\ \A n, failed, exit : ReportNodeEvent(id, n, failed, exit) => KeptJobs /\ KeptGangs
         /\ \A gang : MarkRunning(id, gang) => KeptJobs
         /\ UNCHANGED jmVars => KeptJobs /\ KeptGangs
<1> USE DEF JMTypeOK, JobRecords, KeptJobs, KeptGangs, CanTransition
<1>1. ASSUME NEW spec \in Specs, Submit(id, spec) PROVE KeptJobs /\ KeptGangs
  BY <1>1 DEF Submit, NewJob
<1>2. ASSUME NEW to, NEW exit, Finish(id, to, exit) PROVE KeptJobs /\ KeptGangs
  BY <1>2 DEF Finish
<1>3. Cancel(id) => KeptJobs /\ KeptGangs
  BY DEF Cancel
<1>4. FailRunningJob(id) => KeptJobs /\ KeptGangs
  BY <1>2 DEF FailRunningJob
<1>5. UNCHANGED jmVars => KeptJobs /\ KeptGangs
  BY DEF jmVars
<1>6. ASSUME NEW n, NEW failed, NEW exit, ReportNodeEvent(id, n, failed, exit)
      PROVE  KeptJobs /\ KeptGangs
  <2>1. CASE jobs' = jobs
    BY <2>1
  <2>2. CASE \E to, e : Finish(id, to, e)
    BY <1>2, <2>2
  <2> QED BY <1>6, <2>1, <2>2 DEF ReportNodeEvent, IgnoreReport, AcceptReport, jmVars
<1>7. ASSUME NEW gang, MarkRunning(id, gang) PROVE KeptJobs
  BY <1>7 DEF MarkRunning
<1> QED BY <1>1, <1>2, <1>3, <1>4, <1>5, <1>6, <1>7

\* What a step of an RPC handler or of the monitor does, as the invariant sees it:
\* it makes at most one call of the manager, and leaves the scheduler alone.
HandlerStep ==
  /\ [JMNext]_jmVars /\ KeptJobs /\ KeptGangs
  /\ nodes' \in [Nodes -> NodeRecords]
  /\ HubTypeOK'
  /\ sched' = sched
  /\ kick' \in BOOLEAN
  /\ idSeq' \in Nat
  /\ th' \in [Threads -> ThreadRecords] /\ \A t \in Threads : GoodThread(th'[t])
  /\ dead' \subseteq [id : Nodes, job : JobIds, alloc : Nat]

\* Such a step keeps the invariant.
LEMMA HandlerKeeps == CtrlInv /\ HandlerStep => CtrlInv'
<1> SUFFICES ASSUME CtrlInv, HandlerStep PROVE CtrlInv'
  OBVIOUS
<1>1. JMInv'
  BY JMNextInv DEF CtrlInv, HandlerStep
<1>2. TypeOK'
  BY <1>1 DEF CtrlInv, HandlerStep, TypeOK, JMInv
<1>3. GoodSched'
  BY DEF CtrlInv, HandlerStep, GoodSched, KeptJobs, Validate
<1>4. GangIsComplete'
  BY DEF CtrlInv, HandlerStep, GangIsComplete, KeptGangs
<1>5. \A t \in Threads : GoodThread(th[t])'
  BY DEF HandlerStep, GoodThread
<1> QED BY <1>1, <1>2, <1>3, <1>4, <1>5 DEF CtrlInv

-------------------------------------------------------------------------------
(* The handlers and the monitor, action by action *)

AllPCs == {"idle", "submit", "cancel", "report", "ack", "clear", "after",
           "handle", "release", "notify", "tell", "kick", "done"}
FreePCs == {"idle", "submit", "handle", "kick", "done"}

\* Goto to a place whose demands are met, and Over, are good moves.
LEMMA GotoMoves ==
  ASSUME CtrlInv, NEW t \in Threads, NEW pc \in AllPCs, Goto(t, pc),
         pc \in FreePCs \/ th[t].job \in JobIds,
         pc \in {"notify", "tell"} => th[t].todo # {}
  PROVE  th' \in [Threads -> ThreadRecords] /\ \A u \in Threads : GoodThread(th'[u])
<1> DEFINE r == [th[t] EXCEPT !.pc = pc]
<1>1. th \in [Threads -> ThreadRecords] /\ \A u \in Threads : GoodThread(th[u])
  BY DEF CtrlInv, TypeOK
<1>2. r \in ThreadRecords
  BY <1>1 DEF ThreadRecords, AllPCs
<1>3. r.pc = pc /\ r.job = th[t].job /\ r.todo = th[t].todo
  BY <1>1 DEF ThreadRecords
<1>4. th' = [th EXCEPT ![t] = r]
  BY DEF Goto
<1> HIDE DEF r
<1>5. GoodThread(r)
  BY <1>3 DEF GoodThread, FreePCs
<1> QED BY <1>1, <1>2, <1>4, <1>5, ThreadMoves

\* Over forgets the locals and goes to a place that needs none.
LEMMA OverMoves ==
  ASSUME CtrlInv, NEW t \in Threads, NEW pc \in FreePCs, Over(t, pc)
  PROVE  th' \in [Threads -> ThreadRecords] /\ \A u \in Threads : GoodThread(th'[u])
<1> DEFINE g == IF t[1] = "cancel" THEN th[t].gang ELSE {}
           r == [Idle EXCEPT !.pc = pc, !.gang = g]
<1>1. th \in [Threads -> ThreadRecords] /\ \A u \in Threads : GoodThread(th[u])
  BY DEF CtrlInv, TypeOK
<1>2. g \in SUBSET Nodes
  BY <1>1 DEF ThreadRecords
<1>3. th' = [th EXCEPT ![t] = r]
  BY DEF Over
<1> HIDE DEF g
<1>4. r \in ThreadRecords
  <2>1. Idle \in ThreadRecords
    BY DEF ThreadRecords, Idle
  <2> QED BY <1>2, <2>1 DEF ThreadRecords, FreePCs
<1>5. r.pc = pc
  BY DEF Idle
<1>6. GoodThread(r)
  BY <1>5 DEF GoodThread, FreePCs
<1> HIDE DEF r
<1> QED BY <1>1, <1>3, <1>4, <1>6, ThreadMoves

\* What a step leaves unchanged stays as the invariant has it.
LEMMA Frames ==
  ASSUME CtrlInv
  PROVE  /\ UNCHANGED jmVars => [JMNext]_jmVars /\ KeptJobs /\ KeptGangs
         /\ UNCHANGED nodes => nodes' \in [Nodes -> NodeRecords]
         /\ UNCHANGED hubVars => HubTypeOK'
         /\ UNCHANGED schedVars => sched' = sched /\ kick' \in BOOLEAN
         /\ UNCHANGED idSeq => idSeq' \in Nat
         /\ UNCHANGED th =>
              th' \in [Threads -> ThreadRecords] /\ \A t \in Threads : GoodThread(th'[t])
         /\ UNCHANGED dead => dead' \subseteq [id : Nodes, job : JobIds, alloc : Nat]
<1>1. UNCHANGED jmVars => [JMNext]_jmVars /\ KeptJobs /\ KeptGangs
  BY DEF jmVars, KeptJobs, KeptGangs
<1>2. UNCHANGED hubVars => HubTypeOK'
  BY DEF hubVars, CtrlInv, TypeOK, HubTypeOK
<1> QED BY <1>1, <1>2 DEF CtrlInv, TypeOK, schedVars

\* RegisterNode.
LEMMA RegisterStep == ASSUME CtrlInv, NEW n \in Nodes, Register(n) PROVE HandlerStep
<1> DEFINE c == IF CPUs[n] < 1 THEN 1 ELSE CPUs[n]
<1>1. c \in Nat /\ RegisterNode(n, c)
  BY ControllerAssumption DEF Register
<1> HIDE DEF c
<1>2. nodes' \in [Nodes -> NodeRecords]
  BY <1>1, RegistryTyped DEF CtrlInv, TypeOK
<1>3. th' \in [Threads -> ThreadRecords] /\ \A t \in Threads : GoodThread(th'[t])
  BY ThreadIds, GotoMoves DEF Register, AllPCs, FreePCs
<1> QED BY <1>2, <1>3, Frames DEF Register, HandlerStep

\* SubmitJob.
LEMMA SubmitSteps ==
  ASSUME CtrlInv, NEW j \in JobIds, SubmitDraw(j) \/ SubmitStore(j) PROVE HandlerStep
<1>1. CASE SubmitDraw(j)
  <2>1. idSeq' \in Nat
    BY <1>1, JobIdsAssumption DEF SubmitDraw
  <2>2. th' \in [Threads -> ThreadRecords] /\ \A t \in Threads : GoodThread(th'[t])
    BY <1>1, ThreadIds, GotoMoves DEF SubmitDraw, AllPCs, FreePCs
  <2> QED BY <1>1, <2>1, <2>2, Frames DEF SubmitDraw, HandlerStep
<1>2. CASE SubmitStore(j)
  <2>1. PICK spec \in Specs : Validate(spec) /\ Submit(j, spec)
    BY <1>2 DEF SubmitStore
  <2>2. JMNext /\ KeptJobs /\ KeptGangs
    BY <2>1, CallsKeep DEF JMNext, JMWork, CtrlInv, TypeOK
  <2>3. th' \in [Threads -> ThreadRecords] /\ \A t \in Threads : GoodThread(th'[t])
    BY <1>2, ThreadIds, GotoMoves DEF SubmitStore, AllPCs, FreePCs
  <2> QED BY <1>2, <2>2, <2>3, Frames DEF SubmitStore, HandlerStep
<1> QED BY <1>1, <1>2

\* CancelJob.
LEMMA CancelSteps ==
  ASSUME CtrlInv, NEW j \in JobIds, CancelGet(j) \/ CancelApply(j) PROVE HandlerStep
<1> DEFINE t == <<"cancel", 0, j>>
<1>1. t \in Threads
  BY ThreadIds
<1>2. th \in [Threads -> ThreadRecords] /\ \A u \in Threads : GoodThread(th[u])
  BY DEF CtrlInv, TypeOK
<1>3. jobs[j].assigned \in SUBSET Nodes /\ jobs[j].spec.cpus \in Int
  BY SpecsAssumption DEF CtrlInv, TypeOK, JMTypeOK, JobRecords, NoSpec
<1>4. CASE CancelGet(j)
  <2> DEFINE r == [th[t] EXCEPT !.pc = "cancel", !.job = j, !.gang = jobs[j].assigned,
                                !.cpus = jobs[j].spec.cpus, !.todo = jobs[j].assigned]
  <2>1. th' = [th EXCEPT ![t] = r]
    BY <1>4 DEF CancelGet
  <2> HIDE DEF t
  <2>2. r \in ThreadRecords /\ r.pc = "cancel" /\ r.job = j
    BY <1>1, <1>2, <1>3 DEF ThreadRecords
  <2> HIDE DEF r
  <2>3. GoodThread(r)
    BY <2>2 DEF GoodThread
  <2>4. th' \in [Threads -> ThreadRecords] /\ \A u \in Threads : GoodThread(th'[u])
    BY <1>1, <1>2, <2>1, <2>2, <2>3, ThreadMoves
  <2> QED BY <1>4, <2>4, Frames DEF CancelGet, HandlerStep
<1>5. CASE CancelApply(j)
  <2>1. th[t].job \in JobIds
    BY <1>1, <1>2, <1>5 DEF CancelApply, At, GoodThread
  <2>2. Goto(t, "release") \/ Over(t, "done")
    BY <1>5 DEF CancelApply, Done
  <2> HIDE DEF t
  <2>3. th' \in [Threads -> ThreadRecords] /\ \A u \in Threads : GoodThread(th'[u])
    BY <1>1, <2>1, <2>2, GotoMoves, OverMoves DEF AllPCs, FreePCs
  <2>4. [JMNext]_jmVars /\ KeptJobs /\ KeptGangs
    <3>1. CASE Cancel(j)
      BY <3>1, CallsKeep DEF JMNext, JMWork, CtrlInv, TypeOK
    <3>2. CASE UNCHANGED jmVars
      BY <3>2, Frames
    <3> QED BY <1>5, <3>1, <3>2 DEF CancelApply
  <2> QED BY <1>5, <2>3, <2>4, Frames DEF CancelApply, HandlerStep
<1> QED BY <1>4, <1>5

\* ReportJobStatus up to the manager's call and ClearCancel.
LEMMA ReportSteps ==
  ASSUME CtrlInv, NEW n \in Nodes, NEW j \in JobIds,
         ReportGet(n, j) \/ ReportApply(n, j) \/ ReportClear(n, j)
  PROVE  HandlerStep
<1> DEFINE t == <<"report", n, j>>
<1>1. t \in Threads
  BY ThreadIds
<1>2. th \in [Threads -> ThreadRecords] /\ \A u \in Threads : GoodThread(th[u])
  BY DEF CtrlInv, TypeOK
<1>3. CASE ReportGet(n, j)
  <2>1. PICK event \in Events :
          th' = [th EXCEPT ![t] = [th[t] EXCEPT
                   !.pc = IF event = "cancelled" THEN "ack" ELSE "report",
                   !.event = event, !.job = j, !.fresh = ~Terminal(jobs[j].status)]]
    BY <1>3 DEF ReportGet
  <2> DEFINE pc == IF event = "cancelled" THEN "ack" ELSE "report"
             f == ~Terminal(jobs[j].status)
             r == [th[t] EXCEPT !.pc = pc, !.event = event, !.job = j, !.fresh = f]
  <2>2. pc \in {"ack", "report"} /\ f \in BOOLEAN /\ th' = [th EXCEPT ![t] = r]
    BY <2>1
  <2> HIDE DEF t, pc, f
  <2>3. r \in ThreadRecords /\ r.job = j /\ r.pc = pc
    BY <1>1, <1>2, <2>2 DEF ThreadRecords
  <2> HIDE DEF r
  <2>4. GoodThread(r)
    BY <2>2, <2>3 DEF GoodThread
  <2>5. th' \in [Threads -> ThreadRecords] /\ \A u \in Threads : GoodThread(th'[u])
    BY <1>1, <1>2, <2>2, <2>3, <2>4, ThreadMoves
  <2> QED BY <1>3, <2>5, Frames DEF ReportGet, HandlerStep
<1>4. CASE ReportApply(n, j)
  <2> DEFINE r == [th[t] EXCEPT !.pc = "clear", !.event = "none"]
  <2>1. th' = [th EXCEPT ![t] = r] /\ th[t].pc = "report"
    BY <1>4 DEF ReportApply, At
  <2>2. \E failed \in BOOLEAN, exit \in ExitCodes : ReportNodeEvent(j, n, failed, exit)
    <3>1. ReportNodeEvent(j, n, th[t].event = "failed", IF th[t].event = "failed" THEN 1 ELSE 0)
      BY <1>4 DEF ReportApply
    <3> QED BY <3>1, ControllerAssumption
  <2> HIDE DEF t
  <2>3. r \in ThreadRecords /\ r.pc = "clear" /\ r.job = th[t].job
    BY <1>1, <1>2 DEF ThreadRecords
  <2>4. th[t].job \in JobIds
    BY <1>1, <1>2, <2>1 DEF GoodThread
  <2> HIDE DEF r
  <2>5. GoodThread(r)
    BY <2>3, <2>4 DEF GoodThread
  <2>6. th' \in [Threads -> ThreadRecords] /\ \A u \in Threads : GoodThread(th'[u])
    BY <1>1, <1>2, <2>1, <2>3, <2>5, ThreadMoves
  <2>7. JMNext /\ KeptJobs /\ KeptGangs
    BY <2>2, CallsKeep DEF JMNext, JMWork, CtrlInv, TypeOK
  <2> QED BY <1>4, <2>6, <2>7, Frames DEF ReportApply, HandlerStep
<1>5. CASE ReportClear(n, j)
  <2>1. HubTypeOK'
    BY <1>5, HubTyped DEF ReportClear, CtrlInv, TypeOK
  <2>2. \/ th[t].pc = "clear" /\ Goto(t, "after")
        \/ Over(t, "done")
    BY <1>5 DEF ReportClear, At, Done
  <2> HIDE DEF t
  <2>3. th[t].pc = "clear" => th[t].job \in JobIds
    BY <1>1, <1>2 DEF GoodThread
  <2>4. th' \in [Threads -> ThreadRecords] /\ \A u \in Threads : GoodThread(th'[u])
    BY <1>1, <2>2, <2>3, GotoMoves, OverMoves DEF AllPCs, FreePCs
  <2> QED BY <1>5, <2>1, <2>4, Frames DEF ReportClear, HandlerStep
<1> QED BY <1>3, <1>4, <1>5

\* A thread that takes up a job's gang to release or notify it.
LEMMA TakeUpMoves ==
  ASSUME CtrlInv, NEW t \in Threads, NEW pc \in {"release", "notify"}, NEW j \in JobIds,
         NEW gang \in SUBSET Nodes, NEW cpus \in Int, NEW todo \in SUBSET Nodes,
         pc = "notify" => todo # {},
         th' = [th EXCEPT ![t] = [th[t] EXCEPT !.pc = pc, !.job = j, !.gang = gang,
                                               !.cpus = cpus, !.todo = todo]]
  PROVE  th' \in [Threads -> ThreadRecords] /\ \A u \in Threads : GoodThread(th'[u])
<1> DEFINE r == [th[t] EXCEPT !.pc = pc, !.job = j, !.gang = gang, !.cpus = cpus, !.todo = todo]
<1>1. th \in [Threads -> ThreadRecords] /\ \A u \in Threads : GoodThread(th[u])
  BY DEF CtrlInv, TypeOK
<1>2. r \in ThreadRecords /\ r.pc = pc /\ r.job = j /\ r.todo = todo
  BY <1>1 DEF ThreadRecords
<1>3. th' = [th EXCEPT ![t] = r]
  OBVIOUS
<1> HIDE DEF r
<1>4. GoodThread(r)
  BY <1>2 DEF GoodThread
<1> QED BY <1>1, <1>2, <1>3, <1>4, ThreadMoves

\* ReportJobStatus after ClearCancel.
LEMMA ReportAfterStep ==
  ASSUME CtrlInv, NEW n \in Nodes, NEW j \in JobIds, ReportAfter(n, j) PROVE HandlerStep
<1> DEFINE t == <<"report", n, j>>
           todo == IF jobs[j].status = "failed" THEN jobs[j].assigned \ {n} ELSE {}
           r == [th[t] EXCEPT !.pc = "release", !.gang = jobs[j].assigned,
                              !.cpus = jobs[j].spec.cpus, !.todo = todo]
<1>1. t \in Threads
  BY ThreadIds
<1>2. th \in [Threads -> ThreadRecords] /\ \A u \in Threads : GoodThread(th[u])
  BY DEF CtrlInv, TypeOK
<1>3. /\ jobs[j].assigned \in SUBSET Nodes /\ jobs[j].spec.cpus \in Int
      /\ todo \in SUBSET Nodes
  BY SpecsAssumption DEF CtrlInv, TypeOK, JMTypeOK, JobRecords, NoSpec
<1>4. Over(t, "done") \/ th' = [th EXCEPT ![t] = r]
  BY DEF ReportAfter, Done
<1>5. th[t].job \in JobIds
  BY <1>1, <1>2 DEF ReportAfter, At, GoodThread
<1> HIDE DEF t, todo
<1>6. r \in ThreadRecords /\ r.pc = "release" /\ r.job = th[t].job
  BY <1>1, <1>2, <1>3 DEF ThreadRecords
<1> HIDE DEF r
<1>7. GoodThread(r)
  BY <1>5, <1>6 DEF GoodThread
<1>8. th' \in [Threads -> ThreadRecords] /\ \A u \in Threads : GoodThread(th'[u])
  BY <1>1, <1>2, <1>4, <1>6, <1>7, ThreadMoves, OverMoves DEF FreePCs
<1> QED BY <1>8, Frames DEF ReportAfter, HandlerStep

\* The monitor's beats and time passing.
LEMMA BeatSteps ==
  ASSUME CtrlInv, NEW n \in Nodes, MonTouch(n) \/ Silence(n) PROVE HandlerStep
<1>1. nodes' \in [Nodes -> NodeRecords]
  BY RegistryTyped DEF MonTouch, Silence, CtrlInv, TypeOK
<1> QED BY <1>1, Frames DEF MonTouch, Silence, HandlerStep

\* ReapStale hands over lost nodes with the jobs they were reserved for.
LEMMA ReapStep == ASSUME CtrlInv, MonReap PROVE HandlerStep
<1>1. nodes' \in [Nodes -> NodeRecords]
  BY RegistryTyped DEF MonReap, CtrlInv, TypeOK
<1>2. dead' \subseteq [id : Nodes, job : JobIds, alloc : Nat]
  <2>1. ASSUME NEW n \in Nodes, nodes[n].job # NoJob
        PROVE  [id |-> n, job |-> nodes[n].job, alloc |-> nodes[n].alloc]
                 \in [id : Nodes, job : JobIds, alloc : Nat]
    BY <2>1 DEF CtrlInv, TypeOK, NodeRecords
  <2> QED BY <2>1 DEF MonReap, Stale
<1>3. Goto(Monitor, "idle") \/ Goto(Monitor, "handle")
  BY DEF MonReap
<1>4. th' \in [Threads -> ThreadRecords] /\ \A u \in Threads : GoodThread(th'[u])
  BY <1>3, ThreadIds, GotoMoves DEF AllPCs, FreePCs
<1> QED BY <1>1, <1>2, <1>4, Frames DEF MonReap, HandlerStep

\* handleDeadNodes: a running job has a gang to notify (SomeoneStillOwes).
LEMMA HandleStep == ASSUME CtrlInv, MonHandle PROVE HandlerStep
<1>1. PICK d \in dead :
        /\ dead' = {e \in dead : e.job # d.job}
        /\ \/ /\ FailRunningJob(d.job)
              /\ th' = [th EXCEPT ![Monitor] = [th[Monitor] EXCEPT !.pc = "notify", !.job = d.job,
                          !.gang = jobs[d.job].assigned, !.cpus = jobs[d.job].spec.cpus,
                          !.todo = jobs[d.job].assigned]]
           \/ /\ jobs[d.job].status # "running"
              /\ th' = [th EXCEPT ![Monitor] = [th[Monitor] EXCEPT !.pc = "release", !.job = d.job,
                          !.gang = {d.id}, !.cpus = d.alloc, !.todo = {}]]
              /\ UNCHANGED jmVars
  BY DEF MonHandle
<1>2. d.job \in JobIds /\ {d.id} \in SUBSET Nodes /\ d.alloc \in Int
      /\ dead' \subseteq [id : Nodes, job : JobIds, alloc : Nat]
  BY <1>1 DEF CtrlInv, TypeOK
<1>3. jobs[d.job].assigned \in SUBSET Nodes /\ jobs[d.job].spec.cpus \in Int
  BY <1>2, SpecsAssumption DEF CtrlInv, TypeOK, JMTypeOK, JobRecords, NoSpec
<1>4. CASE FailRunningJob(d.job) /\
           th' = [th EXCEPT ![Monitor] = [th[Monitor] EXCEPT !.pc = "notify", !.job = d.job,
                    !.gang = jobs[d.job].assigned, !.cpus = jobs[d.job].spec.cpus,
                    !.todo = jobs[d.job].assigned]]
  <2>1. jobs[d.job].assigned # {}
    BY <1>2, <1>4 DEF FailRunningJob, CtrlInv, JMInv, SomeoneStillOwes
  <2>2. th' \in [Threads -> ThreadRecords] /\ \A u \in Threads : GoodThread(th'[u])
    BY <1>2, <1>3, <1>4, <2>1, ThreadIds, TakeUpMoves
  <2>3. JMNext /\ KeptJobs /\ KeptGangs
    BY <1>2, <1>4, CallsKeep DEF JMNext, JMWork, CtrlInv, TypeOK
  <2> QED BY <1>2, <2>2, <2>3, Frames DEF MonHandle, HandlerStep
<1>5. CASE UNCHANGED jmVars /\
           th' = [th EXCEPT ![Monitor] = [th[Monitor] EXCEPT !.pc = "release", !.job = d.job,
                    !.gang = {d.id}, !.cpus = d.alloc, !.todo = {}]]
  <2>1. th' \in [Threads -> ThreadRecords] /\ \A u \in Threads : GoodThread(th'[u])
    <3>1. {} \in SUBSET Nodes /\ "release" \in {"release", "notify"} /\ "release" # "notify"
      OBVIOUS
    <3> QED BY <1>2, <1>5, <3>1, ThreadIds, TakeUpMoves, Zenon
  <2> QED BY <1>2, <1>5, <2>1, Frames DEF MonHandle, HandlerStep
<1> QED BY <1>1, <1>4, <1>5

\* The shared tails: ReleaseNodes, NotifyCancel, kick.
LEMMA TailSteps == ASSUME CtrlInv, NEW t \in Threads, ThreadStep(t) PROVE HandlerStep
<1>1. th \in [Threads -> ThreadRecords] /\ GoodThread(th[t])
  BY DEF CtrlInv, TypeOK
<1>2. th[t].pc \in {"release", "notify", "tell"} => th[t].job \in JobIds
  BY <1>1 DEF GoodThread
<1>3. CASE Release(t)
  <2>1. nodes' \in [Nodes -> NodeRecords]
    BY <1>1, <1>3, RegistryTyped DEF Release, ThreadRecords, CtrlInv, TypeOK
  <2>2. \/ Over(t, "idle") \/ Over(t, "handle") \/ Over(t, "kick")
        \/ th[t].todo # {} /\ Goto(t, "notify")
    BY <1>3 DEF Release
  <2>3. th' \in [Threads -> ThreadRecords] /\ \A u \in Threads : GoodThread(th'[u])
    BY <1>2, <1>3, <2>2, GotoMoves, OverMoves DEF Release, At, AllPCs, FreePCs
  <2> QED BY <1>3, <2>1, <2>3, Frames DEF Release, HandlerStep
<1>4. CASE NotifySet(t) \/ NotifySend(t)
  <2>1. th[t].todo # {} /\ th[t].todo \subseteq Nodes /\ th[t].job \in JobIds
    BY <1>1, <1>2, <1>4 DEF NotifySet, NotifySend, At, GoodThread, ThreadRecords
  <2>2. Min(th[t].todo) \in th[t].todo
    BY <2>1, NodesAssumption, MinIsLeast
  <2>3. CASE NotifySet(t)
    <3>1. HubTypeOK'
      BY <2>1, <2>2, <2>3, HubTyped DEF NotifySet, CtrlInv, TypeOK
    <3>2. th' \in [Threads -> ThreadRecords] /\ \A u \in Threads : GoodThread(th'[u])
      BY <2>1, <2>3, GotoMoves DEF NotifySet, AllPCs, FreePCs
    <3> QED BY <2>3, <3>1, <3>2, Frames DEF NotifySet, HandlerStep
  <2>4. CASE NotifySend(t)
    <3> DEFINE n == Min(th[t].todo)
    <3>1. CancelWork(th[t].job) \in Msgs
      BY <2>1 DEF CancelWork, Msgs
    <3>2. HubTypeOK'
      BY <2>1, <2>2, <2>4, <3>1, HubTyped DEF NotifySend, CtrlInv, TypeOK
    <3> DEFINE r(pc, todo) == [th[t] EXCEPT !.pc = pc, !.todo = todo]
    <3>3. \/ th[t].todo # {n} /\ th' = [th EXCEPT ![t] = r("notify", th[t].todo \ {n})]
          \/ th' = [th EXCEPT ![t] = r("release", {})]
          \/ Over(t, "kick")
      <4>1. IF th[t].todo # {n} THEN th' = [th EXCEPT ![t] = r("notify", th[t].todo \ {n})]
            ELSE IF t = Monitor THEN th' = [th EXCEPT ![t] = r("release", {})]
            ELSE Over(t, "kick")
        BY <2>4, Zenon DEF NotifySend
      <4> HIDE DEF r, n
      <4> QED BY <4>1
    <3>4. ASSUME NEW pc \in {"notify", "release"}, NEW todo \in SUBSET Nodes,
                 pc = "notify" => todo # {}, th' = [th EXCEPT ![t] = r(pc, todo)]
          PROVE  th' \in [Threads -> ThreadRecords] /\ \A u \in Threads : GoodThread(th'[u])
      <4>1. r(pc, todo) \in ThreadRecords /\ r(pc, todo).pc = pc /\ r(pc, todo).todo = todo
            /\ r(pc, todo).job = th[t].job
        BY <1>1 DEF ThreadRecords
      <4> HIDE DEF r
      <4>2. GoodThread(r(pc, todo))
        BY <2>1, <3>4, <4>1 DEF GoodThread
      <4> QED BY <3>4, <4>1, <4>2, ThreadMoves DEF CtrlInv, TypeOK
    <3>5. th[t].todo # {n} => th[t].todo \ {n} # {}
      BY <2>2
    <3> HIDE DEF r, n
    <3>6. th' \in [Threads -> ThreadRecords] /\ \A u \in Threads : GoodThread(th'[u])
      BY <2>1, <3>3, <3>4, <3>5, OverMoves DEF FreePCs
    <3> QED BY <2>4, <3>2, <3>6, Frames DEF NotifySend, HandlerStep
  <2> QED BY <1>4, <2>3, <2>4
<1>5. CASE KickStep(t)
  <2>1. th' = [th EXCEPT ![t] = Idle] \/ Over(t, "done")
    BY <1>5 DEF KickStep, Done
  <2>2. Idle \in ThreadRecords /\ GoodThread(Idle)
    BY DEF Idle, ThreadRecords, GoodThread
  <2>3. th' \in [Threads -> ThreadRecords] /\ \A u \in Threads : GoodThread(th'[u])
    BY <2>1, <2>2, ThreadMoves, OverMoves DEF FreePCs, CtrlInv, TypeOK
  <2>4. sched' = sched /\ kick' \in BOOLEAN
    BY <1>5 DEF KickStep, Kick
  <2> QED BY <1>5, <2>3, <2>4, Frames DEF KickStep, HandlerStep
<1> QED BY <1>3, <1>4, <1>5 DEF ThreadStep

-------------------------------------------------------------------------------
(* The scheduler *)

\* What a step of trySchedule does besides changing its own locals.
SchedFrame ==
  /\ nodes' \in [Nodes -> NodeRecords]
  /\ HubTypeOK'
  /\ kick' \in BOOLEAN
  /\ UNCHANGED <<idSeq, th, dead>>

\* Steps of the scheduler that start no job.
LEMMA SchedQuiet ==
  ASSUME CtrlInv, UNCHANGED jmVars, SchedFrame, sched' \in SchedRecords, GoodSched'
  PROVE  CtrlInv'
<1>1. JMInv'
  BY JMNextInv DEF CtrlInv
<1>2. TypeOK'
  BY <1>1 DEF CtrlInv, TypeOK, JMInv, SchedFrame
<1>3. GangIsComplete'
  BY DEF CtrlInv, GangIsComplete, jmVars
<1>4. \A t \in Threads : GoodThread(th[t])'
  BY DEF CtrlInv, SchedFrame, GoodThread
<1> QED BY <1>1, <1>2, <1>3, <1>4 DEF CtrlInv

\* trySchedule's exits and the wake-ups: the scheduler forgets its locals.
LEMMA SchedRests ==
  ASSUME CtrlInv, UNCHANGED jmVars, SchedFrame,
         \/ sched' = SchedIdle
         \/ sched' = [SchedIdle EXCEPT !.pc = "exit"]
         \/ sched' = [SchedIdle EXCEPT !.pc = "wait"]
  PROVE  CtrlInv'
<1>1. sched' \in SchedRecords /\ sched'.pc \in {"try", "exit", "wait"}
  BY DEF SchedIdle, SchedRecords
<1>2. GoodSched'
  BY <1>1 DEF GoodSched
<1> QED BY <1>1, <1>2, SchedQuiet

\* The head of the queue is a pending job, with a request of its own.
LEMMA PeekStep ==
  ASSUME CtrlInv, SchedPeek, UNCHANGED <<idSeq, th, dead>> PROVE CtrlInv'
<1>1. UNCHANGED jmVars /\ SchedFrame
  BY Frames DEF SchedPeek, SchedFrame, CtrlInv, TypeOK
<1>2. CASE HasPending
  <2> DEFINE j == Head(pending)
             r == [SchedIdle EXCEPT !.pc = "select", !.job = j, !.spec = jobs[j].spec]
  <2>1. pending \in Seq(JobIds) /\ pending # <<>>
    BY <1>2 DEF HasPending, CtrlInv, TypeOK, JMTypeOK
  <2>2. j \in JobIds /\ 1 \in 1..Len(pending) /\ pending[1] = j
    BY <2>1
  <2>3. jobs[j].status = "pending"
    <3>1. Contains(pending, j)
      BY <2>2 DEF Contains
    <3> QED BY <2>2, <3>1 DEF CtrlInv, JMInv, QueueIsPending
  <2>4. sched' = r
    BY <1>2 DEF SchedPeek, PeekPending
  <2> HIDE DEF j
  <2>5. jobs[j].spec \in Specs \cup {NoSpec}
    BY <2>2 DEF CtrlInv, TypeOK, JMTypeOK, JobRecords
  <2>6. SchedIdle \in SchedRecords
    BY DEF SchedIdle, SchedRecords
  <2>7. r \in SchedRecords /\ r.pc = "select" /\ r.job = j /\ r.spec = jobs[j].spec
    BY <2>2, <2>5, <2>6 DEF SchedRecords
  <2> HIDE DEF r
  <2>8. GoodSched'
    BY <1>1, <2>2, <2>3, <2>4, <2>7 DEF GoodSched, jmVars
  <2> QED BY <1>1, <2>4, <2>7, <2>8, SchedQuiet
<1>3. CASE ~HasPending
  BY <1>1, <1>3, SchedRests DEF SchedPeek
<1> QED BY <1>2, <1>3

\* SelectGang returns a gang of the requested size or none.
LEMMA SelectStep ==
  ASSUME CtrlInv, SchedSelect, UNCHANGED <<idSeq, th, dead>> PROVE CtrlInv'
<1>1. UNCHANGED jmVars /\ SchedFrame
  BY Frames DEF SchedSelect, SchedFrame, CtrlInv, TypeOK
<1>2. ASSUME NEW gang \in SelectGang(sched.spec),
             sched' = [sched EXCEPT !.pc = "reserve", !.gang = gang]
      PROVE  CtrlInv'
  <2>1. gang \in SUBSET Nodes /\ Validate(sched.spec) /\ Cardinality(gang) = sched.spec.nodes
    BY <1>2 DEF SelectGang
  <2>2. sched' \in SchedRecords /\ sched'.pc = "reserve" /\ sched'.gang = gang
        /\ sched'.job = sched.job /\ sched'.spec = sched.spec
    BY <1>2, <2>1 DEF CtrlInv, TypeOK, SchedRecords
  <2>3. sched.job \in JobIds /\ jobs[sched.job].status # "absent"
        /\ sched.spec = jobs[sched.job].spec
    BY DEF CtrlInv, GoodSched, SchedSelect
  <2>4. GoodSched'
    BY <1>1, <2>1, <2>2, <2>3 DEF GoodSched, Validate, jmVars
  <2> QED BY <1>1, <2>2, <2>4, SchedQuiet
<1>3. CASE sched' = [SchedIdle EXCEPT !.pc = "exit"]
  BY <1>1, <1>3, SchedRests
<1> QED BY <1>2, <1>3 DEF SchedSelect

\* The scheduler has a job, a valid request and a gang for it.
Placed ==
  /\ sched \in SchedRecords
  /\ sched.job \in JobIds
  /\ jobs[sched.job].status # "absent" /\ sched.spec = jobs[sched.job].spec
  /\ sched.gang \in SUBSET Nodes /\ Cardinality(sched.gang) = sched.spec.nodes
  /\ Validate(sched.spec) /\ sched.spec.cpus \in Nat /\ sched.spec.nodes \in Nat

\* That is so from the reservation to the last dispatch.
LEMMA PlacedWhen ==
  ASSUME CtrlInv, sched.pc \in {"reserve", "mark", "undo", "dispatch", "send"} PROVE Placed
<1>1. /\ sched \in SchedRecords
      /\ sched.job \in JobIds
      /\ jobs[sched.job].status # "absent" /\ sched.spec = jobs[sched.job].spec
      /\ Cardinality(sched.gang) = sched.spec.nodes /\ Validate(sched.spec)
  BY DEF CtrlInv, TypeOK, GoodSched
<1>2. sched.gang \in SUBSET Nodes /\ sched.spec \in Specs \cup {NoSpec}
  BY <1>1 DEF SchedRecords
<1>3. sched.spec.cpus \in Int /\ sched.spec.nodes \in Int
  BY <1>2, SpecsAssumption DEF NoSpec
<1>4. sched.spec.cpus \in Nat /\ sched.spec.nodes \in Nat
  BY <1>1, <1>3 DEF Validate
<1> QED BY <1>1, <1>2, <1>4 DEF Placed

\* ReserveNodes, and the release of a reservation that came to nothing.
LEMMA ReserveSteps ==
  ASSUME CtrlInv, SchedReserve \/ SchedUndo, UNCHANGED <<idSeq, th, dead>> PROVE CtrlInv'
<1>1. Placed
  BY PlacedWhen DEF SchedReserve, SchedUndo
<1>2. UNCHANGED jmVars
  BY DEF SchedReserve, SchedUndo
<1>3. nodes' \in [Nodes -> NodeRecords]
  <2>1. \/ ReserveNodes(sched.job, sched.gang, sched.spec.cpus)
        \/ ReleaseNodes(sched.gang, sched.spec.cpus)
        \/ UNCHANGED nodes
    BY DEF SchedReserve, SchedUndo
  <2>2. sched.job \in JobIds /\ sched.gang \in SUBSET Nodes /\ sched.spec.cpus \in Nat
        /\ sched.spec.cpus \in Int /\ nodes \in [Nodes -> NodeRecords]
    BY <1>1 DEF Placed, CtrlInv, TypeOK
  <2> QED BY <2>1, <2>2, RegistryTyped
<1>4. SchedFrame
  BY <1>3, Frames DEF SchedReserve, SchedUndo, SchedFrame, CtrlInv, TypeOK
<1>5. CASE sched' = [sched EXCEPT !.pc = "mark"]
  <2>1. sched' \in SchedRecords /\ sched'.pc = "mark" /\ sched'.gang = sched.gang
        /\ sched'.job = sched.job /\ sched'.spec = sched.spec
    BY <1>1, <1>5 DEF Placed, SchedRecords
  <2>2. GoodSched'
    BY <1>1, <1>2, <2>1 DEF Placed, GoodSched, Validate, jmVars
  <2> QED BY <1>2, <1>4, <2>1, <2>2, SchedQuiet
<1>6. CASE sched' = [SchedIdle EXCEPT !.pc = "exit"]
  BY <1>2, <1>4, <1>6, SchedRests
<1> QED BY <1>5, <1>6 DEF SchedReserve, SchedUndo

\* The gang given to MarkRunning is not empty, so this is a call the manager expects.
LEMMA MarkIsCall ==
  ASSUME CtrlInv, Placed, MarkRunning(sched.job, sched.gang)
  PROVE  sched.gang # {} /\ JMNext /\ KeptJobs
<1>1. sched.gang # {}
  BY FS_EmptySet DEF Placed, Validate
<1> QED BY <1>1, CallsKeep DEF Placed, JMNext, JMWork, CtrlInv, TypeOK

\* MarkRunning on the reserved gang, which is complete; or the job was cancelled
\* in the meantime and the reservation is given back.
LEMMA MarkStep ==
  ASSUME CtrlInv, SchedMark, UNCHANGED <<idSeq, th, dead>> PROVE CtrlInv'
<1>1. Placed
  BY PlacedWhen DEF SchedMark
<1>2. SchedFrame
  BY Frames DEF SchedMark, SchedFrame, CtrlInv, TypeOK
<1>3. CASE MarkRunning(sched.job, sched.gang) /\
           sched' = [sched EXCEPT !.pc = "dispatch", !.todo = sched.gang]
  <2>1. sched.gang # {}
    BY <1>1, <1>3, MarkIsCall
  <2>2. JMNext /\ KeptJobs
    BY <1>1, <1>3, MarkIsCall
  <2>3. JMInv'
    BY <2>2, JMNextInv DEF CtrlInv
  <2>4. sched' \in SchedRecords /\ sched'.pc = "dispatch" /\ sched'.gang = sched.gang
        /\ sched'.job = sched.job /\ sched'.spec = sched.spec /\ sched'.todo = sched.gang
    BY <1>1, <1>3 DEF Placed, SchedRecords
  <2>5. GoodSched'
    BY <1>1, <2>1, <2>2, <2>4 DEF Placed, GoodSched, Validate, KeptJobs
  <2>6. TypeOK'
    BY <1>2, <2>3, <2>4 DEF CtrlInv, TypeOK, JMInv, SchedFrame
  <2>7. \A t \in Threads : GoodThread(th[t])'
    BY <1>2 DEF CtrlInv, SchedFrame, GoodThread
  <2>8. GangIsComplete'
    <3>1. jobs \in [JobIds -> JobRecords]
      BY DEF CtrlInv, TypeOK, JMTypeOK
    <3>2. ASSUME NEW j \in JobIds
          PROVE  /\ jobs'[j].spec = jobs[j].spec
                 /\ jobs'[j].assigned = IF j = sched.job THEN sched.gang ELSE jobs[j].assigned
      BY <1>1, <1>3, <3>1 DEF Placed, MarkRunning, JobRecords
    <3> QED BY <1>1, <3>2 DEF Placed, CtrlInv, GangIsComplete
  <2> QED BY <2>3, <2>5, <2>6, <2>7, <2>8 DEF CtrlInv
<1>4. CASE UNCHANGED jmVars /\ sched' = [sched EXCEPT !.pc = "undo"]
  <2>1. sched' \in SchedRecords /\ sched'.pc = "undo" /\ sched'.gang = sched.gang
        /\ sched'.job = sched.job /\ sched'.spec = sched.spec
    BY <1>1, <1>4 DEF Placed, SchedRecords
  <2>2. GoodSched'
    BY <1>1, <1>4, <2>1 DEF Placed, GoodSched, Validate, jmVars
  <2> QED BY <1>2, <1>4, <2>1, <2>2, SchedQuiet
<1> QED BY <1>3, <1>4 DEF SchedMark

\* dispatchWork, one node at a time.
LEMMA DispatchSteps ==
  ASSUME CtrlInv, SchedDropCancel \/ SchedSend, UNCHANGED <<idSeq, th, dead>> PROVE CtrlInv'
<1> DEFINE n == Min(sched.todo)
<1>1. Placed /\ sched.todo # {} /\ sched.todo \subseteq Nodes
  BY PlacedWhen DEF SchedDropCancel, SchedSend, CtrlInv, GoodSched, Placed, SchedRecords
<1>2. n \in sched.todo
  BY <1>1, NodesAssumption, MinIsLeast
<1>3. n \in Nodes /\ sched.job \in JobIds /\ Assign(sched.job) \in Msgs
  BY <1>1, <1>2 DEF Placed, Assign, Msgs
<1>4. HubTypeOK'
  BY <1>3, HubTyped DEF SchedDropCancel, SchedSend, CtrlInv, TypeOK
<1>5. UNCHANGED jmVars /\ SchedFrame
  BY <1>4, Frames DEF SchedDropCancel, SchedSend, SchedFrame, CtrlInv, TypeOK
<1>6. CASE sched' = SchedIdle
  BY <1>5, <1>6, SchedRests
<1>7. ASSUME NEW pc \in {"dispatch", "send"}, NEW todo \in SUBSET Nodes, todo # {},
             sched' = [sched EXCEPT !.pc = pc, !.todo = todo]
      PROVE  CtrlInv'
  <2>1. sched' \in SchedRecords /\ sched'.pc = pc /\ sched'.gang = sched.gang
        /\ sched'.job = sched.job /\ sched'.spec = sched.spec /\ sched'.todo = todo
    BY <1>1, <1>7 DEF Placed, SchedRecords
  <2>2. GoodSched'
    BY <1>1, <1>5, <1>7, <2>1 DEF Placed, GoodSched, Validate, jmVars
  <2> QED BY <1>5, <2>1, <2>2, SchedQuiet
<1>8. CASE SchedDropCancel
  <2>1. [sched EXCEPT !.pc = "send"] = [sched EXCEPT !.pc = "send", !.todo = sched.todo]
    BY <1>1 DEF Placed, SchedRecords
  <2> QED BY <1>1, <1>7, <1>8, <2>1 DEF SchedDropCancel
<1>9. CASE SchedSend
  <2>1. \/ sched' = SchedIdle
        \/ sched.todo # {n} /\ sched' = [sched EXCEPT !.pc = "dispatch", !.todo = sched.todo \ {n}]
    BY <1>9 DEF SchedSend
  <2>2. sched.todo # {n} => sched.todo \ {n} # {}
    BY <1>2
  <2> HIDE DEF n
  <2> QED BY <1>1, <1>6, <1>7, <2>1, <2>2
<1> QED BY <1>8, <1>9

\* Every step of the scheduler goroutine keeps the invariant.
LEMMA SchedulerKeeps == CtrlInv /\ SchedulerNext => CtrlInv'
<1> SUFFICES ASSUME CtrlInv, SchedulerNext PROVE CtrlInv'
  OBVIOUS
<1>1. UNCHANGED <<idSeq, th, dead>>
  BY DEF SchedulerNext
<1>2. CASE SchedWake \/ SchedTick
  <2>1. UNCHANGED jmVars /\ SchedFrame /\ sched' = SchedIdle
    BY <1>1, <1>2, Frames DEF SchedWake, SchedTick, SchedFrame, CtrlInv, TypeOK
  <2> QED BY <2>1, SchedRests
<1>3. CASE SchedPark
  <2>1. UNCHANGED jmVars /\ SchedFrame
    BY <1>1, <1>3, Frames DEF SchedPark, SchedFrame, CtrlInv, TypeOK
  <2> QED BY <1>3, <2>1, SchedRests DEF SchedPark
<1> QED BY <1>1, <1>2, <1>3, PeekStep, SelectStep, ReserveSteps, MarkStep, DispatchSteps
        DEF SchedulerNext, SchedStep

-------------------------------------------------------------------------------
(* The theorems *)

\* The controller starts with empty tables and every thread idle.
LEMMA CtrlInit == Init => CtrlInv
<1> SUFFICES ASSUME Init PROVE CtrlInv
  OBVIOUS
<1>1. JMInv
  BY JMInitInv DEF Init
<1>2. Idle \in ThreadRecords /\ GoodThread(Idle)
  BY DEF Idle, ThreadRecords, GoodThread
<1>3. Unregistered \in NodeRecords /\ SchedIdle \in SchedRecords /\ SchedIdle.pc = "try"
  BY DEF Unregistered, NodeRecords, SchedIdle, SchedRecords
<1>4. HubTypeOK
  <2>1. Unused \in [st : {"unused", "serving", "ended"}, node : Nodes \cup {0},
                    buf : Seq(Msgs), room : Nat, open : BOOLEAN]
        /\ Unused.buf = <<>> /\ Unused.room = 0 /\ Len(<<>>) = 0 /\ <<>> \in Seq(Msgs)
    BY DEF Unused
  <2> HIDE DEF Unused
  <2> QED BY <2>1, HubAssumption DEF Init, HubInit, HubTypeOK
<1>5. TypeOK
  BY <1>1, <1>2, <1>3, <1>4 DEF Init, RegInit, SchedInit, TypeOK, JMInv
<1>6. GoodSched
  BY <1>3 DEF Init, SchedInit, GoodSched
<1>7. GangIsComplete
  BY DEF Init, JMInit, NoJobRecord, GangIsComplete
<1> QED BY <1>1, <1>2, <1>5, <1>6, <1>7 DEF CtrlInv, Init

\* A step of the controller is a step of the scheduler or of a handler.
LEMMA NextIsOneOf == CtrlInv /\ Next => SchedulerNext \/ HandlerStep
<1> SUFFICES ASSUME CtrlInv, Next PROVE SchedulerNext \/ HandlerStep
  OBVIOUS
<1>1. ASSUME NEW n \in Nodes, Register(n) \/ MonTouch(n) \/ Silence(n) PROVE HandlerStep
  BY <1>1, RegisterStep, BeatSteps
<1>2. ASSUME NEW j \in JobIds, SubmitDraw(j) \/ SubmitStore(j) \/ CancelGet(j) \/ CancelApply(j)
      PROVE  HandlerStep
  BY <1>2, SubmitSteps, CancelSteps
<1>3. ASSUME NEW n \in Nodes, NEW j \in JobIds,
             ReportGet(n, j) \/ ReportApply(n, j) \/ ReportClear(n, j) \/ ReportAfter(n, j)
      PROVE  HandlerStep
  BY <1>3, ReportSteps, ReportAfterStep
<1>4. MonReap \/ MonHandle => HandlerStep
  BY ReapStep, HandleStep
<1>5. ASSUME NEW t \in Threads, ThreadStep(t) PROVE HandlerStep
  BY <1>5, TailSteps
<1> QED BY <1>1, <1>2, <1>3, <1>4, <1>5 DEF Next

\* CtrlInv is inductive.
LEMMA CtrlNext == CtrlInv /\ [Next]_vars => CtrlInv'
<1> SUFFICES ASSUME CtrlInv, [Next]_vars PROVE CtrlInv'
  OBVIOUS
<1>1. CASE Next
  BY <1>1, NextIsOneOf, SchedulerKeeps, HandlerKeeps
<1>2. CASE UNCHANGED vars
  <2>1. HandlerStep
    BY <1>2, Frames DEF vars, HandlerStep
  <2> QED BY <2>1, HandlerKeeps
<1> QED BY <1>1, <1>2

\* The inductive invariant holds of every behaviour of the controller.
THEOREM ControllerInvariant == Spec => []CtrlInv
BY CtrlInit, CtrlNext, PTL DEF Spec

\* The controller's state stays well typed: in particular allocated CPUs never go
\* below zero, however often a gang is released, and a mailbox never exceeds its
\* limit.
THEOREM ControllerTypeCorrect == Spec => []TypeOK
<1>1. CtrlInv => TypeOK
  BY DEF CtrlInv
<1> QED BY <1>1, ControllerInvariant, PTL

\* The gang guarantee of the scheduler: for any cluster and any interleaving with
\* cancels, reports, node losses and registrations, a started job has exactly the
\* number of nodes it asked for.
THEOREM GangGuarantee == Spec => []GangIsComplete
<1>1. CtrlInv => GangIsComplete
  BY DEF CtrlInv
<1> QED BY <1>1, ControllerInvariant, PTL

\* Every step of the controller makes one expected call of the manager, or none.
LEMMA OneCallPerStep == CtrlInv /\ [Next]_vars => [JMNext]_jmVars
<1> SUFFICES ASSUME CtrlInv, [Next]_vars PROVE [JMNext]_jmVars
  OBVIOUS
<1>1. CASE UNCHANGED vars
  BY <1>1 DEF vars
<1>2. CASE HandlerStep
  BY <1>2 DEF HandlerStep
<1>3. CASE SchedulerNext
  <2>1. CASE SchedMark
    <3>1. Placed
      BY <2>1, PlacedWhen DEF SchedMark
    <3> QED BY <2>1, <3>1, MarkIsCall DEF SchedMark
  <2>2. ~SchedMark => UNCHANGED jmVars
    BY <1>3 DEF SchedulerNext, SchedStep, SchedPeek, SchedSelect, SchedReserve, SchedUndo,
                SchedDropCancel, SchedSend, SchedPark, SchedWake, SchedTick
  <2> QED BY <2>1, <2>2
<1> QED BY <1>1, <1>2, <1>3, NextIsOneOf

\* The whole controller is one more user of the job manager: whatever RPCs, node
\* losses and scheduling interleave, the manager sees only calls it expects.
THEOREM ControllerUsesManager == Spec => UsesManagerRight
<1>1. Init => JMInit
  BY DEF Init
<1> QED BY <1>1, OneCallPerStep, ControllerInvariant, PTL DEF Spec, UsesManagerRight, JMSpec

\* So a gang job run by the controller completes exactly when its last node's
\* success arrives, with the worst exit code, and final outcomes stay final.
THEOREM ControllerGangOutcome == Spec => ImplementsGangOutcome
<1>1. Spec => JMSpec
  BY ControllerUsesManager DEF UsesManagerRight
<1> QED BY <1>1, ManagerImplementsGangOutcome

-------------------------------------------------------------------------------
(* Who holds a node *)

Begun == {"cancel", "report", "ack", "clear", "after", "release", "notify", "tell"}
Ending == {"release", "notify", "tell"}

\* A job that was given a gang has left the queue.
StartedLeft ==
  \A j \in JobIds : jobs[j].assigned # {} => jobs[j].status \notin {"absent", "pending"}

\* Job ids come from the sequence, and SubmitJob turns invalid requests away.
KnownIsDrawn ==
  \A j \in JobIds :
    /\ jobs[j].status # "absent" => j <= idSeq /\ Validate(jobs[j].spec)
    /\ th[<<"submit", 0, j>>].pc # "idle" => j <= idSeq

\* What a call's locals mean, while it needs them.
CallKnows(t) ==
  /\ th[t].pc \in Begun => jobs[th[t].job].status # "absent"
  /\ th[t].pc \in Ending \cup {"cancel"} => th[t].cpus >= jobs[th[t].job].spec.cpus
  /\ t = Monitor /\ th[t].pc \in {"notify", "tell"} =>
       th[t].gang # {} /\ th[t].gang = jobs[th[t].job].assigned
  /\ t # Monitor /\ th[t].pc \in Ending => th[t].gang \in {{}, jobs[th[t].job].assigned}
  /\ t[1] = "report" /\ th[t].pc \in Begun => th[t].job = t[3]
  /\ t[1] = "report" /\ th[t].pc \in {"report", "clear", "after"} /\ ~th[t].fresh =>
       Terminal(jobs[th[t].job].status)

\* CancelJob's snapshot is of before the job's start or of after it.
CancelKnows(j) ==
  LET t == <<"cancel", 0, j>> IN
  /\ th[t].pc \in Begun => th[t].job = j
  /\ th[t].gang \in {{}, jobs[j].assigned}
  /\ jobs[j].status = "cancelled" => th[t].pc \notin {"idle", "cancel"}

\* A marked node, and a lost one the monitor has in hand, accounts for the CPUs of
\* its job.
MarkedIsKnown ==
  /\ \A n \in Nodes : nodes[n].job # NoJob =>
       /\ jobs[nodes[n].job].status # "absent"
       /\ nodes[n].alloc >= jobs[nodes[n].job].spec.cpus
  /\ \A n \in Nodes : ~Registered(n) => nodes[n].job = NoJob /\ nodes[n].alloc = 0
  /\ \A d \in dead : jobs[d.job].status # "absent" /\ d.alloc >= jobs[d.job].spec.cpus

\* Nothing was ever reserved for job j.
Untouched(j) ==
  /\ \A n \in Nodes : nodes[n].job # j
  /\ \A d \in dead : d.job # j
  /\ th[Monitor].pc \in Ending => th[Monitor].job # j

\* A job is reserved for once at most: until then it is untouched, afterwards it
\* starts or has been cancelled.
ReservedOnce ==
  /\ \A j \in JobIds :
       \/ jobs[j].status \in {"absent", "pending"} /\ ~(sched.job = j /\ sched.pc = "mark")
       \/ sched.job = j /\ sched.pc \in {"select", "reserve"}
       => Untouched(j)
  /\ sched.pc \in {"select", "reserve", "mark", "undo"} => jobs[sched.job].assigned = {}
  /\ sched.pc = "undo" => jobs[sched.job].status \notin {"absent", "pending"}

CallsKnow == (\A t \in Threads : CallKnows(t)) /\ (\A j \in JobIds : CancelKnows(j))

ResBase == StartedLeft /\ KnownIsDrawn /\ CallsKnow /\ MarkedIsKnown /\ ReservedOnce

ResInv == ResBase /\ ReservationHasOwner

-------------------------------------------------------------------------------
(* Steps of one call *)

\* Only call t moves.
OnlyMoves(t) == \A u \in Threads : u # t => th'[u] = th[u]

\* Goto changes where a call is and nothing else.
LEMMA GotoFields ==
  ASSUME TypeOK, NEW t \in Threads, NEW pc, Goto(t, pc)
  PROVE  /\ OnlyMoves(t)
         /\ th'[t].pc = pc /\ th'[t].job = th[t].job /\ th'[t].gang = th[t].gang
         /\ th'[t].cpus = th[t].cpus /\ th'[t].todo = th[t].todo
         /\ th'[t].fresh = th[t].fresh /\ th'[t].event = th[t].event
<1>1. th \in [Threads -> ThreadRecords]
  BY DEF TypeOK
<1>2. th' = [th EXCEPT ![t] = [th[t] EXCEPT !.pc = pc]]
  BY DEF Goto
<1>3. OnlyMoves(t) /\ th'[t] = [th[t] EXCEPT !.pc = pc]
  BY <1>1, <1>2 DEF OnlyMoves
<1>4. th[t] \in ThreadRecords
  BY <1>1
<1> QED BY <1>3, <1>4 DEF ThreadRecords

\* Over keeps CancelJob's snapshot.
LEMMA OverFields ==
  ASSUME TypeOK, NEW t \in Threads, NEW pc, Over(t, pc)
  PROVE  /\ OnlyMoves(t)
         /\ th'[t].pc = pc /\ th'[t].job = NoJob
         /\ th'[t].gang = IF t[1] = "cancel" THEN th[t].gang ELSE {}
<1> DEFINE g == IF t[1] = "cancel" THEN th[t].gang ELSE {}
<1>1. th \in [Threads -> ThreadRecords]
  BY DEF TypeOK
<1>2. th' = [th EXCEPT ![t] = [Idle EXCEPT !.pc = pc, !.gang = g]]
  BY DEF Over
<1> HIDE DEF g
<1>3. OnlyMoves(t) /\ th'[t] = [Idle EXCEPT !.pc = pc, !.gang = g]
  BY <1>1, <1>2 DEF OnlyMoves
<1>4. th'[t].pc = pc /\ th'[t].job = NoJob /\ th'[t].gang = g
  BY <1>3 DEF Idle
<1> QED BY <1>3, <1>4 DEF g

-------------------------------------------------------------------------------
(* The job table moves on *)

\* Known jobs stay known with their request, started ones keep their gang, and ended
\* ones do not change at all.
JobsOnward ==
  \A j \in JobIds :
    /\ jobs[j].status # "absent" =>
         jobs'[j].status # "absent" /\ jobs'[j].spec = jobs[j].spec
    /\ jobs[j].assigned # {} => jobs'[j].assigned = jobs[j].assigned
    /\ Terminal(jobs[j].status) => jobs'[j] = jobs[j]
    /\ jobs'[j].status = "pending" => jobs[j].status \in {"absent", "pending"}
    /\ jobs'[j].status = "absent" => jobs[j].status = "absent"

\* The table after one call of the manager.
LEMMA Onward ==
  ASSUME JMTypeOK, StartedLeft, [JMNext]_jmVars
  PROVE  JobsOnward /\ StartedLeft'
<1> USE DEF JMTypeOK, JobRecords, JobsOnward, StartedLeft, CanTransition, Terminal
<1>1. CASE UNCHANGED jobs
  BY <1>1
<1>2. ASSUME NEW id \in JobIds, NEW to \in {"completed", "failed", "cancelled"}, NEW exit,
             CanTransition(jobs[id].status, to),
             \/ jobs' = [jobs EXCEPT ![id].status = to, ![id].exit = exit]
             \/ jobs' = [jobs EXCEPT ![id].status = to]
      PROVE  JobsOnward /\ StartedLeft'
  <2>1. \A j \in JobIds : j # id => jobs'[j] = jobs[j]
    BY <1>2
  <2>2. jobs'[id].status = to /\ jobs'[id].assigned = jobs[id].assigned
        /\ jobs'[id].spec = jobs[id].spec
    BY <1>2
  <2>3. jobs[id].status \in {"pending", "running"}
    BY <1>2
  <2> QED BY <2>1, <2>2, <2>3
<1>3. ASSUME NEW id \in JobIds, NEW gang, MarkRunning(id, gang)
      PROVE  JobsOnward /\ StartedLeft'
  BY <1>3 DEF MarkRunning
<1>4. ASSUME NEW id \in JobIds, NEW spec, Submit(id, spec)
      PROVE  JobsOnward /\ StartedLeft'
  BY <1>4 DEF Submit, NewJob
<1>5. ASSUME NEW id \in JobIds, NEW n, NEW failed, NEW exit, ReportNodeEvent(id, n, failed, exit)
      PROVE  JobsOnward /\ StartedLeft'
  <2>1. \/ UNCHANGED jobs
        \/ \E to \in {"completed", "failed", "cancelled"} : \E e : Finish(id, to, e)
    BY <1>5 DEF ReportNodeEvent, IgnoreReport, AcceptReport, jmVars
  <2> QED BY <1>1, <1>2, <2>1 DEF Finish
<1>6. ASSUME NEW id \in JobIds, FailRunningJob(id) \/ Cancel(id) \/ \E e : MarkFailed(id, e)
      PROVE  JobsOnward /\ StartedLeft'
  BY <1>2, <1>6 DEF FailRunningJob, MarkFailed, Cancel, Finish
<1> QED BY <1>1, <1>3, <1>4, <1>5, <1>6 DEF JMNext, JMWork, jmVars

\* Calls other than SubmitJob's make no job known.
NoNewJobs == \A j \in JobIds : jobs[j].status = "absent" => jobs'[j].status = "absent"

LEMMA NoNewJobsBy ==
  ASSUME JMTypeOK, NEW id \in JobIds,
         \/ Cancel(id) \/ FailRunningJob(id)
         \/ \E gang : MarkRunning(id, gang)
         \/ \E n, failed, exit : ReportNodeEvent(id, n, failed, exit)
         \/ UNCHANGED jmVars
  PROVE  NoNewJobs
<1> USE DEF JMTypeOK, JobRecords, NoNewJobs, CanTransition
<1>1. ASSUME NEW j \in JobIds, jobs[j].status = "absent", j # id PROVE jobs'[j].status = "absent"
  BY <1>1 DEF Cancel, FailRunningJob, MarkRunning, ReportNodeEvent, IgnoreReport, AcceptReport,
              Finish, jmVars
<1>2. ASSUME jobs[id].status = "absent" PROVE jobs'[id].status = "absent"
  BY <1>2 DEF Cancel, FailRunningJob, MarkRunning, ReportNodeEvent, IgnoreReport, AcceptReport,
              Finish, jmVars
<1> QED BY <1>1, <1>2

-------------------------------------------------------------------------------
(* Who holds a node, from step to step *)

HoldsKept == \A n \in Nodes, j \in JobIds : Holds(n, j) => Holds(n, j)'

\* A call that does not move goes on holding what it held.
LEMMA SameCallHolds ==
  ASSUME JobsOnward, NEW u \in Threads, th'[u] = th[u], NEW n \in Nodes, NEW j \in JobIds,
         WillRelease(u, n, j)
  PROVE  WillRelease(u, n, j)'
<1>1. n \in jobs[j].assigned => n \in jobs'[j].assigned
  BY DEF JobsOnward
<1> QED BY <1>1 DEF WillRelease

\* What a step of call t may take away.
LEMMA HoldsCarry ==
  ASSUME TypeOK, JobsOnward, NEW t \in Threads, OnlyMoves(t), sched' = sched,
         NEW n \in Nodes, NEW j \in JobIds, Holds(n, j)
  PROVE  \/ Holds(n, j)'
         \/ WillRelease(t, n, j)
         \/ jobs[j].status = "running" /\ n \in jobs[j].assigned /\ jobs'[j].status # "running"
         \/ /\ t = <<"cancel", 0, j>> /\ jobs[j].status = "cancelled"
            /\ th'[t].gang # th[t].gang
<1>1. CASE Placing(n, j)
  BY <1>1 DEF Placing, Holds
<1>2. CASE jobs[j].status = "running" /\ n \in jobs[j].assigned
  BY <1>2 DEF JobsOnward, Holds
<1>3. CASE \E u \in Threads : WillRelease(u, n, j)
  <2>1. PICK u \in Threads : WillRelease(u, n, j)
    BY <1>3
  <2>2. CASE u # t
    BY <2>1, <2>2, SameCallHolds DEF OnlyMoves, Holds
  <2> QED BY <2>1, <2>2
<1>4. CASE StaleCancel(j) /\ n \in jobs[j].assigned
  <2> DEFINE c == <<"cancel", 0, j>>
  <2>1. c \in Threads
    BY ThreadIds
  <2>2. jobs'[j] = jobs[j] /\ jobs[j].status = "cancelled"
    BY <1>4 DEF StaleCancel, JobsOnward, Terminal
  <2>3. CASE th'[c].gang = th[c].gang
    BY <1>4, <2>2, <2>3 DEF StaleCancel, Holds
  <2>4. CASE th'[c].gang # th[c].gang
    <3>1. t = c
      BY <2>1, <2>4 DEF OnlyMoves
    <3> QED BY <2>2, <2>4, <3>1
  <2> QED BY <2>3, <2>4
<1> QED BY <1>1, <1>2, <1>3, <1>4 DEF Holds

\* A held job is known.
LEMMA HeldIsKnown ==
  ASSUME CtrlInv, ResBase, NEW n \in Nodes, NEW j \in JobIds, Holds(n, j)
  PROVE  jobs[j].status # "absent"
<1>1. CASE Placing(n, j)
  BY <1>1 DEF Placing, CtrlInv, GoodSched
<1>2. ASSUME NEW t \in Threads, WillRelease(t, n, j) PROVE jobs[j].status # "absent"
  BY <1>2 DEF WillRelease, ResBase, CallsKnow, CallKnows, Begun
<1> QED BY <1>1, <1>2 DEF Holds, StaleCancel

\* Finitely many jobs hold a node, so the CPUs they claim can be counted.
LEMMA ClaimsFinite == CtrlInv /\ ResBase => \A n \in Nodes : IsFiniteSet(Claims(n))
<1> SUFFICES ASSUME CtrlInv, ResBase, NEW n \in Nodes PROVE IsFiniteSet(Claims(n))
  OBVIOUS
<1> DEFINE H == {k \in JobIds : Holds(n, k)}
           f == [k \in H |-> {k} \X (1..jobs[k].spec.cpus)]
           S == {f[k] : k \in H}
<1>1. IsFiniteSet(H)
  <2>1. H \subseteq 0..idSeq
    <3>1. \A k \in H : jobs[k].status # "absent"
      BY HeldIsKnown
    <3> HIDE DEF H
    <3>2. H \subseteq JobIds
      BY DEF H
    <3>3. idSeq \in Nat
      BY DEF CtrlInv, TypeOK
    <3>4. ASSUME NEW k \in H PROVE k \in 0..idSeq
      <4>1. k \in Nat /\ k <= idSeq
        BY <3>1, <3>2, JobIdsAssumption DEF ResBase, KnownIsDrawn
      <4> QED BY <3>3, <4>1
    <3> QED BY <3>4
  <2>2. IsFiniteSet(0..idSeq)
    BY FS_Interval DEF CtrlInv, TypeOK
  <2> QED BY <2>1, <2>2, FS_Subset
<1>2. IsFiniteSet(S)
  <2>1. f \in Surjection(H, S)
    BY DEF Surjection
  <2> HIDE DEF f, H, S
  <2> QED BY <1>1, <2>1, FS_Surjection
<1>3. ASSUME NEW T \in S PROVE IsFiniteSet(T)
  <2>1. PICK k \in H : T = {k} \X (1..jobs[k].spec.cpus)
    BY <1>3
  <2>2. jobs[k].spec.cpus \in Int
    BY SpecsAssumption DEF CtrlInv, TypeOK, JMTypeOK, JobRecords, NoSpec
  <2>3. IsFiniteSet({k})
    BY FS_Singleton, Zenon
  <2>4. IsFiniteSet(1..jobs[k].spec.cpus)
    BY <2>2, FS_Interval
  <2> QED BY <2>1, <2>3, <2>4, FS_Product
<1>4. Claims(n) = UNION S
  BY DEF Claims
<1> HIDE DEF S
<1> QED BY <1>2, <1>3, <1>4, FS_UNION

\* Before and after a step.
StepOfBase == CtrlInv /\ ResBase /\ CtrlInv' /\ ResBase' /\ JobsOnward

LEMMA FiniteBeforeAndAfter ==
  StepOfBase => \A n \in Nodes : IsFiniteSet(Claims(n)) /\ IsFiniteSet(Claims(n)')
<1>1. (CtrlInv /\ ResBase => \A n \in Nodes : IsFiniteSet(Claims(n)))'
  BY ClaimsFinite, PTL
<1> QED BY <1>1, ClaimsFinite DEF StepOfBase

\* The claim of one job, in the state before the step.
Claim(j) == {j} \X (1..jobs[j].spec.cpus)

LEMMA ClaimCount ==
  ASSUME CtrlInv, NEW j \in JobIds
  PROVE  /\ IsFiniteSet(Claim(j)) /\ Cardinality(Claim(j)) \in Nat
         /\ Cardinality(Claim(j)) = IF jobs[j].spec.cpus < 1 THEN 0 ELSE jobs[j].spec.cpus
<1> DEFINE c == jobs[j].spec.cpus
<1>1. c \in Int
  BY SpecsAssumption DEF CtrlInv, TypeOK, JMTypeOK, JobRecords, NoSpec
<1>2. IsFiniteSet({j}) /\ Cardinality({j}) = 1
  BY FS_Singleton, Zenon
<1> HIDE DEF c
<1>3. IsFiniteSet(1..c) /\ Cardinality(1..c) = IF 1 > c THEN 0 ELSE c - 1 + 1
  BY <1>1, FS_Interval
<1>4. IsFiniteSet({j} \X (1..c)) /\ Cardinality({j} \X (1..c)) = 1 * Cardinality(1..c)
  BY <1>2, <1>3, FS_Product
<1>5. Cardinality({j} \X (1..c)) = IF c < 1 THEN 0 ELSE c
  BY <1>1, <1>3, <1>4
<1> QED BY <1>1, <1>4, <1>5 DEF Claim, c

\* A job that goes on holding the node goes on claiming the same CPUs.
LEMMA ClaimKept ==
  ASSUME StepOfBase, NEW n \in Nodes, NEW k \in JobIds, Holds(n, k), Holds(n, k)'
  PROVE  Claim(k) \subseteq Claims(n)'
<1>1. jobs'[k].spec = jobs[k].spec
  BY HeldIsKnown DEF StepOfBase, JobsOnward
<1> QED BY <1>1 DEF Claim, Claims

\* If all holders but j keep the node, no more than j's claim is lost.
LEMMA ClaimsLose ==
  ASSUME StepOfBase, NEW n \in Nodes, NEW j \in JobIds,
         \A k \in JobIds : Holds(n, k) /\ k # j => Holds(n, k)'
  PROVE  Cardinality(Claims(n)) <= Cardinality(Claims(n)') + Cardinality(Claim(j))
<1> DEFINE A == Claims(n)
           B == Claims(n)'
           C == Claim(j)
<1>1. IsFiniteSet(A) /\ IsFiniteSet(B) /\ IsFiniteSet(C)
  BY FiniteBeforeAndAfter, ClaimCount DEF StepOfBase
<1>2. A \ C \subseteq B
  <2>1. ASSUME NEW p \in A, p \notin C PROVE p \in B
    <3>1. PICK k \in JobIds : Holds(n, k) /\ p \in Claim(k)
      BY <2>1 DEF Claims, Claim
    <3>2. k # j
      BY <2>1, <3>1
    <3> QED BY <3>1, <3>2, ClaimKept
  <2> HIDE DEF A, B, C
  <2> QED BY <2>1
<1> HIDE DEF A, B, C
<1>3. Cardinality(A \ C) <= Cardinality(B)
  BY <1>1, <1>2, FS_Subset
<1>4. Cardinality(A \ C) = Cardinality(A) - Cardinality(A \cap C)
  BY <1>1, FS_Difference
<1>5. Cardinality(A \cap C) <= Cardinality(C) /\ IsFiniteSet(A \cap C)
  BY <1>1, FS_Intersection
<1>6. /\ Cardinality(A) \in Nat /\ Cardinality(B) \in Nat /\ Cardinality(C) \in Nat
      /\ Cardinality(A \cap C) \in Nat
  BY <1>1, <1>5, FS_CardinalityType
<1>7. Cardinality(A) <= Cardinality(B) + Cardinality(C)
  BY <1>3, <1>4, <1>5, <1>6
<1> QED BY <1>7 DEF A, B, C

\* If all holders keep the node, the claims do not shrink.
LEMMA ClaimsGrow ==
  ASSUME StepOfBase, NEW n \in Nodes, \A k \in JobIds : Holds(n, k) => Holds(n, k)'
  PROVE  Cardinality(Claims(n)) <= Cardinality(Claims(n)')
<1>1. Claims(n) \subseteq Claims(n)'
  <2>1. ASSUME NEW p \in Claims(n) PROVE p \in Claims(n)'
    <3>1. PICK k \in JobIds : Holds(n, k) /\ p \in Claim(k)
      BY <2>1 DEF Claims, Claim
    <3> QED BY <3>1, ClaimKept
  <2> QED BY <2>1
<1> QED BY <1>1, FiniteBeforeAndAfter, FS_Subset

\* A new holder adds its whole claim.
LEMMA ClaimsGain ==
  ASSUME StepOfBase, NEW n \in Nodes, NEW j \in JobIds,
         ~Holds(n, j), Holds(n, j)', jobs'[j].spec = jobs[j].spec,
         \A k \in JobIds : Holds(n, k) => Holds(n, k)'
  PROVE  Cardinality(Claims(n)) + Cardinality(Claim(j)) <= Cardinality(Claims(n)')
<1> DEFINE A == Claims(n)
           B == Claims(n)'
           C == Claim(j)
<1>1. IsFiniteSet(A) /\ IsFiniteSet(B) /\ IsFiniteSet(C)
  BY FiniteBeforeAndAfter, ClaimCount DEF StepOfBase
<1>2. A \subseteq B
  <2>1. ASSUME NEW p \in A PROVE p \in B
    <3>1. PICK k \in JobIds : Holds(n, k) /\ p \in Claim(k)
      BY <2>1 DEF Claims, Claim
    <3> QED BY <3>1, ClaimKept
  <2> HIDE DEF A, B
  <2> QED BY <2>1
<1>3. C \subseteq B
  BY DEF Claims, Claim
<1>4. A \cap C = {}
  <2>1. ASSUME NEW p \in A, p \in C PROVE FALSE
    <3>1. PICK k \in JobIds : Holds(n, k) /\ p \in Claim(k)
      BY <2>1 DEF Claims, Claim
    <3>2. p[1] = k /\ p[1] = j
      BY <2>1, <3>1 DEF Claim
    <3> QED BY <3>1, <3>2
  <2> HIDE DEF A, C
  <2> QED BY <2>1
<1> HIDE DEF A, B, C
<1>5. Cardinality(A \cup C) = Cardinality(A) + Cardinality(C) - Cardinality(A \cap C)
      /\ IsFiniteSet(A \cup C)
  BY <1>1, FS_Union
<1>6. Cardinality(A \cap C) = 0
  BY <1>4, FS_EmptySet
<1>7. Cardinality(A \cup C) <= Cardinality(B)
  BY <1>1, <1>2, <1>3, FS_Subset
<1>8. Cardinality(A) \in Nat /\ Cardinality(B) \in Nat /\ Cardinality(C) \in Nat
  BY <1>1, FS_CardinalityType
<1>9. Cardinality(A) + Cardinality(C) <= Cardinality(B)
  BY <1>5, <1>6, <1>7, <1>8
<1> QED BY <1>9 DEF A, B, C

-------------------------------------------------------------------------------
(* What a step does to the registry, and who owns it afterwards *)

\* Numbers the arithmetic below needs.
LEMMA Counts ==
  ASSUME StepOfBase, NEW n \in Nodes
  PROVE  /\ nodes[n].alloc \in Nat /\ nodes'[n].alloc \in Nat
         /\ Cardinality(Claims(n)) \in Nat /\ Cardinality(Claims(n)') \in Nat
<1>1. nodes[n].alloc \in Nat /\ nodes'[n].alloc \in Nat
  BY DEF StepOfBase, CtrlInv, TypeOK, NodeRecords
<1> QED BY <1>1, FiniteBeforeAndAfter, FS_CardinalityType

\* What is to be shown of each node after a step.
LEMMA OwnerAfter ==
  ASSUME CtrlInv',
         \A n \in Nodes :
           /\ \A k \in JobIds : nodes'[n].job = k => Holds(n, k)'
           /\ nodes'[n].alloc <= Cardinality(Claims(n)')
  PROVE  ReservationHasOwner'
<1>1. ASSUME NEW n \in Nodes, nodes'[n].job # NoJob PROVE Holds(n, nodes[n].job)'
  <2>1. nodes'[n].job \in JobIds
    BY <1>1 DEF CtrlInv, TypeOK, NodeRecords
  <2>2. PICK k \in JobIds : nodes'[n].job = k
    BY <2>1
  <2>3. Holds(n, k)'
    BY <2>2
  <2> QED BY <2>2, <2>3 DEF Holds, Placing, WillRelease, StaleCancel
<1> QED BY <1>1 DEF ReservationHasOwner

\* A marked node is held by its job.
LEMMA OwnerBefore ==
  ASSUME ReservationHasOwner, NEW n \in Nodes, NEW k \in JobIds, nodes[n].job = k
  PROVE  Holds(n, k)
BY JobIdsAssumption DEF ReservationHasOwner, NoJob

\* The step changes no reservation and ends no holding.
LEMMA OwnerKept ==
  ASSUME StepOfBase, ReservationHasOwner, HoldsKept,
         \A n \in Nodes : nodes'[n].job = nodes[n].job /\ nodes'[n].alloc = nodes[n].alloc
  PROVE  ReservationHasOwner'
<1>1. ASSUME NEW n \in Nodes
      PROVE  /\ \A k \in JobIds : nodes'[n].job = k => Holds(n, k)'
             /\ nodes'[n].alloc <= Cardinality(Claims(n)')
  <2>1. nodes[n].alloc <= Cardinality(Claims(n))
        /\ Cardinality(Claims(n)) <= Cardinality(Claims(n)')
    BY ClaimsGrow DEF ReservationHasOwner, HoldsKept
  <2>2. nodes'[n].alloc <= Cardinality(Claims(n)')
    BY <2>1, Counts
  <2>3. \A k \in JobIds : nodes'[n].job = k => Holds(n, k)'
    BY OwnerBefore DEF HoldsKept
  <2> QED BY <2>2, <2>3
<1> QED BY <1>1, OwnerAfter DEF StepOfBase

\* The step releases gang G, with at least the CPUs of the one job that thereby
\* stops holding nodes of G.
LEMMA OwnerReleased ==
  ASSUME StepOfBase, ReservationHasOwner,
         NEW G \in SUBSET Nodes, NEW c \in Nat, ReleaseNodes(G, c),
         NEW j \in JobIds, c >= jobs[j].spec.cpus,
         \A n \in Nodes, k \in JobIds : Holds(n, k) => Holds(n, k)' \/ (k = j /\ n \in G)
  PROVE  ReservationHasOwner'
<1>1. ASSUME NEW n \in Nodes, n \notin G
      PROVE  /\ \A k \in JobIds : nodes'[n].job = k => Holds(n, k)'
             /\ nodes'[n].alloc <= Cardinality(Claims(n)')
  <2>1. nodes'[n] = nodes[n]
    BY <1>1 DEF ReleaseNodes
  <2>2. nodes[n].alloc <= Cardinality(Claims(n))
        /\ Cardinality(Claims(n)) <= Cardinality(Claims(n)')
    BY <1>1, ClaimsGrow DEF ReservationHasOwner
  <2>3. nodes'[n].alloc <= Cardinality(Claims(n)')
    BY <2>1, <2>2, Counts
  <2>4. \A k \in JobIds : nodes'[n].job = k => Holds(n, k)'
    BY <1>1, <2>1, OwnerBefore
  <2> QED BY <2>3, <2>4
<1>2. ASSUME NEW n \in Nodes, n \in G
      PROVE  /\ \A k \in JobIds : nodes'[n].job = k => Holds(n, k)'
             /\ nodes'[n].alloc <= Cardinality(Claims(n)')
  <2>1. nodes'[n].job = NoJob
        /\ nodes'[n].alloc = IF nodes[n].alloc < c THEN 0 ELSE nodes[n].alloc - c
    <3>1. CASE Registered(n)
      BY <1>2, <3>1 DEF ReleaseNodes, StepOfBase, CtrlInv, TypeOK, NodeRecords
    <3>2. CASE ~Registered(n)
      <4>1. nodes'[n] = nodes[n] /\ nodes[n].job = NoJob /\ nodes[n].alloc = 0
        BY <3>2 DEF ReleaseNodes, StepOfBase, ResBase, MarkedIsKnown
      <4> QED BY <4>1
    <3> QED BY <3>1, <3>2
  <2>2. \A k \in JobIds : nodes'[n].job = k => Holds(n, k)'
    BY <2>1, JobIdsAssumption DEF NoJob
  <2>3. nodes[n].alloc <= Cardinality(Claims(n))
        /\ Cardinality(Claims(n)) <= Cardinality(Claims(n)') + Cardinality(Claim(j))
    BY ClaimsLose DEF ReservationHasOwner
  <2>4. Cardinality(Claim(j)) \in Nat /\ Cardinality(Claim(j)) <= c
    <3>1. jobs[j].spec.cpus \in Int
      BY SpecsAssumption DEF StepOfBase, CtrlInv, TypeOK, JMTypeOK, JobRecords, NoSpec
    <3> QED BY <3>1, ClaimCount DEF StepOfBase
  <2>5. nodes'[n].alloc <= Cardinality(Claims(n)')
    BY <2>1, <2>3, <2>4, Counts
  <2> QED BY <2>2, <2>5
<1> QED BY <1>1, <1>2, OwnerAfter DEF StepOfBase

\* The step reserves gang G for job j, which now holds it and held none of it before.
LEMMA OwnerReserved ==
  ASSUME StepOfBase, ReservationHasOwner,
         NEW G \in SUBSET Nodes, NEW j \in JobIds, NEW c \in Nat, ReserveNodes(j, G, c),
         jobs[j].status # "absent", c = jobs[j].spec.cpus, c >= 1,
         \A n \in G : ~Holds(n, j) /\ Holds(n, j)',
         HoldsKept
  PROVE  ReservationHasOwner'
<1>1. ASSUME NEW n \in Nodes, n \notin G
      PROVE  /\ \A k \in JobIds : nodes'[n].job = k => Holds(n, k)'
             /\ nodes'[n].alloc <= Cardinality(Claims(n)')
  <2>1. nodes'[n] = nodes[n]
    BY <1>1 DEF ReserveNodes
  <2>2. nodes[n].alloc <= Cardinality(Claims(n))
        /\ Cardinality(Claims(n)) <= Cardinality(Claims(n)')
    BY ClaimsGrow DEF ReservationHasOwner, HoldsKept
  <2>3. nodes'[n].alloc <= Cardinality(Claims(n)')
    BY <2>1, <2>2, Counts
  <2>4. \A k \in JobIds : nodes'[n].job = k => Holds(n, k)'
    BY <2>1, OwnerBefore DEF HoldsKept
  <2> QED BY <2>3, <2>4
<1>2. ASSUME NEW n \in Nodes, n \in G
      PROVE  /\ \A k \in JobIds : nodes'[n].job = k => Holds(n, k)'
             /\ nodes'[n].alloc <= Cardinality(Claims(n)')
  <2>1. nodes'[n].job = j /\ nodes'[n].alloc = nodes[n].alloc + c
    BY <1>2 DEF ReserveNodes, StepOfBase, CtrlInv, TypeOK, NodeRecords
  <2>2. \A k \in JobIds : nodes'[n].job = k => Holds(n, k)'
    BY <1>2, <2>1
  <2>3. jobs'[j].spec = jobs[j].spec
    BY DEF StepOfBase, JobsOnward
  <2>4. nodes[n].alloc <= Cardinality(Claims(n))
        /\ Cardinality(Claims(n)) + Cardinality(Claim(j)) <= Cardinality(Claims(n)')
    BY <1>2, <2>3, ClaimsGain DEF ReservationHasOwner, HoldsKept
  <2>5. Cardinality(Claim(j)) = c
    BY ClaimCount DEF StepOfBase
  <2>6. nodes'[n].alloc <= Cardinality(Claims(n)')
    BY <2>1, <2>4, <2>5, Counts
  <2> QED BY <2>2, <2>6
<1> QED BY <1>1, <1>2, OwnerAfter DEF StepOfBase

-------------------------------------------------------------------------------
(* What the locals of a call that does not move go on meaning *)

LEMMA OtherCalls ==
  ASSUME CtrlInv, ResBase, JobsOnward, NEW u \in Threads, th'[u] = th[u]
  PROVE  CallKnows(u)'
<1> DEFINE j == th[u].job
<1>1. CallKnows(u) /\ GoodThread(th[u]) /\ th[u] \in ThreadRecords
  BY DEF ResBase, CallsKnow, CtrlInv, TypeOK
<1>2. CASE th[u].pc \notin Begun
  BY <1>2 DEF CallKnows, Begun, Ending
<1>3. CASE th[u].pc \in Begun
  <2>1. j \in JobIds /\ jobs[j].status # "absent"
    BY <1>1, <1>3 DEF GoodThread, CallKnows, Begun
  <2>2. jobs'[j].status # "absent" /\ jobs'[j].spec = jobs[j].spec
        /\ (jobs[j].assigned # {} => jobs'[j].assigned = jobs[j].assigned)
        /\ (Terminal(jobs[j].status) => Terminal(jobs'[j].status))
    BY <2>1 DEF JobsOnward
  <2> HIDE DEF j
  <2>3. th[u].job = j /\ th'[u].job = j
    BY DEF j
  <2> QED BY <1>1, <2>2, <2>3 DEF CallKnows
<1> QED BY <1>2, <1>3

LEMMA OtherCancels ==
  ASSUME ResBase, JobsOnward, NEW j \in JobIds,
         th'[<<"cancel", 0, j>>] = th[<<"cancel", 0, j>>],
         jobs'[j].status = "cancelled" => jobs[j].status = "cancelled"
  PROVE  CancelKnows(j)'
<1>1. CancelKnows(j)
  BY DEF ResBase, CallsKnow
<1>2. jobs[j].assigned # {} => jobs'[j].assigned = jobs[j].assigned
  BY DEF JobsOnward
<1> QED BY <1>1, <1>2 DEF CancelKnows

\* No job becomes cancelled but by the CancelJob call t.
CancelledBy(t) ==
  \A j \in JobIds : jobs'[j].status = "cancelled" =>
    jobs[j].status = "cancelled" \/ t = <<"cancel", 0, j>>

LEMMA CallsKnowAfter ==
  ASSUME CtrlInv, ResBase, JobsOnward, NEW t \in Threads, OnlyMoves(t), CancelledBy(t),
         CallKnows(t)', \A j \in JobIds : t = <<"cancel", 0, j>> => CancelKnows(j)'
  PROVE  CallsKnow'
<1>1. ASSUME NEW u \in Threads PROVE CallKnows(u)'
  <2>1. CASE u = t
    BY <2>1
  <2>2. CASE u # t
    BY <2>2, OtherCalls DEF OnlyMoves
  <2> QED BY <2>1, <2>2
<1>2. ASSUME NEW j \in JobIds PROVE CancelKnows(j)'
  <2>1. CASE t = <<"cancel", 0, j>>
    BY <2>1
  <2>2. CASE t # <<"cancel", 0, j>>
    BY <2>2, ThreadIds, OtherCancels DEF OnlyMoves, CancelledBy
  <2> QED BY <2>1, <2>2
<1> QED BY <1>1, <1>2 DEF CallsKnow

\* A step that makes no job known and draws no id.
LEMMA DrawnAfter ==
  ASSUME ResBase, JobsOnward, NoNewJobs, idSeq' = idSeq,
         \A j \in JobIds : th'[<<"submit", 0, j>>].pc # "idle" => th[<<"submit", 0, j>>].pc # "idle"
  PROVE  KnownIsDrawn'
BY DEF ResBase, KnownIsDrawn, JobsOnward, NoNewJobs, Validate

-------------------------------------------------------------------------------
(* What no handler does to the registry and to what the monitor has in hand *)

\* Handlers release nodes and reserve none; what the monitor is given to handle was
\* in its hands or on a node before.
HandlerFrees ==
  /\ \A n \in Nodes :
       /\ nodes'[n].job \in {NoJob, nodes[n].job}
       /\ nodes'[n].job # NoJob => nodes'[n].alloc = nodes[n].alloc
       /\ nodes'[n].status = "absent" => nodes'[n] = nodes[n]
  /\ \A d \in dead' :
       \/ d \in dead
       \/ \E n \in Nodes : d.job = nodes[n].job /\ d.alloc = nodes[n].alloc
  /\ th'[Monitor].pc \in Ending =>
       \/ th[Monitor].pc \in Ending /\ th'[Monitor].job = th[Monitor].job
       \/ \E d \in dead : d.job = th'[Monitor].job

LEMMA MarkedAfter ==
  ASSUME CtrlInv, CtrlInv', ResBase, JobsOnward, HandlerFrees
  PROVE  MarkedIsKnown'
<1>1. ASSUME NEW n \in Nodes, nodes'[n].job # NoJob
      PROVE  jobs'[nodes'[n].job].status # "absent"
             /\ nodes'[n].alloc >= jobs'[nodes'[n].job].spec.cpus
  <2>1. nodes'[n].job = nodes[n].job /\ nodes'[n].alloc = nodes[n].alloc
    BY <1>1 DEF HandlerFrees
  <2>2. nodes[n].job \in JobIds
    BY <1>1, <2>1 DEF CtrlInv, TypeOK, NodeRecords
  <2> QED BY <1>1, <2>1, <2>2 DEF ResBase, MarkedIsKnown, JobsOnward
<1>2. ASSUME NEW n \in Nodes, ~Registered(n)' PROVE nodes'[n].job = NoJob /\ nodes'[n].alloc = 0
  BY <1>2 DEF HandlerFrees, Registered, ResBase, MarkedIsKnown
<1>3. ASSUME NEW d \in dead' PROVE jobs'[d.job].status # "absent" /\ d.alloc >= jobs'[d.job].spec.cpus
  <2>1. d.job \in JobIds
    BY <1>3 DEF CtrlInv, TypeOK
  <2>2. jobs[d.job].status # "absent" /\ d.alloc >= jobs[d.job].spec.cpus
    <3>1. CASE d \in dead
      BY <3>1 DEF ResBase, MarkedIsKnown
    <3>2. ASSUME NEW n \in Nodes, d.job = nodes[n].job, d.alloc = nodes[n].alloc
          PROVE  jobs[d.job].status # "absent" /\ d.alloc >= jobs[d.job].spec.cpus
      BY <2>1, <3>2, JobIdsAssumption DEF NoJob, ResBase, MarkedIsKnown
    <3> QED BY <3>1, <3>2 DEF HandlerFrees
  <2> QED BY <2>1, <2>2 DEF JobsOnward
<1> QED BY <1>1, <1>2, <1>3 DEF MarkedIsKnown, Registered

LEMMA OnceAfter ==
  ASSUME CtrlInv, ResBase, JobsOnward, HandlerStep, HandlerFrees
  PROVE  ReservedOnce'
<1>1. ASSUME NEW j \in JobIds, Untouched(j) PROVE Untouched(j)'
  <2>1. \A n \in Nodes : nodes'[n].job # j
    BY <1>1, JobIdsAssumption DEF Untouched, HandlerFrees, NoJob
  <2>2. \A d \in dead' : d.job # j
    BY <1>1 DEF Untouched, HandlerFrees
  <2>3. th'[Monitor].pc \in Ending => th'[Monitor].job # j
    BY <1>1 DEF Untouched, HandlerFrees
  <2> QED BY <2>1, <2>2, <2>3 DEF Untouched
<1>2. ASSUME NEW j \in JobIds,
             \/ jobs'[j].status \in {"absent", "pending"} /\ ~(sched.job = j /\ sched.pc = "mark")
             \/ sched.job = j /\ sched.pc \in {"select", "reserve"}
      PROVE  Untouched(j)'
  <2>1. jobs'[j].status \in {"absent", "pending"} => jobs[j].status \in {"absent", "pending"}
    BY DEF JobsOnward
  <2>2. Untouched(j)
    BY <1>2, <2>1 DEF ResBase, ReservedOnce
  <2> QED BY <1>1, <2>2
<1>3. ASSUME sched.pc \in {"select", "reserve", "mark", "undo"}
      PROVE  sched.job \in JobIds /\ jobs'[sched.job].assigned = {}
  BY <1>3 DEF CtrlInv, GoodSched, ResBase, ReservedOnce, HandlerStep, KeptGangs
<1>4. ASSUME sched.pc = "undo" PROVE jobs'[sched.job].status \notin {"absent", "pending"}
  BY <1>3, <1>4 DEF ResBase, ReservedOnce, JobsOnward
<1>5. sched' = sched
  BY DEF HandlerStep
<1> QED BY <1>2, <1>3, <1>4, <1>5 DEF ReservedOnce

\* Together: a handler's step keeps the base of the invariant.
LEMMA HandlerBase ==
  ASSUME CtrlInv, CtrlInv', ResBase, HandlerStep, HandlerFrees, CallsKnow', KnownIsDrawn'
  PROVE  StepOfBase
<1>1. JobsOnward /\ StartedLeft'
  BY Onward DEF CtrlInv, TypeOK, ResBase, HandlerStep
<1>2. MarkedIsKnown' /\ ReservedOnce'
  BY <1>1, MarkedAfter, OnceAfter
<1> QED BY <1>1, <1>2 DEF ResBase, StepOfBase

\* A handler's step that changes no reservation, and whose call and job keep holding
\* what they held.
LEMMA QuietHandler ==
  ASSUME CtrlInv, ResInv, HandlerStep, NEW t \in Threads, OnlyMoves(t),
         HandlerFrees, \A n \in Nodes : nodes'[n].job = nodes[n].job /\ nodes'[n].alloc = nodes[n].alloc,
         CancelledBy(t), CallKnows(t)', \A j \in JobIds : t = <<"cancel", 0, j>> => CancelKnows(j)',
         KnownIsDrawn',
         \A n \in Nodes, j \in JobIds :
           \/ WillRelease(t, n, j)
           \/ jobs[j].status = "running" /\ n \in jobs[j].assigned /\ jobs'[j].status # "running"
           => Holds(n, j)',
         \A j \in JobIds : t = <<"cancel", 0, j>> /\ jobs[j].status = "cancelled"
           => th'[t].gang = th[t].gang
  PROVE  ResInv'
<1>1. CtrlInv'
  BY HandlerKeeps
<1>2. JobsOnward
  BY Onward DEF CtrlInv, TypeOK, ResInv, ResBase, HandlerStep
<1>3. StepOfBase
  BY <1>1, <1>2, CallsKnowAfter, HandlerBase DEF ResInv
<1>4. HoldsKept
  BY <1>2, HoldsCarry DEF HoldsKept, HandlerStep, CtrlInv
<1> QED BY <1>3, <1>4, OwnerKept DEF ResInv, StepOfBase

\* The tables the step leaves alone.
LEMMA SameTables ==
  /\ UNCHANGED jobs => JobsOnward /\ NoNewJobs /\ \A t \in Threads : CancelledBy(t)
  /\ CtrlInv /\ UNCHANGED <<nodes, dead>> /\ (th'[Monitor].pc \in Ending =>
       th[Monitor].pc \in Ending /\ th'[Monitor].job = th[Monitor].job) => HandlerFrees
BY DEF JobsOnward, NoNewJobs, CancelledBy, HandlerFrees

\* A call that has not begun, or is over, knows nothing and holds nothing.
LEMMA NothingKnown ==
  ASSUME NEW t \in Threads
  PROVE  /\ th[t].pc \notin Begun => \A n \in Nodes, j \in JobIds : ~WillRelease(t, n, j)
         /\ th'[t].pc \notin Begun => CallKnows(t)'
BY DEF CallKnows, Begun, Ending, WillRelease

-------------------------------------------------------------------------------
(* Handler by handler *)

\* RegisterNode keeps the reservation of a node that registers again.
LEMMA RegisterOwned ==
  ASSUME CtrlInv, ResInv, NEW n \in Nodes, Register(n) PROVE ResInv'
<1> DEFINE t == <<"register", n, 0>>
<1>1. t \in Threads /\ t # Monitor /\ \A j \in JobIds : t # <<"cancel", 0, j>> /\ t # <<"submit", 0, j>>
  BY ThreadIds DEF Monitor
<1>2. th[t].pc = "idle" /\ Goto(t, "kick") /\ UNCHANGED <<jobs, idSeq, dead>>
  BY DEF Register, At, jmVars
<1> HIDE DEF t
<1>3. OnlyMoves(t) /\ th'[t].pc = "kick"
  BY <1>1, <1>2, GotoFields DEF CtrlInv
<1>4. \A m \in Nodes : nodes'[m].job = nodes[m].job /\ nodes'[m].alloc = nodes[m].alloc
                       /\ (nodes'[m].status = "absent" => nodes'[m] = nodes[m])
  BY DEF Register, RegisterNode, CtrlInv, TypeOK, NodeRecords
<1>5. HandlerFrees
  BY <1>1, <1>2, <1>3, <1>4, ThreadIds DEF HandlerFrees, OnlyMoves
<1>6. KnownIsDrawn'
  BY <1>1, <1>2, <1>3, ThreadIds, SameTables, DrawnAfter DEF OnlyMoves, ResInv
<1> QED BY <1>1, <1>2, <1>3, <1>4, <1>5, <1>6, RegisterStep, SameTables, NothingKnown, QuietHandler
        DEF Begun

\* Beats and their absence change no reservation.
LEMMA BeatOwned ==
  ASSUME CtrlInv, ResInv, NEW n \in Nodes, MonTouch(n) \/ Silence(n) PROVE ResInv'
<1>1. UNCHANGED <<jobs, idSeq, th, dead>> /\ (Touch(n) \/ Expire(n))
  BY DEF MonTouch, Silence, jmVars
<1>2. \A m \in Nodes : nodes'[m].job = nodes[m].job /\ nodes'[m].alloc = nodes[m].alloc
                       /\ (nodes'[m].status = "absent" => nodes'[m] = nodes[m])
  BY <1>1 DEF Touch, Expire, Registered, CtrlInv, TypeOK, NodeRecords
<1>3. HandlerFrees
  BY <1>1, <1>2 DEF HandlerFrees
<1>4. JobsOnward /\ NoNewJobs /\ KnownIsDrawn' /\ HandlerStep
  BY <1>1, SameTables, DrawnAfter, BeatSteps DEF ResInv
<1>5. CtrlInv' /\ CallsKnow'
  BY <1>1, <1>4, HandlerKeeps, ThreadIds, SameTables, OtherCalls, OtherCancels
     DEF CallsKnow, ResInv
<1>6. HoldsKept
  BY <1>1, <1>4 DEF HoldsKept, Holds, Placing, WillRelease, StaleCancel, HandlerStep
<1> QED BY <1>2, <1>3, <1>4, <1>5, <1>6, HandlerBase, OwnerKept DEF ResInv, StepOfBase

\* SubmitJob draws an id and stores a pending job nothing is reserved for.
LEMMA SubmitOwned ==
  ASSUME CtrlInv, ResInv, NEW j \in JobIds, SubmitDraw(j) \/ SubmitStore(j) PROVE ResInv'
<1> DEFINE t == <<"submit", 0, j>>
<1>1. t \in Threads /\ t # Monitor /\ \A k \in JobIds : t # <<"cancel", 0, k>>
  BY ThreadIds DEF Monitor
<1>3. ASSUME NEW pc \in {"submit", "kick"}, Goto(t, pc), th[t].pc \notin Begun,
             UNCHANGED <<nodes, dead>>, JobsOnward, CancelledBy(t), KnownIsDrawn', HandlerStep,
             \A k \in JobIds : jobs[k].status = "running" => jobs'[k].status = "running"
      PROVE  ResInv'
  <2> HIDE DEF t
  <2>1. OnlyMoves(t) /\ th'[t].pc \notin Begun
    BY <1>1, <1>3, GotoFields DEF CtrlInv, Begun
  <2>2. HandlerFrees
    BY <1>1, <1>3, <2>1, SameTables, ThreadIds DEF OnlyMoves
  <2> QED BY <1>1, <1>3, <2>1, <2>2, NothingKnown, QuietHandler
<1>4. ASSUME NEW pc, Goto(t, pc) PROVE OnlyMoves(t) /\ th'[t].pc = pc
  BY <1>1, <1>4, GotoFields, Zenon DEF CtrlInv
<1>5. CASE SubmitDraw(j)
  <2>1. UNCHANGED <<jobs, nodes, dead>> /\ idSeq' = j /\ j = idSeq + 1 /\ Goto(t, "submit")
    BY <1>5 DEF SubmitDraw, jmVars
  <2>2. th[t].pc = "idle"
    <3>1. th[t].pc # "idle" => j <= idSeq
      BY DEF ResInv, ResBase, KnownIsDrawn
    <3>2. idSeq \in Nat
      BY DEF CtrlInv, TypeOK
    <3> QED BY <2>1, <3>1, <3>2
  <2>3. KnownIsDrawn'
    <3>1. ASSUME NEW k \in JobIds, k # j PROVE th'[<<"submit", 0, k>>] = th[<<"submit", 0, k>>]
      <4>1. <<"submit", 0, k>> \in Threads /\ <<"submit", 0, k>> # t
        BY <3>1, ThreadIds
      <4> QED BY <2>1, <1>4, <4>1 DEF OnlyMoves
    <3>2. ASSUME NEW k \in JobIds
          PROVE  /\ jobs'[k].status # "absent" => k <= idSeq' /\ Validate(jobs'[k].spec)
                 /\ th'[<<"submit", 0, k>>].pc # "idle" => k <= idSeq'
      <4>1. idSeq \in Nat /\ k \in Nat
        BY JobIdsAssumption DEF CtrlInv, TypeOK
      <4>2. /\ jobs[k].status # "absent" => k <= idSeq /\ Validate(jobs[k].spec)
            /\ th[<<"submit", 0, k>>].pc # "idle" => k <= idSeq
        BY DEF ResInv, ResBase, KnownIsDrawn
      <4> HIDE DEF t
      <4>3. CASE k = j
        BY <2>1, <4>1, <4>2, <4>3
      <4>4. CASE k # j
        BY <2>1, <3>1, <4>1, <4>2, <4>4
      <4> QED BY <4>3, <4>4
    <3> QED BY <3>2 DEF KnownIsDrawn, Validate
  <2>4. JobsOnward /\ CancelledBy(t)
    BY <1>1, <2>1, SameTables
  <2> QED BY <1>3, <1>5, <2>1, <2>2, <2>3, <2>4, SubmitSteps DEF Begun
<1>6. CASE SubmitStore(j)
  <2>1. PICK spec \in Specs : Validate(spec) /\ Submit(j, spec)
    BY <1>6 DEF SubmitStore
  <2>2. th[t].pc = "submit" /\ Goto(t, "kick") /\ UNCHANGED <<nodes, dead, idSeq>>
    BY <1>6 DEF SubmitStore, At
  <2>3. /\ jobs[j].status = "absent" /\ jobs'[j].status = "pending" /\ jobs'[j].spec = spec
        /\ \A k \in JobIds : k # j => jobs'[k] = jobs[k]
    BY <2>1 DEF Submit, NewJob, CtrlInv, TypeOK, JMTypeOK
  <2>4. KnownIsDrawn'
    <3>1. ASSUME NEW k \in JobIds, k # j PROVE th'[<<"submit", 0, k>>] = th[<<"submit", 0, k>>]
      <4>1. <<"submit", 0, k>> \in Threads /\ <<"submit", 0, k>> # t
        BY <3>1, ThreadIds
      <4> QED BY <2>2, <1>4, <4>1 DEF OnlyMoves
    <3>2. j <= idSeq
      BY <2>2 DEF ResInv, ResBase, KnownIsDrawn
    <3> QED BY <2>1, <2>2, <2>3, <3>1, <3>2 DEF ResInv, ResBase, KnownIsDrawn, Validate
  <2>5. HandlerStep
    BY <1>6, SubmitSteps
  <2>6. JobsOnward
    BY <2>5, Onward DEF CtrlInv, TypeOK, ResInv, ResBase, HandlerStep
  <2>7. CancelledBy(t) /\ \A k \in JobIds : jobs[k].status = "running" => jobs'[k].status = "running"
    BY <2>3 DEF CancelledBy
  <2> QED BY <1>3, <2>2, <2>4, <2>5, <2>6, <2>7 DEF Begun
<1> QED BY <1>5, <1>6

LEMMA DrawnByOthers ==
  ASSUME ResInv, JobsOnward, NoNewJobs, idSeq' = idSeq, NEW t \in Threads, OnlyMoves(t),
         \A j \in JobIds : t # <<"submit", 0, j>>
  PROVE  KnownIsDrawn'
BY ThreadIds, DrawnAfter DEF OnlyMoves, ResInv

\* CancelJob's look at the job.
LEMMA CancelGetOwned == ASSUME CtrlInv, ResInv, NEW j \in JobIds, CancelGet(j) PROVE ResInv'
<1> DEFINE t == <<"cancel", 0, j>>
           r == [th[t] EXCEPT !.pc = "cancel", !.job = j, !.gang = jobs[j].assigned,
                              !.cpus = jobs[j].spec.cpus, !.todo = jobs[j].assigned]
<1>1. t \in Threads /\ t # Monitor /\ t[1] = "cancel"
      /\ \A k \in JobIds : t # <<"submit", 0, k>> /\ (t = <<"cancel", 0, k>> => k = j)
  BY ThreadIds DEF Monitor
<1>2. th' = [th EXCEPT ![t] = r] /\ th[t].pc = "idle" /\ jobs[j].status # "absent"
      /\ UNCHANGED <<jobs, nodes, idSeq, dead>>
  BY DEF CancelGet, At, jmVars
<1>3. CancelKnows(j)' <=> LET u == t IN
        /\ th'[u].pc \in Begun => th'[u].job = j
        /\ th'[u].gang \in {{}, jobs'[j].assigned}
        /\ jobs'[j].status = "cancelled" => th'[u].pc \notin {"idle", "cancel"}
  BY DEF CancelKnows
<1>4. jobs[j].status # "cancelled"
  BY <1>2 DEF ResInv, ResBase, CallsKnow, CancelKnows
<1> HIDE DEF t
<1>5. th \in [Threads -> ThreadRecords] /\ jobs[j].spec.cpus \in Int
  BY SpecsAssumption DEF CtrlInv, TypeOK, JMTypeOK, JobRecords, NoSpec
<1>6. r.pc = "cancel" /\ r.job = j /\ r.gang = jobs[j].assigned /\ r.cpus = jobs[j].spec.cpus
  BY <1>1, <1>5 DEF ThreadRecords
<1> HIDE DEF r
<1>7. OnlyMoves(t) /\ th'[t] = r
  BY <1>1, <1>2, <1>5 DEF OnlyMoves
<1>8. CallKnows(t)' /\ CancelKnows(j)'
  BY <1>1, <1>2, <1>3, <1>4, <1>5, <1>6, <1>7 DEF CallKnows, Begun, Ending
<1>9. HandlerFrees
  BY <1>1, <1>2, <1>7, SameTables, ThreadIds DEF OnlyMoves
<1>10. KnownIsDrawn'
  BY <1>1, <1>2, <1>7, SameTables, DrawnByOthers
<1>11. HandlerStep
  BY CancelSteps
<1>12. \A n \in Nodes, k \in JobIds : ~WillRelease(t, n, k)
  BY <1>1, <1>2, NothingKnown DEF Begun
<1>13. \A k \in JobIds : t = <<"cancel", 0, k>> => k = j
  BY <1>1
<1> QED BY <1>1, <1>2, <1>4, <1>7, <1>8, <1>9, <1>10, <1>11, <1>12, <1>13, SameTables, QuietHandler

\* CancelJob's call of Cancel: it goes on to release the gang, unless its snapshot
\* was taken before the job was started.
LEMMA CancelApplyOwned == ASSUME CtrlInv, ResInv, NEW j \in JobIds, CancelApply(j) PROVE ResInv'
<1> DEFINE t == <<"cancel", 0, j>>
<1>1. t \in Threads /\ t # Monitor /\ t[1] = "cancel"
      /\ \A k \in JobIds : t # <<"submit", 0, k>> /\ (t = <<"cancel", 0, k>> => k = j)
  BY ThreadIds DEF Monitor
<1>2. th[t].pc = "cancel" /\ UNCHANGED <<nodes, idSeq, dead>>
  BY DEF CancelApply, At
<1>3. HandlerStep /\ JobsOnward /\ NoNewJobs
  <2>1. HandlerStep
    BY CancelSteps
  <2>2. JobsOnward
    BY <2>1, Onward DEF CtrlInv, TypeOK, ResInv, ResBase, HandlerStep
  <2>3. NoNewJobs
    BY NoNewJobsBy DEF CancelApply, CtrlInv, TypeOK
  <2> QED BY <2>1, <2>2, <2>3
<1>4. \A k \in JobIds : k # j => jobs'[k] = jobs[k]
  BY DEF CancelApply, Cancel, jmVars, CtrlInv, TypeOK, JMTypeOK
<1>5. CancelKnows(j)' <=>
        /\ th'[t].pc \in Begun => th'[t].job = j
        /\ th'[t].gang \in {{}, jobs'[j].assigned}
        /\ jobs'[j].status = "cancelled" => th'[t].pc \notin {"idle", "cancel"}
  BY DEF CancelKnows
<1>6. th[t].job = j /\ th[t].gang \in {{}, jobs[j].assigned} /\ jobs[j].status # "absent"
      /\ th[t].cpus >= jobs[j].spec.cpus
  BY <1>1, <1>2 DEF ResInv, ResBase, CallsKnow, CancelKnows, CallKnows, Begun
<1>7. StaleCancel(j)' <=>
        jobs'[j].status = "cancelled" /\ jobs'[j].assigned # {} /\ th'[t].gang = {}
  BY DEF StaleCancel
<1>8. \/ /\ jobs[j].status = "running" /\ Goto(t, "release")
         /\ jobs'[j].status = "cancelled"
      \/ jobs[j].status # "running" /\ Over(t, "done")
  BY DEF CancelApply, Cancel, CanTransition, Done, CtrlInv, TypeOK, JMTypeOK, JobRecords
<1>9. jobs'[j].spec = jobs[j].spec /\ jobs'[j].assigned = jobs[j].assigned
  BY DEF CancelApply, Cancel, jmVars, CtrlInv, TypeOK, JMTypeOK, JobRecords
<1> HIDE DEF t
<1>10. OnlyMoves(t) /\ th'[t].gang = th[t].gang /\ th'[t].pc \in {"release", "done"}
       /\ (jobs[j].status = "running" =>
             th'[t].pc = "release" /\ th'[t].job = j /\ th'[t].cpus = th[t].cpus)
       /\ (jobs[j].status # "running" => th'[t].pc = "done")
  BY <1>1, <1>6, <1>8, GotoFields, OverFields DEF CtrlInv
<1>11. CallKnows(t)' /\ CancelKnows(j)'
  BY <1>1, <1>3, <1>5, <1>6, <1>9, <1>10 DEF CallKnows, Begun, Ending, JobsOnward
<1>12. CancelledBy(t)
  BY <1>4 DEF CancelledBy, t
<1>13. HandlerFrees
  BY <1>1, <1>2, <1>10, SameTables, ThreadIds DEF OnlyMoves
<1>14. KnownIsDrawn'
  BY <1>1, <1>2, <1>3, <1>10, DrawnByOthers
<1>15. ASSUME NEW n \in Nodes, jobs[j].status = "running", n \in jobs[j].assigned PROVE Holds(n, j)'
  <2>1. CASE th[t].gang = {}
    BY <1>7, <1>8, <1>9, <1>10, <1>15, <2>1 DEF Holds
  <2>2. CASE th[t].gang = jobs[j].assigned
    <3>1. WillRelease(t, n, j)'
      BY <1>10, <1>15, <2>2 DEF WillRelease
    <3> QED BY <1>1, <3>1 DEF Holds
  <2> QED BY <1>6, <2>1, <2>2
<1>16. ASSUME NEW n \in Nodes, NEW k \in JobIds,
              \/ WillRelease(t, n, k)
              \/ jobs[k].status = "running" /\ n \in jobs[k].assigned /\ jobs'[k].status # "running"
       PROVE  Holds(n, k)'
  <2>1. ~WillRelease(t, n, k)
    BY <1>1, <1>2 DEF WillRelease
  <2>2. k = j
    BY <1>4, <1>16, <2>1
  <2> QED BY <1>15, <1>16, <2>1, <2>2
<1>17. \A k \in JobIds : t = <<"cancel", 0, k>> => CancelKnows(k)'
  BY <1>1, <1>11
<1> QED BY <1>1, <1>2, <1>3, <1>10, <1>11, <1>12, <1>13, <1>14, <1>16, <1>17, QuietHandler

\* What every step of a report's call has in common.
ReportCall(n, j, t) ==
  /\ n \in Nodes /\ j \in JobIds /\ t = <<"report", n, j>>
  /\ HandlerStep /\ UNCHANGED <<nodes, idSeq, dead>>
  /\ OnlyMoves(t) /\ CallKnows(t)' /\ CancelledBy(t) /\ NoNewJobs
  /\ \A m \in Nodes, k \in JobIds :
       \/ WillRelease(t, m, k)
       \/ jobs[k].status = "running" /\ m \in jobs[k].assigned /\ jobs'[k].status # "running"
       => Holds(m, k)'

LEMMA ReportOwned ==
  ASSUME CtrlInv, ResInv, NEW n, NEW j, NEW t, ReportCall(n, j, t) PROVE ResInv'
<1>1. /\ n \in Nodes /\ j \in JobIds /\ t = <<"report", n, j>>
      /\ HandlerStep /\ UNCHANGED <<nodes, idSeq, dead>>
      /\ OnlyMoves(t) /\ CallKnows(t)' /\ CancelledBy(t) /\ NoNewJobs
  BY DEF ReportCall
<1>2. t \in Threads /\ t # Monitor
      /\ \A k \in JobIds : t # <<"submit", 0, k>> /\ t # <<"cancel", 0, k>>
  BY <1>1, ThreadIds DEF Monitor
<1>3. JobsOnward
  BY <1>1, Onward DEF CtrlInv, TypeOK, ResInv, ResBase, HandlerStep
<1>4. KnownIsDrawn'
  BY <1>1, <1>2, <1>3, DrawnByOthers
<1>5. HandlerFrees
  BY <1>1, <1>2, SameTables, ThreadIds DEF OnlyMoves
<1>6. \A m \in Nodes, k \in JobIds :
       \/ WillRelease(t, m, k)
       \/ jobs[k].status = "running" /\ m \in jobs[k].assigned /\ jobs'[k].status # "running"
       => Holds(m, k)'
  BY DEF ReportCall
<1> QED BY <1>1, <1>2, <1>4, <1>5, <1>6, QuietHandler

\* A job that was given a gang and has not ended is running.
LEMMA StartedRuns ==
  ASSUME CtrlInv, ResBase, NEW j \in JobIds, jobs[j].assigned # {}, ~Terminal(jobs[j].status)
  PROVE  jobs[j].status = "running"
BY DEF ResBase, StartedLeft, Terminal, CtrlInv, TypeOK, JMTypeOK, JobRecords, Statuses

\* The look at the job before.
LEMMA ReportGetOwned ==
  ASSUME CtrlInv, ResInv, NEW n \in Nodes, NEW j \in JobIds, ReportGet(n, j) PROVE ResInv'
<1> DEFINE t == <<"report", n, j>>
           f == ~Terminal(jobs[j].status)
<1>1. t \in Threads /\ t # Monitor /\ t[1] = "report" /\ t[3] = j
  BY ThreadIds DEF Monitor
<1>2. PICK event \in Events :
        th' = [th EXCEPT ![t] = [th[t] EXCEPT !.pc = IF event = "cancelled" THEN "ack" ELSE "report",
                                              !.event = event, !.job = j, !.fresh = f]]
  BY DEF ReportGet
<1>3. th[t].pc = "idle" /\ n \in jobs[j].assigned /\ UNCHANGED <<jobs, nodes, idSeq, dead>>
  BY DEF ReportGet, At, jmVars
<1>4. jobs[j].status # "absent"
  BY <1>3 DEF ResInv, ResBase, StartedLeft
<1> DEFINE pc == IF event = "cancelled" THEN "ack" ELSE "report"
           r == [th[t] EXCEPT !.pc = pc, !.event = event, !.job = j, !.fresh = f]
<1>5. pc \in {"ack", "report"} /\ f \in BOOLEAN /\ (~f => Terminal(jobs[j].status))
  OBVIOUS
<1>6. th' = [th EXCEPT ![t] = r]
  BY <1>2
<1> HIDE DEF t, pc, f
<1>7. th \in [Threads -> ThreadRecords]
  BY DEF CtrlInv, TypeOK
<1>8. r.pc = pc /\ r.job = j /\ r.fresh = f
  BY <1>1, <1>7 DEF ThreadRecords
<1> HIDE DEF r
<1>9. OnlyMoves(t) /\ th'[t] = r
  BY <1>1, <1>6, <1>7 DEF OnlyMoves
<1>10. CallKnows(t)'
  BY <1>1, <1>3, <1>4, <1>5, <1>8, <1>9 DEF CallKnows, Ending
<1>11. HandlerStep
  BY ReportSteps
<1>12. \A m \in Nodes, k \in JobIds : ~WillRelease(t, m, k)
  BY <1>1, <1>3, NothingKnown DEF Begun
<1>13. NoNewJobs /\ CancelledBy(t) /\ \A k \in JobIds : jobs'[k] = jobs[k]
  BY <1>1, <1>3, SameTables
<1>14. ReportCall(n, j, t)
  BY <1>3, <1>9, <1>10, <1>11, <1>12, <1>13 DEF ReportCall, t
<1> QED BY <1>14, ReportOwned

\* The manager's call.  If it ends the job, the call had seen the job not ended and
\* will release its gang.
LEMMA ReportApplyOwned ==
  ASSUME CtrlInv, ResInv, NEW n \in Nodes, NEW j \in JobIds, ReportApply(n, j) PROVE ResInv'
<1> DEFINE t == <<"report", n, j>>
           r == [th[t] EXCEPT !.pc = "clear", !.event = "none"]
<1>1. t \in Threads /\ t # Monitor /\ t[1] = "report" /\ t[3] = j
  BY ThreadIds DEF Monitor
<1>2. /\ th[t].pc = "report" /\ th' = [th EXCEPT ![t] = r] /\ UNCHANGED <<nodes, idSeq, dead>>
      /\ \E failed, exit : ReportNodeEvent(j, n, failed, exit)
  BY DEF ReportApply, At
<1>3. HandlerStep /\ JobsOnward /\ NoNewJobs
  <2>1. HandlerStep
    BY ReportSteps
  <2>2. JobsOnward
    BY <2>1, Onward DEF CtrlInv, TypeOK, ResInv, ResBase, HandlerStep
  <2>3. NoNewJobs
    BY <1>2, NoNewJobsBy DEF CtrlInv, TypeOK
  <2> QED BY <2>1, <2>2, <2>3
<1>4. /\ \A k \in JobIds : k # j => jobs'[k] = jobs[k]
      /\ CancelledBy(t)
      /\ jobs'[j].assigned = jobs[j].assigned
  <2>1. UNCHANGED jobs \/ \E to \in {"failed", "completed"} : \E exit : Finish(j, to, exit)
    BY <1>2 DEF ReportNodeEvent, IgnoreReport, AcceptReport, jmVars
  <2>2. ASSUME NEW to \in {"failed", "completed"}, NEW exit, Finish(j, to, exit)
        PROVE  /\ \A k \in JobIds : k # j => jobs'[k] = jobs[k]
               /\ jobs'[j].status = to /\ jobs'[j].assigned = jobs[j].assigned
    BY <2>2 DEF Finish, CtrlInv, TypeOK, JMTypeOK, JobRecords
  <2> QED BY <2>1, <2>2 DEF CancelledBy
<1> HIDE DEF t
<1>5. th \in [Threads -> ThreadRecords]
  BY DEF CtrlInv, TypeOK
<1>6. r.pc = "clear" /\ r.job = th[t].job /\ r.fresh = th[t].fresh
  BY <1>1, <1>5 DEF ThreadRecords
<1> HIDE DEF r
<1>7. OnlyMoves(t) /\ th'[t] = r
  BY <1>1, <1>2, <1>5 DEF OnlyMoves
<1>8. /\ th[t].job = j /\ jobs[j].status # "absent"
      /\ ~th[t].fresh => Terminal(jobs[j].status)
  BY <1>1, <1>2 DEF ResInv, ResBase, CallsKnow, CallKnows, Begun
<1>9. CallKnows(t)'
  BY <1>1, <1>3, <1>6, <1>7, <1>8 DEF CallKnows, Ending, JobsOnward
<1>10. ASSUME NEW m \in Nodes, NEW k \in JobIds,
              \/ WillRelease(t, m, k)
              \/ jobs[k].status = "running" /\ m \in jobs[k].assigned /\ jobs'[k].status # "running"
       PROVE  Holds(m, k)'
  <2>1. k = j /\ m \in jobs[j].assigned /\ th[t].fresh
    BY <1>1, <1>2, <1>4, <1>8, <1>10 DEF WillRelease, Terminal
  <2>2. WillRelease(t, m, k)'
    BY <1>1, <1>4, <1>6, <1>7, <1>8, <2>1 DEF WillRelease
  <2> QED BY <1>1, <2>2 DEF Holds
<1>11. ReportCall(n, j, t)
  BY <1>2, <1>3, <1>4, <1>7, <1>9, <1>10 DEF ReportCall, t
<1> QED BY <1>11, ReportOwned

\* ClearCancel changes nothing a reservation depends on.
LEMMA ReportClearOwned ==
  ASSUME CtrlInv, ResInv, NEW n \in Nodes, NEW j \in JobIds, ReportClear(n, j) PROVE ResInv'
<1> DEFINE t == <<"report", n, j>>
<1>1. t \in Threads /\ t # Monitor /\ t[1] = "report" /\ t[3] = j
  BY ThreadIds DEF Monitor
<1>2. /\ \/ th[t].pc = "clear" /\ Goto(t, "after")
         \/ th[t].pc = "ack" /\ Over(t, "done")
      /\ UNCHANGED <<jobs, nodes, idSeq, dead>>
  BY DEF ReportClear, At, Done, jmVars
<1> HIDE DEF t
<1>3. OnlyMoves(t) /\ \/ /\ th[t].pc = "clear" /\ th'[t].pc = "after"
                         /\ th'[t].job = th[t].job /\ th'[t].fresh = th[t].fresh
                      \/ th[t].pc = "ack" /\ th'[t].pc = "done"
  BY <1>1, <1>2, GotoFields, OverFields DEF CtrlInv
<1>4. CallKnows(t)
  BY <1>1 DEF ResInv, ResBase, CallsKnow
<1>5. CallKnows(t)'
  BY <1>1, <1>2, <1>3, <1>4 DEF CallKnows, Begun, Ending
<1>6. HandlerStep
  BY ReportSteps
<1>7. NoNewJobs /\ CancelledBy(t) /\ \A k \in JobIds : jobs'[k] = jobs[k]
  BY <1>1, <1>2, SameTables
<1>8. ASSUME NEW m \in Nodes, NEW k \in JobIds, WillRelease(t, m, k) PROVE Holds(m, k)'
  <2>1. WillRelease(t, m, k)'
    BY <1>1, <1>3, <1>7, <1>8 DEF WillRelease
  <2> QED BY <1>1, <2>1 DEF Holds
<1>9. ReportCall(n, j, t)
  BY <1>2, <1>3, <1>5, <1>6, <1>7, <1>8 DEF ReportCall, t
<1> QED BY <1>9, ReportOwned

\* The look at the job afterwards: the call takes up the gang, or the job still runs.
LEMMA ReportAfterOwned ==
  ASSUME CtrlInv, ResInv, NEW n \in Nodes, NEW j \in JobIds, ReportAfter(n, j) PROVE ResInv'
<1> DEFINE t == <<"report", n, j>>
           ends == Terminal(jobs[j].status) /\ th[t].fresh
           todo == IF jobs[j].status = "failed" THEN jobs[j].assigned \ {n} ELSE {}
           r == [th[t] EXCEPT !.pc = "release", !.gang = jobs[j].assigned,
                              !.cpus = jobs[j].spec.cpus, !.todo = todo]
<1>1. t \in Threads /\ t # Monitor /\ t[1] = "report" /\ t[3] = j
  BY ThreadIds DEF Monitor
<1>2. /\ th[t].pc = "after" /\ UNCHANGED <<jobs, nodes, idSeq, dead>>
      /\ \/ ends /\ th' = [th EXCEPT ![t] = r]
         \/ ~ends /\ Over(t, "done")
  BY DEF ReportAfter, At, Done, jmVars
<1> HIDE DEF t, todo
<1>3. th \in [Threads -> ThreadRecords]
  BY DEF CtrlInv, TypeOK
<1>4. r.pc = "release" /\ r.job = th[t].job /\ r.gang = jobs[j].assigned
      /\ r.cpus = jobs[j].spec.cpus
  BY <1>1, <1>3 DEF ThreadRecords
<1>5. OnlyMoves(t) /\ \/ ends /\ th'[t] = r
                      \/ ~ends /\ th'[t].pc = "done"
  <2>1. CASE ends /\ th' = [th EXCEPT ![t] = r]
    <3> HIDE DEF r
    <3> QED BY <1>1, <1>3, <2>1 DEF OnlyMoves
  <2>2. CASE ~ends /\ Over(t, "done")
    BY <1>1, <2>2, OverFields DEF CtrlInv
  <2> QED BY <1>2, <2>1, <2>2
<1> HIDE DEF r
<1>6. th[t].job = j /\ jobs[j].status # "absent"
  BY <1>1, <1>2 DEF ResInv, ResBase, CallsKnow, CallKnows, Begun
<1>7. jobs[j].spec.cpus \in Int
  BY SpecsAssumption DEF CtrlInv, TypeOK, JMTypeOK, JobRecords, NoSpec
<1>8. CallKnows(t)'
  BY <1>1, <1>2, <1>4, <1>5, <1>6, <1>7 DEF CallKnows, Begun, Ending
<1>9. HandlerStep
  BY ReportAfterStep
<1>10. NoNewJobs /\ CancelledBy(t) /\ \A k \in JobIds : jobs'[k] = jobs[k]
  BY <1>1, <1>2, SameTables
<1>11. ASSUME NEW m \in Nodes, NEW k \in JobIds, WillRelease(t, m, k) PROVE Holds(m, k)'
  <2>1. k = j /\ m \in jobs[j].assigned /\ th[t].fresh
    BY <1>1, <1>2, <1>6, <1>11 DEF WillRelease
  <2>2. CASE ends
    <3>1. WillRelease(t, m, k)'
      BY <1>4, <1>5, <1>6, <2>1, <2>2 DEF WillRelease
    <3> QED BY <1>1, <3>1 DEF Holds
  <2>3. CASE ~ends
    <3>1. jobs[j].status = "running"
      BY <2>1, <2>3, StartedRuns DEF ResInv
    <3> QED BY <1>10, <2>1, <3>1 DEF Holds
  <2> QED BY <2>2, <2>3
<1>12. ReportCall(n, j, t)
  BY <1>2, <1>5, <1>8, <1>9, <1>10, <1>11 DEF ReportCall, t
<1> QED BY <1>12, ReportOwned

\* ReapStale hands the lost nodes' reservations over as they are.
LEMMA MonReapOwned == ASSUME CtrlInv, ResInv, MonReap PROVE ResInv'
<1>1. Monitor \in Threads /\ Monitor[1] # "report"
      /\ \A j \in JobIds : Monitor # <<"submit", 0, j>> /\ Monitor # <<"cancel", 0, j>>
  BY ThreadIds DEF Monitor
<1>2. th[Monitor].pc = "idle" /\ ReapStale /\ UNCHANGED <<jobs, idSeq>>
      /\ (Goto(Monitor, "idle") \/ Goto(Monitor, "handle"))
  BY DEF MonReap, At, jmVars
<1>3. OnlyMoves(Monitor) /\ th'[Monitor].pc \in {"idle", "handle"}
  BY <1>1, <1>2, GotoFields DEF CtrlInv
<1>4. \A n \in Nodes : nodes'[n].job = nodes[n].job /\ nodes'[n].alloc = nodes[n].alloc
                       /\ (nodes'[n].status = "absent" => nodes'[n] = nodes[n])
  BY <1>2 DEF ReapStale, CtrlInv, TypeOK, NodeRecords
<1>5. \A d \in dead' : \E n \in Nodes : d.job = nodes[n].job /\ d.alloc = nodes[n].alloc
  BY DEF MonReap, Stale
<1>6. HandlerFrees
  BY <1>3, <1>4, <1>5 DEF HandlerFrees, Ending
<1>7. KnownIsDrawn'
  BY <1>1, <1>2, <1>3, SameTables, DrawnByOthers
<1>8. CallKnows(Monitor)' /\ CancelledBy(Monitor) /\ HandlerStep
  BY <1>1, <1>2, <1>3, SameTables, NothingKnown, ReapStep DEF Begun
<1>9. \A n \in Nodes, j \in JobIds : ~WillRelease(Monitor, n, j) /\ jobs'[j] = jobs[j]
  BY <1>1, <1>2, NothingKnown DEF Begun
<1> QED BY <1>1, <1>3, <1>4, <1>6, <1>7, <1>8, <1>9, QuietHandler

\* The monitor takes up the gang of a job it fails, or one lost node of another.
LEMMA MonHandleOwned == ASSUME CtrlInv, ResInv, MonHandle PROVE ResInv'
<1>1. Monitor \in Threads /\ Monitor[1] # "report"
      /\ \A j \in JobIds : Monitor # <<"submit", 0, j>> /\ Monitor # <<"cancel", 0, j>>
  BY ThreadIds DEF Monitor
<1>2. PICK d \in dead :
        /\ dead' = {e \in dead : e.job # d.job}
        /\ \/ /\ FailRunningJob(d.job)
              /\ th' = [th EXCEPT ![Monitor] = [th[Monitor] EXCEPT !.pc = "notify", !.job = d.job,
                          !.gang = jobs[d.job].assigned, !.cpus = jobs[d.job].spec.cpus,
                          !.todo = jobs[d.job].assigned]]
           \/ /\ jobs[d.job].status # "running"
              /\ th' = [th EXCEPT ![Monitor] = [th[Monitor] EXCEPT !.pc = "release", !.job = d.job,
                          !.gang = {d.id}, !.cpus = d.alloc, !.todo = {}]]
              /\ UNCHANGED jmVars
  BY DEF MonHandle
<1>3. th[Monitor].pc = "handle" /\ UNCHANGED <<nodes, idSeq>>
  BY DEF MonHandle, At
<1> DEFINE j == d.job
<1>4. /\ j \in JobIds /\ jobs[j].status # "absent" /\ d.alloc >= jobs[j].spec.cpus
      /\ jobs[j].spec.cpus \in Int
  BY SpecsAssumption DEF CtrlInv, TypeOK, JMTypeOK, JobRecords, NoSpec, ResInv, ResBase, MarkedIsKnown
<1>5. HandlerStep /\ JobsOnward /\ NoNewJobs
  <2>1. HandlerStep
    BY HandleStep
  <2>2. JobsOnward
    BY <2>1, Onward DEF CtrlInv, TypeOK, ResInv, ResBase, HandlerStep
  <2>3. NoNewJobs
    BY <1>2, <1>4, NoNewJobsBy DEF CtrlInv, TypeOK
  <2> QED BY <2>1, <2>2, <2>3
<1>6. /\ \A k \in JobIds : jobs'[k].status = "cancelled" => jobs[k].status = "cancelled"
      /\ \A k \in JobIds : jobs'[k].status # jobs[k].status => k = j /\ FailRunningJob(j)
      /\ \A k \in JobIds : jobs'[k].assigned = jobs[k].assigned
  <2>1. CASE FailRunningJob(j)
    BY <1>4, <2>1 DEF FailRunningJob, Finish, CtrlInv, TypeOK, JMTypeOK, JobRecords
  <2>2. CASE UNCHANGED jmVars
    BY <2>2 DEF jmVars
  <2> QED BY <1>2, <2>1, <2>2
<1>7. /\ OnlyMoves(Monitor) /\ th'[Monitor].job = j
      /\ \/ /\ FailRunningJob(j) /\ th'[Monitor].pc = "notify"
            /\ th'[Monitor].gang = jobs[j].assigned /\ th'[Monitor].cpus = jobs[j].spec.cpus
         \/ /\ ~FailRunningJob(j) /\ th'[Monitor].pc = "release"
            /\ th'[Monitor].gang = {d.id} /\ th'[Monitor].cpus = d.alloc
  <2>1. th \in [Threads -> ThreadRecords]
    BY DEF CtrlInv, TypeOK
  <2> DEFINE takes(pc, gang, cpus, todo) ==
               th' = [th EXCEPT ![Monitor] = [th[Monitor] EXCEPT !.pc = pc, !.job = j,
                        !.gang = gang, !.cpus = cpus, !.todo = todo]]
  <2>2. ASSUME NEW pc \in {"notify", "release"}, NEW gang \in SUBSET Nodes, NEW cpus \in Int,
               NEW todo \in SUBSET Nodes, takes(pc, gang, cpus, todo)
        PROVE  OnlyMoves(Monitor) /\ th'[Monitor].job = j /\ th'[Monitor].pc = pc
               /\ th'[Monitor].gang = gang /\ th'[Monitor].cpus = cpus
    <3> DEFINE r == [th[Monitor] EXCEPT !.pc = pc, !.job = j,
                       !.gang = gang, !.cpus = cpus, !.todo = todo]
    <3>1. r.job = j /\ r.pc = pc /\ r.gang = gang /\ r.cpus = cpus
      BY <1>1, <2>1 DEF ThreadRecords
    <3>2. th' = [th EXCEPT ![Monitor] = r]
      BY <2>2
    <3> HIDE DEF r
    <3> QED BY <1>1, <2>1, <3>1, <3>2 DEF OnlyMoves
  <2>3. CASE FailRunningJob(j) /\
             takes("notify", jobs[j].assigned, jobs[j].spec.cpus, jobs[j].assigned)
    <3>1. jobs[j].assigned \in SUBSET Nodes /\ jobs[j].spec.cpus \in Int
      BY <1>4 DEF CtrlInv, TypeOK, JMTypeOK, JobRecords
    <3> HIDE DEF takes, j
    <3> QED BY <2>2, <2>3, <3>1
  <2>4. CASE jobs[j].status # "running" /\ takes("release", {d.id}, d.alloc, {})
    <3>1. ~FailRunningJob(j) /\ {d.id} \in SUBSET Nodes /\ {} \in SUBSET Nodes /\ d.alloc \in Int
      BY <2>4 DEF FailRunningJob, CtrlInv, TypeOK
    <3> HIDE DEF takes, j
    <3> QED BY <2>2, <2>4, <3>1
  <2> QED BY <1>2, <2>3, <2>4
<1> HIDE DEF j
<1>8. FailRunningJob(j) => jobs[j].status = "running" /\ jobs[j].assigned # {}
  BY <1>4 DEF FailRunningJob, CtrlInv, JMInv, SomeoneStillOwes
<1>9. CallKnows(Monitor)'
  BY <1>1, <1>4, <1>5, <1>6, <1>7, <1>8 DEF CallKnows, Begun, Ending, JobsOnward
<1>10. HandlerFrees
  <2>1. \A e \in dead' : e \in dead
    BY <1>2
  <2>2. \E e \in dead : e.job = th'[Monitor].job
    BY <1>7 DEF j
  <2> QED BY <1>3, <2>1, <2>2 DEF HandlerFrees
<1>11. KnownIsDrawn'
  BY <1>1, <1>3, <1>5, <1>7, DrawnByOthers
<1>12. ASSUME NEW n \in Nodes, NEW k \in JobIds,
              \/ WillRelease(Monitor, n, k)
              \/ jobs[k].status = "running" /\ n \in jobs[k].assigned /\ jobs'[k].status # "running"
       PROVE  Holds(n, k)'
  <2>1. ~WillRelease(Monitor, n, k)
    BY <1>1, <1>3 DEF WillRelease
  <2>2. k = j /\ FailRunningJob(j) /\ n \in jobs[j].assigned
    BY <1>6, <1>12, <2>1
  <2>3. WillRelease(Monitor, n, k)'
    BY <1>7, <2>2 DEF WillRelease
  <2> QED BY <1>1, <2>3 DEF Holds
<1>13. CancelledBy(Monitor)
  BY <1>6 DEF CancelledBy
<1> QED BY <1>1, <1>3, <1>5, <1>7, <1>9, <1>10, <1>11, <1>12, <1>13, QuietHandler

\* What the tails know of their call.
LEMMA TailKnows ==
  ASSUME CtrlInv, ResInv, NEW t \in Threads, th[t].pc \in Ending
  PROVE  /\ th[t].job \in JobIds /\ jobs[th[t].job].status # "absent"
         /\ th[t].cpus \in Nat /\ th[t].cpus >= jobs[th[t].job].spec.cpus
         /\ th[t].gang \in SUBSET Nodes
         /\ \A j \in JobIds : t = <<"cancel", 0, j>> => th[t].job = j
         /\ CallKnows(t)
<1>1. CallKnows(t) /\ GoodThread(th[t]) /\ th[t] \in ThreadRecords
  BY DEF ResInv, ResBase, CallsKnow, CtrlInv, TypeOK
<1>2. th[t].job \in JobIds /\ jobs[th[t].job].status # "absent"
      /\ th[t].cpus >= jobs[th[t].job].spec.cpus
  BY <1>1 DEF GoodThread, CallKnows, Begun, Ending
<1>3. jobs[th[t].job].spec.cpus >= 1
  BY <1>2 DEF ResInv, ResBase, KnownIsDrawn, Validate
<1>4. th[t].cpus \in Int /\ jobs[th[t].job].spec.cpus \in Int /\ th[t].gang \in SUBSET Nodes
  BY <1>1, <1>2, SpecsAssumption DEF ThreadRecords, CtrlInv, TypeOK, JMTypeOK, JobRecords, NoSpec
<1>5. \A j \in JobIds : t = <<"cancel", 0, j>> => th[t].job = j
  BY DEF ResInv, ResBase, CallsKnow, CancelKnows, Begun, Ending
<1> QED BY <1>1, <1>2, <1>3, <1>4, <1>5

\* What the locals mean after a tail's step.
LEMMA TailKnowsAfter ==
  ASSUME CtrlInv, ResInv, NEW t \in Threads, th[t].pc \in Ending, UNCHANGED <<jobs, idSeq>>,
         OnlyMoves(t),
         \/ /\ th'[t].pc \in Ending /\ th'[t].job = th[t].job
            /\ th'[t].gang = th[t].gang /\ th'[t].cpus = th[t].cpus
            /\ t = Monitor => th[t].pc # "release"
         \/ /\ th'[t].pc = "kick"
            /\ t[1] = "cancel" => th'[t].gang = th[t].gang
         \/ t = Monitor /\ th'[t].pc \in {"idle", "handle"}
  PROVE  /\ JobsOnward /\ CancelledBy(t) /\ CallsKnow' /\ KnownIsDrawn'
         /\ CallKnows(t)' /\ \A j \in JobIds : t = <<"cancel", 0, j>> => CancelKnows(j)'
<1>1. JobsOnward /\ NoNewJobs /\ CancelledBy(t) /\ \A j \in JobIds : jobs'[j] = jobs[j]
  BY SameTables
<1>2. CallKnows(t)'
  <2>1. CASE th'[t].pc \notin Begun
    BY <2>1, NothingKnown
  <2>2. CASE th'[t].pc \in Begun
    BY <1>1, <2>2, TailKnows DEF CallKnows, Begun, Ending
  <2> QED BY <2>1, <2>2
<1>3. ASSUME NEW j \in JobIds, t = <<"cancel", 0, j>> PROVE CancelKnows(j)'
  <2>1. CancelKnows(j) /\ t # Monitor /\ t[1] = "cancel" /\ th[t].job = j
    BY <1>3, TailKnows DEF Monitor, ResInv, ResBase, CallsKnow
  <2>2. th'[t].gang = th[t].gang /\ th'[t].pc \in Ending \cup {"kick"}
        /\ (th'[t].pc \in Begun => th'[t].job = j)
    BY <2>1 DEF Begun
  <2>3. th[t].gang \in {{}, jobs[j].assigned}
    BY <1>3, <2>1 DEF CancelKnows
  <2> QED BY <1>1, <1>3, <2>2, <2>3 DEF CancelKnows, Ending
<1>4. KnownIsDrawn'
  <2>1. ASSUME NEW j \in JobIds, th'[<<"submit", 0, j>>].pc # "idle"
        PROVE  th[<<"submit", 0, j>>].pc # "idle"
    BY <2>1, ThreadIds DEF OnlyMoves, Ending
  <2> QED BY <1>1, <2>1, DrawnAfter DEF ResInv
<1>5. CallsKnow'
  BY <1>1, <1>2, <1>3, CallsKnowAfter DEF ResInv
<1> QED BY <1>1, <1>2, <1>3, <1>4, <1>5

\* ReleaseNodes: the call held no more for the job than it accounts for here.
LEMMA ReleaseOwned == ASSUME CtrlInv, ResInv, NEW t \in Threads, Release(t) PROVE ResInv'
<1> DEFINE j == th[t].job
           G == th[t].gang
           c == th[t].cpus
<1>1. th[t].pc = "release" /\ ReleaseNodes(G, c) /\ UNCHANGED <<jobs, idSeq, dead>>
  BY DEF Release, At, jmVars
<1>2. /\ j \in JobIds /\ jobs[j].status # "absent"
      /\ c \in Nat /\ c >= jobs[j].spec.cpus /\ G \in SUBSET Nodes
  BY <1>1, TailKnows DEF Ending
<1>3. \/ t = Monitor /\ (Over(t, "idle") \/ Over(t, "handle"))
      \/ t # Monitor /\ (Over(t, "kick") \/ Goto(t, "notify"))
  BY DEF Release
<1>4. /\ OnlyMoves(t)
      /\ \/ /\ th'[t].pc = "notify" /\ t # Monitor
            /\ th'[t].job = th[t].job /\ th'[t].gang = th[t].gang /\ th'[t].cpus = th[t].cpus
         \/ /\ th'[t].pc = "kick" /\ t # Monitor
            /\ t[1] = "cancel" => th'[t].gang = th[t].gang
         \/ t = Monitor /\ th'[t].pc \in {"idle", "handle"}
  BY <1>3, GotoFields, OverFields DEF CtrlInv
<1>5. JobsOnward /\ CallsKnow' /\ KnownIsDrawn'
  BY <1>1, <1>4, TailKnowsAfter DEF Ending
<1>6. HandlerStep
  BY TailSteps DEF ThreadStep
<1>7. HandlerFrees
  <2>1. \A n \in Nodes : /\ nodes'[n].job \in {NoJob, nodes[n].job}
                         /\ nodes'[n].job # NoJob => nodes'[n].alloc = nodes[n].alloc
                         /\ nodes'[n].status = "absent" => nodes'[n] = nodes[n]
    <3>1. ASSUME NEW n \in Nodes
          PROVE  /\ nodes'[n].job \in {NoJob, nodes[n].job}
                 /\ nodes'[n].job # NoJob => nodes'[n].alloc = nodes[n].alloc
                 /\ nodes'[n].status = "absent" => nodes'[n] = nodes[n]
      <4>1. CASE n \in G /\ Registered(n)
        <5>1. nodes'[n].job = NoJob /\ nodes'[n].status = nodes[n].status
          BY <1>1, <4>1 DEF ReleaseNodes, CtrlInv, TypeOK, NodeRecords
        <5> QED BY <4>1, <5>1 DEF Registered
      <4>2. CASE ~(n \in G /\ Registered(n))
        BY <1>1, <4>2 DEF ReleaseNodes
      <4> QED BY <4>1, <4>2
    <3> QED BY <3>1
  <2> QED BY <1>1, <1>4, <2>1, ThreadIds DEF HandlerFrees, OnlyMoves, Ending
<1>8. StepOfBase
  BY <1>5, <1>6, <1>7, HandlerKeeps, HandlerBase DEF ResInv
<1>9. ASSUME NEW n \in Nodes, NEW k \in JobIds, Holds(n, k) PROVE Holds(n, k)' \/ (k = j /\ n \in G)
  <2>1. WillRelease(t, n, k) => k = j /\ n \in G
    BY <1>1 DEF WillRelease
  <2>2. t = <<"cancel", 0, k>> => th'[t].gang = th[t].gang
    BY <1>4 DEF Monitor
  <2>3. jobs'[k] = jobs[k] /\ sched' = sched
    BY <1>1, <1>6 DEF HandlerStep
  <2> QED BY <1>4, <1>5, <1>9, <2>1, <2>2, <2>3, HoldsCarry DEF CtrlInv
<1> HIDE DEF j, G, c
<1> QED BY <1>1, <1>2, <1>8, <1>9, OwnerReleased DEF ResInv, StepOfBase

\* NotifyCancel keeps the monitor's gang in hand; a handler has released it before.
LEMMA NotifyOwned ==
  ASSUME CtrlInv, ResInv, NEW t \in Threads, NotifySet(t) \/ NotifySend(t) PROVE ResInv'
<1>1. th[t].pc \in {"notify", "tell"} /\ UNCHANGED <<jobs, nodes, idSeq, dead>>
  BY DEF NotifySet, NotifySend, At, jmVars
<1>2. /\ OnlyMoves(t)
      /\ \/ /\ th'[t].pc \in Ending /\ th'[t].job = th[t].job
            /\ th'[t].gang = th[t].gang /\ th'[t].cpus = th[t].cpus
         \/ /\ th'[t].pc = "kick" /\ t # Monitor
            /\ t[1] = "cancel" => th'[t].gang = th[t].gang
  <2> DEFINE n == Min(th[t].todo)
             to(pc, todo) == th' = [th EXCEPT ![t] = [th[t] EXCEPT !.pc = pc, !.todo = todo]]
  <2>1. \/ Goto(t, "tell")
        \/ to("notify", th[t].todo \ {n})
        \/ to("release", {})
        \/ t # Monitor /\ Over(t, "kick")
    <3>1. CASE NotifySet(t)
      BY <3>1 DEF NotifySet
    <3>2. CASE NotifySend(t)
      <4>1. IF th[t].todo # {n} THEN to("notify", th[t].todo \ {n})
            ELSE IF t = Monitor THEN to("release", {}) ELSE Over(t, "kick")
        BY <3>2, Zenon DEF NotifySend
      <4> HIDE DEF to, n
      <4> QED BY <4>1
    <3> QED BY <3>1, <3>2
  <2>2. ASSUME NEW pc, NEW todo, to(pc, todo)
        PROVE  /\ OnlyMoves(t) /\ th'[t].pc = pc /\ th'[t].job = th[t].job
               /\ th'[t].gang = th[t].gang /\ th'[t].cpus = th[t].cpus
    <3> DEFINE r == [th[t] EXCEPT !.pc = pc, !.todo = todo]
    <3>1. th \in [Threads -> ThreadRecords]
      BY DEF CtrlInv, TypeOK
    <3>2. r.pc = pc /\ r.job = th[t].job /\ r.gang = th[t].gang /\ r.cpus = th[t].cpus
      BY <3>1 DEF ThreadRecords
    <3>3. th' = [th EXCEPT ![t] = r]
      BY <2>2
    <3> HIDE DEF r
    <3> QED BY <3>1, <3>2, <3>3 DEF OnlyMoves
  <2> HIDE DEF to, n
  <2>3. CASE Goto(t, "tell")
    BY <2>3, GotoFields DEF CtrlInv, Ending
  <2>4. CASE Over(t, "kick") /\ t # Monitor
    BY <2>4, OverFields DEF CtrlInv
  <2>5. CASE to("notify", th[t].todo \ {n}) \/ to("release", {})
    BY <2>2, <2>5 DEF Ending
  <2> QED BY <2>1, <2>3, <2>4, <2>5
<1>3. /\ JobsOnward /\ CancelledBy(t) /\ KnownIsDrawn'
      /\ CallKnows(t)' /\ \A j \in JobIds : t = <<"cancel", 0, j>> => CancelKnows(j)'
  BY <1>1, <1>2, TailKnowsAfter DEF Ending
<1>4. HandlerStep
  BY TailSteps DEF ThreadStep
<1>5. HandlerFrees
  BY <1>1, <1>2, SameTables, ThreadIds DEF OnlyMoves, Ending
<1>6. ASSUME NEW n \in Nodes, NEW j \in JobIds, WillRelease(t, n, j) PROVE Holds(n, j)'
  <2>1. t = Monitor /\ th[t].job = j /\ n \in th[t].gang
    BY <1>1, <1>6 DEF WillRelease
  <2>2. WillRelease(t, n, j)'
    BY <1>2, <2>1 DEF WillRelease, Ending
  <2> QED BY <2>2 DEF Holds
<1>7. \A j \in JobIds : jobs'[j] = jobs[j]
  BY <1>1
<1>8. \A j \in JobIds : t = <<"cancel", 0, j>> => th'[t].gang = th[t].gang
  BY <1>2
<1> QED BY <1>1, <1>2, <1>3, <1>4, <1>5, <1>6, <1>7, <1>8, QuietHandler

\* kick, and the end of the call.
LEMMA KickOwned == ASSUME CtrlInv, ResInv, NEW t \in Threads, KickStep(t) PROVE ResInv'
<1>1. th[t].pc = "kick" /\ UNCHANGED <<jobs, nodes, idSeq, dead>>
      /\ \/ t[1] = "register" /\ th' = [th EXCEPT ![t] = Idle]
         \/ Over(t, "done")
  BY DEF KickStep, At, Done, jmVars
<1>2. OnlyMoves(t) /\ th'[t].pc \in {"idle", "done"}
      /\ (t[1] = "cancel" => th'[t].gang = th[t].gang /\ th'[t].pc = "done")
  <2>1. CASE t[1] = "register" /\ th' = [th EXCEPT ![t] = Idle]
    <3>1. th \in [Threads -> ThreadRecords] /\ Idle.pc = "idle"
      BY DEF CtrlInv, TypeOK, Idle
    <3> QED BY <2>1, <3>1 DEF OnlyMoves
  <2>2. CASE Over(t, "done")
    BY <2>2, OverFields DEF CtrlInv
  <2> QED BY <1>1, <2>1, <2>2
<1>3. JobsOnward /\ NoNewJobs /\ CancelledBy(t) /\ \A j \in JobIds : jobs'[j] = jobs[j]
  BY <1>1, SameTables
<1>4. CallKnows(t)' /\ \A n \in Nodes, j \in JobIds : ~WillRelease(t, n, j)
  BY <1>1, <1>2, NothingKnown DEF Begun
<1>5. ASSUME NEW j \in JobIds, t = <<"cancel", 0, j>> PROVE CancelKnows(j)'
  <2>1. CancelKnows(j) /\ t[1] = "cancel"
    BY <1>5 DEF ResInv, ResBase, CallsKnow
  <2> QED BY <1>2, <1>3, <1>5, <2>1 DEF CancelKnows, Begun
<1>6. KnownIsDrawn'
  <2>1. ASSUME NEW j \in JobIds, th'[<<"submit", 0, j>>].pc # "idle"
        PROVE  th[<<"submit", 0, j>>].pc # "idle"
    BY <1>1, <1>2, <2>1, ThreadIds DEF OnlyMoves
  <2> QED BY <1>1, <1>3, <2>1, DrawnAfter DEF ResInv
<1>7. HandlerStep
  BY TailSteps DEF ThreadStep
<1>8. HandlerFrees
  BY <1>1, <1>2, SameTables, ThreadIds DEF OnlyMoves, Ending
<1>9. \A j \in JobIds : t = <<"cancel", 0, j>> => th'[t].gang = th[t].gang
  BY <1>2
<1> QED BY <1>1, <1>2, <1>3, <1>4, <1>5, <1>6, <1>7, <1>8, <1>9, QuietHandler

-------------------------------------------------------------------------------
(* The scheduler *)

\* What every step of the scheduler goroutine keeps.
LEMMA SchedBase ==
  ASSUME CtrlInv, ResInv, SchedulerNext
  PROVE  /\ JobsOnward /\ CtrlInv' /\ UNCHANGED <<idSeq, th, dead>>
         /\ MarkedIsKnown' /\ ReservedOnce' => StepOfBase
<1>1. UNCHANGED <<idSeq, th, dead>>
  BY DEF SchedulerNext
<1>2. CtrlInv' /\ [JMNext]_jmVars
  BY SchedulerKeeps, OneCallPerStep DEF Next
<1>3. JobsOnward /\ StartedLeft'
  BY <1>2, Onward DEF CtrlInv, TypeOK, ResInv, ResBase
<1>4. NoNewJobs /\ \A j \in JobIds : jobs'[j].status = "cancelled" => jobs[j].status = "cancelled"
  <2>1. CASE SchedMark
    <3>1. sched.job \in JobIds
      BY <2>1 DEF SchedMark, CtrlInv, GoodSched
    <3>2. UNCHANGED jmVars \/ MarkRunning(sched.job, sched.gang)
      BY <2>1 DEF SchedMark
    <3>3. NoNewJobs
      BY <3>1, <3>2, NoNewJobsBy DEF CtrlInv, TypeOK
    <3>4. \A j \in JobIds : jobs'[j].status = "cancelled" => jobs[j].status = "cancelled"
      <4>1. ASSUME NEW i \in JobIds, MarkRunning(i, sched.gang), NEW j \in JobIds,
                   jobs'[j].status = "cancelled"
            PROVE  jobs[j].status = "cancelled"
        BY <4>1 DEF MarkRunning, CtrlInv, TypeOK, JMTypeOK, JobRecords
      <4> QED BY <3>1, <3>2, <4>1 DEF jmVars
    <3> QED BY <3>3, <3>4
  <2>2. ~SchedMark => UNCHANGED jobs
    BY DEF SchedulerNext, SchedStep, SchedPeek, SchedSelect, SchedReserve, SchedUndo,
           SchedDropCancel, SchedSend, SchedPark, SchedWake, SchedTick, jmVars
  <2> QED BY <2>1, <2>2, SameTables DEF NoNewJobs
<1>5. CallsKnow'
  BY <1>1, <1>3, <1>4, OtherCalls, OtherCancels DEF CallsKnow, ResInv
<1>6. KnownIsDrawn'
  BY <1>1, <1>3, <1>4, DrawnAfter DEF ResInv
<1> QED BY <1>1, <1>2, <1>3, <1>5, <1>6 DEF StepOfBase, ResBase, ResInv

\* The calls hold what they held.
LEMMA SchedHolds ==
  ASSUME JobsOnward, UNCHANGED th, NEW n \in Nodes, NEW j \in JobIds, Holds(n, j), ~Holds(n, j)'
  PROVE  \/ Placing(n, j)
         \/ jobs[j].status = "running" /\ n \in jobs[j].assigned /\ jobs'[j].status # "running"
<1>1. ASSUME NEW u \in Threads, WillRelease(u, n, j) PROVE Holds(n, j)'
  BY <1>1, SameCallHolds DEF Holds
<1>2. StaleCancel(j) /\ n \in jobs[j].assigned => Holds(n, j)'
  BY DEF StaleCancel, Holds, JobsOnward, Terminal
<1>3. jobs[j].status = "running" /\ n \in jobs[j].assigned /\ jobs'[j].status = "running"
        => Holds(n, j)'
  BY DEF Holds, JobsOnward
<1> QED BY <1>1, <1>2, <1>3 DEF Holds

\* Steps that look, move on to the next node, rest or wake up.  A peeked job is the
\* head of the queue, for which nothing was ever reserved.
LEMMA SchedCalmOwned ==
  ASSUME CtrlInv, ResInv, SchedulerNext, UNCHANGED <<jobs, nodes>>,
         sched.pc \notin {"mark", "undo"},
         \/ sched'.pc \in {"try", "exit", "wait", "dispatch", "send"}
         \/ /\ sched'.pc = "select" /\ sched'.job \in JobIds
            /\ sched.pc = "try" /\ jobs[sched'.job].status = "pending"
         \/ sched'.pc = "reserve" /\ sched'.job = sched.job /\ sched.pc = "select"
  PROVE  ResInv'
<1>1. JobsOnward /\ UNCHANGED <<idSeq, th, dead>>
  BY SchedBase
<1>2. MarkedIsKnown'
  BY <1>1 DEF ResInv, ResBase, MarkedIsKnown, Registered
<1>3. \A j \in JobIds : Untouched(j)' = Untouched(j)
  BY <1>1 DEF Untouched
<1>4. \A j \in JobIds :
        \/ jobs[j].status \in {"absent", "pending"}
        \/ sched.job = j /\ sched.pc \in {"select", "reserve"}
        => Untouched(j)
  BY DEF ResInv, ResBase, ReservedOnce
<1>5. ReservedOnce'
  <2>1. ASSUME NEW j \in JobIds,
               \/ jobs'[j].status \in {"absent", "pending"}
               \/ sched'.job = j /\ sched'.pc \in {"select", "reserve"}
        PROVE  Untouched(j)'
    <3>1. \/ jobs[j].status \in {"absent", "pending"}
          \/ sched.job = j /\ sched.pc \in {"select", "reserve"}
      BY <2>1
    <3> QED BY <1>3, <1>4, <3>1
  <2>2. sched'.pc \in {"select", "reserve"} => jobs[sched'.job].assigned = {}
    BY DEF ResInv, ResBase, ReservedOnce, StartedLeft
  <2> QED BY <2>1, <2>2 DEF ReservedOnce
<1>6. StepOfBase
  BY <1>2, <1>5, SchedBase
<1>7. HoldsKept
  BY <1>1, SchedHolds DEF HoldsKept, Placing
<1> QED BY <1>6, <1>7, OwnerKept DEF ResInv, StepOfBase

\* ReserveNodes: the job held nothing before, and holds the gang now.
LEMMA ReserveOwned ==
  ASSUME CtrlInv, ResInv, SchedulerNext, SchedReserve, sched' = [sched EXCEPT !.pc = "mark"],
         ReserveNodes(sched.job, sched.gang, sched.spec.cpus)
  PROVE  ResInv'
<1>1. sched.pc = "reserve" /\ UNCHANGED jobs
  BY DEF SchedReserve, jmVars
<1>2. JobsOnward /\ UNCHANGED <<idSeq, th, dead>>
  BY SchedBase
<1>3. Placed
  BY <1>1, PlacedWhen
<1>4. PICK j \in JobIds, G \in SUBSET Nodes, c \in Nat :
        /\ j = sched.job /\ G = sched.gang /\ c = sched.spec.cpus
        /\ c >= 1 /\ c = jobs[j].spec.cpus /\ jobs[j].status # "absent"
  BY <1>3 DEF Placed, Validate
<1>5. sched'.pc = "mark" /\ sched'.job = j /\ sched'.gang = G
  BY <1>3, <1>4 DEF Placed, SchedRecords
<1>6. Untouched(j) /\ jobs[j].assigned = {}
  BY <1>1, <1>4 DEF ResInv, ResBase, ReservedOnce
<1>7. ReserveNodes(j, G, c)
  BY <1>4
<1>8. /\ \A n \in G : nodes'[n].job = j /\ nodes'[n].alloc = nodes[n].alloc + c
                      /\ nodes'[n].status = nodes[n].status /\ nodes[n].status = "online"
      /\ \A n \in Nodes \ G : nodes'[n] = nodes[n]
  BY <1>4, <1>7 DEF ReserveNodes, CanReserve, CtrlInv, TypeOK, NodeRecords
<1>9. MarkedIsKnown'
  <2>1. ASSUME NEW n \in Nodes
        PROVE  /\ nodes'[n].job # NoJob =>
                    /\ jobs'[nodes'[n].job].status # "absent"
                    /\ nodes'[n].alloc >= jobs'[nodes'[n].job].spec.cpus
               /\ nodes'[n].status = "absent" => nodes'[n].job = NoJob /\ nodes'[n].alloc = 0
    <3>1. CASE n \in G
      <4>1. nodes[n].alloc \in Nat
        BY DEF CtrlInv, TypeOK, NodeRecords
      <4> QED BY <1>1, <1>4, <1>8, <3>1, <4>1
    <3>2. CASE n \notin G
      BY <1>1, <1>8, <3>2 DEF ResInv, ResBase, MarkedIsKnown, Registered
    <3> QED BY <3>1, <3>2
  <2>2. \A d \in dead' : jobs'[d.job].status # "absent" /\ d.alloc >= jobs'[d.job].spec.cpus
    BY <1>1, <1>2 DEF ResInv, ResBase, MarkedIsKnown
  <2> QED BY <2>1, <2>2 DEF MarkedIsKnown, Registered
<1>10. ReservedOnce'
  <2>1. ASSUME NEW k \in JobIds, jobs'[k].status \in {"absent", "pending"}, k # j
        PROVE  Untouched(k)'
    <3>1. Untouched(k)
      BY <1>1, <2>1 DEF ResInv, ResBase, ReservedOnce
    <3>2. \A n \in Nodes : nodes'[n].job # k
      BY <1>8, <2>1, <3>1 DEF Untouched
    <3> QED BY <1>2, <3>1, <3>2 DEF Untouched
  <2> QED BY <1>1, <1>5, <1>6, <2>1 DEF ReservedOnce
<1>11. StepOfBase
  BY <1>9, <1>10, SchedBase
<1>12. ASSUME NEW n \in G PROVE ~Holds(n, j) /\ Holds(n, j)'
  <2>1. Holds(n, j)'
    BY <1>5 DEF Holds, Placing
  <2>2. ~Placing(n, j)
    BY <1>1 DEF Placing
  <2>3. ASSUME NEW t \in Threads, WillRelease(t, n, j) PROVE FALSE
    <3>1. th[t].pc \in Ending /\ n \in th[t].gang /\ th[t].job = j
      BY <1>6, <2>3 DEF WillRelease, Ending
    <3>2. t # Monitor
      BY <1>6, <3>1 DEF Untouched
    <3>3. th[t].gang \in {{}, jobs[j].assigned}
      BY <3>1, <3>2 DEF ResInv, ResBase, CallsKnow, CallKnows
    <3> QED BY <1>6, <3>1, <3>3
  <2> QED BY <1>6, <2>1, <2>2, <2>3 DEF Holds
<1>13. HoldsKept
  BY <1>1, <1>2, SchedHolds DEF HoldsKept, Placing
<1> QED BY <1>4, <1>7, <1>11, <1>12, <1>13, OwnerReserved DEF ResInv, StepOfBase

\* MarkRunning: the gang that was being placed is the running job's.
LEMMA MarkOwned == ASSUME CtrlInv, ResInv, SchedulerNext, SchedMark PROVE ResInv'
<1> DEFINE j == sched.job
<1>1. sched.pc = "mark" /\ UNCHANGED nodes
  BY DEF SchedMark
<1>2. JobsOnward /\ UNCHANGED <<idSeq, th, dead>>
  BY SchedBase
<1>3. Placed
  BY <1>1, PlacedWhen
<1>4. j \in JobIds /\ jobs[j].status # "absent" /\ jobs[j].assigned = {}
  BY <1>1, <1>3 DEF Placed, ResInv, ResBase, ReservedOnce
<1>5. \/ /\ MarkRunning(j, sched.gang)
         /\ sched'.pc = "dispatch"
      \/ /\ jobs[j].status # "pending" /\ UNCHANGED jobs
         /\ sched'.pc = "undo" /\ sched'.job = j /\ sched'.gang = sched.gang
  BY <1>3 DEF SchedMark, jmVars, CanTransition, Placed, SchedRecords
<1> HIDE DEF j
<1>6. MarkedIsKnown'
  <2>1. \A n \in Nodes : nodes'[n] = nodes[n]
    BY <1>1
  <2>2. th'[Monitor] = th[Monitor] /\ dead' = dead
    BY <1>2
  <2>3. HandlerFrees
    BY <2>1, <2>2 DEF HandlerFrees
  <2> QED BY <1>2, <2>3, SchedBase, MarkedAfter DEF ResInv
<1>7. ReservedOnce'
  <2>1. ASSUME NEW k \in JobIds, jobs'[k].status \in {"absent", "pending"} PROVE Untouched(k)'
    <3>1. k # j
      <4>1. CASE MarkRunning(j, sched.gang)
        BY <1>4, <2>1, <4>1 DEF MarkRunning, CtrlInv, TypeOK, JMTypeOK, JobRecords
      <4> QED BY <1>4, <1>5, <2>1, <4>1
    <3>2. jobs[k].status \in {"absent", "pending"}
      BY <1>2, <2>1 DEF JobsOnward
    <3>3. Untouched(k)
      BY <3>1, <3>2 DEF ResInv, ResBase, ReservedOnce, j
    <3> QED BY <1>1, <1>2, <3>3 DEF Untouched
  <2>2. sched'.pc \in {"dispatch", "undo"}
        /\ (sched'.pc = "undo" =>
              /\ sched'.job = j /\ jobs'[j].assigned = {}
              /\ jobs'[j].status \notin {"absent", "pending"})
    BY <1>4, <1>5
  <2> QED BY <2>1, <2>2 DEF ReservedOnce
<1>8. StepOfBase
  BY <1>6, <1>7, SchedBase
<1>9. ASSUME NEW n \in Nodes, NEW k \in JobIds, Holds(n, k), ~Holds(n, k)' PROVE FALSE
  <2>1. \/ Placing(n, k)
        \/ jobs[k].status = "running" /\ n \in jobs[k].assigned /\ jobs'[k].status # "running"
    BY <1>2, <1>9, SchedHolds
  <2>2. CASE Placing(n, k)
    <3>1. k = j /\ n \in sched.gang
      BY <2>2 DEF Placing, j
    <3>2. CASE MarkRunning(j, sched.gang)
      <4>1. jobs'[j].status = "running" /\ jobs'[j].assigned = sched.gang
        BY <1>4, <3>2 DEF MarkRunning, CtrlInv, TypeOK, JMTypeOK, JobRecords
      <4> QED BY <1>9, <3>1, <4>1 DEF Holds
    <3>3. CASE sched'.pc = "undo" /\ sched'.job = j /\ sched'.gang = sched.gang
      BY <1>9, <3>1, <3>3 DEF Holds, Placing
    <3> QED BY <1>5, <3>2, <3>3
  <2>3. CASE jobs[k].status = "running" /\ n \in jobs[k].assigned /\ jobs'[k].status # "running"
    <3>1. k # j
      BY <1>4, <2>3
    <3>2. jobs'[k] = jobs[k]
      BY <1>5, <3>1 DEF MarkRunning, CtrlInv, TypeOK, JMTypeOK
    <3> QED BY <2>3, <3>2
  <2> QED BY <2>1, <2>2, <2>3
<1>10. HoldsKept
  BY <1>9 DEF HoldsKept
<1> QED BY <1>1, <1>8, <1>10, OwnerKept DEF ResInv, StepOfBase

\* The reservation of a job that can no longer start is given back.
LEMMA UndoOwned == ASSUME CtrlInv, ResInv, SchedulerNext, SchedUndo PROVE ResInv'
<1> DEFINE j == sched.job
           G == sched.gang
           c == sched.spec.cpus
<1>1. sched.pc = "undo" /\ ReleaseNodes(G, c) /\ UNCHANGED jobs /\ sched'.pc = "exit"
  BY DEF SchedUndo, jmVars, SchedIdle
<1>2. JobsOnward /\ UNCHANGED <<idSeq, th, dead>>
  BY SchedBase
<1>3. Placed
  BY <1>1, PlacedWhen
<1>4. j \in JobIds /\ G \in SUBSET Nodes /\ c \in Nat /\ c >= jobs[j].spec.cpus
  BY <1>3 DEF Placed
<1> HIDE DEF j, G, c
<1>5. HandlerFrees
  <2>1. ASSUME NEW n \in Nodes
        PROVE  /\ nodes'[n].job \in {NoJob, nodes[n].job}
               /\ nodes'[n].job # NoJob => nodes'[n].alloc = nodes[n].alloc
               /\ nodes'[n].status = "absent" => nodes'[n] = nodes[n]
    <3>1. CASE n \in G /\ Registered(n)
      <4>1. nodes'[n].job = NoJob /\ nodes'[n].status = nodes[n].status
        BY <1>1, <3>1 DEF ReleaseNodes, CtrlInv, TypeOK, NodeRecords
      <4> QED BY <3>1, <4>1 DEF Registered
    <3>2. CASE ~(n \in G /\ Registered(n))
      BY <1>1, <3>2 DEF ReleaseNodes
    <3> QED BY <3>1, <3>2
  <2>2. th'[Monitor] = th[Monitor] /\ dead' = dead
    BY <1>2
  <2> QED BY <2>1, <2>2 DEF HandlerFrees
<1>6. MarkedIsKnown'
  BY <1>2, <1>5, SchedBase, MarkedAfter DEF ResInv
<1>7. ReservedOnce'
  <2>1. ASSUME NEW k \in JobIds, jobs'[k].status \in {"absent", "pending"} PROVE Untouched(k)'
    <3>1. Untouched(k)
      BY <1>1, <2>1 DEF ResInv, ResBase, ReservedOnce
    <3>2. \A n \in Nodes : nodes'[n].job # k
      BY <1>5, <3>1, JobIdsAssumption DEF HandlerFrees, Untouched, NoJob
    <3> QED BY <1>2, <3>1, <3>2 DEF Untouched
  <2> QED BY <1>1, <2>1 DEF ReservedOnce
<1>8. StepOfBase
  BY <1>6, <1>7, SchedBase
<1>9. ASSUME NEW n \in Nodes, NEW k \in JobIds, Holds(n, k) PROVE Holds(n, k)' \/ (k = j /\ n \in G)
  BY <1>1, <1>2, <1>9, SchedHolds DEF Placing, j, G
<1> QED BY <1>1, <1>4, <1>8, <1>9, OwnerReleased DEF ResInv, StepOfBase

LEMMA SchedulerOwned == ASSUME CtrlInv, ResInv, SchedulerNext PROVE ResInv'
<1>1. CASE SchedPeek
  <2>1. UNCHANGED <<jobs, nodes>> /\ sched.pc = "try"
    BY <1>1 DEF SchedPeek, jmVars
  <2>2. CASE HasPending
    <3>1. sched'.pc = "select" /\ sched'.job = Head(pending)
      BY <1>1, <2>2 DEF SchedPeek, PeekPending, SchedIdle
    <3>2. pending \in Seq(JobIds) /\ pending # <<>>
      BY <2>2 DEF HasPending, CtrlInv, TypeOK, JMTypeOK
    <3>3. Head(pending) \in JobIds /\ Contains(pending, Head(pending))
      <4>1. 1 \in 1..Len(pending) /\ pending[1] = Head(pending)
        BY <3>2
      <4> QED BY <3>2, <4>1 DEF Contains
    <3>4. jobs[Head(pending)].status = "pending"
      BY <3>3 DEF CtrlInv, JMInv, QueueIsPending
    <3> QED BY <2>1, <3>1, <3>3, <3>4, SchedCalmOwned
  <2>3. CASE ~HasPending
    <3>1. sched'.pc = "exit"
      BY <1>1, <2>3 DEF SchedPeek, SchedIdle
    <3> QED BY <2>1, <3>1, SchedCalmOwned
  <2> QED BY <2>2, <2>3
<1>2. CASE SchedSelect
  <2>1. UNCHANGED <<jobs, nodes>> /\ sched.pc = "select"
    BY <1>2 DEF SchedSelect, jmVars
  <2>2. \/ sched'.pc = "reserve" /\ sched'.job = sched.job
        \/ sched'.pc = "exit"
    BY <1>2 DEF SchedSelect, SchedIdle, CtrlInv, TypeOK, SchedRecords
  <2> QED BY <2>1, <2>2, SchedCalmOwned
<1>3. CASE SchedReserve
  <2>1. CASE ReserveNodes(sched.job, sched.gang, sched.spec.cpus) /\
             sched' = [sched EXCEPT !.pc = "mark"]
    BY <1>3, <2>1, ReserveOwned
  <2>2. CASE sched' = [SchedIdle EXCEPT !.pc = "exit"] /\ UNCHANGED nodes
    <3>1. UNCHANGED <<jobs, nodes>> /\ sched.pc = "reserve" /\ sched'.pc = "exit"
      BY <1>3, <2>2 DEF SchedReserve, jmVars, SchedIdle
    <3> QED BY <3>1, SchedCalmOwned
  <2> QED BY <1>3, <2>1, <2>2 DEF SchedReserve
<1>4. CASE SchedDropCancel \/ SchedSend
  <2>1. UNCHANGED <<jobs, nodes>> /\ sched.pc \in {"dispatch", "send"}
    BY <1>4 DEF SchedDropCancel, SchedSend, jmVars
  <2>2. sched'.pc \in {"try", "dispatch", "send"}
    <3>1. sched \in SchedRecords /\ SchedIdle.pc = "try"
      BY DEF SchedIdle, CtrlInv, TypeOK
    <3>2. CASE SchedDropCancel
      BY <3>1, <3>2 DEF SchedDropCancel, SchedRecords
    <3>3. CASE SchedSend
      <4>1. \/ sched' = SchedIdle
            \/ sched' = [sched EXCEPT !.pc = "dispatch", !.todo = @ \ {Min(sched.todo)}]
        BY <3>3 DEF SchedSend
      <4> DEFINE todo == sched.todo \ {Min(sched.todo)}
      <4> HIDE DEF todo
      <4>2. [sched EXCEPT !.pc = "dispatch", !.todo = todo].pc = "dispatch"
        BY <3>1 DEF SchedRecords
      <4> QED BY <3>1, <4>1, <4>2 DEF todo
    <3> QED BY <1>4, <3>2, <3>3
  <2> QED BY <2>1, <2>2, SchedCalmOwned
<1>5. CASE SchedPark \/ SchedWake \/ SchedTick
  <2>1. UNCHANGED <<jobs, nodes>> /\ sched.pc \in {"exit", "wait"} /\ sched'.pc \in {"try", "wait"}
    BY <1>5 DEF SchedPark, SchedWake, SchedTick, jmVars, SchedIdle
  <2> QED BY <2>1, SchedCalmOwned
<1> QED BY <1>1, <1>2, <1>3, <1>4, <1>5, MarkOwned, UndoOwned DEF SchedulerNext, SchedStep

-------------------------------------------------------------------------------
(* The theorem *)

LEMMA ResInit == Init => ResInv
<1> SUFFICES ASSUME Init PROVE ResInv
  OBVIOUS
<1> USE DEF Init, JMInit, RegInit, SchedInit
<1>1. /\ \A j \in JobIds : jobs[j].status = "absent" /\ jobs[j].assigned = {}
      /\ \A n \in Nodes : nodes[n].job = NoJob /\ nodes[n].alloc = 0
      /\ \A t \in Threads : th[t].pc = "idle" /\ th[t].gang = {}
      /\ dead = {} /\ sched.pc = "try"
  BY DEF NoJobRecord, Unregistered, Idle, SchedIdle
<1>2. StartedLeft /\ KnownIsDrawn
  BY <1>1, ThreadIds DEF StartedLeft, KnownIsDrawn
<1>3. CallsKnow
  BY <1>1, ThreadIds DEF CallsKnow, CallKnows, CancelKnows, Begun, Ending
<1>4. MarkedIsKnown
  BY <1>1 DEF MarkedIsKnown
<1>5. ReservedOnce
  BY <1>1, ThreadIds, JobIdsAssumption DEF ReservedOnce, Untouched, NoJob, Ending
<1>6. ResBase
  BY <1>2, <1>3, <1>4, <1>5 DEF ResBase
<1>7. ReservationHasOwner
  <2>1. ASSUME NEW n \in Nodes PROVE nodes[n].alloc <= Cardinality(Claims(n))
    BY <1>1, <1>6, CtrlInit, ClaimsFinite, FS_CardinalityType
  <2> QED BY <1>1, <2>1 DEF ReservationHasOwner
<1> QED BY <1>6, <1>7 DEF ResInv

\* The invariant does not speak of the hub.
LEMMA ResQuiet ==
  ASSUME CtrlInv, ResInv, UNCHANGED <<jmVars, nodes, schedVars, idSeq, th, dead>>
  PROVE  ResInv'
<1> USE DEF jmVars, schedVars
<1>1. StartedLeft' /\ KnownIsDrawn'
  BY DEF ResInv, ResBase, StartedLeft, KnownIsDrawn, Validate
<1>2. CallsKnow'
  BY SameTables, OtherCalls, OtherCancels DEF CallsKnow, ResInv
<1>3. MarkedIsKnown'
  BY DEF ResInv, ResBase, MarkedIsKnown, Registered
<1>4. ReservedOnce'
  <2>1. \A j \in JobIds : Untouched(j)' = Untouched(j)
    BY DEF Untouched
  <2> QED BY <2>1 DEF ResInv, ResBase, ReservedOnce
<1>5. ReservationHasOwner'
  <2>1. \A n \in Nodes : nodes[n].job # NoJob => Holds(n, nodes[n].job)'
    BY DEF ResInv, ReservationHasOwner, Holds, Placing, WillRelease, StaleCancel
  <2>2. \A n \in Nodes : Claims(n)' = Claims(n)
    BY DEF Claims, Holds, Placing, WillRelease, StaleCancel
  <2> QED BY <2>1, <2>2 DEF ResInv, ReservationHasOwner
<1> QED BY <1>1, <1>2, <1>3, <1>4, <1>5 DEF ResInv, ResBase

LEMMA ResNext == CtrlInv /\ ResInv /\ [Next]_vars => ResInv'
<1> SUFFICES ASSUME CtrlInv, ResInv, [Next]_vars PROVE ResInv'
  OBVIOUS
<1>1. CASE UNCHANGED vars
  BY <1>1, ResQuiet DEF vars
<1>2. ASSUME NEW n \in Nodes, Register(n) \/ MonTouch(n) \/ Silence(n) PROVE ResInv'
  BY <1>2, RegisterOwned, BeatOwned
<1>3. ASSUME NEW j \in JobIds, SubmitDraw(j) \/ SubmitStore(j) \/ CancelGet(j) \/ CancelApply(j)
      PROVE  ResInv'
  BY <1>3, SubmitOwned, CancelGetOwned, CancelApplyOwned
<1>4. ASSUME NEW n \in Nodes, NEW j \in JobIds,
             ReportGet(n, j) \/ ReportApply(n, j) \/ ReportClear(n, j) \/ ReportAfter(n, j)
      PROVE  ResInv'
  BY <1>4, ReportGetOwned, ReportApplyOwned, ReportClearOwned, ReportAfterOwned
<1>5. CASE MonReap \/ MonHandle
  BY <1>5, MonReapOwned, MonHandleOwned
<1>6. ASSUME NEW t \in Threads, ThreadStep(t) PROVE ResInv'
  BY <1>6, ReleaseOwned, NotifyOwned, KickOwned DEF ThreadStep
<1> QED BY <1>1, <1>2, <1>3, <1>4, <1>5, <1>6, SchedulerOwned DEF Next

LEMMA ReservationInvariant == Spec => []ResInv
BY ControllerInvariant, ResInit, ResNext, PTL DEF Spec

\* No reservation is orphaned and no CPU is accounted for twice or for nobody: in any
\* cluster and under any interleaving of submissions, cancels, reports, node losses
\* and registrations, a node's CurrentJobID and AllocatedCPUs are backed by jobs
\* being placed or running there, or by a call in flight that will release them, or
\* were left behind by a cancel that read the job before its start (StaleCancel).
THEOREM ReservationsOwned == Spec => []ReservationHasOwner
<1>1. ResInv => ReservationHasOwner
  BY DEF ResInv
<1> QED BY <1>1, ReservationInvariant, PTL

===============================================================================
