-------------------------------- MODULE Cluster --------------------------------
(***************************************************************************)
(* Controller and agents together: the reports, registrations, heartbeats  *)
(* and streams that module Controller leaves to its environment are those  *)
(* of module Agent.  Faults says what may go wrong, MaxFaults how often:   *)
(*   "report"  a final report fails (agent.go logs it and goes on)         *)
(*   "stream"  a WatchWork connection breaks                               *)
(*   "stop"    an agent is told to terminate                               *)
(*   "crash"   an agent is killed                                          *)
(* Nodes in Silent may miss the heartbeat timeout: their agent is down or  *)
(* cut off, or its beats were dropped, and it may be heard of again.  Any  *)
(* other agent is back before the monitor notices.                         *)
(***************************************************************************)
EXTENDS Controller, Agent

CONSTANTS Faults, MaxFaults

ASSUME ClusterAssumption ==
  /\ Faults \subseteq {"report", "stream", "stop", "crash"}
  /\ MaxFaults \in Nat

VARIABLES
  faults,   \* how many there were
  lost      \* <<n, j>>: the controller will not hear of n's part of job j

ctrlVars    == <<jmVars, nodes, schedVars, idSeq, th, dead>>
clusterVars == <<vars, agentVars, faults, lost>>

ClusterInit == Init /\ AgentInit /\ faults = 0 /\ lost = {}

Fault(kind) == kind \in Faults /\ faults < MaxFaults /\ faults' = faults + 1

-------------------------------------------------------------------------------
(* Agents calling the controller *)

CRegister(n) == AgentRegistered(n) /\ Register(n) /\ UNCHANGED <<faults, lost>>

\* handleAssignment's last report, as ReportJobStatus receives it.  CANCELLED is
\* acknowledged and nothing else, whoever stopped the job.
CReport(n, j) ==
  /\ FinalReport(n, j)
  /\ ReportGet(n, j)
  /\ th'[<<"report", n, j>>].event = task[n][j].event
  /\ lost' = IF task[n][j].event = "cancelled" THEN lost \cup {<<n, j>>} ELSE lost
  /\ UNCHANGED faults

CReportFails(n, j) ==
  /\ Fault("report")
  /\ FinalReport(n, j)
  /\ lost' = lost \cup {<<n, j>>}
  /\ UNCHANGED vars

-------------------------------------------------------------------------------
(* Agents and their connections *)

AgentStep(n) ==
  /\ AgentStart(n) \/ BeatAsk(n) \/ BeatAnswer(n) \/ WatchOpen(n) \/ WatchEnds(n)
  /\ UNCHANGED <<ctrlVars, faults, lost>>

CTask(n, j) == TaskStep(n, j) /\ UNCHANGED <<ctrlVars, faults, lost>>

COutside(n, j) == OutsideStep(n, j) /\ UNCHANGED <<ctrlVars, faults, lost>>

CBegin(s) == WatchBegin(s) /\ UNCHANGED <<ctrlVars, faults, lost>>

CRecv(s) == Recv(s) /\ UNCHANGED <<ctrlVars, faults, lost>>

CBreak(n) ==
  /\ Fault("stream")
  /\ StreamBreaks(n)
  /\ UNCHANGED <<ctrlVars, lost>>

\* The assignments in the channel of a broken stream are not sent again.
CReturn(s) ==
  /\ HandlerReturns(s)
  /\ lost' = lost \cup {<<chan[s].node, m.job>> : m \in {x \in ToSet(chan[s].buf) : x.kind = "assign"}}
  /\ UNCHANGED <<ctrlVars, faults>>

CStop(n) ==
  /\ Fault("stop")
  /\ AgentStop(n)
  /\ UNCHANGED <<ctrlVars, lost>>

CExit(n) ==
  /\ Fault("crash") \/ (life[n] = "stopping" /\ UNCHANGED faults)
  /\ AgentExit(n)
  /\ lost' = lost \cup {<<n, j>> : j \in {k \in JobIds : Working(n, k)}}
  /\ UNCHANGED ctrlVars

-------------------------------------------------------------------------------
\* What send pushes out of a full queue is not sent again either.
Overflowed ==
  {<<n, Head(queue[n]).job>> : n \in {k \in Nodes :
     queue'[k] # queue[k] /\ Len(queue[k]) = MaxQueue /\ Head(queue[k]).kind = "assign"}}

ControllerStep ==
  /\ \/ \E j \in JobIds : SubmitDraw(j) \/ SubmitStore(j) \/ CancelGet(j) \/ CancelApply(j)
     \/ \E n \in Nodes, j \in JobIds : ReportApply(n, j) \/ ReportClear(n, j) \/ ReportAfter(n, j)
     \/ \E n \in Nodes : MonTouch(n) \/ Silence(n)
     \/ MonReap \/ MonHandle
     \/ \E t \in Threads : ThreadStep(t)
     \/ SchedulerNext
  /\ lost' = lost \cup Overflowed
  /\ UNCHANGED <<agentVars, faults>>

ClusterNext ==
  \/ ControllerStep
  \/ \E n \in Nodes : CRegister(n) \/ AgentStep(n) \/ CBreak(n) \/ CStop(n) \/ CExit(n)
  \/ \E n \in Nodes, j \in JobIds :
       CReport(n, j) \/ CReportFails(n, j) \/ CTask(n, j) \/ COutside(n, j)
  \/ \E s \in Streams : CBegin(s) \/ CRecv(s) \/ CReturn(s)

ClusterSpec == ClusterInit /\ [][ClusterNext]_clusterVars

\* Goroutines on both sides run, agents connect and beat, a stream that holds is taken
\* up by a handler, and messages on it arrive.  Programs need not end, and nobody need
\* call the controller.
ClusterFairness ==
  /\ WF_clusterVars(ControllerStep /\ SchedStep)
  /\ \A t \in Threads : WF_clusterVars(ControllerStep /\ ThreadStep(t))
  /\ \A j \in JobIds : WF_clusterVars(ControllerStep /\ (SubmitStore(j) \/ CancelApply(j)))
  /\ \A n \in Nodes, j \in JobIds :
       /\ WF_clusterVars(ControllerStep /\ (ReportApply(n, j) \/ ReportClear(n, j) \/ ReportAfter(n, j)))
       /\ WF_clusterVars(CTask(n, j) \/ CReport(n, j))
  /\ \A n \in Nodes : WF_clusterVars(CRegister(n) \/ AgentStep(n))
  /\ \A s \in Streams : /\ WF_clusterVars(CBegin(s) /\ on[asked[s]] = s)
                        /\ WF_clusterVars(CRecv(s))

ClusterFairSpec == ClusterSpec /\ ClusterFairness

-------------------------------------------------------------------------------
(* Properties *)

\* Where n's part of the running job j is.
InHand(n, j) ==
  \/ ~Dispatched(n, j)
  \/ InMail(n, Assign(j))
  \/ Working(n, j)
  \/ At(<<"report", n, j>>, "report")

\* No part of a running job falls between the controller and the agents: it is
\* still to be dispatched, in the mail, being worked on or being reported, or it
\* was reported, or one of the losses happened to it that the code does not make
\* good (an assignment that died with its stream or was pushed out of a full queue, a
\* report that failed, an agent that went down with it).  Nothing else leaves a job
\* running for ever.
OwedIsInHand ==
  \A j \in JobIds : jobs[j].status = "running" =>
    \A n \in jobs[j].assigned \ HasReported(j) : InHand(n, j) \/ <<n, j>> \in lost

\* End to end: the client is told "completed" only of a job whose program really
\* ended with status 0 on every node of its gang.
CompletedMeansRan ==
  \A j \in JobIds : jobs[j].status = "completed" =>
    \A n \in jobs[j].assigned : task[n][j].proc = "exit0"

\* Every program an agent looks after is one the controller is owed: its job was
\* started on this node, the node has not reported it, and the job is running, or
\* failed or was cancelled while it ran.  So no agent runs a program before its job is
\* started, after it is shown completed, or a second time, whatever streams are
\* replaced, whatever crashes and whatever reports are lost.
ProgramsAreOwed ==
  \A n \in Nodes, j \in JobIds : task[n][j].proc = "alive" /\ task[n][j].pc # "gone" =>
    /\ n \in jobs[j].assigned \ HasReported(j)
    /\ jobs[j].status \in {"running", "failed", "cancelled"}

-------------------------------------------------------------------------------
(* What the repository's documentation says and the code does not keep.        *)

\* scheduler.proto, CancelJob: "Running jobs are killed on nodes."  This leaves out
\* the cancel that had found the job pending and told no node (StaleCancel).
CancelledIsKilled ==
  \A n \in Nodes, j \in JobIds :
    jobs[j].status = "cancelled" /\ ~StaleCancel(j) ~> task[n][j].proc # "alive"
===============================================================================
