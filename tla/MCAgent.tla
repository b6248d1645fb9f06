-------------------------------- MODULE MCAgent --------------------------------
(***************************************************************************)
(* The agent and the hub without the rest of the controller: any job may   *)
(* be dispatched to a node once, and cancelled once before, during or      *)
(* after that.  Dispatch and NotifyCancel are the two locked halves each.  *)
(***************************************************************************)
EXTENDS Agent

CONSTANT CancelJobs   \* the jobs that may be cancelled

VARIABLES
  disp,     \* per job: Dispatch has not begun, is half done, is done
  note      \* the same of NotifyCancel

mcVars == <<agentVars, hubVars, disp, note>>

MCInit ==
  /\ AgentInit /\ HubInit
  /\ disp = [n \in Nodes |-> [j \in JobIds |-> "no"]]
  /\ note = [n \in Nodes |-> [j \in JobIds |-> "no"]]

\* Senders stop when the node is gone for good.
Hopeful(n) == life[n] # "down" \/ starts[n] < MaxStarts

MCDispatch(n, j) ==
  /\ Hopeful(n)
  /\ \/ /\ disp[n][j] = "no"   /\ DropCancel(n)      /\ disp' = [disp EXCEPT ![n][j] = "half"]
     \/ /\ disp[n][j] = "half" /\ send(n, Assign(j)) /\ disp' = [disp EXCEPT ![n][j] = "done"]
  /\ UNCHANGED <<agentVars, note>>

MCNotifyCancel(n, j) ==
  /\ Hopeful(n) /\ j \in CancelJobs
  /\ \/ /\ note[n][j] = "no"   /\ SetCancel(n, j)        /\ note' = [note EXCEPT ![n][j] = "half"]
     \/ /\ note[n][j] = "half" /\ send(n, CancelWork(j)) /\ note' = [note EXCEPT ![n][j] = "done"]
  /\ UNCHANGED <<agentVars, disp>>

MCRegistered(n) == AgentRegistered(n) /\ UNCHANGED <<hubVars, disp, note>>

\* The report reaches the controller, which clears the cancel entry, or it fails.
MCReport(n, j) ==
  /\ FinalReport(n, j)
  /\ ClearCancel(n, j) \/ UNCHANGED hubVars
  /\ UNCHANGED <<disp, note>>

MCBeat(n)  == (BeatAsk(n) \/ BeatAnswer(n)) /\ UNCHANGED <<disp, note>>
\* One stream is as good as another.
NextStream == CHOOSE s \in Streams : asked[s] = Nobody
MCWatch(n) == ((WatchOpen(n) /\ on'[n] = NextStream) \/ WatchEnds(n)) /\ UNCHANGED <<disp, note>>
MCBegin(s) == WatchBegin(s) /\ UNCHANGED <<disp, note>>
MCRecv(s)  == Recv(s) /\ UNCHANGED <<disp, note>>
MCTask(n, j) == TaskStep(n, j) /\ UNCHANGED <<disp, note>>

MCNext ==
  \/ \E n \in Nodes :
       \/ MCRegistered(n) \/ MCBeat(n) \/ MCWatch(n)
       \/ (AgentStart(n) \/ StreamBreaks(n) \/ AgentStop(n) \/ AgentExit(n)) /\ UNCHANGED <<disp, note>>
  \/ \E n \in Nodes, j \in JobIds :
       \/ MCDispatch(n, j) \/ MCNotifyCancel(n, j) \/ MCTask(n, j) \/ MCReport(n, j)
       \/ OutsideStep(n, j) /\ UNCHANGED <<disp, note>>
  \/ \E s \in Streams :
       \/ MCBegin(s) \/ MCRecv(s)
       \/ HandlerReturns(s) /\ UNCHANGED <<disp, note>>

MCSpec == MCInit /\ [][MCNext]_mcVars

\* The agent's goroutines run; its ticker makes it beat.  Nothing is assumed of
\* programs, connections, signals and senders.
MCFairSpec ==
  /\ MCSpec
  /\ \A n \in Nodes : WF_mcVars(MCBeat(n))
  /\ \A n \in Nodes, j \in JobIds : WF_mcVars(MCTask(n, j) \/ MCReport(n, j))

-------------------------------------------------------------------------------
\* A job's context is cancelled only on the controller's word for that job or
\* because the agent is shutting down: a heartbeat answer or a stream message that
\* is late by a whole job never stops the job that took its place.
StoppedForCause ==
  \A n \in Nodes, j \in JobIds :
    task[n][j].ctx = "cancelled" =>
      note[n][j] # "no" \/ life[n] = "stopping" \/ task[n][j].pc \in {"gone", "done"}

\* As long as the hub keeps a job's cancel entry, the node does stop the job: the
\* stream's cancel may be lost or come before the job has its slot, heartbeats
\* repeat it until it works.
CancelReaches ==
  \A n \in Nodes, j \in JobIds :
    cancel[n] = j /\ Working(n, j) ~> cancel[n] # j \/ ~Working(n, j)

\* A task with nothing left to wait for reports: a cancelled or overrunning process
\* is killed and reported, one that ended is reported, unless the agent dies.
EndedIsReported ==
  \A n \in Nodes, j \in JobIds :
    Working(n, j) /\ (task[n][j].ctx # "live" \/ task[n][j].proc \in {"exit0", "exit1"})
      ~> task[n][j].pc \in {"done", "gone"}
===============================================================================
