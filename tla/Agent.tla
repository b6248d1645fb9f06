--------------------------------- MODULE Agent ---------------------------------
(***************************************************************************)
(* internal/node/agent.go and the start and end of cmd/node: the process   *)
(* on a node, connected to the hub by a WatchWork stream and by            *)
(* heartbeats.  Its goroutines are the heartbeat loop, the watch loop and  *)
(* one task per assignment (module Executor).                              *)
(*                                                                         *)
(* A stream is used once.  The agent opens it, and the controller's        *)
(* handler subscribes some time later.  When it breaks, the agent opens    *)
(* another while the handler of the old one may still be taking mail, or   *)
(* has yet to subscribe; what that handler sends from then on is lost.     *)
(* The NotFound branches need a controller that has lost its node table    *)
(* and are left out, as is the length of the back-off.  RPCs other than    *)
(* WatchWork and Heartbeat are completed by the modules that compose this  *)
(* one.                                                                    *)
(***************************************************************************)
EXTENDS Executor, Hub

CONSTANT MaxStarts      \* how often the process of a node may be started

ASSUME AgentAssumption == MaxStarts \in Nat

VARIABLES
  life,     \* where Agent.Run is
  starts,   \* how often it was started
  on,       \* the stream recvWork reads
  asked,    \* per stream, the node that opened it
  beat      \* CancelJobId of a heartbeat answered and not yet acted on

agentVars == <<execVars, life, starts, on, asked, beat>>

Nobody == 0

NoBeat == -1

AgentInit ==
  /\ ExecInit
  /\ life = [n \in Nodes |-> "down"]
  /\ starts = [n \in Nodes |-> 0]
  /\ on = [n \in Nodes |-> NoStream]
  /\ asked = [s \in Streams |-> Nobody]
  /\ beat = [n \in Nodes |-> NoBeat]

-------------------------------------------------------------------------------
(* Run: register, one heartbeat, then the loops *)

AgentStart(n) ==
  /\ life[n] = "down"
  /\ starts[n] < MaxStarts
  /\ life' = [life EXCEPT ![n] = "register"]
  /\ starts' = [starts EXCEPT ![n] = @ + 1]
  /\ UNCHANGED <<execVars, on, asked, beat, hubVars>>

\* RegisterNode was answered.
AgentRegistered(n) ==
  /\ life[n] = "register"
  /\ life' = [life EXCEPT ![n] = "beat"]
  /\ UNCHANGED <<execVars, starts, on, asked, beat>>

\* The controller answers a heartbeat with PendingCancel(n).  A beat of the loop
\* that finds none changes nothing, and is not a step.
BeatAsk(n) ==
  /\ life[n] = "beat" \/ (life[n] = "up" /\ cancel[n] # NoJob)
  /\ beat[n] = NoBeat
  /\ beat' = [beat EXCEPT ![n] = cancel[n]]
  /\ UNCHANGED <<execVars, life, starts, on, asked, hubVars>>

\* Reads the answer and does not act on it.
MutBeatAnswer(n) ==
  /\ beat[n] # NoBeat
  /\ beat' = [beat EXCEPT ![n] = NoBeat]
  /\ life' = [life EXCEPT ![n] = "up"]
  /\ UNCHANGED <<execVars, starts, on, asked, hubVars>>

BeatAnswer(n) ==
  /\ beat[n] # NoBeat
  /\ task' = IF beat[n] = NoJob THEN task ELSE Stop(n, beat[n])
  /\ beat' = [beat EXCEPT ![n] = NoBeat]
  /\ life' = [life EXCEPT ![n] = "up"]
  /\ UNCHANGED <<slot, starts, on, asked, hubVars>>

-------------------------------------------------------------------------------
(* watchLoop, recvWork *)

WatchOpen(n) ==
  /\ life[n] = "up"
  /\ on[n] = NoStream
  /\ \E s \in Streams : /\ asked[s] = Nobody
                       /\ asked' = [asked EXCEPT ![s] = n]
                       /\ on' = [on EXCEPT ![n] = s]
  /\ UNCHANGED <<execVars, life, starts, beat, hubVars>>

\* The handler begins, also when the agent has left the stream and is on another.
WatchBegin(s) ==
  /\ asked[s] # Nobody
  /\ Subscribe(s, asked[s])
  /\ UNCHANGED agentVars

\* The handler sends and the agent receives: an assignment gets a goroutine of its
\* own, a cancel is acted on at once.
Recv(s) ==
  LET n == chan[s].node
      m == Head(chan[s].buf) IN
  /\ Deliver(s)
  /\ on[n] = s
  /\ task' = IF m.kind = "assign" THEN [task EXCEPT ![n][m.job].pc = "received"]
             ELSE Stop(n, m.job)
  /\ UNCHANGED <<slot, life, starts, on, asked, beat>>

\* The connection breaks, while the instance has another stream.
StreamBreaks(n) ==
  /\ on[n] # NoStream
  /\ \E s \in Streams : asked[s] = Nobody
  /\ on' = [on EXCEPT ![n] = NoStream]
  /\ UNCHANGED <<execVars, life, starts, asked, beat, hubVars>>

\* The handler's stream context has ended, as its agent has left the stream; or
\* its channel was closed by another Subscribe and is drained.
HandlerReturns(s) ==
  /\ chan[s].st = "serving"
  /\ on[chan[s].node] # s \/ (~chan[s].open /\ chan[s].buf = <<>>)
  /\ Return(s)
  /\ UNCHANGED agentVars

\* The agent reads the end of a stream whose handler has returned.
WatchEnds(n) ==
  /\ on[n] # NoStream
  /\ chan[on[n]].st = "ended"
  /\ on' = [on EXCEPT ![n] = NoStream]
  /\ UNCHANGED <<execVars, life, starts, asked, beat, hubVars>>

-------------------------------------------------------------------------------
(* The final report of a task, and the end of the process *)

\* report: one attempt, whatever comes of it.
FinalReport(n, j) ==
  /\ TaskAt(n, j, "report")
  /\ task' = [task EXCEPT ![n][j].pc = "done"]
  /\ UNCHANGED <<slot, life, starts, on, asked, beat>>

Working(n, j) == task[n][j].pc \in {"received", "start", "wait", "clear", "report"}

\* SIGTERM: the context of Run, and with it that of every task, is cancelled.  Only
\* reports may still be sent (context.WithoutCancel).
AgentStop(n) ==
  /\ life[n] \in {"beat", "up"}
  /\ life' = [life EXCEPT ![n] = "stopping"]
  /\ task' = [task EXCEPT ![n] = [j \in JobIds |->
                IF Working(n, j) THEN Cancelled(task[n][j]) ELSE task[n][j]]]
  /\ on' = [on EXCEPT ![n] = NoStream]
  /\ beat' = [beat EXCEPT ![n] = NoBeat]
  /\ UNCHANGED <<slot, starts, asked, hubVars>>

\* The process is gone: Run has returned, which waits for the loops and not for
\* the tasks, or it was killed.  A process it had started, in a group of its own,
\* is left alone.
AgentExit(n) ==
  /\ life[n] # "down"
  /\ life' = [life EXCEPT ![n] = "down"]
  /\ slot' = [slot EXCEPT ![n] = NoJob]
  /\ task' = [task EXCEPT ![n] = [j \in JobIds |->
                IF Working(n, j) THEN [task[n][j] EXCEPT !.pc = "gone"] ELSE task[n][j]]]
  /\ on' = [on EXCEPT ![n] = NoStream]
  /\ beat' = [beat EXCEPT ![n] = NoBeat]
  /\ UNCHANGED <<starts, asked, hubVars>>

TaskStep(n, j) == RunStep(n, j) /\ UNCHANGED <<life, starts, on, asked, beat, hubVars>>

\* Time limits and programs that end.
OutsideStep(n, j) ==
  (Overrun(n, j) \/ ProcExit(n, j)) /\ UNCHANGED <<life, starts, on, asked, beat, hubVars>>

-------------------------------------------------------------------------------
(* Properties of the agent with its executor *)

Tasks == [pc : {"none", "received", "start", "wait", "clear", "report", "done", "gone"},
          ctx : {"live", "cancelled", "expired"},
          proc : {"none", "alive", "exit0", "exit1", "killed"},
          event : {"none", "completed", "failed", "cancelled"}]

\* Type invariant of the agents.  A task that is through with Run has a result: a
\* report with the zero value of JobEvent is one ReportJobStatus turns away.
AgentTypeOK ==
  /\ slot \in [Nodes -> JobIds \cup {NoJob}]
  /\ task \in [Nodes -> [JobIds -> Tasks]]
  /\ \A n \in Nodes, j \in JobIds :
       task[n][j].pc \in {"clear", "report", "done"} => task[n][j].event # "none"
  /\ life \in [Nodes -> {"down", "register", "beat", "up", "stopping"}]
  /\ starts \in [Nodes -> 0..MaxStarts]
  /\ on \in [Nodes -> Streams \cup {NoStream}]
  /\ asked \in [Streams -> Nodes \cup {Nobody}]
  /\ beat \in [Nodes -> JobIds \cup {NoJob, NoBeat}]

\* The slot names the job whose process the agent is looking after, from before
\* cmd.Start until the process has ended: there is one such process at most, and a
\* cancel that comes at any moment of that time finds it.  (A process that outlives
\* its agent is nobody's.)
SlotNamesProcess ==
  \A n \in Nodes, j \in JobIds :
    /\ task[n][j].pc \in {"start", "wait", "clear"} => slot[n] = j
    /\ task[n][j].proc = "alive" /\ task[n][j].pc # "gone" => task[n][j].pc = "wait"
===============================================================================
