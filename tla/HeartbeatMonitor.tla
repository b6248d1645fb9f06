---------------------------- MODULE HeartbeatMonitor ----------------------------
(***************************************************************************)
(* internal/cluster/heartbeat.go with the clock of registry.go: beats go   *)
(* through a bounded channel into one goroutine, which applies the         *)
(* controller's time to them and, on a ticker, reaps the nodes it has not  *)
(* heard of for longer than the timeout.                                   *)
(*                                                                         *)
(* Time passes in units (Pass).  An agent that can reach the controller    *)
(* beats every BeatEvery units; it may be cut off and, a unit later or     *)
(* more, come back or start anew and register.  The goroutine may be held  *)
(* up (by the runtime, or by the locks it takes) for up to Stall units,    *)
(* longer than the timeout too; it then catches up, pausing at most Gap    *)
(* units over each tick.  What handleDeadNodes does to jobs is             *)
(* in module Controller; here it is one more step of the goroutine.        *)
(***************************************************************************)
EXTENDS Ids, Sequences

CONSTANTS
  Timeout,    \* m.timeout
  QueueSize,  \* heartbeatQueueSize
  BeatEvery,  \* the agents' interval
  Stall,      \* for how long the goroutine may be held up
  Gap         \* the same between taking a tick and being done with it

ASSUME MonitorAssumption ==
  /\ Timeout \in Nat /\ QueueSize \in Nat \ {0} /\ BeatEvery \in Nat \ {0}
  /\ Stall \in Nat /\ Gap \in 0..Stall

VARIABLES
  status,     \* per node, as in Registry
  age,        \* now - LastHeartbeat, not counted beyond Timeout + 1
  beats,      \* m.heartbeats
  ticker,     \* fired: the ticker's channel is full; left: units to the next tick
  pc,         \* where Monitor.Run is
  slack,      \* for how long the goroutine may still leave its work undone
  agent       \* per node: it reaches the controller, units since its last beat,
              \* units since it last was cut off or came back

monVars == <<status, age, beats, ticker, pc, slack, agent>>

\* MakeMonitor's default without the division.
MutInterval == Timeout

\* MakeMonitor's default, at least one unit.
Interval == IF Timeout \div 3 < 1 THEN 1 ELSE Timeout \div 3

\* How long detection and recovery may take.
Detect  == Timeout + (IF Timeout < 3 THEN 1 ELSE Timeout \div 3) + 2 * Stall + 2 * Gap
Recover == 2 * (BeatEvery + Stall + Gap)

Capped(x, max) == IF x < max THEN x + 1 ELSE x

MonInit ==
  /\ status = [n \in Nodes |-> "absent"]
  /\ age    = [n \in Nodes |-> 0]
  /\ beats  = <<>>
  /\ ticker = [fired |-> FALSE, left |-> Interval]
  /\ pc = "select"
  /\ slack = Stall
  /\ agent  = [n \in Nodes |-> [up |-> FALSE, since |-> 0, changed |-> 1]]

-------------------------------------------------------------------------------
(* Agents *)

Away(n) == ~agent[n].up /\ agent[n].changed > 0

\* RegisterNode; the agent's first heartbeat follows at once.
Join(n) ==
  /\ Away(n)
  /\ status' = [status EXCEPT ![n] = "online"]
  /\ age'    = [age EXCEPT ![n] = 0]
  /\ agent'  = [agent EXCEPT ![n] = [up |-> TRUE, since |-> BeatEvery, changed |-> 0]]
  /\ UNCHANGED <<beats, ticker, pc, slack>>

CutOff(n) ==
  /\ agent[n].up
  /\ agent' = [agent EXCEPT ![n] = [up |-> FALSE, since |-> 0, changed |-> 0]]
  /\ UNCHANGED <<status, age, beats, ticker, pc, slack>>

\* The node is reached again, at any point of its agent's ticker.
ComeBack(n) ==
  /\ Away(n) /\ status[n] # "absent"
  /\ \E since \in 0..BeatEvery :
       agent' = [agent EXCEPT ![n] = [up |-> TRUE, since |-> since, changed |-> 0]]
  /\ UNCHANGED <<status, age, beats, ticker, pc, slack>>

\* A channel without a limit.
MutRecord(n) ==
  /\ agent[n].up /\ agent[n].since = BeatEvery
  /\ agent' = [agent EXCEPT ![n].since = 0]
  /\ beats' = Append(beats, n)
  /\ UNCHANGED <<status, age, ticker, pc, slack>>

\* Heartbeat, Record: a beat that finds the channel full is dropped.
Record(n) ==
  /\ agent[n].up /\ agent[n].since = BeatEvery
  /\ agent' = [agent EXCEPT ![n].since = 0]
  /\ beats' = IF Len(beats) < QueueSize THEN Append(beats, n) ELSE beats
  /\ UNCHANGED <<status, age, ticker, pc, slack>>

-------------------------------------------------------------------------------
(* Monitor.Run *)

TouchHead ==
  /\ beats # <<>>
  /\ status' = [status EXCEPT ![Head(beats)] = "online"]
  /\ age'    = [age EXCEPT ![Head(beats)] = 0]
  /\ beats'  = Tail(beats)
  /\ UNCHANGED <<ticker, agent>>

\* select: the channel and the ticker may both be ready, and either is taken.
TakeBeat == pc = "select" /\ TouchHead /\ slack' = 0 /\ UNCHANGED pc

TakeTick ==
  /\ pc = "select" /\ ticker.fired
  /\ ticker' = [ticker EXCEPT !.fired = FALSE]
  /\ pc' = "drain" /\ slack' = Gap
  /\ UNCHANGED <<status, age, beats, agent>>

\* Reaps without a look into the channel.
MutDrain ==
  /\ pc = "drain"
  /\ pc' = "reap"
  /\ UNCHANGED <<status, age, beats, ticker, slack, agent>>

\* drainHeartbeats: until the channel is found empty.
Drain ==
  /\ pc = "drain"
  /\ \/ TouchHead /\ UNCHANGED <<pc, slack>>
     \/ /\ beats = <<>>
        /\ pc' = "reap"
        /\ UNCHANGED <<status, age, beats, ticker, slack, agent>>

\* One unit early.
MutReap ==
  /\ pc = "reap"
  /\ status' = [n \in Nodes |->
                  IF status[n] = "online" /\ age[n] >= Timeout THEN "offline" ELSE status[n]]
  /\ pc' = IF status' = status THEN "select" ELSE "handle"
  /\ UNCHANGED <<age, beats, ticker, slack, agent>>

\* ReapStale: strictly older than the timeout.
Reap ==
  /\ pc = "reap"
  /\ status' = [n \in Nodes |->
                  IF status[n] = "online" /\ age[n] > Timeout THEN "offline" ELSE status[n]]
  /\ pc' = IF status' = status THEN "select" ELSE "handle"
  /\ UNCHANGED <<age, beats, ticker, slack, agent>>

Handled ==
  /\ pc = "handle"
  /\ pc' = "select"
  /\ UNCHANGED <<status, age, beats, ticker, slack, agent>>

MonStep == TakeBeat \/ TakeTick \/ Drain \/ Reap \/ Handled

-------------------------------------------------------------------------------
(* Time *)

Busy == beats # <<>> \/ ticker.fired \/ pc # "select"

Pass ==
  /\ \A n \in Nodes : agent[n].up => agent[n].since < BeatEvery
  /\ Busy => slack > 0
  /\ slack' = IF Busy THEN slack - 1 ELSE Stall
  /\ age'  = [n \in Nodes |-> Capped(age[n], Timeout + 1)]
  /\ ticker' = IF ticker.left = 1 THEN [fired |-> TRUE, left |-> Interval]
               ELSE [ticker EXCEPT !.left = @ - 1]
  /\ agent' = [n \in Nodes |-> [up      |-> agent[n].up,
                                 since   |-> IF agent[n].up THEN agent[n].since + 1 ELSE 0,
                                 changed |-> Capped(agent[n].changed, Detect + 1)]]
  /\ UNCHANGED <<status, beats, pc>>

MonNext ==
  \/ \E n \in Nodes : Join(n) \/ CutOff(n) \/ ComeBack(n) \/ Record(n)
  \/ MonStep
  \/ Pass

MonSpec == MonInit /\ [][MonNext]_monVars

-------------------------------------------------------------------------------
(* Properties *)

\* Type invariant of the monitor.
MonTypeOK ==
  /\ status \in [Nodes -> {"absent", "online", "offline"}]
  /\ age \in [Nodes -> 0..Timeout + 1]
  /\ beats \in Seq(Nodes) /\ Len(beats) <= QueueSize
  /\ ticker \in [fired : BOOLEAN, left : 1..Interval]
  /\ pc \in {"select", "drain", "reap", "handle"}
  /\ slack \in Nat
  /\ agent \in [Nodes -> [up : BOOLEAN, since : 0..BeatEvery, changed : Nat]]

\* heartbeat.go: a full queue "Drops the beat ...; the next one will refresh
\* liveness".  A node whose beats arrive is online, from Recover units after it came
\* (back): beats dropped or waiting while the goroutine is held up never get a live
\* node reaped.
LiveIsOnline ==
  \A n \in Nodes : agent[n].up /\ agent[n].changed > Recover => status[n] = "online"

\* A node cut off is marked offline within Detect units, although its last beats may
\* still be in the channel and refresh it late, and the ticker drops ticks.
DeadIsOffline ==
  \A n \in Nodes : ~agent[n].up /\ agent[n].changed > Detect => status[n] # "online"

\* The rest of the project knows a node's age only as the flag "late" of Registry.
LateView ==
  [n \in Nodes |-> [status |-> status[n], total |-> IF status[n] = "absent" THEN 0 ELSE 1,
                    alloc |-> 0, job |-> NoJob, late |-> status[n] # "absent" /\ age[n] > Timeout]]

Reg == INSTANCE Registry WITH nodes <- LateView

\* What Controller lets the monitor and the agents do to the registry.
LateNext ==
  \/ \E n \in Nodes : Reg!RegisterNode(n, 1) \/ Reg!Touch(n)
  \/ Reg!ReapStale
  \/ \E late \in SUBSET {n \in Nodes : Reg!Registered(n)} :
       LateView' = [n \in Nodes |-> [LateView[n] EXCEPT !.late = @ \/ n \in late]]

\* The monitor with its clock, channel and ticker does nothing to the registry that
\* the flag does not allow: Controller's abstraction of time is sound.
ImplementsLateFlag == Reg!RegInit /\ [][LateNext]_LateView
================================================================================
