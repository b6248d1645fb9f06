# SlurmLite: TLA+ models, model checking and proofs

SlurmLite is a small gang scheduler: a controller keeps a FIFO of jobs, waits
until enough nodes are free for the job at its head, reserves them together,
and sends the job to the agents on those nodes. This directory holds TLA+
modules for its controller, its agents and what a user of `slctl` sees, TLC
configurations that check them on small instances, and TLAPS proofs that hold
for any number of jobs and nodes. Paths below are relative to `src/`.

## 1. Inventory

| Part | State | Operations | Talks to |
|---|---|---|---|
| Job manager `internal/job` | `jobs`, FIFO `pending`, `reports` per job and node, one mutex | Submit, MarkRunning, MarkCompleted, MarkFailed, FailRunningJob, Cancel, ReportNodeEvent, Get/List/Peek | called by handlers, scheduler, monitor |
| Registry `internal/cluster/registry.go` | `nodes`: status, CPUs total/allocated, current job, last heartbeat, one mutex | RegisterNode, Touch, ReapStale, ReserveNodes, ReleaseNodes, ListNodes | the same |
| Monitor and reaper `heartbeat.go`, `reaper.go` | heartbeat channel (256), ticker | Record, Run, handleDeadNodes | registry, then `Failer` (manager and hub) |
| Scheduler `internal/scheduler` | one-slot `kick` channel, a mutex around trySchedule | Kick, Run, trySchedule, dispatchWork, SelectGang | manager, registry, hub, call by call |
| Hub `internal/controller/hub.go` | `sub`, `queue`, `cancel` per node, one mutex | Dispatch, NotifyCancel, ClearCancel, PendingCancel, Subscribe, Unsubscribe, send | WatchWork streams |
| RPC handlers `internal/controller/server.go` | `idSeq`, locals of each call | RegisterNode, Heartbeat, SubmitJob, CancelJob, ReportJobStatus, WatchWork, lists | all of the above, without a lock of their own |
| Agent `internal/node/agent.go` | stream, backoff | Register, Heartbeat loop, watch loop, handleAssignment, report | controller over gRPC |
| Executor `internal/node/executor.go` | current job id, cancel function | Run, Stop, Current | the operating system |
| `slctl` (`cmd/slctl`) | none | submit, queue, cancel, nodes: one RPC each | handlers, through `convert.go` |
| `cmd/controller`, `cmd/node` | none | wiring, start order, SIGTERM | |
| `api/proto`, `scripts`, `examples` | none of interest | generated code, demos | |

**What is hard.** Each structure is well locked, and nothing locks two of them
at once. Every handler, the monitor and the scheduler are therefore sequences
of atomic calls that interleave freely, and several of them decide on a
snapshot taken some calls earlier. The hazards, each with its line and the
properties aimed at it, are in `PROJECT.json`. The main ones:

- a gang job's reports race one another, cancels, node losses and the scheduler;
- a reservation spans three structures, and a step in the middle may fail;
- streams replace one another while handlers of the old ones still run;
- queues and channels are bounded, and wake-ups go through a one-slot channel;
- beats wait in a bounded channel for a goroutine that may be held up, and a
  ticker drops ticks;
- an agent's goroutines race one another: a cancel by stream or heartbeat, the
  program's end, its time limit and the shutdown;
- reports, streams and agents fail, fall silent, come back and register again.

**What makes the parts correct.** Manager: the queue and the statuses agree, a
gang ends exactly with its last report, outcomes are final. Registry and
scheduler: gangs are whole, reservations have owners and are not lost, nobody
sleeps while work could be placed. Hub: one live reader per node, no duplicate,
no silent loss. Controller: it uses the others only as they expect. Monitor:
who beats is online, who stopped is found out in time. Agent and executor: one
process, stopped for cause and only then, and reported. Together: no part of a
running job gets lost unnoticed, and what the client is told is true.

## 2. Modules

| Module | Models | Notes |
|---|---|---|
| `Ids` | job and node ids | naturals; node order is the id order of `ListNodes` |
| `GangOutcome` | nothing in the code | abstract specification of a gang job's life |
| `JobManager` | `job.go`, `manager.go` | one action per method, since each holds `m.mu` throughout |
| `Registry` | `registry.go` | one operator per method; time is a `late` flag |
| `Hub` | `hub.go`, `WatchWork` | `Dispatch` and `NotifyCancel` take the mutex twice and are two steps |
| `Scheduler` | `scheduler.go`, `resources.go` | trySchedule split at every call |
| `Controller` | handlers, monitor, reaper, `Failer`; composes all of the above | threads `<<op, n, j>>` with a program counter |
| `HeartbeatMonitor` | `heartbeat.go`, clock of `registry.go` | time in units; the registry's ages in full |
| `Executor` | `executor.go` | Run split where `Stop`, time or the process may interfere |
| `Agent` | `agent.go`, `Heartbeat`, agent side of `WatchWork`, `cmd/node` | extends `Executor` and `Hub` |
| `Cluster` | `cmd/controller` with agents | extends `Controller` and `Agent`, joins their actions |
| `Client` | `slctl`, `SubmitJob`, `ListJobs`, `convert.go` | extends `JobManager` |
| `JobManagerProofs`, `HubProofs`, `MailProofs`, `MonitorProofs`, `ClientProofs` | | theorems about one part |
| `ControllerProofs`, `QuietProofs` | | theorems about the controller, in general and where less can happen at once |
| `ClusterProofs` | | mail and tasks; theorems about agents, and about controller and agents together |
| `MCHub`, `MCController`, `MCAgent`, `MCCluster`, `MCClient` | | instances for TLC |

`JobManager`, `Registry` and `Hub` share no variables. `Scheduler` extends the
three, `Controller` extends `Scheduler`. A variable keeps the name of the Go
field it stands for.

**Job manager.** A record holds status, request, assigned nodes and exit code.
A call answered with an error and no change is a disabled action; callers
supply the negated guard where the error matters (SchedMark, CancelApply).
`JMSpec` is the manager under the calls the controller makes, `ApiSpec` adds
`MarkCompleted`, which nothing calls; it is proved about, not run.

**Hub.** `chan[s]` is the channel Subscribe makes for stream `s`, with its
capacity `room` and whether it is still open. Return covers all ways the
WatchWork handler ends; what its channel held is lost with it. MCHub adds
observers of what was sent, received and lost.

**Scheduler.** `sched.pc` is the next call of trySchedule. SelectGang is the set
of gangs (one or none) of the first fitting nodes in id order. `kick` says
whether the one-slot channel holds its token.

**Controller.** A thread's `pc` names the next call. Release, NotifySet,
NotifySend and KickStep are the tails the handlers share; the monitor notifies
first (inside `Failer`), then releases, and does not kick. ReportJobStatus keeps
`before` as the one bit it is used for (`fresh`). CancelJob keeps its snapshot.
In `Controller` alone agents and clients are the environment: each assigned node
sends at most one final report, after the scheduler has dispatched its work;
`Cancellable`, `Silent` and `Restarting` say who may cancel, fall silent and
register again.

**Monitor.** `HeartbeatMonitor` has what `Controller` leaves out: the channel
of `heartbeatQueueSize` slots, the ticker that drops a tick nobody took, the age
of each node, and the goroutine at its four places (`pc`). `Pass` lets one unit
of time pass. It waits for agents whose beat is due, and for the goroutine
within its allowance `slack`: it may be held up for `Stall` units with work
undone, and of these spend `Gap` units between taking a tick and being done
with it (hence `Gap <= Stall`).
`Interval` is `MakeMonitor`'s default. `ImplementsLateFlag` maps status and age
to `Registry`'s record and shows that the monitor does nothing but what
`Controller` allows: mark nodes late, touch them, register them, reap the late.

**Agent and executor.** A task is the goroutine of one assignment: `received`,
`start`, `wait` for the process, `clear` the slot, `report`. Its context is
live, cancelled or expired, its process none, alive, ended or killed; `RunDone`
and `RunKill` are the two cases of the select, and both may be enabled. Stop
cancels the context of the job in the slot, if it is the right one. `life` is
where `Agent.Run` is. A stream (`on`) is used once; an agent that lost its
stream opens another while the controller's handler of the old one may still be
writing to it, or has yet to begin: `WatchOpen` is the client's half and
`WatchBegin` the handler's, in any order among streams, and a handler that begins
late closes the channel of the stream in use. `WatchEnds` is the agent reading the
end of a stream whose handler has returned. AgentStop is SIGTERM; AgentExit the
end of the process, of its own or by a crash, which leaves a program it had started running.

**Cluster.** CRegister and CReport are one step of the agent and one of the
controller. `lost` records the parts of jobs the code gives up on: an
assignment that died with its stream or that `send` pushed out of a full queue
(`Overflowed`), a report that failed or said CANCELLED, tasks of an agent that
went down. An agent whose node is in `Silent` may be taken for dead while it is
alive, and be heard of again.

**Client.** A submission draws an id, is stamped, stored and answered in steps
of its own, with others in between; `call[j].after` records which submissions
had been answered when j was made. The stamp is whatever the wall clock shows
(`Times`): `job.New` takes `time.Now().UTC()`, which has no monotonic reading, so
a later stamp may be the same or earlier. `int32` is Go's conversion, with `Half`
for 2^31. `sortJobs` is the set of results `sort.Slice` may return for jobs that
come out of a map: all arrangements in which no job stands before a lesser one.
Ids are compared as strings by their numbers, filled up with zeros to the digits
of the longest (`Padded`).

## 3. What TLC checks

| Run | Instance | Properties |
|---|---|---|
| `clients` | 3 submissions, ids 9 to 11, ints of 8 bits, a clock of 2 values, 1 node | JMTypeOK, QueueIsPending, SubmissionOrderKept, FirstComeFirstServed, OutcomeIsFinal, ListingsAgree, ClientsUseManagerRight (JMSpec) |
| `mailbox` | 1 node, 4 messages, 3 streams, workBuf 1, maxQueue 2, fairness | HubTypeOK, SubscriberIsLive, InOnePlace, StreamInOrder, NewestKept, QueueDrains |
| `cancels` | 2 two-node jobs, 2 nodes, cancel of job 1 | TypeOK, ReservationHasOwner, GangIsComplete, SomeoneStillOwes |
| `lost_gang` | 1 two-node job, node 1 silent and restarting, cancel, failures | ReservationHasOwner, LostNodeIsFree, ImplementsGangOutcome and UsesManagerRight (refinements) |
| `jobs_end` | from start-up, 2 two-node jobs, agents that announce 0 CPUs, fairness | JobsEnd |
| `monitor` | 2 nodes, timeout 3, channel of 3, beat every unit, stall 4, gap 1 | MonTypeOK, LiveIsOnline, DeadIsOffline, ImplementsLateFlag (refinement) |
| `agent` | 1 node, 2 jobs whose programs fail, cancel of job 1, 2 streams, one start, fairness | AgentTypeOK, SlotNamesProcess, StoppedForCause, CancelReaches, EndedIsReported |
| `cluster` | 1 node, 2 jobs, the first with a time limit, 2 starts, 1 fault of any kind; jobs fail by the limit or at the start of the program | RunningHoldsGang, NoLostWakeup, OwedIsInHand, CompletedMeansRan, ProgramsAreOwed |
| `shared_nodes` | 3 two-node jobs | NodesNotShared, **violated** |
| `cancel_leak` | 1 two-node job, cancel | CancelReleases, **violated** |
| `lost_node_runs` | 1 two-node job, node 1 silent | LostNodeFailsJob, **violated** |
| `cancel_not_killed` | 1 job, 1 node, cancel, no fault, fairness | CancelledIsKilled, **violated** |

Each property has a mutant in `PROJECT.json`: a definition of the model changed
as a plausible bug would change the code (operators named `Mut...`), under which
TLC finds the property violated.

**Bounds.** Two nodes and two-node gangs are the smallest instance in which a
gang can be partly reported, partly lost or partly notified; the third job of
`shared_nodes` is the one that is placed on nodes still in use. Three streams
allow a stream that is replaced while its replacement is itself replaced. Small
`WorkBuf` and `MaxQueue` make both limits bite. Each client cancels a job once
and each agent reports a job once, as `agent.go` does. The last stream of an
instance never breaks, since there is no other to open. `clients` crosses the step
from one-digit to two-digit ids, where the string order of ids and that of their
numbers differ, and has two clock values, enough for equal stamps and for a step
back. Its flags are a request for no CPU, one for 128 nodes that wraps around to -128
and is turned away, and one for 257 that wraps around to 1 and is accepted. In
`monitor` a stall is longer than the timeout and ticks are dropped. One node
suffices for `agent` and `cluster`: agents do not talk to one another, and races
of gangs are in the controller's runs. Nobody cancels in `cluster`, so its queue
never overflows (it takes a cancel of one job behind the assignment of another);
with cancels OwedIsInHand is the theorem NothingSlips.
Runs that do not say "from start-up" begin with all nodes registered and the
scheduler waiting (`UpInit`, `CUpInit`), a state every controller passes
through; `jobs_end`, `agent`, `monitor` and `clients` start from nothing.

**View and symmetry.** `cancels` and `lost_gang` identify states that differ
only in the hub's contents (`WithoutMail`). No guard in these runs reads them
back: there is no stream, and ClearCancel only writes. `cluster`, which checks
invariants only, takes streams as interchangeable.

**Deadlock** is checked in the controller and monitor runs (the ticker can
always fire). The bounded environments of the other runs do stop, so it is off
there.

**Fairness.** `Controller!Fairness` says that goroutines with a next call make
it, that agents end the work they were sent and report, and that nodes
register; it says nothing about the ticker, so JobsEnd holds by kicks alone. It
assumes neither cancels nor losses: CancelJob of a queued job and the monitor's
release do not kick, and there the scheduler's ticker (one second) is what moves
the queue. That jobs end and reports arrive is an assumption about programs and
network, not something `agent.go` ensures (it does not retry a report). In
`mailbox`, `MCFairSpec` says that handlers with mail deliver it and that an agent
without a stream opens one (the watch loop with its backoff). QueueDrains
is about mail of an absent node: mail that overflowed a full channel waits for
the *next* subscription, even while the stream is healthy. In `agent`, an
agent's goroutines run and its ticker makes it beat; nothing is assumed of
programs, connections and signals. `ClusterFairness` adds the controller's
goroutines, and that a stream that holds is taken up by its handler and delivers; a
handler that begins after its agent has left need not come.

**Time.** DeadIsOffline allows `Detect` = timeout + interval + twice `Stall` +
twice `Gap` after the node was cut off, for any channel size; LiveIsOnline
allows `Recover`, twice a beat and the two delays. It rests on the channel
having room in one respect only: a dropped beat must be followed by one that is
kept. With one beat per unit, `QueueSize` of at least 2|Nodes| - 1 does for
that (the general bound is `RoomForBeats`, section 5); the code has 256 slots.

**Conditional properties.** NoLostWakeup and RunningHoldsGang are true only
while nobody cancels, which the run `cluster` leaves out: CancelJob gives nodes
back before the agents have stopped, and does not kick for a queued job. Section 5
has them as theorems under that hypothesis. That a node shown idle runs nothing is
no property of the code: a cancel, a failure report of one node of a gang and the
loss of a node all release nodes whose programs are still being stopped.
ProgramsAreOwed says what is true of such programs without any hypothesis. That
listings follow the order of submission is none either, as the clock may go back:
SubmissionOrderKept is about the queue, and ListingsAgree says that listings do not
contradict one another. GangIsComplete runs without losses; for a node that goes
between the snapshot and the reservation it rests on the theorem GangGuarantee.

## 4. What the violated runs show

- **Double release** (`server.go:227`). Two reports of one gang can both read
  the job as running before, and as ended after, their own report. Both call
  ReleaseNodes, which takes no job id. If the scheduler has placed another job
  on the nodes in between, its reservation is erased and a third job shares
  them.
- **Stale cancel** (`server.go:156-168`). CancelJob releases and notifies the
  nodes it read before it cancelled. A job started in between is cancelled with
  its gang still reserved and not told. `ReservationHasOwner` names this one
  exception (`StaleCancel`) and shows that there is no other leak in the runs.
- **Cancel overtakes assignment** (`scheduler.go:97-102`, `hub.go:62-68`). A job
  may be cancelled from MarkRunning on. If that happens before its assignment is
  dispatched, Dispatch deletes the cancel entry the heartbeats would have
  repeated, and the stream brings the cancel first. The agent stops nothing,
  then starts the program, which runs on. `CancelReaches` shows the other half:
  while the hub keeps the entry the job is stopped.
- **Loss during placement** (`reaper.go:22-28`). A node reaped after
  ReserveNodes and before MarkRunning leads to a job running on an offline node
  that will not be reaped again.

LostNodeIsFree is checked with one silent node, and proved for any cluster in
which no two nodes of one job are lost. With two nodes of one gang lost
in the same sweep before MarkRunning, `seen` skips the second, which then stays
reserved until the job's own end.

## 5. What is proved

All for arbitrary finite `Nodes`, arbitrary `JobIds`, `Specs`, exit codes and
buffer sizes, from the named assumptions beside each CONSTANTS declaration (ids
are positive naturals, requests are pairs of integers and `Specs` has
what clients may validly ask for, `NoReport` is not an exit code, 0 and 1 are exit
codes).

- **`JobManagerProofs`**: under `ApiSpec`, JMTypeOK, QueueIsPending,
  SomeoneStillOwes, FirstComeFirstServed, OutcomeIsFinal, and under `JMSpec`
  ImplementsGangOutcome. The inductive invariant `JMInv` is the conjunction of the
  first three. They need one
  another: taking a job off the queue is exact only on a duplicate-free queue
  (`RemovePendingExact`), and the count of reports equals coverage of the gang
  only if all reports are of assigned nodes (`CountIsCoverage`).
  The refinement needs two more facts: a job that has not ended has exit code 0,
  and the recorded codes of a job have a maximum. One simulation lemma per call.
- **`HubProofs`**: under `HubSpec`, which calls the hub's methods in any order,
  HubTypeOK and SubscriberIsLive. Their conjunction is inductive: that a
  replaced stream is closed, and that its Unsubscribe leaves its successor
  alone, holds because an open serving stream is always the registered one.
- **`MailProofs`**: under `MCSpec` of MCHub, with any buffer sizes and any
  number of nodes, streams and messages (that they are messages the hub knows is
  `MCMsgsAssumption`), InOnePlace, StreamInOrder and NewestKept. `MailInv` says
  of each message where it is, without counting: no sequence holds one twice
  (`MailSingle`), what was sent and nothing else is received, queued, lost or in
  a channel (`MailPlaced`), and in one of these only (`MailApart`), from which the
  counts of InOnePlace follow (`OnePlaceEach`). Queue and serving channels are in
  the order of sending (`MailOrdered`): Subscribe moves the head of the queue into
  an empty channel, and a message just sent is the last of all.
- **`ControllerProofs`**: under `Spec`, TypeOK, GangIsComplete,
  UsesManagerRight, and with the manager's refinement ImplementsGangOutcome. The
  inductive invariant `CtrlInv` adds to TypeOK and JMInv what the threads'
  locals mean: the scheduler's request is that of the job it peeked and its gang
  has the requested size from the reservation on (`GoodSched`), and a thread
  that notifies has a job and somebody left to notify (`GoodThread`, where
  SomeoneStillOwes gives the monitor a non-empty gang). Handlers and monitor are
  reduced to one action shape (`HandlerStep`), the scheduler is done step by
  step.
  Its second part is ReservationHasOwner for any number of
  jobs and nodes, with every interleaving of submissions, cancels, reports, losses
  and registrations. CPUs are counted by the jobs that claim them (`Claims`), for
  the accounting of a node used by two jobs (see *Double release*) is not that of
  its mark. The invariant `ResInv` says what makes an owner: what the calls'
  snapshots mean by the time they are used (`CallKnows`, `CancelKnows`: a report
  that found its job not ended will release it; a cancel's snapshot is of before
  the start or of after it), that a marked node and a lost one in the monitor's
  hands account for their job's CPUs (`MarkedIsKnown`), and that a job is reserved
  for once only and untouched until then (`ReservedOnce`), without which the CPUs
  of a second reservation would have no claim.
- **`QuietProofs`**: three properties of `Spec` that are false in general (sections
  3 and 4), each proved from a hypothesis on the constants that excludes what
  breaks it, for any number of jobs and nodes.
  LostNodeIsFree needs `LossesApart`: at most one node can fall silent, or no job
  has two nodes. Then two records of one reap never name the same job
  (`DeadApart`), so that `seen` skips nobody, and an offline node that is still
  marked is in the monitor's hands (`LostInHand`); that a mark is of a job whose
  gang has the node (`MarkedInGang`) ties both to the table.
  NoLostWakeup needs `QuietCluster`: nobody cancels and no node falls silent, for
  CancelJob of a queued job and the monitor do not kick. What the scheduler
  peeked and selected is then still true when it acts on it (`StillQueued`,
  `StaysFree`), so it gives up only over a job that does not fit, and whoever
  frees or adds a node after that still has its kick to give, or has given it
  (`Awake`, with `WillKick`).
  RunningHoldsGang needs `SingleNodeJobs` as well, for a gang of two may be released
  twice: in `SoloInv` the one report of a job's node is what frees it, and until
  then the mark is the job's (`ReportsHold`, `PlacedMarked`). The hypotheses are
  those of the runs: `lost_gang` has one silent node, `cluster` no cancels, no
  silent node and jobs of one node.
- **`MonitorProofs`**: under `MonSpec`, MonTypeOK, and ImplementsLateFlag for any
  timeout, intervals and channel size. The invariant `MonInv` adds that agents
  that are up and the senders of waiting beats have registered, without which
  a beat could touch an unknown node; each action then maps to one of
  `Registry`'s or to none (`StepRefines`). What is proved of `Controller` thus
  does not depend on how time is kept. `DeadNodesFound` is DeadIsOffline. Its
  invariant `ClockInv` bounds what the goroutine still owes: beats of a node
  that was cut off leave the channel in time (`OldBeatsLeave`), so the
  registry's clock for the node is behind by at most `Stall + Gap`
  (`AgeFollows`), and whenever a reap finds the node too young there is time
  left for the next one (`ReapInTime`, with `TillReap` for what is left).
  `LiveNodesOnline` is LiveIsOnline, under two hypotheses on the constants, both
  sharp: with two nodes that beat every unit TLC finds it violated with two
  slots and with a timeout of two. `RoomForBeats`: the channel has room for one
  beat of a node on top of all that the others can send between two of its
  own, which are more than they would if agents never started anew. `BeatsInTime`:
  the timeout covers the interval of beats and twice `Gap`. In `LiveInv`
  an agent that can reach the controller is known and stays so (`Known`), or has a
  beat waiting (`Waiting`), or its next one will find room (`Quiet`), or it came
  back to a full channel that is about to be emptied (`ShutOut`); the last three
  only for so long. That a beat finds room is a pigeonhole argument: the waiting
  beats can be dated such that no two are of one node and one unit (`SinceBeat`).
- **`ClientProofs`**: under `ClientSpec`, `JMSpec` (ClientsUseManagerRight),
  SubmissionOrderKept and ListingsAgree, for ids of any length, integers of any
  width and any readings of the clock. The invariant `ClientInv` ties a submission
  to the manager's record (`CallMeansJob`) and the queue to the order of answers
  (`QueueInOrder`, kept because calls only take jobs out, `BeforeKept`, or add one
  at the end that was not answered yet, `JoinsLast`). For listings, `JobLess` is
  shown to be a strict order that is total on distinct ids, by string order alone
  where stamps are equal; a stored job's stamp does not change, so of two jobs in
  two listings the same one is the lesser. That a listing of any set of jobs exists,
  so that the second of two is never missing, is shown by ranks (`ListingExists`).
- **`ClusterProofs`**: under `ClusterSpec`, with any number of
  nodes, jobs, streams, restarts and faults, AgentTypeOK, SlotNamesProcess and
  CompletedMeansRan. The argument for the last follows one assignment: it is sent
  once (`SentOnce`: what dispatchWork has still to send no node has), waits in
  one place of its node's mail however streams are replaced and drained
  (`MailOnce`), and is gone from there once there is a task (`NotTwice`); so a
  task never starts over, its process's success is final, only a task that saw
  it reports it (`GoodTask`), and only such reports are counted
  (`SuccessIsReal`). Because real agents are one environment of the controller,
  the controller's and the hub's invariants carry over (`ControllerInCluster`,
  `ClusterUsesHub`), and so does the refinement (`ClusterGangOutcome`).
  `NothingSlips` is OwedIsInHand: the part of each node of a running job is handed
  on from dispatchWork to the mail (`LeftIsSent`, `SendStays`), from the mail to
  a task (`MailStays`), from the task to a report (`WorkStays`) and from there
  to the manager (`ReportWaits`, `ReportArrives`), or enters `lost` at the step
  that drops it; while the job runs its gang stays and reports that are in stay
  in (`RunningKeeps`).
  With the hypotheses of `QuietProofs`, RunningHoldsGang and NoLostWakeup hold
  here too (`QuietInCluster`). `NoStrayProgram` is ProgramsAreOwed, which needs
  no hypothesis: cancels, losses, gangs of any size and agents taken for dead
  included. A task's job was started on its node, and a node's report comes from
  its one task when the process is gone (`AliveIsOwed`).
  Last, `OnlyForCause` is StoppedForCause, under `MCSpec` of MCAgent, where
  anybody may dispatch and cancel at any time: the word to stop a job is followed from the
  cancel entry and the mail to the answer of a heartbeat (`WordsOnly`), and
  Stop acts only on the job that has the slot, whose task has begun
  (`EndsOnly`); that each job is dispatched to a node once (`DispatchedOnce`)
  keeps a word from meeting a second task of the same job.
  `OnlyTheGivenUpStop` is StoppedIfGivenUp, the same with the real controller: a
  context is cancelled only if its own job was cancelled or has failed, or its
  agent is going down. Whoever is about to notify has ended its job before (`TellersKnow`: CancelJob
  and the monitor in the manager's own call, ReportJobStatus by looking at the
  job again), no job comes back from being cancelled or failed (`GivenStays`),
  so all words on their way are of such jobs.

Every invariant and every safety property of steps that a run checks is thus a
theorem, where needed under the hypotheses named. Only model-checked is liveness
(QueueDrains, JobsEnd, CancelReaches, EndedIsReported), which is out of the
prover's reach together with ENABLED.

## 6. Not modelled

Generated protobuf code, flag parsing and printing, the conversion of commands,
environments and timestamps, environment merging and texts: they decide
nothing the properties speak of. `UpdateNode` and `MarkNodeOffline` have no
caller outside tests. The error branch of dispatchWork is unreachable. A
controller restart loses all state by design, nothing is persisted; with it go
the agents' registrations after NotFound and the reuse of job ids. The
controller's graceful stop waits for streams that end with their agents, and is
left out. What an orphaned program does after its agent is gone is of no
account to the model beyond its being there.

## 7. Plan

1. *Done*: job manager, registry, hub, scheduler, handlers and reaper; monitor
   with its clock; agent and executor; controller and agents composed; clients.
   Proofs: manager, hub with its mail, clients, monitor, controller with its
   reservations, agents, and the whole.
2. A run of `cluster` with cancels and two nodes (the theorems hold for it, its
   states are too many for the bounds of the runs here).
