------------------------------ MODULE JobManager ------------------------------
(***************************************************************************)
(* internal/job: the job state machine (job.go) and the JobManager that    *)
(* owns every job (manager.go).  Each public method of the manager runs    *)
(* under m.mu from its first read to its last write, so each is one        *)
(* action.  A call the code answers with an error and no change of state   *)
(* is an action that is not enabled.                                       *)
(*                                                                         *)
(* Job records keep what the rest of the system decides on: status, the    *)
(* resource request, the assigned nodes and the exit code.  Command, args, *)
(* env, timestamps and error texts are left out.  AssignedNodeIDs is a     *)
(* set: SelectGang takes the ids from a map, so they are distinct.         *)
(***************************************************************************)
EXTENDS Ids, Sequences, SequencesExt

CONSTANTS
  Specs,      \* resource requests a client may submit, invalid ones included
  ExitCodes,  \* exit codes a node may report
  NoReport    \* what reports[job][node] is before the node has reported

ASSUME SpecsAssumption  == Specs \subseteq [nodes : Int, cpus : Int]
ASSUME ExitsAssumption  == ExitCodes \subseteq Int /\ NoReport \notin Int

VARIABLES
  jobs,       \* m.jobs; status "absent" for an id the map does not hold
  pending,    \* m.pending, FIFO of job ids awaiting scheduling
  reports     \* m.reports; a deleted or empty inner map is all NoReport

jmVars == <<jobs, pending, reports>>

-------------------------------------------------------------------------------
(* job.go *)

Statuses == {"pending", "running", "completed", "failed", "cancelled"}

Terminal(s) == s \in {"completed", "failed", "cancelled"}

\* ResourceRequest.Validate, reached through Spec.Validate.
Validate(spec) == spec.nodes >= 1 /\ spec.cpus >= 1

\* Any job that has left the queue may still be given an outcome.
MutCanTransition(from, to) ==
  \/ from = "pending" /\ to \in {"running", "cancelled"}
  \/ from # "pending" /\ to \in {"completed", "failed", "cancelled"}

CanTransition(from, to) ==
  \/ from = "pending" /\ to \in {"running", "cancelled"}
  \/ from = "running" /\ to \in {"completed", "failed", "cancelled"}

NoSpec == [nodes |-> 0, cpus |-> 0]
NoJobRecord == [status |-> "absent", spec |-> NoSpec, assigned |-> {}, exit |-> 0]

\* job.New
NewJob(spec) == [status |-> "pending", spec |-> spec, assigned |-> {}, exit |-> 0]

-------------------------------------------------------------------------------
(* manager.go *)

NoReports == [n \in Nodes |-> NoReport]

JMInit ==
  /\ jobs    = [j \in JobIds |-> NoJobRecord]
  /\ pending = <<>>
  /\ reports = [j \in JobIds |-> NoReports]

\* Swaps the last element into the hole instead of shifting the tail left.
MutRemovePending(q, id) ==
  IF Contains(q, id)
    THEN Front(ReplaceAt(q, SelectInSeq(q, LAMBDA v : v = id), Last(q)))
    ELSE q

removePending(q, id) == RemoveFirst(q, id)

HasReported(id) == {n \in Nodes : reports[id][n] # NoReport}

\* job.Transition(to) on the stored job, with the exit code the Mark* caller sets.
Finish(id, to, exit) ==
  /\ CanTransition(jobs[id].status, to)
  /\ jobs'    = [jobs EXCEPT ![id].status = to, ![id].exit = exit]
  /\ reports' = [reports EXCEPT ![id] = NoReports]

\* Puts the new job in front.
MutSubmit(id, spec) ==
  /\ NewJob(spec).status = "pending"
  /\ jobs[id].status = "absent"
  /\ jobs'    = [jobs EXCEPT ![id] = NewJob(spec)]
  /\ pending' = <<id>> \o pending
  /\ UNCHANGED reports

Submit(id, spec) ==
  /\ NewJob(spec).status = "pending"
  /\ jobs[id].status = "absent"
  /\ jobs'    = [jobs EXCEPT ![id] = NewJob(spec)]
  /\ pending' = Append(pending, id)
  /\ UNCHANGED reports

\* PeekPendingJob: the job at the head of the queue.
HasPending  == pending # <<>>
PeekPending == Head(pending)

\* Leaves the started job on the queue.
MutMarkRunning(id, gang) ==
  /\ CanTransition(jobs[id].status, "running")
  /\ jobs'    = [jobs EXCEPT ![id].status = "running", ![id].assigned = gang]
  /\ reports' = [reports EXCEPT ![id] = NoReports]
  /\ UNCHANGED pending

MarkRunning(id, gang) ==
  /\ CanTransition(jobs[id].status, "running")
  /\ jobs'    = [jobs EXCEPT ![id].status = "running", ![id].assigned = gang]
  /\ pending' = removePending(pending, id)
  /\ reports' = [reports EXCEPT ![id] = NoReports]

MarkCompleted(id, exit) == Finish(id, "completed", exit) /\ UNCHANGED pending

MarkFailed(id, exit) == Finish(id, "failed", exit) /\ UNCHANGED pending

\* Writes a status of its own, past Transition.
MutFailRunningJob(id) ==
  /\ jobs[id].status = "running"
  /\ jobs'    = [jobs EXCEPT ![id].status = "lost", ![id].exit = 1]
  /\ reports' = [reports EXCEPT ![id] = NoReports]
  /\ UNCHANGED pending

\* Node loss.  The caller learns the assignment; ok is "the job was running".
FailRunningJob(id) ==
  /\ jobs[id].status = "running"
  /\ Finish(id, "failed", 1)
  /\ UNCHANGED pending

\* Cancel; the caller must signal the nodes iff the job was running.
Cancel(id) ==
  /\ CanTransition(jobs[id].status, "cancelled")
  /\ jobs' = [jobs EXCEPT ![id].status = "cancelled"]
  /\ IF jobs[id].status = "pending"
       THEN pending' = removePending(pending, id) /\ UNCHANGED reports
       ELSE reports' = [reports EXCEPT ![id] = NoReports] /\ UNCHANGED pending

\* Counts the reports before the new one is stored.
MutReportComplete(id, n) ==
  Cardinality(HasReported(id)) >= Cardinality(jobs[id].assigned)

\* len(reports) >= len(job.AssignedNodeIDs), the report of node n stored.
ReportComplete(id, n) ==
  Cardinality(HasReported(id) \cup {n}) >= Cardinality(jobs[id].assigned)

\* A report of a job that is not running, or a second one of the same node,
\* is acknowledged and ignored.
IgnoreReport(id, n) ==
  /\ jobs[id].status # "absent"
  /\ \/ jobs[id].status # "running"
     \/ n \in jobs[id].assigned /\ n \in HasReported(id)
  /\ UNCHANGED jmVars

\* The first report of an assigned node.  A failure fails the job at once; the
\* last success completes it with the largest exit code seen, starting from 0.
AcceptReport(id, n, failed, exit) ==
  /\ jobs[id].status = "running"
  /\ n \in jobs[id].assigned
  /\ n \notin HasReported(id)
  /\ UNCHANGED pending
  /\ \/ failed /\ Finish(id, "failed", exit)
     \/ /\ ~failed
        /\ ~ReportComplete(id, n)
        /\ reports' = [reports EXCEPT ![id][n] = exit]
        /\ UNCHANGED jobs
     \/ /\ ~failed
        /\ ReportComplete(id, n)
        /\ LET exits == {0, exit} \cup {reports[id][m] : m \in HasReported(id)}
           IN  \E maxExit \in exits :
                 /\ \A e \in exits : e <= maxExit
                 /\ Finish(id, "completed", maxExit)

ReportNodeEvent(id, n, failed, exit) ==
  IgnoreReport(id, n) \/ AcceptReport(id, n, failed, exit)

-------------------------------------------------------------------------------
(* The manager under any sequence of the calls the controller makes.  Callers *)
(* validate a spec before Submit and never start a job on an empty gang       *)
(* (specFromProto, SelectGang).  ApiNext adds MarkCompleted, which the        *)
(* package exports and nothing calls.                                         *)

JMWork ==
  \E id \in JobIds :
    \/ \E gang \in (SUBSET Nodes) \ {{}} : MarkRunning(id, gang)
    \/ \E exit \in ExitCodes : MarkFailed(id, exit)
    \/ FailRunningJob(id)
    \/ Cancel(id)
    \/ \E n \in Nodes, failed \in BOOLEAN, exit \in ExitCodes :
         ReportNodeEvent(id, n, failed, exit)

JMNext == JMWork \/ \E id \in JobIds, spec \in Specs : Validate(spec) /\ Submit(id, spec)

JMSpec == JMInit /\ [][JMNext]_jmVars

ApiNext == JMNext \/ \E id \in JobIds, exit \in ExitCodes : MarkCompleted(id, exit)

ApiSpec == JMInit /\ [][ApiNext]_jmVars

-------------------------------------------------------------------------------
(* Properties *)

JobRecords == [status   : Statuses \cup {"absent"},
               spec     : Specs \cup {NoSpec},
               assigned : SUBSET Nodes,
               exit     : Int]

\* Type invariant of the manager's three tables.
JMTypeOK ==
  /\ jobs \in [JobIds -> JobRecords]
  /\ pending \in Seq(JobIds)
  /\ reports \in [JobIds -> [Nodes -> ExitCodes \cup {NoReport}]]

NoDuplicates(q) == \A i, k \in 1..Len(q) : q[i] = q[k] => i = k

\* The FIFO holds each pending job exactly once and nothing else: a job whose
\* status left pending on one path (MarkRunning, Cancel) was also taken off the
\* queue on that path, so the scheduler can never meet it there again, and no
\* pending job has fallen off the queue and been forgotten.
QueueIsPending ==
  /\ \A id \in JobIds : jobs[id].status = "pending" <=> Contains(pending, id)
  /\ NoDuplicates(pending)

\* m.reports holds reports of assigned nodes of running jobs only, and a running
\* job always waits for at least one of its nodes: a job whose whole gang has
\* reported is never left running, and no stale report survives to be counted
\* for the job again.
SomeoneStillOwes ==
  \A id \in JobIds :
    IF jobs[id].status = "running"
      THEN HasReported(id) \subseteq jobs[id].assigned /\ HasReported(id) # jobs[id].assigned
      ELSE HasReported(id) = {}

\* What r has from q is in q's order, and what r has besides comes last.
KeepsOrder(q, r) ==
  \A i, k \in 1..Len(r) :
    i < k /\ Contains(q, r[k]) =>
      \E a, b \in 1..Len(q) : a < b /\ q[a] = r[i] /\ q[b] = r[k]

\* First come, first served: two jobs that stay queued keep their relative
\* order, and a job that joins does so behind every job already there, however
\* calls that take jobs out of the middle (Cancel) interleave with submissions.
FirstComeFirstServed == [][KeepsOrder(pending, pending')]_jmVars

\* What a client has once read as a final outcome stays true: late reports,
\* cancels and node losses leave a completed, failed or cancelled job's record
\* (status, exit code, assignment) as it is.
OutcomeIsFinal ==
  [][\A id \in JobIds : Terminal(jobs[id].status) => jobs'[id] = jobs[id]]_jmVars

\* The manager counts reports; what it implements is GangOutcome, where the set
\* of nodes that still owe one decides.  A running job's worst exit code so far
\* is the largest recorded one, and 0 without any.
MaxExit(id) ==
  LET exits == {0} \cup {reports[id][m] : m \in HasReported(id)}
  IN  CHOOSE e \in exits : \A x \in exits : x <= e

PhaseOf == [id \in JobIds |-> jobs[id].status]
OwedOf  == [id \in JobIds |-> IF jobs[id].status = "running"
                                THEN jobs[id].assigned \ HasReported(id) ELSE {}]
WorstOf == [id \in JobIds |-> IF jobs[id].status = "running"
                                THEN MaxExit(id) ELSE jobs[id].exit]

GO == INSTANCE GangOutcome WITH phase <- PhaseOf, owed <- OwedOf, worst <- WorstOf

\* A job completes exactly when the last node of its gang delivers its success,
\* with the worst exit code of the whole gang, whatever the order, duplication
\* and lateness of the reports.
ImplementsGangOutcome == GO!GOSpec
===============================================================================
