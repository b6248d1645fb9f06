--------------------------------- MODULE Client ---------------------------------
(***************************************************************************)
(* What a user of slctl sees (cmd/slctl): SubmitJob and ListJobs of        *)
(* internal/controller/server.go with the conversions of convert.go, above *)
(* the job manager.                                                        *)
(*                                                                         *)
(* A submission that is accepted is named by the job id it draws.  Between *)
(* two of its steps other submissions run, so three orders exist: that of  *)
(* the ids, that of SubmittedAt, and that of the queue.  SubmittedAt is    *)
(* the wall clock, which may be set back or stand still between two        *)
(* readings.  A request the controller turns away leaves no trace and is   *)
(* not a step.  Command, args, env, limits and the layout of what slctl    *)
(* prints are left out.                                                    *)
(***************************************************************************)
EXTENDS JobManager

CONSTANTS
  Asks,       \* --nodes and --cpus-per-node as typed
  Requests,   \* the statuses a listing may ask for, as protobuf numbers
  Half,       \* 2^31: the protobuf int32 holds -Half to Half - 1
  Times,      \* what the wall clock may show
  FirstId,    \* the sequence number before the first submission
  Tens,       \* powers of ten
  Longest     \* the one with as many digits as the longest id

ASSUME ClientAssumption ==
  /\ Asks \subseteq [nodes : Int, cpus : Int]
  /\ Requests \subseteq SUBSET Nat
  /\ Half \in Nat \ {0}
  /\ Times \subseteq Int
  /\ FirstId \in Nat
  /\ Tens \subseteq Nat /\ Longest \in Nat
  /\ \A j \in JobIds : \E p \in Tens : j * p \in Longest..(10 * Longest - 1)

VARIABLES
  idSeq,      \* s.idSeq
  call        \* per submission: where it is, what was asked, SubmittedAt, and
              \* the submissions that had been answered when it drew its id

clientVars == <<jmVars, idSeq, call>>

NoCall == [pc |-> "none", ask |-> NoSpec, at |-> 0, after |-> {}]

ClientInit ==
  /\ JMInit
  /\ idSeq = FirstId
  /\ call = [j \in JobIds |-> NoCall]

-------------------------------------------------------------------------------
(* Conversions *)

\* Go's int32(x): the low bits, as two's complement.
int32(x) == ((x + Half) % (2 * Half)) - Half

\* runSubmit's narrowing and specFromProto's widening.
specFromProto(ask) == [nodes |-> int32(ask.nodes), cpus |-> int32(ask.cpus)]

ASSUME RequestsAssumption ==
  \A ask \in Asks : Validate(specFromProto(ask)) => specFromProto(ask) \in Specs

\* JobStatus in scheduler.proto, where 0 is UNSPECIFIED.
jobStatusToProto(s) ==
  CASE s = "pending" -> 1 [] s = "running" -> 2 [] s = "completed" -> 3
    [] s = "failed" -> 4 [] s = "cancelled" -> 5

\* The filter ListJobs builds: statuses it does not know are skipped.
jobStatusFromProto(request) == {s \in Statuses : jobStatusToProto(s) \in request}

-------------------------------------------------------------------------------
(* SubmitJob: draw an id, stamp the job, store it, answer *)

\* Validates the flags before they are narrowed.
MutSubmitDraw(j) ==
  /\ j = idSeq + 1
  /\ idSeq' = j
  /\ \E ask \in Asks :
       /\ Validate(ask)
       /\ call' = [call EXCEPT ![j] = [pc |-> "drawn", ask |-> ask, at |-> 0,
                                       after |-> {k \in JobIds : call[k].pc = "answered"}]]
  /\ UNCHANGED jmVars

SubmitDraw(j) ==
  /\ j = idSeq + 1
  /\ idSeq' = j
  /\ \E ask \in Asks :
       /\ Validate(specFromProto(ask))
       /\ call' = [call EXCEPT ![j] = [pc |-> "drawn", ask |-> ask, at |-> 0,
                                       after |-> {k \in JobIds : call[k].pc = "answered"}]]
  /\ UNCHANGED jmVars

\* job.New: time.Now().UTC() has no monotonic reading, so any time may be shown.
SubmitNew(j) ==
  /\ call[j].pc = "drawn"
  /\ \E now \in Times : call' = [call EXCEPT ![j].pc = "new", ![j].at = now]
  /\ UNCHANGED <<jmVars, idSeq>>

SubmitStore(j) ==
  /\ call[j].pc = "new"
  /\ Submit(j, specFromProto(call[j].ask))
  /\ call' = [call EXCEPT ![j].pc = "stored"]
  /\ UNCHANGED idSeq

SubmitAnswer(j) ==
  /\ call[j].pc = "stored"
  /\ call' = [call EXCEPT ![j].pc = "answered"]
  /\ UNCHANGED <<jmVars, idSeq>>

-------------------------------------------------------------------------------
(* ListJobs *)

\* An id brought to the length of the longest with zeros.
Padded(i) == CHOOSE x \in {i * p : p \in Tens} : x \in Longest..(10 * Longest - 1)

\* String order of "job-<i>" and "job-<k>".
IdLess(i, k) ==
  \/ Padded(i) < Padded(k)
  \/ Padded(i) = Padded(k) /\ i < k

\* By time alone.
MutJobLess(i, k) == call[i].at < call[k].at

\* sortJobs' order.
JobLess(i, k) ==
  \/ call[i].at < call[k].at
  \/ call[i].at = call[k].at /\ IdLess(i, k)

\* List with its filter; none means all.
Listed(filter) ==
  {j \in JobIds : /\ jobs[j].status # "absent"
                  /\ filter = {} \/ jobs[j].status \in filter}

\* What sort.Slice may make of the jobs: List walks a map, and the sort is not
\* stable, so jobs of which neither is less come in any order.
sortJobs(ids) ==
  {s \in [1..Cardinality(ids) -> ids] :
     \A k \in DOMAIN s : \A i \in 1..(k - 1) : s[i] # s[k] /\ ~JobLess(s[k], s[i])}

\* The answers ListJobs may give: the jobs shown, in order.
ListJobs(request) == sortJobs(Listed(jobStatusFromProto(request)))

Listings == UNION {ListJobs(request) : request \in Requests}

-------------------------------------------------------------------------------
(* The rest of the system works on the jobs meanwhile. *)
ClientNext ==
  \/ \E j \in JobIds : SubmitDraw(j) \/ SubmitNew(j) \/ SubmitStore(j) \/ SubmitAnswer(j)
  \/ JMWork /\ UNCHANGED <<idSeq, call>>

ClientSpec == ClientInit /\ [][ClientNext]_clientVars

-------------------------------------------------------------------------------
(* Properties *)

Before(q, a, b) == \E i, k \in 1..Len(q) : i < k /\ q[i] = a /\ q[k] = b

\* Who submits a job after another one was answered is served after it: the earlier
\* job stands before the later one for as long as both are queued, whatever
\* submissions of others run in between, whatever jobs leave the middle of the queue,
\* and whatever the clock shows.
SubmissionOrderKept ==
  \A k \in JobIds : \A j \in call[k].after :
    Contains(pending, j) /\ Contains(pending, k) => Before(pending, j, k)

\* Two listings never show two jobs in different orders, whatever statuses they
\* were asked for, whatever happened to the jobs between them, and however the jobs
\* came out of the map: also jobs with the same SubmittedAt, and a job that was
\* stored later with an earlier one.  (No job leaves the table, and a listing of all
\* is always one of those asked for, so agreeing with the next state is enough.)
ListingsAgree ==
  [][\A s \in Listings, t \in Listings' :
       \A i, k \in DOMAIN s : i < k => ~Before(t, s[k], s[i])]_clientVars

\* Whatever is typed, SubmitJob gives the manager fresh ids and valid requests only:
\* flags are narrowed first and validated then, so one that wraps around to zero or
\* below is turned away.  (One that wraps around to a positive number is a request
\* for that number, although slctl prints the flag as typed.)
ClientsUseManagerRight == JMSpec
===============================================================================
