--------------------------- MODULE JobManagerProofs ---------------------------
(***************************************************************************)
(* Proofs about JobManager for every set of jobs, nodes, specs and exit    *)
(* codes: the type invariant, the two data-structure invariants, the two   *)
(* action properties, and that the manager implements GangOutcome.         *)
(***************************************************************************)
EXTENDS JobManager, FiniteSetTheorems, SequenceTheorems, WellFoundedInduction, TLAPS

-------------------------------------------------------------------------------
(* The queue helper *)

\* A non-empty set of naturals has the least element Min picks.
LEMMA MinIsLeast ==
  ASSUME NEW S, S \subseteq Nat, S # {}
  PROVE  Min(S) \in S /\ \A y \in S : Min(S) <= y
<1>1. PICK x \in S : \A y \in S : ~(<<y, x>> \in OpToRel(<, Nat))
  BY NatLessThanWellFounded, WFMin, Zenon
<1>2. \A y \in S : x <= y
  <2> TAKE y \in S
  <2>1. ~(y < x)
    BY <1>1 DEF OpToRel
  <2> QED BY <2>1
<1> QED BY <1>2 DEF Min

\* removePending closes the gap it leaves: it shifts everything behind the
\* first occurrence of id one place to the left (the append in manager.go).
LEMMA RemovePendingShifts ==
  ASSUME NEW S, NEW q \in Seq(S), NEW id, \E k \in 1..Len(q) : q[k] = id
  PROVE  \E p \in 1..Len(q) :
           /\ q[p] = id
           /\ removePending(q, id) \in Seq(S)
           /\ Len(removePending(q, id)) = Len(q) - 1
           /\ \A i \in 1..(Len(q) - 1) :
                removePending(q, id)[i] = IF i < p THEN q[i] ELSE q[i + 1]
<1> DEFINE I == {i \in 1..Len(q) : q[i] = id}
           p == Min(I)
           left == SubSeq(q, 1, p - 1)
           right == SubSeq(q, p + 1, Len(q))
<1>1. p \in I
  <2>1. I \subseteq Nat /\ I # {}
    OBVIOUS
  <2> HIDE DEF I
  <2> QED BY <2>1, MinIsLeast
<1>2. removePending(q, id) = left \o right
  BY <1>1 DEF removePending, RemoveFirst, RemoveAt, SelectInSeq
<1> HIDE DEF p
<1>a. p \in 1..Len(q) /\ q[p] = id /\ Len(q) \in Nat
  BY <1>1
<1>3. /\ left \in Seq(S)
      /\ Len(left) = p - 1
      /\ \A i \in 1..(p - 1) : left[i] = q[i]
  <2>1. \A i \in 1..(p - 1) : q[i] \in S
    BY <1>a
  <2> DEFINE n == p - 1
  <2>2. n \in Int /\ n >= 0
    BY <1>a
  <2>3. /\ SubSeq(q, 1, n) \in Seq(S)
        /\ Len(SubSeq(q, 1, n)) = IF 1 <= n THEN n - 1 + 1 ELSE 0
        /\ \A i \in 1..(n - 1 + 1) : SubSeq(q, 1, n)[i] = q[1 + i - 1]
    <3> HIDE DEF n
    <3> QED BY <2>1, <2>2, SubSeqProperties DEF n
  <2>4. \A i \in 1..n : i \in 1..(n - 1 + 1) /\ 1 + i - 1 = i
    BY <2>2
  <2> QED BY <2>2, <2>3, <2>4
<1>4. /\ right \in Seq(S)
      /\ Len(right) = Len(q) - p
      /\ \A i \in 1..(Len(q) - p) : right[i] = q[p + i]
  <2>1. \A i \in (p + 1)..Len(q) : q[i] \in S
    BY <1>a
  <2> DEFINE m == p + 1
             n == Len(q)
  <2>2. m \in Int /\ n \in Int /\ m <= n + 1
    BY <1>a
  <2>3. /\ SubSeq(q, m, n) \in Seq(S)
        /\ Len(SubSeq(q, m, n)) = IF m <= n THEN n - m + 1 ELSE 0
        /\ \A i \in 1..(n - m + 1) : SubSeq(q, m, n)[i] = q[m + i - 1]
    <3> HIDE DEF m, n
    <3> QED BY <2>1, <2>2, SubSeqProperties DEF m, n
  <2>4. \A i \in 1..(n - p) : i \in 1..(n - m + 1) /\ m + i - 1 = p + i
    BY <1>a, <2>2
  <2> QED BY <1>a, <2>2, <2>3, <2>4
<1> HIDE DEF left, right
<1>5. /\ left \o right \in Seq(S)
      /\ Len(left \o right) = Len(q) - 1
      /\ \A i \in 1..(Len(q) - 1) :
           (left \o right)[i] = IF i < p THEN q[i] ELSE q[i + 1]
  <2>1. \A i \in 1..(Len(left) + Len(right)) :
          (left \o right)[i] = IF i <= Len(left) THEN left[i] ELSE right[i - Len(left)]
    BY <1>3, <1>4, ConcatProperties
  <2>2. left \o right \in Seq(S) /\ Len(left \o right) = Len(left) + Len(right)
    BY <1>3, <1>4, ConcatProperties
  <2> DEFINE c == left \o right
  <2>3. ASSUME NEW i \in 1..(Len(q) - 1), i < p
        PROVE  c[i] = q[i]
    BY <1>a, <1>3, <1>4, <2>1, <2>3
  <2>4. ASSUME NEW i \in 1..(Len(q) - 1), ~(i < p)
        PROVE  c[i] = q[i + 1]
    <3>1. /\ i \in 1..(Len(left) + Len(right)) /\ ~(i <= Len(left))
          /\ i - Len(left) \in 1..(Len(q) - p) /\ p + (i - Len(left)) = i + 1
      BY <1>a, <1>3, <1>4, <2>4
    <3>2. c[i] = right[i - Len(left)]
      BY <2>1, <3>1
    <3>3. right[i - Len(left)] = q[p + (i - Len(left))]
      BY <1>4, <3>1
    <3> QED BY <3>1, <3>2, <3>3
  <2>5. Len(left) + Len(right) = Len(q) - 1
    BY <1>a, <1>3, <1>4
  <2> HIDE DEF c
  <2>6. \A i \in 1..(Len(q) - 1) : c[i] = IF i < p THEN q[i] ELSE q[i + 1]
    BY <2>3, <2>4
  <2> QED BY <2>2, <2>5, <2>6 DEF c
<1> HIDE DEF left, right
<1> QED BY <1>a, <1>2, <1>5

\* On a queue without duplicates, removePending takes out id and nothing else,
\* leaves no duplicate and keeps the order of the rest.
LEMMA RemovePendingExact ==
  ASSUME NEW S, NEW q \in Seq(S), NEW id, NoDuplicates(q)
  PROVE  /\ removePending(q, id) \in Seq(S)
         /\ \A x : Contains(removePending(q, id), x) <=> x # id /\ Contains(q, x)
         /\ NoDuplicates(removePending(q, id))
         /\ KeepsOrder(q, removePending(q, id))
<1> DEFINE r == removePending(q, id)
<1>1. CASE Contains(q, id)
  <2>1. PICK p \in 1..Len(q) :
          /\ q[p] = id
          /\ removePending(q, id) \in Seq(S)
          /\ Len(removePending(q, id)) = Len(q) - 1
          /\ \A i \in 1..(Len(q) - 1) :
               removePending(q, id)[i] = IF i < p THEN q[i] ELSE q[i + 1]
    BY <1>1, RemovePendingShifts, Zenon DEF Contains
  <2> HIDE DEF r
  <2>a. /\ r \in Seq(S) /\ Len(r) = Len(q) - 1 /\ Len(q) \in Nat
        /\ \A i \in 1..(Len(q) - 1) : r[i] = IF i < p THEN q[i] ELSE q[i + 1]
    BY <2>1 DEF r
  <2> DEFINE src(i) == IF i < p THEN i ELSE i + 1
  <2>2. \A i \in 1..Len(r) : src(i) \in 1..Len(q) /\ src(i) # p /\ r[i] = q[src(i)]
    BY <2>1, <2>a
  <2>3. \A i, k \in 1..Len(r) : i < k => src(i) < src(k)
    BY <2>1, <2>a
  <2>4. ASSUME NEW x, x # id, NEW i \in 1..Len(q), q[i] = x
        PROVE  \E k \in 1..Len(r) : r[k] = x
    <3>1. CASE i < p
      BY <2>1, <2>a, <2>4, <3>1
    <3>2. CASE i > p
      <4>1. i - 1 \in 1..Len(r) /\ ~(i - 1 < p) /\ (i - 1) + 1 = i
        BY <2>1, <2>a, <3>2
      <4>2. r[i - 1] = q[i]
        BY <2>a, <4>1
      <4> QED BY <2>4, <4>1, <4>2
    <3> QED BY <2>1, <2>4, <3>1, <3>2
  <2>5. ASSUME NEW i \in 1..Len(r)
        PROVE  r[i] # id /\ \E k \in 1..Len(q) : q[k] = r[i]
    <3> HIDE DEF src
    <3>1. src(i) \in 1..Len(q) /\ src(i) # p /\ r[i] = q[src(i)]
      BY <2>2
    <3>2. q[src(i)] # q[p]
      BY <3>1 DEF NoDuplicates
    <3> QED BY <2>1, <3>1, <3>2
  <2>6. \A x : Contains(r, x) <=> x # id /\ Contains(q, x)
    BY <2>4, <2>5 DEF Contains
  <2>7. NoDuplicates(r)
    <3> SUFFICES ASSUME NEW i \in 1..Len(r), NEW k \in 1..Len(r), r[i] = r[k]
                 PROVE  i = k
      BY DEF NoDuplicates
    <3>1. src(i) = src(k)
      <4> HIDE DEF src
      <4> QED BY <2>2 DEF NoDuplicates
    <3>2. src(i) \in Int /\ i \in Int /\ k \in Int
      BY <2>1, <2>a
    <3> HIDE DEF src
    <3>3. ~(i < k) /\ ~(k < i)
      BY <2>3, <3>1, <3>2
    <3> QED BY <3>2, <3>3
  <2>8. KeepsOrder(q, r)
    <3> HIDE DEF src
    <3> QED BY <2>2, <2>3 DEF KeepsOrder
  <2> QED BY <2>a, <2>6, <2>7, <2>8 DEF r
<1>2. CASE ~Contains(q, id)
  <2>1. r = q
    BY <1>2 DEF removePending, RemoveFirst, Contains
  <2>2. KeepsOrder(q, q)
    BY DEF KeepsOrder
  <2>3. \A x : Contains(q, x) => x # id
    BY <1>2
  <2> QED BY <2>1, <2>2, <2>3
<1> QED BY <1>1, <1>2

\* Appending an id the queue does not hold.
LEMMA AppendFresh ==
  ASSUME NEW S, NEW q \in Seq(S), NEW id \in S, NoDuplicates(q), ~Contains(q, id)
  PROVE  /\ Append(q, id) \in Seq(S)
         /\ \A x : Contains(Append(q, id), x) <=> x = id \/ Contains(q, x)
         /\ NoDuplicates(Append(q, id))
         /\ KeepsOrder(q, Append(q, id))
<1> DEFINE r == Append(q, id)
<1>1. /\ r \in Seq(S) /\ Len(r) = Len(q) + 1 /\ Len(q) \in Nat
      /\ r[Len(q) + 1] = id
      /\ \A i \in 1..Len(q) : r[i] = q[i]
  BY AppendProperties
<1> HIDE DEF r
<1>2. \A i : i \in 1..Len(r) <=> i \in 1..Len(q) \/ i = Len(q) + 1
  BY <1>1
<1>3. \A x : Contains(r, x) <=> x = id \/ Contains(q, x)
  BY <1>1, <1>2 DEF Contains
<1>4. NoDuplicates(r)
  BY <1>1, <1>2 DEF NoDuplicates, Contains
<1>5. KeepsOrder(q, r)
  <2> SUFFICES ASSUME NEW i \in 1..Len(r), NEW k \in 1..Len(r), i < k, Contains(q, r[k])
               PROVE  \E a, b \in 1..Len(q) : a < b /\ q[a] = r[i] /\ q[b] = r[k]
    BY DEF KeepsOrder
  <2>1. k \in 1..Len(q)
    BY <1>1, <1>2
  <2>2. i \in 1..Len(q)
    BY <1>1, <2>1
  <2> QED BY <1>1, <2>1, <2>2
<1> QED BY <1>1, <1>3, <1>4, <1>5 DEF r

-------------------------------------------------------------------------------
(* The inductive invariant: the type invariant and the two table invariants   *)
(* need one another (the queue lemma needs a duplicate-free queue, the report *)
(* count needs reports of assigned nodes only).                               *)

JMInv == JMTypeOK /\ QueueIsPending /\ SomeoneStillOwes

\* The three tables are empty at the start.
LEMMA JMInitInv == JMInit => JMInv
<1> SUFFICES ASSUME JMInit PROVE JMInv
  OBVIOUS
<1>1. JMTypeOK
  BY DEF JMInit, JMTypeOK, JobRecords, NoJobRecord, NoSpec, NoReports
<1>2. QueueIsPending
  BY DEF JMInit, QueueIsPending, NoJobRecord, Contains, NoDuplicates
<1>3. SomeoneStillOwes
  BY DEF JMInit, SomeoneStillOwes, NoJobRecord, HasReported, NoReports
<1> QED BY <1>1, <1>2, <1>3 DEF JMInv

\* Updates of one job's record, and of its reports, keep the tables typed.
LEMMA StartTyped ==
  ASSUME JMTypeOK, NEW id \in JobIds, NEW gang \in SUBSET Nodes
  PROVE  [jobs EXCEPT ![id].status = "running", ![id].assigned = gang] \in [JobIds -> JobRecords]
<1>1. [jobs[id] EXCEPT !.status = "running", !.assigned = gang] \in JobRecords
  BY DEF JMTypeOK, JobRecords, Statuses
<1> QED BY <1>1 DEF JMTypeOK

\* Ending a job keeps the tables typed.
LEMMA FinishTyped ==
  ASSUME JMTypeOK, NEW id \in JobIds, NEW st \in Statuses, NEW exit \in Int
  PROVE  [jobs EXCEPT ![id].status = st, ![id].exit = exit] \in [JobIds -> JobRecords]
<1>1. [jobs[id] EXCEPT !.status = st, !.exit = exit] \in JobRecords
  BY DEF JMTypeOK, JobRecords
<1> QED BY <1>1 DEF JMTypeOK

\* Cancelling a job keeps the tables typed.
LEMMA CancelTyped ==
  ASSUME JMTypeOK, NEW id \in JobIds
  PROVE  [jobs EXCEPT ![id].status = "cancelled"] \in [JobIds -> JobRecords]
<1>1. [jobs[id] EXCEPT !.status = "cancelled"] \in JobRecords
  BY DEF JMTypeOK, JobRecords, Statuses
<1> QED BY <1>1 DEF JMTypeOK

\* Dropping a job's reports keeps the tables typed.
LEMMA DropReportsTyped ==
  ASSUME JMTypeOK, NEW id \in JobIds
  PROVE  [reports EXCEPT ![id] = NoReports] \in [JobIds -> [Nodes -> ExitCodes \cup {NoReport}]]
BY DEF JMTypeOK, NoReports

\* Submit appends a fresh id.
LEMMA SubmitInv ==
  ASSUME JMInv, NEW id \in JobIds, NEW spec \in Specs, Submit(id, spec)
  PROVE  JMInv'
<1> USE DEF JMInv, Submit
<1>1. JMTypeOK'
  <2>2. NewJob(spec) \in JobRecords
    BY DEF JobRecords, Statuses, NewJob
  <2>3. jobs' \in [JobIds -> JobRecords]
    BY <2>2 DEF JMTypeOK
  <2>4. pending' \in Seq(JobIds)
    BY AppendProperties DEF JMTypeOK
  <2> QED BY <2>3, <2>4 DEF JMTypeOK
<1>2. QueueIsPending'
  <2>1. pending' \in Seq(JobIds) /\ NoDuplicates(pending')
        /\ \A x : Contains(pending', x) <=> x = id \/ Contains(pending, x)
    BY AppendFresh DEF JMTypeOK, QueueIsPending
  <2>3. \A j \in JobIds : jobs'[j].status = "pending" <=> jobs[j].status = "pending" \/ j = id
    BY DEF JMTypeOK, JobRecords, NewJob
  <2> QED BY <2>1, <2>3 DEF QueueIsPending
<1>3. SomeoneStillOwes'
  BY DEF JMTypeOK, JobRecords, SomeoneStillOwes, HasReported, NewJob, NoJobRecord
<1> QED BY <1>1, <1>2, <1>3

\* Steps that take id off the queue and out of pending keep QueueIsPending.
LEMMA DequeueQueue ==
  ASSUME JMInv, NEW id \in JobIds,
         \A j \in JobIds : jobs'[j].status = "pending" <=> j # id /\ jobs[j].status = "pending",
         pending' = removePending(pending, id)
  PROVE  pending' \in Seq(JobIds) /\ QueueIsPending'
<1>1. pending \in Seq(JobIds) /\ NoDuplicates(pending)
  BY DEF JMInv, JMTypeOK, QueueIsPending
<1>2. /\ pending' \in Seq(JobIds)
      /\ \A x : Contains(pending', x) <=> x # id /\ Contains(pending, x)
      /\ NoDuplicates(pending')
  BY <1>1, RemovePendingExact
<1> QED BY <1>2 DEF JMInv, QueueIsPending

\* MarkRunning starts with no report and a non-empty gang.
LEMMA MarkRunningInv ==
  ASSUME JMInv, NEW id \in JobIds, NEW gang \in (SUBSET Nodes) \ {{}}, MarkRunning(id, gang)
  PROVE  JMInv'
<1> USE DEF JMInv, MarkRunning
<1>1. \A j \in JobIds : jobs'[j].status = "pending" <=> j # id /\ jobs[j].status = "pending"
  BY DEF JMTypeOK, JobRecords
<1>2. pending' \in Seq(JobIds) /\ QueueIsPending'
  BY <1>1, DequeueQueue
<1>3. JMTypeOK'
  BY <1>2, StartTyped, DropReportsTyped DEF JMTypeOK
<1>4. SomeoneStillOwes'
  BY DEF JMTypeOK, JobRecords, SomeoneStillOwes, HasReported, NoReports
<1> QED BY <1>2, <1>3, <1>4

\* Every step that ends a running job drops its reports.
LEMMA FinishInv ==
  ASSUME JMInv, NEW id \in JobIds, NEW to \in {"completed", "failed"}, NEW exit \in Int,
         Finish(id, to, exit), pending' = pending
  PROVE  JMInv'
<1> USE DEF JMInv, Finish
<1>1. JMTypeOK'
  BY FinishTyped, DropReportsTyped DEF JMTypeOK, Statuses
<1>2. QueueIsPending'
  <2>1. \A j \in JobIds : jobs'[j].status = "pending" <=> jobs[j].status = "pending"
    BY DEF JMTypeOK, CanTransition
  <2> QED BY <2>1 DEF QueueIsPending
<1>3. SomeoneStillOwes'
  BY DEF JMTypeOK, JobRecords, SomeoneStillOwes, HasReported, NoReports
<1> QED BY <1>1, <1>2, <1>3

\* Cancel has one path for a queued job and one for a running job.
LEMMA CancelInv ==
  ASSUME JMInv, NEW id \in JobIds, Cancel(id)
  PROVE  JMInv'
<1> USE DEF JMInv, Cancel
<1>0. \A j \in JobIds : jobs'[j].status = IF j = id THEN "cancelled" ELSE jobs[j].status
  BY DEF JMTypeOK
<1>1. CASE jobs[id].status = "pending"
  <2>0. \A j \in JobIds : jobs'[j].status = "pending" <=> j # id /\ jobs[j].status = "pending"
    BY <1>0
  <2>1. pending' \in Seq(JobIds) /\ QueueIsPending'
    BY <1>1, <2>0, DequeueQueue
  <2>2. JMTypeOK'
    BY <1>1, <2>1, CancelTyped DEF JMTypeOK
  <2>3. SomeoneStillOwes'
    BY <1>1 DEF JMTypeOK, JobRecords, SomeoneStillOwes, HasReported
  <2> QED BY <2>1, <2>2, <2>3
<1>2. CASE jobs[id].status # "pending"
  <2>1. JMTypeOK'
    BY <1>2, CancelTyped, DropReportsTyped DEF JMTypeOK
  <2>2. QueueIsPending'
    <3>1. \A j \in JobIds : jobs'[j].status = "pending" <=> jobs[j].status = "pending"
      BY <1>0, <1>2
    <3> QED BY <1>2, <3>1 DEF QueueIsPending
  <2>3. SomeoneStillOwes'
    BY <1>2 DEF JMTypeOK, JobRecords, SomeoneStillOwes, HasReported, NoReports
  <2> QED BY <2>1, <2>2, <2>3
<1> QED BY <1>1, <1>2

\* The manager counts; the count reaches the gang's size exactly when the set of
\* nodes that have reported is the whole gang.
LEMMA CountIsCoverage ==
  ASSUME JMInv, NEW id \in JobIds, jobs[id].status = "running", NEW n \in jobs[id].assigned
  PROVE  ReportComplete(id, n) <=> HasReported(id) \cup {n} = jobs[id].assigned
<1> DEFINE A == jobs[id].assigned
           R == HasReported(id) \cup {n}
<1>1. A \subseteq Nodes /\ R \subseteq A
  BY DEF JMInv, JMTypeOK, JobRecords, SomeoneStillOwes
<1>2. IsFiniteSet(A) /\ Cardinality(A) \in Nat
  BY <1>1, NodesAssumption, FS_Subset, FS_CardinalityType
<1>3. Cardinality(R) <= Cardinality(A) /\ (Cardinality(A) = Cardinality(R) => A = R)
  BY <1>1, <1>2, FS_Subset
<1>4. Cardinality(R) \in Nat
  BY <1>1, <1>2, FS_Subset, FS_CardinalityType
<1> QED BY <1>2, <1>3, <1>4 DEF ReportComplete

\* The code a completed gang is given is an exit code.
LEMMA ExitsAreInts ==
  ASSUME JMInv, NEW id \in JobIds, NEW exit \in ExitCodes
  PROVE  {0, exit} \cup {reports[id][m] : m \in HasReported(id)} \subseteq Int
<1>1. \A m \in HasReported(id) : reports[id][m] \in ExitCodes
  BY DEF JMInv, JMTypeOK, HasReported
<1>2. exit \in Int /\ 0 \in Int /\ ExitCodes \subseteq Int
  BY ExitsAssumption
<1> QED BY <1>1, <1>2, Zenon

\* Reports: the ignored ones change nothing, the accepted ones end the job or
\* leave at least one node of the gang outstanding.
LEMMA ReportNodeEventInv ==
  ASSUME JMInv, NEW id \in JobIds, NEW n \in Nodes, NEW failed \in BOOLEAN,
         NEW exit \in ExitCodes, ReportNodeEvent(id, n, failed, exit)
  PROVE  JMInv'
<1>1. CASE IgnoreReport(id, n)
  BY <1>1 DEF IgnoreReport, jmVars, JMInv, JMTypeOK, QueueIsPending, SomeoneStillOwes, HasReported
<1>2. CASE AcceptReport(id, n, failed, exit)
  <2>0. exit \in Int
    BY ExitsAssumption
  <2>1. CASE failed /\ Finish(id, "failed", exit)
    BY <1>2, <2>0, <2>1, FinishInv DEF AcceptReport
  <2>2. CASE ReportComplete(id, n) /\ ~failed
    <3>1. PICK maxExit \in {0, exit} \cup {reports[id][m] : m \in HasReported(id)} :
            Finish(id, "completed", maxExit)
      BY <1>2, <2>2 DEF AcceptReport
    <3>2. maxExit \in Int
      BY <3>1, ExitsAreInts
    <3> QED BY <1>2, <3>1, <3>2, FinishInv DEF AcceptReport
  <2>3. CASE ~ReportComplete(id, n) /\ ~failed
    <3>1. /\ reports' = [reports EXCEPT ![id][n] = exit]
          /\ jobs' = jobs /\ pending' = pending
          /\ jobs[id].status = "running" /\ n \in jobs[id].assigned
      BY <1>2, <2>3 DEF AcceptReport
    <3>2. JMTypeOK' /\ QueueIsPending'
      BY <3>1 DEF JMInv, JMTypeOK, QueueIsPending
    <3>3. HasReported(id)' = HasReported(id) \cup {n}
      BY <2>0, <3>1, ExitsAssumption DEF JMInv, JMTypeOK, HasReported
    <3>4. \A j \in JobIds \ {id} : HasReported(j)' = HasReported(j)
      BY <3>1 DEF JMInv, JMTypeOK, HasReported
    <3>5. HasReported(id)' # jobs[id].assigned
      BY <2>3, <3>1, <3>3, CountIsCoverage
    <3>6. HasReported(id)' \subseteq jobs[id].assigned
      BY <3>1, <3>3 DEF JMInv, SomeoneStillOwes
    <3>7. SomeoneStillOwes'
      BY <3>1, <3>4, <3>5, <3>6 DEF JMInv, SomeoneStillOwes
    <3> QED BY <3>2, <3>7 DEF JMInv
  <2> QED BY <1>2, <2>1, <2>2, <2>3 DEF AcceptReport
<1> QED BY <1>1, <1>2 DEF ReportNodeEvent

\* Every call of the package's API keeps the invariant.
LEMMA ApiNextInv == JMInv /\ [ApiNext]_jmVars => JMInv'
<1> SUFFICES ASSUME JMInv, [ApiNext]_jmVars PROVE JMInv'
  OBVIOUS
<1>1. CASE UNCHANGED jmVars
  BY <1>1 DEF jmVars, JMInv, JMTypeOK, QueueIsPending, SomeoneStillOwes, HasReported
<1>2. ASSUME NEW id \in JobIds, NEW spec \in Specs, Submit(id, spec) PROVE JMInv'
  BY <1>2, SubmitInv
<1>3. ASSUME NEW id \in JobIds, NEW gang \in (SUBSET Nodes) \ {{}}, MarkRunning(id, gang)
      PROVE  JMInv'
  BY <1>3, MarkRunningInv
<1>4. ASSUME NEW id \in JobIds, NEW exit \in ExitCodes,
             MarkFailed(id, exit) \/ MarkCompleted(id, exit)
      PROVE  JMInv'
  <2>1. exit \in Int
    BY ExitsAssumption
  <2> QED BY <1>4, <2>1, FinishInv DEF MarkFailed, MarkCompleted
<1>5. ASSUME NEW id \in JobIds, FailRunningJob(id) PROVE JMInv'
  BY <1>5, FinishInv DEF FailRunningJob
<1>6. ASSUME NEW id \in JobIds, Cancel(id) PROVE JMInv'
  BY <1>6, CancelInv
<1>7. ASSUME NEW id \in JobIds, NEW n \in Nodes, NEW failed \in BOOLEAN,
             NEW exit \in ExitCodes, ReportNodeEvent(id, n, failed, exit)
      PROVE  JMInv'
  BY <1>7, ReportNodeEventInv
<1> QED BY <1>1, <1>2, <1>3, <1>4, <1>5, <1>6, <1>7 DEF ApiNext, JMNext, JMWork

\* The inductive invariant holds of every behaviour of the package.
THEOREM ApiInvariant == ApiSpec => []JMInv
<1>1. JMInit => JMInv
  BY JMInitInv
<1>2. JMInv /\ [ApiNext]_jmVars => JMInv'
  BY ApiNextInv
<1> QED BY <1>1, <1>2, PTL DEF ApiSpec

\* The manager's tables stay well typed under any sequence of calls.
THEOREM TypeCorrect == ApiSpec => []JMTypeOK
<1>1. JMInv => JMTypeOK
  BY DEF JMInv
<1> QED BY <1>1, ApiInvariant, PTL

\* The queue holds exactly the pending jobs, each once, for any number of jobs.
THEOREM QueueCorrect == ApiSpec => []QueueIsPending
<1>1. JMInv => QueueIsPending
  BY DEF JMInv
<1> QED BY <1>1, ApiInvariant, PTL

\* A running job always waits for a node of its gang, for any gang size.
THEOREM RunningIsOwed == ApiSpec => []SomeoneStillOwes
<1>1. JMInv => SomeoneStillOwes
  BY DEF JMInv
<1> QED BY <1>1, ApiInvariant, PTL

-------------------------------------------------------------------------------
(* Action properties *)

\* No call changes the order of the jobs it leaves on the queue.
LEMMA ApiKeepsOrder ==
  ASSUME JMInv, [ApiNext]_jmVars
  PROVE  KeepsOrder(pending, pending')
<1>1. pending \in Seq(JobIds) /\ NoDuplicates(pending)
  BY DEF JMInv, JMTypeOK, QueueIsPending
<1>2. CASE pending' = pending
  BY <1>2 DEF KeepsOrder
<1>3. ASSUME NEW id \in JobIds, pending' = removePending(pending, id)
      PROVE  KeepsOrder(pending, pending')
  BY <1>1, <1>3, RemovePendingExact
<1>4. ASSUME NEW id \in JobIds, NEW spec \in Specs, Submit(id, spec)
      PROVE  KeepsOrder(pending, pending')
  BY <1>1, <1>4, AppendFresh DEF Submit, JMInv, QueueIsPending
<1>5. CASE UNCHANGED jmVars
  BY <1>2, <1>5 DEF jmVars
<1>6. ASSUME ApiNext
      PROVE  \/ pending' = pending
             \/ \E id \in JobIds : pending' = removePending(pending, id)
             \/ \E id \in JobIds, spec \in Specs : Submit(id, spec)
  BY <1>6 DEF ApiNext, JMNext, JMWork, MarkRunning, MarkFailed, MarkCompleted, FailRunningJob,
              Cancel, ReportNodeEvent, IgnoreReport, AcceptReport, jmVars
<1> QED BY <1>2, <1>3, <1>4, <1>5, <1>6

\* FirstComeFirstServed for any number of jobs: JobManager's queue is a FIFO.
THEOREM OrderKept == ApiSpec => FirstComeFirstServed
<1>1. ASSUME JMInv, [ApiNext]_jmVars
      PROVE  [KeepsOrder(pending, pending')]_jmVars
  BY <1>1, ApiKeepsOrder
<1> QED BY <1>1, ApiInvariant, PTL DEF ApiSpec, FirstComeFirstServed

\* No call of the API moves a job out of a terminal state or rewrites its record.
THEOREM FinalStaysFinal == ApiSpec => OutcomeIsFinal
<1>1. ASSUME JMInv, [ApiNext]_jmVars
      PROVE  [\A id \in JobIds : Terminal(jobs[id].status) => jobs'[id] = jobs[id]]_jmVars
  <2> DEFINE Frozen == \A id \in JobIds : Terminal(jobs[id].status) => jobs'[id] = jobs[id]
  <2>1. ASSUME jobs' = jobs PROVE Frozen
    BY <2>1
  <2>2. ASSUME NEW id \in JobIds, ~Terminal(jobs[id].status),
               \A j \in JobIds \ {id} : jobs'[j] = jobs[j]
        PROVE  Frozen
    BY <2>2
  <2>3. ASSUME NEW id \in JobIds, NEW to, CanTransition(jobs[id].status, to)
        PROVE  ~Terminal(jobs[id].status)
    BY <2>3 DEF CanTransition, Terminal
  <2>4. ASSUME NEW id \in JobIds, NEW to, NEW exit, Finish(id, to, exit) PROVE Frozen
    BY <1>1, <2>2, <2>3, <2>4 DEF Finish, JMInv, JMTypeOK
  <2> HIDE DEF Frozen
  <2>5. ASSUME NEW id \in JobIds, NEW spec \in Specs, Submit(id, spec) PROVE Frozen
    BY <1>1, <2>2, <2>5 DEF Submit, Terminal, JMInv, JMTypeOK
  <2>6. ASSUME NEW id \in JobIds, NEW gang, MarkRunning(id, gang) PROVE Frozen
    BY <1>1, <2>2, <2>3, <2>6 DEF MarkRunning, JMInv, JMTypeOK
  <2>7. ASSUME NEW id \in JobIds, Cancel(id) PROVE Frozen
    BY <1>1, <2>2, <2>3, <2>7 DEF Cancel, JMInv, JMTypeOK
  <2>8. ASSUME NEW id \in JobIds, NEW n, NEW failed, NEW exit,
               ReportNodeEvent(id, n, failed, exit)
        PROVE  Frozen
    BY <2>1, <2>4, <2>8 DEF ReportNodeEvent, IgnoreReport, AcceptReport, jmVars
  <2>9. ApiNext => Frozen
    BY <2>4, <2>5, <2>6, <2>7, <2>8
       DEF ApiNext, JMNext, JMWork, MarkFailed, MarkCompleted, FailRunningJob
  <2> QED BY <1>1, <2>9 DEF Frozen
<1> QED BY <1>1, ApiInvariant, PTL DEF ApiSpec, OutcomeIsFinal

-------------------------------------------------------------------------------
(* The manager implements GangOutcome.  Besides JMInv the step simulation     *)
(* needs that a job that has not ended has exit code 0, and that the exit     *)
(* codes recorded for a job have a largest one (which the manager computes    *)
(* over a map and the mapping over a set).                                    *)

ExitsOf(id) == {0} \cup {reports[id][m] : m \in HasReported(id)}

IsMax(e, S) == e \in S /\ \A x \in S : x <= e

ExitUnset == \A id \in JobIds : ~Terminal(jobs[id].status) => jobs[id].exit = 0

WorstExists == \A id \in JobIds : \E e \in Int : IsMax(e, ExitsOf(id))

RefInv == JMInv /\ ExitUnset /\ WorstExists

-------------------------------------------------------------------------------
\* Exit codes are integers.
LEMMA ExitsInt ==
  ASSUME JMInv, NEW id \in JobIds
  PROVE  ExitsOf(id) \in SUBSET Int
<1>1. \A m \in HasReported(id) : reports[id][m] \in ExitCodes
  BY DEF JMInv, JMTypeOK, HasReported
<1>2. ASSUME NEW x \in ExitsOf(id) PROVE x = 0 \/ x \in ExitCodes
  BY <1>1, Zenon DEF ExitsOf
<1>3. 0 \in Int
  OBVIOUS
<1> QED BY <1>2, <1>3, ExitsAssumption, Zenon

\* A set of integers has at most one maximum, and MaxExit is it.
LEMMA MaxExitIs ==
  ASSUME JMInv, NEW id \in JobIds, NEW e \in Int, IsMax(e, ExitsOf(id))
  PROVE  MaxExit(id) = e
<1>1. ExitsOf(id) \subseteq Int
  BY ExitsInt
<1>2. MaxExit(id) = CHOOSE y \in ExitsOf(id) : \A x \in ExitsOf(id) : x <= y
  BY DEF MaxExit, ExitsOf
<1>3. \A y \in ExitsOf(id) : (\A x \in ExitsOf(id) : x <= y) => y = e
  BY <1>1 DEF IsMax
<1> QED BY <1>2, <1>3 DEF IsMax

\* A job without reports has worst exit code 0.
LEMMA NoReportsMax ==
  ASSUME NEW id \in JobIds, HasReported(id) = {}
  PROVE  IsMax(0, ExitsOf(id))
BY DEF IsMax, ExitsOf

\* Recording one more report raises the maximum or leaves it.
LEMMA MaxAdd ==
  ASSUME NEW S \in SUBSET Int, NEW e \in Int, NEW x \in Int, IsMax(e, S)
  PROVE  IsMax(IF x > e THEN x ELSE e, S \cup {x})
BY DEF IsMax

\* The exit codes of a job after a step, in the three ways a step treats them.
LEMMA ExitsAfter ==
  ASSUME JMInv, NEW id \in JobIds
  PROVE  /\ reports'[id] = NoReports => HasReported(id)' = {} /\ IsMax(0, ExitsOf(id)')
         /\ reports'[id] = reports[id] =>
              HasReported(id)' = HasReported(id) /\ ExitsOf(id)' = ExitsOf(id)
<1>1. ASSUME reports'[id] = NoReports PROVE HasReported(id)' = {}
  BY <1>1 DEF HasReported, NoReports
<1>2. ASSUME reports'[id] = NoReports PROVE IsMax(0, ExitsOf(id)')
  BY <1>1, <1>2 DEF ExitsOf, IsMax
<1>3. ASSUME reports'[id] = reports[id]
      PROVE  HasReported(id)' = HasReported(id) /\ ExitsOf(id)' = ExitsOf(id)
  BY <1>3 DEF HasReported, ExitsOf
<1> QED BY <1>1, <1>2, <1>3

\* A report stored for node n of id adds its exit code to id's.
LEMMA ExitsAfterReport ==
  ASSUME JMInv, NEW id \in JobIds, NEW n \in Nodes, NEW exit \in ExitCodes,
         n \notin HasReported(id), reports' = [reports EXCEPT ![id][n] = exit]
  PROVE  /\ HasReported(id)' = HasReported(id) \cup {n}
         /\ ExitsOf(id)' = ExitsOf(id) \cup {exit}
<1>1. /\ reports'[id][n] = exit
      /\ \A m \in Nodes \ {n} : reports'[id][m] = reports[id][m]
      /\ exit # NoReport
  BY ExitsAssumption DEF JMInv, JMTypeOK
<1>2. HasReported(id)' = HasReported(id) \cup {n}
  BY <1>1 DEF HasReported
<1>3. ExitsOf(id)' = {0} \cup {reports'[id][m] : m \in HasReported(id) \cup {n}}
  BY <1>2 DEF ExitsOf
<1>4. \A m \in HasReported(id) : reports'[id][m] = reports[id][m]
  BY <1>1 DEF HasReported
<1>5. {reports'[id][m] : m \in HasReported(id) \cup {n}}
        = {reports[id][m] : m \in HasReported(id)} \cup {exit}
  BY <1>1, <1>4
<1> QED BY <1>2, <1>3, <1>5 DEF ExitsOf

-------------------------------------------------------------------------------
(* What one step does to one job, as the mapping sees it.                     *)

\* A step that leaves every other job alone maps to GangOutcome functions that
\* differ at id only.
Elsewhere(id) == \A j \in JobIds \ {id} : jobs'[j] = jobs[j] /\ reports'[j] = reports[j]

\* Such a step leaves the mapped phase, debt and exit code of the others.
LEMMA MappedElsewhere ==
  ASSUME JMInv, NEW id \in JobIds, Elsewhere(id), NEW j \in JobIds \ {id}
  PROVE  PhaseOf'[j] = PhaseOf[j] /\ OwedOf'[j] = OwedOf[j] /\ WorstOf'[j] = WorstOf[j]
<1>1. jobs'[j] = jobs[j] /\ reports'[j] = reports[j]
  BY DEF Elsewhere
<1>2. HasReported(j)' = HasReported(j) /\ MaxExit(j)' = MaxExit(j)
  BY <1>1 DEF HasReported, MaxExit
<1> QED BY <1>1, <1>2 DEF PhaseOf, OwedOf, WorstOf

\* The mapped functions after such a step are updates at id.
LEMMA MappedUpdate ==
  ASSUME JMInv, NEW id \in JobIds, Elsewhere(id)
  PROVE  /\ PhaseOf' = [PhaseOf EXCEPT ![id] = PhaseOf'[id]]
         /\ OwedOf'  = [OwedOf  EXCEPT ![id] = OwedOf'[id]]
         /\ WorstOf' = [WorstOf EXCEPT ![id] = WorstOf'[id]]
<1>1. \A j \in JobIds \ {id} :
        PhaseOf'[j] = PhaseOf[j] /\ OwedOf'[j] = OwedOf[j] /\ WorstOf'[j] = WorstOf[j]
  BY MappedElsewhere
<1>2. PhaseOf' = [PhaseOf EXCEPT ![id] = PhaseOf'[id]]
  BY <1>1 DEF PhaseOf
<1>3. OwedOf' = [OwedOf EXCEPT ![id] = OwedOf'[id]]
  BY <1>1 DEF OwedOf
<1>4. WorstOf' = [WorstOf EXCEPT ![id] = WorstOf'[id]]
  BY <1>1 DEF WorstOf
<1> QED BY <1>2, <1>3, <1>4

-------------------------------------------------------------------------------
(* Simulation, one lemma per way a job moves.                                 *)

\* The mapped variables at one job.
LEMMA MappedAt ==
  ASSUME NEW id \in JobIds
  PROVE  /\ PhaseOf[id] = jobs[id].status
         /\ OwedOf[id] = IF jobs[id].status = "running"
                           THEN jobs[id].assigned \ HasReported(id) ELSE {}
         /\ WorstOf[id] = IF jobs[id].status = "running" THEN MaxExit(id) ELSE jobs[id].exit
         /\ PhaseOf'[id] = jobs'[id].status
         /\ OwedOf'[id] = IF jobs'[id].status = "running"
                            THEN jobs'[id].assigned \ HasReported(id)' ELSE {}
         /\ WorstOf'[id] = IF jobs'[id].status = "running" THEN MaxExit(id)' ELSE jobs'[id].exit
BY DEF PhaseOf, OwedOf, WorstOf

\* The mapping unchanged at id is the mapping unchanged.
LEMMA MappedSame ==
  ASSUME JMInv, NEW id \in JobIds, Elsewhere(id)
  PROVE  /\ OwedOf'[id] = OwedOf[id] => OwedOf' = OwedOf
         /\ WorstOf'[id] = WorstOf[id] => WorstOf' = WorstOf
<1>1. /\ OwedOf'  = [OwedOf  EXCEPT ![id] = OwedOf'[id]]
      /\ WorstOf' = [WorstOf EXCEPT ![id] = WorstOf'[id]]
  BY MappedUpdate
<1>2. ASSUME OwedOf'[id] = OwedOf[id] PROVE OwedOf' = OwedOf
  BY <1>1, <1>2 DEF OwedOf
<1>3. ASSUME WorstOf'[id] = WorstOf[id] PROVE WorstOf' = WorstOf
  BY <1>1, <1>3 DEF WorstOf
<1> QED BY <1>2, <1>3

\* Submit is Enqueue.
LEMMA SubmitSim ==
  ASSUME RefInv, NEW id \in JobIds, NEW spec \in Specs, Submit(id, spec)
  PROVE  GO!Enqueue(id)
<1> USE DEF RefInv
<1>1. Elsewhere(id)
  BY DEF Submit, Elsewhere, JMInv, JMTypeOK
<1>2. jobs[id].status = "absent" /\ jobs'[id].status = "pending" /\ jobs'[id].exit = 0
  BY DEF Submit, NewJob, JMInv, JMTypeOK
<1>3. jobs[id].exit = 0
  BY <1>2 DEF ExitUnset, Terminal
<1>4. /\ PhaseOf[id] = "absent" /\ PhaseOf'[id] = "pending"
      /\ OwedOf'[id] = OwedOf[id] /\ WorstOf'[id] = WorstOf[id]
  BY <1>2, <1>3, MappedAt
<1>5. PhaseOf' = [PhaseOf EXCEPT ![id] = PhaseOf'[id]]
  BY <1>1, MappedUpdate
<1>6. OwedOf' = OwedOf /\ WorstOf' = WorstOf
  BY <1>1, <1>4, MappedSame
<1> QED BY <1>4, <1>5, <1>6 DEF GO!Enqueue, GO!Move

\* MarkRunning is Start on the same gang.
LEMMA MarkRunningSim ==
  ASSUME RefInv, NEW id \in JobIds, NEW gang \in (SUBSET Nodes) \ {{}}, MarkRunning(id, gang)
  PROVE  GO!Start(id)
<1> USE DEF RefInv
<1>1. Elsewhere(id)
  BY DEF MarkRunning, Elsewhere, JMInv, JMTypeOK
<1>2. /\ jobs[id].status = "pending" /\ jobs'[id].status = "running"
      /\ jobs'[id].assigned = gang /\ reports'[id] = NoReports
  BY DEF MarkRunning, CanTransition, JMInv, JMTypeOK, JobRecords
<1>3. jobs[id].exit = 0
  BY <1>2 DEF ExitUnset, Terminal
<1>4. HasReported(id)' = {} /\ MaxExit(id)' = 0
  <2>1. HasReported(id)' = {}
    BY <1>2, ExitsAfter
  <2> QED BY <2>1 DEF MaxExit
<1>5. /\ PhaseOf[id] = "pending" /\ PhaseOf'[id] = "running"
      /\ OwedOf'[id] = gang /\ WorstOf'[id] = WorstOf[id]
  BY <1>2, <1>3, <1>4, MappedAt
<1>6. /\ PhaseOf' = [PhaseOf EXCEPT ![id] = PhaseOf'[id]]
      /\ OwedOf' = [OwedOf EXCEPT ![id] = OwedOf'[id]]
  BY <1>1, MappedUpdate
<1>7. WorstOf' = WorstOf
  BY <1>1, <1>5, MappedSame
<1> QED BY <1>5, <1>6, <1>7 DEF GO!Start, GO!Move

\* FailRunningJob, MarkFailed, a failure report and the cancellation of a
\* running job all abort it.
LEMMA AbortSim ==
  ASSUME RefInv, NEW id \in JobIds, Elsewhere(id), jobs[id].status = "running",
         jobs'[id].status \in {"failed", "cancelled"},
         jobs'[id].exit \in ExitCodes \cup {0, 1}
  PROVE  GO!Abort(id)
<1> USE DEF RefInv
<1>1. /\ PhaseOf[id] = "running" /\ PhaseOf'[id] \in {"failed", "cancelled"}
      /\ OwedOf'[id] = {} /\ WorstOf'[id] \in ExitCodes \cup {0, 1}
  BY MappedAt
<1>2. /\ PhaseOf' = [PhaseOf EXCEPT ![id] = PhaseOf'[id]]
      /\ OwedOf'  = [OwedOf  EXCEPT ![id] = OwedOf'[id]]
      /\ WorstOf' = [WorstOf EXCEPT ![id] = WorstOf'[id]]
  BY MappedUpdate
<1> QED BY <1>1, <1>2 DEF GO!Abort, GO!Move

\* Cancel is Withdraw of a queued job and Abort of a running one.
LEMMA CancelSim ==
  ASSUME RefInv, NEW id \in JobIds, Cancel(id)
  PROVE  GO!Withdraw(id) \/ GO!Abort(id)
<1> USE DEF RefInv
<1>1. /\ Elsewhere(id) /\ jobs'[id].status = "cancelled" /\ jobs'[id].exit = jobs[id].exit
      /\ jobs[id].status \in {"pending", "running"}
  BY DEF Cancel, CanTransition, Elsewhere, JMInv, JMTypeOK, JobRecords
<1>2. jobs[id].exit = 0
  BY <1>1 DEF ExitUnset, Terminal
<1>3. CASE jobs[id].status = "pending"
  <2>1. /\ PhaseOf[id] = "pending" /\ PhaseOf'[id] = "cancelled"
        /\ OwedOf'[id] = OwedOf[id] /\ WorstOf'[id] = WorstOf[id]
    BY <1>1, <1>3, MappedAt
  <2>2. PhaseOf' = [PhaseOf EXCEPT ![id] = PhaseOf'[id]]
    BY <1>1, MappedUpdate
  <2>3. OwedOf' = OwedOf /\ WorstOf' = WorstOf
    BY <1>1, <2>1, MappedSame
  <2> QED BY <2>1, <2>2, <2>3 DEF GO!Withdraw, GO!Move
<1>4. CASE jobs[id].status = "running"
  BY <1>1, <1>2, <1>4, AbortSim
<1> QED BY <1>1, <1>3, <1>4

\* Ending a running job as failed, on whichever path, is Abort.
LEMMA FailSim ==
  ASSUME RefInv, NEW id \in JobIds, NEW exit \in ExitCodes \cup {1},
         Finish(id, "failed", exit)
  PROVE  GO!Abort(id)
<1>1. /\ Elsewhere(id) /\ jobs[id].status = "running"
      /\ jobs'[id].status = "failed" /\ jobs'[id].exit = exit
  BY DEF Finish, CanTransition, Elsewhere, RefInv, JMInv, JMTypeOK, JobRecords
<1> QED BY <1>1, AbortSim

\* A success that leaves nodes outstanding delivers without completing.
LEMMA PartialReportSim ==
  ASSUME RefInv, NEW id \in JobIds, NEW n \in Nodes, NEW exit \in ExitCodes,
         jobs[id].status = "running", n \in jobs[id].assigned, n \notin HasReported(id),
         ~ReportComplete(id, n), reports' = [reports EXCEPT ![id][n] = exit], jobs' = jobs
  PROVE  GO!Deliver(id, n, exit)
<1> USE DEF RefInv
<1>1. Elsewhere(id)
  BY DEF Elsewhere, JMInv, JMTypeOK
<1>2. HasReported(id)' = HasReported(id) \cup {n} /\ ExitsOf(id)' = ExitsOf(id) \cup {exit}
  BY ExitsAfterReport
<1>3. HasReported(id) \cup {n} # jobs[id].assigned
  BY CountIsCoverage
<1>4. PICK e \in Int : IsMax(e, ExitsOf(id))
  BY DEF WorstExists
<1>5. MaxExit(id) = e
  BY <1>4, MaxExitIs
<1>6. exit \in Int
  BY ExitsAssumption
<1>7. MaxExit(id)' = IF exit > e THEN exit ELSE e
  <2> DEFINE top == IF exit > e THEN exit ELSE e
             S == ExitsOf(id) \cup {exit}
  <2>1. IsMax(top, S)
    BY <1>4, <1>6, ExitsInt, MaxAdd
  <2>2. S \subseteq Int
    BY <1>6, ExitsInt
  <2>3. MaxExit(id)' = CHOOSE y \in S : \A x \in S : x <= y
    BY <1>2 DEF MaxExit, ExitsOf
  <2> HIDE DEF top, S
  <2>4. \A y \in S : (\A x \in S : x <= y) => y = top
    BY <2>1, <2>2 DEF IsMax
  <2>5. top = CHOOSE y \in S : \A x \in S : x <= y
    BY <2>1, <2>4 DEF IsMax
  <2> QED BY <2>3, <2>5 DEF top
<1>8. /\ PhaseOf[id] = "running" /\ PhaseOf'[id] = "running"
      /\ OwedOf[id] = jobs[id].assigned \ HasReported(id)
      /\ OwedOf'[id] = OwedOf[id] \ {n}
      /\ WorstOf[id] = e /\ WorstOf'[id] = IF exit > e THEN exit ELSE e
  BY <1>2, <1>5, <1>7, MappedAt
<1>9. n \in OwedOf[id] /\ OwedOf[id] # {n}
  BY <1>3, <1>8 DEF JMInv, SomeoneStillOwes
<1>10. /\ PhaseOf' = [PhaseOf EXCEPT ![id] = PhaseOf'[id]]
       /\ OwedOf'  = [OwedOf  EXCEPT ![id] = OwedOf'[id]]
       /\ WorstOf' = [WorstOf EXCEPT ![id] = WorstOf'[id]]
  BY <1>1, MappedUpdate
<1> QED BY <1>8, <1>9, <1>10 DEF GO!Deliver

\* The last success completes the job with the worst exit code.
LEMMA LastReportSim ==
  ASSUME RefInv, NEW id \in JobIds, NEW n \in Nodes, NEW exit \in ExitCodes,
         jobs[id].status = "running", n \in jobs[id].assigned, n \notin HasReported(id),
         ReportComplete(id, n), NEW maxExit \in ExitsOf(id) \cup {exit},
         \A x \in ExitsOf(id) \cup {exit} : x <= maxExit,
         Finish(id, "completed", maxExit)
  PROVE  GO!Deliver(id, n, exit)
<1> USE DEF RefInv
<1>1. /\ Elsewhere(id) /\ jobs'[id].status = "completed" /\ jobs'[id].exit = maxExit
  BY DEF Finish, Elsewhere, JMInv, JMTypeOK, JobRecords
<1>2. HasReported(id) \cup {n} = jobs[id].assigned
  BY CountIsCoverage
<1>3. PICK e \in Int : IsMax(e, ExitsOf(id))
  BY DEF WorstExists
<1>4. MaxExit(id) = e
  BY <1>3, MaxExitIs
<1>5. maxExit = IF exit > e THEN exit ELSE e
  <2>1. exit \in Int /\ ExitsOf(id) \subseteq Int
    BY ExitsAssumption, ExitsInt
  <2> QED BY <1>3, <2>1 DEF IsMax
<1>6. /\ PhaseOf[id] = "running" /\ PhaseOf'[id] = "completed"
      /\ OwedOf[id] = jobs[id].assigned \ HasReported(id) /\ OwedOf'[id] = {}
      /\ WorstOf[id] = e /\ WorstOf'[id] = IF exit > e THEN exit ELSE e
  BY <1>1, <1>4, <1>5, MappedAt
<1>7. OwedOf[id] = {n}
  BY <1>2, <1>6
<1>8. OwedOf'[id] = OwedOf[id] \ {n}
  BY <1>6, <1>7
<1>9. /\ PhaseOf' = [PhaseOf EXCEPT ![id] = PhaseOf'[id]]
      /\ OwedOf'  = [OwedOf  EXCEPT ![id] = OwedOf'[id]]
      /\ WorstOf' = [WorstOf EXCEPT ![id] = WorstOf'[id]]
  BY <1>1, MappedUpdate
<1> QED BY <1>6, <1>7, <1>8, <1>9 DEF GO!Deliver

-------------------------------------------------------------------------------
(* The strengthened invariant, and the refinement.                            *)

\* The controller's calls are calls of the package.
LEMMA JMNextInv == JMInv /\ [JMNext]_jmVars => JMInv'
<1>1. [JMNext]_jmVars => [ApiNext]_jmVars
  BY DEF ApiNext
<1> QED BY <1>1, ApiNextInv

\* A step of the manager maps to a step of GangOutcome or leaves its variables.
LEMMA StepSim ==
  ASSUME RefInv, [JMNext]_jmVars
  PROVE  [GO!GONext]_<<PhaseOf, OwedOf, WorstOf>>
<1>1. CASE UNCHANGED jmVars
  BY <1>1 DEF jmVars, PhaseOf, OwedOf, WorstOf, HasReported, MaxExit
<1>2. ASSUME NEW id \in JobIds, NEW spec \in Specs, Submit(id, spec) PROVE GO!GONext
  BY <1>2, SubmitSim DEF GO!GONext
<1>3. ASSUME NEW id \in JobIds, NEW gang \in (SUBSET Nodes) \ {{}}, MarkRunning(id, gang)
      PROVE  GO!GONext
  BY <1>3, MarkRunningSim DEF GO!GONext
<1>4. ASSUME NEW id \in JobIds, NEW exit \in ExitCodes \cup {1}, Finish(id, "failed", exit)
      PROVE  GO!GONext
  BY <1>4, FailSim DEF GO!GONext
<1>5. ASSUME NEW id \in JobIds, Cancel(id) PROVE GO!GONext
  BY <1>5, CancelSim DEF GO!GONext
<1>6. ASSUME NEW id \in JobIds, NEW n \in Nodes, NEW failed \in BOOLEAN,
             NEW exit \in ExitCodes, AcceptReport(id, n, failed, exit)
      PROVE  GO!GONext
  <2>1. jobs[id].status = "running" /\ n \in jobs[id].assigned /\ n \notin HasReported(id)
    BY <1>6 DEF AcceptReport
  <2>2. CASE failed
    BY <1>4, <1>6, <2>2 DEF AcceptReport
  <2>3. CASE ~failed /\ ~ReportComplete(id, n)
    <3>1. reports' = [reports EXCEPT ![id][n] = exit] /\ jobs' = jobs
      BY <1>6, <2>3 DEF AcceptReport
    <3>2. GO!Deliver(id, n, exit)
      BY <2>1, <2>3, <3>1, PartialReportSim
    <3> QED BY <3>2 DEF GO!GONext
  <2>4. CASE ~failed /\ ReportComplete(id, n)
    <3>1. {0, exit} \cup {reports[id][m] : m \in HasReported(id)} = ExitsOf(id) \cup {exit}
      BY DEF ExitsOf
    <3>2. PICK maxExit \in ExitsOf(id) \cup {exit} :
            /\ \A x \in ExitsOf(id) \cup {exit} : x <= maxExit
            /\ Finish(id, "completed", maxExit)
      BY <1>6, <2>4, <3>1 DEF AcceptReport
    <3>3. GO!Deliver(id, n, exit)
      BY <2>1, <2>4, <3>2, LastReportSim
    <3> QED BY <3>3 DEF GO!GONext
  <2> QED BY <2>2, <2>3, <2>4
<1>7. ASSUME NEW id \in JobIds, NEW n \in Nodes, IgnoreReport(id, n)
      PROVE  UNCHANGED jmVars
  BY <1>7 DEF IgnoreReport
<1> QED BY <1>1, <1>2, <1>3, <1>4, <1>5, <1>6, <1>7
        DEF JMNext, JMWork, MarkFailed, FailRunningJob, ReportNodeEvent

\* Exit codes stay unset until the end, and recorded ones keep a maximum.
LEMMA RefInvStep == RefInv /\ [JMNext]_jmVars => RefInv'
<1> SUFFICES ASSUME RefInv, [JMNext]_jmVars PROVE RefInv'
  OBVIOUS
<1>1. JMInv'
  BY JMNextInv DEF RefInv
<1> DEFINE Quiet == \A j \in JobIds : reports'[j] = reports[j] \/ reports'[j] = NoReports
<1>2. ASSUME Quiet PROVE WorstExists'
  <2> SUFFICES ASSUME NEW j \in JobIds PROVE \E e \in Int : IsMax(e, ExitsOf(j)')
    BY DEF WorstExists, IsMax
  <2>1. JMInv /\ \E e \in Int : IsMax(e, ExitsOf(j))
    BY DEF RefInv, WorstExists
  <2>2. CASE reports'[j] = reports[j]
    BY <2>1, <2>2, ExitsAfter
  <2>3. CASE reports'[j] = NoReports
    BY <2>1, <2>3, ExitsAfter
  <2> QED BY <1>2, <2>2, <2>3
<1>4. CASE UNCHANGED jmVars
  BY <1>1, <1>4 DEF jmVars, RefInv, ExitUnset, WorstExists, IsMax, ExitsOf, HasReported
<1>5. ASSUME NEW id \in JobIds, NEW to \in {"completed", "failed"}, NEW exit,
             Finish(id, to, exit)
      PROVE  ExitUnset' /\ WorstExists'
  <2>1. Quiet
    BY <1>5 DEF Finish, RefInv, JMInv, JMTypeOK
  <2>2. ExitUnset'
    BY <1>5 DEF Finish, Terminal, ExitUnset, RefInv, JMInv, JMTypeOK, JobRecords
  <2> QED BY <1>2, <2>1, <2>2
<1>6. ASSUME NEW id \in JobIds, NEW spec \in Specs, Submit(id, spec)
      PROVE  ExitUnset' /\ WorstExists'
  <2>1. Quiet
    BY <1>6 DEF Submit
  <2>2. ExitUnset'
    BY <1>6 DEF Submit, NewJob, Terminal, ExitUnset, RefInv, JMInv, JMTypeOK
  <2> QED BY <1>2, <2>1, <2>2
<1>7. ASSUME NEW id \in JobIds, NEW gang, MarkRunning(id, gang)
      PROVE  ExitUnset' /\ WorstExists'
  <2>1. Quiet
    BY <1>7 DEF MarkRunning, RefInv, JMInv, JMTypeOK
  <2>2. ExitUnset'
    BY <1>7 DEF MarkRunning, CanTransition, Terminal, ExitUnset, RefInv, JMInv, JMTypeOK, JobRecords
  <2> QED BY <1>2, <2>1, <2>2
<1>8. ASSUME NEW id \in JobIds, Cancel(id)
      PROVE  ExitUnset' /\ WorstExists'
  <2>1. Quiet
    BY <1>8 DEF Cancel, RefInv, JMInv, JMTypeOK
  <2>2. ExitUnset'
    BY <1>8 DEF Cancel, Terminal, ExitUnset, RefInv, JMInv, JMTypeOK, JobRecords
  <2> QED BY <1>2, <2>1, <2>2
<1>9. ASSUME NEW id \in JobIds, NEW n \in Nodes, NEW failed \in BOOLEAN,
             NEW exit \in ExitCodes, AcceptReport(id, n, failed, exit)
      PROVE  ExitUnset' /\ WorstExists'
  <2>1. CASE jobs' = jobs /\ reports' = [reports EXCEPT ![id][n] = exit]
    <3>1. ExitUnset'
      BY <2>1 DEF ExitUnset, RefInv
    <3>2. ExitsOf(id)' = ExitsOf(id) \cup {exit}
      BY <1>9, <2>1, ExitsAfterReport DEF RefInv, AcceptReport
    <3>3. PICK e \in Int : IsMax(e, ExitsOf(id))
      BY DEF RefInv, WorstExists
    <3>4. exit \in Int /\ ExitsOf(id) \in SUBSET Int
      BY ExitsAssumption, ExitsInt DEF RefInv
    <3>5. \E m \in Int : IsMax(m, ExitsOf(id)')
      BY <3>2, <3>3, <3>4, MaxAdd
    <3>6. ASSUME NEW j \in JobIds \ {id} PROVE \E m \in Int : IsMax(m, ExitsOf(j)')
      <4>1. reports'[j] = reports[j]
        BY <2>1 DEF RefInv, JMInv, JMTypeOK
      <4> QED BY <4>1, ExitsAfter DEF RefInv, WorstExists
    <3>7. WorstExists'
      BY <3>5, <3>6 DEF WorstExists, IsMax, ExitsOf, HasReported
    <3> QED BY <3>1, <3>7
  <2> QED BY <1>5, <1>9, <2>1 DEF AcceptReport
<1>10. ASSUME NEW id \in JobIds, NEW n \in Nodes, IgnoreReport(id, n)
       PROVE  UNCHANGED jmVars
  BY <1>10 DEF IgnoreReport
<1>11. JMNext => (ExitUnset' /\ WorstExists') \/ UNCHANGED jmVars
  BY <1>5, <1>6, <1>7, <1>8, <1>9, <1>10
     DEF JMNext, JMWork, MarkFailed, FailRunningJob, ReportNodeEvent
<1> QED BY <1>1, <1>4, <1>11 DEF RefInv

\* The strengthened invariant holds of the empty tables.
LEMMA RefInvInit == JMInit => RefInv
<1> SUFFICES ASSUME JMInit PROVE RefInv
  OBVIOUS
<1>1. JMInv
  BY JMInitInv
<1>2. ExitUnset
  BY DEF JMInit, ExitUnset, NoJobRecord
<1>3. \A id \in JobIds : HasReported(id) = {}
  BY DEF JMInit, HasReported, NoReports
<1>4. WorstExists
  BY <1>3, NoReportsMax DEF WorstExists
<1> QED BY <1>1, <1>2, <1>4 DEF RefInv

\* The empty tables map to the initial state of GangOutcome.
LEMMA InitSim == JMInit => GO!GOInit
BY DEF JMInit, NoJobRecord, GO!GOInit, PhaseOf, OwedOf, WorstOf

\* The manager, with its report counting, implements GangOutcome: a gang job
\* completes exactly with its last node's success and the worst exit code.
THEOREM ManagerImplementsGangOutcome == JMSpec => ImplementsGangOutcome
<1>1. RefInv /\ [JMNext]_jmVars => [GO!GONext]_<<PhaseOf, OwedOf, WorstOf>>
  BY StepSim
<1> QED BY <1>1, InitSim, RefInvInit, RefInvStep, PTL
        DEF JMSpec, ImplementsGangOutcome, GO!GOSpec, GO!goVars
===============================================================================
