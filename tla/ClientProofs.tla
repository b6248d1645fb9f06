------------------------------ MODULE ClientProofs ------------------------------
(***************************************************************************)
(* What users of slctl see, for any job ids, of any length, any width of   *)
(* the protocol's integers and any readings of the clock: the order of     *)
(* submission is kept in the queue, listings agree with one another, and   *)
(* submissions use the job manager the way JobManager assumes.             *)
(***************************************************************************)
EXTENDS Client, JobManagerProofs

-------------------------------------------------------------------------------
(* The invariant *)

CallRecs == [pc    : {"none", "drawn", "new", "stored", "answered"},
             ask   : Asks \cup {NoSpec},
             at    : Int,
             after : SUBSET JobIds]

CallsTyped == call \in [JobIds -> CallRecs] /\ idSeq \in Nat

\* Ids that were not drawn are free.
IdsAreFresh == \A j \in JobIds : j > idSeq => call[j].pc = "none"

\* The manager has the job from Submit on, with the request of its call.
CallMeansJob ==
  \A j \in JobIds :
    /\ call[j].pc = "none" => call[j].after = {}
    /\ call[j].pc # "none" => call[j].ask \in Asks /\ Validate(specFromProto(call[j].ask))
    /\ IF call[j].pc \in {"stored", "answered"}
         THEN jobs[j].status # "absent" /\ jobs[j].spec = specFromProto(call[j].ask)
         ELSE jobs[j].status = "absent"

\* What a submission came after stays answered.
AfterAnswered == \A k \in JobIds : \A j \in call[k].after : call[j].pc = "answered"

QueueInOrder ==
  \A k \in JobIds : \A j \in call[k].after :
    Contains(pending, j) /\ Contains(pending, k) => Before(pending, j, k)

CallInv  == CallsTyped /\ IdsAreFresh /\ CallMeansJob /\ AfterAnswered
ClientInv == JMInv /\ CallInv /\ QueueInOrder

-------------------------------------------------------------------------------
(* Listings *)

Rank(S, j) == Cardinality({k \in S : JobLess(k, j)})

LEMMA JobsFinite == ASSUME NEW S \in SUBSET JobIds PROVE IsFiniteSet(S) /\ Cardinality(S) \in Nat
<1>1. ASSUME NEW s \in S PROVE s \in Nat /\ s <= 10 * Longest
  <2>1. s \in Nat /\ Longest \in Nat
    BY JobIdsAssumption, ClientAssumption
  <2>2. PICK p \in Tens : s * p \in Longest..(10 * Longest - 1)
    BY ClientAssumption
  <2>3. p \in Nat
    BY ClientAssumption
  <2>4. CASE p = 0
    BY <2>1, <2>2, <2>4
  <2>5. CASE p >= 1
    <3>1. s * p >= s
      BY <2>1, <2>3, <2>5
    <3> DEFINE x == s * p
    <3>2. x >= s /\ x \in Longest..(10 * Longest - 1)
      BY <2>2, <3>1
    <3> HIDE DEF x
    <3> QED BY <2>1, <3>2
  <2> QED BY <2>3, <2>4, <2>5
<1>2. IsFiniteSet(S)
  <2> DEFINE top == 10 * Longest
  <2>1. S \in SUBSET Nat /\ top \in Nat /\ \A s \in S : s <= top
    BY <1>1, ClientAssumption
  <2> HIDE DEF top
  <2> QED BY <2>1, FS_BoundedSetOfNaturals
<1> QED BY <1>2, FS_CardinalityType

\* String order is a strict total order on ids of any length.
LEMMA IdLessOrder ==
  ASSUME NEW i \in JobIds, NEW j \in JobIds, NEW k \in JobIds
  PROVE  /\ ~IdLess(i, i)
         /\ IdLess(i, j) /\ IdLess(j, k) => IdLess(i, k)
         /\ i = j \/ IdLess(i, j) \/ IdLess(j, i)
<1>1. ASSUME NEW x \in JobIds PROVE x \in Nat /\ Padded(x) \in Int
  <2>1. \E y \in {x * p : p \in Tens} : y \in Longest..(10 * Longest - 1)
    BY ClientAssumption
  <2>2. Padded(x) \in Longest..(10 * Longest - 1)
    BY <2>1 DEF Padded
  <2> QED BY <2>2, JobIdsAssumption, ClientAssumption
<1>2. /\ i \in Nat /\ j \in Nat /\ k \in Nat
      /\ Padded(i) \in Int /\ Padded(j) \in Int /\ Padded(k) \in Int
  BY <1>1
<1> QED BY <1>2 DEF IdLess

\* sortJobs' order is a strict total order, whatever the clock has shown.
LEMMA JobLessOrder ==
  ASSUME CallsTyped, NEW i \in JobIds, NEW j \in JobIds, NEW k \in JobIds
  PROVE  /\ ~JobLess(i, i)
         /\ JobLess(i, j) /\ JobLess(j, k) => JobLess(i, k)
         /\ i = j \/ JobLess(i, j) \/ JobLess(j, i)
<1>1. call[i].at \in Int /\ call[j].at \in Int /\ call[k].at \in Int
  BY DEF CallsTyped, CallRecs
<1>2. /\ ~IdLess(i, i)
      /\ IdLess(i, j) /\ IdLess(j, k) => IdLess(i, k)
      /\ i = j \/ IdLess(i, j) \/ IdLess(j, i)
  BY IdLessOrder
<1> QED BY <1>1, <1>2 DEF JobLess

LEMMA RankBound ==
  ASSUME CallsTyped, NEW S \in SUBSET JobIds, NEW j \in S
  PROVE  Rank(S, j) \in 0..(Cardinality(S) - 1)
<1> DEFINE L == {k \in S : JobLess(k, j)}
<1>1. L \in SUBSET S /\ j \notin L
  BY JobLessOrder
<1>2. IsFiniteSet(S) /\ Cardinality(S) \in Nat
  BY JobsFinite
<1>3. IsFiniteSet(L) /\ Cardinality(L) <= Cardinality(S) /\ (Cardinality(S) = Cardinality(L) => S = L)
  BY <1>1, <1>2, FS_Subset
<1>4. Cardinality(L) \in Nat
  BY <1>3, FS_CardinalityType
<1>5. S # L
  BY <1>1
<1>6. Rank(S, j) = Cardinality(L)
  BY DEF Rank
<1> HIDE DEF L
<1> QED BY <1>2, <1>3, <1>4, <1>5, <1>6

LEMMA RankLess ==
  ASSUME CallsTyped, NEW S \in SUBSET JobIds, NEW j \in S, NEW k \in S, JobLess(j, k)
  PROVE  Rank(S, j) < Rank(S, k)
<1> DEFINE A == {x \in S : JobLess(x, j)}
           B == {x \in S : JobLess(x, k)}
<1>1. A \in SUBSET B /\ j \in B /\ j \notin A
  BY JobLessOrder
<1>2. B \in SUBSET JobIds /\ A \in SUBSET JobIds
  OBVIOUS
<1>3. Rank(S, j) = Cardinality(A) /\ Rank(S, k) = Cardinality(B)
  BY DEF Rank
<1> HIDE DEF A, B
<1>4. IsFiniteSet(B) /\ Cardinality(B) \in Nat /\ Cardinality(A) \in Nat
  BY <1>2, JobsFinite
<1>5. Cardinality(A) <= Cardinality(B) /\ (Cardinality(B) = Cardinality(A) => B = A)
  BY <1>1, <1>4, FS_Subset
<1> QED BY <1>1, <1>3, <1>4, <1>5

\* Every place of a listing has its job.
LEMMA RankFound ==
  ASSUME CallsTyped, NEW S \in SUBSET JobIds, NEW i \in 1..Cardinality(S)
  PROVE  \E j \in S : Rank(S, j) = i - 1
<1> DEFINE n == Cardinality(S)
           T == 0..(n - 1)
           r == [j \in S |-> Rank(S, j)]
<1>1. IsFiniteSet(S) /\ n \in Nat
  BY JobsFinite
<1>2. IsFiniteSet(T) /\ Cardinality(T) = n
  <2>1. n - 1 \in Int /\ 0 \in Int
    BY <1>1
  <2> HIDE DEF n
  <2>2. IsFiniteSet(T) /\ Cardinality(T) = IF 0 > n - 1 THEN 0 ELSE (n - 1) - 0 + 1
    BY <2>1, FS_Interval
  <2> QED BY <1>1, <2>2
<1>3. r \in [S -> T]
  BY RankBound
<1>4. ASSUME NEW j \in S, NEW k \in S, r[j] = r[k] PROVE j = k
  <2>1. Rank(S, j) = Rank(S, k) /\ Rank(S, j) \in Int
    BY <1>4, RankBound
  <2>2. ~JobLess(j, k) /\ ~JobLess(k, j)
    BY <2>1, RankLess
  <2> QED BY <2>2, JobLessOrder
<1>5. r \in Injection(S, T)
  BY <1>3, <1>4 DEF Injection, IsInjective
<1>6. r \in Surjection(S, T)
  <2> HIDE DEF r, T
  <2>1. Cardinality(S) = Cardinality(T) <=> r \in Surjection(S, T)
    BY <1>2, <1>5, FS_Injection
  <2> QED BY <1>2, <2>1
<1>7. i - 1 \in T
  BY <1>1
<1>8. \E j \in S : r[j] = i - 1
  BY <1>6, <1>7 DEF Surjection
<1> QED BY <1>8

\* There is a listing of any jobs: each has its rank.
LEMMA ListingExists == ASSUME CallsTyped, NEW S \in SUBSET JobIds PROVE sortJobs(S) # {}
<1> DEFINE n == Cardinality(S)
           s == [i \in 1..n |-> CHOOSE x \in S : Rank(S, x) = i - 1]
<1>1. n \in Nat
  BY JobsFinite
<1>2. ASSUME NEW i \in 1..n PROVE s[i] \in S /\ Rank(S, s[i]) = i - 1
  <2>1. \E x \in S : Rank(S, x) = i - 1
    BY RankFound
  <2> QED BY <2>1
<1>3. s \in [1..n -> S] /\ DOMAIN s = 1..n
  BY <1>2
<1> HIDE DEF s
<1>4. ASSUME NEW k \in DOMAIN s, NEW i \in 1..(k - 1) PROVE s[i] # s[k] /\ ~JobLess(s[k], s[i])
  <2>1. k \in 1..n /\ i \in 1..n /\ i < k
    BY <1>1, <1>3, <1>4
  <2>2. s[i] \in S /\ s[k] \in S /\ Rank(S, s[i]) = i - 1 /\ Rank(S, s[k]) = k - 1
    BY <1>2, <2>1
  <2>3. JobLess(s[k], s[i]) => Rank(S, s[k]) < Rank(S, s[i])
    BY <2>2, RankLess
  <2> QED BY <2>1, <2>2, <2>3
<1>5. s \in sortJobs(S)
  BY <1>3, <1>4 DEF sortJobs
<1> QED BY <1>5

\* What a listing shows first is not the greater job.
LEMMA ShownInOrder ==
  ASSUME NEW S \in SUBSET JobIds, NEW s \in sortJobs(S), NEW i, NEW k, Before(s, i, k)
  PROVE  i \in S /\ k \in S /\ i # k /\ ~JobLess(k, i)
<1>1. Cardinality(S) \in Nat
  BY JobsFinite
<1>2. /\ s \in [1..Cardinality(S) -> S]
      /\ \A b \in DOMAIN s : \A a \in 1..(b - 1) : s[a] # s[b] /\ ~JobLess(s[b], s[a])
  BY DEF sortJobs
<1>3. Len(s) = Cardinality(S)
  BY <1>1, <1>2
<1>4. PICK a, b \in 1..Len(s) : a < b /\ s[a] = i /\ s[b] = k
  BY DEF Before
<1>5. b \in DOMAIN s /\ a \in 1..(b - 1)
  BY <1>1, <1>2, <1>3, <1>4
<1> QED BY <1>2, <1>3, <1>4, <1>5

\* A listing is one of jobs the manager has.
LEMMA ListingOf ==
  ASSUME NEW s \in Listings
  PROVE  \E S \in SUBSET JobIds : s \in sortJobs(S) /\ \A x \in S : jobs[x].status # "absent"
<1>1. PICK request \in Requests : s \in ListJobs(request)
  BY DEF Listings
<1>2. PICK S : S = Listed(jobStatusFromProto(request))
  OBVIOUS
<1>3. S \in SUBSET JobIds /\ \A x \in S : jobs[x].status # "absent"
  BY <1>2 DEF Listed
<1>4. s \in sortJobs(S)
  BY <1>1, <1>2 DEF ListJobs
<1> QED BY <1>3, <1>4

-------------------------------------------------------------------------------
(* The manager's steps, as submissions see them *)

\* Whatever the rest of the system does, no job appears, vanishes or changes its
\* request, and none joins the queue.
LEMMA WorkLeaves ==
  ASSUME JMInv, JMWork
  PROVE  /\ JMInv'
         /\ \A j \in JobIds : /\ (jobs'[j].status = "absent") <=> (jobs[j].status = "absent")
                              /\ jobs'[j].spec = jobs[j].spec
         /\ \A x : Contains(pending', x) => Contains(pending, x)
         /\ KeepsOrder(pending, pending')
<1>1. [ApiNext]_jmVars
  BY DEF ApiNext, JMNext
<1>2. JMInv' /\ KeepsOrder(pending, pending')
  BY <1>1, ApiNextInv, ApiKeepsOrder
<1>3. ASSUME NEW id \in JobIds, NEW from, NEW to, CanTransition(from, to)
      PROVE  from \notin {"absent"} /\ to \notin {"absent", "pending"}
  BY <1>3 DEF CanTransition
<1> DEFINE Same(j) == /\ (jobs'[j].status = "absent") <=> (jobs[j].status = "absent")
                      /\ jobs'[j].spec = jobs[j].spec
<1>4. ASSUME NEW id \in JobIds, NEW to, NEW exit, Finish(id, to, exit) PROVE \A j \in JobIds : Same(j)
  BY <1>3, <1>4 DEF Finish, JMInv, JMTypeOK, JobRecords
<1>5. ASSUME NEW id \in JobIds, NEW gang, MarkRunning(id, gang) PROVE \A j \in JobIds : Same(j)
  BY <1>3, <1>5 DEF MarkRunning, JMInv, JMTypeOK, JobRecords
<1>6. ASSUME NEW id \in JobIds, Cancel(id) PROVE \A j \in JobIds : Same(j)
  BY <1>3, <1>6 DEF Cancel, JMInv, JMTypeOK, JobRecords
<1>7. ASSUME jobs' = jobs PROVE \A j \in JobIds : Same(j)
  BY <1>7
<1>8. \A j \in JobIds : Same(j)
  <2> HIDE DEF Same
  <2> QED BY <1>4, <1>5, <1>6, <1>7
      DEF JMWork, MarkFailed, FailRunningJob, ReportNodeEvent, IgnoreReport, AcceptReport, jmVars
<1>9. \A x : Contains(pending', x) => Contains(pending, x)
  <2>1. pending \in Seq(JobIds) /\ NoDuplicates(pending)
    BY DEF JMInv, JMTypeOK, QueueIsPending
  <2>2. pending' = pending \/ \E id \in JobIds : pending' = removePending(pending, id)
    BY DEF JMWork, MarkRunning, MarkFailed, FailRunningJob, Cancel, ReportNodeEvent, IgnoreReport,
           AcceptReport, jmVars
  <2> QED BY <2>1, <2>2, RemovePendingExact
<1> QED BY <1>2, <1>8, <1>9

\* A queue that keeps its order keeps each pair of its jobs in order.
LEMMA BeforeKept ==
  ASSUME NEW q \in Seq(JobIds), NEW r \in Seq(JobIds), NoDuplicates(q), KeepsOrder(q, r),
         NEW j, NEW k, Contains(r, j), Contains(r, k), Before(q, j, k)
  PROVE  Before(r, j, k)
<1>1. PICK a, b \in 1..Len(q) : a < b /\ q[a] = j /\ q[b] = k
  BY DEF Before
<1>2. PICK c \in 1..Len(r) : r[c] = j
  BY DEF Contains
<1>3. PICK d \in 1..Len(r) : r[d] = k
  BY DEF Contains
<1>4. Contains(q, j)
  BY <1>1 DEF Contains
<1>5. c # d
  BY <1>1, <1>2, <1>3 DEF NoDuplicates
<1>6. ASSUME d < c PROVE FALSE
  <2>1. PICK x, y \in 1..Len(q) : x < y /\ q[x] = k /\ q[y] = j
    BY <1>2, <1>3, <1>4, <1>6 DEF KeepsOrder
  <2>2. x = b /\ y = a
    BY <1>1, <2>1 DEF NoDuplicates
  <2> QED BY <1>1, <2>1, <2>2
<1>7. c < d
  BY <1>5, <1>6
<1> QED BY <1>2, <1>3, <1>7 DEF Before

\* A job that joins the queue does so behind all others.
LEMMA JoinsLast ==
  ASSUME NEW q \in Seq(JobIds), NEW k \in JobIds, NEW j, j # k, Contains(Append(q, k), j)
  PROVE  Before(Append(q, k), j, k)
<1> DEFINE r == Append(q, k)
<1>1. /\ Len(r) = Len(q) + 1 /\ Len(q) \in Nat /\ r[Len(q) + 1] = k
      /\ \A i \in 1..Len(q) : r[i] = q[i]
  BY AppendProperties
<1>2. PICK i \in 1..Len(r) : r[i] = j
  BY DEF Contains
<1> HIDE DEF r
<1>3. i < Len(q) + 1 /\ Len(q) + 1 \in 1..Len(r)
  BY <1>1, <1>2
<1> QED BY <1>1, <1>2, <1>3 DEF Before, r

-------------------------------------------------------------------------------
(* The steps of a submission *)

\* What a step of j makes of its call.
LEMMA CallUpdate ==
  ASSUME CallsTyped, NEW j \in JobIds, NEW rec \in CallRecs, call' = [call EXCEPT ![j] = rec]
  PROVE  /\ call' \in [JobIds -> CallRecs]
         /\ call'[j] = rec
         /\ \A k \in JobIds \ {j} : call'[k] = call[k]
BY DEF CallsTyped

LEMMA Moved ==
  ASSUME NEW c \in CallRecs, NEW p \in {"new", "stored", "answered"}, NEW d,
         d = [c EXCEPT !.pc = p]
  PROVE  d \in CallRecs /\ d.pc = p /\ d.ask = c.ask /\ d.at = c.at /\ d.after = c.after
BY DEF CallRecs

LEMMA Dated ==
  ASSUME NEW c \in CallRecs, NEW t \in Int, NEW d, d = [c EXCEPT !.at = t]
  PROVE  d \in CallRecs /\ d.pc = c.pc /\ d.ask = c.ask /\ d.at = t /\ d.after = c.after
BY DEF CallRecs

\* The later steps change the place, and SubmitNew the stamp.
LEMMA CallMoves ==
  ASSUME CallsTyped, NEW j \in JobIds, NEW p \in {"new", "stored", "answered"}, NEW t \in Int,
         \/ call' = [call EXCEPT ![j].pc = p] /\ t = call[j].at
         \/ call' = [call EXCEPT ![j].pc = p, ![j].at = t]
  PROVE  /\ call' \in [JobIds -> CallRecs]
         /\ call'[j].pc = p /\ call'[j].ask = call[j].ask
         /\ call'[j].at = t /\ call'[j].after = call[j].after
         /\ \A k \in JobIds \ {j} : call'[k] = call[k]
<1> DEFINE one == [call[j] EXCEPT !.pc = p]
           two == [one EXCEPT !.at = t]
<1>1. call[j] \in CallRecs /\ call \in [JobIds -> CallRecs]
  BY DEF CallsTyped
<1>2. /\ one \in CallRecs /\ one.pc = p /\ one.ask = call[j].ask
      /\ one.at = call[j].at /\ one.after = call[j].after
  <2>1. one = [call[j] EXCEPT !.pc = p]
    OBVIOUS
  <2> HIDE DEF one
  <2> QED BY <1>1, <2>1, Moved
<1> HIDE DEF one
<1>3. /\ two \in CallRecs /\ two.pc = p /\ two.ask = call[j].ask
      /\ two.at = t /\ two.after = call[j].after
  <2>1. two = [one EXCEPT !.at = t]
    OBVIOUS
  <2> HIDE DEF two
  <2> QED BY <1>2, <2>1, Dated
<1> HIDE DEF two
<1>4. CASE call' = [call EXCEPT ![j].pc = p] /\ t = call[j].at
  <2>1. call' = [call EXCEPT ![j] = one]
    BY <1>1, <1>4 DEF one
  <2> QED BY <1>2, <1>4, <2>1, CallUpdate
<1>5. CASE call' = [call EXCEPT ![j].pc = p, ![j].at = t]
  <2>1. call' = [call EXCEPT ![j] = two]
    BY <1>1, <1>5 DEF one, two
  <2> QED BY <1>3, <2>1, CallUpdate
<1> QED BY <1>4, <1>5

\* The manager is not called.
LEMMA ManagerRests ==
  ASSUME JMInv, UNCHANGED jmVars
  PROVE  JMInv'
BY DEF jmVars, JMInv, JMTypeOK, QueueIsPending, SomeoneStillOwes, HasReported

\* The queue's order is about calls that were made before, and these stay.
LEMMA QueueRests ==
  ASSUME QueueInOrder, pending' = pending,
         \A k \in JobIds : \A j \in call'[k].after :
           (Contains(pending, j) /\ Contains(pending, k)) => j \in call[k].after
  PROVE  QueueInOrder'
BY DEF QueueInOrder

LEMMA DrawInv ==
  ASSUME ClientInv, NEW j \in JobIds, SubmitDraw(j)
  PROVE  ClientInv'
<1>1. PICK ask \in Asks :
        /\ Validate(specFromProto(ask))
        /\ call' = [call EXCEPT ![j] = [pc |-> "drawn", ask |-> ask, at |-> 0,
                                        after |-> {k \in JobIds : call[k].pc = "answered"}]]
  BY DEF SubmitDraw
<1> DEFINE done == {k \in JobIds : call[k].pc = "answered"}
           rec == [pc |-> "drawn", ask |-> ask, at |-> 0, after |-> done]
<1>2. rec \in CallRecs /\ rec.pc = "drawn" /\ rec.ask = ask /\ rec.at = 0 /\ rec.after = done
  BY DEF CallRecs
<1>3. CallsTyped
  BY DEF ClientInv, CallInv
<1>4. call' = [call EXCEPT ![j] = rec]
  BY <1>1
<1> HIDE DEF rec
<1>5. /\ call' \in [JobIds -> CallRecs] /\ call'[j] = rec
      /\ \A k \in JobIds \ {j} : call'[k] = call[k]
  BY <1>2, <1>3, <1>4, CallUpdate
<1>6. j = idSeq + 1 /\ idSeq' = j /\ UNCHANGED jmVars /\ idSeq \in Nat /\ j \in Nat
  BY <1>3, JobIdsAssumption DEF SubmitDraw, CallsTyped
<1>7. call[j].pc = "none" /\ j \notin done
  BY <1>6 DEF ClientInv, CallInv, IdsAreFresh
<1>8. CallsTyped'
  BY <1>3, <1>5, <1>6 DEF CallsTyped
<1>9. IdsAreFresh'
  <2>1. \A k \in JobIds : k > idSeq + 1 => k > idSeq /\ k # j
    BY <1>6, JobIdsAssumption
  <2> QED BY <1>5, <1>6, <2>1 DEF ClientInv, CallInv, IdsAreFresh
<1>10. CallMeansJob'
  <2>1. UNCHANGED jobs
    BY <1>6 DEF jmVars
  <2>2. jobs[j].status = "absent"
    BY <1>7 DEF ClientInv, CallInv, CallMeansJob
  <2> QED BY <1>1, <1>2, <1>5, <2>1, <2>2 DEF ClientInv, CallInv, CallMeansJob
<1>11. AfterAnswered'
  <2>1. \A k \in JobIds : \A i \in call[k].after : i # j /\ i \in JobIds
    BY <1>3, <1>7 DEF ClientInv, CallInv, AfterAnswered, CallsTyped, CallRecs
  <2>2. \A i \in done : i # j /\ i \in JobIds /\ call[i].pc = "answered"
    BY <1>7
  <2> QED BY <1>2, <1>5, <2>1, <2>2 DEF ClientInv, CallInv, AfterAnswered
<1>12. QueueInOrder'
  <2>1. ~Contains(pending, j)
    BY <1>7 DEF ClientInv, JMInv, QueueIsPending, CallInv, CallMeansJob
  <2>2. pending' = pending
    BY <1>6 DEF jmVars
  <2> QED BY <1>5, <2>1, <2>2, QueueRests DEF ClientInv
<1>13. JMInv'
  BY <1>6, ManagerRests DEF ClientInv
<1> QED BY <1>8, <1>9, <1>10, <1>11, <1>12, <1>13 DEF ClientInv, CallInv

\* Moving on changes nothing that was said of the calls before.
LEMMA AfterKept ==
  ASSUME ClientInv, NEW j \in JobIds, call[j].pc # "answered",
         \A k \in JobIds : call'[k].after = call[k].after,
         \A k \in JobIds \ {j} : call'[k] = call[k]
  PROVE  AfterAnswered'
<1>1. \A k \in JobIds : call[k].after \subseteq JobIds
  BY DEF ClientInv, CallInv, CallsTyped, CallRecs
<1> QED BY <1>1 DEF ClientInv, CallInv, AfterAnswered

LEMMA NewInv ==
  ASSUME ClientInv, NEW j \in JobIds, SubmitNew(j)
  PROVE  ClientInv'
<1>1. CallsTyped
  BY DEF ClientInv, CallInv
<1>2. PICK now \in Times : call' = [call EXCEPT ![j].pc = "new", ![j].at = now]
  BY DEF SubmitNew
<1>3. call[j].pc = "drawn" /\ now \in Int /\ UNCHANGED <<jmVars, idSeq>>
  BY ClientAssumption DEF SubmitNew
<1>4. /\ call' \in [JobIds -> CallRecs]
      /\ call'[j].pc = "new" /\ call'[j].ask = call[j].ask
      /\ call'[j].at = now /\ call'[j].after = call[j].after
      /\ \A k \in JobIds \ {j} : call'[k] = call[k]
  BY <1>1, <1>2, <1>3, CallMoves
<1>5. CallsTyped'
  BY <1>1, <1>3, <1>4 DEF CallsTyped
<1>6. IdsAreFresh'
  BY <1>3, <1>4 DEF ClientInv, CallInv, IdsAreFresh
<1>7. CallMeansJob'
  BY <1>3, <1>4 DEF ClientInv, CallInv, CallMeansJob, jmVars
<1>8. \A k \in JobIds : call'[k].after = call[k].after
  BY <1>4
<1>9. AfterAnswered'
  BY <1>3, <1>4, <1>8, AfterKept
<1>10. QueueInOrder'
  BY <1>3, <1>8, QueueRests DEF ClientInv, jmVars
<1>11. JMInv'
  BY <1>3, ManagerRests DEF ClientInv
<1> QED BY <1>5, <1>6, <1>7, <1>9, <1>10, <1>11 DEF ClientInv, CallInv

LEMMA StoreInv ==
  ASSUME ClientInv, NEW j \in JobIds, SubmitStore(j)
  PROVE  ClientInv' /\ [JMNext]_jmVars
<1> DEFINE spec == specFromProto(call[j].ask)
<1>1. CallsTyped /\ JMInv
  BY DEF ClientInv, CallInv
<1>2. /\ call[j].pc = "new" /\ Submit(j, spec)
      /\ call' = [call EXCEPT ![j].pc = "stored"]
      /\ UNCHANGED idSeq
  BY DEF SubmitStore
<1>3. /\ call' \in [JobIds -> CallRecs]
      /\ call'[j].pc = "stored" /\ call'[j].ask = call[j].ask
      /\ call'[j].at = call[j].at /\ call'[j].after = call[j].after
      /\ \A k \in JobIds \ {j} : call'[k] = call[k]
  <2>1. call[j].at \in Int
    BY <1>1 DEF CallsTyped, CallRecs
  <2> QED BY <1>1, <1>2, <2>1, CallMoves
<1>4. call[j].ask \in Asks /\ Validate(spec) /\ spec \in Specs
  BY <1>2, RequestsAssumption DEF ClientInv, CallInv, CallMeansJob
<1> HIDE DEF spec
<1>5. JMNext
  BY <1>2, <1>4 DEF JMNext
<1>6. JMInv'
  BY <1>1, <1>2, <1>4, SubmitInv
<1>7. /\ jobs[j].status = "absent" /\ pending' = Append(pending, j)
      /\ jobs'[j].status = "pending" /\ jobs'[j].spec = spec
      /\ \A k \in JobIds \ {j} : jobs'[k] = jobs[k]
  BY <1>1, <1>2 DEF Submit, NewJob, JMInv, JMTypeOK
<1>8. CallsTyped'
  BY <1>1, <1>2, <1>3 DEF CallsTyped
<1>9. IdsAreFresh'
  BY <1>2, <1>3 DEF ClientInv, CallInv, IdsAreFresh
<1>10. CallMeansJob'
  BY <1>2, <1>3, <1>7 DEF ClientInv, CallInv, CallMeansJob, spec
<1>11. AfterAnswered'
  <2>1. \A k \in JobIds : call'[k].after = call[k].after
    BY <1>3
  <2> QED BY <1>2, <1>3, <2>1, AfterKept
<1>12. QueueInOrder'
  <2> SUFFICES ASSUME NEW k \in JobIds, NEW i \in call[k].after,
                      Contains(pending', i), Contains(pending', k)
               PROVE  Before(pending', i, k)
    BY <1>3 DEF QueueInOrder
  <2>1. i \in JobIds /\ call[i].pc = "answered" /\ i # j
    BY <1>1, <1>2 DEF ClientInv, CallInv, AfterAnswered, CallsTyped, CallRecs
  <2>2. pending \in Seq(JobIds) /\ NoDuplicates(pending) /\ ~Contains(pending, j)
    BY <1>1, <1>7 DEF JMInv, JMTypeOK, QueueIsPending
  <2>3. CASE k = j
    BY <1>7, <2>1, <2>2, <2>3, JoinsLast
  <2>4. CASE k # j
    <3>1. /\ pending' \in Seq(JobIds) /\ KeepsOrder(pending, pending')
          /\ Contains(pending, i) /\ Contains(pending, k)
      BY <1>7, <2>1, <2>2, <2>4, AppendFresh
    <3>2. Before(pending, i, k)
      BY <3>1 DEF ClientInv, QueueInOrder
    <3> QED BY <2>2, <3>1, <3>2, BeforeKept
  <2> QED BY <2>3, <2>4
<1> QED BY <1>5, <1>6, <1>8, <1>9, <1>10, <1>11, <1>12 DEF ClientInv, CallInv

LEMMA AnswerInv ==
  ASSUME ClientInv, NEW j \in JobIds, SubmitAnswer(j)
  PROVE  ClientInv'
<1>1. CallsTyped
  BY DEF ClientInv, CallInv
<1>2. /\ call[j].pc = "stored"
      /\ call' = [call EXCEPT ![j].pc = "answered"]
      /\ UNCHANGED <<jmVars, idSeq>>
  BY DEF SubmitAnswer
<1>3. /\ call' \in [JobIds -> CallRecs]
      /\ call'[j].pc = "answered" /\ call'[j].ask = call[j].ask
      /\ call'[j].at = call[j].at /\ call'[j].after = call[j].after
      /\ \A k \in JobIds \ {j} : call'[k] = call[k]
  <2>1. call[j].at \in Int
    BY <1>1 DEF CallsTyped, CallRecs
  <2> QED BY <1>1, <1>2, <2>1, CallMoves
<1>4. CallsTyped'
  BY <1>1, <1>2, <1>3 DEF CallsTyped
<1>5. IdsAreFresh'
  BY <1>2, <1>3 DEF ClientInv, CallInv, IdsAreFresh
<1>6. CallMeansJob'
  BY <1>2, <1>3 DEF ClientInv, CallInv, CallMeansJob, jmVars
<1>7. \A k \in JobIds : call'[k].after = call[k].after
  BY <1>3
<1>8. AfterAnswered'
  BY <1>2, <1>3, <1>7, AfterKept
<1>9. QueueInOrder'
  BY <1>2, <1>7, QueueRests DEF ClientInv, jmVars
<1>10. JMInv'
  BY <1>2, ManagerRests DEF ClientInv
<1> QED BY <1>4, <1>5, <1>6, <1>8, <1>9, <1>10 DEF ClientInv, CallInv

LEMMA WorkInv ==
  ASSUME ClientInv, JMWork, UNCHANGED <<idSeq, call>>
  PROVE  ClientInv'
<1>1. /\ JMInv' /\ JMInv
      /\ \A j \in JobIds : /\ (jobs'[j].status = "absent") <=> (jobs[j].status = "absent")
                           /\ jobs'[j].spec = jobs[j].spec
      /\ \A x : Contains(pending', x) => Contains(pending, x)
      /\ KeepsOrder(pending, pending')
  BY WorkLeaves DEF ClientInv
<1>2. CallsTyped' /\ IdsAreFresh' /\ AfterAnswered'
  BY DEF ClientInv, CallInv, CallsTyped, IdsAreFresh, AfterAnswered
<1>3. CallMeansJob'
  BY <1>1 DEF ClientInv, CallInv, CallMeansJob
<1>4. QueueInOrder'
  <2> SUFFICES ASSUME NEW k \in JobIds, NEW i \in call[k].after,
                      Contains(pending', i), Contains(pending', k)
               PROVE  Before(pending', i, k)
    BY DEF QueueInOrder
  <2>1. /\ pending \in Seq(JobIds) /\ NoDuplicates(pending) /\ pending' \in Seq(JobIds)
    BY <1>1 DEF JMInv, JMTypeOK, QueueIsPending
  <2>2. Before(pending, i, k)
    BY <1>1 DEF ClientInv, QueueInOrder
  <2> QED BY <1>1, <2>1, <2>2, BeforeKept
<1> QED BY <1>1, <1>2, <1>3, <1>4 DEF ClientInv, CallInv

LEMMA ClientNextInv == ClientInv /\ [ClientNext]_clientVars => ClientInv' /\ [JMNext]_jmVars
<1> SUFFICES ASSUME ClientInv, [ClientNext]_clientVars PROVE ClientInv' /\ [JMNext]_jmVars
  OBVIOUS
<1>1. ASSUME NEW j \in JobIds, SubmitDraw(j) \/ SubmitNew(j) \/ SubmitAnswer(j)
      PROVE  ClientInv' /\ UNCHANGED jmVars
  <2>1. ClientInv'
    BY <1>1, DrawInv, NewInv, AnswerInv
  <2>2. UNCHANGED jmVars
    BY <1>1 DEF SubmitDraw, SubmitNew, SubmitAnswer
  <2> QED BY <2>1, <2>2
<1>2. ASSUME NEW j \in JobIds, SubmitStore(j) PROVE ClientInv' /\ [JMNext]_jmVars
  BY <1>2, StoreInv
<1>3. CASE JMWork /\ UNCHANGED <<idSeq, call>>
  BY <1>3, WorkInv DEF JMNext
<1>4. CASE UNCHANGED clientVars
  <2>1. UNCHANGED <<idSeq, call>> /\ UNCHANGED jmVars
    BY <1>4 DEF clientVars
  <2>2. JMInv'
    BY <2>1, ManagerRests DEF ClientInv
  <2>3. CallInv' /\ QueueInOrder'
    BY <2>1 DEF jmVars, ClientInv, CallInv, CallsTyped, IdsAreFresh, CallMeansJob, AfterAnswered,
                QueueInOrder
  <2> QED BY <2>1, <2>2, <2>3 DEF ClientInv
<1> QED BY <1>1, <1>2, <1>3, <1>4 DEF ClientNext

LEMMA ClientInitInv == ClientInit => ClientInv
<1> SUFFICES ASSUME ClientInit PROVE ClientInv
  OBVIOUS
<1>1. NoCall \in CallRecs /\ NoCall.pc = "none" /\ NoCall.after = {}
  BY DEF NoCall, CallRecs
<1>2. /\ call = [j \in JobIds |-> NoCall] /\ idSeq = FirstId /\ FirstId \in Nat
      /\ \A j \in JobIds : call[j] = NoCall
  BY ClientAssumption DEF ClientInit
<1>3. CallsTyped
  BY <1>1, <1>2 DEF CallsTyped
<1>4. IdsAreFresh /\ AfterAnswered /\ QueueInOrder
  BY <1>1, <1>2 DEF IdsAreFresh, AfterAnswered, QueueInOrder
<1>5. \A j \in JobIds : jobs[j].status = "absent"
  BY DEF ClientInit, JMInit, NoJobRecord
<1>6. CallMeansJob
  BY <1>1, <1>2, <1>5 DEF CallMeansJob
<1>7. JMInv
  BY JMInitInv DEF ClientInit
<1> QED BY <1>3, <1>4, <1>6, <1>7 DEF ClientInv, CallInv

\* The stamp of a job in the table stays: it was read before the job was stored.
LEMMA StampsStay ==
  ASSUME ClientInv, [ClientNext]_clientVars, NEW j \in JobIds, jobs[j].status # "absent"
  PROVE  call'[j].at = call[j].at
<1>1. CallsTyped /\ call[j].pc \in {"stored", "answered"} /\ call[j].at \in Int
  BY DEF ClientInv, CallInv, CallMeansJob, CallsTyped, CallRecs
<1>2. ASSUME NEW k \in JobIds, SubmitDraw(k) PROVE call'[j].at = call[j].at
  <2>1. PICK rec : call' = [call EXCEPT ![k] = rec]
    BY <1>2 DEF SubmitDraw
  <2>2. call[k].pc = "none" /\ k # j
    <3>1. k > idSeq
      BY <1>1, <1>2 DEF SubmitDraw, CallsTyped
    <3> QED BY <1>1, <3>1 DEF ClientInv, CallInv, IdsAreFresh
  <2> QED BY <1>1, <2>1, <2>2 DEF CallsTyped
<1>3. ASSUME NEW k \in JobIds, SubmitNew(k) PROVE call'[j].at = call[j].at
  <2>1. PICK now \in Times : call' = [call EXCEPT ![k].pc = "new", ![k].at = now]
    BY <1>3 DEF SubmitNew
  <2>2. k # j
    BY <1>1, <1>3 DEF SubmitNew
  <2> QED BY <1>1, <2>1, <2>2 DEF CallsTyped
<1>4. ASSUME NEW k \in JobIds, SubmitStore(k) \/ SubmitAnswer(k) PROVE call'[j].at = call[j].at
  <2>1. PICK p \in {"stored", "answered"} : call' = [call EXCEPT ![k].pc = p]
    BY <1>4 DEF SubmitStore, SubmitAnswer
  <2>2. CASE k = j
    BY <1>1, <2>1, <2>2, CallMoves
  <2>3. CASE k # j
    BY <1>1, <2>1, <2>3 DEF CallsTyped
  <2> QED BY <2>2, <2>3
<1>5. CASE UNCHANGED call
  BY <1>5
<1> QED BY <1>2, <1>3, <1>4, <1>5 DEF ClientNext, clientVars

\* A listing and one after the next step show two jobs in the same order.
LEMMA StepAgrees ==
  ASSUME ClientInv, ClientInv', [ClientNext]_clientVars,
         NEW s \in Listings, NEW t \in Listings', NEW i \in DOMAIN s, NEW k \in DOMAIN s, i < k
  PROVE  ~Before(t, s[k], s[i])
<1> SUFFICES ASSUME Before(t, s[k], s[i]) PROVE FALSE
  OBVIOUS
<1>1. PICK S \in SUBSET JobIds : s \in sortJobs(S) /\ \A x \in S : jobs[x].status # "absent"
  BY ListingOf
<1>2. /\ s[i] \in S /\ s[k] \in S /\ s[i] # s[k] /\ ~JobLess(s[k], s[i])
  <2>1. Cardinality(S) \in Nat
    BY JobsFinite
  <2>2. s \in [1..Cardinality(S) -> S]
    BY <1>1 DEF sortJobs
  <2>3. Before(s, s[i], s[k])
    BY <2>1, <2>2 DEF Before
  <2> QED BY <1>1, <2>3, ShownInOrder
<1>3. CallsTyped /\ CallsTyped'
  BY DEF ClientInv, CallInv
<1>4. JobLess(s[i], s[k])
  BY <1>2, <1>3, JobLessOrder
<1>5. call'[s[i]].at = call[s[i]].at /\ call'[s[k]].at = call[s[k]].at
  BY <1>1, <1>2, StampsStay
<1> DEFINE Less(x, y) == \/ call'[x].at < call'[y].at
                         \/ call'[x].at = call'[y].at /\ IdLess(x, y)
<1>6. PICK T \in SUBSET JobIds : /\ t \in [1..Cardinality(T) -> T]
                                 /\ \A b \in DOMAIN t : \A a \in 1..(b - 1) : ~Less(t[b], t[a])
  <2>1. PICK request \in Requests : t \in ListJobs(request)'
    BY DEF Listings
  <2>2. PICK T : T = Listed(jobStatusFromProto(request))'
    OBVIOUS
  <2>3. T \in SUBSET JobIds
    BY <2>2 DEF Listed
  <2>4. /\ t \in [1..Cardinality(T) -> T]
        /\ \A b \in DOMAIN t : \A a \in 1..(b - 1) : ~Less(t[b], t[a])
    BY <2>1, <2>2 DEF ListJobs, sortJobs, JobLess
  <2> QED BY <2>3, <2>4
<1>7. PICK a, b \in 1..Len(t) : a < b /\ t[a] = s[k] /\ t[b] = s[i]
  BY DEF Before
<1>8. b \in DOMAIN t /\ a \in 1..(b - 1)
  <2>1. Cardinality(T) \in Nat
    BY JobsFinite
  <2>2. Len(t) = Cardinality(T) /\ DOMAIN t = 1..Cardinality(T)
    BY <1>6, <2>1
  <2> QED BY <1>7, <2>1, <2>2
<1>9. ~Less(s[i], s[k])
  BY <1>6, <1>7, <1>8
<1> QED BY <1>4, <1>5, <1>9 DEF JobLess

-------------------------------------------------------------------------------
(* The theorems *)

\* SubmitJob (server.go) uses the job manager the way JobManager assumes, so the queue
\* invariant, first come first served and the finality of outcomes hold for clients;
\* and flags are narrowed before they are validated, for integers of any width.
THEOREM ClientUsesManager == ClientSpec => ClientsUseManagerRight
<1>1. ClientInit => ClientInv /\ JMInit
  BY ClientInitInv DEF ClientInit
<1>2. ClientInv /\ [ClientNext]_clientVars => ClientInv' /\ [JMNext]_jmVars
  BY ClientNextInv
<1> QED BY <1>1, <1>2, PTL DEF ClientSpec, ClientsUseManagerRight, JMSpec

\* Whoever submits one job after the other was answered stands behind it in the queue
\* (manager.go), whatever the clock shows and however the submissions of others
\* interleave.
THEOREM OrderOfSubmission == ClientSpec => []SubmissionOrderKept
<1>1. ClientInit => ClientInv
  BY ClientInitInv
<1>2. ClientInv /\ [ClientNext]_clientVars => ClientInv'
  BY ClientNextInv
<1>3. ClientInv => SubmissionOrderKept
  BY DEF ClientInv, QueueInOrder, SubmissionOrderKept
<1> QED BY <1>1, <1>2, <1>3, PTL DEF ClientSpec

\* Listings (ListJobs in server.go, sortJobs in convert.go) agree with one another on
\* any ids and any readings of the wall clock: equal stamps and stamps that run
\* against the order of submission included.
THEOREM ListingsKeepOrder == ClientSpec => ListingsAgree
<1>1. ClientInit => ClientInv
  BY ClientInitInv
<1>2. ClientInv /\ [ClientNext]_clientVars => ClientInv'
  BY ClientNextInv
<1>3. ASSUME ClientInv, ClientInv', [ClientNext]_clientVars
      PROVE  [\A s \in Listings, t \in Listings' :
                \A i, k \in DOMAIN s : i < k => ~Before(t, s[k], s[i])]_clientVars
  BY <1>3, StepAgrees
<1> QED BY <1>1, <1>2, <1>3, PTL DEF ClientSpec, ListingsAgree
===============================================================================
