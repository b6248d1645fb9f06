------------------------------ MODULE ClusterProofs ------------------------------
(***************************************************************************)
(* Controller and agents together, for any number of nodes, jobs, streams  *)
(* and faults: what is proved of the controller, of the hub and of an      *)
(* agent holds where they meet, no node is sent a job twice, a job the     *)
(* client is told has completed has run everywhere, and no agent stops a   *)
(* task without cause.                                                     *)
(***************************************************************************)
EXTENDS Cluster, MCAgent, QuietProofs

-------------------------------------------------------------------------------
(* An assignment waits in one place *)

OnceIn(q) == \A i, k \in 1..Len(q) : q[i] = q[k] /\ q[i].kind = "assign" => i = k

\* No assignment is in one queue or channel twice, nor in two of the same node.
MailOnce ==
  /\ \A n \in Nodes : OnceIn(queue[n])
  /\ \A s \in Streams : OnceIn(chan[s].buf)
  /\ \A n \in Nodes, j \in JobIds, s \in Streams :
       chan[s].node = n /\ Contains(chan[s].buf, Assign(j)) =>
         /\ ~Contains(queue[n], Assign(j))
         /\ \A r \in Streams : chan[r].node = n /\ Contains(chan[r].buf, Assign(j)) => r = s

\* The step puts nothing into the mail.
NoNewMail == \A n \in Nodes, m \in Msgs : InMail(n, m)' => InMail(n, m)

LEMMA AppendHas ==
  ASSUME NEW q \in Seq(Msgs), NEW m \in Msgs
  PROVE  /\ \A x : Contains(Append(q, m), x) <=> Contains(q, x) \/ x = m
         /\ OnceIn(q) /\ (m.kind = "assign" => ~Contains(q, m)) => OnceIn(Append(q, m))
<1>1. Len(Append(q, m)) = Len(q) + 1 /\ Len(q) \in Nat
      /\ \A i \in 1..Len(q) : Append(q, m)[i] = q[i]
      /\ Append(q, m)[Len(q) + 1] = m
  BY AppendProperties
<1>2. \A x : Contains(Append(q, m), x) <=> Contains(q, x) \/ x = m
  <2>1. ASSUME NEW x, NEW i \in 1..(Len(q) + 1), Append(q, m)[i] = x, ~Contains(q, x)
        PROVE  x = m
    BY <1>1, <2>1 DEF Contains
  <2>2. \A x : Contains(q, x) => Contains(Append(q, m), x)
    BY <1>1 DEF Contains
  <2>3. Contains(Append(q, m), m)
    BY <1>1 DEF Contains
  <2> QED BY <1>1, <2>1, <2>2, <2>3 DEF Contains
<1>3. ASSUME OnceIn(q), m.kind = "assign" => ~Contains(q, m) PROVE OnceIn(Append(q, m))
  BY <1>1, <1>3 DEF OnceIn, Contains
<1> QED BY <1>2, <1>3

LEMMA TailHas ==
  ASSUME NEW q \in Seq(Msgs), q # <<>>
  PROVE  /\ Head(q) \in Msgs
         /\ \A x : Contains(q, x) <=> Contains(Tail(q), x) \/ x = Head(q)
         /\ OnceIn(q) => /\ OnceIn(Tail(q))
                         /\ Head(q).kind = "assign" => ~Contains(Tail(q), Head(q))
<1>1. Len(q) \in Nat \ {0} /\ Tail(q) \in Seq(Msgs) /\ Len(Tail(q)) = Len(q) - 1
      /\ Head(q) = q[1] /\ \A i \in 1..(Len(q) - 1) : Tail(q)[i] = q[i + 1]
  OBVIOUS
<1>2. \A x : Contains(q, x) <=> Contains(Tail(q), x) \/ x = Head(q)
  <2>1. ASSUME NEW x, NEW i \in 1..Len(q), q[i] = x, x # Head(q) PROVE Contains(Tail(q), x)
    <3>1. i - 1 \in 1..(Len(q) - 1)
      BY <1>1, <2>1
    <3>2. Tail(q)[i - 1] = q[i]
      BY <1>1, <3>1
    <3> QED BY <1>1, <2>1, <3>1, <3>2 DEF Contains
  <2>2. ASSUME NEW i \in 1..(Len(q) - 1) PROVE Contains(q, Tail(q)[i])
    <3>1. i + 1 \in 1..Len(q) /\ Tail(q)[i] = q[i + 1]
      BY <1>1
    <3> QED BY <3>1 DEF Contains
  <2>3. Contains(q, Head(q))
    BY <1>1 DEF Contains
  <2> QED BY <1>1, <2>1, <2>2, <2>3 DEF Contains
<1>3. ASSUME OnceIn(q) PROVE OnceIn(Tail(q)) /\ (Head(q).kind = "assign" => ~Contains(Tail(q), Head(q)))
  <2>1. ASSUME NEW i \in 1..(Len(q) - 1), NEW k \in 1..(Len(q) - 1),
               Tail(q)[i] = Tail(q)[k], Tail(q)[i].kind = "assign"
        PROVE  i = k
    <3>1. i + 1 \in 1..Len(q) /\ k + 1 \in 1..Len(q)
          /\ Tail(q)[i] = q[i + 1] /\ Tail(q)[k] = q[k + 1]
      BY <1>1
    <3>2. i + 1 = k + 1
      BY <1>3, <2>1, <3>1 DEF OnceIn
    <3> QED BY <3>2
  <2>2. ASSUME NEW i \in 1..(Len(q) - 1), Tail(q)[i] = Head(q), Head(q).kind = "assign"
        PROVE  FALSE
    <3>1. i + 1 \in 1..Len(q) /\ q[i + 1] = q[1] /\ q[1].kind = "assign" /\ 1 \in 1..Len(q)
      BY <1>1, <2>2
    <3>2. i + 1 = 1
      BY <1>3, <3>1 DEF OnceIn
    <3> QED BY <3>2
  <2> QED BY <1>1, <2>1, <2>2 DEF OnceIn, Contains
<1> QED BY <1>1, <1>2, <1>3

\* The bounded queue: what it gains is the new message, what it loses is its oldest.
LEMMA QueuedHas ==
  ASSUME NEW q \in Seq(Msgs), NEW m \in Msgs
  PROVE  /\ \A x : Contains(Queued(q, m), x) => Contains(q, x) \/ x = m
         /\ OnceIn(q) /\ (m.kind = "assign" => ~Contains(q, m)) => OnceIn(Queued(q, m))
<1>1. CASE Len(q) < MaxQueue
  BY <1>1, AppendHas DEF Queued
<1>2. CASE ~(Len(q) < MaxQueue)
  <2>1. q # <<>>
    <3>1. Len(q) \in Nat /\ Len(q) # 0
      BY <1>2, HubAssumption
    <3> QED BY <3>1
  <2>2. Tail(q) \in Seq(Msgs)
    BY <2>1
  <2>3. Queued(q, m) = Append(Tail(q), m)
    BY <1>2 DEF Queued
  <2>4. /\ \A x : Contains(Tail(q), x) => Contains(q, x)
        /\ OnceIn(q) => OnceIn(Tail(q))
    BY <2>1, TailHas
  <2> DEFINE u == Tail(q)
  <2>5. /\ \A x : Contains(Append(u, m), x) <=> Contains(u, x) \/ x = m
        /\ OnceIn(u) /\ (m.kind = "assign" => ~Contains(u, m)) => OnceIn(Append(u, m))
    <3>1. u \in Seq(Msgs)
      BY <2>2
    <3> HIDE DEF u
    <3> QED BY <3>1, AppendHas
  <2>6. \A x : Contains(Queued(q, m), x) => Contains(q, x) \/ x = m
    BY <2>3, <2>4, <2>5
  <2>7. OnceIn(q) /\ (m.kind = "assign" => ~Contains(q, m)) => OnceIn(Queued(q, m))
    BY <2>3, <2>4, <2>5
  <2> QED BY <2>6, <2>7
<1> QED BY <1>1, <1>2

-------------------------------------------------------------------------------
(* The hub's calls and the mail *)

\* A new message joins the mail of its node, in one place.
LEMMA SendMail ==
  ASSUME HubInv, MailOnce, NEW n \in Nodes, NEW m \in Msgs, send(n, m),
         m.kind = "assign" => ~InMail(n, m)
  PROVE  /\ MailOnce'
         /\ \A k \in Nodes, x \in Msgs : InMail(k, x)' => InMail(k, x) \/ (k = n /\ x = m)
<1> USE DEF HubInv
<1>1. CASE HasRoom(n)
  <2> DEFINE s0 == sub[n]
  <2>1. s0 \in Streams /\ chan[s0].node = n /\ chan[s0].buf \in Seq(Msgs)
        /\ \A s \in Streams : chan[s] \in ChanRecords
    BY <1>1 DEF HasRoom, HubTypeOK, SubscriberIsLive, ChanRecords
  <2>2. queue' = queue /\ chan' = [chan EXCEPT ![s0] = [chan[s0] EXCEPT !.buf = Append(chan[s0].buf, m)]]
    BY <1>1 DEF send
  <2>3. chan'[s0].buf = Append(chan[s0].buf, m) /\ chan'[s0].node = n
    <3>1. ASSUME NEW r \in ChanRecords, NEW q PROVE LET e == [r EXCEPT !.buf = q]
                                                    IN  e.buf = q /\ e.node = r.node
      BY DEF ChanRecords
    <3>2. chan'[s0] = [chan[s0] EXCEPT !.buf = Append(chan[s0].buf, m)]
      BY <2>1, <2>2 DEF HubTypeOK
    <3> QED BY <2>1, <3>1, <3>2
  <2>4. \A s \in Streams : s # s0 => chan'[s] = chan[s]
    BY <2>2 DEF HubTypeOK
  <2> HIDE DEF s0
  <2>5. \A x : Contains(chan'[s0].buf, x) <=> Contains(chan[s0].buf, x) \/ x = m
    BY <2>1, <2>3, AppendHas
  <2>6. \A s \in Streams : chan'[s].node = chan[s].node
    BY <2>1, <2>3, <2>4
  <2>7. ASSUME NEW k \in Nodes, NEW x \in Msgs, InMail(k, x)' PROVE InMail(k, x) \/ (k = n /\ x = m)
    <3>1. CASE Contains(queue'[k], x)
      BY <2>2, <3>1 DEF InMail
    <3>2. ASSUME NEW s \in Streams, chan'[s].node = k, Contains(chan'[s].buf, x)
          PROVE  InMail(k, x) \/ (k = n /\ x = m)
      BY <2>1, <2>4, <2>5, <2>6, <3>2 DEF InMail
    <3> QED BY <2>7, <3>1, <3>2 DEF InMail
  <2>8. \A k \in Nodes : OnceIn(queue'[k])
    BY <2>2 DEF MailOnce
  <2>9. m.kind = "assign" => ~Contains(chan[s0].buf, m)
    BY <2>1 DEF InMail
  <2>10. \A s \in Streams : OnceIn(chan'[s].buf)
    <3>1. \A s \in Streams : OnceIn(chan[s].buf)
      BY DEF MailOnce
    <3>2. OnceIn(chan'[s0].buf)
      BY <2>1, <2>3, <2>9, <3>1, AppendHas
    <3> QED BY <2>4, <3>1, <3>2
  <2>11. ASSUME NEW k \in Nodes, NEW j \in JobIds, NEW s \in Streams,
                chan'[s].node = k, Contains(chan'[s].buf, Assign(j))
         PROVE  /\ ~Contains(queue'[k], Assign(j))
                /\ \A r \in Streams : chan'[r].node = k /\ Contains(chan'[r].buf, Assign(j)) => r = s
    <3>1. CASE Assign(j) # m
      <4>1. \A r \in Streams : Contains(chan'[r].buf, Assign(j)) => Contains(chan[r].buf, Assign(j))
        BY <2>4, <2>5, <3>1
      <4> QED BY <2>2, <2>6, <2>11, <4>1 DEF MailOnce
    <3>2. CASE Assign(j) = m
      <4>1. ~InMail(n, m)
        BY <3>2 DEF Assign
      <4>2. CASE k = n
        <5>1. \A r \in Streams : chan'[r].node = n /\ Contains(chan'[r].buf, m) => r = s0
          BY <2>4, <2>6, <4>1 DEF InMail
        <5> QED BY <2>2, <2>11, <3>2, <4>1, <4>2, <5>1 DEF InMail
      <4>3. CASE k # n
        <5>1. \A r \in Streams : chan'[r].node = k => r # s0
          BY <2>1, <2>6, <4>3
        <5> QED BY <2>2, <2>4, <2>6, <2>11, <5>1 DEF MailOnce
      <4> QED BY <4>2, <4>3
    <3> QED BY <3>1, <3>2
  <2> QED BY <2>7, <2>8, <2>10, <2>11 DEF MailOnce
<1>2. CASE ~HasRoom(n)
  <2>1. chan' = chan /\ queue' = [queue EXCEPT ![n] = Queued(queue[n], m)] /\ queue[n] \in Seq(Msgs)
    BY <1>2 DEF send, HubTypeOK
  <2>2. queue'[n] = Queued(queue[n], m) /\ \A k \in Nodes : k # n => queue'[k] = queue[k]
    BY <2>1 DEF HubTypeOK
  <2>3. \A k \in Nodes : \A x : Contains(queue'[k], x) => Contains(queue[k], x) \/ (k = n /\ x = m)
    BY <2>1, <2>2, QueuedHas
  <2>4. m.kind = "assign" => ~Contains(queue[n], m)
    BY DEF InMail
  <2>5. \A k \in Nodes : OnceIn(queue'[k])
    BY <2>1, <2>2, <2>4, QueuedHas DEF MailOnce
  <2>6. ASSUME NEW k \in Nodes, NEW j \in JobIds, NEW s \in Streams,
               chan[s].node = k, Contains(chan[s].buf, Assign(j)), Contains(queue'[k], Assign(j))
        PROVE  FALSE
    <3>1. ~Contains(queue[k], Assign(j))
      BY <2>6 DEF MailOnce
    <3>2. k = n /\ Assign(j) = m
      BY <2>3, <2>6, <3>1
    <3> QED BY <2>6, <3>2 DEF InMail, Assign
  <2> QED BY <2>1, <2>3, <2>5, <2>6 DEF MailOnce, InMail
<1> QED BY <1>1, <1>2

\* The queue moves into the new channel.
LEMMA SubscribeMail ==
  ASSUME HubInv, MailOnce, NEW s \in Streams, NEW n \in Nodes, Subscribe(s, n)
  PROVE  MailOnce' /\ NoNewMail
<1>1. queue'[n] = <<>> /\ \A k \in Nodes : k # n => queue'[k] = queue[k]
  BY DEF Subscribe, HubInv, HubTypeOK
<1>2. chan'[s].node = n /\ chan'[s].buf = queue[n]
  BY DEF Subscribe, HubInv, HubTypeOK
<1>3. ASSUME NEW r \in Streams, r # s
      PROVE  chan'[r].node = chan[r].node /\ chan'[r].buf = chan[r].buf
  <2>1. chan[r] \in ChanRecords
    BY DEF HubInv, HubTypeOK, ChanRecords
  <2>2. chan'[r] = IF r = sub[n] THEN [chan[r] EXCEPT !.open = FALSE] ELSE chan[r]
    BY <1>3 DEF Subscribe
  <2> QED BY <2>1, <2>2 DEF ChanRecords
<1>4. \A x : ~Contains(<<>>, x)
  BY DEF Contains
<1>5. OnceIn(<<>>)
  BY DEF OnceIn
<1>6. ASSUME NEW k \in Nodes, NEW x \in Msgs, InMail(k, x)' PROVE InMail(k, x)
  <2>1. CASE Contains(queue'[k], x)
    BY <1>1, <1>4, <2>1 DEF InMail
  <2>2. ASSUME NEW r \in Streams, chan'[r].node = k, Contains(chan'[r].buf, x) PROVE InMail(k, x)
    BY <1>2, <1>3, <2>2 DEF InMail
  <2> QED BY <1>6, <2>1, <2>2 DEF InMail
<1>7. \A k \in Nodes : OnceIn(queue'[k])
  BY <1>1, <1>5 DEF MailOnce
<1>8. \A r \in Streams : OnceIn(chan'[r].buf)
  BY <1>2, <1>3 DEF MailOnce
<1>9. ASSUME NEW k \in Nodes, NEW j \in JobIds, NEW r \in Streams,
             chan'[r].node = k, Contains(chan'[r].buf, Assign(j))
      PROVE  /\ ~Contains(queue'[k], Assign(j))
             /\ \A t \in Streams : chan'[t].node = k /\ Contains(chan'[t].buf, Assign(j)) => t = r
  <2>1. CASE r = s
    <3>1. k = n /\ Contains(queue[n], Assign(j))
      BY <1>2, <1>9, <2>1
    <3>2. \A t \in Streams : chan[t].node = n => ~Contains(chan[t].buf, Assign(j))
      BY <3>1 DEF MailOnce
    <3> QED BY <1>1, <1>3, <1>4, <2>1, <3>1, <3>2
  <2>2. CASE r # s
    <3>1. chan[r].node = k /\ Contains(chan[r].buf, Assign(j))
      BY <1>3, <1>9, <2>2
    <3>2. /\ ~Contains(queue[k], Assign(j))
          /\ \A t \in Streams : chan[t].node = k /\ Contains(chan[t].buf, Assign(j)) => t = r
      BY <3>1 DEF MailOnce
    <3> QED BY <1>1, <1>2, <1>3, <1>4, <3>2
  <2> QED BY <2>1, <2>2
<1> QED BY <1>6, <1>7, <1>8, <1>9 DEF MailOnce, NoNewMail

\* A step after which every channel holds a part of what it held.
LEMMA LessMail ==
  ASSUME MailOnce, UNCHANGED queue,
         \A s \in Streams : OnceIn(chan'[s].buf),
         \A s \in Streams : \A x \in Msgs : Contains(chan'[s].buf, x) =>
           chan'[s].node = chan[s].node /\ Contains(chan[s].buf, x)
  PROVE  MailOnce' /\ NoNewMail
<1>1. NoNewMail
  BY DEF InMail, NoNewMail
<1>2. \A j \in JobIds : Assign(j) \in Msgs
  BY DEF Assign, Msgs
<1>3. ASSUME NEW k \in Nodes, NEW j \in JobIds, NEW r \in Streams,
             chan'[r].node = k, Contains(chan'[r].buf, Assign(j))
      PROVE  /\ ~Contains(queue'[k], Assign(j))
             /\ \A t \in Streams : chan'[t].node = k /\ Contains(chan'[t].buf, Assign(j)) => t = r
  <2>1. chan[r].node = k /\ Contains(chan[r].buf, Assign(j))
    BY <1>2, <1>3
  <2>2. /\ ~Contains(queue[k], Assign(j))
        /\ \A t \in Streams : chan[t].node = k /\ Contains(chan[t].buf, Assign(j)) => t = r
    BY <2>1 DEF MailOnce
  <2> QED BY <1>2, <2>2
<1> QED BY <1>1, <1>3 DEF MailOnce

\* What is delivered was in the mail, and an assignment is then no longer.
LEMMA DeliverMail ==
  ASSUME HubInv, MailOnce, NEW s \in Streams, Deliver(s)
  PROVE  /\ MailOnce' /\ NoNewMail
         /\ Head(chan[s].buf) \in Msgs
         /\ Contains(chan[s].buf, Head(chan[s].buf))
         /\ \A n \in Nodes, j \in JobIds :
              chan[s].node = n /\ Head(chan[s].buf) = Assign(j) => ~InMail(n, Assign(j))'
<1>1. chan[s].buf \in Seq(Msgs) /\ chan[s].buf # <<>> /\ UNCHANGED queue
  BY DEF HubInv, HubTypeOK, Deliver
<1>2. chan'[s].buf = Tail(chan[s].buf) /\ chan'[s].node = chan[s].node
  <2>1. ASSUME NEW r \in ChanRecords, NEW q PROVE LET e == [r EXCEPT !.buf = q]
                                                  IN  e.buf = q /\ e.node = r.node
    BY DEF ChanRecords
  <2>2. chan'[s] = [chan[s] EXCEPT !.buf = Tail(chan[s].buf)] /\ chan[s] \in ChanRecords
    BY DEF Deliver, HubInv, HubTypeOK, ChanRecords
  <2> QED BY <2>1, <2>2
<1>3. \A r \in Streams : r # s => chan'[r] = chan[r]
  BY DEF Deliver, HubInv, HubTypeOK
<1>4. \A x : Contains(chan[s].buf, x) <=> Contains(Tail(chan[s].buf), x) \/ x = Head(chan[s].buf)
  BY <1>1, TailHas
<1>5. OnceIn(chan[s].buf) /\ \A r \in Streams : OnceIn(chan[r].buf)
  BY DEF MailOnce
<1>6. OnceIn(Tail(chan[s].buf))
      /\ (Head(chan[s].buf).kind = "assign" => ~Contains(Tail(chan[s].buf), Head(chan[s].buf)))
  BY <1>1, <1>5, TailHas
<1>7. MailOnce' /\ NoNewMail
  <2>1. \A r \in Streams : OnceIn(chan'[r].buf)
    BY <1>2, <1>3, <1>5, <1>6
  <2>2. \A r \in Streams : \A x \in Msgs : Contains(chan'[r].buf, x) =>
           chan'[r].node = chan[r].node /\ Contains(chan[r].buf, x)
    BY <1>2, <1>3, <1>4
  <2> QED BY <1>1, <2>1, <2>2, LessMail
<1>8. ASSUME NEW n \in Nodes, NEW j \in JobIds, chan[s].node = n, Head(chan[s].buf) = Assign(j)
      PROVE  ~InMail(n, Assign(j))'
  <2>1. Contains(chan[s].buf, Assign(j)) /\ ~Contains(Tail(chan[s].buf), Assign(j))
    BY <1>4, <1>6, <1>8 DEF Assign
  <2>2. /\ ~Contains(queue[n], Assign(j))
        /\ \A r \in Streams : chan[r].node = n /\ Contains(chan[r].buf, Assign(j)) => r = s
    BY <1>8, <2>1 DEF MailOnce
  <2> QED BY <1>1, <1>2, <1>3, <2>1, <2>2 DEF InMail
<1>9. Head(chan[s].buf) \in Msgs /\ Contains(chan[s].buf, Head(chan[s].buf))
  BY <1>1, <1>4, TailHas
<1> QED BY <1>7, <1>8, <1>9

LEMMA ReturnMail ==
  ASSUME HubInv, MailOnce, NEW s \in Streams, Return(s)
  PROVE  MailOnce' /\ NoNewMail
<1>1. chan'[s].buf = <<>> /\ \A r \in Streams : r # s => chan'[r] = chan[r]
  BY DEF Return, HubInv, HubTypeOK, Unused
<1>2. \A x : ~Contains(<<>>, x)
  BY DEF Contains
<1>3. OnceIn(<<>>)
  BY DEF OnceIn
<1>4. \A r \in Streams : OnceIn(chan[r].buf)
  BY DEF MailOnce
<1>5. \A r \in Streams : OnceIn(chan'[r].buf)
  BY <1>1, <1>3, <1>4
<1>6. UNCHANGED queue
  BY DEF Return
<1> QED BY <1>1, <1>2, <1>5, <1>6, LessMail

\* What leaves a full queue is its oldest message; the new one is in.
LEMMA QueuedKeeps ==
  ASSUME NEW q \in Seq(Msgs), NEW m \in Msgs, Len(q) <= MaxQueue
  PROVE  /\ Contains(Queued(q, m), m)
         /\ \A x : Contains(q, x) =>
              \/ Contains(Queued(q, m), x)
              \/ Queued(q, m) # q /\ Len(q) = MaxQueue /\ Head(q) = x
<1>1. CASE Len(q) < MaxQueue
  BY <1>1, AppendHas DEF Queued
<1>2. CASE ~(Len(q) < MaxQueue)
  <2>1. q # <<>> /\ Len(q) = MaxQueue
    <3>1. Len(q) \in Nat /\ Len(q) # 0
      BY <1>2, HubAssumption
    <3> QED BY <1>2, <3>1, HubAssumption
  <2> DEFINE u == Tail(q)
  <2>2. u \in Seq(Msgs) /\ \A x : Contains(q, x) <=> Contains(u, x) \/ x = Head(q)
    BY <2>1, TailHas
  <2>3. Queued(q, m) = Append(u, m)
    BY <1>2 DEF Queued
  <2> HIDE DEF u
  <2>4. \A x : Contains(Append(u, m), x) <=> Contains(u, x) \/ x = m
    BY <2>2, AppendHas
  <2> QED BY <2>1, <2>2, <2>3, <2>4
<1> QED BY <1>1, <1>2

\* A message that is sent is in the mail, and takes the place of the oldest one of a
\* full queue at most.
LEMMA SendStays ==
  ASSUME HubInv, NEW n \in Nodes, NEW m \in Msgs, send(n, m)
  PROVE  /\ InMail(n, m)'
         /\ \A k \in Nodes, x \in Msgs : InMail(k, x) =>
              \/ InMail(k, x)'
              \/ queue'[k] # queue[k] /\ Len(queue[k]) = MaxQueue /\ Head(queue[k]) = x
<1> USE DEF HubInv
<1>1. CASE HasRoom(n)
  <2> DEFINE s0 == sub[n]
  <2>1. s0 \in Streams /\ chan[s0].node = n /\ chan[s0].buf \in Seq(Msgs) /\ chan[s0] \in ChanRecords
    BY <1>1 DEF HasRoom, HubTypeOK, SubscriberIsLive, ChanRecords
  <2>2. queue' = queue /\ chan' = [chan EXCEPT ![s0] = [chan[s0] EXCEPT !.buf = Append(chan[s0].buf, m)]]
    BY <1>1 DEF send
  <2>3. chan'[s0].buf = Append(chan[s0].buf, m) /\ chan'[s0].node = n
    <3>1. ASSUME NEW r \in ChanRecords, NEW q PROVE LET e == [r EXCEPT !.buf = q]
                                                    IN  e.buf = q /\ e.node = r.node
      BY DEF ChanRecords
    <3>2. chan'[s0] = [chan[s0] EXCEPT !.buf = Append(chan[s0].buf, m)]
      BY <2>1, <2>2 DEF HubTypeOK
    <3> QED BY <2>1, <3>1, <3>2
  <2>4. \A s \in Streams : s # s0 => chan'[s] = chan[s]
    BY <2>2 DEF HubTypeOK
  <2> HIDE DEF s0
  <2>5. \A x : Contains(chan'[s0].buf, x) <=> Contains(chan[s0].buf, x) \/ x = m
    BY <2>1, <2>3, AppendHas
  <2>6. InMail(n, m)'
    BY <2>1, <2>3, <2>5 DEF InMail
  <2>7. \A k \in Nodes, x \in Msgs : InMail(k, x) => InMail(k, x)'
    BY <2>1, <2>2, <2>3, <2>4, <2>5 DEF InMail
  <2> QED BY <2>6, <2>7
<1>2. CASE ~HasRoom(n)
  <2>1. chan' = chan /\ queue' = [queue EXCEPT ![n] = Queued(queue[n], m)]
        /\ queue[n] \in Seq(Msgs) /\ Len(queue[n]) <= MaxQueue
    BY <1>2 DEF send, HubTypeOK
  <2>2. queue'[n] = Queued(queue[n], m) /\ \A k \in Nodes : k # n => queue'[k] = queue[k]
    BY <2>1 DEF HubTypeOK
  <2>3. /\ Contains(queue'[n], m)
        /\ \A x : Contains(queue[n], x) =>
             \/ Contains(queue'[n], x)
             \/ queue'[n] # queue[n] /\ Len(queue[n]) = MaxQueue /\ Head(queue[n]) = x
    BY <2>1, <2>2, QueuedKeeps
  <2> QED BY <2>1, <2>2, <2>3 DEF InMail
<1> QED BY <1>1, <1>2

\* Of what was in the mail, the message that is delivered leaves it.
LEMMA DeliverStays ==
  ASSUME HubInv, NEW s \in Streams, Deliver(s), NEW k \in Nodes, NEW x \in Msgs, InMail(k, x)
  PROVE  InMail(k, x)' \/ (chan[s].node = k /\ Head(chan[s].buf) = x)
<1>1. chan[s].buf \in Seq(Msgs) /\ chan[s].buf # <<>> /\ UNCHANGED queue
  BY DEF HubInv, HubTypeOK, Deliver
<1>2. chan'[s].buf = Tail(chan[s].buf) /\ chan'[s].node = chan[s].node
  <2>1. ASSUME NEW r \in ChanRecords, NEW q PROVE LET e == [r EXCEPT !.buf = q]
                                                  IN  e.buf = q /\ e.node = r.node
    BY DEF ChanRecords
  <2>2. chan'[s] = [chan[s] EXCEPT !.buf = Tail(chan[s].buf)] /\ chan[s] \in ChanRecords
    BY DEF Deliver, HubInv, HubTypeOK, ChanRecords
  <2> QED BY <2>1, <2>2
<1>3. \A r \in Streams : r # s => chan'[r] = chan[r]
  BY DEF Deliver, HubInv, HubTypeOK
<1>4. \A y : Contains(chan[s].buf, y) <=> Contains(Tail(chan[s].buf), y) \/ y = Head(chan[s].buf)
  BY <1>1, TailHas
<1> QED BY <1>1, <1>2, <1>3, <1>4 DEF InMail

\* A handler that returns takes what its channel holds with it.
LEMMA ReturnStays ==
  ASSUME HubInv, NEW s \in Streams, Return(s), NEW k \in Nodes, NEW x \in Msgs, InMail(k, x)
  PROVE  InMail(k, x)' \/ (chan[s].node = k /\ Contains(chan[s].buf, x))
<1>1. UNCHANGED queue /\ \A r \in Streams : r # s => chan'[r] = chan[r]
  BY DEF Return, HubInv, HubTypeOK
<1> QED BY <1>1 DEF InMail

\* Subscribe moves mail and loses none.
LEMMA SubscribeStays ==
  ASSUME HubInv, NEW s \in Streams, NEW n \in Nodes, Subscribe(s, n), chan[s].buf = <<>>,
         NEW k \in Nodes, NEW x \in Msgs, InMail(k, x)
  PROVE  InMail(k, x)'
<1>1. \A i \in Nodes : i # n => queue'[i] = queue[i]
  BY DEF Subscribe, HubInv, HubTypeOK
<1>2. chan'[s].node = n /\ chan'[s].buf = queue[n]
  BY DEF Subscribe, HubInv, HubTypeOK
<1>3. ASSUME NEW r \in Streams, r # s
      PROVE  chan'[r].node = chan[r].node /\ chan'[r].buf = chan[r].buf
  <2>1. chan[r] \in ChanRecords
    BY DEF HubInv, HubTypeOK, ChanRecords
  <2>2. chan'[r] = IF r = sub[n] THEN [chan[r] EXCEPT !.open = FALSE] ELSE chan[r]
    BY <1>3 DEF Subscribe
  <2> QED BY <2>1, <2>2 DEF ChanRecords
<1>4. ~Contains(chan[s].buf, x)
  BY DEF Contains
<1>5. CASE Contains(queue[k], x)
  BY <1>1, <1>2, <1>5 DEF InMail
<1>6. ASSUME NEW r \in Streams, chan[r].node = k, Contains(chan[r].buf, x) PROVE InMail(k, x)'
  BY <1>3, <1>4, <1>6 DEF InMail
<1> QED BY <1>5, <1>6 DEF InMail

\* Cancel entries are no mail.
LEMMA SameMail ==
  ASSUME MailOnce, UNCHANGED <<queue, chan>>
  PROVE  MailOnce' /\ NoNewMail
BY DEF MailOnce, NoNewMail, InMail

-------------------------------------------------------------------------------
(* Tasks and the slot *)

\* Where a task is and what it has, when it holds the slot (mine) or not.
GoodTask(r, mine) ==
  /\ r.pc \in {"start", "wait", "clear"} => mine
  /\ r.proc = "alive" /\ r.pc # "gone" => r.pc = "wait"
  /\ r.pc \in {"none", "received", "start"} => r.proc = "none"
  /\ r.event = "completed" => r.proc = "exit0"
  /\ r.pc \in {"clear", "report", "done"} => r.event # "none"

TasksGood ==
  /\ slot \in [Nodes -> JobIds \cup {NoJob}]
  /\ task \in [Nodes -> [JobIds -> Tasks]]
  /\ \A n \in Nodes, j \in JobIds : GoodTask(task[n][j], slot[n] = j)

AgentInv == AgentTypeOK /\ TasksGood

\* A program that succeeded stays so, a task that is over stays over, and none comes
\* into being.
TasksOnward ==
  \A n \in Nodes, j \in JobIds :
    /\ task[n][j].proc = "exit0" => task'[n][j].proc = "exit0"
    /\ task[n][j].pc \in {"none", "done"} => task'[n][j].pc = task[n][j].pc

LEMMA SlotIsNamed == AgentInv => SlotNamesProcess
BY DEF AgentInv, TasksGood, SlotNamesProcess, GoodTask

AgentRest == life' = life /\ starts' = starts /\ on' = on /\ asked' = asked /\ beat' = beat

\* One task moves, and with it perhaps the slot.
LEMMA OneTask ==
  ASSUME AgentInv, NEW n \in Nodes, NEW j \in JobIds, NEW r \in Tasks,
         task' = [task EXCEPT ![n][j] = r],
         GoodTask(r, slot'[n] = j),
         \/ UNCHANGED slot
         \/ \E i \in {j, NoJob} : slot' = [slot EXCEPT ![n] = i] /\ slot[n] \in {j, NoJob},
         task[n][j].proc = "exit0" => r.proc = "exit0"
  PROVE  /\ TasksGood'
         /\ (task[n][j].pc \in {"none", "done"} => r.pc = task[n][j].pc) => TasksOnward
<1>1. slot \in [Nodes -> JobIds \cup {NoJob}] /\ task \in [Nodes -> [JobIds -> Tasks]]
  BY DEF AgentInv, TasksGood, AgentTypeOK
<1>2. task'[n][j] = r
      /\ \A m \in Nodes, k \in JobIds : m # n \/ k # j => task'[m][k] = task[m][k]
  BY <1>1
<1>3. slot' \in [Nodes -> JobIds \cup {NoJob}]
  BY <1>1
<1>4. task' \in [Nodes -> [JobIds -> Tasks]]
  BY <1>1
<1>5. ASSUME NEW m \in Nodes, NEW k \in JobIds, m # n \/ k # j
      PROVE  slot[m] = k => slot'[m] = k
  BY <1>1, <1>5, JobIdsAssumption DEF NoJob
<1>6. ASSUME NEW m \in Nodes, NEW k \in JobIds PROVE GoodTask(task'[m][k], slot'[m] = k)
  BY <1>2, <1>5 DEF GoodTask, AgentInv, TasksGood
<1>7. (task[n][j].pc \in {"none", "done"} => r.pc = task[n][j].pc) => TasksOnward
  BY <1>2 DEF TasksOnward
<1> QED BY <1>3, <1>4, <1>6, <1>7 DEF TasksGood

\* The steps of Executor.Run.
LEMMA RunKeeps ==
  ASSUME AgentInv, NEW n \in Nodes, NEW j \in JobIds, RunStep(n, j), AgentRest
  PROVE  AgentInv' /\ TasksOnward
<1> DEFINE t == task[n][j]
<1>1. t \in Tasks /\ slot \in [Nodes -> JobIds \cup {NoJob}] /\ task \in [Nodes -> [JobIds -> Tasks]]
      /\ GoodTask(t, slot[n] = j) /\ j # NoJob
  BY JobIdsAssumption DEF AgentInv, TasksGood, AgentTypeOK, NoJob
<1>2. ASSUME NEW r \in Tasks, task' = [task EXCEPT ![n][j] = r], GoodTask(r, slot'[n] = j),
             \/ UNCHANGED slot
             \/ \E i \in {j, NoJob} : slot' = [slot EXCEPT ![n] = i] /\ slot[n] \in {j, NoJob},
             t.proc = "exit0" => r.proc = "exit0", t.pc \notin {"none", "done"} \/ r.pc = t.pc
      PROVE  AgentInv' /\ TasksOnward
  <2>1. TasksGood' /\ TasksOnward
    BY <1>2, OneTask
  <2> QED BY <2>1 DEF AgentInv, TasksGood, GoodTask, AgentTypeOK, AgentRest
<1>3. ASSUME NEW e, NEW p PROVE Result(n, j, e, p) = [task EXCEPT ![n][j] = [t EXCEPT !.event = e, !.pc = p]]
  BY <1>1 DEF Result
<1> USE DEF TaskAt
<1>4. CASE RunBegin(n, j)
  <2>1. CASE slot[n] = NoJob
    <3> DEFINE r == [t EXCEPT !.pc = "start"]
    <3>1. r \in Tasks /\ r.proc = t.proc /\ r.event = t.event /\ r.pc = "start"
      BY <1>1 DEF Tasks
    <3>2. task' = [task EXCEPT ![n][j] = r] /\ slot' = [slot EXCEPT ![n] = j] /\ t.pc = "received"
      BY <1>1, <1>4, <2>1 DEF RunBegin
    <3>3. GoodTask(r, slot'[n] = j)
      BY <1>1, <3>1, <3>2 DEF GoodTask
    <3> HIDE DEF r, t
    <3> QED BY <1>2, <2>1, <3>1, <3>2, <3>3
  <2>2. CASE slot[n] # NoJob
    <3> DEFINE r == [t EXCEPT !.event = "failed", !.pc = "report"]
    <3>1. r \in Tasks /\ r.proc = t.proc /\ r.event = "failed" /\ r.pc = "report"
      BY <1>1 DEF Tasks
    <3>2. task' = [task EXCEPT ![n][j] = r] /\ slot' = slot /\ t.pc = "received"
      BY <1>3, <1>4, <2>2 DEF RunBegin
    <3>3. GoodTask(r, slot'[n] = j)
      BY <1>1, <3>1, <3>2 DEF GoodTask
    <3> HIDE DEF r, t
    <3> QED BY <1>2, <3>1, <3>2, <3>3
  <2> QED BY <2>1, <2>2
<1>5. CASE RunStart(n, j)
  <2>1. slot' = slot /\ t.pc = "start"
    BY <1>5 DEF RunStart
  <2>2. CASE task' = [task EXCEPT ![n][j].pc = "wait", ![n][j].proc = "alive"]
    <3> DEFINE r == [t EXCEPT !.pc = "wait", !.proc = "alive"]
    <3>1. r \in Tasks /\ r.proc = "alive" /\ r.event = t.event /\ r.pc = "wait"
      BY <1>1 DEF Tasks
    <3>2. task' = [task EXCEPT ![n][j] = r]
      BY <1>1, <2>2
    <3>3. GoodTask(r, slot'[n] = j)
      BY <1>1, <2>1, <3>1 DEF GoodTask
    <3>4. t.proc # "exit0"
      BY <1>1, <2>1 DEF GoodTask
    <3> HIDE DEF r, t
    <3> QED BY <1>2, <2>1, <3>1, <3>2, <3>3, <3>4
  <2>3. CASE task' = Result(n, j, "failed", "clear")
    <3> DEFINE r == [t EXCEPT !.event = "failed", !.pc = "clear"]
    <3>1. r \in Tasks /\ r.proc = t.proc /\ r.event = "failed" /\ r.pc = "clear"
      BY <1>1 DEF Tasks
    <3>2. task' = [task EXCEPT ![n][j] = r]
      BY <1>3, <2>3
    <3>3. GoodTask(r, slot'[n] = j)
      BY <1>1, <2>1, <3>1 DEF GoodTask
    <3> HIDE DEF r, t
    <3> QED BY <1>2, <2>1, <3>1, <3>2, <3>3
  <2> QED BY <1>5, <2>2, <2>3 DEF RunStart
<1>6. CASE RunDone(n, j)
  <2>1. slot' = slot /\ t.pc = "wait"
    BY <1>6 DEF RunDone
  <2>2. PICK e \in {"completed", "failed"} :
          /\ task' = Result(n, j, e, "clear")
          /\ t.proc = IF e = "completed" THEN "exit0" ELSE "exit1"
    BY <1>6 DEF RunDone
  <2> DEFINE r == [t EXCEPT !.event = e, !.pc = "clear"]
  <2>3. r \in Tasks /\ r.proc = t.proc /\ r.event = e /\ r.pc = "clear"
    BY <1>1 DEF Tasks
  <2>4. task' = [task EXCEPT ![n][j] = r]
    BY <1>3, <2>2
  <2>5. GoodTask(r, slot'[n] = j)
    BY <1>1, <2>1, <2>2, <2>3 DEF GoodTask
  <2> HIDE DEF r, t
  <2> QED BY <1>2, <2>1, <2>3, <2>4, <2>5
<1>7. CASE RunKill(n, j)
  <2>1. slot' = slot /\ t.pc = "wait"
    BY <1>7 DEF RunKill
  <2> DEFINE e == IF t.ctx = "expired" THEN "failed" ELSE "cancelled"
             p == IF t.proc = "alive" THEN "killed" ELSE t.proc
             r == [t EXCEPT !.event = e, !.pc = "clear", !.proc = p]
  <2>2. r \in Tasks /\ r.proc = p /\ r.event = e /\ r.pc = "clear"
    BY <1>1 DEF Tasks
  <2>3. task' = [task EXCEPT ![n][j] = r]
    <3> DEFINE q == [t EXCEPT !.event = e, !.pc = "clear"]
               R == Result(n, j, e, "clear")
    <3>1. R = [task EXCEPT ![n][j] = q]
      BY <1>3
    <3>2. q \in Tasks /\ q.proc = t.proc
      BY <1>1 DEF Tasks
    <3>3. r = [q EXCEPT !.proc = p]
      BY <1>1 DEF Tasks
    <3>4. task' = [R EXCEPT ![n][j].proc = IF @ = "alive" THEN "killed" ELSE @]
      BY <1>7 DEF RunKill
    <3> HIDE DEF q, r, R, t, e
    <3>5. R[n][j] = q
      BY <1>1, <3>1
    <3>6. task' = [R EXCEPT ![n][j] = [q EXCEPT !.proc = p]]
      BY <1>1, <3>1, <3>2, <3>4, <3>5
    <3> QED BY <1>1, <3>1, <3>3, <3>6
  <2>4. GoodTask(r, slot'[n] = j)
    BY <1>1, <2>1, <2>2 DEF GoodTask
  <2>5. t.proc = "exit0" => r.proc = "exit0"
    BY <2>2
  <2> HIDE DEF r, t
  <2> QED BY <1>2, <2>1, <2>2, <2>3, <2>4, <2>5
<1>8. CASE clear(n, j)
  <2> DEFINE r == [t EXCEPT !.pc = "report"]
  <2>1. r \in Tasks /\ r.proc = t.proc /\ r.event = t.event /\ r.pc = "report"
    BY <1>1 DEF Tasks
  <2>2. task' = [task EXCEPT ![n][j] = r] /\ t.pc = "clear"
    BY <1>1, <1>8 DEF clear
  <2>3. slot[n] = j /\ slot' = [slot EXCEPT ![n] = NoJob]
    BY <1>1, <1>8 DEF clear, GoodTask
  <2>4. GoodTask(r, slot'[n] = j)
    BY <1>1, <2>1, <2>2 DEF GoodTask
  <2> HIDE DEF r, t
  <2> QED BY <1>2, <2>1, <2>2, <2>3, <2>4
<1> QED BY <1>4, <1>5, <1>6, <1>7, <1>8 DEF RunStep

\* Time limits, programs that end, the last report.
LEMMA OutsideKeeps ==
  ASSUME AgentInv, NEW n \in Nodes, NEW j \in JobIds,
         Overrun(n, j) \/ ProcExit(n, j) \/ (FinalReport(n, j) /\ UNCHANGED slot), AgentRest
  PROVE  AgentInv' /\ TasksOnward
<1> DEFINE t == task[n][j]
<1>1. t \in Tasks /\ slot \in [Nodes -> JobIds \cup {NoJob}] /\ task \in [Nodes -> [JobIds -> Tasks]]
      /\ GoodTask(t, slot[n] = j)
  BY DEF AgentInv, TasksGood, AgentTypeOK
<1>2. ASSUME NEW r \in Tasks, task' = [task EXCEPT ![n][j] = r], GoodTask(r, slot[n] = j),
             slot' = slot, t.proc = "exit0" => r.proc = "exit0", t.pc \notin {"none", "done"} \/ r.pc = t.pc
      PROVE  AgentInv' /\ TasksOnward
  <2>1. TasksGood' /\ TasksOnward
    BY <1>2, OneTask
  <2> QED BY <2>1 DEF AgentInv, TasksGood, GoodTask, AgentTypeOK, AgentRest
<1>3. CASE Overrun(n, j)
  <2> DEFINE r == [t EXCEPT !.ctx = "expired"]
  <2>1. r \in Tasks /\ r.proc = t.proc /\ r.event = t.event /\ r.pc = t.pc
    BY <1>1 DEF Tasks
  <2>2. task' = [task EXCEPT ![n][j] = r] /\ slot' = slot /\ t.pc # "none"
    BY <1>1, <1>3 DEF Overrun
  <2>3. GoodTask(r, slot[n] = j)
    BY <1>1, <2>1 DEF GoodTask
  <2> HIDE DEF r, t
  <2> QED BY <1>2, <2>1, <2>2, <2>3
<1>4. CASE ProcExit(n, j)
  <2>1. PICK status \in Exits : task' = [task EXCEPT ![n][j].proc = status]
    BY <1>4 DEF ProcExit
  <2> DEFINE r == [t EXCEPT !.proc = status]
  <2>2. r \in Tasks /\ r.proc = status /\ r.event = t.event /\ r.pc = t.pc
        /\ status \in {"exit0", "exit1"}
    BY <1>1, ExecutorAssumption DEF Tasks
  <2>3. task' = [task EXCEPT ![n][j] = r] /\ slot' = slot /\ t.pc = "wait" /\ t.proc = "alive"
    BY <1>1, <1>4, <2>1 DEF ProcExit, TaskAt
  <2>4. GoodTask(r, slot[n] = j)
    BY <1>1, <2>2, <2>3 DEF GoodTask
  <2> HIDE DEF r, t
  <2> QED BY <1>2, <2>2, <2>3, <2>4
<1>5. CASE FinalReport(n, j)
  <2> DEFINE r == [t EXCEPT !.pc = "done"]
  <2>1. r \in Tasks /\ r.proc = t.proc /\ r.event = t.event /\ r.pc = "done"
    BY <1>1 DEF Tasks
  <2>2. task' = [task EXCEPT ![n][j] = r] /\ slot' = slot /\ t.pc = "report"
    BY <1>1, <1>5 DEF FinalReport, TaskAt
  <2>3. GoodTask(r, slot[n] = j)
    BY <1>1, <2>1, <2>2 DEF GoodTask
  <2> HIDE DEF r, t
  <2> QED BY <1>2, <2>1, <2>2, <2>3
<1> QED BY <1>3, <1>4, <1>5

LEMMA CancelledFields ==
  ASSUME NEW t \in Tasks
  PROVE  /\ Cancelled(t) \in Tasks
         /\ Cancelled(t).pc = t.pc /\ Cancelled(t).proc = t.proc /\ Cancelled(t).event = t.event
BY DEF Cancelled, Tasks

\* Executor.Stop cancels a context and changes nothing else.
LEMMA StopKeeps ==
  ASSUME AgentInv, NEW n \in Nodes, NEW j, task' = Stop(n, j), slot' = slot
  PROVE  TasksGood' /\ TasksOnward
<1>1. CASE task' = task
  BY <1>1 DEF AgentInv, TasksGood, AgentTypeOK, TasksOnward
<1>2. ASSUME NEW k \in JobIds, NEW r \in Tasks, task' = [task EXCEPT ![n][k] = r],
             GoodTask(r, slot[n] = k), r.proc = task[n][k].proc, r.pc = task[n][k].pc
      PROVE  TasksGood' /\ TasksOnward
  <2>1. GoodTask(r, slot'[n] = k) /\ (task[n][k].proc = "exit0" => r.proc = "exit0")
    BY <1>2 DEF GoodTask
  <2> QED BY <1>2, <2>1, OneTask
<1>3. CASE slot[n] # NoJob /\ task' = [task EXCEPT ![n][slot[n]] = Cancelled(task[n][slot[n]])]
  <2>1. PICK k \in JobIds : slot[n] = k
    BY <1>3 DEF AgentInv, TasksGood, AgentTypeOK
  <2>2. task[n][k] \in Tasks /\ GoodTask(task[n][k], slot[n] = k)
    BY <2>1 DEF AgentInv, TasksGood, AgentTypeOK
  <2> DEFINE r == Cancelled(task[n][k])
  <2>3. r \in Tasks /\ r.pc = task[n][k].pc /\ r.proc = task[n][k].proc /\ r.event = task[n][k].event
    BY <2>2, CancelledFields
  <2>4. task' = [task EXCEPT ![n][k] = r]
    BY <1>3, <2>1
  <2> HIDE DEF r
  <2>5. GoodTask(r, slot[n] = k)
    BY <2>2, <2>3 DEF GoodTask
  <2> QED BY <1>2, <2>3, <2>4, <2>5
<1> QED BY <1>1, <1>3 DEF Stop

\* The agent's own steps that touch no task but by Stop.
LEMMA AgentKeeps ==
  ASSUME AgentInv, HubTypeOK, NEW n \in Nodes,
         \/ AgentStart(n) \/ BeatAsk(n) \/ BeatAnswer(n) \/ AgentRegistered(n)
         \/ WatchOpen(n) \/ WatchEnds(n) \/ StreamBreaks(n)
  PROVE  AgentInv' /\ TasksOnward
<1>1. CASE BeatAnswer(n)
  <2>1. task' = Stop(n, beat[n]) \/ task' = task
    BY <1>1 DEF BeatAnswer
  <2>2. UNCHANGED <<slot, starts, on, asked>>
        /\ beat' = [beat EXCEPT ![n] = NoBeat] /\ life' = [life EXCEPT ![n] = "up"]
    BY <1>1 DEF BeatAnswer
  <2>3. TasksGood' /\ TasksOnward
    <3>1. CASE task' = task
      BY <2>2, <3>1 DEF AgentInv, TasksGood, AgentTypeOK, TasksOnward
    <3> QED BY <2>1, <2>2, <3>1, StopKeeps
  <2> QED BY <2>2, <2>3 DEF AgentInv, TasksGood, GoodTask, AgentTypeOK
<1>2. ASSUME UNCHANGED execVars,
             life' \in [Nodes -> {"down", "register", "beat", "up", "stopping"}],
             starts' \in [Nodes -> 0..MaxStarts],
             on' \in [Nodes -> Streams \cup {NoStream}],
             asked' \in [Streams -> Nodes \cup {Nobody}],
             beat' \in [Nodes -> JobIds \cup {NoJob, NoBeat}]
      PROVE  AgentInv' /\ TasksOnward
  BY <1>2 DEF execVars, AgentInv, TasksGood, AgentTypeOK, TasksOnward
<1> USE DEF AgentInv, TasksGood, AgentTypeOK, execVars
<1>3. CASE AgentStart(n)
  <2>1. starts[n] + 1 \in 0..MaxStarts
    BY <1>3, AgentAssumption DEF AgentStart
  <2> QED BY <1>2, <1>3, <2>1 DEF AgentStart
<1>4. CASE BeatAsk(n)
  BY <1>2, <1>4 DEF BeatAsk, HubTypeOK
<1>5. CASE AgentRegistered(n)
  BY <1>2, <1>5 DEF AgentRegistered
<1>6. CASE WatchOpen(n)
  BY <1>2, <1>6 DEF WatchOpen
<1>7. CASE WatchEnds(n) \/ StreamBreaks(n)
  BY <1>2, <1>7 DEF WatchEnds, StreamBreaks
<1> QED BY <1>1, <1>3, <1>4, <1>5, <1>6, <1>7

\* The end of the process: tasks are told to end, or are gone with it.
LEMMA StopExitKeeps ==
  ASSUME AgentInv, NEW n \in Nodes, AgentStop(n) \/ AgentExit(n)
  PROVE  AgentInv' /\ TasksOnward
<1>1. /\ slot \in [Nodes -> JobIds \cup {NoJob}] /\ task \in [Nodes -> [JobIds -> Tasks]]
      /\ \A m \in Nodes, k \in JobIds : GoodTask(task[m][k], slot[m] = k)
  BY DEF AgentInv, TasksGood, AgentTypeOK
<1>2. /\ life' \in [Nodes -> {"down", "register", "beat", "up", "stopping"}]
      /\ starts' \in [Nodes -> 0..MaxStarts]
      /\ on' \in [Nodes -> Streams \cup {NoStream}]
      /\ asked' \in [Streams -> Nodes \cup {Nobody}]
      /\ beat' \in [Nodes -> JobIds \cup {NoJob, NoBeat}]
  BY DEF AgentStop, AgentExit, AgentInv, TasksGood, AgentTypeOK
<1>3. CASE AgentStop(n)
  <2> DEFINE f == [k \in JobIds |-> IF Working(n, k) THEN Cancelled(task[n][k]) ELSE task[n][k]]
  <2>1. task' = [task EXCEPT ![n] = f] /\ slot' = slot
    BY <1>3 DEF AgentStop
  <2>2. ASSUME NEW k \in JobIds
        PROVE  /\ f[k] \in Tasks /\ f[k].pc = task[n][k].pc
               /\ f[k].proc = task[n][k].proc /\ f[k].event = task[n][k].event
    BY <1>1, CancelledFields
  <2>3. f \in [JobIds -> Tasks]
    BY <2>2
  <2> HIDE DEF f
  <2>4. task' \in [Nodes -> [JobIds -> Tasks]]
    BY <1>1, <2>1, <2>3
  <2>5. ASSUME NEW m \in Nodes, NEW k \in JobIds
        PROVE  /\ GoodTask(task'[m][k], slot'[m] = k)
               /\ task'[m][k].pc = task[m][k].pc /\ task'[m][k].proc = task[m][k].proc
    <3>1. GoodTask(task[m][k], slot[m] = k)
      BY <1>1
    <3>2. CASE m = n
      <4>1. task'[m][k] = f[k]
        BY <1>1, <2>1, <3>2
      <4> QED BY <2>1, <2>2, <3>1, <3>2, <4>1 DEF GoodTask
    <3>3. CASE m # n
      BY <1>1, <2>1, <3>1, <3>3
    <3> QED BY <3>2, <3>3
  <2> QED BY <1>1, <1>2, <2>1, <2>4, <2>5 DEF AgentInv, TasksGood, GoodTask, AgentTypeOK, TasksOnward
<1>4. CASE AgentExit(n)
  <2> DEFINE f == [k \in JobIds |-> IF Working(n, k) THEN [task[n][k] EXCEPT !.pc = "gone"] ELSE task[n][k]]
  <2>1. task' = [task EXCEPT ![n] = f] /\ slot' = [slot EXCEPT ![n] = NoJob]
    BY <1>4 DEF AgentExit
  <2>2. ASSUME NEW k \in JobIds
        PROVE  /\ f[k] \in Tasks
               /\ f[k].pc = IF Working(n, k) THEN "gone" ELSE task[n][k].pc
               /\ f[k].proc = task[n][k].proc /\ f[k].event = task[n][k].event
    <3>1. task[n][k] \in Tasks
      BY <1>1
    <3> QED BY <3>1 DEF Tasks
  <2>3. f \in [JobIds -> Tasks]
    BY <2>2
  <2> HIDE DEF f
  <2>4. task' \in [Nodes -> [JobIds -> Tasks]] /\ slot' \in [Nodes -> JobIds \cup {NoJob}]
    BY <1>1, <2>1, <2>3
  <2>5. ASSUME NEW m \in Nodes, NEW k \in JobIds
        PROVE  /\ GoodTask(task'[m][k], slot'[m] = k)
               /\ task[m][k].pc \in {"none", "done"} => task'[m][k].pc = task[m][k].pc
               /\ task'[m][k].proc = task[m][k].proc
    <3>1. GoodTask(task[m][k], slot[m] = k)
      BY <1>1
    <3>2. CASE m = n
      <4>1. task'[m][k] = f[k]
        BY <1>1, <2>1, <3>2
      <4> QED BY <2>2, <3>1, <3>2, <4>1 DEF GoodTask, Working
    <3>3. CASE m # n
      <4>1. task'[m] = task[m] /\ slot'[m] = slot[m]
        BY <1>1, <2>1, <3>3
      <4> QED BY <3>1, <4>1
    <3> QED BY <3>2, <3>3
  <2> QED BY <1>2, <2>4, <2>5 DEF AgentInv, TasksGood, GoodTask, AgentTypeOK, TasksOnward
<1> QED BY <1>3, <1>4

-------------------------------------------------------------------------------
(* Receiving *)

\* A handler serves a node; where there is none, there is no mail.
ServesNode ==
  \A s \in Streams :
    /\ chan[s].st = "serving" => chan[s].node \in Nodes
    /\ chan[s].st # "serving" => chan[s].buf = <<>>

LEMMA ServesKept ==
  ASSUME HubInv, ServesNode, [HubNext]_hubVars
  PROVE  ServesNode'
<1> USE DEF HubInv, HubTypeOK
<1>1. CASE UNCHANGED chan
  BY <1>1 DEF ServesNode
<1>2. ASSUME NEW n \in Nodes, NEW m \in Msgs, send(n, m) PROVE ServesNode'
  <2>1. UNCHANGED chan
        \/ (sub[n] \in Streams /\ chan[sub[n]].st = "serving"
            /\ chan' = [chan EXCEPT ![sub[n]] = [chan[sub[n]] EXCEPT !.buf = Append(chan[sub[n]].buf, m)]])
    BY <1>2 DEF send, HasRoom, SubscriberIsLive
  <2>2. ASSUME NEW s \in Streams
        PROVE  /\ chan'[s].st = chan[s].st /\ chan'[s].node = chan[s].node
               /\ chan'[s] = chan[s] \/ chan[s].st = "serving"
    <3>1. chan[s] \in ChanRecords
      BY DEF ChanRecords
    <3>2. ASSUME NEW r \in ChanRecords, NEW q PROVE LET e == [r EXCEPT !.buf = q]
                                                    IN  e.st = r.st /\ e.node = r.node
      BY DEF ChanRecords
    <3>3. \/ chan'[s] = chan[s]
          \/ chan[s].st = "serving" /\ chan'[s] = [chan[s] EXCEPT !.buf = Append(chan[s].buf, m)]
      BY <2>1
    <3> QED BY <3>1, <3>2, <3>3
  <2> QED BY <2>2 DEF ServesNode
<1>3. ASSUME NEW s \in Streams, Deliver(s) PROVE ServesNode'
  BY <1>3 DEF Deliver, ServesNode
<1>4. ASSUME NEW s \in Streams, Return(s) PROVE ServesNode'
  BY <1>4 DEF Return, ServesNode, Unused
<1>5. ASSUME NEW s \in Streams, NEW n \in Nodes, Subscribe(s, n) PROVE ServesNode'
  <2>1. chan'[s].node = n /\ chan'[s].st = "serving"
    BY <1>5 DEF Subscribe
  <2>2. ASSUME NEW r \in Streams, r # s
        PROVE  chan'[r].node = chan[r].node /\ chan'[r].st = chan[r].st /\ chan'[r].buf = chan[r].buf
    <3>1. chan[r] \in ChanRecords
      BY DEF ChanRecords
    <3>2. chan'[r] = IF r = sub[n] THEN [chan[r] EXCEPT !.open = FALSE] ELSE chan[r]
      BY <1>5, <2>2 DEF Subscribe
    <3> QED BY <3>1, <3>2 DEF ChanRecords
  <2> QED BY <2>1, <2>2 DEF ServesNode
<1>6. \A j \in JobIds : Assign(j) \in Msgs /\ CancelWork(j) \in Msgs
  BY DEF Assign, CancelWork, Msgs
<1> QED BY <1>1, <1>2, <1>3, <1>4, <1>5, <1>6
        DEF HubNext, hubVars, DropCancel, SetCancel, ClearCancel

\* An assignment for which there is a task is no longer in the mail.
NotTwice == \A n \in Nodes, j \in JobIds : task[n][j].pc # "none" => ~InMail(n, Assign(j))

\* An assignment that is received starts a task where there was none; a cancel stops
\* the job in the slot, if it is the right one.
LEMMA RecvKeeps ==
  ASSUME AgentInv, HubInv, ServesNode, MailOnce, NotTwice, NEW s \in Streams, Recv(s)
  PROVE  /\ AgentInv' /\ MailOnce' /\ NotTwice' /\ NoNewMail
         /\ \A n \in Nodes, j \in JobIds :
              /\ task[n][j].proc = "exit0" => task'[n][j].proc = "exit0"
              /\ task[n][j].pc = "none" /\ task'[n][j].pc # "none" => InMail(n, Assign(j))
              /\ task[n][j].pc = "done" => task'[n][j].pc = "done"
<1>1. PICK n, m : n = chan[s].node /\ m = Head(chan[s].buf)
  OBVIOUS
<1>2. /\ Deliver(s) /\ UNCHANGED <<slot, life, starts, on, asked, beat>>
      /\ task' = IF m.kind = "assign" THEN [task EXCEPT ![n][m.job].pc = "received"]
                 ELSE Stop(n, m.job)
  BY <1>1 DEF Recv
<1>3. /\ MailOnce' /\ NoNewMail /\ m \in Msgs /\ Contains(chan[s].buf, m)
      /\ \A k \in Nodes, j \in JobIds : n = k /\ m = Assign(j) => ~InMail(k, Assign(j))'
  BY <1>1, <1>2, DeliverMail
<1>4. n \in Nodes /\ InMail(n, m)
  BY <1>1, <1>2, <1>3 DEF Deliver, ServesNode, InMail
<1>5. \A k \in Nodes, j \in JobIds : InMail(k, Assign(j))' => InMail(k, Assign(j))
  <2>1. \A j \in JobIds : Assign(j) \in Msgs
    BY DEF Assign, Msgs
  <2> QED BY <1>3, <2>1 DEF NoNewMail
<1>6. CASE m.kind = "cancel"
  <2>1. task' = Stop(n, m.job)
    BY <1>2, <1>6
  <2>2. TasksGood' /\ TasksOnward
    BY <1>2, <1>4, <2>1, StopKeeps
  <2>3. AgentInv'
    BY <1>2, <2>2 DEF AgentInv, AgentTypeOK, TasksGood, GoodTask
  <2>4. \A k \in Nodes, j \in JobIds :
          /\ task[k][j].proc = "exit0" => task'[k][j].proc = "exit0"
          /\ task[k][j].pc \in {"none", "done"} => task'[k][j].pc = task[k][j].pc
    BY <2>2 DEF TasksOnward
  <2>5. NotTwice'
    BY <1>5, <2>4 DEF NotTwice
  <2> QED BY <1>3, <2>3, <2>4, <2>5
<1>7. CASE m.kind = "assign"
  <2>1. PICK j \in JobIds : m = Assign(j) /\ m.job = j
    BY <1>3, <1>7 DEF Msgs, Assign
  <2> DEFINE t == task[n][j]
             r == [t EXCEPT !.pc = "received"]
  <2>2. t \in Tasks /\ GoodTask(t, slot[n] = j) /\ task \in [Nodes -> [JobIds -> Tasks]]
    BY <1>4 DEF AgentInv, TasksGood
  <2>3. t.pc = "none"
    BY <1>4, <2>1 DEF NotTwice
  <2>4. r \in Tasks /\ r.pc = "received" /\ r.proc = t.proc /\ r.event = t.event
    BY <2>2 DEF Tasks
  <2>5. task' = [task EXCEPT ![n][j] = r]
    BY <1>2, <1>7, <2>1
  <2>6. GoodTask(r, slot'[n] = j)
    BY <2>2, <2>3, <2>4 DEF GoodTask
  <2>7. \A k \in Nodes, i \in JobIds : k # n \/ i # j => task'[k][i] = task[k][i]
    BY <2>2, <2>5
  <2>8. task'[n][j] = r
    BY <1>4, <2>2, <2>5
  <2> HIDE DEF t, r
  <2>9. TasksGood'
    BY <1>2, <1>4, <2>4, <2>5, <2>6, OneTask DEF t
  <2>10. AgentInv'
    BY <1>2, <2>9 DEF AgentInv, AgentTypeOK, TasksGood, GoodTask
  <2>11. NotTwice'
    <3>1. ~InMail(n, Assign(j))'
      BY <1>3, <1>4, <2>1
    <3>2. ASSUME NEW k \in Nodes, NEW i \in JobIds, k # n \/ i # j, task'[k][i].pc # "none"
          PROVE  ~InMail(k, Assign(i))'
      BY <1>5, <2>7, <3>2 DEF NotTwice
    <3> QED BY <3>1, <3>2 DEF NotTwice
  <2>12. \A k \in Nodes, i \in JobIds : task[k][i].proc = "exit0" => task'[k][i].proc = "exit0"
    BY <2>4, <2>7, <2>8 DEF t
  <2>13. \A k \in Nodes, i \in JobIds :
           task[k][i].pc = "none" /\ task'[k][i].pc # "none" => InMail(k, Assign(i))
    BY <1>4, <2>1, <2>7
  <2>14. \A k \in Nodes, i \in JobIds : task[k][i].pc = "done" => task'[k][i].pc = "done"
    BY <2>3, <2>7 DEF t
  <2> QED BY <1>3, <2>10, <2>11, <2>12, <2>13, <2>14
<1>8. m.kind \in {"assign", "cancel"}
  BY <1>3 DEF Msgs
<1> QED BY <1>6, <1>7, <1>8

-------------------------------------------------------------------------------
(* Work goes on *)

WorkGoesOn == \A n \in Nodes, j \in JobIds : Working(n, j) => Working(n, j)'

\* One task moves, from work to work.
LEMMA OneWorks ==
  ASSUME AgentInv, NEW n \in Nodes, NEW j \in JobIds, NEW r,
         task' = [task EXCEPT ![n][j] = r],
         r.pc \in {"received", "start", "wait", "clear", "report"} \/ r.pc = task[n][j].pc
  PROVE  WorkGoesOn
<1>1. task'[n][j] = r /\ \A m \in Nodes, k \in JobIds : m # n \/ k # j => task'[m][k] = task[m][k]
  BY DEF AgentInv, AgentTypeOK
<1> QED BY <1>1 DEF WorkGoesOn, Working

LEMMA StopWorks ==
  ASSUME AgentInv, NEW n \in Nodes, NEW j, task' = Stop(n, j)
  PROVE  WorkGoesOn
<1>1. CASE task' = task
  BY <1>1 DEF WorkGoesOn, Working
<1>2. CASE slot[n] # NoJob /\ task' = [task EXCEPT ![n][slot[n]] = Cancelled(task[n][slot[n]])]
  <2>1. PICK k \in JobIds : slot[n] = k
    BY <1>2 DEF AgentInv, AgentTypeOK
  <2>2. Cancelled(task[n][k]).pc = task[n][k].pc
    BY CancelledFields DEF AgentInv, AgentTypeOK
  <2> DEFINE r == Cancelled(task[n][k])
  <2>3. task' = [task EXCEPT ![n][k] = r]
    BY <1>2, <2>1
  <2> HIDE DEF r
  <2>4. r.pc = task[n][k].pc
    BY <2>2 DEF r
  <2> QED BY <2>3, <2>4, OneWorks
<1> QED BY <1>1, <1>2 DEF Stop

\* Executor.Run, time limits and programs that end take a task no further than its
\* final report.
LEMMA RunWorks ==
  ASSUME AgentInv, NEW n \in Nodes, NEW j \in JobIds,
         RunStep(n, j) \/ Overrun(n, j) \/ ProcExit(n, j)
  PROVE  WorkGoesOn
<1> DEFINE t == task[n][j]
<1>1. t \in Tasks /\ task \in [Nodes -> [JobIds -> Tasks]]
  BY DEF AgentInv, AgentTypeOK
<1>2. ASSUME NEW e, NEW pc \in {"report", "clear"}, task' = Result(n, j, e, pc) PROVE WorkGoesOn
  <2> DEFINE r == [t EXCEPT !.event = e, !.pc = pc]
  <2>1. task' = [task EXCEPT ![n][j] = r] /\ r.pc = pc
    BY <1>1, <1>2 DEF Result, Tasks
  <2> HIDE DEF r
  <2> QED BY <2>1, OneWorks
<1>3. ASSUME NEW pc \in {"start", "wait", "report"}, task' = [task EXCEPT ![n][j].pc = pc]
      PROVE  WorkGoesOn
  <2> DEFINE r == [t EXCEPT !.pc = pc]
  <2>1. task' = [task EXCEPT ![n][j] = r] /\ r.pc = pc
    BY <1>1, <1>3 DEF Tasks
  <2> HIDE DEF r
  <2> QED BY <2>1, OneWorks
<1>4. CASE RunBegin(n, j)
  BY <1>2, <1>3, <1>4 DEF RunBegin
<1>5. CASE RunStart(n, j)
  <2>1. CASE task' = Result(n, j, "failed", "clear")
    BY <1>2, <2>1
  <2>2. CASE task' = [task EXCEPT ![n][j].pc = "wait", ![n][j].proc = "alive"]
    <3> DEFINE r == [t EXCEPT !.pc = "wait", !.proc = "alive"]
    <3>1. task' = [task EXCEPT ![n][j] = r] /\ r.pc = "wait"
      BY <1>1, <2>2 DEF Tasks
    <3> HIDE DEF r
    <3> QED BY <3>1, OneWorks
  <2> QED BY <1>5, <2>1, <2>2 DEF RunStart
<1>6. CASE RunDone(n, j)
  BY <1>2, <1>6 DEF RunDone
<1>7. CASE RunKill(n, j)
  <2> DEFINE e == IF t.ctx = "expired" THEN "failed" ELSE "cancelled"
             p == IF t.proc = "alive" THEN "killed" ELSE t.proc
             r == [t EXCEPT !.event = e, !.pc = "clear", !.proc = p]
  <2>1. task' = [Result(n, j, e, "clear") EXCEPT ![n][j].proc = IF @ = "alive" THEN "killed" ELSE @]
    BY <1>7 DEF RunKill
  <2> HIDE DEF e
  <2>2. task' = [task EXCEPT ![n][j] = r]
    BY <1>1, <2>1 DEF Result, Tasks
  <2> HIDE DEF p
  <2>3. r.pc = "clear"
    BY <1>1 DEF Tasks
  <2> HIDE DEF r
  <2> QED BY <2>2, <2>3, OneWorks
<1>8. CASE clear(n, j)
  BY <1>3, <1>8 DEF clear
<1>9. CASE Overrun(n, j)
  <2> DEFINE r == [t EXCEPT !.ctx = "expired"]
  <2>1. task' = [task EXCEPT ![n][j] = r] /\ r.pc = t.pc
    BY <1>1, <1>9 DEF Overrun, Tasks
  <2> HIDE DEF r
  <2> QED BY <2>1, OneWorks
<1>10. CASE ProcExit(n, j)
  <2>1. PICK status \in Exits : task' = [task EXCEPT ![n][j].proc = status]
    BY <1>10 DEF ProcExit
  <2> DEFINE r == [t EXCEPT !.proc = status]
  <2>2. task' = [task EXCEPT ![n][j] = r] /\ r.pc = t.pc
    BY <1>1, <2>1 DEF Tasks
  <2> HIDE DEF r
  <2> QED BY <2>2, OneWorks
<1> QED BY <1>4, <1>5, <1>6, <1>7, <1>8, <1>9, <1>10 DEF RunStep

\* The agent's other steps; SIGTERM cancels tasks, which go on to their reports.
LEMMA AgentWorks ==
  ASSUME AgentInv, NEW n \in Nodes,
         \/ AgentStart(n) \/ BeatAsk(n) \/ BeatAnswer(n) \/ AgentRegistered(n)
         \/ WatchOpen(n) \/ WatchEnds(n) \/ StreamBreaks(n) \/ AgentStop(n)
  PROVE  WorkGoesOn
<1>1. CASE UNCHANGED task
  BY <1>1 DEF WorkGoesOn, Working
<1>2. CASE BeatAnswer(n)
  <2>1. task' = task \/ task' = Stop(n, beat[n])
    BY <1>2 DEF BeatAnswer
  <2> QED BY <1>1, <2>1, StopWorks
<1>3. CASE AgentStop(n)
  <2> DEFINE f == [k \in JobIds |-> IF Working(n, k) THEN Cancelled(task[n][k]) ELSE task[n][k]]
  <2>1. task' = [task EXCEPT ![n] = f] /\ task \in [Nodes -> [JobIds -> Tasks]]
    BY <1>3 DEF AgentStop, AgentInv, AgentTypeOK
  <2>2. \A k \in JobIds : f[k].pc = task[n][k].pc
    BY <2>1, CancelledFields
  <2> HIDE DEF f
  <2>3. \A m \in Nodes, k \in JobIds : task'[m][k].pc = task[m][k].pc
    BY <2>1, <2>2
  <2> QED BY <2>3 DEF WorkGoesOn, Working
<1> QED BY <1>1, <1>2, <1>3
        DEF AgentStart, BeatAsk, AgentRegistered, WatchOpen, WatchEnds, StreamBreaks, execVars

\* The end of the agent ends the work of its node only.
LEMMA ExitWorks ==
  ASSUME AgentInv, NEW n \in Nodes, AgentExit(n), NEW k \in Nodes, NEW j \in JobIds, Working(k, j), k # n
  PROVE  Working(k, j)'
BY DEF AgentExit, AgentInv, AgentTypeOK, Working

\* So does a final report with one task.
LEMMA ReportWorks ==
  ASSUME AgentInv, NEW n \in Nodes, NEW j \in JobIds, FinalReport(n, j),
         NEW k \in Nodes, NEW i \in JobIds, Working(k, i), k # n \/ i # j
  PROVE  Working(k, i)'
BY DEF FinalReport, AgentInv, AgentTypeOK, Working

\* An assignment that is received is work.
LEMMA RecvWorks ==
  ASSUME AgentInv, HubInv, ServesNode, NEW s \in Streams, Recv(s)
  PROVE  /\ WorkGoesOn
         /\ \A n \in Nodes, j \in JobIds :
              chan[s].node = n /\ Head(chan[s].buf) = Assign(j) => Working(n, j)'
<1>1. PICK n, m : n = chan[s].node /\ m = Head(chan[s].buf)
  OBVIOUS
<1>2. /\ n \in Nodes /\ m \in Msgs /\ task \in [Nodes -> [JobIds -> Tasks]]
      /\ task' = IF m.kind = "assign" THEN [task EXCEPT ![n][m.job].pc = "received"]
                 ELSE Stop(n, m.job)
  <2>1. chan[s].buf \in Seq(Msgs) /\ chan[s].buf # <<>>
    BY DEF Recv, Deliver, HubInv, HubTypeOK
  <2>2. m \in Msgs
    BY <1>1, <2>1, TailHas
  <2> QED BY <1>1, <2>2 DEF Recv, Deliver, ServesNode, AgentInv, AgentTypeOK
<1>3. CASE m.kind = "cancel"
  <2>1. WorkGoesOn
    BY <1>2, <1>3, StopWorks
  <2> QED BY <1>1, <1>3, <2>1 DEF Assign
<1>4. CASE m.kind = "assign"
  <2>1. PICK j \in JobIds : m = Assign(j) /\ m.job = j
    BY <1>2, <1>4 DEF Msgs, Assign
  <2> DEFINE r == [task[n][j] EXCEPT !.pc = "received"]
  <2>2. task' = [task EXCEPT ![n][j] = r] /\ r.pc = "received"
    BY <1>2, <1>4, <2>1 DEF Tasks
  <2> HIDE DEF r
  <2>3. WorkGoesOn
    BY <1>2, <2>2, OneWorks
  <2>4. Working(n, j)'
    BY <1>2, <2>2 DEF Working
  <2>5. \A i \in JobIds : Assign(i) = Assign(j) => i = j
    BY DEF Assign
  <2> QED BY <1>1, <2>1, <2>3, <2>4, <2>5
<1> QED BY <1>2, <1>3, <1>4 DEF Msgs

-------------------------------------------------------------------------------
(* Controller and agents *)

\* n's assignment of job j is still to be sent.
NotYetSent(n, j) ==
  \/ jobs[j].status \in {"absent", "pending"}
  \/ sched.job = j /\ sched.pc \in {"dispatch", "send"} /\ n \in sched.todo

\* What dispatchWork is still to send, no node has; and it sends parts of started
\* jobs only.
SentOnce ==
  /\ sched.pc \in {"dispatch", "send"} => jobs[sched.job].status \notin {"absent", "pending"}
  /\ \A n \in Nodes, j \in JobIds : NotYetSent(n, j) =>
       task[n][j].pc = "none" /\ ~InMail(n, Assign(j))

\* The successes the manager has counted, and those a report is bringing, are of
\* programs that ended with status 0.
SuccessIsReal ==
  \A n \in Nodes, j \in JobIds :
    \/ n \in HasReported(j)
    \/ /\ th[<<"report", n, j>>].pc = "report"
       /\ th[<<"report", n, j>>].event # "failed"
    => task[n][j].proc = "exit0"

\* Only dispatchWork has nodes left to send to.
NothingLeft == sched.pc \notin {"dispatch", "send"} => sched.todo = {}

ClusterInv ==
  /\ CtrlInv /\ ResInv /\ HubInv /\ AgentInv
  /\ ServesNode /\ MailOnce /\ NotTwice
  /\ SentOnce /\ SuccessIsReal /\ CompletedMeansRan
  /\ NothingLeft /\ OwedIsInHand

-------------------------------------------------------------------------------
(* The controller's part of a step *)

\* The controller makes one call of the hub, or none.  Only dispatchWork sends
\* assignments.
CallsHub ==
  \/ UNCHANGED <<queue, sub, chan>> /\ [HubNext]_hubVars
  \/ \E n \in Nodes, j \in JobIds : send(n, CancelWork(j))
  \/ SchedulerNext /\ SchedSend

LEMMA ControllerHub == ASSUME CtrlInv, [Next]_vars PROVE CallsHub
<1>1. CASE UNCHANGED hubVars
  BY <1>1 DEF CallsHub, hubVars
<1>2. ASSUME NEW n \in Nodes, NEW j \in JobIds, SetCancel(n, j) \/ ClearCancel(n, j)
      PROVE  CallsHub
  BY <1>2 DEF CallsHub, HubNext, SetCancel, ClearCancel
<1>3. ASSUME NEW t \in Threads, ThreadStep(t) PROVE CallsHub
  <2>1. CASE Release(t) \/ KickStep(t)
    BY <1>1, <2>1 DEF Release, KickStep
  <2>2. CASE NotifySet(t) \/ NotifySend(t)
    <3>1. th[t] \in ThreadRecords /\ GoodThread(th[t])
      BY DEF CtrlInv, TypeOK
    <3>2. th[t].todo # {} /\ th[t].todo \subseteq Nodes /\ th[t].job \in JobIds
      BY <2>2, <3>1 DEF NotifySet, NotifySend, At, GoodThread, ThreadRecords
    <3>3. Min(th[t].todo) \in Nodes
      BY <3>2, NodesAssumption, MinIsLeast
    <3>4. CASE NotifySet(t)
      BY <1>2, <3>2, <3>3, <3>4 DEF NotifySet
    <3>5. CASE NotifySend(t)
      BY <3>2, <3>3, <3>5 DEF NotifySend, CallsHub
    <3> QED BY <2>2, <3>4, <3>5
  <2> QED BY <1>3, <2>1, <2>2 DEF ThreadStep
<1>4. CASE SchedulerNext
  <2>1. CASE SchedDropCancel
    <3>1. sched.todo # {} /\ sched.todo \subseteq Nodes /\ sched.job \in JobIds
      BY <2>1 DEF SchedDropCancel, CtrlInv, GoodSched, TypeOK, SchedRecords
    <3>2. Min(sched.todo) \in Nodes
      BY <3>1, NodesAssumption, MinIsLeast
    <3>3. DropCancel(Min(sched.todo))
      BY <2>1 DEF SchedDropCancel
    <3> QED BY <3>1, <3>2, <3>3 DEF CallsHub, HubNext, DropCancel
  <2>2. CASE SchedSend
    BY <1>4, <2>2 DEF CallsHub
  <2>3. ~SchedDropCancel /\ ~SchedSend => UNCHANGED hubVars
    BY <1>4 DEF SchedulerNext, SchedStep, SchedPeek, SchedSelect, SchedReserve, SchedMark, SchedUndo,
                SchedPark, SchedWake, SchedTick
  <2> QED BY <1>1, <2>1, <2>2, <2>3
<1>5. ASSUME NEW n \in Nodes, NEW j \in JobIds,
             ReportGet(n, j) \/ ReportApply(n, j) \/ ReportClear(n, j) \/ ReportAfter(n, j)
      PROVE  CallsHub
  BY <1>1, <1>2, <1>5 DEF ReportGet, ReportApply, ReportClear, ReportAfter
<1>6. ASSUME NEW j \in JobIds, SubmitDraw(j) \/ SubmitStore(j) \/ CancelGet(j) \/ CancelApply(j)
      PROVE  UNCHANGED hubVars
  BY <1>6 DEF SubmitDraw, SubmitStore, CancelGet, CancelApply
<1>7. ASSUME NEW n \in Nodes, Register(n) \/ MonTouch(n) \/ Silence(n) PROVE UNCHANGED hubVars
  BY <1>7 DEF Register, MonTouch, Silence
<1>8. CASE MonReap \/ MonHandle
  BY <1>1, <1>8 DEF MonReap, MonHandle
<1>9. CASE UNCHANGED vars
  BY <1>1, <1>9 DEF vars, hubVars
<1> QED BY <1>1, <1>3, <1>4, <1>5, <1>6, <1>7, <1>8, <1>9 DEF Next

\* What dispatchWork sends goes to a node, and is what it still has to send.
LEMMA SendTarget ==
  ASSUME CtrlInv, SchedulerNext, SchedSend
  PROVE  \E n \in Nodes :
           /\ n \in sched.todo /\ sched.job \in JobIds /\ sched.pc = "send"
           /\ send(n, Assign(sched.job))
           /\ \/ sched'.pc = "try" /\ sched'.todo = {} /\ sched.todo = {n}
              \/ sched'.pc = "dispatch" /\ sched'.job = sched.job /\ sched'.todo = sched.todo \ {n}
<1> DEFINE n == Min(sched.todo)
           todo == sched.todo \ {n}
<1>1. sched.todo # {} /\ sched.todo \subseteq Nodes /\ sched.job \in JobIds /\ sched \in SchedRecords
      /\ sched.pc = "send"
  BY DEF SchedSend, CtrlInv, GoodSched, TypeOK, SchedRecords
<1>2. n \in sched.todo
  BY <1>1, NodesAssumption, MinIsLeast
<1>3. send(n, Assign(sched.job))
      /\ \/ sched' = SchedIdle /\ sched.todo = {n}
         \/ sched' = [sched EXCEPT !.pc = "dispatch", !.todo = todo]
  BY DEF SchedSend
<1>4. SchedIdle.pc = "try" /\ SchedIdle.todo = {}
  BY DEF SchedIdle
<1> HIDE DEF n
<1>5. todo \in SUBSET Nodes
  BY <1>1
<1> HIDE DEF todo
<1>6. [sched EXCEPT !.pc = "dispatch", !.todo = todo].pc = "dispatch"
      /\ [sched EXCEPT !.pc = "dispatch", !.todo = todo].todo = todo
      /\ [sched EXCEPT !.pc = "dispatch", !.todo = todo].job = sched.job
  BY <1>1 DEF SchedRecords
<1>7. \/ sched'.pc = "try" /\ sched'.todo = {} /\ sched.todo = {n}
      \/ sched'.pc = "dispatch" /\ sched'.job = sched.job /\ sched'.todo = sched.todo \ {n}
  BY <1>3, <1>4, <1>6 DEF todo
<1> QED BY <1>1, <1>2, <1>3, <1>7

\* Every step of the whole is a step of the controller, or leaves all of it but the
\* hub alone.
LEMMA CtrlPart == ASSUME [ClusterNext]_clusterVars PROVE [Next]_vars \/ UNCHANGED ctrlVars
<1>1. CASE UNCHANGED clusterVars
  BY <1>1 DEF clusterVars
<1>2. CASE ControllerStep
  BY <1>2 DEF ControllerStep, Next
<1>3. ASSUME NEW n \in Nodes, CRegister(n) \/ AgentStep(n) \/ CBreak(n) \/ CStop(n) \/ CExit(n)
      PROVE  [Next]_vars \/ UNCHANGED ctrlVars
  BY <1>3 DEF CRegister, AgentStep, CBreak, CStop, CExit, Next
<1>4. ASSUME NEW n \in Nodes, NEW j \in JobIds,
             CReport(n, j) \/ CReportFails(n, j) \/ CTask(n, j) \/ COutside(n, j)
      PROVE  [Next]_vars \/ UNCHANGED ctrlVars
  BY <1>4 DEF CReport, CReportFails, CTask, COutside, Next
<1>5. ASSUME NEW s \in Streams, CBegin(s) \/ CRecv(s) \/ CReturn(s) PROVE UNCHANGED ctrlVars
  BY <1>5 DEF CBegin, CRecv, CReturn
<1> QED BY <1>1, <1>2, <1>3, <1>4, <1>5 DEF ClusterNext

-------------------------------------------------------------------------------
(* The hub's part and the agents' part *)

\* The controller or one stream.
HubMoves ==
  \/ CallsHub
  \/ UNCHANGED ctrlVars /\ \E s \in Streams : Recv(s) \/ Return(s) \/ \E n \in Nodes : Subscribe(s, n)

LEMMA HubPart == ASSUME CtrlInv, AgentInv, [ClusterNext]_clusterVars PROVE HubMoves
<1>1. CASE [Next]_vars
  BY <1>1, ControllerHub DEF HubMoves
<1>2. CASE UNCHANGED hubVars
  BY <1>2 DEF HubMoves, CallsHub, hubVars
<1>3. CASE UNCHANGED clusterVars
  BY <1>1, <1>3 DEF clusterVars
<1>4. CASE ControllerStep
  BY <1>1, <1>4 DEF ControllerStep, Next
<1>5. ASSUME NEW n \in Nodes, AgentStep(n) PROVE HubMoves
  BY <1>2, <1>5 DEF AgentStep, AgentStart, BeatAsk, BeatAnswer, WatchOpen, WatchEnds
<1>6. ASSUME NEW n \in Nodes, CRegister(n) \/ CBreak(n) \/ CStop(n) \/ CExit(n) PROVE HubMoves
  BY <1>1, <1>2, <1>6 DEF CRegister, CBreak, CStop, CExit, Next, StreamBreaks, AgentStop, AgentExit
<1>7. ASSUME NEW n \in Nodes, NEW j \in JobIds,
             CReport(n, j) \/ CReportFails(n, j) \/ CTask(n, j) \/ COutside(n, j)
      PROVE  HubMoves
  BY <1>1, <1>2, <1>7
     DEF CReport, CReportFails, CTask, COutside, Next, vars, hubVars, TaskStep, OutsideStep
<1>8. ASSUME NEW s \in Streams, CBegin(s) \/ CRecv(s) \/ CReturn(s) PROVE HubMoves
  <2>1. CBegin(s) => Subscribe(s, asked[s]) /\ asked[s] \in Nodes
    BY DEF CBegin, WatchBegin, AgentInv, AgentTypeOK
  <2> QED BY <1>8, <2>1 DEF CBegin, CRecv, CReturn, HubMoves, HandlerReturns
<1> QED BY <1>3, <1>4, <1>5, <1>6, <1>7, <1>8 DEF ClusterNext

\* Agents, streams and the controller use the hub as it expects, in any order.
LEMMA HubUsed == ASSUME CtrlInv, AgentInv, [ClusterNext]_clusterVars PROVE [HubNext]_hubVars
<1>1. HubMoves
  BY HubPart
<1>2. ASSUME SchedulerNext, SchedSend PROVE [HubNext]_hubVars
  BY <1>2, SendTarget DEF HubNext
<1> QED BY <1>1, <1>2 DEF HubMoves, CallsHub, HubNext, Recv

\* Only a message that is received can bring a task into being.
LEMMA AgentPart ==
  ASSUME AgentInv, HubTypeOK, [ClusterNext]_clusterVars, \A s \in Streams : ~Recv(s)
  PROVE  AgentInv' /\ TasksOnward
<1>1. CASE UNCHANGED agentVars
  BY <1>1 DEF agentVars, execVars, AgentInv, TasksGood, AgentTypeOK, TasksOnward
<1>2. CASE UNCHANGED clusterVars
  BY <1>1, <1>2 DEF clusterVars
<1>3. CASE ControllerStep
  BY <1>1, <1>3 DEF ControllerStep
<1>4. ASSUME NEW n \in Nodes, CRegister(n) \/ AgentStep(n) \/ CBreak(n) PROVE AgentInv' /\ TasksOnward
  BY <1>4, AgentKeeps DEF CRegister, AgentStep, CBreak
<1>5. ASSUME NEW n \in Nodes, CStop(n) \/ CExit(n) PROVE AgentInv' /\ TasksOnward
  BY <1>5, StopExitKeeps DEF CStop, CExit
<1>6. ASSUME NEW n \in Nodes, NEW j \in JobIds,
             CReport(n, j) \/ CReportFails(n, j) \/ CTask(n, j) \/ COutside(n, j)
      PROVE  AgentInv' /\ TasksOnward
  <2>1. CASE CTask(n, j)
    BY <1>6, <2>1, RunKeeps DEF CTask, TaskStep, AgentRest
  <2>2. CASE COutside(n, j)
    BY <1>6, <2>2, OutsideKeeps DEF COutside, OutsideStep, AgentRest
  <2>3. CASE CReport(n, j) \/ CReportFails(n, j)
    BY <1>6, <2>3, OutsideKeeps DEF CReport, CReportFails, FinalReport, AgentRest
  <2> QED BY <1>6, <2>1, <2>2, <2>3
<1>7. ASSUME NEW s \in Streams, CBegin(s) \/ CRecv(s) \/ CReturn(s) PROVE AgentInv' /\ TasksOnward
  BY <1>1, <1>7 DEF CBegin, WatchBegin, CRecv, CReturn, HandlerReturns
<1> QED BY <1>2, <1>3, <1>4, <1>5, <1>6, <1>7 DEF ClusterNext

\* The invariants of the controller do not depend on who else moves the hub.
LEMMA CtrlKept ==
  ASSUME CtrlInv, ResInv, HubInv, AgentInv, [ClusterNext]_clusterVars
  PROVE  CtrlInv' /\ ResInv' /\ HubInv'
<1>1. HubInv'
  BY HubUsed, HubStep
<1>2. CASE [Next]_vars
  BY <1>1, <1>2, CtrlNext, ResNext
<1>3. CASE UNCHANGED ctrlVars
  <2>1. HandlerStep
    BY <1>1, <1>3, Frames DEF HandlerStep, ctrlVars, schedVars, HubInv
  <2>2. ResInv'
    BY <1>3, ResQuiet DEF ctrlVars
  <2> QED BY <1>1, <2>1, <2>2, HandlerKeeps
<1> QED BY <1>2, <1>3, CtrlPart

-------------------------------------------------------------------------------
(* A job is sent once *)

\* Where dispatchWork comes from.
LEMMA DispatchFrom ==
  ASSUME CtrlInv, SchedulerNext, sched'.pc \in {"dispatch", "send"}
  PROVE  /\ sched.job \in JobIds /\ sched'.job = sched.job
         /\ \/ /\ jobs[sched.job].status = "pending" /\ jobs'[sched.job].status = "running"
               /\ sched'.todo = jobs'[sched.job].assigned
            \/ /\ UNCHANGED jobs
               /\ sched.pc \in {"dispatch", "send"} /\ sched'.todo \subseteq sched.todo
<1>1. sched \in SchedRecords
  BY DEF CtrlInv, TypeOK
<1>2. CASE SchedMark
  <2>1. sched.job \in JobIds
    BY <1>2 DEF SchedMark, CtrlInv, GoodSched
  <2>2. sched' = [sched EXCEPT !.pc = "undo"] => sched'.pc = "undo"
    BY <1>1 DEF SchedRecords
  <2>3. MarkRunning(sched.job, sched.gang) /\ sched' = [sched EXCEPT !.pc = "dispatch", !.todo = sched.gang]
    BY <1>2, <2>2 DEF SchedMark
  <2>4. sched'.job = sched.job /\ sched'.todo = sched.gang
    BY <1>1, <2>3 DEF SchedRecords
  <2>5. jobs[sched.job].status = "pending" /\ jobs'[sched.job].status = "running"
        /\ jobs'[sched.job].assigned = sched.gang
    BY <2>1, <2>3 DEF MarkRunning, CanTransition, CtrlInv, TypeOK, JMTypeOK, JobRecords
  <2> QED BY <2>1, <2>4, <2>5
<1>3. CASE SchedDropCancel
  <2>1. sched.job \in JobIds /\ sched.pc = "dispatch" /\ UNCHANGED jobs
    BY <1>3 DEF SchedDropCancel, CtrlInv, GoodSched, jmVars
  <2>2. sched'.job = sched.job /\ sched'.todo = sched.todo
    BY <1>1, <1>3 DEF SchedDropCancel, SchedRecords
  <2> QED BY <2>1, <2>2
<1>4. CASE SchedSend
  BY <1>4, SendTarget DEF SchedSend, jmVars
<1>5. CASE SchedPeek \/ SchedSelect
  <2>1. SchedIdle.pc = "try" /\ SchedIdle \in [pc : {"try"}, job : {NoJob}, spec : {NoSpec}, gang : {{}}, todo : {{}}]
    BY DEF SchedIdle
  <2>2. sched'.pc \in {"select", "exit", "reserve"}
    BY <1>1, <1>5, <2>1 DEF SchedPeek, SchedSelect, SchedRecords
  <2> QED BY <2>2
<1>6. CASE SchedReserve \/ SchedUndo \/ SchedPark \/ SchedWake \/ SchedTick
  <2>1. sched'.pc \in {"mark", "exit", "wait", "try"}
    BY <1>1, <1>6 DEF SchedReserve, SchedUndo, SchedPark, SchedWake, SchedTick, SchedRecords, SchedIdle
  <2> QED BY <2>1
<1> QED BY <1>2, <1>3, <1>4, <1>5, <1>6 DEF SchedulerNext, SchedStep

\* dispatchWork's next step may send j to n.
Sending(n, j) == sched.pc = "send" /\ sched.job = j /\ n \in sched.todo

\* The dispatch only moves on; what it has sent is sent.
LEMMA SentStep ==
  ASSUME CtrlInv, ResInv, SentOnce, [Next]_vars
  PROVE  /\ sched'.pc \in {"dispatch", "send"} => jobs'[sched'.job].status \notin {"absent", "pending"}
         /\ \A n \in Nodes, j \in JobIds : NotYetSent(n, j)' => NotYetSent(n, j)
         /\ SchedulerNext /\ SchedSend =>
              \E n \in Nodes, j \in JobIds :
                send(n, Assign(j)) /\ Sending(n, j) /\ ~NotYetSent(n, j)'
<1>1. JobsOnward
  BY OneCallPerStep, Onward DEF CtrlInv, TypeOK, ResInv, ResBase
<1>2. \A j \in JobIds : jobs'[j].status \in {"absent", "pending"} => jobs[j].status \in {"absent", "pending"}
  BY <1>1 DEF JobsOnward
<1>3. CASE sched' = sched
  <2>1. sched.pc \in {"dispatch", "send"} => sched.job \in JobIds
    BY DEF CtrlInv, GoodSched
  <2>2. ~(SchedulerNext /\ SchedSend)
    <3>1. SchedulerNext /\ SchedSend => sched'.pc # sched.pc
      BY SendTarget
    <3> QED BY <1>3, <3>1
  <2> QED BY <1>2, <1>3, <2>1, <2>2 DEF NotYetSent, SentOnce
<1>4. CASE SchedulerNext
  <2>1. sched'.pc \in {"dispatch", "send"} => jobs'[sched'.job].status \notin {"absent", "pending"}
    BY <1>4, DispatchFrom DEF SentOnce
  <2>2. ASSUME NEW n \in Nodes, NEW j \in JobIds, NotYetSent(n, j)' PROVE NotYetSent(n, j)
    <3>1. CASE jobs'[j].status \in {"absent", "pending"}
      BY <1>2, <3>1 DEF NotYetSent
    <3>2. CASE sched'.job = j /\ sched'.pc \in {"dispatch", "send"} /\ n \in sched'.todo
      BY <1>4, <3>2, DispatchFrom DEF NotYetSent
    <3> QED BY <2>2, <3>1, <3>2 DEF NotYetSent
  <2>3. ASSUME SchedSend
        PROVE  \E n \in Nodes, j \in JobIds :
                 send(n, Assign(j)) /\ Sending(n, j) /\ ~NotYetSent(n, j)'
    <3>1. PICK n \in Nodes :
            /\ n \in sched.todo /\ sched.job \in JobIds /\ sched.pc = "send"
            /\ send(n, Assign(sched.job))
            /\ \/ sched'.pc = "try"
               \/ sched'.pc = "dispatch" /\ sched'.job = sched.job /\ sched'.todo = sched.todo \ {n}
      BY <1>4, <2>3, SendTarget
    <3>2. jobs' = jobs /\ jobs[sched.job].status \notin {"absent", "pending"}
      BY <2>3, <3>1 DEF SchedSend, jmVars, SentOnce
    <3>3. PICK j \in JobIds : j = sched.job
      BY <3>1
    <3>4. Sending(n, j) /\ ~NotYetSent(n, j)'
      BY <3>1, <3>2, <3>3 DEF NotYetSent, Sending
    <3> QED BY <3>1, <3>3, <3>4
  <2> QED BY <2>1, <2>2, <2>3
<1>5. SchedulerNext \/ sched' = sched
  BY NextIsOneOf DEF HandlerStep, vars, schedVars
<1> QED BY <1>3, <1>4, <1>5

\* What a step does to the parts of a job: a program that succeeded stays so, a task
\* that is over stays over, a new one was in the mail, and what is new there was sent.
PartsMove ==
  \A n \in Nodes, j \in JobIds :
    /\ task[n][j].proc = "exit0" => task'[n][j].proc = "exit0"
    /\ task[n][j].pc = "done" => task'[n][j].pc = "done"
    /\ task[n][j].pc = "none" /\ task'[n][j].pc # "none" => InMail(n, Assign(j))
    /\ InMail(n, Assign(j))' => InMail(n, Assign(j)) \/ Sending(n, j)

\* The assignments in the mail after a step, and no task twice.
LEMMA SentKept ==
  ASSUME ClusterInv, [ClusterNext]_clusterVars
  PROVE  /\ AgentInv' /\ MailOnce' /\ ServesNode' /\ NotTwice' /\ SentOnce'
         /\ PartsMove
<1> USE DEF ClusterInv
<1>1. ServesNode'
  BY HubUsed, ServesKept
<1>2. /\ sched'.pc \in {"dispatch", "send"} => jobs'[sched'.job].status \notin {"absent", "pending"}
      /\ \A n \in Nodes, j \in JobIds : NotYetSent(n, j)' => NotYetSent(n, j)
  <2>1. CASE [Next]_vars
    BY <2>1, SentStep
  <2>2. CASE UNCHANGED ctrlVars
    BY <2>2 DEF ctrlVars, jmVars, schedVars, SentOnce, NotYetSent
  <2> QED BY <2>1, <2>2, CtrlPart
<1>3. \A j \in JobIds : Assign(j) \in Msgs /\ CancelWork(j) \in Msgs
      /\ CancelWork(j).kind # "assign" /\ \A i \in JobIds : Assign(i) # CancelWork(j) /\ (Assign(i) = Assign(j) => i = j)
  BY DEF Assign, CancelWork, Msgs
<1>4. ASSUME AgentInv', TasksOnward, MailOnce',
             \A n \in Nodes, j \in JobIds :
               InMail(n, Assign(j))' => InMail(n, Assign(j)) \/ (Sending(n, j) /\ ~NotYetSent(n, j)')
      PROVE  AgentInv' /\ MailOnce' /\ ServesNode' /\ NotTwice' /\ SentOnce' /\ PartsMove
  <2>0. \A n \in Nodes, j \in JobIds : Sending(n, j) => NotYetSent(n, j)
    BY DEF Sending, NotYetSent
  <2>1. NotTwice'
    BY <1>4, <2>0 DEF NotTwice, TasksOnward, SentOnce
  <2>2. SentOnce'
    BY <1>2, <1>4 DEF SentOnce, TasksOnward
  <2>3. PartsMove
    BY <1>4 DEF TasksOnward, PartsMove
  <2> QED BY <1>1, <1>4, <2>1, <2>2, <2>3
<1>5. CASE \E s \in Streams : Recv(s)
  <2>1. PICK s \in Streams : Recv(s)
    BY <1>5
  <2>2. /\ AgentInv' /\ MailOnce' /\ NotTwice' /\ NoNewMail
        /\ \A n \in Nodes, j \in JobIds :
              /\ task[n][j].proc = "exit0" => task'[n][j].proc = "exit0"
              /\ task[n][j].pc = "none" /\ task'[n][j].pc # "none" => InMail(n, Assign(j))
              /\ task[n][j].pc = "done" => task'[n][j].pc = "done"
    BY <2>1, RecvKeeps
  <2>3. SentOnce'
    BY <1>2, <1>3, <2>2 DEF SentOnce, NoNewMail
  <2>4. PartsMove
    BY <1>3, <2>2 DEF NoNewMail, PartsMove
  <2> QED BY <1>1, <2>2, <2>3, <2>4
<1>6. CASE \A s \in Streams : ~Recv(s)
  <2>1. AgentInv' /\ TasksOnward
    BY <1>6, AgentPart DEF HubInv
  <2>2. ASSUME MailOnce', NoNewMail
        PROVE  AgentInv' /\ MailOnce' /\ ServesNode' /\ NotTwice' /\ SentOnce' /\ PartsMove
    BY <1>3, <1>4, <2>1, <2>2 DEF NoNewMail
  <2>4. CASE UNCHANGED <<queue, sub, chan>>
    BY <2>2, <2>4, SameMail
  <2>5. ASSUME NEW n \in Nodes, NEW j \in JobIds, send(n, CancelWork(j))
        PROVE  MailOnce' /\ \A k \in Nodes, i \in JobIds : InMail(k, Assign(i))' => InMail(k, Assign(i))
    <3>1. /\ MailOnce'
          /\ \A k \in Nodes, x \in Msgs : InMail(k, x)' => InMail(k, x) \/ (k = n /\ x = CancelWork(j))
      BY <1>3, <2>5, SendMail
    <3> QED BY <1>3, <3>1
  <2>6. ASSUME SchedulerNext, SchedSend, [Next]_vars
        PROVE  MailOnce' /\ \A k \in Nodes, i \in JobIds : InMail(k, Assign(i))' =>
                 InMail(k, Assign(i)) \/ (Sending(k, i) /\ ~NotYetSent(k, i)')
    <3>1. PICK n \in Nodes, j \in JobIds : send(n, Assign(j)) /\ Sending(n, j) /\ ~NotYetSent(n, j)'
      BY <2>6, SentStep
    <3>2. ~InMail(n, Assign(j))
      BY <3>1 DEF SentOnce, Sending, NotYetSent
    <3>3. /\ MailOnce'
          /\ \A k \in Nodes, x \in Msgs : InMail(k, x)' => InMail(k, x) \/ (k = n /\ x = Assign(j))
      BY <1>3, <3>1, <3>2, SendMail
    <3> QED BY <1>3, <3>1, <3>3
  <2>7. SchedulerNext => [Next]_vars
    BY DEF Next
  <2>8. ASSUME NEW s \in Streams, Return(s) PROVE MailOnce' /\ NoNewMail
    BY <2>8, ReturnMail
  <2>9. ASSUME NEW s \in Streams, NEW n \in Nodes, Subscribe(s, n) PROVE MailOnce' /\ NoNewMail
    BY <2>9, SubscribeMail
  <2> QED BY <1>4, <1>6, <2>1, <2>2, <2>4, <2>5, <2>6, <2>7, <2>8, <2>9, HubPart DEF HubMoves, CallsHub
<1> QED BY <1>5, <1>6

-------------------------------------------------------------------------------
(* A success that is counted is real *)

\* No call that is under way starts on a report.
ReportsStay == \A u \in Threads : th'[u].pc \in {"report", "ack"} => th'[u] = th[u]

LEMMA ReportsApart ==
  ASSUME CtrlInv, ControllerStep \/ \E n \in Nodes : Register(n)
  PROVE  ReportsStay
<1>1. TypeOK /\ th \in [Threads -> ThreadRecords]
  BY DEF CtrlInv, TypeOK
<1>3. ASSUME NEW t \in Threads, NEW r, th' = [th EXCEPT ![t] = r], r.pc \notin {"report", "ack"} PROVE ReportsStay
  BY <1>1, <1>3 DEF ReportsStay
<1>4. ASSUME NEW t \in Threads, NEW pc, pc \notin {"report", "ack"}, Goto(t, pc) \/ Over(t, pc) PROVE ReportsStay
  BY <1>1, <1>4, GotoFields, OverFields DEF OnlyMoves, ReportsStay
<1>5. ASSUME UNCHANGED th PROVE ReportsStay
  BY <1>5 DEF ReportsStay
<1>6. ASSUME NEW m \in Nodes, Register(m) \/ MonTouch(m) \/ Silence(m) PROVE ReportsStay
  BY <1>4, <1>5, <1>6, ThreadIds DEF Register, MonTouch, Silence
<1>7. ASSUME NEW k \in JobIds, SubmitDraw(k) \/ SubmitStore(k) \/ CancelApply(k) PROVE ReportsStay
  BY <1>4, <1>7, ThreadIds DEF SubmitDraw, SubmitStore, CancelApply, Done
<1>8. ASSUME NEW k \in JobIds, CancelGet(k) PROVE ReportsStay
  <2> DEFINE t == <<"cancel", 0, k>>
             r == [th[t] EXCEPT !.pc = "cancel", !.job = k, !.gang = jobs[k].assigned,
                                !.cpus = jobs[k].spec.cpus, !.todo = jobs[k].assigned]
  <2>1. th' = [th EXCEPT ![t] = r] /\ t \in Threads
    BY <1>8, ThreadIds DEF CancelGet
  <2>2. r.pc = "cancel"
    BY <1>1, <2>1 DEF ThreadRecords
  <2> HIDE DEF t, r
  <2> QED BY <1>3, <2>1, <2>2
<1>9. ASSUME NEW m \in Nodes, NEW k \in JobIds, ReportApply(m, k) PROVE ReportsStay
  <2> DEFINE t == <<"report", m, k>>
             r == [th[t] EXCEPT !.pc = "clear", !.event = "none"]
  <2>1. th' = [th EXCEPT ![t] = r] /\ t \in Threads
    BY <1>9, ThreadIds DEF ReportApply
  <2>2. r.pc = "clear"
    BY <1>1, <2>1 DEF ThreadRecords
  <2> HIDE DEF t, r
  <2> QED BY <1>3, <2>1, <2>2
<1>10. ASSUME NEW m \in Nodes, NEW k \in JobIds, ReportClear(m, k) PROVE ReportsStay
  BY <1>4, <1>10, ThreadIds DEF ReportClear, Done
<1>11. ASSUME NEW m \in Nodes, NEW k \in JobIds, ReportAfter(m, k) PROVE ReportsStay
  <2> DEFINE t == <<"report", m, k>>
             todo == IF jobs[k].status = "failed" THEN jobs[k].assigned \ {m} ELSE {}
             r == [th[t] EXCEPT !.pc = "release", !.gang = jobs[k].assigned,
                                !.cpus = jobs[k].spec.cpus, !.todo = todo]
  <2>1. th' = [th EXCEPT ![t] = r] \/ Over(t, "done")
    BY <1>11 DEF ReportAfter, Done
  <2>2. t \in Threads
    BY ThreadIds
  <2> HIDE DEF todo
  <2>3. r.pc = "release"
    BY <1>1, <2>2 DEF ThreadRecords
  <2> HIDE DEF t, r
  <2> QED BY <1>3, <1>4, <2>1, <2>2, <2>3
<1>12. ASSUME MonReap PROVE ReportsStay
  <2>1. PICK pc \in {"idle", "handle"} : Goto(Monitor, pc)
    BY <1>12 DEF MonReap
  <2>2. Monitor \in Threads /\ pc \notin {"report", "ack"}
    BY ThreadIds
  <2> QED BY <1>4, <2>1, <2>2
<1>13. ASSUME MonHandle PROVE ReportsStay
  <2>1. ASSUME NEW pc \in {"notify", "release"}, NEW job, NEW gang, NEW cpus, NEW todo,
               th' = [th EXCEPT ![Monitor] = [th[Monitor] EXCEPT !.pc = pc, !.job = job,
                                                !.gang = gang, !.cpus = cpus, !.todo = todo]]
        PROVE  ReportsStay
    <3> DEFINE r == [th[Monitor] EXCEPT !.pc = pc, !.job = job, !.gang = gang, !.cpus = cpus,
                                        !.todo = todo]
    <3>1. Monitor \in Threads
      BY ThreadIds
    <3>2. r.pc = pc /\ th' = [th EXCEPT ![Monitor] = r]
      BY <1>1, <2>1, <3>1 DEF ThreadRecords
    <3> HIDE DEF r
    <3> QED BY <1>3, <3>1, <3>2
  <2>2. PICK d \in dead :
          \/ th' = [th EXCEPT ![Monitor] = [th[Monitor] EXCEPT !.pc = "notify", !.job = d.job,
                      !.gang = jobs[d.job].assigned, !.cpus = jobs[d.job].spec.cpus,
                      !.todo = jobs[d.job].assigned]]
          \/ th' = [th EXCEPT ![Monitor] = [th[Monitor] EXCEPT !.pc = "release", !.job = d.job,
                      !.gang = {d.id}, !.cpus = d.alloc, !.todo = {}]]
    BY <1>13 DEF MonHandle
  <2> DEFINE Moved(pc, job, gang, cpus, todo) ==
               th' = [th EXCEPT ![Monitor] = [th[Monitor] EXCEPT !.pc = pc, !.job = job,
                                                !.gang = gang, !.cpus = cpus, !.todo = todo]]
  <2>3. \/ Moved("notify", d.job, jobs[d.job].assigned, jobs[d.job].spec.cpus, jobs[d.job].assigned)
        \/ Moved("release", d.job, {d.id}, d.alloc, {})
    BY <2>2
  <2>4. \A pc \in {"notify", "release"} : \A job, gang, cpus, todo :
          Moved(pc, job, gang, cpus, todo) => ReportsStay
    BY <2>1
  <2> HIDE DEF Moved
  <2> QED BY <2>3, <2>4
<1>14. ASSUME NEW t \in Threads, ThreadStep(t) PROVE ReportsStay
  <2>1. CASE Release(t)
    <3>1. Over(t, "idle") \/ Over(t, "handle") \/ Over(t, "kick") \/ Goto(t, "notify")
      BY <2>1 DEF Release
    <3> QED BY <1>4, <3>1
  <2>2. CASE NotifySet(t)
    BY <1>4, <2>2 DEF NotifySet
  <2>3. CASE NotifySend(t)
    <3>1. ASSUME NEW pc \in {"notify", "release"}, NEW todo,
                 th' = [th EXCEPT ![t] = [th[t] EXCEPT !.pc = pc, !.todo = todo]]
          PROVE  ReportsStay
      <4> DEFINE r == [th[t] EXCEPT !.pc = pc, !.todo = todo]
      <4>1. r.pc = pc /\ th' = [th EXCEPT ![t] = r]
        BY <1>1, <3>1 DEF ThreadRecords
      <4> HIDE DEF r
      <4> QED BY <1>3, <4>1
    <3> DEFINE n0 == Min(th[t].todo)
               left == th[t].todo \ {n0}
    <3>2. \/ th' = [th EXCEPT ![t] = [th[t] EXCEPT !.pc = "notify", !.todo = left]]
          \/ th' = [th EXCEPT ![t] = [th[t] EXCEPT !.pc = "release", !.todo = {}]]
          \/ Over(t, "kick")
      BY <2>3, Zenon DEF NotifySend
    <3> HIDE DEF n0, left
    <3>3. Over(t, "kick") => ReportsStay
      BY <1>4, <1>14
    <3> QED BY <3>1, <3>2, <3>3
  <2>4. CASE KickStep(t)
    <3>1. th' = [th EXCEPT ![t] = Idle] \/ Over(t, "done")
      BY <2>4 DEF KickStep, Done
    <3>2. Idle.pc = "idle"
      BY DEF Idle
    <3> QED BY <1>3, <1>4, <3>1, <3>2
  <2> QED BY <1>14, <2>1, <2>2, <2>3, <2>4 DEF ThreadStep
<1>15. ASSUME SchedulerNext PROVE ReportsStay
  BY <1>5, <1>15 DEF SchedulerNext
<1> QED BY <1>6, <1>7, <1>8, <1>9, <1>10, <1>11, <1>12, <1>13, <1>14, <1>15 DEF ControllerStep

\* The step counts no success and completes no job.
NoSuccess ==
  \A j \in JobIds :
    /\ HasReported(j)' \subseteq HasReported(j)
    /\ jobs'[j].status = "completed" => jobs[j].status = "completed"

LEMMA QuietCalls ==
  ASSUME JMTypeOK, NEW id \in JobIds
  PROVE  /\ \A spec : Submit(id, spec) => NoSuccess
         /\ \A gang : MarkRunning(id, gang) => NoSuccess
         /\ FailRunningJob(id) => NoSuccess
         /\ Cancel(id) => NoSuccess
         /\ UNCHANGED jmVars => NoSuccess
<1> USE DEF JMTypeOK, JobRecords, NoSuccess
<1>1. UNCHANGED reports => \A j \in JobIds : HasReported(j)' = HasReported(j)
  BY DEF HasReported
<1>2. ASSUME reports' = [reports EXCEPT ![id] = NoReports]
      PROVE  \A j \in JobIds : HasReported(j)' \subseteq HasReported(j)
  BY <1>2 DEF HasReported, NoReports
<1>3. ASSUME NEW spec, Submit(id, spec) PROVE NoSuccess
  BY <1>1, <1>3 DEF Submit, NewJob
<1>4. ASSUME NEW gang, MarkRunning(id, gang) PROVE NoSuccess
  BY <1>2, <1>4 DEF MarkRunning
<1>5. FailRunningJob(id) => NoSuccess
  BY <1>2 DEF FailRunningJob, Finish
<1>6. Cancel(id) => NoSuccess
  BY <1>1, <1>2 DEF Cancel
<1>7. UNCHANGED jmVars => NoSuccess
  BY <1>1 DEF jmVars
<1> QED BY <1>3, <1>4, <1>5, <1>6, <1>7

\* Successes come from reports.
LEMMA SuccessFrom ==
  ASSUME CtrlInv, [Next]_vars, \A n \in Nodes, j \in JobIds : ~ReportApply(n, j)
  PROVE  NoSuccess
<1>1. JMTypeOK
  BY DEF CtrlInv, TypeOK
<1>2. CASE UNCHANGED jmVars
  <2>1. JobIds = {} => NoSuccess
    BY DEF NoSuccess
  <2> QED BY <1>1, <1>2, <2>1, QuietCalls
<1>3. ASSUME NEW j \in JobIds, SubmitDraw(j) \/ SubmitStore(j) \/ CancelGet(j) \/ CancelApply(j)
      PROVE  NoSuccess
  BY <1>1, <1>3, QuietCalls DEF SubmitDraw, SubmitStore, CancelGet, CancelApply
<1>4. CASE MonReap \/ MonHandle
  <2>1. \A d \in dead : d.job \in JobIds
    BY DEF CtrlInv, TypeOK
  <2> QED BY <1>1, <1>2, <1>4, <2>1, QuietCalls DEF MonReap, MonHandle
<1>5. ASSUME NEW t \in Threads, ThreadStep(t) PROVE NoSuccess
  BY <1>2, <1>5 DEF ThreadStep, Release, NotifySet, NotifySend, KickStep
<1>6. CASE SchedulerNext
  <2>1. CASE SchedMark
    <3>1. sched.job \in JobIds
      BY <2>1 DEF SchedMark, CtrlInv, GoodSched
    <3> QED BY <1>1, <2>1, <3>1, QuietCalls DEF SchedMark
  <2>2. ~SchedMark => UNCHANGED jmVars
    BY <1>6 DEF SchedulerNext, SchedStep, SchedPeek, SchedSelect, SchedReserve, SchedUndo,
                SchedDropCancel, SchedSend, SchedPark, SchedWake, SchedTick
  <2> QED BY <1>2, <2>1, <2>2
<1>7. ASSUME NEW n \in Nodes, Register(n) \/ MonTouch(n) \/ Silence(n) PROVE NoSuccess
  BY <1>2, <1>7 DEF Register, MonTouch, Silence
<1>8. ASSUME NEW n \in Nodes, NEW j \in JobIds, ReportGet(n, j) \/ ReportClear(n, j) \/ ReportAfter(n, j)
      PROVE  NoSuccess
  BY <1>2, <1>8 DEF ReportGet, ReportClear, ReportAfter
<1>9. CASE UNCHANGED vars
  BY <1>2, <1>9 DEF vars
<1> QED BY <1>3, <1>4, <1>5, <1>6, <1>7, <1>8, <1>9 DEF Next

\* A report counts for its own node and job; it completes the job as the last of
\* the gang.
LEMMA ReportCounts ==
  ASSUME CtrlInv, NEW n \in Nodes, NEW j \in JobIds, ReportApply(n, j)
  PROVE  /\ th[<<"report", n, j>>].pc = "report"
         /\ \A k \in JobIds : HasReported(k)' \subseteq HasReported(k) \cup {n}
         /\ \A k \in JobIds : k # j \/ th[<<"report", n, j>>].event = "failed" =>
              /\ HasReported(k)' \subseteq HasReported(k)
              /\ jobs'[k].status = "completed" => jobs[k].status = "completed"
         /\ jobs'[j].status = "completed" /\ jobs[j].status # "completed" =>
              jobs'[j].assigned \subseteq HasReported(j) \cup {n}
<1> DEFINE failed == th[<<"report", n, j>>].event = "failed"
           exit == IF failed THEN 1 ELSE 0
<1>1. th[<<"report", n, j>>].pc = "report" /\ ReportNodeEvent(j, n, failed, exit)
  BY DEF ReportApply, At
<1>2. jobs \in [JobIds -> JobRecords] /\ reports \in [JobIds -> [Nodes -> ExitCodes \cup {NoReport}]]
      /\ JMInv
  BY DEF CtrlInv, TypeOK, JMTypeOK
<1> HIDE DEF failed, exit
<1>3. CASE UNCHANGED jmVars
  BY <1>1, <1>3 DEF jmVars, HasReported
<1>4. ASSUME NEW to \in {"failed", "completed"}, NEW e, Finish(j, to, e)
      PROVE  /\ \A k \in JobIds : HasReported(k)' \subseteq HasReported(k)
             /\ \A k \in JobIds : k # j => jobs'[k] = jobs[k]
             /\ jobs'[j].status = to /\ jobs'[j].assigned = jobs[j].assigned
  BY <1>2, <1>4 DEF Finish, HasReported, NoReports, JobRecords
<1>5. CASE failed /\ Finish(j, "failed", exit)
  BY <1>1, <1>4, <1>5 DEF failed
<1>6. CASE ~failed /\ reports' = [reports EXCEPT ![j][n] = exit] /\ UNCHANGED jobs
  <2>1. \A k \in JobIds : k # j => HasReported(k)' = HasReported(k)
    BY <1>2, <1>6 DEF HasReported
  <2>2. HasReported(j)' \subseteq HasReported(j) \cup {n}
    BY <1>2, <1>6 DEF HasReported
  <2> QED BY <1>1, <1>6, <2>1, <2>2 DEF failed
<1>7. ASSUME ~failed, jobs[j].status = "running", n \in jobs[j].assigned, ReportComplete(j, n),
             NEW e, Finish(j, "completed", e)
      PROVE  /\ \A k \in JobIds : HasReported(k)' \subseteq HasReported(k)
             /\ \A k \in JobIds : k # j => jobs'[k] = jobs[k]
             /\ jobs'[j].assigned \subseteq HasReported(j) \cup {n}
  BY <1>2, <1>4, <1>7, CountIsCoverage
<1>8. CASE ~failed /\ jobs[j].status = "running" /\ n \in jobs[j].assigned /\ ReportComplete(j, n)
           /\ \E e : Finish(j, "completed", e)
  BY <1>1, <1>7, <1>8 DEF failed
<1> QED BY <1>1, <1>3, <1>5, <1>6, <1>8 DEF ReportNodeEvent, IgnoreReport, AcceptReport

\* A success that an agent reports is that of its program.
LEMMA ReportIsReal ==
  ASSUME CtrlInv, AgentInv, [ClusterNext]_clusterVars, NEW n \in Nodes, NEW j \in JobIds,
         th'[<<"report", n, j>>].pc = "report", th'[<<"report", n, j>>].event # "failed"
  PROVE  th'[<<"report", n, j>>] = th[<<"report", n, j>>] \/ task[n][j].proc = "exit0"
<1> DEFINE t == <<"report", n, j>>
<1>1. t \in Threads /\ th \in [Threads -> ThreadRecords]
  BY ThreadIds DEF CtrlInv, TypeOK
<1>2. CASE ReportsStay
  BY <1>1, <1>2 DEF ReportsStay
<1>3. CASE UNCHANGED th
  BY <1>3
<1>4. ASSUME NEW m \in Nodes, NEW k \in JobIds, CReport(m, k)
      PROVE  th'[t] = th[t] \/ task[n][j].proc = "exit0"
  <2>1. PICK event \in Events :
          th' = [th EXCEPT ![<<"report", m, k>>] = [th[<<"report", m, k>>] EXCEPT
                   !.pc = IF event = "cancelled" THEN "ack" ELSE "report",
                   !.event = event, !.job = k, !.fresh = ~Terminal(jobs[k].status)]]
    BY <1>4 DEF CReport, ReportGet
  <2>2. CASE t # <<"report", m, k>>
    BY <1>1, <2>1, <2>2
  <2>3. CASE t = <<"report", m, k>>
    <3> DEFINE pc == IF event = "cancelled" THEN "ack" ELSE "report"
               fresh == ~Terminal(jobs[k].status)
    <3>1. n = m /\ j = k
      BY <2>3
    <3>2. th'[t] = [th[t] EXCEPT !.pc = pc, !.event = event, !.job = k, !.fresh = fresh]
      BY <1>1, <2>1, <2>3
    <3> HIDE DEF pc, fresh
    <3>3. th'[t].pc = pc /\ th'[t].event = event
      BY <1>1, <3>2 DEF ThreadRecords
    <3>4. event = "completed"
      BY <3>3, ControllerAssumption DEF pc
    <3>5. task[n][j].event = "completed"
      BY <1>4, <3>1, <3>3, <3>4 DEF CReport
    <3> QED BY <3>5 DEF AgentInv, TasksGood, GoodTask
  <2> QED BY <2>2, <2>3
<1> HIDE DEF t
<1>5. CASE ControllerStep
  BY <1>2, <1>5, ReportsApart
<1>6. ASSUME NEW m \in Nodes, CRegister(m) \/ AgentStep(m) \/ CBreak(m) \/ CStop(m) \/ CExit(m)
      PROVE  ReportsStay \/ UNCHANGED th
  BY <1>6, ReportsApart DEF CRegister, AgentStep, CBreak, CStop, CExit, ctrlVars
<1>7. ASSUME NEW m \in Nodes, NEW k \in JobIds, CReportFails(m, k) \/ CTask(m, k) \/ COutside(m, k)
      PROVE  UNCHANGED th
  BY <1>7 DEF CReportFails, CTask, COutside, ctrlVars, vars
<1>8. ASSUME NEW s \in Streams, CBegin(s) \/ CRecv(s) \/ CReturn(s) PROVE UNCHANGED th
  BY <1>8 DEF CBegin, CRecv, CReturn, ctrlVars
<1>9. CASE UNCHANGED clusterVars
  BY <1>3, <1>9 DEF clusterVars, vars
<1> QED BY <1>2, <1>3, <1>4, <1>5, <1>6, <1>7, <1>8, <1>9 DEF ClusterNext, t

\* Programs that succeeded stay so, and only their successes are counted.
LEMMA SuccessKept ==
  ASSUME ClusterInv, [ClusterNext]_clusterVars
  PROVE  SuccessIsReal' /\ CompletedMeansRan'
<1> USE DEF ClusterInv
<1>1. \A n \in Nodes, j \in JobIds : task[n][j].proc = "exit0" => task'[n][j].proc = "exit0"
  BY SentKept DEF PartsMove
<1>2. JobsOnward \/ UNCHANGED ctrlVars
  BY CtrlPart, OneCallPerStep, Onward DEF CtrlInv, TypeOK, ResInv, ResBase
<1>3. \A j \in JobIds : jobs[j].status = "completed" => jobs'[j] = jobs[j]
  BY <1>2 DEF JobsOnward, Terminal, ctrlVars, jmVars
<1>4. \A n \in Nodes, j \in JobIds :
        /\ th'[<<"report", n, j>>].pc = "report" /\ th'[<<"report", n, j>>].event # "failed"
        => task'[n][j].proc = "exit0"
  BY <1>1, ReportIsReal DEF SuccessIsReal
<1>5. \A k \in JobIds : jobs'[k].assigned \subseteq Nodes
  <2>1. JMTypeOK'
    BY CtrlKept DEF CtrlInv, TypeOK
  <2> QED BY <2>1 DEF JMTypeOK, JobRecords
<1>6. ASSUME NoSuccess PROVE SuccessIsReal' /\ CompletedMeansRan'
  <2>1. ASSUME NEW m \in Nodes, NEW k \in JobIds, m \in HasReported(k)' PROVE task'[m][k].proc = "exit0"
    <3>1. m \in HasReported(k)
      BY <1>6, <2>1 DEF NoSuccess
    <3> QED BY <1>1, <3>1 DEF SuccessIsReal
  <2>2. ASSUME NEW k \in JobIds, jobs'[k].status = "completed", NEW m \in jobs'[k].assigned
        PROVE  task'[m][k].proc = "exit0"
    <3>1. jobs[k].status = "completed" /\ m \in Nodes
      BY <1>5, <1>6, <2>2 DEF NoSuccess
    <3> QED BY <1>1, <1>3, <2>2, <3>1 DEF CompletedMeansRan
  <2> QED BY <1>4, <2>1, <2>2 DEF SuccessIsReal, CompletedMeansRan
<1>7. CASE UNCHANGED ctrlVars
  BY <1>6, <1>7 DEF ctrlVars, jmVars, NoSuccess, HasReported
<1>8. ASSUME NEW n \in Nodes, NEW j \in JobIds, ReportApply(n, j)
      PROVE  SuccessIsReal' /\ CompletedMeansRan'
  <2>1. th[<<"report", n, j>>].event # "failed" => task[n][j].proc = "exit0"
    BY <1>8, ReportCounts DEF SuccessIsReal
  <2>2. ASSUME NEW m \in Nodes, NEW k \in JobIds, m \in HasReported(k)' PROVE task'[m][k].proc = "exit0"
    <3>1. CASE m \in HasReported(k)
      BY <1>1, <3>1 DEF SuccessIsReal
    <3>2. CASE m \notin HasReported(k)
      <4>1. m = n /\ k = j /\ th[<<"report", n, j>>].event # "failed"
        BY <1>8, <2>2, <3>2, ReportCounts
      <4> QED BY <1>1, <2>1, <4>1
    <3> QED BY <3>1, <3>2
  <2>3. ASSUME NEW k \in JobIds, jobs'[k].status = "completed", NEW m \in jobs'[k].assigned
        PROVE  task'[m][k].proc = "exit0"
    <3>1. m \in Nodes
      BY <1>5, <2>3
    <3>2. CASE jobs[k].status = "completed"
      BY <1>1, <1>3, <2>3, <3>1, <3>2 DEF CompletedMeansRan
    <3>3. CASE jobs[k].status # "completed"
      <4>1. k = j /\ th[<<"report", n, j>>].event # "failed" /\ m \in HasReported(j) \cup {n}
        BY <1>8, <2>3, <3>3, ReportCounts
      <4> QED BY <1>1, <2>1, <3>1, <4>1 DEF SuccessIsReal
    <3> QED BY <3>2, <3>3
  <2> QED BY <1>4, <2>2, <2>3 DEF SuccessIsReal, CompletedMeansRan
<1> QED BY <1>6, <1>7, <1>8, CtrlPart, SuccessFrom

-------------------------------------------------------------------------------
(* Nothing slips between the controller and the agents *)

\* What dispatchWork has still to send stays so until it is sent.
LEMMA LeftIsSent ==
  ASSUME CtrlInv, NothingLeft, SchedulerNext
  PROVE  /\ NothingLeft'
         /\ \A n \in Nodes, j \in JobIds : ~Dispatched(n, j) =>
              ~Dispatched(n, j)' \/ send(n, Assign(j))
<1>1. sched \in SchedRecords
  BY DEF CtrlInv, TypeOK
<1>2. SchedIdle.todo = {} /\ SchedIdle \in SchedRecords
  BY DEF SchedIdle, SchedRecords
<1>3. CASE SchedSend
  <2>1. PICK m \in Nodes :
          /\ m \in sched.todo /\ sched.pc = "send" /\ send(m, Assign(sched.job))
          /\ \/ sched'.pc = "try" /\ sched'.todo = {} /\ sched.todo = {m}
             \/ sched'.pc = "dispatch" /\ sched'.job = sched.job /\ sched'.todo = sched.todo \ {m}
    BY <1>3, SendTarget
  <2> QED BY <2>1 DEF NothingLeft, Dispatched
<1>4. CASE SchedDropCancel
  <2>1. sched'.job = sched.job /\ sched'.todo = sched.todo /\ sched'.pc = "send"
    BY <1>1, <1>4 DEF SchedDropCancel, SchedRecords
  <2> QED BY <2>1 DEF NothingLeft, Dispatched
<1>5. CASE ~SchedSend /\ ~SchedDropCancel
  <2>1. sched.pc \notin {"dispatch", "send"}
    BY <1>5 DEF SchedulerNext, SchedStep, SchedPeek, SchedSelect, SchedReserve, SchedMark, SchedUndo,
                SchedPark, SchedWake, SchedTick
  <2>2. sched.todo = {}
    BY <2>1 DEF NothingLeft
  <2>3. sched'.todo = {} \/ sched'.pc = "dispatch"
    BY <1>1, <1>2, <1>5, <2>2
       DEF SchedulerNext, SchedStep, SchedPeek, SchedSelect, SchedReserve, SchedMark, SchedUndo,
           SchedPark, SchedWake, SchedTick, SchedRecords
  <2> QED BY <2>2, <2>3 DEF NothingLeft, Dispatched
<1> QED BY <1>3, <1>4, <1>5

\* A job that is started is still to be dispatched to its whole gang.
LEMMA StartsUnsent ==
  ASSUME CtrlInv, ResInv, [Next]_vars, NEW j \in JobIds,
         jobs'[j].status = "running", jobs[j].status # "running", NEW n \in jobs'[j].assigned
  PROVE  ~Dispatched(n, j)'
<1>1. JobsOnward /\ StartedLeft /\ jobs \in [JobIds -> JobRecords]
  BY OneCallPerStep, Onward DEF CtrlInv, TypeOK, JMTypeOK, ResInv, ResBase
<1>2. jobs[j].assigned = {}
  BY <1>1 DEF JobsOnward, StartedLeft, JobRecords, Statuses, Terminal
<1>3. ~KeptGangs /\ jobs' # jobs
  BY <1>2 DEF KeptGangs
<1>4. SchedulerNext
  BY <1>3, NextIsOneOf DEF HandlerStep, vars, jmVars
<1>5. SchedMark /\ ~UNCHANGED jmVars
  BY <1>3, <1>4 DEF SchedulerNext, SchedStep, SchedPeek, SchedSelect, SchedReserve, SchedUndo,
                    SchedDropCancel, SchedSend, SchedPark, SchedWake, SchedTick, jmVars
<1>6. /\ jobs' = [jobs EXCEPT ![sched.job].status = "running", ![sched.job].assigned = sched.gang]
      /\ sched' = [sched EXCEPT !.pc = "dispatch", !.todo = sched.gang]
      /\ sched.job \in JobIds /\ sched \in SchedRecords
  BY <1>5 DEF SchedMark, MarkRunning, CtrlInv, GoodSched, TypeOK
<1>7. j = sched.job /\ jobs'[j].assigned = sched.gang
  BY <1>1, <1>6 DEF JobRecords
<1>8. sched'.job = sched.job /\ sched'.todo = sched.gang
  BY <1>6 DEF SchedRecords
<1> QED BY <1>7, <1>8 DEF Dispatched

\* While a job runs it keeps its gang, and reports that are in stay in.
LEMMA RunningKeeps ==
  ASSUME CtrlInv, ResInv, [Next]_vars, NEW j \in JobIds,
         jobs[j].status = "running", jobs'[j].status = "running"
  PROVE  jobs'[j].assigned = jobs[j].assigned /\ HasReported(j) \subseteq HasReported(j)'
<1>1. JMTypeOK /\ JMInv /\ [JMNext]_jmVars
  BY OneCallPerStep DEF CtrlInv, TypeOK
<1>2. jobs[j].assigned # {}
  BY <1>1 DEF JMInv, SomeoneStillOwes
<1>3. jobs'[j].assigned = jobs[j].assigned
  <2>1. JobsOnward
    BY <1>1, Onward DEF ResInv, ResBase
  <2> QED BY <1>2, <2>1 DEF JobsOnward
<1>4. ASSUME UNCHANGED reports PROVE HasReported(j) \subseteq HasReported(j)'
  BY <1>4 DEF HasReported
<1>5. ASSUME NEW id \in JobIds, id # j, reports' = [reports EXCEPT ![id] = NoReports]
      PROVE  HasReported(j) \subseteq HasReported(j)'
  BY <1>1, <1>5 DEF HasReported, JMTypeOK
<1>6. ASSUME NEW id \in JobIds, NEW to, NEW e, to # "running", Finish(id, to, e)
      PROVE  HasReported(j) \subseteq HasReported(j)'
  <2>1. id # j
    BY <1>1, <1>6 DEF Finish, JMTypeOK, JobRecords
  <2> QED BY <1>5, <1>6, <2>1 DEF Finish
<1>7. ASSUME NEW id \in JobIds, NEW gang, MarkRunning(id, gang)
      PROVE  HasReported(j) \subseteq HasReported(j)'
  BY <1>5, <1>7 DEF MarkRunning, CanTransition
<1>8. ASSUME NEW id \in JobIds, Cancel(id) PROVE HasReported(j) \subseteq HasReported(j)'
  <2>1. id # j
    BY <1>1, <1>8 DEF Cancel, JMTypeOK, JobRecords
  <2> QED BY <1>4, <1>5, <1>8, <2>1 DEF Cancel
<1>9. ASSUME NEW id \in JobIds, NEW n, NEW failed, NEW exit, ReportNodeEvent(id, n, failed, exit)
      PROVE  HasReported(j) \subseteq HasReported(j)'
  <2>1. ASSUME reports' = [reports EXCEPT ![id][n] = exit], n \notin HasReported(id)
        PROVE  HasReported(j) \subseteq HasReported(j)'
    BY <1>1, <2>1 DEF HasReported, JMTypeOK
  <2>2. \/ UNCHANGED reports
        \/ n \notin HasReported(id) /\ reports' = [reports EXCEPT ![id][n] = exit]
        \/ \E e : Finish(id, "failed", e) \/ Finish(id, "completed", e)
    BY <1>9 DEF ReportNodeEvent, IgnoreReport, AcceptReport, jmVars
  <2> QED BY <1>4, <1>6, <2>1, <2>2
<1>10. ASSUME JMWork PROVE HasReported(j) \subseteq HasReported(j)'
  BY <1>6, <1>7, <1>8, <1>9, <1>10 DEF JMWork, MarkFailed, FailRunningJob
<1>11. ASSUME UNCHANGED jmVars \/ \E id \in JobIds, spec \in Specs : Submit(id, spec)
       PROVE  HasReported(j) \subseteq HasReported(j)'
  BY <1>4, <1>11 DEF jmVars, Submit
<1> QED BY <1>1, <1>3, <1>10, <1>11 DEF JMNext

\* A call of ReportJobStatus begins when the report comes, and the report waits in its
\* handler until the manager has it.
LEMMA ReportWaits ==
  ASSUME CtrlInv, [Next]_vars, NEW n \in Nodes, NEW j \in JobIds,
         NEW p, At(<<"report", n, j>>, p),
         \/ p = "idle" /\ ~ReportGet(n, j)
         \/ p = "report" /\ ~ReportApply(n, j)
  PROVE  At(<<"report", n, j>>, p)'
<1> DEFINE u == <<"report", n, j>>
<1>1. u \in Threads /\ th \in [Threads -> ThreadRecords]
  BY ThreadIds DEF CtrlInv, TypeOK
<1>2. ASSUME NEW t, NEW r, t # u \/ th[t].pc # p, th' = [th EXCEPT ![t] = r]
      PROVE  At(u, p)'
  BY <1>1, <1>2 DEF At
<1>3. ASSUME NEW t, NEW pc, t # u \/ th[t].pc # p, Goto(t, pc) \/ Over(t, pc)
      PROVE  At(u, p)'
  BY <1>1, <1>3 DEF At, Goto, Over
<1>4. ASSUME UNCHANGED th PROVE At(u, p)'
  BY <1>4 DEF At
<1>5. ASSUME NEW m \in Nodes, Register(m) \/ MonTouch(m) \/ Silence(m) PROVE At(u, p)'
  BY <1>3, <1>4, <1>5 DEF Register, MonTouch, Silence
<1>6. ASSUME NEW k \in JobIds, SubmitDraw(k) \/ SubmitStore(k) \/ CancelGet(k) \/ CancelApply(k)
      PROVE  At(u, p)'
  BY <1>2, <1>3, <1>6 DEF SubmitDraw, SubmitStore, CancelGet, CancelApply, Done
<1>7. ASSUME NEW m \in Nodes, NEW k \in JobIds,
             ReportGet(m, k) \/ ReportApply(m, k) \/ ReportClear(m, k) \/ ReportAfter(m, k)
      PROVE  At(u, p)'
  <2> DEFINE t == <<"report", m, k>>
  <2>1. t # u \/ th[t].pc # p
    BY <1>7 DEF ReportGet, ReportApply, ReportClear, ReportAfter, At
  <2>2. (\E r : th' = [th EXCEPT ![t] = r]) \/ (\E pc : Goto(t, pc) \/ Over(t, pc))
    BY <1>7 DEF ReportGet, ReportApply, ReportClear, ReportAfter, Done
  <2> QED BY <1>2, <1>3, <2>1, <2>2
<1>8. CASE MonReap \/ MonHandle
  <2>1. Monitor # u
    BY DEF Monitor
  <2>2. (\E r : th' = [th EXCEPT ![Monitor] = r]) \/ (\E pc : Goto(Monitor, pc))
    BY <1>8 DEF MonReap, MonHandle
  <2> QED BY <1>2, <1>3, <2>1, <2>2
<1>9. ASSUME NEW t \in Threads, ThreadStep(t) PROVE At(u, p)'
  <2>1. th[t].pc # p
    BY <1>9 DEF ThreadStep, Release, NotifySet, NotifySend, KickStep, At
  <2>2. (\E r : th' = [th EXCEPT ![t] = r]) \/ (\E pc : Goto(t, pc) \/ Over(t, pc))
    BY <1>9 DEF ThreadStep, Release, NotifySet, NotifySend, KickStep, Done
  <2> QED BY <1>2, <1>3, <2>1, <2>2
<1>10. CASE SchedulerNext \/ UNCHANGED vars
  BY <1>4, <1>10 DEF SchedulerNext, vars
<1> QED BY <1>5, <1>6, <1>7, <1>8, <1>9, <1>10 DEF Next

\* Then it counts, or the job has ended.
LEMMA ReportArrives ==
  ASSUME CtrlInv, NEW n \in Nodes, NEW j \in JobIds, ReportApply(n, j), jobs'[j].status = "running"
  PROVE  n \in HasReported(j)'
<1>1. JMTypeOK
  BY DEF CtrlInv, TypeOK
<1>2. PICK failed \in BOOLEAN, exit \in {0, 1} : ReportNodeEvent(j, n, failed, exit)
  <2>1. ReportNodeEvent(j, n, th[<<"report", n, j>>].event = "failed",
                        IF th[<<"report", n, j>>].event = "failed" THEN 1 ELSE 0)
    BY DEF ReportApply
  <2> QED BY <2>1
<1>3. ASSUME NEW to, NEW e, to # "running", Finish(j, to, e) PROVE FALSE
  BY <1>1, <1>3 DEF Finish, JMTypeOK, JobRecords
<1>4. CASE IgnoreReport(j, n)
  BY <1>1, <1>4 DEF IgnoreReport, HasReported, jmVars
<1>5. CASE AcceptReport(j, n, failed, exit)
  <2>1. reports' = [reports EXCEPT ![j][n] = exit]
    BY <1>3, <1>5 DEF AcceptReport
  <2>2. exit # NoReport
    BY ExitsAssumption
  <2> QED BY <1>1, <2>1, <2>2 DEF HasReported, JMTypeOK
<1> QED BY <1>2, <1>4, <1>5 DEF ReportNodeEvent

\* The losses are counted.
LEMMA LostStays == ASSUME [ClusterNext]_clusterVars PROVE lost \subseteq lost'
<1>1. CASE UNCHANGED clusterVars
  BY <1>1 DEF clusterVars
<1>2. ASSUME NEW n \in Nodes, CRegister(n) \/ AgentStep(n) \/ CBreak(n) \/ CStop(n) \/ CExit(n)
      PROVE  lost \subseteq lost'
  BY <1>2 DEF CRegister, AgentStep, CBreak, CStop, CExit
<1>3. ASSUME NEW n \in Nodes, NEW j \in JobIds,
             CReport(n, j) \/ CReportFails(n, j) \/ CTask(n, j) \/ COutside(n, j)
      PROVE  lost \subseteq lost'
  BY <1>3 DEF CReport, CReportFails, CTask, COutside
<1>4. ASSUME NEW s \in Streams, CBegin(s) \/ CRecv(s) \/ CReturn(s) PROVE lost \subseteq lost'
  BY <1>4 DEF CBegin, CRecv, CReturn
<1> QED BY <1>1, <1>2, <1>3, <1>4 DEF ClusterNext, ControllerStep

\* An assignment in the mail stays there, is received or is lost.
LEMMA MailStays ==
  ASSUME CtrlInv, HubInv, AgentInv, ServesNode, [ClusterNext]_clusterVars,
         NEW n \in Nodes, NEW j \in JobIds, InMail(n, Assign(j))
  PROVE  InMail(n, Assign(j))' \/ Working(n, j)' \/ <<n, j>> \in lost'
<1>1. (\A i \in JobIds : Assign(i) \in Msgs /\ CancelWork(i) \in Msgs)
      /\ Assign(j).kind = "assign" /\ Assign(j).job = j
  BY DEF Assign, CancelWork, Msgs
<1>2. ASSUME UNCHANGED <<queue, chan>> PROVE InMail(n, Assign(j))'
  BY <1>2 DEF InMail
<1>3. CASE ControllerStep
  <2>1. CallsHub
    BY <1>3, ControllerHub DEF ControllerStep, Next
  <2>2. ASSUME NEW m \in Nodes, NEW x \in Msgs, send(m, x)
        PROVE  InMail(n, Assign(j))' \/ <<n, j>> \in lost'
    <3>1. \/ InMail(n, Assign(j))'
          \/ queue'[n] # queue[n] /\ Len(queue[n]) = MaxQueue /\ Head(queue[n]) = Assign(j)
      BY <1>1, <2>2, SendStays
    <3>2. CASE queue'[n] # queue[n] /\ Len(queue[n]) = MaxQueue /\ Head(queue[n]) = Assign(j)
      BY <1>1, <1>3, <3>2 DEF ControllerStep, Overflowed
    <3> QED BY <3>1, <3>2
  <2>3. ASSUME SchedulerNext, SchedSend PROVE \E m \in Nodes, i \in JobIds : send(m, Assign(i))
    BY <2>3, SendTarget
  <2> QED BY <1>1, <1>2, <2>1, <2>2, <2>3 DEF CallsHub
<1>4. ASSUME NEW m \in Nodes, CRegister(m) \/ AgentStep(m) \/ CBreak(m) \/ CStop(m) \/ CExit(m)
      PROVE  UNCHANGED <<queue, chan>>
  BY <1>4 DEF CRegister, Register, AgentStep, AgentStart, BeatAsk, BeatAnswer, WatchOpen, WatchEnds,
              CBreak, StreamBreaks, CStop, AgentStop, CExit, AgentExit, hubVars
<1>5. ASSUME NEW m \in Nodes, NEW k \in JobIds,
             CReport(m, k) \/ CReportFails(m, k) \/ CTask(m, k) \/ COutside(m, k)
      PROVE  UNCHANGED <<queue, chan>>
  BY <1>5 DEF CReport, ReportGet, CReportFails, CTask, TaskStep, COutside, OutsideStep, vars, hubVars
<1>6. ASSUME NEW s \in Streams, CRecv(s) PROVE InMail(n, Assign(j))' \/ Working(n, j)'
  <2>1. Recv(s) /\ Deliver(s)
    BY <1>6 DEF CRecv, Recv
  <2> QED BY <1>1, <2>1, DeliverStays, RecvWorks
<1>7. ASSUME NEW s \in Streams, CReturn(s) PROVE InMail(n, Assign(j))' \/ <<n, j>> \in lost'
  <2>1. Return(s)
    BY <1>7 DEF CReturn, HandlerReturns
  <2>2. CASE chan[s].node = n /\ Contains(chan[s].buf, Assign(j))
    <3>1. Assign(j) \in ToSet(chan[s].buf)
      BY <2>2 DEF Contains, ToSet, HubInv, HubTypeOK
    <3> QED BY <1>1, <1>7, <2>2, <3>1 DEF CReturn
  <2> QED BY <1>1, <2>1, <2>2, ReturnStays
<1>8. ASSUME NEW s \in Streams, CBegin(s) PROVE InMail(n, Assign(j))'
  <2>1. Subscribe(s, asked[s]) /\ asked[s] \in Nodes
    BY <1>8 DEF CBegin, WatchBegin, AgentInv, AgentTypeOK
  <2>2. chan[s].buf = <<>>
    BY <2>1 DEF Subscribe, ServesNode
  <2> QED BY <1>1, <2>1, <2>2, SubscribeStays
<1>9. CASE UNCHANGED clusterVars
  BY <1>2, <1>9 DEF clusterVars, vars, hubVars
<1> QED BY <1>2, <1>3, <1>4, <1>5, <1>6, <1>7, <1>8, <1>9 DEF ClusterNext

\* A node that works on its part goes on, reports it or loses it.
LEMMA WorkStays ==
  ASSUME CtrlInv, HubInv, AgentInv, ServesNode, [ClusterNext]_clusterVars,
         NEW n \in Nodes, NEW j \in JobIds, Working(n, j)
  PROVE  Working(n, j)' \/ At(<<"report", n, j>>, "report")' \/ <<n, j>> \in lost'
<1>1. ASSUME UNCHANGED task PROVE Working(n, j)'
  BY <1>1 DEF Working
<1>2. CASE ControllerStep \/ UNCHANGED clusterVars
  BY <1>1, <1>2 DEF ControllerStep, clusterVars, agentVars, execVars
<1>3. ASSUME NEW m \in Nodes, CRegister(m) \/ AgentStep(m) \/ CBreak(m) \/ CStop(m) PROVE Working(n, j)'
  BY <1>3, AgentWorks DEF CRegister, AgentStep, CBreak, CStop, WorkGoesOn
<1>4. ASSUME NEW m \in Nodes, CExit(m) PROVE Working(n, j)' \/ <<n, j>> \in lost'
  BY <1>4, ExitWorks DEF CExit
<1>5. ASSUME NEW m \in Nodes, NEW k \in JobIds, CTask(m, k) \/ COutside(m, k) PROVE Working(n, j)'
  BY <1>5, RunWorks DEF CTask, TaskStep, COutside, OutsideStep, WorkGoesOn
<1>6. ASSUME NEW m \in Nodes, NEW k \in JobIds, CReportFails(m, k)
      PROVE  Working(n, j)' \/ <<n, j>> \in lost'
  BY <1>6, ReportWorks DEF CReportFails
<1>7. ASSUME NEW m \in Nodes, NEW k \in JobIds, CReport(m, k)
      PROVE  Working(n, j)' \/ At(<<"report", n, j>>, "report")' \/ <<n, j>> \in lost'
  <2>1. CASE m # n \/ k # j
    BY <1>7, <2>1, ReportWorks DEF CReport
  <2>2. CASE m = n /\ k = j
    <3> DEFINE t == <<"report", n, j>>
    <3>1. PICK event \in Events :
            th' = [th EXCEPT ![t] = [th[t] EXCEPT
                     !.pc = IF event = "cancelled" THEN "ack" ELSE "report",
                     !.event = event, !.job = j, !.fresh = ~Terminal(jobs[j].status)]]
      BY <1>7, <2>2 DEF CReport, ReportGet
    <3>2. t \in Threads /\ th \in [Threads -> ThreadRecords]
      BY ThreadIds DEF CtrlInv, TypeOK
    <3> DEFINE pc == IF event = "cancelled" THEN "ack" ELSE "report"
               fresh == ~Terminal(jobs[j].status)
    <3>3. th'[t] = [th[t] EXCEPT !.pc = pc, !.event = event, !.job = j, !.fresh = fresh]
      BY <3>1, <3>2
    <3> HIDE DEF pc, fresh
    <3>4. th'[t].pc = pc /\ th'[t].event = event
      BY <3>2, <3>3 DEF ThreadRecords
    <3>5. CASE event = "cancelled"
      BY <1>7, <2>2, <3>4, <3>5 DEF CReport
    <3>6. CASE event # "cancelled"
      BY <3>4, <3>6 DEF pc, At
    <3> QED BY <3>5, <3>6
  <2> QED BY <2>1, <2>2
<1>8. ASSUME NEW s \in Streams, CBegin(s) \/ CRecv(s) \/ CReturn(s) PROVE Working(n, j)'
  BY <1>1, <1>8, RecvWorks DEF CBegin, WatchBegin, CRecv, CReturn, HandlerReturns, agentVars, execVars,
                               WorkGoesOn
<1> QED BY <1>2, <1>3, <1>4, <1>5, <1>6, <1>7, <1>8 DEF ClusterNext

\* So every part of a running job is in somebody's hand, or among the losses.
LEMMA OwedKept ==
  ASSUME ClusterInv, [ClusterNext]_clusterVars
  PROVE  NothingLeft' /\ OwedIsInHand'
<1> USE DEF ClusterInv
<1>1. ASSUME UNCHANGED ctrlVars PROVE NothingLeft'
  BY <1>1 DEF ctrlVars, schedVars, NothingLeft
<1>2. ASSUME [Next]_vars
      PROVE  /\ NothingLeft'
             /\ \A n \in Nodes, j \in JobIds : ~Dispatched(n, j) =>
                  ~Dispatched(n, j)' \/ send(n, Assign(j))
  <2>1. CASE sched' = sched
    BY <2>1 DEF NothingLeft, Dispatched
  <2> QED BY <1>2, <2>1, NextIsOneOf, LeftIsSent DEF HandlerStep, vars, schedVars
<1>3. NothingLeft'
  BY <1>1, <1>2, CtrlPart DEF NothingLeft, ctrlVars, schedVars
<1>4. ASSUME NEW j \in JobIds, jobs'[j].status = "running", NEW n \in jobs'[j].assigned \ HasReported(j)'
      PROVE  InHand(n, j)' \/ <<n, j>> \in lost'
  <2>1. n \in Nodes
    <3>1. JMTypeOK'
      BY CtrlKept DEF CtrlInv, TypeOK
    <3> QED BY <1>4, <3>1 DEF JMTypeOK, JobRecords
  <2>2. CASE jobs[j].status # "running"
    <3>1. [Next]_vars
      BY <1>4, <2>2, CtrlPart DEF ctrlVars, jmVars
    <3> QED BY <1>4, <2>2, <3>1, StartsUnsent DEF InHand
  <2>3. CASE jobs[j].status = "running"
    <3>1. n \in jobs[j].assigned \ HasReported(j)
      <4>1. CASE UNCHANGED ctrlVars
        BY <1>4, <4>1 DEF ctrlVars, jmVars, HasReported
      <4> QED BY <1>4, <2>3, <4>1, RunningKeeps, CtrlPart
    <3>2. InHand(n, j) \/ <<n, j>> \in lost
      BY <2>3, <3>1 DEF OwedIsInHand
    <3>3. CASE <<n, j>> \in lost
      BY <3>3, LostStays
    <3>4. CASE ~Dispatched(n, j)
      <4>1. CASE UNCHANGED ctrlVars
        BY <3>4, <4>1 DEF ctrlVars, schedVars, Dispatched, InHand
      <4>2. ASSUME send(n, Assign(j)) PROVE InMail(n, Assign(j))'
        <5>1. Assign(j) \in Msgs
          BY DEF Assign, Msgs
        <5> QED BY <2>1, <4>2, <5>1, SendStays
      <4> QED BY <1>2, <2>1, <3>4, <4>1, <4>2, CtrlPart DEF InHand
    <3>5. CASE InMail(n, Assign(j))
      BY <2>1, <3>5, MailStays DEF InHand
    <3>6. CASE Working(n, j)
      BY <2>1, <3>6, WorkStays DEF InHand
    <3>7. CASE At(<<"report", n, j>>, "report")
      <4>1. ~ReportApply(n, j)
        BY <1>4, <2>1, ReportArrives
      <4>2. CASE UNCHANGED ctrlVars
        BY <3>7, <4>2 DEF ctrlVars, At, InHand
      <4> QED BY <2>1, <3>7, <4>1, <4>2, ReportWaits, CtrlPart DEF InHand
    <3> QED BY <3>2, <3>3, <3>4, <3>5, <3>6, <3>7 DEF InHand
  <2> QED BY <2>2, <2>3
<1> QED BY <1>3, <1>4 DEF OwedIsInHand

-------------------------------------------------------------------------------
(* The invariant of the whole *)

LEMMA AgentBegins ==
  ASSUME AgentInit, HubInit
  PROVE  /\ AgentInv /\ HubInv /\ ServesNode /\ MailOnce /\ NotTwice
         /\ \A n \in Nodes, m \in Msgs : ~InMail(n, m)
         /\ \A n \in Nodes, j \in JobIds : task[n][j] = NoTask
<1>1. NoTask \in Tasks /\ NoTask.pc = "none" /\ NoTask.proc = "none" /\ NoTask.event = "none"
  BY DEF NoTask, Tasks
<1>2. /\ slot \in [Nodes -> JobIds \cup {NoJob}] /\ task \in [Nodes -> [JobIds -> Tasks]]
      /\ \A n \in Nodes, j \in JobIds : task[n][j] = NoTask
  BY <1>1 DEF AgentInit, ExecInit
<1>3. AgentInv
  <2>1. TasksGood
    BY <1>1, <1>2 DEF TasksGood, GoodTask
  <2>2. AgentTypeOK
    BY <1>1, <1>2, AgentAssumption DEF AgentInit, AgentTypeOK
  <2> QED BY <2>1, <2>2 DEF AgentInv
<1>4. /\ \A n \in Nodes : queue[n] = <<>>
      /\ \A s \in Streams : chan[s].buf = <<>> /\ chan[s].st = "unused"
  BY DEF HubInit, Unused
<1>5. (\A x : ~Contains(<<>>, x)) /\ OnceIn(<<>>)
  BY DEF Contains, OnceIn
<1>6. ServesNode /\ MailOnce /\ NotTwice /\ \A n \in Nodes, m \in Msgs : ~InMail(n, m)
  BY <1>1, <1>2, <1>4, <1>5 DEF ServesNode, MailOnce, NotTwice, InMail
<1> QED BY <1>2, <1>3, <1>6, HubInitInv

LEMMA ClusterStart == ClusterInit => ClusterInv
<1> SUFFICES ASSUME ClusterInit PROVE ClusterInv
  OBVIOUS
<1>1. CtrlInv /\ ResInv
  BY CtrlInit, ResInit DEF ClusterInit, Init
<1>2. /\ AgentInv /\ HubInv /\ ServesNode /\ MailOnce /\ NotTwice
      /\ \A n \in Nodes, m \in Msgs : ~InMail(n, m)
      /\ \A n \in Nodes, j \in JobIds : task[n][j] = NoTask
  BY AgentBegins DEF ClusterInit, Init
<1>3. NoTask.pc = "none"
  BY DEF NoTask
<1>4. SentOnce
  <2>1. \A j \in JobIds : Assign(j) \in Msgs
    BY DEF Assign, Msgs
  <2>2. sched.pc = "try"
    BY DEF ClusterInit, Init, SchedInit, SchedIdle
  <2> QED BY <1>2, <1>3, <2>1, <2>2 DEF SentOnce
<1>5. SuccessIsReal /\ CompletedMeansRan
  <2>1. \A n \in Nodes, j \in JobIds :
          /\ th[<<"report", n, j>>].pc = "idle" /\ n \notin HasReported(j)
          /\ jobs[j].status = "absent"
    BY ThreadIds DEF ClusterInit, Init, JMInit, Idle, HasReported, NoReports, NoJobRecord
  <2>2. \A j \in JobIds : jobs[j].status = "absent"
    BY DEF ClusterInit, Init, JMInit, NoJobRecord
  <2> QED BY <2>1, <2>2 DEF SuccessIsReal, CompletedMeansRan
<1>6. NothingLeft /\ OwedIsInHand
  <2>1. sched.todo = {}
    BY DEF ClusterInit, Init, SchedInit, SchedIdle
  <2>2. \A j \in JobIds : jobs[j].status = "absent"
    BY DEF ClusterInit, Init, JMInit, NoJobRecord
  <2> QED BY <2>1, <2>2 DEF NothingLeft, OwedIsInHand
<1> QED BY <1>1, <1>2, <1>4, <1>5, <1>6 DEF ClusterInv

LEMMA ClusterStepKeeps == ClusterInv /\ [ClusterNext]_clusterVars => ClusterInv'
<1> SUFFICES ASSUME ClusterInv, [ClusterNext]_clusterVars PROVE ClusterInv'
  OBVIOUS
<1>1. CtrlInv' /\ ResInv' /\ HubInv'
  BY CtrlKept DEF ClusterInv
<1>2. AgentInv' /\ MailOnce' /\ ServesNode' /\ NotTwice' /\ SentOnce'
  BY SentKept
<1>3. SuccessIsReal' /\ CompletedMeansRan'
  BY SuccessKept
<1>4. NothingLeft' /\ OwedIsInHand'
  BY OwedKept
<1> QED BY <1>1, <1>2, <1>3, <1>4 DEF ClusterInv

LEMMA ClusterInvariant == ClusterSpec => []ClusterInv
BY ClusterStart, ClusterStepKeeps, PTL DEF ClusterSpec

-------------------------------------------------------------------------------
(* Whose programs agents look after *)

\* A final report is on its way, or was, only of a task that is over.
ReportedIsDone ==
  \A n \in Nodes, j \in JobIds : ~At(<<"report", n, j>>, "idle") => task[n][j].pc = "done"

\* Only the nodes of its gang are sent a job, or have a task for it.
TaskIsAssigned ==
  \A n \in Nodes, j \in JobIds :
    task[n][j].pc # "none" \/ InMail(n, Assign(j)) => n \in jobs[j].assigned

TodoIsAssigned ==
  sched.pc \in {"dispatch", "send"} => sched.todo \subseteq jobs[sched.job].assigned

PartsInv == ReportedIsDone /\ TaskIsAssigned /\ TodoIsAssigned

\* Only a final report's coming begins the call that handles it.
LEMMA ReportBegins ==
  ASSUME CtrlInv, [ClusterNext]_clusterVars, NEW n \in Nodes, NEW j \in JobIds,
         At(<<"report", n, j>>, "idle"), ~CReport(n, j)
  PROVE  At(<<"report", n, j>>, "idle")'
<1> DEFINE u == <<"report", n, j>>
<1>1. u \in Threads /\ th \in [Threads -> ThreadRecords] /\ TypeOK
  BY ThreadIds DEF CtrlInv, TypeOK
<1>2. ASSUME UNCHANGED th PROVE At(u, "idle")'
  BY <1>2 DEF At
<1>3. ASSUME [Next]_vars, ~ReportGet(n, j) PROVE At(u, "idle")'
  BY <1>3, ReportWaits
<1>4. ReportGet(n, j) => th'[u].pc \in {"report", "ack"}
  <2> SUFFICES ASSUME ReportGet(n, j) PROVE th'[u].pc \in {"report", "ack"}
    OBVIOUS
  <2>1. PICK event \in Events :
          th' = [th EXCEPT ![u] = [th[u] EXCEPT
                   !.pc = IF event = "cancelled" THEN "ack" ELSE "report",
                   !.event = event, !.job = j, !.fresh = ~Terminal(jobs[j].status)]]
    BY DEF ReportGet
  <2> DEFINE pc == IF event = "cancelled" THEN "ack" ELSE "report"
             fresh == ~Terminal(jobs[j].status)
             r == [th[u] EXCEPT !.pc = pc, !.event = event, !.job = j, !.fresh = fresh]
  <2>2. th' = [th EXCEPT ![u] = r] /\ pc \in {"report", "ack"}
    BY <2>1
  <2> HIDE DEF pc, fresh, u
  <2>3. r.pc = pc
    BY <1>1 DEF ThreadRecords
  <2> HIDE DEF r
  <2> QED BY <1>1, <2>2, <2>3
<1>5. CASE ControllerStep \/ \E m \in Nodes : Register(m)
  <2>1. ReportsStay /\ [Next]_vars
    BY <1>5, ReportsApart DEF ControllerStep, Next
  <2>2. ~ReportGet(n, j)
    BY <1>1, <1>4, <2>1 DEF ReportsStay, At
  <2> QED BY <1>3, <2>1, <2>2
<1>6. ASSUME NEW m \in Nodes, AgentStep(m) \/ CBreak(m) \/ CStop(m) \/ CExit(m) PROVE UNCHANGED th
  BY <1>6 DEF AgentStep, CBreak, CStop, CExit, ctrlVars
<1>7. ASSUME NEW m \in Nodes, NEW k \in JobIds, CReport(m, k) PROVE At(u, "idle")'
  <2>1. <<"report", m, k>> # u
    BY <1>7
  <2>2. \E r : th' = [th EXCEPT ![<<"report", m, k>>] = r]
    BY <1>7 DEF CReport, ReportGet
  <2> QED BY <1>1, <2>1, <2>2 DEF At
<1>8. ASSUME NEW m \in Nodes, NEW k \in JobIds, CReportFails(m, k) \/ CTask(m, k) \/ COutside(m, k)
      PROVE  UNCHANGED th
  BY <1>8 DEF CReportFails, CTask, COutside, ctrlVars, vars
<1>9. ASSUME NEW s \in Streams, CBegin(s) \/ CRecv(s) \/ CReturn(s) PROVE UNCHANGED th
  BY <1>9 DEF CBegin, CRecv, CReturn, ctrlVars
<1>10. CASE UNCHANGED clusterVars
  BY <1>2, <1>10 DEF clusterVars, vars
<1> QED BY <1>2, <1>5, <1>6, <1>7, <1>8, <1>9, <1>10 DEF ClusterNext, CRegister

\* A job keeps its gang, so what is done for it is done by nodes of the gang.
LEMMA PartsKept == ASSUME ClusterInv, PartsInv, [ClusterNext]_clusterVars PROVE PartsInv'
<1> USE DEF ClusterInv
<1>1. PartsMove
  BY SentKept
<1>2. \A j \in JobIds : jobs[j].assigned \subseteq jobs'[j].assigned
  <2>1. JobsOnward \/ UNCHANGED ctrlVars
    BY CtrlPart, OneCallPerStep, Onward DEF CtrlInv, TypeOK, ResInv, ResBase
  <2> QED BY <2>1 DEF JobsOnward, ctrlVars, jmVars
<1>3. ReportedIsDone'
  <2> SUFFICES ASSUME NEW n \in Nodes, NEW j \in JobIds, ~At(<<"report", n, j>>, "idle")'
               PROVE  task'[n][j].pc = "done"
    BY DEF ReportedIsDone
  <2>1. CASE ~At(<<"report", n, j>>, "idle")
    BY <1>1, <2>1 DEF PartsInv, ReportedIsDone, PartsMove
  <2>2. CASE CReport(n, j)
    <3> DEFINE r == [task[n][j] EXCEPT !.pc = "done"]
    <3>1. task' = [task EXCEPT ![n][j] = r] /\ task \in [Nodes -> [JobIds -> Tasks]]
      BY <2>2 DEF CReport, FinalReport, AgentInv, AgentTypeOK
    <3>2. r.pc = "done"
      BY <3>1 DEF Tasks
    <3> HIDE DEF r
    <3> QED BY <3>1, <3>2
  <2> QED BY <2>1, <2>2, ReportBegins
<1>4. TaskIsAssigned'
  <2> SUFFICES ASSUME NEW n \in Nodes, NEW j \in JobIds, task'[n][j].pc # "none" \/ InMail(n, Assign(j))'
               PROVE  n \in jobs'[j].assigned
    BY DEF TaskIsAssigned
  <2>1. CASE task[n][j].pc # "none" \/ InMail(n, Assign(j))
    BY <1>2, <2>1 DEF PartsInv, TaskIsAssigned
  <2>2. CASE Sending(n, j)
    BY <1>2, <2>2 DEF PartsInv, TodoIsAssigned, Sending
  <2> QED BY <1>1, <2>1, <2>2 DEF PartsMove
<1>5. TodoIsAssigned'
  <2>1. CASE sched' = sched
    BY <1>2, <2>1 DEF PartsInv, TodoIsAssigned, CtrlInv, GoodSched
  <2>2. CASE SchedulerNext
    BY <1>2, <2>2, DispatchFrom DEF PartsInv, TodoIsAssigned
  <2>3. [Next]_vars => SchedulerNext \/ sched' = sched
    BY NextIsOneOf DEF HandlerStep, vars, schedVars
  <2> QED BY <2>1, <2>2, <2>3, CtrlPart DEF ctrlVars, schedVars
<1> QED BY <1>3, <1>4, <1>5 DEF PartsInv

LEMMA PartsStart == ClusterInit => PartsInv
<1> SUFFICES ASSUME ClusterInit PROVE PartsInv
  OBVIOUS
<1>1. \A n \in Nodes, j \in JobIds : th[<<"report", n, j>>].pc = "idle" /\ task[n][j].pc = "none"
  BY ThreadIds DEF ClusterInit, Init, Idle, AgentInit, ExecInit, NoTask
<1>2. \A n \in Nodes, m \in Msgs : ~InMail(n, m)
  BY DEF ClusterInit, Init, HubInit, Unused, InMail, Contains
<1>3. \A j \in JobIds : Assign(j) \in Msgs
  BY DEF Assign, Msgs
<1>4. sched.pc = "try"
  BY DEF ClusterInit, Init, SchedInit, SchedIdle
<1> QED BY <1>1, <1>2, <1>3, <1>4 DEF PartsInv, ReportedIsDone, TaskIsAssigned, TodoIsAssigned, At

\* The process a node looks after is that of a job it was given and has not reported.
LEMMA AliveIsOwed == ASSUME ClusterInv, PartsInv PROVE ProgramsAreOwed
<1> SUFFICES ASSUME NEW n \in Nodes, NEW j \in JobIds, task[n][j].proc = "alive", task[n][j].pc # "gone"
             PROVE  /\ n \in jobs[j].assigned \ HasReported(j)
                    /\ jobs[j].status \in {"running", "failed", "cancelled"}
  BY DEF ProgramsAreOwed
<1>1. task[n][j].pc = "wait"
  BY SlotIsNamed DEF ClusterInv, SlotNamesProcess
<1>2. n \in jobs[j].assigned
  BY <1>1 DEF PartsInv, TaskIsAssigned
<1>3. n \notin HasReported(j)
  BY DEF ClusterInv, SuccessIsReal
<1>4. jobs[j].status # "completed"
  BY <1>2 DEF ClusterInv, CompletedMeansRan
<1>5. jobs[j] \in JobRecords /\ jobs[j].status \notin {"absent", "pending"}
  BY <1>2 DEF ClusterInv, ResInv, ResBase, StartedLeft, CtrlInv, TypeOK, JMTypeOK
<1> QED BY <1>2, <1>3, <1>4, <1>5 DEF JobRecords, Statuses

LEMMA PartsInvariant == ClusterSpec => [](ClusterInv /\ PartsInv)
<1>1. ClusterInit => ClusterInv /\ PartsInv
  BY ClusterStart, PartsStart
<1>2. ClusterInv /\ PartsInv /\ [ClusterNext]_clusterVars => ClusterInv' /\ PartsInv'
  BY ClusterStepKeeps, PartsKept
<1> QED BY <1>1, <1>2, PTL DEF ClusterSpec

LEMMA SoloInCluster ==
  ASSUME QuietCluster, SingleNodeJobs
  PROVE  ClusterSpec => [](ClusterInv /\ SoloBase /\ SoloInv)
<1>1. ClusterInit => ClusterInv /\ SoloBase /\ SoloInv
  BY ClusterStart, SoloStart, QuietCluster, SingleNodeJobs DEF ClusterInit
<1>2. ASSUME ClusterInv, SoloBase, SoloInv, [ClusterNext]_clusterVars
      PROVE  (ClusterInv /\ SoloBase /\ SoloInv)'
  <2>1. [Next]_vars \/ UNCHANGED tableVars
    BY <1>2, CtrlPart DEF ctrlVars, tableVars
  <2>2. ClusterInv'
    BY <1>2, ClusterStepKeeps
  <2>3. CtrlInv' /\ ResInv'
    BY <1>2, CtrlKept DEF ClusterInv
  <2>4. (SoloBase /\ SoloInv)'
    BY <1>2, <2>1, <2>3, SoloKept
  <2> QED BY <2>2, <2>4
<1> QED BY <1>1, <1>2, PTL DEF ClusterSpec

-------------------------------------------------------------------------------
(* The theorems *)

\* End to end: whatever streams break, agents stop or crash, and reports fail or race
\* cancels and node losses, the client is told "completed" only of a job whose program
\* really ended with status 0 on every node of its gang.
THEOREM CompletedRan == ClusterSpec => []CompletedMeansRan
<1>1. ClusterInv => CompletedMeansRan
  BY DEF ClusterInv
<1> QED BY <1>1, ClusterInvariant, PTL

\* Nothing slips between the controller and the agents, whatever calls, streams, cancels
\* and node losses come between: the part of each node of a running job is still to be
\* sent, in the mail, being worked on, being reported or reported, unless it was lost
\* in one of the ways the code does not make good.
THEOREM NothingSlips == ClusterSpec => []OwedIsInHand
<1>1. ClusterInv => OwedIsInHand
  BY DEF ClusterInv
<1> QED BY <1>1, ClusterInvariant, PTL

\* Executor.Run and Stop race as they may: a node looks after one process at most, and
\* the slot names its job for as long as it lives, so that a cancel finds it.
THEOREM SlotGuarantee == ClusterSpec => []SlotNamesProcess
<1>1. ClusterInv => SlotNamesProcess
  BY SlotIsNamed DEF ClusterInv
<1> QED BY <1>1, ClusterInvariant, PTL

\* The agents' own tables stay well typed.
THEOREM AgentTypeCorrect == ClusterSpec => []AgentTypeOK
<1>1. ClusterInv => AgentTypeOK
  BY DEF ClusterInv, AgentInv
<1> QED BY <1>1, ClusterInvariant, PTL

\* An assignment reaches a node at most once: it waits in one place of the node's
\* mail, and not at all once there is a task for it, so that no program is started
\* twice, however streams are replaced and drained.
THEOREM NoSecondStart == ClusterSpec => [](MailOnce /\ NotTwice)
<1>1. ClusterInv => MailOnce /\ NotTwice
  BY DEF ClusterInv
<1> QED BY <1>1, ClusterInvariant, PTL

\* Agents, streams and the controller together use the hub as module Hub expects, so
\* that what is proved of the hub alone holds of the whole.
THEOREM ClusterUsesHub == ClusterSpec => HubSpec
<1>1. ClusterInit => HubInit
  BY DEF ClusterInit, Init
<1>2. ClusterInv /\ [ClusterNext]_clusterVars => [HubNext]_hubVars
  BY HubUsed DEF ClusterInv
<1> QED BY <1>1, <1>2, ClusterInvariant, PTL DEF ClusterSpec, HubSpec

\* Every program an agent looks after, whatever is cancelled, lost, reconnected,
\* reported late or fails, is that of a job its node was given and has not reported,
\* and of one that is running or was given up while it ran: none runs for a job that
\* is not started, that is shown completed, or a second time.
THEOREM NoStrayProgram == ClusterSpec => []ProgramsAreOwed
<1>1. ClusterInv /\ PartsInv => ProgramsAreOwed
  BY AliveIsOwed
<1> QED BY <1>1, PartsInvariant, PTL

\* What is proved of the controller alone in a quiet cluster holds with real agents.
THEOREM QuietInCluster ==
  ASSUME QuietCluster, SingleNodeJobs PROVE ClusterSpec => [](RunningHoldsGang /\ NoLostWakeup)
<1>1. SoloBase /\ SoloInv => RunningHoldsGang /\ NoLostWakeup
  BY DEF SoloBase, SoloInv, QuietInv, Awake, NoLostWakeup, WillKick, Ending
<1> QED BY <1>1, QuietCluster, SingleNodeJobs, SoloInCluster, PTL

\* What is proved of the controller with any environment holds with real agents.
THEOREM ControllerInCluster ==
  ClusterSpec => [](TypeOK /\ GangIsComplete /\ ReservationHasOwner /\ SubscriberIsLive)
<1>1. ClusterInv => TypeOK /\ GangIsComplete /\ ReservationHasOwner /\ SubscriberIsLive
  BY DEF ClusterInv, CtrlInv, ResInv, HubInv
<1> QED BY <1>1, ClusterInvariant, PTL

\* So jobs of the whole system complete exactly when the last success of their gang
\* is in, and final outcomes stay final.
THEOREM ClusterGangOutcome == ClusterSpec => ImplementsGangOutcome
<1>1. ClusterInit => JMInit
  BY DEF ClusterInit, Init
<1>2. ClusterInv /\ [ClusterNext]_clusterVars => [JMNext]_jmVars
  BY CtrlPart, OneCallPerStep DEF ClusterInv, ctrlVars
<1>3. ClusterSpec => JMSpec
  BY <1>1, <1>2, ClusterInvariant, PTL DEF ClusterSpec, JMSpec
<1> QED BY <1>3, ManagerImplementsGangOutcome

-------------------------------------------------------------------------------
(* Who is stopped *)

\* The controller's word to stop a job is out for those in c only: as an entry for
\* heartbeats, in the mail, and in an answer the agent has not acted on.
WordsOnly(c) ==
  /\ \A n \in Nodes : cancel[n] \in JobIds => cancel[n] \in c[n]
  /\ \A n \in Nodes, j \in JobIds : InMail(n, CancelWork(j)) => j \in c[n]
  /\ \A n \in Nodes : beat[n] \in JobIds => beat[n] \in c[n]

\* An answer is waiting only while the agent runs.
BeatsWhileUp == \A n \in Nodes : beat[n] # NoBeat => life[n] \in {"beat", "up"}

\* A context belongs to a task that has begun, and so does the slot (mine).  What
\* ended it is its time limit, that word, or the end of the agent.
GoodEnd(r, mine, given, leaving) ==
  /\ mine \/ r.ctx # "live" => r.pc # "none"
  /\ r.ctx = "cancelled" => given \/ leaving \/ r.pc \in {"gone", "done"}

EndsOnly(c) ==
  \A n \in Nodes, j \in JobIds :
    GoodEnd(task[n][j], slot[n] = j, j \in c[n], life[n] = "stopping")

StopsOnly(c) == WordsOnly(c) /\ BeatsWhileUp /\ EndsOnly(c)

LEMMA MoreMayStop ==
  ASSUME NEW c, NEW d, StopsOnly(c), \A n \in Nodes : c[n] \subseteq d[n]
  PROVE  StopsOnly(d)
BY DEF StopsOnly, WordsOnly, EndsOnly, GoodEnd

LEMMA NothingStops == ASSUME NEW c, StopsOnly(c), UNCHANGED <<agentVars, hubVars>> PROVE StopsOnly(c)'
BY DEF StopsOnly, WordsOnly, BeatsWhileUp, EndsOnly, InMail, agentVars, execVars, hubVars

\* A word that is sent is of a job in c; assignments stop nobody.
LEMMA SendStops ==
  ASSUME HubInv, MailOnce, NEW c, StopsOnly(c), NEW n \in Nodes, NEW m \in Msgs, send(n, m),
         m.kind = "assign" => ~InMail(n, m),
         m.kind = "cancel" => m.job \in c[n],
         UNCHANGED agentVars
  PROVE  StopsOnly(c)'
<1>1. \A k \in Nodes, x \in Msgs : InMail(k, x)' => InMail(k, x) \/ (k = n /\ x = m)
  BY SendMail
<1>2. cancel' = cancel
  BY DEF send
<1>3. \A j \in JobIds : CancelWork(j) \in Msgs /\ CancelWork(j).kind = "cancel" /\ CancelWork(j).job = j
  BY DEF CancelWork, Msgs
<1>4. \A k \in Nodes, j \in JobIds : InMail(k, CancelWork(j))' => j \in c[k]
  BY <1>1, <1>3 DEF StopsOnly, WordsOnly
<1> QED BY <1>2, <1>4 DEF StopsOnly, WordsOnly, BeatsWhileUp, EndsOnly, agentVars, execVars

LEMMA EntryStops ==
  ASSUME HubInv, NEW c, StopsOnly(c), UNCHANGED agentVars,
         NEW n \in Nodes, NEW j \in JobIds,
         DropCancel(n) \/ ClearCancel(n, j) \/ (SetCancel(n, j) /\ j \in c[n])
  PROVE  StopsOnly(c)'
<1>1. UNCHANGED <<queue, chan>>
  BY DEF DropCancel, ClearCancel, SetCancel
<1>2. \A k \in Nodes : cancel'[k] \in {cancel[k], NoJob} \/ (k = n /\ cancel'[k] = j /\ j \in c[n])
  BY DEF DropCancel, ClearCancel, SetCancel, HubInv, HubTypeOK
<1>3. NoJob \notin JobIds
  BY JobIdsAssumption DEF NoJob
<1> QED BY <1>1, <1>2, <1>3 DEF StopsOnly, WordsOnly, BeatsWhileUp, EndsOnly, InMail, agentVars, execVars

\* One task moves.
LEMMA OneEnds ==
  ASSUME AgentInv, NEW c, EndsOnly(c), NEW n \in Nodes, NEW j \in JobIds, NEW r,
         task' = [task EXCEPT ![n][j] = r], life' = life,
         \A i \in Nodes, k \in JobIds : i # n \/ k # j => (slot'[i] = k => slot[i] = k),
         GoodEnd(r, slot'[n] = j, j \in c[n], life[n] = "stopping")
  PROVE  EndsOnly(c)'
<1>1. task'[n][j] = r /\ \A m \in Nodes, k \in JobIds : m # n \/ k # j => task'[m][k] = task[m][k]
  BY DEF AgentInv, AgentTypeOK
<1> QED BY <1>1 DEF EndsOnly, GoodEnd

\* Executor.Run cancels no context.
LEMMA RunEnds ==
  ASSUME AgentInv, NEW c, EndsOnly(c), NEW n \in Nodes, NEW j \in JobIds, life' = life,
         RunStep(n, j) \/ Overrun(n, j) \/ ProcExit(n, j) \/ (FinalReport(n, j) /\ UNCHANGED slot)
  PROVE  EndsOnly(c)'
<1> DEFINE t == task[n][j]
           working == {"received", "start", "wait", "clear", "report"}
<1>1. t \in Tasks /\ task \in [Nodes -> [JobIds -> Tasks]]
      /\ GoodEnd(t, slot[n] = j, j \in c[n], life[n] = "stopping")
  BY DEF AgentInv, AgentTypeOK, EndsOnly
<1>0. \A i \in Nodes, k \in JobIds : i # n \/ k # j => (slot'[i] = k => slot[i] = k)
  <2>1. \/ UNCHANGED slot
        \/ slot' = [slot EXCEPT ![n] = j]
        \/ slot' = [slot EXCEPT ![n] = IF @ = j THEN NoJob ELSE @]
    BY DEF RunStep, RunBegin, RunStart, RunDone, RunKill, clear, Overrun, ProcExit
  <2> QED BY <2>1, JobIdsAssumption DEF NoJob, AgentInv, AgentTypeOK
<1>2. t.pc \in working
  BY DEF RunStep, RunBegin, RunStart, RunDone, RunKill, clear, Overrun, ProcExit, FinalReport, TaskAt
<1>3. ASSUME NEW r, task' = [task EXCEPT ![n][j] = r], r.pc # "none", r.ctx \in {t.ctx, "expired"}
      PROVE  EndsOnly(c)'
  <2>1. GoodEnd(r, slot'[n] = j, j \in c[n], life[n] = "stopping")
    BY <1>1, <1>2, <1>3 DEF GoodEnd
  <2> QED BY <1>0, <1>3, <2>1, OneEnds
<1>4. ASSUME NEW e, NEW pc \in working, task' = Result(n, j, e, pc) PROVE EndsOnly(c)'
  <2> DEFINE r == [t EXCEPT !.event = e, !.pc = pc]
  <2>1. task' = [task EXCEPT ![n][j] = r] /\ r.pc = pc /\ r.ctx = t.ctx
    BY <1>1, <1>4 DEF Result, Tasks
  <2> HIDE DEF r
  <2> QED BY <1>3, <1>4, <2>1
<1>5. ASSUME NEW pc \in working \cup {"done"}, task' = [task EXCEPT ![n][j].pc = pc]
      PROVE  EndsOnly(c)'
  <2> DEFINE r == [t EXCEPT !.pc = pc]
  <2>1. task' = [task EXCEPT ![n][j] = r] /\ r.pc = pc /\ r.ctx = t.ctx
    BY <1>1, <1>5 DEF Tasks
  <2> HIDE DEF r
  <2> QED BY <1>3, <1>5, <2>1
<1>6. CASE RunBegin(n, j)
  BY <1>4, <1>5, <1>6 DEF RunBegin
<1>7. CASE RunStart(n, j)
  <2>1. CASE task' = Result(n, j, "failed", "clear")
    BY <1>4, <2>1
  <2>2. CASE task' = [task EXCEPT ![n][j].pc = "wait", ![n][j].proc = "alive"]
    <3> DEFINE r == [t EXCEPT !.pc = "wait", !.proc = "alive"]
    <3>1. task' = [task EXCEPT ![n][j] = r] /\ r.pc = "wait" /\ r.ctx = t.ctx
      BY <1>1, <2>2 DEF Tasks
    <3> HIDE DEF r
    <3> QED BY <1>3, <3>1
  <2> QED BY <1>7, <2>1, <2>2 DEF RunStart
<1>8. CASE RunDone(n, j)
  BY <1>4, <1>8 DEF RunDone
<1>9. CASE RunKill(n, j)
  <2> DEFINE e == IF t.ctx = "expired" THEN "failed" ELSE "cancelled"
             p == IF t.proc = "alive" THEN "killed" ELSE t.proc
             r == [t EXCEPT !.event = e, !.pc = "clear", !.proc = p]
  <2>1. task' = [Result(n, j, e, "clear") EXCEPT ![n][j].proc = IF @ = "alive" THEN "killed" ELSE @]
    BY <1>9 DEF RunKill
  <2> HIDE DEF e
  <2>2. task' = [task EXCEPT ![n][j] = r]
    BY <1>1, <2>1 DEF Result, Tasks
  <2> HIDE DEF p
  <2>3. r.pc = "clear" /\ r.ctx = t.ctx
    BY <1>1 DEF Tasks
  <2> HIDE DEF r
  <2> QED BY <1>3, <2>2, <2>3
<1>10. CASE clear(n, j)
  BY <1>5, <1>10 DEF clear
<1>11. CASE Overrun(n, j)
  <2> DEFINE r == [t EXCEPT !.ctx = "expired"]
  <2>1. task' = [task EXCEPT ![n][j] = r] /\ r.pc = t.pc /\ r.ctx = "expired"
    BY <1>1, <1>11 DEF Overrun, Tasks
  <2> HIDE DEF r
  <2> QED BY <1>2, <1>3, <2>1
<1>12. CASE ProcExit(n, j)
  <2>1. PICK status \in Exits : task' = [task EXCEPT ![n][j].proc = status]
    BY <1>12 DEF ProcExit
  <2> DEFINE r == [t EXCEPT !.proc = status]
  <2>2. task' = [task EXCEPT ![n][j] = r] /\ r.pc = t.pc /\ r.ctx = t.ctx
    BY <1>1, <2>1 DEF Tasks
  <2> HIDE DEF r
  <2> QED BY <1>2, <1>3, <2>2
<1>13. CASE FinalReport(n, j)
  BY <1>5, <1>13 DEF FinalReport
<1> QED BY <1>6, <1>7, <1>8, <1>9, <1>10, <1>11, <1>12, <1>13 DEF RunStep

LEMMA TaskStops ==
  ASSUME AgentInv, NEW c, StopsOnly(c), NEW n \in Nodes, NEW j \in JobIds,
         RunStep(n, j) \/ Overrun(n, j) \/ ProcExit(n, j) \/ (FinalReport(n, j) /\ UNCHANGED slot),
         UNCHANGED <<life, beat, hubVars>>
  PROVE  StopsOnly(c)'
<1>1. EndsOnly(c)'
  BY RunEnds DEF StopsOnly
<1> QED BY <1>1 DEF StopsOnly, WordsOnly, BeatsWhileUp, InMail, hubVars

\* A final report may clear the entry it was for.
LEMMA ReportStops ==
  ASSUME AgentInv, NEW c, StopsOnly(c), NEW n \in Nodes, NEW j \in JobIds,
         FinalReport(n, j), UNCHANGED slot, life' = life, beat' = beat,
         HubInv, ClearCancel(n, j) \/ UNCHANGED hubVars
  PROVE  StopsOnly(c)'
<1>1. EndsOnly(c)'
  BY RunEnds DEF StopsOnly
<1>2. UNCHANGED <<queue, chan>>
  BY DEF ClearCancel, hubVars
<1>3. \A k \in Nodes : cancel'[k] \in {cancel[k], NoJob}
  BY DEF ClearCancel, hubVars, HubInv, HubTypeOK
<1>4. NoJob \notin JobIds
  BY JobIdsAssumption DEF NoJob
<1> QED BY <1>1, <1>2, <1>3, <1>4 DEF StopsOnly, WordsOnly, BeatsWhileUp, InMail

\* Stop(j) ends the context of j's task and of no other.
LEMMA StopEnds ==
  ASSUME AgentInv, NEW c, EndsOnly(c), NEW n \in Nodes, NEW j \in JobIds, j \in c[n],
         task' = Stop(n, j), slot' = slot, \A k \in Nodes : life[k] = "stopping" => life'[k] = life[k]
  PROVE  EndsOnly(c)'
<1>0. j # NoJob
  BY JobIdsAssumption DEF NoJob
<1>1. CASE task' = task
  BY <1>1 DEF EndsOnly, GoodEnd
<1>2. CASE slot[n] = j /\ task' = [task EXCEPT ![n][j] = Cancelled(task[n][j])]
  <2> DEFINE t == task[n][j]
             r == Cancelled(t)
  <2>1. t \in Tasks /\ task \in [Nodes -> [JobIds -> Tasks]]
        /\ GoodEnd(t, slot[n] = j, j \in c[n], life[n] = "stopping")
    BY DEF AgentInv, AgentTypeOK, EndsOnly
  <2>2. r.pc = t.pc
    BY <2>1, CancelledFields
  <2>3. \A k \in JobIds, i \in Nodes : k # j \/ i # n => task'[i][k] = task[i][k]
    BY <1>2, <2>1
  <2>4. task'[n][j] = r
    BY <1>2, <2>1
  <2> HIDE DEF r
  <2>5. GoodEnd(task'[n][j], slot'[n] = j, j \in c[n], life'[n] = "stopping")
    BY <1>2, <2>1, <2>2, <2>4 DEF GoodEnd
  <2>6. ASSUME NEW k \in JobIds, NEW i \in Nodes, k # j \/ i # n
        PROVE  GoodEnd(task'[i][k], slot'[i] = k, k \in c[i], life'[i] = "stopping")
    BY <2>3, <2>6 DEF EndsOnly, GoodEnd
  <2> QED BY <2>5, <2>6 DEF EndsOnly
<1> QED BY <1>0, <1>1, <1>2 DEF Stop

\* The agent's goroutines act on the words they are given.
LEMMA AgentStops ==
  ASSUME AgentInv, HubTypeOK, NEW c, StopsOnly(c), NEW n \in Nodes,
         \/ AgentStart(n) \/ BeatAsk(n) \/ BeatAnswer(n)
         \/ WatchOpen(n) \/ WatchEnds(n) \/ StreamBreaks(n)
         \/ AgentRegistered(n) /\ UNCHANGED hubVars
  PROVE  StopsOnly(c)'
<1> USE DEF StopsOnly
<1>1. UNCHANGED hubVars /\ slot' = slot
  BY DEF AgentStart, BeatAsk, BeatAnswer, WatchOpen, WatchEnds, StreamBreaks, AgentRegistered, execVars
<1>2. /\ life \in [Nodes -> {"down", "register", "beat", "up", "stopping"}]
      /\ beat \in [Nodes -> JobIds \cup {NoJob, NoBeat}]
      /\ NoJob \notin JobIds /\ NoBeat \notin JobIds /\ NoBeat # NoJob
  BY JobIdsAssumption DEF AgentInv, AgentTypeOK, NoJob, NoBeat
<1>3. ASSUME \A k \in Nodes : beat'[k] \in {beat[k], NoBeat} \/ beat'[k] = cancel[k] PROVE WordsOnly(c)'
  BY <1>1, <1>2, <1>3 DEF WordsOnly, InMail, hubVars
<1>4. CASE BeatAnswer(n)
  <2>1. /\ beat[n] # NoBeat /\ life[n] \in {"beat", "up"}
        /\ beat' = [beat EXCEPT ![n] = NoBeat] /\ life' = [life EXCEPT ![n] = "up"]
        /\ task' = IF beat[n] = NoJob THEN task ELSE Stop(n, beat[n])
    BY <1>4 DEF BeatAnswer, BeatsWhileUp
  <2>2. WordsOnly(c)' /\ BeatsWhileUp'
    BY <1>2, <1>3, <2>1 DEF BeatsWhileUp
  <2>3. \A k \in Nodes : life[k] = "stopping" => life'[k] = life[k]
    BY <1>2, <2>1
  <2>4. CASE beat[n] = NoJob
    BY <1>1, <2>1, <2>2, <2>3, <2>4 DEF EndsOnly, GoodEnd
  <2>5. CASE beat[n] # NoJob
    <3>1. beat[n] \in JobIds /\ beat[n] \in c[n]
      BY <1>2, <2>1, <2>5 DEF WordsOnly
    <3>2. EndsOnly(c)'
      BY <1>1, <2>1, <2>3, <2>5, <3>1, StopEnds
    <3> QED BY <2>2, <3>2
  <2> QED BY <2>4, <2>5
<1>5. CASE \/ AgentStart(n) \/ BeatAsk(n) \/ AgentRegistered(n)
           \/ WatchOpen(n) \/ WatchEnds(n) \/ StreamBreaks(n)
  <2> USE DEF WatchOpen, WatchEnds, StreamBreaks
  <2>1. /\ task' = task
        /\ \A k \in Nodes : life[k] = "stopping" => life'[k] = life[k]
    BY <1>2, <1>5 DEF AgentStart, BeatAsk, AgentRegistered, execVars
  <2>2. EndsOnly(c)'
    BY <1>1, <2>1 DEF EndsOnly, GoodEnd
  <2>3. \A k \in Nodes : beat'[k] \in {beat[k], NoBeat} \/ beat'[k] = cancel[k]
    BY <1>2, <1>5 DEF AgentStart, BeatAsk, AgentRegistered
  <2>4. BeatsWhileUp'
    BY <1>2, <1>5 DEF AgentStart, BeatAsk, AgentRegistered, BeatsWhileUp
  <2> QED BY <1>3, <2>2, <2>3, <2>4
<1> QED BY <1>4, <1>5

\* A new stream carries the words that waited for it.
LEMMA WatchStops ==
  ASSUME AgentInv, HubInv, MailOnce, NEW c, StopsOnly(c), NEW s \in Streams, WatchBegin(s)
  PROVE  StopsOnly(c)'
<1>1. Subscribe(s, asked[s]) /\ asked[s] \in Nodes /\ UNCHANGED agentVars
  BY DEF WatchBegin, AgentInv, AgentTypeOK
<1>2. NoNewMail /\ cancel' = cancel
  BY <1>1, SubscribeMail DEF Subscribe
<1>3. \A j \in JobIds : CancelWork(j) \in Msgs
  BY DEF CancelWork, Msgs
<1>4. WordsOnly(c)'
  BY <1>1, <1>2, <1>3 DEF StopsOnly, WordsOnly, NoNewMail, agentVars
<1> QED BY <1>1, <1>4 DEF StopsOnly, BeatsWhileUp, EndsOnly, agentVars, execVars

LEMMA ReturnStops ==
  ASSUME HubInv, MailOnce, NEW c, StopsOnly(c), NEW s \in Streams, Return(s), UNCHANGED agentVars
  PROVE  StopsOnly(c)'
<1>1. NoNewMail /\ cancel' = cancel
  BY ReturnMail DEF Return
<1>2. \A j \in JobIds : CancelWork(j) \in Msgs
  BY DEF CancelWork, Msgs
<1>3. WordsOnly(c)'
  BY <1>1, <1>2 DEF StopsOnly, WordsOnly, NoNewMail, agentVars
<1> QED BY <1>3 DEF StopsOnly, BeatsWhileUp, EndsOnly, agentVars, execVars

\* An assignment that is received begins a task with a context of its own; a cancel is a
\* word like any other.
LEMMA RecvStops ==
  ASSUME AgentInv, HubInv, ServesNode, MailOnce, NotTwice, NEW c, StopsOnly(c),
         NEW s \in Streams, Recv(s)
  PROVE  StopsOnly(c)'
<1>1. PICK n, m : n = chan[s].node /\ m = Head(chan[s].buf)
  OBVIOUS
<1>2. /\ Deliver(s) /\ UNCHANGED <<slot, life, starts, on, asked, beat>>
      /\ task' = IF m.kind = "assign" THEN [task EXCEPT ![n][m.job].pc = "received"]
                 ELSE Stop(n, m.job)
  BY <1>1 DEF Recv
<1>3. NoNewMail /\ m \in Msgs /\ Contains(chan[s].buf, m)
  BY <1>1, <1>2, DeliverMail
<1>4. n \in Nodes /\ InMail(n, m)
  BY <1>1, <1>2, <1>3 DEF Deliver, ServesNode, InMail
<1>5. \A j \in JobIds : CancelWork(j) \in Msgs
  BY DEF CancelWork, Msgs
<1>6. WordsOnly(c)' /\ BeatsWhileUp'
  BY <1>2, <1>3, <1>5 DEF StopsOnly, WordsOnly, BeatsWhileUp, NoNewMail, Deliver
<1>7. CASE m.kind = "cancel"
  <2>1. m = CancelWork(m.job) /\ m.job \in JobIds
    BY <1>3, <1>7 DEF CancelWork, Msgs
  <2>2. m.job \in c[n]
    BY <1>4, <2>1 DEF StopsOnly, WordsOnly
  <2>3. EndsOnly(c)'
    BY <1>2, <1>4, <1>7, <2>1, <2>2, StopEnds DEF StopsOnly
  <2> QED BY <1>6, <2>3 DEF StopsOnly
<1>8. CASE m.kind = "assign"
  <2>1. PICK j \in JobIds : m = Assign(j) /\ m.job = j
    BY <1>3, <1>8 DEF Msgs, Assign
  <2> DEFINE t == task[n][j]
             r == [t EXCEPT !.pc = "received"]
  <2>2. t \in Tasks /\ GoodEnd(t, slot[n] = j, j \in c[n], life[n] = "stopping")
    BY <1>4 DEF AgentInv, TasksGood, StopsOnly, EndsOnly
  <2>3. t.pc = "none"
    BY <1>4, <2>1 DEF NotTwice
  <2>4. r.pc = "received" /\ r.ctx = t.ctx
    BY <2>2 DEF Tasks
  <2>5. task' = [task EXCEPT ![n][j] = r]
    BY <1>2, <1>8, <2>1
  <2> HIDE DEF r
  <2>6. GoodEnd(r, slot'[n] = j, j \in c[n], life[n] = "stopping")
    BY <2>2, <2>3, <2>4 DEF GoodEnd
  <2>7. EndsOnly(c)'
    BY <1>2, <1>4, <2>5, <2>6, OneEnds DEF StopsOnly
  <2> QED BY <1>6, <2>7 DEF StopsOnly
<1> QED BY <1>3, <1>7, <1>8 DEF Msgs

\* The end of the agent: its tasks are cancelled, and later gone.
LEMMA LeaveStops ==
  ASSUME AgentInv, NEW c, StopsOnly(c), NEW n \in Nodes, AgentStop(n) \/ AgentExit(n)
  PROVE  StopsOnly(c)'
<1>1. /\ slot \in [Nodes -> JobIds \cup {NoJob}] /\ task \in [Nodes -> [JobIds -> Tasks]]
      /\ life \in [Nodes -> {"down", "register", "beat", "up", "stopping"}]
      /\ beat \in [Nodes -> JobIds \cup {NoJob, NoBeat}]
      /\ NoJob \notin JobIds /\ NoBeat \notin JobIds
  BY JobIdsAssumption DEF AgentInv, AgentTypeOK, NoJob, NoBeat
<1>2. UNCHANGED hubVars /\ beat' = [beat EXCEPT ![n] = NoBeat]
  BY DEF AgentStop, AgentExit
<1>3. WordsOnly(c)'
  BY <1>1, <1>2 DEF StopsOnly, WordsOnly, InMail, hubVars
<1>4. \A k \in Nodes : k # n => life'[k] = life[k] /\ task'[k] = task[k] /\ slot'[k] = slot[k]
  BY <1>1 DEF AgentStop, AgentExit
<1>5. BeatsWhileUp'
  BY <1>1, <1>2, <1>4 DEF StopsOnly, BeatsWhileUp
<1>6. ASSUME NEW j \in JobIds
      PROVE  GoodEnd(task[n][j], slot[n] = j, j \in c[n], life[n] = "stopping") /\ task[n][j] \in Tasks
  BY <1>1 DEF StopsOnly, EndsOnly
<1>7. CASE AgentStop(n)
  <2>1. life'[n] = "stopping" /\ slot' = slot
    BY <1>1, <1>7 DEF AgentStop
  <2>2. ASSUME NEW j \in JobIds
        PROVE  GoodEnd(task'[n][j], slot'[n] = j, j \in c[n], life'[n] = "stopping")
    <3>1. task'[n][j] = IF Working(n, j) THEN Cancelled(task[n][j]) ELSE task[n][j]
      BY <1>1, <1>7 DEF AgentStop
    <3>2. CASE Working(n, j)
      <4>1. Cancelled(task[n][j]).pc = task[n][j].pc
        BY <1>6, CancelledFields
      <4>2. task'[n][j].pc # "none"
        BY <3>1, <3>2, <4>1 DEF Working
      <4> QED BY <2>1, <4>2 DEF GoodEnd
    <3>3. CASE ~Working(n, j)
      BY <1>6, <2>1, <3>1, <3>3 DEF GoodEnd
    <3> QED BY <3>2, <3>3
  <2> QED BY <1>3, <1>4, <1>5, <2>2 DEF StopsOnly, EndsOnly
<1>8. CASE AgentExit(n)
  <2>1. slot'[n] = NoJob
    BY <1>1, <1>8 DEF AgentExit
  <2>2. ASSUME NEW j \in JobIds
        PROVE  GoodEnd(task'[n][j], slot'[n] = j, j \in c[n], life'[n] = "stopping")
    <3>1. task'[n][j] = IF Working(n, j) THEN [task[n][j] EXCEPT !.pc = "gone"] ELSE task[n][j]
      BY <1>1, <1>8 DEF AgentExit
    <3>2. CASE Working(n, j)
      <4>1. task'[n][j].pc = "gone"
        BY <1>6, <3>1, <3>2 DEF Tasks
      <4> QED BY <4>1 DEF GoodEnd
    <3>3. CASE ~Working(n, j)
      <4>1. task[n][j].pc \in {"none", "done", "gone"}
        BY <1>6, <3>3 DEF Working, Tasks
      <4> QED BY <1>1, <1>6, <2>1, <3>1, <3>3, <4>1 DEF GoodEnd
    <3> QED BY <3>2, <3>3
  <2> QED BY <1>3, <1>4, <1>5, <2>2 DEF StopsOnly, EndsOnly
<1> QED BY <1>7, <1>8

-------------------------------------------------------------------------------
(* Who is stopped in the whole system *)

\* A program is made to end before its time only if its job was given up, by a
\* cancel or by a failure anywhere in the gang, or its agent is shutting down: a
\* cancel that is late by a whole job, whether it was decided in CancelJob, in
\* ReportJobStatus or by the monitor, and on whichever way it comes, never ends the
\* job that has the node by then.
StoppedIfGivenUp ==
  \A n \in Nodes, j \in JobIds : task[n][j].ctx = "cancelled" =>
    \/ jobs[j].status \in {"cancelled", "failed"}
    \/ life[n] = "stopping" \/ task[n][j].pc \in {"gone", "done"}

\* Job j was cancelled or has failed.
Given(j) == jobs[j].status \in {"cancelled", "failed"}

GivenUp == [n \in Nodes |-> {j \in JobIds : Given(j)}]

\* The call will tell nodes to stop its job.
Tells(r) == r.pc \in {"notify", "tell"} \/ (r.pc = "release" /\ r.todo # {})

TellersKnow == \A t \in Threads : Tells(th[t]) => Given(th[t].job)

\* Given(j)' for a job that the step itself chooses.
GivenAfter(j) == jobs'[j].status \in {"cancelled", "failed"}

\* No job comes back from being given up.
GivenStays == \A j \in JobIds : Given(j) => GivenAfter(j)

LEMMA GivenMoves == ASSUME CtrlInv, ResInv, [Next]_vars PROVE GivenStays
<1>1. JobsOnward
  BY OneCallPerStep, Onward DEF CtrlInv, TypeOK, ResInv, ResBase
<1> QED BY <1>1 DEF JobsOnward, GivenStays, Given, GivenAfter, Terminal

\* One call moves.
LEMMA OneTells ==
  ASSUME CtrlInv, GivenStays, TellersKnow, NEW t \in Threads, OnlyMoves(t),
         Tells(th'[t]) => GivenAfter(th'[t].job)
  PROVE  TellersKnow'
<1>1. ASSUME NEW u \in Threads, u # t, Tells(th'[u]) PROVE GivenAfter(th'[u].job)
  <2>1. th'[u] = th[u]
    BY <1>1 DEF OnlyMoves
  <2>2. Given(th[u].job)
    BY <1>1, <2>1 DEF TellersKnow
  <2>3. th[u].job \in JobIds
    BY <1>1, <2>1 DEF CtrlInv, GoodThread, Tells
  <2> QED BY <2>1, <2>2, <2>3 DEF GivenStays
<1>2. \A u \in Threads : Tells(th'[u]) => GivenAfter(th'[u].job)
  BY <1>1
<1> QED BY <1>2 DEF TellersKnow, Tells, Given, GivenAfter

LEMMA QuietTells ==
  ASSUME CtrlInv, GivenStays, TellersKnow
  PROVE  /\ UNCHANGED th => TellersKnow'
         /\ \A t \in Threads, pc \in AllPCs \ {"notify", "tell", "release"} :
              Goto(t, pc) \/ Over(t, pc) => TellersKnow'
<1>1. TypeOK
  BY DEF CtrlInv
<1>2. ASSUME UNCHANGED th PROVE TellersKnow'
  <2>1. Monitor \in Threads /\ OnlyMoves(Monitor) /\ th'[Monitor] = th[Monitor]
    BY <1>2, ThreadIds DEF OnlyMoves
  <2>2. Tells(th'[Monitor]) => GivenAfter(th'[Monitor].job)
    <3> SUFFICES ASSUME Tells(th[Monitor]) PROVE GivenAfter(th[Monitor].job)
      BY <2>1
    <3>1. Given(th[Monitor].job) /\ th[Monitor].job \in JobIds
      BY <2>1 DEF TellersKnow, CtrlInv, GoodThread, Tells
    <3> QED BY <1>2, <3>1 DEF GivenStays
  <2> QED BY <2>1, <2>2, OneTells
<1>3. ASSUME NEW t \in Threads, NEW pc \in AllPCs \ {"notify", "tell", "release"},
             Goto(t, pc) \/ Over(t, pc)
      PROVE  TellersKnow'
  <2>1. OnlyMoves(t) /\ th'[t].pc = pc
    BY <1>1, <1>3, GotoFields, OverFields
  <2>2. ~Tells(th'[t])
    BY <2>1 DEF Tells, AllPCs
  <2> QED BY <2>1, <2>2, OneTells
<1> QED BY <1>2, <1>3

\* CancelJob, ReportJobStatus and the monitor end the job before they notify.
LEMMA TellersKept == ASSUME CtrlInv, ResInv, [Next]_vars, TellersKnow PROVE TellersKnow'
<1>0. GivenStays
  BY GivenMoves
<1>1. TypeOK /\ th \in [Threads -> ThreadRecords]
  BY DEF CtrlInv, TypeOK
<1>2. ASSUME UNCHANGED th PROVE TellersKnow'
  BY <1>0, <1>2, QuietTells
<1>3. ASSUME NEW t \in Threads, NEW r, th' = [th EXCEPT ![t] = r], Tells(r) => GivenAfter(r.job)
      PROVE  TellersKnow'
  <2>1. OnlyMoves(t) /\ th'[t] = r
    BY <1>1, <1>3 DEF OnlyMoves
  <2> QED BY <1>0, <1>3, <2>1, OneTells
<1>4. ASSUME NEW t \in Threads, NEW pc \in AllPCs \ {"notify", "tell", "release"},
             Goto(t, pc) \/ Over(t, pc)
      PROVE  TellersKnow'
  BY <1>0, <1>4, QuietTells
<1>5. {"idle", "submit", "cancel", "after", "handle", "kick", "done"} \subseteq AllPCs \ {"notify", "tell", "release"}
  BY DEF AllPCs
<1>6. ASSUME NEW m \in Nodes, Register(m) \/ MonTouch(m) \/ Silence(m) PROVE TellersKnow'
  BY <1>2, <1>4, <1>5, <1>6, ThreadIds DEF Register, MonTouch, Silence
<1>7. ASSUME NEW k \in JobIds, SubmitDraw(k) \/ SubmitStore(k) PROVE TellersKnow'
  BY <1>4, <1>5, <1>7, ThreadIds DEF SubmitDraw, SubmitStore
<1>8. ASSUME NEW k \in JobIds, CancelApply(k) PROVE TellersKnow'
  <2> DEFINE t == <<"cancel", 0, k>>
  <2>1. t \in Threads /\ th[t].pc = "cancel"
    BY <1>8, ThreadIds DEF CancelApply, At
  <2>2. \/ Over(t, "done")
        \/ Goto(t, "release") /\ GivenAfter(k)
    BY <1>1, <1>8 DEF CancelApply, Cancel, Done, GivenAfter, TypeOK, JMTypeOK, JobRecords
  <2>3. th[t].job = k
    BY <2>1 DEF ResInv, ResBase, CallsKnow, CancelKnows, Begun
  <2>4. CASE Over(t, "done")
    BY <1>4, <1>5, <2>1, <2>4
  <2>5. CASE Goto(t, "release") /\ GivenAfter(k)
    <3>1. OnlyMoves(t) /\ th'[t].job = k
      BY <1>1, <2>1, <2>3, <2>5, GotoFields
    <3> QED BY <1>0, <2>1, <2>5, <3>1, OneTells
  <2> QED BY <2>2, <2>4, <2>5
<1>9. ASSUME NEW k \in JobIds, CancelGet(k) PROVE TellersKnow'
  <2> DEFINE t == <<"cancel", 0, k>>
             r == [th[t] EXCEPT !.pc = "cancel", !.job = k, !.gang = jobs[k].assigned,
                                !.cpus = jobs[k].spec.cpus, !.todo = jobs[k].assigned]
  <2>1. th' = [th EXCEPT ![t] = r] /\ t \in Threads
    BY <1>9, ThreadIds DEF CancelGet
  <2>2. r.pc = "cancel"
    BY <1>1, <2>1 DEF ThreadRecords
  <2>3. ~Tells(r)
    BY <2>2 DEF Tells
  <2> HIDE DEF t, r
  <2> QED BY <1>3, <2>1, <2>3
<1>10. ASSUME NEW m \in Nodes, NEW k \in JobIds, ReportGet(m, k) PROVE TellersKnow'
  <2> DEFINE t == <<"report", m, k>>
  <2>1. PICK event \in Events :
          th' = [th EXCEPT ![t] = [th[t] EXCEPT
                   !.pc = IF event = "cancelled" THEN "ack" ELSE "report",
                   !.event = event, !.job = k, !.fresh = ~Terminal(jobs[k].status)]]
    BY <1>10 DEF ReportGet
  <2> DEFINE pc == IF event = "cancelled" THEN "ack" ELSE "report"
             fresh == ~Terminal(jobs[k].status)
             r == [th[t] EXCEPT !.pc = pc, !.event = event, !.job = k, !.fresh = fresh]
  <2>2. th' = [th EXCEPT ![t] = r] /\ pc \in {"report", "ack"} /\ t \in Threads
    BY <2>1, ThreadIds
  <2> HIDE DEF pc, fresh
  <2>3. r.pc = pc
    BY <1>1, <2>2 DEF ThreadRecords
  <2> HIDE DEF t, r
  <2>4. ~Tells(r)
    BY <2>2, <2>3 DEF Tells
  <2> QED BY <1>3, <2>2, <2>4
<1>11. ASSUME NEW m \in Nodes, NEW k \in JobIds, ReportApply(m, k) PROVE TellersKnow'
  <2> DEFINE t == <<"report", m, k>>
             r == [th[t] EXCEPT !.pc = "clear", !.event = "none"]
  <2>1. th' = [th EXCEPT ![t] = r] /\ t \in Threads
    BY <1>11, ThreadIds DEF ReportApply
  <2>2. r.pc = "clear"
    BY <1>1, <2>1 DEF ThreadRecords
  <2> HIDE DEF t, r
  <2>3. ~Tells(r)
    BY <2>2 DEF Tells
  <2> QED BY <1>3, <2>1, <2>3
<1>12. ASSUME NEW m \in Nodes, NEW k \in JobIds, ReportClear(m, k) PROVE TellersKnow'
  BY <1>4, <1>5, <1>12, ThreadIds DEF ReportClear, Done
<1>13. ASSUME NEW m \in Nodes, NEW k \in JobIds, ReportAfter(m, k) PROVE TellersKnow'
  <2> DEFINE t == <<"report", m, k>>
             todo == IF jobs[k].status = "failed" THEN jobs[k].assigned \ {m} ELSE {}
             r == [th[t] EXCEPT !.pc = "release", !.gang = jobs[k].assigned,
                                !.cpus = jobs[k].spec.cpus, !.todo = todo]
  <2>1. (th' = [th EXCEPT ![t] = r] \/ Over(t, "done")) /\ t \in Threads /\ th[t].pc = "after"
        /\ UNCHANGED jobs
    BY <1>13, ThreadIds DEF ReportAfter, Done, At, jmVars
  <2>2. todo # {} => jobs[k].status = "failed"
    OBVIOUS
  <2>3. th[t].job = k
    BY <2>1 DEF ResInv, ResBase, CallsKnow, CallKnows, Begun
  <2> HIDE DEF todo
  <2>4. r.pc = "release" /\ r.todo = todo /\ r.job = k
    BY <1>1, <2>1, <2>3 DEF ThreadRecords
  <2> HIDE DEF t, r
  <2>5. Tells(r) => GivenAfter(r.job)
    BY <2>1, <2>2, <2>4 DEF Tells, GivenAfter
  <2> QED BY <1>3, <1>4, <1>5, <2>1, <2>5
<1>14. ASSUME MonReap PROVE TellersKnow'
  <2>1. PICK pc \in {"idle", "handle"} : Goto(Monitor, pc)
    BY <1>14 DEF MonReap
  <2> QED BY <1>4, <1>5, <2>1, ThreadIds
<1>15. ASSUME MonHandle PROVE TellersKnow'
  <2> DEFINE Moved(pc, job, gang, cpus, todo) ==
               th' = [th EXCEPT ![Monitor] = [th[Monitor] EXCEPT !.pc = pc, !.job = job,
                                                !.gang = gang, !.cpus = cpus, !.todo = todo]]
  <2>1. PICK d \in dead :
          \/ /\ FailRunningJob(d.job)
             /\ Moved("notify", d.job, jobs[d.job].assigned, jobs[d.job].spec.cpus, jobs[d.job].assigned)
          \/ Moved("release", d.job, {d.id}, d.alloc, {})
    BY <1>15 DEF MonHandle
  <2>2. d.job \in JobIds
    BY <1>1, <2>1 DEF TypeOK
  <2>3. FailRunningJob(d.job) => GivenAfter(d.job)
    BY <1>1, <2>2 DEF FailRunningJob, Finish, GivenAfter, TypeOK, JMTypeOK, JobRecords
  <2>4. ASSUME NEW pc \in {"notify", "release"}, NEW job, NEW gang, NEW cpus, NEW todo,
               Moved(pc, job, gang, cpus, todo),
               pc = "notify" => GivenAfter(job), pc = "release" => todo = {}
        PROVE  TellersKnow'
    <3> DEFINE r == [th[Monitor] EXCEPT !.pc = pc, !.job = job, !.gang = gang, !.cpus = cpus,
                                        !.todo = todo]
    <3>1. Monitor \in Threads
      BY ThreadIds
    <3>2. r.pc = pc /\ r.job = job /\ r.todo = todo
      BY <1>1, <3>1 DEF ThreadRecords
    <3>3. th' = [th EXCEPT ![Monitor] = r]
      BY <2>4
    <3> HIDE DEF r
    <3>4. Tells(r) => GivenAfter(r.job)
      BY <2>4, <3>2 DEF Tells
    <3> QED BY <1>3, <3>1, <3>3, <3>4
  <2>5. \A pc \in {"notify", "release"} : \A job, gang, cpus, todo :
          /\ Moved(pc, job, gang, cpus, todo)
          /\ pc = "notify" => GivenAfter(job)
          /\ pc = "release" => todo = {}
          => TellersKnow'
    BY <2>4
  <2> HIDE DEF Moved
  <2> QED BY <2>1, <2>3, <2>5
<1>16. ASSUME NEW t \in Threads, ThreadStep(t) PROVE TellersKnow'
  <2>1. th[t] \in ThreadRecords /\ (Tells(th[t]) => th[t].job \in JobIds)
    BY <1>1 DEF CtrlInv, GoodThread, Tells
  <2>2. Tells(th[t]) => GivenAfter(th[t].job)
    BY <1>0, <2>1 DEF TellersKnow, GivenStays
  <2>3. ASSUME NEW pc \in {"notify", "tell"}, Goto(t, pc), Tells(th[t]) PROVE TellersKnow'
    <3>1. OnlyMoves(t) /\ th'[t].job = th[t].job
      BY <1>1, <2>3, GotoFields
    <3> QED BY <1>0, <2>2, <2>3, <3>1, OneTells
  <2>4. CASE Release(t)
    <3>1. \/ Over(t, "idle") \/ Over(t, "handle") \/ Over(t, "kick")
          \/ Goto(t, "notify") /\ Tells(th[t])
      BY <2>4 DEF Release, At, Tells
    <3> QED BY <1>4, <1>5, <2>3, <3>1
  <2>5. CASE NotifySet(t)
    <3>1. Goto(t, "tell") /\ Tells(th[t])
      BY <2>5 DEF NotifySet, At, Tells
    <3> QED BY <2>3, <3>1
  <2>6. CASE NotifySend(t)
    <3>1. Tells(th[t])
      BY <2>6 DEF NotifySend, At, Tells
    <3>2. ASSUME NEW pc \in {"notify", "release"}, NEW todo,
                 th' = [th EXCEPT ![t] = [th[t] EXCEPT !.pc = pc, !.todo = todo]]
          PROVE  TellersKnow'
      <4> DEFINE r == [th[t] EXCEPT !.pc = pc, !.todo = todo]
      <4>1. r.job = th[t].job /\ th' = [th EXCEPT ![t] = r]
        BY <2>1, <3>2 DEF ThreadRecords
      <4> HIDE DEF r
      <4> QED BY <1>3, <2>2, <3>1, <4>1
    <3> DEFINE n0 == Min(th[t].todo)
               left == th[t].todo \ {n0}
    <3>3. \/ th' = [th EXCEPT ![t] = [th[t] EXCEPT !.pc = "notify", !.todo = left]]
          \/ th' = [th EXCEPT ![t] = [th[t] EXCEPT !.pc = "release", !.todo = {}]]
          \/ Over(t, "kick")
      BY <2>6, Zenon DEF NotifySend
    <3> HIDE DEF n0, left
    <3>4. Over(t, "kick") => TellersKnow'
      BY <1>4, <1>5
    <3> QED BY <3>2, <3>3, <3>4
  <2>7. CASE KickStep(t)
    <3>1. th' = [th EXCEPT ![t] = Idle] \/ Over(t, "done")
      BY <2>7 DEF KickStep, Done
    <3>2. ~Tells(Idle)
      BY DEF Idle, Tells
    <3> QED BY <1>3, <1>4, <1>5, <3>1, <3>2
  <2> QED BY <1>16, <2>4, <2>5, <2>6, <2>7 DEF ThreadStep
<1>17. ASSUME SchedulerNext \/ UNCHANGED vars PROVE TellersKnow'
  BY <1>2, <1>17 DEF SchedulerNext, vars
<1> QED BY <1>6, <1>7, <1>8, <1>9, <1>10, <1>11, <1>12, <1>13, <1>14, <1>15, <1>16, <1>17 DEF Next

\* Of the hub's calls that say to stop a job, the controller makes those of jobs that
\* were given up.
GivenWords ==
  \/ UNCHANGED hubVars
  \/ \E n \in Nodes, j \in JobIds :
       \/ DropCancel(n) \/ ClearCancel(n, j)
       \/ Given(j) /\ (SetCancel(n, j) \/ send(n, CancelWork(j)))
  \/ SchedulerNext /\ SchedSend

LEMMA WordsAreGiven == ASSUME CtrlInv, TellersKnow, [Next]_vars PROVE GivenWords
<1>1. CASE UNCHANGED hubVars
  BY <1>1 DEF GivenWords
<1>2. ASSUME NEW t \in Threads, ThreadStep(t) PROVE GivenWords
  <2>1. CASE Release(t) \/ KickStep(t)
    BY <1>1, <2>1 DEF Release, KickStep
  <2>2. CASE NotifySet(t) \/ NotifySend(t)
    <3>1. th[t] \in ThreadRecords /\ GoodThread(th[t])
      BY DEF CtrlInv, TypeOK
    <3>2. th[t].todo # {} /\ th[t].todo \subseteq Nodes /\ th[t].job \in JobIds
      BY <2>2, <3>1 DEF NotifySet, NotifySend, At, GoodThread, ThreadRecords
    <3>3. Min(th[t].todo) \in Nodes
      BY <3>2, NodesAssumption, MinIsLeast
    <3>4. Given(th[t].job)
      BY <2>2 DEF NotifySet, NotifySend, At, TellersKnow, Tells
    <3>5. SetCancel(Min(th[t].todo), th[t].job) \/ send(Min(th[t].todo), CancelWork(th[t].job))
      BY <2>2 DEF NotifySet, NotifySend
    <3> QED BY <3>2, <3>3, <3>4, <3>5 DEF GivenWords
  <2> QED BY <1>2, <2>1, <2>2 DEF ThreadStep
<1>3. CASE SchedulerNext
  <2>1. CASE SchedDropCancel
    <3>1. sched.todo # {} /\ sched.todo \subseteq Nodes /\ sched.job \in JobIds
      BY <2>1 DEF SchedDropCancel, CtrlInv, GoodSched, TypeOK, SchedRecords
    <3>2. Min(sched.todo) \in Nodes
      BY <3>1, NodesAssumption, MinIsLeast
    <3>3. DropCancel(Min(sched.todo))
      BY <2>1 DEF SchedDropCancel
    <3> QED BY <3>1, <3>2, <3>3 DEF GivenWords
  <2>2. CASE SchedSend
    BY <1>3, <2>2 DEF GivenWords
  <2>3. ~SchedDropCancel /\ ~SchedSend => UNCHANGED hubVars
    BY <1>3 DEF SchedulerNext, SchedStep, SchedPeek, SchedSelect, SchedReserve, SchedMark, SchedUndo,
                SchedPark, SchedWake, SchedTick
  <2> QED BY <1>1, <2>1, <2>2, <2>3
<1>4. ASSUME NEW n \in Nodes, NEW j \in JobIds,
             ReportGet(n, j) \/ ReportApply(n, j) \/ ReportClear(n, j) \/ ReportAfter(n, j)
      PROVE  GivenWords
  BY <1>1, <1>4 DEF ReportGet, ReportApply, ReportClear, ReportAfter, GivenWords
<1>5. ASSUME NEW j \in JobIds, SubmitDraw(j) \/ SubmitStore(j) \/ CancelGet(j) \/ CancelApply(j)
      PROVE  UNCHANGED hubVars
  BY <1>5 DEF SubmitDraw, SubmitStore, CancelGet, CancelApply
<1>6. ASSUME NEW n \in Nodes, Register(n) \/ MonTouch(n) \/ Silence(n) PROVE UNCHANGED hubVars
  BY <1>6 DEF Register, MonTouch, Silence
<1>7. CASE MonReap \/ MonHandle \/ UNCHANGED vars
  BY <1>1, <1>7 DEF MonReap, MonHandle, vars
<1> QED BY <1>1, <1>2, <1>3, <1>4, <1>5, <1>6, <1>7 DEF Next

\* A controller that speaks of such jobs only has nobody else stopped.
LEMMA ControllerStops ==
  ASSUME ClusterInv, NEW c, StopsOnly(c), GivenWords, UNCHANGED agentVars,
         \A n \in Nodes, j \in JobIds : Given(j) => j \in c[n]
  PROVE  StopsOnly(c)'
<1>1. HubInv /\ MailOnce
  BY DEF ClusterInv
<1>2. CASE UNCHANGED hubVars
  BY <1>2, NothingStops
<1>3. ASSUME NEW n \in Nodes, NEW j \in JobIds,
             DropCancel(n) \/ ClearCancel(n, j) \/ (SetCancel(n, j) /\ Given(j))
      PROVE  StopsOnly(c)'
  BY <1>1, <1>3, EntryStops
<1>4. ASSUME NEW n \in Nodes, NEW j \in JobIds, send(n, CancelWork(j)), Given(j) PROVE StopsOnly(c)'
  <2>1. CancelWork(j) \in Msgs /\ CancelWork(j).kind = "cancel" /\ CancelWork(j).job = j
    BY DEF CancelWork, Msgs
  <2> QED BY <1>1, <1>4, <2>1, SendStops
<1>5. CASE SchedulerNext /\ SchedSend
  <2>1. PICK n \in Nodes : n \in sched.todo /\ sched.job \in JobIds /\ sched.pc = "send"
                           /\ send(n, Assign(sched.job))
    BY <1>5, SendTarget DEF ClusterInv
  <2>2. PICK m : m = Assign(sched.job)
    OBVIOUS
  <2>3. m \in Msgs /\ m.kind = "assign"
    BY <2>1, <2>2 DEF Assign, Msgs
  <2>4. ~InMail(n, m)
    BY <2>1, <2>2 DEF ClusterInv, SentOnce, NotYetSent
  <2>5. send(n, m)
    BY <2>1, <2>2
  <2> QED BY <1>1, <2>3, <2>4, <2>5, SendStops
<1> QED BY <1>2, <1>3, <1>4, <1>5 DEF GivenWords

\* Nor has a step of an agent or of a stream.
LEMMA ClusterStops ==
  ASSUME ClusterInv, TellersKnow, [ClusterNext]_clusterVars, NEW c, StopsOnly(c),
         \A n \in Nodes, j \in JobIds : Given(j) => j \in c[n]
  PROVE  StopsOnly(c)'
<1>1. /\ HubInv /\ HubTypeOK /\ MailOnce /\ AgentInv /\ ServesNode /\ NotTwice
      /\ CtrlInv
  BY DEF ClusterInv, HubInv
<1>2. CASE UNCHANGED clusterVars
  BY <1>2, NothingStops DEF clusterVars, vars
<1>3. CASE ControllerStep
  <2>1. [Next]_vars /\ UNCHANGED agentVars
    BY <1>3 DEF ControllerStep, Next
  <2> QED BY <1>1, <2>1, WordsAreGiven, ControllerStops
<1>4. ASSUME NEW n \in Nodes, CRegister(n) PROVE StopsOnly(c)'
  <2>1. AgentRegistered(n) /\ UNCHANGED hubVars
    BY <1>4 DEF CRegister, Register
  <2> QED BY <1>1, <2>1, AgentStops
<1>5. ASSUME NEW n \in Nodes, AgentStep(n) \/ CBreak(n) PROVE StopsOnly(c)'
  BY <1>1, <1>5, AgentStops DEF AgentStep, CBreak
<1>6. ASSUME NEW n \in Nodes, CStop(n) \/ CExit(n) PROVE StopsOnly(c)'
  BY <1>1, <1>6, LeaveStops DEF CStop, CExit
<1>7. ASSUME NEW n \in Nodes, NEW j \in JobIds, CTask(n, j) \/ COutside(n, j) PROVE StopsOnly(c)'
  <2>1. /\ RunStep(n, j) \/ Overrun(n, j) \/ ProcExit(n, j)
        /\ UNCHANGED <<life, beat, hubVars>>
    BY <1>7 DEF CTask, COutside, TaskStep, OutsideStep
  <2> QED BY <1>1, <2>1, TaskStops
<1>8. ASSUME NEW n \in Nodes, NEW j \in JobIds, CReport(n, j) \/ CReportFails(n, j) PROVE StopsOnly(c)'
  <2>1. FinalReport(n, j) /\ UNCHANGED hubVars
    BY <1>8 DEF CReport, CReportFails, ReportGet, vars
  <2>2. UNCHANGED slot /\ life' = life /\ beat' = beat
    BY <2>1 DEF FinalReport
  <2> QED BY <1>1, <2>1, <2>2, ReportStops
<1>9. ASSUME NEW s \in Streams, CRecv(s) PROVE StopsOnly(c)'
  BY <1>1, <1>9, RecvStops DEF CRecv
<1>10. ASSUME NEW s \in Streams, CBegin(s) PROVE StopsOnly(c)'
  BY <1>1, <1>10, WatchStops DEF CBegin
<1>11. ASSUME NEW s \in Streams, CReturn(s) PROVE StopsOnly(c)'
  <2>1. Return(s) /\ UNCHANGED agentVars
    BY <1>11 DEF CReturn, HandlerReturns
  <2> QED BY <1>1, <2>1, ReturnStops
<1> QED BY <1>2, <1>3, <1>4, <1>5, <1>6, <1>7, <1>8, <1>9, <1>10, <1>11 DEF ClusterNext

GivenInv == TellersKnow /\ StopsOnly(GivenUp)

LEMMA GivenMayStop ==
  ASSUME NEW c, StopsOnly(c)', \A n \in Nodes : c[n] \subseteq GivenUp'[n]
  PROVE  StopsOnly(GivenUp)'
BY DEF StopsOnly, WordsOnly, EndsOnly, GoodEnd

LEMMA GivenKept == ASSUME ClusterInv, GivenInv, [ClusterNext]_clusterVars PROVE GivenInv'
<1>1. CtrlInv /\ ResInv
  BY DEF ClusterInv
<1>2. GivenStays /\ TellersKnow'
  <2>1. CASE [Next]_vars
    BY <1>1, <2>1, GivenMoves, TellersKept DEF GivenInv
  <2>2. CASE UNCHANGED ctrlVars
    <3>1. GivenStays /\ UNCHANGED th
      BY <2>2 DEF ctrlVars, jmVars, GivenStays, Given, GivenAfter
    <3> QED BY <1>1, <3>1, QuietTells DEF GivenInv
  <2> QED BY <2>1, <2>2, CtrlPart
<1>3. PICK c : c = GivenUp'
  OBVIOUS
<1>4. \A n \in Nodes : c[n] = {j \in JobIds : GivenAfter(j)}
  BY <1>3 DEF GivenUp, Given, GivenAfter
<1>5. \A n \in Nodes : GivenUp[n] \subseteq c[n]
  BY <1>2, <1>4 DEF GivenUp, GivenStays
<1>6. StopsOnly(c)
  BY <1>5, MoreMayStop DEF GivenInv
<1>7. \A n \in Nodes, j \in JobIds : Given(j) => j \in c[n]
  BY <1>2, <1>4 DEF GivenStays
<1>8. StopsOnly(c)'
  BY <1>6, <1>7, ClusterStops DEF GivenInv
<1>9. StopsOnly(GivenUp)'
  BY <1>3, <1>8, GivenMayStop
<1> QED BY <1>2, <1>9 DEF GivenInv

LEMMA GivenStart == ClusterInit => GivenInv
<1> SUFFICES ASSUME ClusterInit PROVE GivenInv
  OBVIOUS
<1>1. /\ \A n \in Nodes, m \in Msgs : ~InMail(n, m)
      /\ \A n \in Nodes, j \in JobIds : task[n][j] = NoTask
  BY AgentBegins DEF ClusterInit, Init
<1>2. NoTask.pc = "none" /\ NoTask.ctx = "live"
  BY DEF NoTask
<1>3. \A j \in JobIds : CancelWork(j) \in Msgs
  BY DEF CancelWork, Msgs
<1>4. /\ \A n \in Nodes : slot[n] = NoJob /\ cancel[n] = NoJob /\ beat[n] = NoBeat
      /\ NoJob \notin JobIds /\ NoBeat \notin JobIds
  BY JobIdsAssumption DEF ClusterInit, Init, AgentInit, ExecInit, HubInit, NoJob, NoBeat
<1>5. StopsOnly(GivenUp)
  BY <1>1, <1>2, <1>3, <1>4 DEF StopsOnly, WordsOnly, BeatsWhileUp, EndsOnly, GoodEnd
<1>6. ~Tells(Idle) /\ \A t \in Threads : th[t] = Idle
  BY DEF Idle, Tells, ClusterInit, Init
<1> QED BY <1>5, <1>6 DEF GivenInv, TellersKnow

\* End to end, whatever cancels, reports, lost nodes, streams and restarts come between: a
\* program is made to end before its time only if its own job was cancelled or has
\* failed, or its agent is shutting down.
THEOREM OnlyTheGivenUpStop == ClusterSpec => []StoppedIfGivenUp
<1>1. GivenInv => StoppedIfGivenUp
  BY DEF GivenInv, StopsOnly, EndsOnly, GoodEnd, GivenUp, Given, StoppedIfGivenUp
<1>2. ClusterInit => ClusterInv /\ GivenInv
  BY ClusterStart, GivenStart
<1>3. ClusterInv /\ GivenInv /\ [ClusterNext]_clusterVars => (ClusterInv /\ GivenInv)'
  BY ClusterStepKeeps, GivenKept
<1> QED BY <1>1, <1>2, <1>3, PTL DEF ClusterSpec

-------------------------------------------------------------------------------
(* Agents under any controller (module MCAgent) *)

\* The jobs each node has been told to stop, and those it may still be sent.
Told == [n \in Nodes |-> {j \in JobIds : note[n][j] # "no"}]

Halves == [Nodes -> [JobIds -> {"no", "half", "done"}]]

SendersOK == disp \in Halves /\ note \in Halves

\* What is still to be dispatched no node has.
DispatchedOnce ==
  \A n \in Nodes, j \in JobIds : disp[n][j] # "done" =>
    task[n][j].pc = "none" /\ ~InMail(n, Assign(j))

MCInv ==
  /\ AgentInv /\ HubInv /\ ServesNode /\ MailOnce /\ NotTwice
  /\ SendersOK /\ DispatchedOnce /\ StopsOnly(Told)

LEMMA MCStart == MCInit => MCInv
<1> SUFFICES ASSUME MCInit PROVE MCInv
  OBVIOUS
<1>1. /\ AgentInv /\ HubInv /\ ServesNode /\ MailOnce /\ NotTwice
      /\ \A n \in Nodes, m \in Msgs : ~InMail(n, m)
      /\ \A n \in Nodes, j \in JobIds : task[n][j] = NoTask
  BY AgentBegins DEF MCInit
<1>2. NoTask.pc = "none" /\ NoTask.ctx = "live"
  BY DEF NoTask
<1>3. \A j \in JobIds : Assign(j) \in Msgs /\ CancelWork(j) \in Msgs
  BY DEF Assign, CancelWork, Msgs
<1>4. /\ SendersOK
      /\ \A n \in Nodes : slot[n] = NoJob /\ cancel[n] = NoJob /\ beat[n] = NoBeat
      /\ NoJob \notin JobIds /\ NoBeat \notin JobIds
  BY JobIdsAssumption DEF MCInit, SendersOK, Halves, AgentInit, ExecInit, HubInit, NoJob, NoBeat
<1>5. DispatchedOnce
  BY <1>1, <1>2, <1>3 DEF DispatchedOnce
<1>6. StopsOnly(Told)
  BY <1>1, <1>2, <1>3, <1>4 DEF StopsOnly, WordsOnly, BeatsWhileUp, EndsOnly, GoodEnd
<1> QED BY <1>1, <1>4, <1>5, <1>6 DEF MCInv

LEMMA ToldMayStop ==
  ASSUME NEW c, StopsOnly(c)', \A n \in Nodes : c[n] \subseteq Told'[n]
  PROVE  StopsOnly(Told)'
BY DEF StopsOnly, WordsOnly, EndsOnly, GoodEnd

\* A step that sends nothing.
LEMMA NoMailKeeps ==
  ASSUME MCInv, [HubNext]_hubVars, UNCHANGED <<disp, note>>,
         AgentInv', MailOnce', NoNewMail, TasksOnward,
         \A c : StopsOnly(c) => StopsOnly(c)'
  PROVE  MCInv'
<1>1. PICK c : c = Told
  OBVIOUS
<1>2. StopsOnly(c)' /\ c = Told'
  BY <1>1 DEF MCInv, Told
<1>3. StopsOnly(Told)'
  BY <1>2, ToldMayStop
<1>4. HubInv' /\ ServesNode'
  BY HubStep, ServesKept DEF MCInv
<1>5. \A n \in Nodes, j \in JobIds : InMail(n, Assign(j))' => InMail(n, Assign(j))
  <2>1. \A j \in JobIds : Assign(j) \in Msgs
    BY DEF Assign, Msgs
  <2> QED BY <2>1 DEF NoNewMail
<1>6. NotTwice' /\ DispatchedOnce' /\ SendersOK'
  BY <1>5 DEF MCInv, NotTwice, DispatchedOnce, SendersOK, TasksOnward
<1> QED BY <1>3, <1>4, <1>6 DEF MCInv

LEMMA HalfMore ==
  ASSUME NEW f \in Halves, NEW n \in Nodes, NEW j \in JobIds, NEW v \in {"half", "done"}
  PROVE  [f EXCEPT ![n][j] = v] \in Halves
BY DEF Halves

\* What Dispatch and NotifyCancel do to the hub.
LEMMA SendersKeep ==
  ASSUME MCInv, NEW n \in Nodes, NEW j \in JobIds, MCDispatch(n, j) \/ MCNotifyCancel(n, j)
  PROVE  MCInv'
<1> USE DEF MCInv
<1>1. UNCHANGED agentVars /\ AgentInv' /\ task' = task
  BY DEF MCDispatch, MCNotifyCancel, agentVars, execVars, AgentInv, AgentTypeOK, TasksGood
<1>2. Assign(j) \in Msgs /\ CancelWork(j) \in Msgs /\ Assign(j).kind = "assign"
      /\ CancelWork(j).kind = "cancel" /\ CancelWork(j).job = j
      /\ \A i \in JobIds : Assign(i) \in Msgs /\ Assign(i) # CancelWork(j) /\ (Assign(i) = Assign(j) => i = j)
  BY DEF Assign, CancelWork, Msgs
<1>3. PICK c : c = Told
  OBVIOUS
<1>4. StopsOnly(c)
  BY <1>3
<1>5. SendersOK' /\ \A k \in Nodes : c[k] \subseteq Told'[k]
  <2>0. \E v \in {"half", "done"} :
          \/ disp' = [disp EXCEPT ![n][j] = v] /\ note' = note
          \/ note' = [note EXCEPT ![n][j] = v] /\ disp' = disp
    BY DEF MCDispatch, MCNotifyCancel
  <2>1. SendersOK'
    <3>1. PICK v \in {"half", "done"} :
            \/ disp' = [disp EXCEPT ![n][j] = v] /\ note' = note
            \/ note' = [note EXCEPT ![n][j] = v] /\ disp' = disp
      BY <2>0
    <3>2. disp \in Halves /\ note \in Halves
      BY DEF SendersOK
    <3>3. [disp EXCEPT ![n][j] = v] \in Halves
      BY <3>2, HalfMore
    <3>4. [note EXCEPT ![n][j] = v] \in Halves
      BY <3>2, HalfMore
    <3> QED BY <3>1, <3>2, <3>3, <3>4 DEF SendersOK
  <2>2. \A k \in Nodes, i \in JobIds : note[k][i] # "no" => note'[k][i] # "no"
    BY <2>0 DEF SendersOK, Halves
  <2> QED BY <1>3, <2>1, <2>2 DEF Told
<1>6. ASSUME [HubNext]_hubVars, MailOnce', StopsOnly(c)', NotTwice', DispatchedOnce' PROVE MCInv'
  BY <1>1, <1>5, <1>6, ToldMayStop, HubStep, ServesKept
<1>7. ASSUME DropCancel(n) \/ SetCancel(n, j), StopsOnly(c)',
             \A k \in Nodes, i \in JobIds : disp'[k][i] = "done" <=> disp[k][i] = "done"
      PROVE  MCInv'
  <2>1. [HubNext]_hubVars /\ UNCHANGED <<queue, chan>>
    BY <1>7 DEF HubNext, DropCancel, SetCancel
  <2>2. MailOnce' /\ \A k \in Nodes, m \in Msgs : InMail(k, m)' => InMail(k, m)
    BY <2>1, SameMail DEF NoNewMail
  <2>3. NotTwice' /\ DispatchedOnce'
    BY <1>1, <1>2, <1>7, <2>2 DEF NotTwice, DispatchedOnce
  <2> QED BY <1>6, <1>7, <2>1, <2>2, <2>3
<1>8. CASE MCDispatch(n, j) /\ DropCancel(n) /\ disp' = [disp EXCEPT ![n][j] = "half"] /\ disp[n][j] = "no"
  <2>1. StopsOnly(c)'
    BY <1>1, <1>4, <1>8, EntryStops
  <2> QED BY <1>7, <1>8, <2>1 DEF SendersOK, Halves
<1>9. CASE MCDispatch(n, j) /\ send(n, Assign(j)) /\ disp' = [disp EXCEPT ![n][j] = "done"] /\ disp[n][j] = "half"
  <2>1. task[n][j].pc = "none" /\ ~InMail(n, Assign(j))
    BY <1>9 DEF DispatchedOnce
  <2>2. /\ MailOnce'
        /\ \A k \in Nodes, x \in Msgs : InMail(k, x)' => InMail(k, x) \/ (k = n /\ x = Assign(j))
    BY <1>2, <1>9, <2>1, SendMail
  <2>3. StopsOnly(c)'
    BY <1>1, <1>2, <1>4, <1>9, <2>1, SendStops
  <2>4. NotTwice'
    BY <1>1, <1>2, <2>1, <2>2 DEF NotTwice
  <2>5. DispatchedOnce'
    BY <1>1, <1>2, <1>9, <2>2 DEF DispatchedOnce, SendersOK, Halves
  <2>6. [HubNext]_hubVars
    BY <1>9 DEF HubNext
  <2> QED BY <1>6, <2>2, <2>3, <2>4, <2>5, <2>6
<1>10. CASE MCNotifyCancel(n, j) /\ SetCancel(n, j) /\ note' = [note EXCEPT ![n][j] = "half"] /\ note[n][j] = "no"
  <2>1. PICK d : d = Told'
    OBVIOUS
  <2>2. j \in d[n] /\ \A k \in Nodes : c[k] \subseteq d[k]
    BY <1>5, <1>10, <2>1 DEF SendersOK, Halves, Told
  <2>3. StopsOnly(d)
    BY <1>4, <2>2, MoreMayStop
  <2>4. StopsOnly(d)'
    BY <1>1, <1>10, <2>2, <2>3, EntryStops
  <2>5. StopsOnly(Told)'
    BY <2>1, <2>4, ToldMayStop
  <2>6. [HubNext]_hubVars /\ UNCHANGED <<queue, chan, disp>>
    BY <1>10 DEF HubNext, SetCancel, MCNotifyCancel
  <2>7. MailOnce' /\ \A k \in Nodes, m \in Msgs : InMail(k, m)' => InMail(k, m)
    BY <2>6, SameMail DEF NoNewMail
  <2>8. NotTwice' /\ DispatchedOnce'
    BY <1>1, <1>2, <2>6, <2>7 DEF NotTwice, DispatchedOnce
  <2> QED BY <1>1, <1>5, <2>5, <2>6, <2>7, <2>8, HubStep, ServesKept
<1>11. CASE MCNotifyCancel(n, j) /\ send(n, CancelWork(j)) /\ note' = [note EXCEPT ![n][j] = "done"] /\ note[n][j] = "half"
  <2>1. j \in c[n] /\ disp' = disp
    BY <1>3, <1>11 DEF Told, MCNotifyCancel
  <2>2. /\ MailOnce'
        /\ \A k \in Nodes, x \in Msgs : InMail(k, x)' => InMail(k, x) \/ (k = n /\ x = CancelWork(j))
    BY <1>2, <1>11, SendMail
  <2>3. StopsOnly(c)'
    BY <1>1, <1>2, <1>4, <1>11, <2>1, SendStops
  <2>4. NotTwice' /\ DispatchedOnce'
    BY <1>1, <1>2, <2>1, <2>2 DEF NotTwice, DispatchedOnce
  <2>5. [HubNext]_hubVars
    BY <1>11 DEF HubNext
  <2> QED BY <1>6, <2>2, <2>3, <2>4, <2>5
<1> QED BY <1>8, <1>9, <1>10, <1>11 DEF MCDispatch, MCNotifyCancel

LEMMA RecvKeepsAll ==
  ASSUME MCInv, NEW s \in Streams, MCRecv(s)
  PROVE  MCInv'
<1> USE DEF MCInv
<1>1. Recv(s) /\ UNCHANGED <<disp, note>> /\ [HubNext]_hubVars
  BY DEF MCRecv, Recv, HubNext
<1>2. /\ AgentInv' /\ MailOnce' /\ NotTwice' /\ NoNewMail
      /\ \A n \in Nodes, j \in JobIds :
           task[n][j].pc = "none" /\ task'[n][j].pc # "none" => InMail(n, Assign(j))
  BY <1>1, RecvKeeps
<1>3. PICK c : c = Told
  OBVIOUS
<1>4. StopsOnly(c)' /\ c = Told'
  BY <1>1, <1>3, RecvStops DEF Told
<1>5. StopsOnly(Told)'
  BY <1>4, ToldMayStop
<1>6. \A j \in JobIds : Assign(j) \in Msgs
  BY DEF Assign, Msgs
<1>7. DispatchedOnce' /\ SendersOK'
  BY <1>1, <1>2, <1>6 DEF DispatchedOnce, SendersOK, NoNewMail
<1> QED BY <1>1, <1>2, <1>5, <1>7, HubStep, ServesKept

LEMMA MCStepKeeps == MCInv /\ [MCNext]_mcVars => MCInv'
<1> SUFFICES ASSUME MCInv, [MCNext]_mcVars PROVE MCInv'
  OBVIOUS
<1> USE DEF MCInv
<1>1. UNCHANGED hubVars => MailOnce' /\ NoNewMail /\ [HubNext]_hubVars
  BY SameMail DEF hubVars
<1>2. CASE UNCHANGED mcVars
  <2>1. AgentInv' /\ TasksOnward
    BY <1>2 DEF mcVars, agentVars, execVars, AgentInv, TasksGood, AgentTypeOK, TasksOnward
  <2> QED BY <1>1, <1>2, <2>1, NoMailKeeps, NothingStops DEF mcVars
<1>3. ASSUME NEW n \in Nodes,
             \/ MCRegistered(n) \/ MCBeat(n) \/ MCWatch(n)
             \/ (AgentStart(n) \/ StreamBreaks(n)) /\ UNCHANGED <<disp, note>>
      PROVE  MCInv'
  <2>1. AgentInv' /\ TasksOnward /\ \A c : StopsOnly(c) => StopsOnly(c)'
    BY <1>3, AgentKeeps, AgentStops DEF MCRegistered, MCBeat, MCWatch, HubInv
  <2>2. UNCHANGED hubVars /\ UNCHANGED <<disp, note>>
    BY <1>3 DEF MCRegistered, MCBeat, MCWatch, AgentStart, WatchOpen, WatchEnds, StreamBreaks, BeatAsk,
                BeatAnswer
  <2> QED BY <1>1, <2>1, <2>2, NoMailKeeps
<1>4. ASSUME NEW n \in Nodes, (AgentStop(n) \/ AgentExit(n)) /\ UNCHANGED <<disp, note>> PROVE MCInv'
  <2>1. AgentInv' /\ TasksOnward /\ \A c : StopsOnly(c) => StopsOnly(c)'
    BY <1>4, StopExitKeeps, LeaveStops
  <2>2. UNCHANGED hubVars
    BY <1>4 DEF AgentStop, AgentExit
  <2> QED BY <1>1, <1>4, <2>1, <2>2, NoMailKeeps
<1>5. ASSUME NEW s \in Streams, MCBegin(s) PROVE MCInv'
  <2>1. WatchBegin(s) /\ UNCHANGED <<disp, note>>
    BY <1>5 DEF MCBegin
  <2>2. Subscribe(s, asked[s]) /\ asked[s] \in Nodes /\ UNCHANGED agentVars
    BY <2>1 DEF WatchBegin, AgentInv, AgentTypeOK
  <2>3. MailOnce' /\ NoNewMail /\ [HubNext]_hubVars
    BY <2>2, SubscribeMail DEF HubNext
  <2>4. AgentInv' /\ TasksOnward
    BY <2>2 DEF agentVars, execVars, AgentInv, TasksGood, AgentTypeOK, TasksOnward
  <2>5. \A c : StopsOnly(c) => StopsOnly(c)'
    BY <2>1, WatchStops
  <2> QED BY <2>1, <2>3, <2>4, <2>5, NoMailKeeps
<1>6. ASSUME NEW n \in Nodes, NEW j \in JobIds,
             MCTask(n, j) \/ (OutsideStep(n, j) /\ UNCHANGED <<disp, note>>)
      PROVE  MCInv'
  <2>1. /\ RunStep(n, j) \/ Overrun(n, j) \/ ProcExit(n, j)
        /\ AgentRest /\ UNCHANGED hubVars /\ UNCHANGED <<disp, note>>
    BY <1>6 DEF MCTask, TaskStep, OutsideStep, AgentRest
  <2>2. AgentInv' /\ TasksOnward
    BY <2>1, RunKeeps, OutsideKeeps
  <2>3. \A c : StopsOnly(c) => StopsOnly(c)'
    BY <2>1, TaskStops DEF AgentRest
  <2> QED BY <1>1, <2>1, <2>2, <2>3, NoMailKeeps
<1>7. ASSUME NEW n \in Nodes, NEW j \in JobIds, MCReport(n, j) PROVE MCInv'
  <2>1. FinalReport(n, j) /\ UNCHANGED slot /\ AgentRest /\ UNCHANGED <<disp, note>>
    BY <1>7 DEF MCReport, FinalReport, AgentRest
  <2>2. AgentInv' /\ TasksOnward
    BY <2>1, OutsideKeeps
  <2>3. ClearCancel(n, j) \/ UNCHANGED hubVars
    BY <1>7 DEF MCReport
  <2>4. UNCHANGED <<queue, chan>> /\ [HubNext]_hubVars
    BY <2>3 DEF ClearCancel, hubVars, HubNext
  <2>5. MailOnce' /\ NoNewMail
    BY <2>4, SameMail
  <2>6. \A c : StopsOnly(c) => StopsOnly(c)'
    BY <2>1, <2>3, ReportStops DEF AgentRest
  <2> QED BY <2>1, <2>2, <2>4, <2>5, <2>6, NoMailKeeps
<1>8. ASSUME NEW s \in Streams, HandlerReturns(s) /\ UNCHANGED <<disp, note>> PROVE MCInv'
  <2>1. Return(s) /\ UNCHANGED agentVars
    BY <1>8 DEF HandlerReturns
  <2>2. AgentInv' /\ TasksOnward
    BY <2>1 DEF agentVars, execVars, AgentInv, TasksGood, AgentTypeOK, TasksOnward
  <2>3. MailOnce' /\ NoNewMail /\ [HubNext]_hubVars
    BY <2>1, ReturnMail DEF HubNext
  <2>4. \A c : StopsOnly(c) => StopsOnly(c)'
    BY <2>1, ReturnStops
  <2> QED BY <1>8, <2>2, <2>3, <2>4, NoMailKeeps
<1> QED BY <1>2, <1>3, <1>4, <1>5, <1>6, <1>7, <1>8, SendersKeep, RecvKeepsAll DEF MCNext

\* Executor.Stop and agent.go, for any number of jobs, nodes, streams and restarts and
\* whoever dispatches and cancels when: a context is cancelled only on the
\* controller's word for that very job, or because its agent is shutting down.  A
\* word that comes late by a whole job, over the stream or in a heartbeat's answer,
\* never stops the job that took its place.
THEOREM OnlyForCause == MCSpec => []StoppedForCause
<1>1. MCInv => StoppedForCause
  BY DEF MCInv, StopsOnly, EndsOnly, GoodEnd, Told, StoppedForCause
<1> QED BY <1>1, MCStart, MCStepKeeps, PTL DEF MCSpec

================================================================================
