------------------------------- MODULE MailProofs -------------------------------
(***************************************************************************)
(* The mailbox between senders and streams, for any numbers of nodes,      *)
(* streams and messages and any sizes of the queue and the channels.       *)
(* MCHub's observers say what was sent to a node and what became of it;    *)
(* the invariant says where each message is, which is what its counting    *)
(* comes down to once no sequence holds a message twice.                   *)
(***************************************************************************)
EXTENDS MCHub, HubProofs, FiniteSetTheorems

-------------------------------------------------------------------------------
(* Sequences without repetition, in the order of another *)

Once(q) == \A i, k \in 1..Len(q) : q[i] = q[k] => i = k

Ordered(w, q) == \A i, k \in 1..Len(q) : i < k => Before(w, q[i], q[k])

Within(w, q) == \A i \in 1..Len(q) : Contains(w, q[i])

\* What Append does: to what a sequence holds, and to the order of any other.
LEMMA AppendMail ==
  ASSUME NEW q \in Seq(Msgs), NEW m \in Msgs
  PROVE  /\ Append(q, m) \in Seq(Msgs)
         /\ \A x : Contains(Append(q, m), x) <=> Contains(q, x) \/ x = m
         /\ Once(q) /\ ~Contains(q, m) => Once(Append(q, m))
         /\ \A a, b : Before(q, a, b) => Before(Append(q, m), a, b)
         /\ \A a : Contains(q, a) => Before(Append(q, m), a, m)
         /\ Last(Append(q, m)) = m
<1>1. Len(Append(q, m)) = Len(q) + 1 /\ Len(q) \in Nat
      /\ \A i \in 1..Len(q) : Append(q, m)[i] = q[i]
      /\ Append(q, m)[Len(q) + 1] = m
      /\ Append(q, m) \in Seq(Msgs)
  BY AppendProperties
<1>2. \A x : Contains(Append(q, m), x) <=> Contains(q, x) \/ x = m
  <2>1. ASSUME NEW x, NEW i \in 1..(Len(q) + 1), Append(q, m)[i] = x, ~Contains(q, x)
        PROVE  x = m
    BY <1>1, <2>1 DEF Contains
  <2>2. \A x : Contains(q, x) => Contains(Append(q, m), x)
    BY <1>1 DEF Contains
  <2>3. Contains(Append(q, m), m)
    BY <1>1 DEF Contains
  <2> QED BY <1>1, <2>1, <2>2, <2>3 DEF Contains
<1>3. Once(q) /\ ~Contains(q, m) => Once(Append(q, m))
  BY <1>1 DEF Once, Contains
<1>4. ASSUME NEW a, NEW b, Before(q, a, b) PROVE Before(Append(q, m), a, b)
  BY <1>1, <1>4 DEF Before
<1>5. ASSUME NEW a, Contains(q, a) PROVE Before(Append(q, m), a, m)
  <2>1. PICK i \in 1..Len(q) : q[i] = a
    BY <1>5 DEF Contains
  <2>2. i \in 1..Len(Append(q, m)) /\ Len(q) + 1 \in 1..Len(Append(q, m)) /\ i < Len(q) + 1
    BY <1>1
  <2> QED BY <1>1, <2>1, <2>2 DEF Before
<1> QED BY <1>1, <1>2, <1>3, <1>4, <1>5 DEF Last

\* What taking the first message does.
LEMMA TailMail ==
  ASSUME NEW q \in Seq(Msgs), q # <<>>
  PROVE  /\ Head(q) \in Msgs /\ Tail(q) \in Seq(Msgs)
         /\ \A x : Contains(q, x) <=> Contains(Tail(q), x) \/ x = Head(q)
         /\ Once(q) => Once(Tail(q)) /\ ~Contains(Tail(q), Head(q))
         /\ \A w : Ordered(w, q) => Ordered(w, Tail(q))
<1>1. Len(q) \in Nat \ {0} /\ Tail(q) \in Seq(Msgs) /\ Len(Tail(q)) = Len(q) - 1
      /\ Head(q) = q[1] /\ Head(q) \in Msgs /\ \A i \in 1..(Len(q) - 1) : Tail(q)[i] = q[i + 1]
  OBVIOUS
<1>2. \A x : Contains(q, x) <=> Contains(Tail(q), x) \/ x = Head(q)
  <2>1. ASSUME NEW x, NEW i \in 1..Len(q), q[i] = x, x # Head(q) PROVE Contains(Tail(q), x)
    <3>1. i - 1 \in 1..(Len(q) - 1) /\ Tail(q)[i - 1] = x
      BY <1>1, <2>1
    <3> QED BY <1>1, <3>1 DEF Contains
  <2>2. \A x : Contains(Tail(q), x) => Contains(q, x)
    BY <1>1 DEF Contains
  <2>3. Contains(q, Head(q))
    BY <1>1 DEF Contains
  <2> QED BY <2>1, <2>2, <2>3 DEF Contains
<1>3. ASSUME Once(q) PROVE Once(Tail(q)) /\ ~Contains(Tail(q), Head(q))
  BY <1>1, <1>3 DEF Once, Contains
<1>4. ASSUME NEW w, Ordered(w, q) PROVE Ordered(w, Tail(q))
  BY <1>1, <1>4 DEF Ordered
<1> QED BY <1>1, <1>2, <1>3, <1>4

\* A channel or queue to which the newest message was appended is still in order.
LEMMA OrderKept ==
  ASSUME NEW w \in Seq(Msgs), NEW q \in Seq(Msgs), NEW m \in Msgs,
         Ordered(w, q), \A x \in Msgs : Contains(q, x) => Contains(w, x)
  PROVE  Ordered(Append(w, m), q) /\ Ordered(Append(w, m), Append(q, m))
<1>1. Len(Append(q, m)) = Len(q) + 1 /\ Len(q) \in Nat
      /\ \A i \in 1..Len(q) : Append(q, m)[i] = q[i] /\ q[i] \in Msgs
      /\ Append(q, m)[Len(q) + 1] = m
  BY AppendProperties
<1>2. Ordered(Append(w, m), q)
  BY AppendMail DEF Ordered
<1>3. ASSUME NEW i \in 1..Len(Append(q, m)), NEW k \in 1..Len(Append(q, m)), i < k
      PROVE  Before(Append(w, m), Append(q, m)[i], Append(q, m)[k])
  <2>1. i \in 1..Len(q)
    BY <1>1, <1>3
  <2>2. CASE k \in 1..Len(q)
    BY <1>1, <1>2, <1>3, <2>1, <2>2 DEF Ordered
  <2>3. CASE k = Len(q) + 1
    <3>1. Contains(q, q[i])
      BY <2>1 DEF Contains
    <3> QED BY <1>1, <2>1, <2>3, <3>1, AppendMail
  <2> QED BY <1>1, <2>2, <2>3
<1> QED BY <1>2, <1>3 DEF Ordered

\* A sequence without repetition has one copy of what it holds.
LEMMA OneCopy ==
  ASSUME NEW q \in Seq(Msgs), Once(q), NEW m
  PROVE  Copies(q, m) = IF Contains(q, m) THEN 1 ELSE 0
<1> DEFINE P == {i \in 1..Len(q) : q[i] = m}
<1>1. CASE Contains(q, m)
  <2>1. PICK i \in 1..Len(q) : q[i] = m
    BY <1>1 DEF Contains
  <2>2. P = {i}
    BY <2>1 DEF Once
  <2> QED BY <1>1, <2>2, FS_Singleton DEF Copies
<1>2. CASE ~Contains(q, m)
  <2>1. P = {}
    BY <1>2 DEF Contains
  <2> QED BY <1>2, <2>1, FS_EmptySet DEF Copies
<1> QED BY <1>1, <1>2

-------------------------------------------------------------------------------
(* Where the messages are *)

Held(n, m, s) == s \in Serving(n) /\ Contains(chan[s].buf, m)

\* Type invariant of the observers.
MailTyped ==
  /\ sent \in [Nodes -> Seq(Msgs)]
  /\ got \in [Nodes -> Seq(Msgs)]
  /\ lost \in [Nodes -> SUBSET Msgs]

MailSingle ==
  /\ \A n \in Nodes : Once(sent[n]) /\ Once(got[n]) /\ Once(queue[n])
  /\ \A s \in Streams : Once(chan[s].buf)

\* What was sent is somewhere, and nowhere is what was not sent.
MailPlaced ==
  \A n \in Nodes, m \in Msgs :
    Contains(sent[n], m) <=>
      \/ Contains(got[n], m)
      \/ Contains(queue[n], m)
      \/ m \in lost[n]
      \/ \E s \in Streams : Held(n, m, s)

\* No message is in two places.
MailApart ==
  \A n \in Nodes, m \in Msgs :
    /\ ~(Contains(got[n], m) /\ Contains(queue[n], m))
    /\ ~(Contains(got[n], m) /\ m \in lost[n])
    /\ ~(Contains(queue[n], m) /\ m \in lost[n])
    /\ \A s \in Streams : Held(n, m, s) =>
         /\ ~Contains(got[n], m) /\ ~Contains(queue[n], m) /\ m \notin lost[n]
         /\ \A r \in Streams : Held(n, m, r) => r = s

MailOrdered ==
  \A n \in Nodes :
    /\ Ordered(sent[n], queue[n])
    /\ \A s \in Streams : s \in Serving(n) => Ordered(sent[n], chan[s].buf)

MailInv == HubInv /\ MailTyped /\ MailSingle /\ MailPlaced /\ MailApart /\ MailOrdered

-------------------------------------------------------------------------------
(* The steps *)

\* A message that is sent goes to the end of the channel of the node's stream, or to
\* the end of its queue; the oldest of a full queue is lost.
LEMMA SendMail ==
  ASSUME HubInv, NEW n \in Nodes, NEW m \in Msgs, send(n, m)
  PROVE  /\ \A k \in Nodes, s \in Streams : s \in Serving(k)' <=> s \in Serving(k)
         /\ \A k \in Nodes : k # n => queue'[k] = queue[k]
         /\ HasRoom(n) =>
              /\ sub[n] \in Streams /\ sub[n] \in Serving(n)
              /\ queue' = queue
              /\ \A s \in Streams : chan'[s].buf = IF s = sub[n] THEN Append(chan[s].buf, m)
                                                   ELSE chan[s].buf
         /\ ~HasRoom(n) =>
              /\ chan' = chan
              /\ queue'[n] = Queued(queue[n], m)
<1>1. \A s \in Streams : chan[s] \in ChanRecords
  BY DEF HubInv, HubTypeOK, ChanRecords
<1>2. queue \in [Nodes -> Seq(Msgs)]
  BY DEF HubInv, HubTypeOK
<1>3. ASSUME HasRoom(n)
      PROVE  /\ sub[n] \in Streams /\ sub[n] \in Serving(n)
             /\ queue' = queue
             /\ \A s \in Streams : /\ chan'[s].st = chan[s].st /\ chan'[s].node = chan[s].node
                                   /\ chan'[s].buf = IF s = sub[n] THEN Append(chan[s].buf, m)
                                                     ELSE chan[s].buf
  <2>1. sub[n] \in Streams /\ sub[n] \in Serving(n)
    BY <1>3 DEF HubInv, HubTypeOK, SubscriberIsLive, HasRoom, Serving
  <2>2. queue' = queue /\ chan' = [chan EXCEPT ![sub[n]] =
                                     [chan[sub[n]] EXCEPT !.buf = Append(chan[sub[n]].buf, m)]]
    BY <1>3 DEF send
  <2>3. ASSUME NEW r \in ChanRecords, NEW q
        PROVE  LET e == [r EXCEPT !.buf = q] IN e.st = r.st /\ e.node = r.node /\ e.buf = q
    BY DEF ChanRecords
  <2>4. ASSUME NEW s \in Streams
        PROVE  /\ chan'[s].st = chan[s].st /\ chan'[s].node = chan[s].node
               /\ chan'[s].buf = IF s = sub[n] THEN Append(chan[s].buf, m) ELSE chan[s].buf
    <3>1. CASE s = sub[n]
      <4>1. chan'[s] = [chan[s] EXCEPT !.buf = Append(chan[s].buf, m)]
        BY <2>2, <3>1 DEF HubInv, HubTypeOK
      <4> QED BY <1>1, <2>3, <3>1, <4>1
    <3>2. CASE s # sub[n]
      BY <2>2, <3>2 DEF HubInv, HubTypeOK
    <3> QED BY <3>1, <3>2
  <2> QED BY <2>1, <2>2, <2>4
<1>4. ASSUME ~HasRoom(n)
      PROVE  chan' = chan /\ queue'[n] = Queued(queue[n], m)
             /\ \A k \in Nodes : k # n => queue'[k] = queue[k]
  BY <1>2, <1>4 DEF send
<1>5. \A k \in Nodes, s \in Streams : s \in Serving(k)' <=> s \in Serving(k)
  BY <1>3, <1>4 DEF Serving
<1> QED BY <1>3, <1>4, <1>5

\* What MCSend does to where the messages are.
LEMMA SendMoves ==
  ASSUME MailInv, NEW n \in Nodes, NEW m \in Msgs, MCSend(n, m)
  PROVE  /\ \A k \in Nodes, x \in Msgs :
              Contains(sent'[k], x) <=> Contains(sent[k], x) \/ (k = n /\ x = m)
         /\ got' = got
         /\ MailTyped'
         /\ MailSingle'
         /\ \/ /\ queue' = queue /\ lost' = lost
               /\ \A k \in Nodes, x \in Msgs, s \in Streams :
                    Held(k, x, s)' <=> Held(k, x, s) \/ (k = n /\ x = m /\ s = sub[n])
               /\ sub[n] \in Streams
            \/ /\ \A k \in Nodes, x \in Msgs, s \in Streams : Held(k, x, s)' <=> Held(k, x, s)
               /\ \E gone \in SUBSET Msgs :
                    /\ \A x \in gone : Contains(queue[n], x)
                    /\ \A k \in Nodes, x \in Msgs :
                         /\ x \in lost'[k] <=> x \in lost[k] \/ (k = n /\ x \in gone)
                         /\ Contains(queue'[k], x) <=>
                              \/ Contains(queue[k], x) /\ ~(k = n /\ x \in gone)
                              \/ k = n /\ x = m
<1>1. /\ ~Contains(sent[n], m)
      /\ send(n, m)
      /\ sent' = [sent EXCEPT ![n] = Append(sent[n], m)]
      /\ lost' = [lost EXCEPT ![n] =
                    IF ~HasRoom(n) /\ Len(queue[n]) = MaxQueue THEN lost[n] \cup {Head(queue[n])}
                    ELSE lost[n]]
      /\ got' = got
  BY DEF MCSend
<1>2. HubInv /\ HubTypeOK /\ MailTyped /\ MailSingle /\ MailPlaced
  BY DEF MailInv, HubInv
<1>3. /\ sent[n] \in Seq(Msgs) /\ queue[n] \in Seq(Msgs) /\ Len(queue[n]) <= MaxQueue
      /\ Len(queue[n]) \in Nat /\ MaxQueue \in Nat \ {0}
      /\ Once(sent[n]) /\ Once(queue[n])
      /\ \A s \in Streams : chan[s].buf \in Seq(Msgs) /\ Once(chan[s].buf)
  BY <1>2, HubAssumption DEF HubTypeOK, MailTyped, MailSingle
<1>4. /\ ~Contains(queue[n], m)
      /\ \A s \in Streams : s \in Serving(n) => ~Contains(chan[s].buf, m)
  BY <1>1, <1>2 DEF MailPlaced, Held
<1>5. \A k \in Nodes : sent'[k] = IF k = n THEN Append(sent[n], m) ELSE sent[k]
  BY <1>1, <1>2 DEF MailTyped
<1>6. \A k \in Nodes, x \in Msgs :
        Contains(sent'[k], x) <=> Contains(sent[k], x) \/ (k = n /\ x = m)
  BY <1>3, <1>5, AppendMail
<1>7. sent' \in [Nodes -> Seq(Msgs)] /\ \A k \in Nodes : Once(sent'[k])
  <2>1. Append(sent[n], m) \in Seq(Msgs) /\ Once(Append(sent[n], m))
    BY <1>1, <1>3, AppendMail
  <2> QED BY <1>1, <1>2, <1>5, <2>1 DEF MailTyped, MailSingle
<1>8. MailTyped'
  <2>1. Len(queue[n]) = MaxQueue => Head(queue[n]) \in Msgs
    BY <1>3
  <2> QED BY <1>1, <1>2, <1>7, <2>1 DEF MailTyped
<1>9. CASE HasRoom(n)
  <2>1. /\ \A k \in Nodes, s \in Streams : s \in Serving(k)' <=> s \in Serving(k)
        /\ sub[n] \in Streams /\ sub[n] \in Serving(n)
        /\ queue' = queue
        /\ \A s \in Streams : chan'[s].buf = IF s = sub[n] THEN Append(chan[s].buf, m)
                                             ELSE chan[s].buf
    BY <1>1, <1>2, <1>9, SendMail
  <2>2. lost' = lost
    BY <1>1, <1>2, <1>9 DEF MailTyped
  <2>3. \A x : Contains(chan'[sub[n]].buf, x) <=> Contains(chan[sub[n]].buf, x) \/ x = m
    BY <1>3, <2>1, AppendMail
  <2>4. ASSUME NEW k \in Nodes, NEW x \in Msgs, NEW s \in Streams
        PROVE  Held(k, x, s)' <=> Held(k, x, s) \/ (k = n /\ x = m /\ s = sub[n])
    <3>1. Held(k, x, s)' <=> s \in Serving(k) /\ Contains(chan'[s].buf, x)
      BY <2>1 DEF Held
    <3>2. s = sub[n] /\ s \in Serving(k) => k = n
      BY <2>1 DEF Serving
    <3> QED BY <2>1, <2>3, <3>1, <3>2 DEF Held
  <2>5. MailSingle'
    <3>1. \A s \in Streams : Once(chan'[s].buf)
      BY <1>3, <1>4, <2>1, AppendMail
    <3> QED BY <1>1, <1>2, <1>7, <2>1, <3>1 DEF MailSingle
  <2> QED BY <1>1, <1>6, <1>8, <2>1, <2>2, <2>4, <2>5
<1>10. CASE ~HasRoom(n)
  <2>1. chan' = chan /\ queue'[n] = Queued(queue[n], m) /\ \A k \in Nodes : k # n => queue'[k] = queue[k]
    BY <1>1, <1>2, <1>10, SendMail
  <2>2. \A k \in Nodes, x \in Msgs, s \in Streams : Held(k, x, s)' <=> Held(k, x, s)
    BY <2>1 DEF Held, Serving
  <2>3. CASE Len(queue[n]) < MaxQueue
    <3>1. queue'[n] = Append(queue[n], m)
      BY <2>1, <2>3 DEF Queued
    <3>2. lost' = lost
      BY <1>1, <1>2, <1>3, <2>3 DEF MailTyped
    <3>3. /\ \A k \in Nodes, x \in Msgs : Contains(queue'[k], x) <=> Contains(queue[k], x) \/ (k = n /\ x = m)
          /\ \A k \in Nodes : Once(queue'[k])
      <4> DEFINE q == queue[n]
      <4>1. q \in Seq(Msgs) /\ Once(q) /\ ~Contains(q, m)
        BY <1>3, <1>4
      <4> HIDE DEF q
      <4>2. Once(Append(q, m)) /\ \A x : Contains(Append(q, m), x) <=> Contains(q, x) \/ x = m
        BY <4>1, AppendMail
      <4>3. queue'[n] = Append(q, m) /\ \A x : Contains(q, x) <=> Contains(queue[n], x)
        BY <3>1 DEF q
      <4> QED BY <1>2, <2>1, <4>2, <4>3 DEF MailSingle
    <3>4. MailSingle'
      BY <1>1, <1>2, <1>7, <2>1, <3>3 DEF MailSingle
    <3>5. \E gone \in SUBSET Msgs :
            /\ \A x \in gone : Contains(queue[n], x)
            /\ \A k \in Nodes, x \in Msgs :
                 /\ x \in lost'[k] <=> x \in lost[k] \/ (k = n /\ x \in gone)
                 /\ Contains(queue'[k], x) <=>
                      \/ Contains(queue[k], x) /\ ~(k = n /\ x \in gone)
                      \/ k = n /\ x = m
      <4> WITNESS {} \in SUBSET Msgs
      <4> QED BY <3>2, <3>3
    <3> QED BY <1>1, <1>6, <1>8, <2>2, <3>4, <3>5
  <2>4. CASE ~(Len(queue[n]) < MaxQueue)
    <3>1. Len(queue[n]) = MaxQueue /\ queue[n] # <<>>
      BY <1>3, <2>4
    <3>2. queue'[n] = Append(Tail(queue[n]), m)
      BY <2>1, <2>4 DEF Queued
    <3>3. /\ Head(queue[n]) \in Msgs /\ Tail(queue[n]) \in Seq(Msgs)
          /\ \A x : Contains(queue[n], x) <=> Contains(Tail(queue[n]), x) \/ x = Head(queue[n])
          /\ Once(Tail(queue[n])) /\ ~Contains(Tail(queue[n]), Head(queue[n]))
      BY <1>3, <3>1, TailMail
    <3>4. /\ \A x : Contains(queue'[n], x) <=> Contains(Tail(queue[n]), x) \/ x = m
          /\ Once(queue'[n])
      <4> DEFINE q == Tail(queue[n])
      <4>1. q \in Seq(Msgs) /\ Once(q) /\ ~Contains(q, m)
        BY <1>4, <3>3
      <4>2. queue'[n] = Append(q, m)
        BY <3>2
      <4> HIDE DEF q
      <4>3. Once(Append(q, m)) /\ \A x : Contains(Append(q, m), x) <=> Contains(q, x) \/ x = m
        BY <4>1, AppendMail
      <4>4. Once(queue'[n]) /\ \A x : Contains(queue'[n], x) <=> Contains(q, x) \/ x = m
        BY <4>2, <4>3
      <4> QED BY <4>4 DEF q
    <3>5. \A k \in Nodes : lost'[k] = IF k = n THEN lost[n] \cup {Head(queue[n])} ELSE lost[k]
      BY <1>1, <1>2, <1>10, <3>1 DEF MailTyped
    <3>6. MailSingle'
      BY <1>1, <1>2, <1>7, <2>1, <3>4 DEF MailSingle
    <3> DEFINE gone == {Head(queue[n])}
    <3>7. gone \in SUBSET Msgs /\ \A x \in gone : Contains(queue[n], x)
      BY <3>3
    <3>8. ASSUME NEW k \in Nodes, NEW x \in Msgs
          PROVE  /\ x \in lost'[k] <=> x \in lost[k] \/ (k = n /\ x \in gone)
                 /\ Contains(queue'[k], x) <=>
                      \/ Contains(queue[k], x) /\ ~(k = n /\ x \in gone)
                      \/ k = n /\ x = m
      BY <2>1, <3>3, <3>4, <3>5
    <3> HIDE DEF gone
    <3> QED BY <1>1, <1>6, <1>8, <2>2, <3>6, <3>7, <3>8
  <2> QED BY <2>3, <2>4
<1> QED BY <1>9, <1>10

LEMMA SendKeeps ==
  ASSUME MailInv, NEW n \in Nodes, NEW m \in Msgs, MCSend(n, m)
  PROVE  MailInv'
<1>1. send(n, m) /\ ~Contains(sent[n], m) /\ sent' = [sent EXCEPT ![n] = Append(sent[n], m)]
  BY DEF MCSend
<1>2. HubInv'
  <2>1. m.job \in JobIds /\ HubInv
    BY DEF Msgs, MailInv
  <2>2. HubTypeOK'
    BY <1>1, <2>1, HubTyped DEF HubInv
  <2>3. SubscriberIsLive'
    BY <1>1, <2>1, SendReaders
  <2> QED BY <2>2, <2>3 DEF HubInv
<1>3. /\ \A k \in Nodes, x \in Msgs :
           Contains(sent'[k], x) <=> Contains(sent[k], x) \/ (k = n /\ x = m)
      /\ got' = got /\ MailTyped' /\ MailSingle'
  BY SendMoves
<1>4. MailPlaced /\ MailApart
  BY DEF MailInv
<1>5. ~Contains(got[n], m) /\ ~Contains(queue[n], m) /\ m \notin lost[n]
      /\ \A s \in Streams : ~Held(n, m, s)
  BY <1>1, <1>4 DEF MailPlaced
<1>6. MailPlaced' /\ MailApart'
  <2>1. CASE /\ queue' = queue /\ lost' = lost
             /\ \A k \in Nodes, x \in Msgs, s \in Streams :
                  Held(k, x, s)' <=> Held(k, x, s) \/ (k = n /\ x = m /\ s = sub[n])
             /\ sub[n] \in Streams
    <3>1. MailPlaced'
      BY <1>3, <1>4, <2>1 DEF MailPlaced
    <3>2. MailApart'
      BY <1>3, <1>4, <1>5, <2>1 DEF MailApart
    <3> QED BY <3>1, <3>2
  <2>2. ASSUME \A k \in Nodes, x \in Msgs, s \in Streams : Held(k, x, s)' <=> Held(k, x, s),
               NEW gone \in SUBSET Msgs,
               \A x \in gone : Contains(queue[n], x),
               \A k \in Nodes, x \in Msgs :
                 /\ x \in lost'[k] <=> x \in lost[k] \/ (k = n /\ x \in gone)
                 /\ Contains(queue'[k], x) <=>
                      \/ Contains(queue[k], x) /\ ~(k = n /\ x \in gone)
                      \/ k = n /\ x = m
        PROVE  MailPlaced' /\ MailApart'
    <3>1. MailPlaced'
      BY <1>3, <1>4, <1>5, <2>2 DEF MailPlaced
    <3>2. MailApart'
      BY <1>3, <1>4, <1>5, <2>2 DEF MailApart
    <3> QED BY <3>1, <3>2
  <2>3. \/ /\ queue' = queue /\ lost' = lost
           /\ \A k \in Nodes, x \in Msgs, s \in Streams :
                Held(k, x, s)' <=> Held(k, x, s) \/ (k = n /\ x = m /\ s = sub[n])
           /\ sub[n] \in Streams
        \/ /\ \A k \in Nodes, x \in Msgs, s \in Streams : Held(k, x, s)' <=> Held(k, x, s)
           /\ \E gone \in SUBSET Msgs :
                /\ \A x \in gone : Contains(queue[n], x)
                /\ \A k \in Nodes, x \in Msgs :
                     /\ x \in lost'[k] <=> x \in lost[k] \/ (k = n /\ x \in gone)
                     /\ Contains(queue'[k], x) <=>
                          \/ Contains(queue[k], x) /\ ~(k = n /\ x \in gone)
                          \/ k = n /\ x = m
    BY SendMoves
  <2> QED BY <2>1, <2>2, <2>3
<1>7. MailOrdered'
  <2>1. /\ \A k \in Nodes : sent[k] \in Seq(Msgs) /\ queue[k] \in Seq(Msgs) /\ Len(queue[k]) <= MaxQueue
        /\ \A k \in Nodes : Len(queue[k]) \in Nat /\ MaxQueue \in Nat \ {0}
        /\ \A s \in Streams : chan[s].buf \in Seq(Msgs)
        /\ \A k \in Nodes : sent'[k] = IF k = n THEN Append(sent[n], m) ELSE sent[k]
    BY <1>1, HubAssumption DEF MailInv, MailTyped, HubInv, HubTypeOK
  <2>2. /\ \A x \in Msgs : Contains(queue[n], x) => Contains(sent[n], x)
        /\ \A s \in Streams : s \in Serving(n) =>
             \A x \in Msgs : Contains(chan[s].buf, x) => Contains(sent[n], x)
    BY <1>4 DEF MailPlaced, Held
  <2>3. MailOrdered /\ HubInv
    BY DEF MailInv
  <2>4. /\ \A k \in Nodes, s \in Streams : s \in Serving(k)' <=> s \in Serving(k)
        /\ \A k \in Nodes : k # n => queue'[k] = queue[k]
    BY <1>1, <2>3, SendMail
  <2>5. /\ Ordered(sent'[n], queue[n]) /\ Ordered(sent'[n], Append(queue[n], m))
        /\ \A s \in Streams : s \in Serving(n) =>
             Ordered(sent'[n], chan[s].buf) /\ Ordered(sent'[n], Append(chan[s].buf, m))
    BY <2>1, <2>2, <2>3, OrderKept DEF MailOrdered
  <2>6. Ordered(sent'[n], queue'[n])
    <3>1. CASE HasRoom(n)
      BY <1>1, <2>3, <2>5, <3>1, SendMail
    <3>2. CASE ~HasRoom(n)
      <4>1. queue'[n] = Queued(queue[n], m)
        BY <1>1, <2>3, <3>2, SendMail
      <4>2. CASE Len(queue[n]) < MaxQueue
        BY <2>5, <4>1, <4>2 DEF Queued
      <4>3. CASE ~(Len(queue[n]) < MaxQueue)
        <5>1. queue[n] # <<>>
          BY <2>1, <4>3
        <5>2. Ordered(sent[n], Tail(queue[n])) /\ Tail(queue[n]) \in Seq(Msgs)
              /\ \A x \in Msgs : Contains(Tail(queue[n]), x) => Contains(sent[n], x)
          BY <2>1, <2>2, <2>3, <5>1, TailMail DEF MailOrdered
        <5>3. Ordered(Append(sent[n], m), Append(Tail(queue[n]), m))
          BY <2>1, <5>2, OrderKept
        <5> QED BY <2>1, <4>1, <4>3, <5>3 DEF Queued
      <4> QED BY <4>2, <4>3
    <3> QED BY <3>1, <3>2
  <2>7. ASSUME NEW s \in Streams, s \in Serving(n)' PROVE Ordered(sent'[n], chan'[s].buf)
    <3>1. chan'[s].buf = chan[s].buf \/ chan'[s].buf = Append(chan[s].buf, m)
      BY <1>1, <2>3, SendMail
    <3> QED BY <2>4, <2>5, <2>7, <3>1
  <2>8. ASSUME NEW k \in Nodes, k # n
        PROVE  /\ Ordered(sent'[k], queue'[k])
               /\ \A s \in Streams : s \in Serving(k)' => Ordered(sent'[k], chan'[s].buf)
    <3>1. ASSUME NEW s \in Streams, s \in Serving(k) PROVE chan'[s].buf = chan[s].buf
      <4>1. s # sub[n] \/ ~HasRoom(n)
        BY <2>3, <2>8, <3>1 DEF Serving, HasRoom, HubInv, SubscriberIsLive
      <4> QED BY <1>1, <2>3, <4>1, SendMail
    <3> QED BY <2>1, <2>3, <2>4, <2>8, <3>1 DEF MailOrdered
  <2> QED BY <2>6, <2>7, <2>8 DEF MailOrdered
<1> QED BY <1>2, <1>3, <1>6, <1>7 DEF MailInv

\* A node that subscribes has its queue moved into the channel of the new stream.
LEMMA SubscribeKeeps ==
  ASSUME MailInv, NEW s \in Streams, NEW n \in Nodes, MCSubscribe(s, n)
  PROVE  MailInv'
<1>1. Subscribe(s, n) /\ UNCHANGED <<sent, got, lost>>
  BY DEF MCSubscribe
<1>2. HubInv /\ MailTyped /\ MailSingle /\ MailPlaced /\ MailApart /\ MailOrdered
  BY DEF MailInv
<1>3. HubInv'
  BY <1>1, <1>2, SubscribeTyped, SubscribeReaders DEF HubInv
<1>4. \A r \in Streams : chan[r] \in ChanRecords
  BY <1>2 DEF HubInv, HubTypeOK, ChanRecords
<1>5. chan[s].st = "unused" /\ queue' = [queue EXCEPT ![n] = <<>>] /\ queue \in [Nodes -> Seq(Msgs)]
  BY <1>1, <1>2 DEF Subscribe, HubInv, HubTypeOK
<1>6. chan'[s].st = "serving" /\ chan'[s].node = n /\ chan'[s].buf = queue[n]
  BY <1>1 DEF Subscribe
<1>7. ASSUME NEW r \in Streams, r # s
      PROVE  chan'[r].st = chan[r].st /\ chan'[r].node = chan[r].node /\ chan'[r].buf = chan[r].buf
  BY <1>1, <1>4, <1>7 DEF Subscribe, ChanRecords
<1>8. ASSUME NEW k \in Nodes, NEW r \in Streams
      PROVE  r \in Serving(k)' <=> IF r = s THEN k = n ELSE r \in Serving(k)
  BY <1>6, <1>7 DEF Serving
<1>9. \A k \in Nodes : s \notin Serving(k)
  BY <1>5 DEF Serving
<1>10. \A k \in Nodes, x \in Msgs, r \in Streams :
         Held(k, x, r)' <=> IF r = s THEN k = n /\ Contains(queue[n], x) ELSE Held(k, x, r)
  BY <1>6, <1>7, <1>8 DEF Held
<1>11. ASSUME NEW e \in {<<>>}
       PROVE  Once(e) /\ (\A w : Ordered(w, e)) /\ \A x : ~Contains(e, x)
  BY DEF Once, Ordered, Contains
<1>12. \A k \in Nodes, x \in Msgs : Contains(queue'[k], x) <=> Contains(queue[k], x) /\ k # n
  BY <1>5, <1>11
<1>13. MailTyped'
  BY <1>1, <1>2 DEF MailTyped
<1>14. MailSingle'
  <2>1. \A k \in Nodes : Once(queue'[k])
    BY <1>2, <1>5, <1>11 DEF MailSingle
  <2>2. \A r \in Streams : Once(chan'[r].buf)
    BY <1>2, <1>6, <1>7 DEF MailSingle
  <2> QED BY <1>1, <1>2, <2>1, <2>2 DEF MailSingle
<1>15. \A k \in Nodes, x \in Msgs : ~Held(k, x, s)
  BY <1>9 DEF Held
<1>16. MailPlaced'
  BY <1>1, <1>2, <1>10, <1>12, <1>15 DEF MailPlaced
<1>17. MailApart'
  BY <1>1, <1>2, <1>10, <1>12, <1>15 DEF MailApart
<1>18. MailOrdered'
  <2>1. \A k \in Nodes : Ordered(sent'[k], queue'[k])
    BY <1>1, <1>2, <1>5, <1>11 DEF MailOrdered
  <2>2. ASSUME NEW k \in Nodes, NEW r \in Streams, r \in Serving(k)'
        PROVE  Ordered(sent'[k], chan'[r].buf)
    BY <1>1, <1>2, <1>6, <1>7, <1>8, <2>2 DEF MailOrdered
  <2> QED BY <2>1, <2>2 DEF MailOrdered
<1> QED BY <1>3, <1>13, <1>14, <1>16, <1>17, <1>18 DEF MailInv

\* The handler of a stream hands over the first message of its channel.
LEMMA DeliverKeeps ==
  ASSUME MailInv, NEW s \in Streams, MCDeliver(s)
  PROVE  MailInv'
<1> DEFINE q == chan[s].buf
           n == chan[s].node
<1>1. /\ Deliver(s)
      /\ got' = [got EXCEPT ![n] = Append(got[n], Head(q))]
      /\ UNCHANGED <<sent, lost>>
  BY DEF MCDeliver
<1>2. HubInv /\ MailTyped /\ MailSingle /\ MailPlaced /\ MailApart /\ MailOrdered
  BY DEF MailInv
<1>3. HubInv'
  BY <1>1, <1>2, DeliverTyped, DeliverReaders DEF HubInv
<1>4. /\ chan[s] \in ChanRecords /\ chan[s].st = "serving"
      /\ q \in Seq(Msgs) /\ q # <<>> /\ Once(q)
      /\ queue' = queue
  BY <1>1, <1>2 DEF Deliver, HubInv, HubTypeOK, ChanRecords, MailSingle
<1>5. /\ chan'[s].st = chan[s].st /\ chan'[s].node = chan[s].node /\ chan'[s].buf = Tail(q)
      /\ \A r \in Streams : r # s => chan'[r] = chan[r]
  BY <1>1, <1>2, <1>4 DEF Deliver, HubInv, HubTypeOK, ChanRecords
<1>6. \A k \in Nodes, r \in Streams : r \in Serving(k)' <=> r \in Serving(k)
  BY <1>5 DEF Serving
<1>7. \A k \in Nodes : s \in Serving(k) <=> k = n
  BY <1>4 DEF Serving
<1> HIDE DEF q, n
<1>8. /\ Head(q) \in Msgs /\ Tail(q) \in Seq(Msgs)
      /\ \A x : Contains(q, x) <=> Contains(Tail(q), x) \/ x = Head(q)
      /\ Once(Tail(q)) /\ ~Contains(Tail(q), Head(q))
      /\ \A w : Ordered(w, q) => Ordered(w, Tail(q))
  BY <1>4, TailMail
<1>9. \A k \in Nodes, x \in Msgs, r \in Streams :
        Held(k, x, r)' <=> Held(k, x, r) /\ ~(r = s /\ x = Head(q))
  BY <1>5, <1>6, <1>8 DEF Held, q
<1>10. \A k \in Nodes : Held(k, Head(q), s) <=> k = n
  BY <1>7, <1>8 DEF Held, q
<1>11. \A k \in Nodes : got'[k] = IF k = n THEN Append(got[n], Head(q)) ELSE got[k]
  BY <1>1, <1>2 DEF MailTyped
<1>12. \A k \in Nodes : got[k] \in Seq(Msgs) /\ Once(got[k])
  BY <1>2 DEF MailTyped, MailSingle
<1>13. \A k \in Nodes : k = n => ~Contains(got[k], Head(q))
  BY <1>2, <1>8, <1>10 DEF MailApart
<1>14. \A k \in Nodes : /\ got'[k] \in Seq(Msgs) /\ Once(got'[k])
                        /\ \A x : Contains(got'[k], x) <=> Contains(got[k], x) \/ (k = n /\ x = Head(q))
  <2>1. ASSUME NEW k \in Nodes, k = n
        PROVE  /\ got'[k] \in Seq(Msgs) /\ Once(got'[k])
               /\ \A x : Contains(got'[k], x) <=> Contains(got[k], x) \/ x = Head(q)
    <3> DEFINE h == Head(q)
               g == got[k]
    <3>1. h \in Msgs /\ g \in Seq(Msgs) /\ Once(g) /\ ~Contains(g, h) /\ got'[k] = Append(g, h)
      BY <1>8, <1>11, <1>12, <1>13, <2>1
    <3> HIDE DEF h, g
    <3>2. /\ Append(g, h) \in Seq(Msgs) /\ Once(Append(g, h))
          /\ \A x : Contains(Append(g, h), x) <=> Contains(g, x) \/ x = h
      BY <3>1, AppendMail
    <3>3. /\ got'[k] \in Seq(Msgs) /\ Once(got'[k])
          /\ \A x : Contains(got'[k], x) <=> Contains(g, x) \/ x = h
      BY <3>1, <3>2
    <3> QED BY <3>3 DEF g, h
  <2>2. \A k \in Nodes : k # n => got'[k] = got[k]
    BY <1>11
  <2> QED BY <1>12, <2>1, <2>2
<1>15. MailTyped'
  BY <1>1, <1>2, <1>14 DEF MailTyped
<1>16. MailSingle'
  <2>1. \A r \in Streams : Once(chan'[r].buf)
    BY <1>2, <1>5, <1>8 DEF MailSingle
  <2> QED BY <1>1, <1>2, <1>4, <1>14, <2>1 DEF MailSingle
<1>17. MailPlaced'
  <2>1. ASSUME NEW k \in Nodes, NEW x \in Msgs
        PROVE  (\E r \in Streams : Held(k, x, r)) <=>
                 (\E r \in Streams : Held(k, x, r)') \/ (k = n /\ x = Head(q))
    BY <1>9, <1>10
  <2>2. \A k \in Nodes, x \in Msgs :
          Contains(got'[k], x) <=> Contains(got[k], x) \/ (k = n /\ x = Head(q))
    BY <1>14
  <2> QED BY <1>1, <1>2, <1>4, <2>1, <2>2 DEF MailPlaced
<1>18. MailApart'
  <2>1. \A k \in Nodes, x \in Msgs :
          Contains(got'[k], x) <=> Contains(got[k], x) \/ (k = n /\ x = Head(q))
    BY <1>14
  <2> QED BY <1>1, <1>2, <1>4, <1>8, <1>9, <1>10, <2>1 DEF MailApart
<1>19. MailOrdered'
  <2>1. \A k \in Nodes : Ordered(sent'[k], queue'[k])
    BY <1>1, <1>2, <1>4 DEF MailOrdered
  <2>2. ASSUME NEW k \in Nodes, NEW r \in Streams, r \in Serving(k)'
        PROVE  Ordered(sent'[k], chan'[r].buf)
    <3>1. r \in Serving(k) /\ Ordered(sent[k], chan[r].buf)
      BY <1>2, <1>6, <2>2 DEF MailOrdered
    <3> QED BY <1>1, <1>5, <1>8, <3>1 DEF q
  <2> QED BY <2>1, <2>2 DEF MailOrdered
<1> QED BY <1>3, <1>15, <1>16, <1>17, <1>18, <1>19 DEF MailInv

\* A stream that ends takes what its channel holds with it.
LEMMA ReturnKeeps ==
  ASSUME MailInv, NEW s \in Streams, MCReturn(s)
  PROVE  MailInv'
<1> DEFINE q == chan[s].buf
           n == chan[s].node
<1>1. /\ Return(s)
      /\ lost' = [lost EXCEPT ![n] = lost[n] \cup ToSet(q)]
      /\ UNCHANGED <<sent, got>>
  BY DEF MCReturn
<1>2. HubInv /\ MailTyped /\ MailSingle /\ MailPlaced /\ MailApart /\ MailOrdered
  BY DEF MailInv
<1>3. HubInv'
  BY <1>1, <1>2, ReturnTyped, ReturnReaders DEF HubInv
<1>4. chan[s].st = "serving" /\ q \in Seq(Msgs) /\ queue' = queue
  BY <1>1, <1>2 DEF Return, HubInv, HubTypeOK
<1>5. /\ chan'[s].st = "ended" /\ chan'[s].buf = <<>>
      /\ \A r \in Streams : r # s => chan'[r] = chan[r]
  BY <1>1, <1>2 DEF Return, HubInv, HubTypeOK, Unused
<1>6. \A k \in Nodes, r \in Streams : r \in Serving(k)' <=> r \in Serving(k) /\ r # s
  BY <1>5 DEF Serving
<1>7. \A k \in Nodes : s \in Serving(k) <=> k = n
  BY <1>4 DEF Serving
<1> HIDE DEF n
<1>8. \A x : x \in ToSet(q) <=> Contains(q, x)
  BY <1>4 DEF ToSet, Contains
<1>9. ToSet(q) \subseteq Msgs
  BY <1>4 DEF ToSet
<1>10. \A k \in Nodes, x \in Msgs, r \in Streams : Held(k, x, r)' <=> Held(k, x, r) /\ r # s
  BY <1>5, <1>6 DEF Held
<1>11. \A k \in Nodes, x \in Msgs : Held(k, x, s) <=> k = n /\ x \in ToSet(q)
  BY <1>7, <1>8 DEF Held
<1>12. \A k \in Nodes, x \in Msgs : x \in lost'[k] <=> x \in lost[k] \/ (k = n /\ x \in ToSet(q))
  BY <1>1, <1>2 DEF MailTyped
<1> HIDE DEF q
<1>13. MailTyped'
  BY <1>1, <1>2, <1>9 DEF MailTyped
<1>14. MailSingle'
  <2>1. ASSUME NEW e \in {<<>>} PROVE Once(e)
    BY DEF Once
  <2>2. \A r \in Streams : Once(chan'[r].buf)
    BY <1>2, <1>5, <2>1 DEF MailSingle
  <2> QED BY <1>1, <1>2, <1>4, <2>2 DEF MailSingle
<1>15. MailPlaced'
  BY <1>1, <1>2, <1>4, <1>10, <1>11, <1>12 DEF MailPlaced
<1>16. MailApart'
  BY <1>1, <1>2, <1>4, <1>10, <1>11, <1>12 DEF MailApart
<1>17. MailOrdered'
  BY <1>1, <1>2, <1>4, <1>5, <1>6 DEF MailOrdered
<1> QED BY <1>3, <1>13, <1>14, <1>15, <1>16, <1>17 DEF MailInv

LEMMA MailInit == MCInit => MailInv
<1> SUFFICES ASSUME MCInit PROVE MailInv
  OBVIOUS
<1>1. HubInv
  BY HubInitInv DEF MCInit
<1>2. /\ queue = [n \in Nodes |-> <<>>] /\ sent = [n \in Nodes |-> <<>>]
      /\ got = [n \in Nodes |-> <<>>] /\ lost = [n \in Nodes |-> {}]
      /\ \A s \in Streams : chan[s].st = "unused" /\ chan[s].buf = <<>>
  BY DEF MCInit, HubInit, Unused
<1>3. ASSUME NEW e \in {<<>>}
      PROVE  e \in Seq(Msgs) /\ Once(e) /\ (\A w : Ordered(w, e)) /\ \A x : ~Contains(e, x)
  BY DEF Once, Ordered, Contains
<1>4. \A n \in Nodes, s \in Streams : s \notin Serving(n)
  BY <1>2 DEF Serving
<1>5. MailTyped
  BY <1>2, <1>3 DEF MailTyped
<1>6. MailSingle
  BY <1>2, <1>3 DEF MailSingle
<1>7. \A n \in Nodes : /\ \A x : ~Contains(sent[n], x) /\ ~Contains(got[n], x) /\ ~Contains(queue[n], x)
                       /\ lost[n] = {}
                       /\ \A m \in Msgs, s \in Streams : ~Held(n, m, s)
  BY <1>2, <1>3, <1>4 DEF Held
<1>8. MailPlaced /\ MailApart
  BY <1>7 DEF MailPlaced, MailApart
<1>9. MailOrdered
  BY <1>2, <1>3, <1>4 DEF MailOrdered
<1> QED BY <1>1, <1>5, <1>6, <1>8, <1>9 DEF MailInv

LEMMA MailNext == MailInv /\ [MCNext]_mcVars => MailInv'
<1> SUFFICES ASSUME MailInv, [MCNext]_mcVars PROVE MailInv'
  OBVIOUS
<1>1. ASSUME NEW n \in Nodes, NEW m \in MCMsgs, MCSend(n, m) PROVE MailInv'
  BY <1>1, SendKeeps, MCMsgsAssumption
<1>2. ASSUME NEW s \in Streams, NEW n \in Nodes, MCSubscribe(s, n) PROVE MailInv'
  BY <1>2, SubscribeKeeps
<1>3. ASSUME NEW s \in Streams, MCDeliver(s) \/ MCReturn(s) PROVE MailInv'
  BY <1>3, DeliverKeeps, ReturnKeeps
<1>4. CASE UNCHANGED mcVars
  <2>1. HubInv'
    BY <1>4, HubStep DEF mcVars, MailInv
  <2>2. MailTyped' /\ MailSingle'
    BY <1>4 DEF mcVars, hubVars, MailInv, MailTyped, MailSingle
  <2>3. \A n \in Nodes, s \in Streams : s \in Serving(n)' <=> s \in Serving(n)
    BY <1>4 DEF mcVars, hubVars, Serving
  <2>4. \A n \in Nodes, m \in Msgs, s \in Streams : Held(n, m, s)' <=> Held(n, m, s)
    BY <1>4, <2>3 DEF mcVars, hubVars, Held
  <2>5. MailPlaced' /\ MailApart'
    BY <1>4, <2>4 DEF mcVars, hubVars, MailInv, MailPlaced, MailApart
  <2>6. MailOrdered'
    BY <1>4, <2>3 DEF mcVars, hubVars, MailInv, MailOrdered
  <2> QED BY <2>1, <2>2, <2>5, <2>6 DEF MailInv
<1> QED BY <1>1, <1>2, <1>3, <1>4 DEF MCNext

LEMMA MailInvariant == MCSpec => []MailInv
BY MailInit, MailNext, PTL DEF MCSpec

-------------------------------------------------------------------------------
(* The properties of the mailbox *)

\* Counted, what the invariant says: one copy of each message that was sent.
LEMMA OnePlaceEach == MailInv => InOnePlace
<1> SUFFICES ASSUME MailInv, NEW n \in Nodes, NEW m \in MCMsgs
             PROVE  /\ \A s \in Serving(n) : Copies(chan[s].buf, m) <= 1
                    /\ Copies(got[n], m) + Copies(queue[n], m) + Cardinality(HeldIn(n, m))
                         + (IF m \in lost[n] THEN 1 ELSE 0)
                       = Copies(sent[n], m)
  BY DEF InOnePlace
<1>1. m \in Msgs
  BY MCMsgsAssumption
<1>2. /\ sent[n] \in Seq(Msgs) /\ got[n] \in Seq(Msgs) /\ queue[n] \in Seq(Msgs)
      /\ Once(sent[n]) /\ Once(got[n]) /\ Once(queue[n])
      /\ \A s \in Streams : chan[s].buf \in Seq(Msgs) /\ Once(chan[s].buf)
  BY DEF MailInv, MailTyped, MailSingle, HubInv, HubTypeOK
<1>3. \A s \in Serving(n) : Copies(chan[s].buf, m) <= 1
  <2>1. ASSUME NEW s \in Serving(n) PROVE Copies(chan[s].buf, m) \in {0, 1}
    BY <1>2, OneCopy DEF Serving
  <2> QED BY <2>1
<1>4. /\ Copies(got[n], m) = IF Contains(got[n], m) THEN 1 ELSE 0
      /\ Copies(queue[n], m) = IF Contains(queue[n], m) THEN 1 ELSE 0
      /\ Copies(sent[n], m) = IF Contains(sent[n], m) THEN 1 ELSE 0
  BY <1>2, OneCopy
<1>5. Cardinality(HeldIn(n, m)) = IF \E s \in Streams : Held(n, m, s) THEN 1 ELSE 0
  <2>1. HeldIn(n, m) = {s \in Streams : Held(n, m, s)}
    BY DEF HeldIn, Held, Serving
  <2>2. CASE \E s \in Streams : Held(n, m, s)
    <3>1. PICK s \in Streams : Held(n, m, s)
      BY <2>2
    <3>2. \A r \in Streams : Held(n, m, r) => r = s
      BY <1>1, <3>1 DEF MailInv, MailApart
    <3>3. HeldIn(n, m) = {s}
      BY <2>1, <3>1, <3>2
    <3> QED BY <2>2, <3>3, FS_Singleton
  <2>3. CASE ~\E s \in Streams : Held(n, m, s)
    <3>1. HeldIn(n, m) = {}
      BY <2>1, <2>3
    <3> QED BY <2>3, <3>1, FS_EmptySet
  <2> QED BY <2>2, <2>3
<1>6. /\ Contains(sent[n], m) <=>
           \/ Contains(got[n], m)
           \/ Contains(queue[n], m)
           \/ m \in lost[n]
           \/ \E s \in Streams : Held(n, m, s)
      /\ ~(Contains(got[n], m) /\ Contains(queue[n], m))
      /\ ~(Contains(got[n], m) /\ m \in lost[n])
      /\ ~(Contains(queue[n], m) /\ m \in lost[n])
      /\ (\E s \in Streams : Held(n, m, s)) =>
           ~Contains(got[n], m) /\ ~Contains(queue[n], m) /\ m \notin lost[n]
  BY <1>1 DEF MailInv, MailPlaced, MailApart
<1>7. Copies(got[n], m) + Copies(queue[n], m) + Cardinality(HeldIn(n, m))
        + (IF m \in lost[n] THEN 1 ELSE 0)
      = Copies(sent[n], m)
  BY <1>4, <1>5, <1>6
<1> QED BY <1>3, <1>7

\* A message handed to the hub is at every moment received, lost with its stream or by
\* overflow, in the queue, or once in one channel, whatever send, Subscribe and the
\* handlers that return have done: nothing is delivered twice or vanishes on the way.
THEOREM MailInOnePlace == MCSpec => []InOnePlace
BY MailInvariant, OnePlaceEach, PTL

\* A stream carries its messages in the order in which send was called, whether they
\* came from the queue that Subscribe moved or straight from send.
THEOREM MailInOrder == MCSpec => []StreamInOrder
<1>1. MailInv => StreamInOrder
  BY DEF MailInv, MailOrdered, StreamInOrder, Ordered, Serving
<1> QED BY <1>1, MailInvariant, PTL

\* The message send is called with is in the channel or in the queue afterwards: the
\* trimming of a full queue takes the other end.
THEOREM NewestMailKept == MCSpec => NewestKept
<1> DEFINE Keeps ==
      \A n \in Nodes : sent'[n] # sent[n] =>
        \/ Contains(queue'[n], Last(sent'[n]))
        \/ \E s \in Streams : chan'[s].node = n /\ Contains(chan'[s].buf, Last(sent'[n]))
<1>1. ASSUME MailInv, [MCNext]_mcVars PROVE [Keeps]_mcVars
  <2>1. ASSUME NEW k \in Nodes, NEW m \in MCMsgs, MCSend(k, m) PROVE Keeps
    <3>1. m \in Msgs /\ HubInv /\ MailInv' /\ sent[k] \in Seq(Msgs)
      BY <1>1, <2>1, MCMsgsAssumption, SendKeeps DEF MailInv, MailTyped
    <3>2. \A n \in Nodes : sent'[n] = IF n = k THEN Append(sent[k], m) ELSE sent[n]
      BY <1>1, <2>1 DEF MCSend, MailInv, MailTyped
    <3>3. Last(sent'[k]) = m
      BY <3>1, <3>2, AppendMail
    <3>4. \/ Contains(queue'[k], m)
          \/ \E s \in Streams : chan'[s].node = k /\ Contains(chan'[s].buf, m)
      <4>1. CASE HasRoom(k)
        <5>1. /\ sub[k] \in Streams /\ sub[k] \in Serving(k)'
              /\ chan'[sub[k]].buf = Append(chan[sub[k]].buf, m)
          BY <2>1, <3>1, <4>1, SendMail DEF MCSend
        <5>2. chan[sub[k]].buf \in Seq(Msgs) /\ chan'[sub[k]].node = k
          BY <3>1, <5>1 DEF HubInv, HubTypeOK, Serving
        <5>3. Contains(chan'[sub[k]].buf, m)
          BY <3>1, <5>1, <5>2, AppendMail
        <5> QED BY <5>1, <5>2, <5>3
      <4>2. CASE ~HasRoom(k)
        <5>1. queue'[k] = Queued(queue[k], m) /\ queue[k] \in Seq(Msgs)
          BY <2>1, <3>1, <4>2, SendMail DEF MCSend, HubInv, HubTypeOK
        <5>2. \E q \in Seq(Msgs) : queue'[k] = Append(q, m)
          <6>1. CASE Len(queue[k]) < MaxQueue
            BY <5>1, <6>1 DEF Queued
          <6>2. CASE ~(Len(queue[k]) < MaxQueue)
            <7>1. Len(queue[k]) # 0
              BY <5>1, <6>2, HubAssumption
            <7>2. Tail(queue[k]) \in Seq(Msgs)
              BY <5>1, <7>1
            <7> QED BY <5>1, <6>2, <7>2 DEF Queued
          <6> QED BY <6>1, <6>2
        <5> QED BY <3>1, <5>2, AppendMail
      <4> QED BY <4>1, <4>2
    <3> QED BY <3>2, <3>3, <3>4
  <2>2. CASE sent' = sent
    BY <2>2
  <2> QED BY <1>1, <2>1, <2>2 DEF MCNext, MCSubscribe, MCDeliver, MCReturn, mcVars
<1> QED BY <1>1, MailInvariant, PTL DEF MCSpec, NewestKept
===============================================================================
