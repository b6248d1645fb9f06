-------------------------------- MODULE HubProofs --------------------------------
(***************************************************************************)
(* The hub under any calls: its maps keep their types and limits, and send *)
(* always finds a channel that is open and read, or none.                  *)
(***************************************************************************)
EXTENDS Hub, SequenceTheorems, TLAPS

HubInv == HubTypeOK /\ SubscriberIsLive

ChanRecords == [st : {"unused", "serving", "ended"}, node : Nodes \cup {0},
                buf : Seq(Msgs), room : Nat, open : BOOLEAN]

-------------------------------------------------------------------------------
(* Types and limits *)

\* The calls of senders keep the hub's maps typed and within their limits.
LEMMA HubTyped ==
  ASSUME HubTypeOK, NEW n \in Nodes, NEW j \in JobIds
  PROVE  /\ DropCancel(n) \/ SetCancel(n, j) \/ ClearCancel(n, j) => HubTypeOK'
         /\ \A m \in Msgs : send(n, m) => HubTypeOK'
<1>1. DropCancel(n) \/ SetCancel(n, j) \/ ClearCancel(n, j) => HubTypeOK'
  BY DEF HubTypeOK, DropCancel, SetCancel, ClearCancel
<1>2. ASSUME NEW m \in Msgs, send(n, m) PROVE HubTypeOK'
  <2>1. CASE HasRoom(n)
    <3>1. sub[n] \in Streams /\ chan[sub[n]].buf \in Seq(Msgs)
      BY <2>1 DEF HubTypeOK, HasRoom
    <3> DEFINE c == [chan[sub[n]] EXCEPT !.buf = Append(chan[sub[n]].buf, m)]
    <3>2. Append(chan[sub[n]].buf, m) \in Seq(Msgs)
          /\ Len(Append(chan[sub[n]].buf, m)) = Len(chan[sub[n]].buf) + 1
      BY <3>1, AppendProperties
    <3>3. c \in [st : {"unused", "serving", "ended"}, node : Nodes \cup {0},
                 buf : Seq(Msgs), room : Nat, open : BOOLEAN]
      BY <3>1, <3>2 DEF HubTypeOK
    <3>5. Len(c.buf) <= c.room
      <4>1. Len(chan[sub[n]].buf) < chan[sub[n]].room
        BY <2>1 DEF HasRoom
      <4>2. c.buf = Append(chan[sub[n]].buf, m) /\ c.room = chan[sub[n]].room
            /\ chan[sub[n]].room \in Nat /\ Len(chan[sub[n]].buf) \in Nat
        BY <3>1 DEF HubTypeOK
      <4> HIDE DEF c
      <4> QED BY <3>2, <4>1, <4>2
    <3>4. chan' = [chan EXCEPT ![sub[n]] = c] /\ UNCHANGED <<cancel, sub, queue>>
      BY <1>2, <2>1 DEF send
    <3> QED BY <3>1, <3>3, <3>4, <3>5 DEF HubTypeOK
  <2>2. CASE ~HasRoom(n)
    <3>1. queue' = [queue EXCEPT ![n] = Queued(queue[n], m)] /\ UNCHANGED <<cancel, sub, chan>>
      BY <1>2, <2>2 DEF send
    <3>2. queue[n] \in Seq(Msgs) /\ Len(queue[n]) \in Nat /\ Len(queue[n]) <= MaxQueue
          /\ MaxQueue \in Nat \ {0}
      BY HubAssumption DEF HubTypeOK
    <3>3. Queued(queue[n], m) \in Seq(Msgs) /\ Len(Queued(queue[n], m)) <= MaxQueue
      <4>1. CASE Len(queue[n]) < MaxQueue
        BY <3>2, <4>1, AppendProperties DEF Queued
      <4>2. CASE ~(Len(queue[n]) < MaxQueue)
        <5>1. queue[n] # <<>>
          BY <3>2, <4>2
        <5>2. Tail(queue[n]) \in Seq(Msgs) /\ Len(Tail(queue[n])) = Len(queue[n]) - 1
          BY <3>2, <5>1
        <5> QED BY <3>2, <4>2, <5>2, AppendProperties DEF Queued
      <4> QED BY <4>1, <4>2
    <3> QED BY <3>1, <3>3 DEF HubTypeOK
  <2> QED BY <2>1, <2>2
<1> QED BY <1>1, <1>2

LEMMA UnusedTyped == Unused \in ChanRecords /\ [Unused EXCEPT !.st = "ended"] \in ChanRecords
<1>1. ASSUME NEW q \in {<<>>} PROVE q \in Seq(Msgs)
  OBVIOUS
<1>2. Unused \in ChanRecords
  BY <1>1 DEF Unused, ChanRecords
<1>3. ASSUME NEW r \in ChanRecords PROVE [r EXCEPT !.st = "ended"] \in ChanRecords
  BY DEF ChanRecords
<1> QED BY <1>2, <1>3

\* A new channel holds what was queued and has room for workBuf messages more.
LEMMA SubscribeTyped ==
  ASSUME HubTypeOK, NEW s \in Streams, NEW n \in Nodes, Subscribe(s, n)
  PROVE  HubTypeOK'
<1> DEFINE new == [st |-> "serving", node |-> n, buf |-> queue[n],
                   room |-> WorkBuf + Len(queue[n]), open |-> TRUE]
<1>1. queue[n] \in Seq(Msgs) /\ Len(queue[n]) \in Nat /\ WorkBuf \in Nat
  BY HubAssumption DEF HubTypeOK
<1>2. new \in ChanRecords /\ Len(new.buf) <= new.room
  BY <1>1 DEF ChanRecords
<1> HIDE DEF new
<1>3. \A t \in Streams : chan'[t] = IF t = s THEN new
                                    ELSE IF t = sub[n] THEN [chan[t] EXCEPT !.open = FALSE] ELSE chan[t]
  BY DEF Subscribe, new
<1>4. ASSUME NEW t \in Streams
      PROVE  chan'[t] \in ChanRecords /\ Len(chan'[t].buf) <= chan'[t].room
  BY <1>2, <1>3 DEF HubTypeOK, ChanRecords
<1>5. chan' \in [Streams -> ChanRecords]
  <2>1. chan' = [t \in Streams |-> chan'[t]]
    BY DEF Subscribe
  <2> QED BY <2>1, <1>4
<1>6. queue' = [queue EXCEPT ![n] = <<>>] /\ sub' = [sub EXCEPT ![n] = s] /\ cancel' = cancel
  BY DEF Subscribe
<1>7. queue' \in [Nodes -> Seq(Msgs)] /\ \A k \in Nodes : Len(queue'[k]) <= MaxQueue
  BY <1>6, HubAssumption DEF HubTypeOK
<1> QED BY <1>4, <1>5, <1>6, <1>7 DEF HubTypeOK, ChanRecords

LEMMA DeliverTyped ==
  ASSUME HubTypeOK, NEW s \in Streams, Deliver(s)
  PROVE  HubTypeOK'
<1>1. chan[s].buf \in Seq(Msgs) /\ chan[s].buf # <<>> /\ chan[s].room \in Nat
      /\ Len(chan[s].buf) <= chan[s].room
  BY DEF HubTypeOK, Deliver
<1>2. Tail(chan[s].buf) \in Seq(Msgs) /\ Len(Tail(chan[s].buf)) <= chan[s].room
  BY <1>1
<1>3. chan' = [chan EXCEPT ![s] = [chan[s] EXCEPT !.buf = Tail(chan[s].buf)]]
      /\ UNCHANGED <<cancel, queue, sub>>
  BY DEF Deliver
<1> QED BY <1>2, <1>3 DEF HubTypeOK

LEMMA ReturnTyped ==
  ASSUME HubTypeOK, NEW s \in Streams, Return(s)
  PROVE  HubTypeOK'
<1>1. chan' = [chan EXCEPT ![s] = [Unused EXCEPT !.st = "ended"]] /\ UNCHANGED <<cancel, queue>>
  BY DEF Return
<1>2. chan' \in [Streams -> ChanRecords] /\ \A t \in Streams : Len(chan'[t].buf) <= chan'[t].room
  BY <1>1, UnusedTyped DEF HubTypeOK, ChanRecords, Unused
<1>3. sub' \in [Nodes -> Streams \cup {NoStream}]
  BY DEF Return, Unsubscribe, HubTypeOK
<1> QED BY <1>1, <1>2, <1>3 DEF HubTypeOK, ChanRecords

-------------------------------------------------------------------------------
(* Readers *)

\* What a channel holds does not matter to who reads it.
LEMMA SameReaders ==
  ASSUME HubInv, sub' = sub,
         \A s \in Streams : /\ chan'[s].st = chan[s].st
                            /\ chan'[s].node = chan[s].node
                            /\ chan'[s].open = chan[s].open
  PROVE  SubscriberIsLive'
BY DEF HubInv, HubTypeOK, SubscriberIsLive

LEMMA SendReaders ==
  ASSUME HubInv, NEW n \in Nodes, NEW m, send(n, m)
  PROVE  SubscriberIsLive'
<1>1. sub' = sub
  BY DEF send
<1>2. ASSUME NEW s \in Streams
      PROVE  chan'[s].st = chan[s].st /\ chan'[s].node = chan[s].node /\ chan'[s].open = chan[s].open
  <2>1. chan[s] \in ChanRecords
    BY DEF HubInv, HubTypeOK, ChanRecords
  <2>2. CASE HasRoom(n)
    <3>1. chan' = [chan EXCEPT ![sub[n]] =
                     [chan[sub[n]] EXCEPT !.buf = Append(chan[sub[n]].buf, m)]]
      BY <2>2 DEF send
    <3>2. ASSUME NEW r \in ChanRecords, NEW q
          PROVE  LET e == [r EXCEPT !.buf = q]
                 IN  e.st = r.st /\ e.node = r.node /\ e.open = r.open
      BY DEF ChanRecords
    <3>3. CASE s = sub[n]
      <4>1. chan'[s] = [chan[s] EXCEPT !.buf = Append(chan[s].buf, m)]
        BY <3>1, <3>3 DEF HubInv, HubTypeOK
      <4> QED BY <2>1, <3>2, <4>1
    <3>4. CASE s # sub[n]
      BY <3>1, <3>4 DEF HubInv, HubTypeOK
    <3> QED BY <3>3, <3>4
  <2>3. CASE ~HasRoom(n)
    BY <2>3 DEF send
  <2> QED BY <2>2, <2>3
<1> QED BY <1>1, <1>2, SameReaders

LEMMA DeliverReaders ==
  ASSUME HubInv, NEW s \in Streams, Deliver(s)
  PROVE  SubscriberIsLive'
<1>1. ASSUME NEW t \in Streams
      PROVE  chan'[t].st = chan[t].st /\ chan'[t].node = chan[t].node /\ chan'[t].open = chan[t].open
  BY DEF Deliver, HubInv, HubTypeOK
<1> QED BY <1>1, SameReaders DEF Deliver

\* The stream that is replaced is closed in the same step, and it was the only open
\* one of its node.
LEMMA SubscribeReaders ==
  ASSUME HubInv, NEW s \in Streams, NEW n \in Nodes, Subscribe(s, n)
  PROVE  SubscriberIsLive'
<1>1. /\ chan[s].st = "unused"
      /\ sub' = [sub EXCEPT ![n] = s]
      /\ sub \in [Nodes -> Streams \cup {NoStream}]
      /\ \A t \in Streams : chan[t] \in ChanRecords
  BY DEF Subscribe, HubInv, HubTypeOK, ChanRecords
<1>2. chan'[s].st = "serving" /\ chan'[s].node = n /\ chan'[s].open
  BY DEF Subscribe, HubInv, HubTypeOK
<1>3. ASSUME NEW t \in Streams, t # s
      PROVE  /\ chan'[t].st = chan[t].st /\ chan'[t].node = chan[t].node
             /\ chan'[t].open = IF t = sub[n] THEN FALSE ELSE chan[t].open
  BY <1>1, <1>3 DEF Subscribe, ChanRecords
<1>4. ASSUME NEW k \in Nodes, sub'[k] # NoStream
      PROVE  chan'[sub'[k]].st = "serving" /\ chan'[sub'[k]].open /\ chan'[sub'[k]].node = k
  <2>1. CASE k = n
    BY <1>1, <1>2, <2>1
  <2>2. CASE k # n
    <3>1. sub'[k] = sub[k] /\ sub[k] \in Streams
      BY <1>1, <1>4, <2>2
    <3>2. chan[sub[k]].st = "serving" /\ chan[sub[k]].open /\ chan[sub[k]].node = k
      BY <1>4, <3>1 DEF HubInv, SubscriberIsLive
    <3>3. sub[k] # s
      BY <1>1, <3>2
    <3>4. sub[k] # sub[n]
      BY <1>4, <2>2, <3>1, <3>2 DEF HubInv, SubscriberIsLive
    <3> QED BY <1>3, <3>1, <3>2, <3>3, <3>4
  <2> QED BY <2>1, <2>2
<1>5. ASSUME NEW t \in Streams, chan'[t].st = "serving", chan'[t].open
      PROVE  sub'[chan'[t].node] = t
  <2>1. CASE t = s
    BY <1>1, <1>2, <2>1
  <2>2. CASE t # s
    <3>1. t # sub[n] /\ chan[t].st = "serving" /\ chan[t].open /\ chan'[t].node = chan[t].node
      BY <1>3, <1>5, <2>2
    <3>2. sub[chan[t].node] = t
      BY <3>1 DEF HubInv, SubscriberIsLive
    <3> QED BY <1>1, <3>1, <3>2
  <2> QED BY <2>1, <2>2
<1> QED BY <1>4, <1>5 DEF SubscriberIsLive

\* A handler that returns takes its own channel out of the map, and no other.
LEMMA ReturnReaders ==
  ASSUME HubInv, NEW s \in Streams, Return(s)
  PROVE  SubscriberIsLive'
<1>1. /\ chan[s].st = "serving"
      /\ sub' = [sub EXCEPT ![chan[s].node] = IF sub[chan[s].node] = s THEN NoStream
                                              ELSE sub[chan[s].node]]
      /\ sub \in [Nodes -> Streams \cup {NoStream}]
  BY DEF Return, Unsubscribe, HubInv, HubTypeOK
<1>2. chan'[s].st = "ended" /\ \A t \in Streams : t # s => chan'[t] = chan[t]
  BY DEF Return, HubInv, HubTypeOK, Unused
<1>3. ASSUME NEW k \in Nodes, sub'[k] # NoStream
      PROVE  sub'[k] = sub[k] /\ sub[k] \in Streams /\ sub[k] # s
  <2>1. sub'[k] = sub[k] /\ sub[k] \in Streams
    BY <1>1, <1>3
  <2>2. sub[k] = s => chan[s].node = k
    BY <1>3, <2>1 DEF HubInv, SubscriberIsLive
  <2> QED BY <1>1, <1>3, <2>1, <2>2
<1>4. ASSUME NEW k \in Nodes, sub'[k] # NoStream
      PROVE  chan'[sub'[k]].st = "serving" /\ chan'[sub'[k]].open /\ chan'[sub'[k]].node = k
  BY <1>2, <1>3, <1>4 DEF HubInv, SubscriberIsLive
<1>5. ASSUME NEW t \in Streams, chan'[t].st = "serving", chan'[t].open
      PROVE  sub'[chan'[t].node] = t
  <2>1. t # s /\ chan'[t] = chan[t]
    BY <1>2, <1>5
  <2>2. sub[chan[t].node] = t
    BY <1>5, <2>1 DEF HubInv, SubscriberIsLive
  <2> QED BY <1>1, <2>1, <2>2
<1> QED BY <1>4, <1>5 DEF SubscriberIsLive

-------------------------------------------------------------------------------
LEMMA HubInitInv == HubInit => HubInv
<1> SUFFICES ASSUME HubInit PROVE HubInv
  OBVIOUS
<1>1. HubTypeOK
  BY HubAssumption, UnusedTyped DEF HubInit, HubTypeOK, Unused, ChanRecords
<1>2. SubscriberIsLive
  BY HubAssumption DEF HubInit, SubscriberIsLive, Unused
<1> QED BY <1>1, <1>2 DEF HubInv

LEMMA HubStep ==
  ASSUME HubInv, [HubNext]_hubVars
  PROVE  HubInv'
<1>1. ASSUME NEW n \in Nodes, NEW j \in JobIds, DropCancel(n) \/ SetCancel(n, j) \/ ClearCancel(n, j)
      PROVE  HubInv'
  <2>1. sub' = sub /\ chan' = chan
    BY <1>1 DEF DropCancel, SetCancel, ClearCancel
  <2> QED BY <1>1, <2>1, HubTyped, SameReaders DEF HubInv
<1>2. ASSUME NEW n \in Nodes, NEW j \in JobIds, send(n, Assign(j)) \/ send(n, CancelWork(j))
      PROVE  HubInv'
  <2>1. Assign(j) \in Msgs /\ CancelWork(j) \in Msgs
    BY DEF Assign, CancelWork, Msgs
  <2> QED BY <1>2, <2>1, HubTyped, SendReaders DEF HubInv
<1>3. ASSUME NEW s \in Streams, Deliver(s) PROVE HubInv'
  BY <1>3, DeliverTyped, DeliverReaders DEF HubInv
<1>4. ASSUME NEW s \in Streams, Return(s) PROVE HubInv'
  BY <1>4, ReturnTyped, ReturnReaders DEF HubInv
<1>5. ASSUME NEW s \in Streams, NEW n \in Nodes, Subscribe(s, n) PROVE HubInv'
  BY <1>5, SubscribeTyped, SubscribeReaders DEF HubInv
<1>6. CASE UNCHANGED hubVars
  <2>1. HubTypeOK'
    BY <1>6 DEF HubInv, HubTypeOK, hubVars
  <2> QED BY <1>6, <2>1, SameReaders DEF HubInv, hubVars
<1> QED BY <1>1, <1>2, <1>3, <1>4, <1>5, <1>6 DEF HubNext

THEOREM HubInvariant == HubSpec => []HubInv
BY HubInitInv, HubStep, PTL DEF HubSpec

\* No mailbox grows beyond its limits, whoever sends and however streams come and go.
THEOREM HubTypeCorrect == HubSpec => []HubTypeOK
<1>1. HubInv => HubTypeOK
  BY DEF HubInv
<1> QED BY <1>1, HubInvariant, PTL

\* send never meets a closed channel nor one that nobody reads, and a replaced stream
\* that ends late never cuts off its successor, for any number of streams and nodes.
THEOREM ReadersAreLive == HubSpec => []SubscriberIsLive
<1>1. HubInv => SubscriberIsLive
  BY DEF HubInv
<1> QED BY <1>1, HubInvariant, PTL
===============================================================================
