---------------------------------- MODULE Hub ----------------------------------
(***************************************************************************)
(* internal/controller/hub.go and the WatchWork handler of server.go: one  *)
(* mailbox per node.  A message goes into the channel of the node's        *)
(* current WatchWork stream if there is one with room, and otherwise into  *)
(* a bounded queue that only the next Subscribe empties.                   *)
(*                                                                         *)
(* h.mu protects each method, but Dispatch and NotifyCancel take it twice  *)
(* (the cancel entry, then send), so each is two actions per node.         *)
(***************************************************************************)
EXTENDS Ids, Sequences, SequencesExt

CONSTANTS
  Streams,    \* WatchWork calls, each with the channel Subscribe makes for it
  NoStream,   \* no current subscriber
  WorkBuf,    \* workBuf
  MaxQueue    \* maxQueue

ASSUME HubAssumption ==
  /\ NoStream \notin Streams
  /\ WorkBuf \in Nat \ {0}
  /\ MaxQueue \in Nat \ {0}

VARIABLES
  cancel,     \* h.cancel: the job a node is to stop, told by heartbeat
  queue,      \* h.queue
  sub,        \* h.sub
  chan        \* per stream: its handler, its node, the channel's content

hubVars == <<cancel, queue, sub, chan>>

Assign(j)     == [kind |-> "assign", job |-> j]
CancelWork(j) == [kind |-> "cancel", job |-> j]
Msgs          == [kind : {"assign", "cancel"}, job : JobIds]

Unused == [st |-> "unused", node |-> 0, buf |-> <<>>, room |-> 0, open |-> FALSE]

HubInit ==
  /\ cancel = [n \in Nodes |-> NoJob]
  /\ queue  = [n \in Nodes |-> <<>>]
  /\ sub    = [n \in Nodes |-> NoStream]
  /\ chan   = [s \in Streams |-> Unused]

-------------------------------------------------------------------------------
(* Sending *)

\* Never trims.
MutQueuedAll(q, m) == Append(q, m)

\* Keeps the oldest when the queue is over its limit.
MutQueued(q, m) == SubSeq(Append(q, m), 1, IF Len(q) < MaxQueue THEN Len(q) + 1 ELSE MaxQueue)

\* Puts the newest message in front.
MutQueuedFront(q, m) == IF Len(q) < MaxQueue THEN <<m>> \o q ELSE <<m>> \o Front(q)

\* append, then q[len(q)-maxQueue:]: the oldest message goes.
Queued(q, m) == IF Len(q) < MaxQueue THEN Append(q, m) ELSE Append(Tail(q), m)

HasRoom(n) == sub[n] # NoStream /\ Len(chan[sub[n]].buf) < chan[sub[n]].room

send(n, m) ==
  /\ UNCHANGED <<cancel, sub>>
  /\ IF HasRoom(n)
       THEN chan' = [chan EXCEPT ![sub[n]].buf = Append(@, m)] /\ UNCHANGED queue
       ELSE queue' = [queue EXCEPT ![n] = Queued(@, m)] /\ UNCHANGED chan

\* The first halves of Dispatch and of NotifyCancel's loop body.
DropCancel(n)   == cancel' = [cancel EXCEPT ![n] = NoJob] /\ UNCHANGED <<queue, sub, chan>>
SetCancel(n, j) == cancel' = [cancel EXCEPT ![n] = j] /\ UNCHANGED <<queue, sub, chan>>

ClearCancel(n, j) ==
  /\ cancel' = [cancel EXCEPT ![n] = IF @ = j THEN NoJob ELSE @]
  /\ UNCHANGED <<queue, sub, chan>>

-------------------------------------------------------------------------------
(* WatchWork *)

\* Leaves the queued messages in the queue as well.
MutSubscribe(s, n) ==
  /\ chan[s].st = "unused"
  /\ chan' = [[t \in Streams |-> IF t = sub[n] THEN [chan[t] EXCEPT !.open = FALSE] ELSE chan[t]]
                EXCEPT ![s] = [st |-> "serving", node |-> n, buf |-> queue[n],
                               room |-> WorkBuf + Len(queue[n]), open |-> TRUE]]
  /\ sub'   = [sub EXCEPT ![n] = s]
  /\ UNCHANGED <<cancel, queue>>

\* Forgets to look into the queue.
MutSubscribeNoDrain(s, n) ==
  /\ chan[s].st = "unused"
  /\ chan' = [[t \in Streams |-> IF t = sub[n] THEN [chan[t] EXCEPT !.open = FALSE] ELSE chan[t]]
                EXCEPT ![s] = [st |-> "serving", node |-> n, buf |-> <<>>,
                               room |-> WorkBuf, open |-> TRUE]]
  /\ sub'   = [sub EXCEPT ![n] = s]
  /\ UNCHANGED <<cancel, queue>>

\* Replaces and closes the channel of an earlier stream of the same node, whose
\* handler may still be sending; the queue moves into the new channel.
Subscribe(s, n) ==
  /\ chan[s].st = "unused"
  /\ chan' = [[t \in Streams |-> IF t = sub[n] THEN [chan[t] EXCEPT !.open = FALSE] ELSE chan[t]]
                EXCEPT ![s] = [st |-> "serving", node |-> n, buf |-> queue[n],
                               room |-> WorkBuf + Len(queue[n]), open |-> TRUE]]
  /\ queue' = [queue EXCEPT ![n] = <<>>]
  /\ sub'   = [sub EXCEPT ![n] = s]
  /\ UNCHANGED cancel

\* The handler takes the next message and sends it to the node, also from a
\* closed channel that still holds some.
Deliver(s) ==
  /\ chan[s].st = "serving"
  /\ chan[s].buf # <<>>
  /\ chan' = [chan EXCEPT ![s].buf = Tail(@)]
  /\ UNCHANGED <<cancel, queue, sub>>

MutUnsubscribe(s) == sub' = [sub EXCEPT ![chan[s].node] = NoStream]

Unsubscribe(s) ==
  sub' = [sub EXCEPT ![chan[s].node] = IF @ = s THEN NoStream ELSE @]

\* The handler returns: its context ended or a Send failed (what the channel
\* holds is lost with it), or the channel was closed and is empty.
Return(s) ==
  /\ chan[s].st = "serving"
  /\ Unsubscribe(s)
  /\ chan' = [chan EXCEPT ![s] = [Unused EXCEPT !.st = "ended"]]
  /\ UNCHANGED <<cancel, queue>>

-------------------------------------------------------------------------------
\* Every call of the hub, in any order and by any caller.
HubNext ==
  \/ \E n \in Nodes, j \in JobIds :
       \/ DropCancel(n) \/ SetCancel(n, j) \/ ClearCancel(n, j)
       \/ send(n, Assign(j)) \/ send(n, CancelWork(j))
  \/ \E s \in Streams : Deliver(s) \/ Return(s) \/ \E n \in Nodes : Subscribe(s, n)

HubSpec == HubInit /\ [][HubNext]_hubVars

-------------------------------------------------------------------------------
(* Properties of the mailbox alone *)

\* Message m waits for node n, in its queue or in a channel.
InMail(n, m) ==
  \/ Contains(queue[n], m)
  \/ \E s \in Streams : chan[s].node = n /\ Contains(chan[s].buf, m)

\* Type invariant of the hub's maps and channels, with their limits: a node that
\* never connects costs at most maxQueue messages (send), and a channel never holds
\* more than Subscribe made room for.
HubTypeOK ==
  /\ cancel \in [Nodes -> JobIds \cup {NoJob}]
  /\ queue \in [Nodes -> Seq(Msgs)]
  /\ \A n \in Nodes : Len(queue[n]) <= MaxQueue
  /\ \A s \in Streams : Len(chan[s].buf) <= chan[s].room
  /\ sub \in [Nodes -> Streams \cup {NoStream}]
  /\ chan \in [Streams -> [st : {"unused", "serving", "ended"}, node : Nodes \cup {0},
                           buf : Seq(Msgs), room : Nat, open : BOOLEAN]]

\* The registered channel of a node is always an open one that a handler is
\* reading for that node, so send never hits a closed channel (a panic) and never
\* feeds a stream nobody reads; and a handler whose channel is still open is the
\* registered one, so the Unsubscribe of a replaced stream that ends late does not
\* cut off the stream that replaced it.
SubscriberIsLive ==
  /\ \A n \in Nodes : sub[n] # NoStream =>
       chan[sub[n]].st = "serving" /\ chan[sub[n]].open /\ chan[sub[n]].node = n
  /\ \A s \in Streams : chan[s].st = "serving" /\ chan[s].open => sub[chan[s].node] = s
================================================================================
