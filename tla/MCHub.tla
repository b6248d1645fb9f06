--------------------------------- MODULE MCHub ---------------------------------
(***************************************************************************)
(* The mailbox driven by senders, agents that open and drop WatchWork      *)
(* streams, and the handlers that serve them.  Two observers are added to  *)
(* the hub's state: what was sent to each node, in order, and what became  *)
(* of it outside the hub (received by the node, or lost).  Bounds: each    *)
(* message is sent to a node once, and each stream is used once, the last  *)
(* one for good.                                                           *)
(***************************************************************************)
EXTENDS Hub

CONSTANT MCMsgs      \* the messages the senders send

ASSUME MCMsgsAssumption == MCMsgs \subseteq Msgs

VARIABLES sent, got, lost
mcVars == <<hubVars, sent, got, lost>>

MCInit ==
  /\ HubInit
  /\ sent = [n \in Nodes |-> <<>>]
  /\ got  = [n \in Nodes |-> <<>>]
  /\ lost = [n \in Nodes |-> {}]

MCSend(n, m) ==
  /\ ~Contains(sent[n], m)
  /\ send(n, m)
  /\ sent' = [sent EXCEPT ![n] = Append(@, m)]
  /\ lost' = [lost EXCEPT ![n] =
                IF ~HasRoom(n) /\ Len(queue[n]) = MaxQueue THEN @ \cup {Head(queue[n])} ELSE @]
  /\ UNCHANGED got

MCSubscribe(s, n) == Subscribe(s, n) /\ UNCHANGED <<sent, got, lost>>

MCDeliver(s) ==
  /\ Deliver(s)
  /\ got' = [got EXCEPT ![chan[s].node] = Append(@, Head(chan[s].buf))]
  /\ UNCHANGED <<sent, lost>>

MCReturn(s) ==
  /\ chan[s].open => \E t \in Streams : chan[t].st = "unused"
  /\ Return(s)
  /\ lost' = [lost EXCEPT ![chan[s].node] = @ \cup ToSet(chan[s].buf)]
  /\ UNCHANGED <<sent, got>>

MCNext ==
  \/ \E n \in Nodes, m \in MCMsgs : MCSend(n, m)
  \/ \E s \in Streams, n \in Nodes : MCSubscribe(s, n)
  \/ \E s \in Streams : MCDeliver(s) \/ MCReturn(s)

MCSpec == MCInit /\ [][MCNext]_mcVars

\* The agent's watch loop reconnects whenever it has no stream (agent.go), and a
\* WatchWork handler with something to send is a runnable goroutine.
MCFairSpec ==
  /\ MCSpec
  /\ \A s \in Streams : WF_mcVars(MCDeliver(s))
  /\ \A n \in Nodes : WF_mcVars(sub[n] = NoStream /\ \E s \in Streams : MCSubscribe(s, n))

-------------------------------------------------------------------------------
Copies(q, m) == Cardinality({i \in 1..Len(q) : q[i] = m})

Serving(n) == {s \in Streams : chan[s].st = "serving" /\ chan[s].node = n}

HeldIn(n, m) == {s \in Serving(n) : Contains(chan[s].buf, m)}

\* A message handed to the hub is at every moment in exactly one place: received,
\* lost (its stream ended, or it was the oldest of a full queue), in the queue, or
\* once in the channel of one stream.  Nothing is delivered twice across
\* re-subscriptions and nothing vanishes in between.
InOnePlace ==
  \A n \in Nodes, m \in MCMsgs :
    /\ \A s \in Serving(n) : Copies(chan[s].buf, m) <= 1
    /\ Copies(got[n], m) + Copies(queue[n], m) + Cardinality(HeldIn(n, m))
         + (IF m \in lost[n] THEN 1 ELSE 0)
       = Copies(sent[n], m)

Before(q, a, b) == \E i, k \in 1..Len(q) : i < k /\ q[i] = a /\ q[k] = b

\* One stream carries its messages in the order they were sent, even when part of
\* them waited in the queue: a cancel never overtakes the assignment it is for on
\* the stream that carries both.
StreamInOrder ==
  \A n \in Nodes, s \in Streams :
    s \in Serving(n) =>
      \A i, k \in 1..Len(chan[s].buf) :
        i < k => Before(sent[n], chan[s].buf[i], chan[s].buf[k])

\* Overflow costs the oldest message, never the one just sent: a cancel sent to a
\* node whose mailbox is full is still in the mailbox.
NewestKept ==
  [][\A n \in Nodes : sent'[n] # sent[n] =>
       \/ Contains(queue'[n], Last(sent'[n]))
       \/ \E s \in Streams : chan'[s].node = n /\ Contains(chan'[s].buf, Last(sent'[n]))]_mcVars

\* Mail that waits for a node without a stream does not wait for ever: the node
\* reconnects and receives it, unless the stream that takes it over breaks or newer
\* mail pushes it out.  (Mail that overflows a stream that holds stays in the queue
\* until that stream ends: send never moves it.)
QueueDrains ==
  \A n \in Nodes, m \in MCMsgs :
    sub[n] = NoStream /\ Contains(queue[n], m) ~> (Contains(got[n], m) \/ m \in lost[n])

MCMessages == {[kind |-> "assign", job |-> 1], [kind |-> "cancel", job |-> 1],
               [kind |-> "assign", job |-> 2], [kind |-> "cancel", job |-> 2]}
================================================================================
