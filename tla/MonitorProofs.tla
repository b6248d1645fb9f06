----------------------------- MODULE MonitorProofs -----------------------------
(***************************************************************************)
(* The monitor's type invariant, that it finds dead nodes in time and      *)
(* leaves live ones alone, and that its clock, channel and ticker          *)
(* implement the flag "late" by which the rest of the project knows a      *)
(* node's age, for every timeout, queue size and number of nodes.          *)
(***************************************************************************)
EXTENDS HeartbeatMonitor, FiniteSetTheorems, SequenceTheorems, TLAPS

\* Beats come from registered nodes only, which is what Heartbeat checks: the agents
\* that are up have registered, and so had the senders of what waits in the channel.
BeatsAreKnown ==
  /\ \A n \in Nodes : agent[n].up => status[n] # "absent"
  /\ \A i \in 1..Len(beats) : status[beats[i]] # "absent"

MonInv == MonTypeOK /\ BeatsAreKnown

LEMMA IntervalPositive == Interval \in Nat /\ Interval >= 1
BY MonitorAssumption DEF Interval

LEMMA DetectNat == Detect \in Nat
BY MonitorAssumption DEF Detect

LEMMA GapBounded == Gap \in Nat /\ Stall \in Nat /\ Gap <= Stall
BY MonitorAssumption

LEMMA WithGap ==
  ASSUME NEW a \in Nat, NEW b \in Nat, b <= a
  PROVE  a + Gap \in Nat /\ b + Gap \in Nat /\ b + Gap <= a + Gap
BY GapBounded

\* One unit more on one side, one less on the other.
LEMMA UnitShifts ==
  ASSUME NEW c \in Nat, NEW d \in Nat, d <= c + 1, NEW s \in Nat, s > 0, NEW room \in Nat,
         c + s <= room
  PROVE  d + (s - 1) <= room
OBVIOUS

LEMMA CappedType ==
  ASSUME NEW x \in Nat, NEW max \in Nat
  PROVE  Capped(x, max) \in Nat /\ (x <= max => Capped(x, max) <= max)
BY DEF Capped

-------------------------------------------------------------------------------
(* Each action keeps the invariant. *)

LEMMA InitKeeps == MonInit => MonInv
BY IntervalPositive, MonitorAssumption DEF MonInit, MonInv, MonTypeOK, BeatsAreKnown

LEMMA JoinKeeps ==
  ASSUME MonInv, NEW n \in Nodes, Join(n)
  PROVE  MonInv'
<1>1. MonTypeOK'
  BY MonitorAssumption DEF MonInv, MonTypeOK, Join
<1>2. \A k \in Nodes : agent'[k].up => status'[k] # "absent"
  BY DEF MonInv, MonTypeOK, BeatsAreKnown, Join
<1>3. \A i \in 1..Len(beats) : status'[beats[i]] # "absent"
  BY DEF MonInv, MonTypeOK, BeatsAreKnown, Join
<1> QED BY <1>1, <1>2, <1>3 DEF MonInv, BeatsAreKnown, Join

LEMMA CutOffKeeps ==
  ASSUME MonInv, NEW n \in Nodes, CutOff(n)
  PROVE  MonInv'
BY MonitorAssumption DEF MonInv, MonTypeOK, BeatsAreKnown, CutOff

LEMMA ComeBackKeeps ==
  ASSUME MonInv, NEW n \in Nodes, ComeBack(n)
  PROVE  MonInv'
BY MonitorAssumption DEF MonInv, MonTypeOK, BeatsAreKnown, ComeBack, Away

LEMMA RecordKeeps ==
  ASSUME MonInv, NEW n \in Nodes, Record(n)
  PROVE  MonInv'
<1>1. beats' \in Seq(Nodes) /\ Len(beats') <= QueueSize
  BY MonitorAssumption DEF MonInv, MonTypeOK, Record
<1>2. \A i \in 1..Len(beats') : beats'[i] = n \/ (i \in 1..Len(beats) /\ beats'[i] = beats[i])
  BY DEF MonInv, MonTypeOK, Record
<1>3. agent' \in [Nodes -> [up : BOOLEAN, since : 0..BeatEvery, changed : Nat]]
  <2>1. agent' = [agent EXCEPT ![n].since = 0]
    BY DEF Record
  <2>2. agent \in [Nodes -> [up : BOOLEAN, since : 0..BeatEvery, changed : Nat]] /\ 0 \in 0..BeatEvery
    BY MonitorAssumption DEF MonInv, MonTypeOK
  <2> QED BY <2>1, <2>2
<1>4. agent[n].up /\ \A k \in Nodes : agent'[k].up = agent[k].up
  BY DEF MonInv, MonTypeOK, Record
<1> QED BY <1>1, <1>2, <1>3, <1>4 DEF MonInv, MonTypeOK, BeatsAreKnown, Record

LEMMA TouchHeadKeeps ==
  ASSUME MonInv, TouchHead, pc' \in {"select", "drain", "reap", "handle"}, slack' \in Nat
  PROVE  MonInv'
<1>1. beats' \in Seq(Nodes) /\ Len(beats') <= QueueSize /\ Head(beats) \in Nodes
  BY MonitorAssumption DEF MonInv, MonTypeOK, TouchHead
<1>2. \A i \in 1..Len(beats') : i + 1 \in 1..Len(beats) /\ beats'[i] = beats[i + 1]
  BY DEF MonInv, MonTypeOK, TouchHead
<1>3. status' \in [Nodes -> {"absent", "online", "offline"}] /\ age' \in [Nodes -> 0..Timeout + 1]
  BY <1>1, MonitorAssumption DEF MonInv, MonTypeOK, TouchHead
<1>4. \A k \in Nodes : status[k] # "absent" => status'[k] # "absent"
  BY DEF MonInv, MonTypeOK, TouchHead
<1>5. MonTypeOK'
  BY <1>1, <1>3 DEF MonInv, MonTypeOK, TouchHead
<1>6. \A i \in 1..Len(beats) : beats[i] \in Nodes
  BY DEF MonInv, MonTypeOK
<1>7. \A i \in 1..Len(beats') : status'[beats'[i]] # "absent"
  BY <1>2, <1>4, <1>6 DEF MonInv, BeatsAreKnown
<1>8. \A k \in Nodes : agent'[k].up => status'[k] # "absent"
  BY <1>4 DEF MonInv, BeatsAreKnown, TouchHead
<1> QED BY <1>5, <1>7, <1>8 DEF MonInv, BeatsAreKnown

LEMMA StepKeeps ==
  ASSUME MonInv, MonStep
  PROVE  MonInv'
<1>1. CASE TakeBeat
  BY <1>1, TouchHeadKeeps DEF TakeBeat, MonInv, MonTypeOK
<1>2. CASE TakeTick
  <2>1. MonTypeOK'
    BY <1>2, GapBounded DEF MonInv, MonTypeOK, TakeTick
  <2>2. BeatsAreKnown'
    BY <1>2 DEF MonInv, BeatsAreKnown, TakeTick
  <2> QED BY <2>1, <2>2 DEF MonInv
<1>3. CASE Drain
  <2>1. CASE TouchHead /\ UNCHANGED <<pc, slack>>
    BY <2>1, TouchHeadKeeps DEF MonInv, MonTypeOK
  <2>2. CASE pc' = "reap" /\ UNCHANGED <<status, age, beats, ticker, slack, agent>>
    BY <2>2 DEF MonInv, MonTypeOK, BeatsAreKnown
  <2> QED BY <1>3, <2>1, <2>2 DEF Drain
<1>4. CASE Reap
  BY <1>4 DEF MonInv, MonTypeOK, BeatsAreKnown, Reap
<1>5. CASE Handled
  BY <1>5 DEF MonInv, MonTypeOK, BeatsAreKnown, Handled
<1> QED BY <1>1, <1>2, <1>3, <1>4, <1>5 DEF MonStep

LEMMA PassKeeps ==
  ASSUME MonInv, Pass
  PROVE  MonInv'
<1>1. age' \in [Nodes -> 0..Timeout + 1]
  <2>1. age' = [n \in Nodes |-> Capped(age[n], Timeout + 1)]
    BY DEF Pass
  <2>2. age \in [Nodes -> 0..Timeout + 1] /\ Timeout + 1 \in Nat
    BY MonitorAssumption DEF MonInv, MonTypeOK
  <2>3. ASSUME NEW n \in Nodes PROVE Capped(age[n], Timeout + 1) \in 0..Timeout + 1
    <3>1. age[n] \in Nat /\ age[n] <= Timeout + 1
      BY <2>2
    <3> QED BY <3>1, <2>2, CappedType
  <2> QED BY <2>1, <2>3
<1>2. ticker' \in [fired : BOOLEAN, left : 1..Interval]
  <2>1. ticker' = IF ticker.left = 1 THEN [fired |-> TRUE, left |-> Interval]
                  ELSE [ticker EXCEPT !.left = @ - 1]
    BY DEF Pass
  <2>2. ticker \in [fired : BOOLEAN, left : 1..Interval]
    BY DEF MonInv, MonTypeOK
  <2>3. CASE ticker.left = 1
    BY <2>1, <2>3, IntervalPositive
  <2>4. CASE ticker.left # 1
    <3>1. ticker.left - 1 \in 1..Interval
      BY <2>2, <2>4, IntervalPositive
    <3> QED BY <2>1, <2>2, <2>4, <3>1
  <2> QED BY <2>3, <2>4
<1>3. slack' \in Nat
  <2>1. (Busy => slack > 0) /\ slack' = IF Busy THEN slack - 1 ELSE Stall
    BY DEF Pass
  <2> QED BY <2>1, MonitorAssumption DEF MonInv, MonTypeOK
<1>4. agent' \in [Nodes -> [up : BOOLEAN, since : 0..BeatEvery, changed : Nat]]
  <2>1. agent' = [n \in Nodes |-> [up      |-> agent[n].up,
                                   since   |-> IF agent[n].up THEN agent[n].since + 1 ELSE 0,
                                   changed |-> Capped(agent[n].changed, Detect + 1)]]
    BY DEF Pass
  <2>2. agent \in [Nodes -> [up : BOOLEAN, since : 0..BeatEvery, changed : Nat]]
    BY DEF MonInv, MonTypeOK
  <2>3. ASSUME NEW n \in Nodes PROVE Capped(agent[n].changed, Detect + 1) \in Nat
    <3>1. agent[n].changed \in Nat /\ Detect + 1 \in Nat
      BY <2>2, DetectNat
    <3> QED BY <3>1, CappedType
  <2>4. ASSUME NEW n \in Nodes
        PROVE  (IF agent[n].up THEN agent[n].since + 1 ELSE 0) \in 0..BeatEvery
    <3>1. agent[n].up => agent[n].since < BeatEvery
      BY DEF Pass
    <3>2. agent[n].since \in 0..BeatEvery
      BY <2>2
    <3> QED BY <3>1, <3>2, MonitorAssumption
  <2>5. ASSUME NEW n \in Nodes PROVE agent[n].up \in BOOLEAN
    BY <2>2
  <2> QED BY <2>1, <2>3, <2>4, <2>5
<1>5. \A n \in Nodes : agent'[n].up = agent[n].up
  BY DEF MonInv, MonTypeOK, Pass
<1> QED BY <1>1, <1>2, <1>3, <1>4, <1>5 DEF MonInv, MonTypeOK, BeatsAreKnown, Pass

LEMMA NextKeeps == MonInv /\ [MonNext]_monVars => MonInv'
<1> SUFFICES ASSUME MonInv, [MonNext]_monVars PROVE MonInv'
  OBVIOUS
<1>1. CASE \E n \in Nodes : Join(n) \/ CutOff(n) \/ ComeBack(n) \/ Record(n)
  BY <1>1, JoinKeeps, CutOffKeeps, ComeBackKeeps, RecordKeeps
<1>2. CASE MonStep
  BY <1>2, StepKeeps
<1>3. CASE Pass
  BY <1>3, PassKeeps
<1>4. CASE UNCHANGED monVars
  BY <1>4 DEF monVars, MonInv, MonTypeOK, BeatsAreKnown
<1> QED BY <1>1, <1>2, <1>3, <1>4 DEF MonNext

\* The monitor's state stays well typed (heartbeat.go): whatever the agents do and
\* however long the goroutine is held up, the channel never exceeds its size.
THEOREM MonitorTypeCorrect == MonSpec => []MonTypeOK
<1>1. MonInit => MonInv
  BY InitKeeps
<1>2. MonInv /\ [MonNext]_monVars => MonInv'
  BY NextKeeps
<1>3. MonInv => MonTypeOK
  BY DEF MonInv
<1> QED BY <1>1, <1>2, <1>3, PTL DEF MonSpec

-------------------------------------------------------------------------------
(* A node that was cut off is found within Detect units. *)

\* The longest it can take until the next ReapStale.
TillReap ==
  IF pc \in {"drain", "reap"} THEN slack
  ELSE IF ticker.fired THEN slack + Gap
  ELSE ticker.left + Stall + Gap

\* The goroutine never owes work for longer than Stall.
SlackBounded == slack <= Stall

\* A beat of a node that was cut off since leaves the channel before Stall units are
\* over, or with the tick that is being handled.
OldBeatsLeave ==
  \A i \in 1..Len(beats) : ~agent[beats[i]].up =>
    agent[beats[i]].changed + slack <= Stall + (IF pc = "drain" THEN Gap ELSE 0)

\* So the registry's clock for the node is behind by no more than that ...
AgeFollows ==
  \A n \in Nodes : ~agent[n].up /\ status[n] = "online" =>
    age[n] > Timeout \/ agent[n].changed <= age[n] + Stall + Gap

\* ... and a reap that finds the node too young still leaves time for the next one.
ReapInTime ==
  \A n \in Nodes : ~agent[n].up /\ status[n] = "online" =>
    agent[n].changed + TillReap <= Detect

ClockInv == SlackBounded /\ OldBeatsLeave /\ AgeFollows /\ ReapInTime

LEMMA DetectIs == Detect = Timeout + Interval + 2 * Stall + 2 * Gap
BY MonitorAssumption DEF Detect, Interval

LEMMA TillReapBounded ==
  ASSUME MonTypeOK, SlackBounded
  PROVE  TillReap \in Nat /\ TillReap <= Interval + Stall + Gap
<1>1. slack \in Nat /\ slack <= Stall /\ ticker.left \in 1..Interval /\ ticker.fired \in BOOLEAN
  BY DEF MonTypeOK, SlackBounded
<1> QED BY <1>1, IntervalPositive, MonitorAssumption DEF TillReap

\* Agents: whoever is cut off now was heard of until now.
LEMMA AgentsKeepClock ==
  ASSUME MonInv, ClockInv, NEW n \in Nodes, Join(n) \/ CutOff(n) \/ ComeBack(n)
  PROVE  ClockInv'
<1>1. /\ UNCHANGED <<beats, ticker, pc, slack>>
      /\ \A k \in Nodes \ {n} : agent'[k] = agent[k] /\ status'[k] = status[k] /\ age'[k] = age[k]
  BY DEF Join, CutOff, ComeBack, MonInv, MonTypeOK
<1>2. ~agent'[n].up => agent'[n].changed = 0 /\ age'[n] \in Nat
  BY DEF Join, CutOff, ComeBack, MonInv, MonTypeOK
<1>3. TillReap' = TillReap /\ TillReap \in Nat /\ TillReap <= Detect
  BY <1>1, TillReapBounded, DetectIs, IntervalPositive, MonitorAssumption
  DEF TillReap, MonInv, ClockInv
<1>4. SlackBounded'
  BY <1>1 DEF ClockInv, SlackBounded
<1>5. OldBeatsLeave'
  <2>1. \A i \in 1..Len(beats) : beats[i] \in Nodes
    BY DEF MonInv, MonTypeOK
  <2>2. slack \in Nat /\ slack <= Stall
    BY DEF MonInv, MonTypeOK, ClockInv, SlackBounded
  <2> QED BY <1>1, <1>2, <2>1, <2>2, MonitorAssumption DEF ClockInv, OldBeatsLeave
<1>6. AgeFollows'
  BY <1>1, <1>2, MonitorAssumption DEF ClockInv, AgeFollows
<1>7. ReapInTime'
  BY <1>1, <1>2, <1>3 DEF ClockInv, ReapInTime
<1> QED BY <1>4, <1>5, <1>6, <1>7 DEF ClockInv

LEMMA RecordKeepsClock ==
  ASSUME MonInv, ClockInv, NEW n \in Nodes, Record(n)
  PROVE  ClockInv'
<1>1. /\ UNCHANGED <<status, age, ticker, pc, slack>> /\ agent[n].up
      /\ \A k \in Nodes : agent'[k].up = agent[k].up /\ agent'[k].changed = agent[k].changed
  BY DEF Record, MonInv, MonTypeOK
<1>2. \A i \in 1..Len(beats') : beats'[i] = n \/ (i \in 1..Len(beats) /\ beats'[i] = beats[i])
  BY DEF MonInv, MonTypeOK, Record
<1>3. \A i \in 1..Len(beats) : beats[i] \in Nodes
  BY DEF MonInv, MonTypeOK
<1>4. OldBeatsLeave'
  BY <1>1, <1>2, <1>3 DEF ClockInv, OldBeatsLeave
<1>5. TillReap' = TillReap
  BY <1>1 DEF TillReap
<1> QED BY <1>1, <1>4, <1>5 DEF ClockInv, SlackBounded, AgeFollows, ReapInTime

\* A beat that is taken out was sent at most Stall + Gap units after the cut.
LEMMA TouchKeepsClock ==
  ASSUME MonInv, ClockInv, TouchHead,
         pc' = pc, slack' = slack \/ (slack' = 0 /\ pc = "select")
  PROVE  ClockInv'
<1> DEFINE h == Head(beats)
<1>1. /\ beats # <<>> /\ h \in Nodes /\ h = beats[1] /\ 1 \in 1..Len(beats)
      /\ \A i \in 1..Len(beats') : i + 1 \in 1..Len(beats) /\ beats'[i] = beats[i + 1]
  BY DEF TouchHead, MonInv, MonTypeOK
<1>2. /\ UNCHANGED <<ticker, agent>>
      /\ age'[h] = 0
      /\ \A k \in Nodes \ {h} : status'[k] = status[k] /\ age'[k] = age[k]
  BY <1>1 DEF TouchHead, MonInv, MonTypeOK
<1>3. slack \in Nat /\ slack' \in Nat /\ slack' <= slack /\ slack <= Stall
  BY MonitorAssumption DEF MonInv, MonTypeOK, ClockInv, SlackBounded
<1>4. \A k \in Nodes : agent[k].changed \in Nat
  BY DEF MonInv, MonTypeOK
<1>5. ~agent[h].up => agent[h].changed <= Stall + Gap
  <2> SUFFICES ASSUME ~agent[h].up PROVE agent[h].changed <= Stall + Gap
    OBVIOUS
  <2>1. agent[h].changed + slack <= Stall + (IF pc = "drain" THEN Gap ELSE 0)
    BY <1>1 DEF ClockInv, OldBeatsLeave
  <2> QED BY <1>1, <1>3, <1>4, <2>1, GapBounded
<1>6. TillReap' \in Nat /\ TillReap \in Nat /\ TillReap' <= TillReap
  <2>1. ticker.left \in Nat /\ ticker.fired \in BOOLEAN
    BY IntervalPositive DEF MonInv, MonTypeOK
  <2>2. CASE pc \in {"drain", "reap"}
    <3>1. TillReap = slack /\ TillReap' = slack'
      BY <1>2, <2>2 DEF TillReap
    <3> QED BY <1>3, <3>1
  <2>3. CASE pc \notin {"drain", "reap"} /\ ticker.fired
    <3>1. TillReap = slack + Gap /\ TillReap' = slack' + Gap
      BY <1>2, <2>3 DEF TillReap
    <3>2. slack + Gap \in Nat /\ slack' + Gap \in Nat /\ slack' + Gap <= slack + Gap
      BY <1>3, WithGap
    <3> QED BY <3>1, <3>2
  <2>4. CASE pc \notin {"drain", "reap"} /\ ~ticker.fired
    <3>1. TillReap = ticker.left + Stall + Gap /\ TillReap' = TillReap
      BY <1>2, <2>4 DEF TillReap
    <3> QED BY <2>1, <3>1, GapBounded
  <2> QED BY <2>2, <2>3, <2>4
<1>7. TillReap <= Interval + Stall + Gap
  BY TillReapBounded DEF MonInv, ClockInv
<1> HIDE DEF h
<1>8. SlackBounded'
  BY <1>3, MonitorAssumption DEF SlackBounded
<1>9. OldBeatsLeave'
  <2> SUFFICES ASSUME NEW i \in 1..Len(beats'), ~agent'[beats'[i]].up
               PROVE  agent'[beats'[i]].changed + slack' <= Stall + (IF pc' = "drain" THEN Gap ELSE 0)
    BY DEF OldBeatsLeave
  <2>1. i + 1 \in 1..Len(beats) /\ beats'[i] = beats[i + 1]
    BY <1>1
  <2>2. \A m \in 1..Len(beats) : beats[m] \in Nodes
    BY DEF MonInv, MonTypeOK
  <2>3. agent[beats[i + 1]].changed + slack <= Stall + (IF pc = "drain" THEN Gap ELSE 0)
    BY <1>2, <2>1 DEF ClockInv, OldBeatsLeave
  <2> QED BY <1>2, <1>3, <1>4, <2>1, <2>2, <2>3, GapBounded
<1>10. AgeFollows'
  BY <1>2, <1>4, <1>5, MonitorAssumption DEF ClockInv, AgeFollows
<1>11. ReapInTime'
  <2>1. ~agent[h].up => agent[h].changed + TillReap' <= Detect
    BY <1>1, <1>4, <1>5, <1>6, <1>7, DetectIs, IntervalPositive, MonitorAssumption
  <2>2. Detect \in Nat
    BY DetectNat
  <2> QED BY <1>2, <1>4, <1>6, <2>1, <2>2 DEF ClockInv, ReapInTime
<1> QED BY <1>8, <1>9, <1>10, <1>11 DEF ClockInv

LEMMA StepKeepsClock ==
  ASSUME MonInv, ClockInv, MonStep
  PROVE  ClockInv'
<1>1. CASE TakeBeat
  BY <1>1, TouchKeepsClock DEF TakeBeat
<1>2. CASE TakeTick
  <2>1. slack \in Nat /\ pc = "select" /\ \A k \in Nodes : agent[k].changed \in Nat
    BY <1>2 DEF TakeTick, MonInv, MonTypeOK
  <2>2. SlackBounded'
    BY <1>2, MonitorAssumption DEF TakeTick, SlackBounded
  <2>3. OldBeatsLeave'
    <3> SUFFICES ASSUME NEW i \in 1..Len(beats), ~agent[beats[i]].up
                 PROVE  agent[beats[i]].changed + Gap <= Stall + Gap
      BY <1>2 DEF TakeTick, OldBeatsLeave
    <3>1. beats[i] \in Nodes
      BY DEF MonInv, MonTypeOK
    <3>2. agent[beats[i]].changed + slack <= Stall
      BY <2>1, GapBounded DEF ClockInv, OldBeatsLeave
    <3> QED BY <2>1, <3>1, <3>2, GapBounded
  <2>4. AgeFollows'
    BY <1>2 DEF TakeTick, ClockInv, AgeFollows
  <2>5. TillReap \in Nat /\ TillReap' \in Nat /\ TillReap' <= TillReap
    BY <1>2, <2>1, MonitorAssumption DEF TakeTick, TillReap
  <2>6. ReapInTime'
    BY <1>2, <2>1, <2>5, DetectNat DEF TakeTick, ClockInv, ReapInTime
  <2> QED BY <2>2, <2>3, <2>4, <2>6 DEF ClockInv
<1>3. CASE Drain
  <2>1. CASE TouchHead /\ UNCHANGED <<pc, slack>>
    BY <2>1, TouchKeepsClock
  <2>2. CASE beats = <<>> /\ pc = "drain" /\ pc' = "reap" /\ UNCHANGED <<status, age, beats, ticker, slack, agent>>
    BY <2>2 DEF ClockInv, SlackBounded, OldBeatsLeave, AgeFollows, ReapInTime, TillReap
  <2> QED BY <1>3, <2>1, <2>2 DEF Drain
<1>4. CASE Reap
  <2>1. /\ UNCHANGED <<age, beats, ticker, slack, agent>>
        /\ pc = "reap" /\ pc' \in {"select", "handle"}
        /\ \A n \in Nodes : status'[n] = "online" => status[n] = "online" /\ ~(age[n] > Timeout)
    BY <1>4 DEF Reap, MonInv, MonTypeOK
  <2>2. SlackBounded' /\ OldBeatsLeave' /\ AgeFollows'
    BY <2>1 DEF ClockInv, SlackBounded, OldBeatsLeave, AgeFollows
  <2>3. \A n \in Nodes : age[n] \in Nat /\ agent[n].changed \in Nat
    BY MonitorAssumption DEF MonInv, MonTypeOK
  <2>4. TillReap' \in Nat /\ TillReap' <= Interval + Stall + Gap
    <3>1. slack \in Nat /\ slack <= Stall /\ ticker.left \in 1..Interval
      BY DEF MonInv, MonTypeOK, ClockInv, SlackBounded
    <3> QED BY <2>1, <3>1, IntervalPositive, MonitorAssumption DEF TillReap
  <2>5. ReapInTime'
    <3> SUFFICES ASSUME NEW n \in Nodes, ~agent'[n].up, status'[n] = "online"
                 PROVE  agent'[n].changed + TillReap' <= Detect
      BY DEF ReapInTime
    <3>1. agent[n].changed <= age[n] + Stall + Gap /\ age[n] <= Timeout
      BY <2>1, <2>3, MonitorAssumption DEF ClockInv, AgeFollows
    <3> QED BY <2>1, <2>3, <2>4, <3>1, DetectIs, IntervalPositive, MonitorAssumption
  <2> QED BY <2>2, <2>5 DEF ClockInv
<1>5. CASE Handled
  BY <1>5 DEF Handled, ClockInv, SlackBounded, OldBeatsLeave, AgeFollows, ReapInTime, TillReap
<1> QED BY <1>1, <1>2, <1>3, <1>4, <1>5 DEF MonStep

\* A unit that passes is one less until the next reap.
LEMMA PassKeepsClock ==
  ASSUME MonInv, ClockInv, Pass
  PROVE  ClockInv'
<1>1. /\ UNCHANGED <<status, beats, pc>>
      /\ slack \in Nat /\ slack <= Stall
      /\ slack' = IF Busy THEN slack - 1 ELSE Stall
      /\ Busy => slack > 0
  BY DEF Pass, MonInv, MonTypeOK, ClockInv, SlackBounded
<1>2. \A n \in Nodes :
        /\ age[n] \in Nat /\ agent[n].changed \in Nat /\ agent'[n].changed \in Nat
        /\ agent'[n].up = agent[n].up
        /\ agent'[n].changed <= agent[n].changed + 1
        /\ age'[n] \in Nat
        /\ age[n] <= Timeout => age'[n] = age[n] + 1
        /\ age[n] > Timeout => age'[n] > Timeout
  <2> SUFFICES ASSUME NEW n \in Nodes
      PROVE  /\ age[n] \in Nat /\ agent[n].changed \in Nat /\ agent'[n].changed \in Nat
             /\ agent'[n].up = agent[n].up
             /\ agent'[n].changed <= agent[n].changed + 1
             /\ age'[n] \in Nat
             /\ age[n] <= Timeout => age'[n] = age[n] + 1
             /\ age[n] > Timeout => age'[n] > Timeout
    OBVIOUS
  <2>1. age[n] \in 0..Timeout + 1 /\ agent[n].changed \in Nat
    BY DEF MonInv, MonTypeOK
  <2>2. /\ age'[n] = Capped(age[n], Timeout + 1)
        /\ agent'[n].changed = Capped(agent[n].changed, Detect + 1)
        /\ agent'[n].up = agent[n].up
    BY DEF Pass
  <2>3. /\ age'[n] \in Nat
        /\ age[n] <= Timeout => age'[n] = age[n] + 1
        /\ age[n] > Timeout => age'[n] > Timeout
    BY <2>1, <2>2, MonitorAssumption DEF Capped
  <2>4. agent'[n].changed \in Nat /\ agent'[n].changed <= agent[n].changed + 1
    BY <2>1, <2>2, DetectNat DEF Capped
  <2> QED BY <2>1, <2>2, <2>3, <2>4, MonitorAssumption
<1>3. TillReap \in Nat /\ TillReap' \in Int /\ TillReap' <= TillReap - 1
  <2>1. /\ ticker.left \in 1..Interval /\ ticker.fired \in BOOLEAN
        /\ ticker' = IF ticker.left = 1 THEN [fired |-> TRUE, left |-> Interval]
                     ELSE [ticker EXCEPT !.left = @ - 1]
        /\ ticker \in [fired : BOOLEAN, left : 1..Interval]
    BY DEF Pass, MonInv, MonTypeOK
  <2>2. \/ ticker.left = 1 /\ ticker'.fired
        \/ ticker.left > 1 /\ ticker'.fired = ticker.fired /\ ticker'.left = ticker.left - 1
    <3>1. CASE ticker.left = 1
      BY <2>1, <3>1
    <3>2. CASE ticker.left # 1
      <4>1. ticker.left > 1
        BY <2>1, <3>2, IntervalPositive
      <4>2. ticker' = [ticker EXCEPT !.left = ticker.left - 1]
        BY <2>1, <3>2
      <4> QED BY <2>1, <4>1, <4>2
    <3> QED BY <3>1, <3>2
  <2>3. CASE pc \in {"drain", "reap"}
    <3>1. Busy
      BY <2>3 DEF Busy
    <3> QED BY <1>1, <2>3, <3>1 DEF TillReap
  <2>4. CASE pc \notin {"drain", "reap"} /\ ticker.fired
    <3>1. Busy /\ ticker'.fired
      BY <2>2, <2>4 DEF Busy
    <3> QED BY <1>1, <2>4, <3>1, MonitorAssumption DEF TillReap
  <2>5. CASE pc \notin {"drain", "reap"} /\ ~ticker.fired
    <3>1. slack' \in Nat /\ slack' <= Stall
      BY <1>1, MonitorAssumption
    <3>2. TillReap = ticker.left + Stall + Gap
      BY <2>5 DEF TillReap
    <3>3. TillReap' = IF ticker'.fired THEN slack' + Gap ELSE ticker'.left + Stall + Gap
      BY <1>1, <2>5 DEF TillReap
    <3>4. ticker.left \in Nat
      BY <2>1, IntervalPositive
    <3>5. CASE ticker.left = 1 /\ ticker'.fired
      <4>1. TillReap = 1 + Stall + Gap /\ TillReap' = slack' + Gap
        BY <3>2, <3>3, <3>5
      <4>2. slack' + Gap \in Nat /\ slack' + Gap <= Stall + Gap
        BY <3>1, GapBounded, WithGap
      <4>3. 1 + Stall + Gap \in Nat /\ (1 + Stall + Gap) - 1 = Stall + Gap
        BY GapBounded
      <4> QED BY <4>1, <4>2, <4>3
    <3>6. CASE ticker.left > 1 /\ ticker'.fired = ticker.fired /\ ticker'.left = ticker.left - 1
      BY <2>5, <3>2, <3>3, <3>4, <3>6, GapBounded
    <3> QED BY <2>2, <3>5, <3>6
  <2> QED BY <2>3, <2>4, <2>5
<1>4. SlackBounded'
  BY <1>1, MonitorAssumption DEF SlackBounded
<1>5. OldBeatsLeave'
  <2> SUFFICES ASSUME NEW i \in 1..Len(beats), ~agent'[beats[i]].up
               PROVE  agent'[beats[i]].changed + slack' <= Stall + (IF pc = "drain" THEN Gap ELSE 0)
    BY <1>1 DEF OldBeatsLeave
  <2> DEFINE room == Stall + (IF pc = "drain" THEN Gap ELSE 0)
  <2>1. beats[i] \in Nodes /\ Busy
    BY DEF MonInv, MonTypeOK, Busy
  <2>2. agent[beats[i]].changed + slack <= room
    BY <1>2, <2>1 DEF ClockInv, OldBeatsLeave
  <2>3. room \in Nat
    BY GapBounded
  <2>4. slack' = slack - 1 /\ slack > 0
    BY <1>1, <2>1
  <2>5. /\ agent[beats[i]].changed \in Nat /\ agent'[beats[i]].changed \in Nat
        /\ agent'[beats[i]].changed <= agent[beats[i]].changed + 1
    BY <1>2, <2>1
  <2> HIDE DEF room
  <2>6. agent'[beats[i]].changed + (slack - 1) <= room
    BY <1>1, <2>2, <2>3, <2>4, <2>5, UnitShifts
  <2> QED BY <2>4, <2>6 DEF room
<1>6. AgeFollows'
  BY <1>1, <1>2, MonitorAssumption DEF ClockInv, AgeFollows
<1>7. ReapInTime'
  BY <1>1, <1>2, <1>3, DetectNat DEF ClockInv, ReapInTime
<1> QED BY <1>4, <1>5, <1>6, <1>7 DEF ClockInv

LEMMA ClockKept == MonInv /\ ClockInv /\ [MonNext]_monVars => ClockInv'
<1> SUFFICES ASSUME MonInv, ClockInv, [MonNext]_monVars PROVE ClockInv'
  OBVIOUS
<1>1. CASE \E n \in Nodes : Join(n) \/ CutOff(n) \/ ComeBack(n) \/ Record(n)
  BY <1>1, AgentsKeepClock, RecordKeepsClock
<1>2. CASE MonStep
  BY <1>2, StepKeepsClock
<1>3. CASE Pass
  BY <1>3, PassKeepsClock
<1>4. CASE UNCHANGED monVars
  BY <1>4 DEF monVars, ClockInv, SlackBounded, OldBeatsLeave, AgeFollows, ReapInTime, TillReap
<1> QED BY <1>1, <1>2, <1>3, <1>4 DEF MonNext

\* heartbeat.go promises that a node which no longer beats is found by the ticker: with
\* any timeout, channel size and number of nodes it is offline within Detect units,
\* although its last beats may refresh it late, ticks are dropped and the goroutine
\* may be held up for longer than the timeout.
THEOREM DeadNodesFound == MonSpec => []DeadIsOffline
<1>1. MonInit => MonInv /\ ClockInv
  <2>1. MonInit => ClockInv
    BY MonitorAssumption DEF MonInit, ClockInv, SlackBounded, OldBeatsLeave, AgeFollows, ReapInTime
  <2> QED BY <2>1, InitKeeps
<1>2. MonInv /\ ClockInv /\ [MonNext]_monVars => MonInv' /\ ClockInv'
  BY NextKeeps, ClockKept
<1>3. MonInv /\ ClockInv => DeadIsOffline
  <2> SUFFICES ASSUME MonInv, ClockInv, NEW n \in Nodes, ~agent[n].up, status[n] = "online"
               PROVE  ~(agent[n].changed > Detect)
    BY DEF DeadIsOffline
  <2>1. agent[n].changed \in Nat /\ TillReap \in Nat /\ agent[n].changed + TillReap <= Detect
    BY TillReapBounded DEF MonInv, MonTypeOK, ClockInv, ReapInTime
  <2> QED BY <2>1, DetectNat
<1> QED BY <1>1, <1>2, <1>3, PTL DEF MonSpec

-------------------------------------------------------------------------------
(* A node whose beats arrive is online. *)

\* The channel takes a beat of one node although every other has sent one for each
\* unit between two of its own: as many as agents that start and beat at once, are cut
\* off and start again can send.
RoomForBeats == QueueSize > (Cardinality(Nodes) - 1) * (BeatEvery + 1)

\* A node that beats is not reaped between two beats.
BeatsInTime == BeatEvery + 2 * Gap <= Timeout

Waits(n) == \E i \in 1..Len(beats) : beats[i] = n

\* An agent that has just sent a beat will not do so again in this unit.
BeatNow(n) == IF agent[n].up THEN agent[n].since = 0 ELSE agent[n].changed = 0

\* The beats in the channel can be dated: none is older than the last beat of n, and
\* no two are of one node and one unit.
SinceBeat(n, ago) ==
  /\ ago \in [1..Len(beats) -> 0..agent[n].since]
  /\ \A i, k \in 1..Len(beats) : beats[i] = beats[k] /\ ago[i] = ago[k] => i = k
  /\ \A i \in 1..Len(beats) : ago[i] = 0 => BeatNow(beats[i])

\* So there is room for n's next beat.
Fits(n) == \E ago \in [1..Len(beats) -> 0..agent[n].since] : SinceBeat(n, ago)

\* A beat of n has been taken out in the run through the channel that goes on.
JustHeard(n) ==
  \/ pc = "select" /\ slack = 0 /\ age[n] = 0
  \/ pc = "drain" /\ age[n] + slack <= Gap

\* What becomes of an agent that can reach the controller: its beats are known to the
\* registry and go on to be, ...
Known(n) ==
  /\ status[n] = "online"
  /\ pc = "reap" => age[n] + slack <= BeatEvery + 2 * Gap
  /\ Waits(n) \/ JustHeard(n) \/ (Fits(n) /\ age[n] <= agent[n].since + Gap)

Delay == IF pc = "drain" THEN Gap ELSE 0

\* ... or one of them waits, ...
Waiting(n) == Waits(n) /\ agent[n].changed + slack <= 2 * Stall + Gap + BeatEvery + Delay

\* ... or the next will find room, ...
Quiet(n) == Fits(n) /\ agent[n].changed <= Stall + Gap + agent[n].since

\* ... or it came back while the channel was full.
ShutOut(n) == agent[n].changed + slack <= Stall + Delay

Standing(n) == Known(n) \/ Waiting(n) \/ Quiet(n) \/ ShutOut(n)

QuickRound == pc \in {"drain", "reap"} => slack <= Gap

LiveInv == QuickRound /\ \A n \in Nodes : agent[n].up => Standing(n)

LEMMA LiveTyped ==
  ASSUME MonInv, ClockInv
  PROVE  /\ slack \in Nat /\ slack <= Stall /\ Delay \in Nat /\ Delay <= Gap
         /\ Len(beats) \in Nat /\ beats \in Seq(Nodes) /\ \A i \in 1..Len(beats) : beats[i] \in Nodes
         /\ \A n \in Nodes : /\ age[n] \in Nat /\ agent[n].changed \in Nat
                             /\ agent[n].since \in Nat /\ agent[n].since <= BeatEvery
                             /\ agent[n].up \in BOOLEAN
<1>1. slack \in Nat /\ slack <= Stall /\ Delay \in Nat /\ Delay <= Gap
  BY GapBounded DEF MonInv, MonTypeOK, ClockInv, SlackBounded, Delay
<1>2. Len(beats) \in Nat /\ beats \in Seq(Nodes) /\ \A i \in 1..Len(beats) : beats[i] \in Nodes
  BY DEF MonInv, MonTypeOK
<1>3. ASSUME NEW n \in Nodes
      PROVE  /\ age[n] \in Nat /\ agent[n].changed \in Nat
             /\ agent[n].since \in Nat /\ agent[n].since <= BeatEvery
             /\ agent[n].up \in BOOLEAN
  BY MonitorAssumption DEF MonInv, MonTypeOK
<1> QED BY <1>1, <1>2, <1>3

\* Every beat that waits is of another node and has a unit of its own: they are fewer
\* than the channel has places.
LEMMA RoomForNext ==
  ASSUME MonInv, ClockInv, RoomForBeats, NEW n \in Nodes, Fits(n), ~Waits(n)
  PROVE  Len(beats) < QueueSize
<1> DEFINE others == Nodes \ {n}
           places == others \X (0..BeatEvery)
           full   == (Cardinality(Nodes) - 1) * (BeatEvery + 1)
<1>1. PICK ago \in [1..Len(beats) -> 0..agent[n].since] : SinceBeat(n, ago)
  BY DEF Fits
<1> DEFINE spot == [i \in 1..Len(beats) |-> <<beats[i], ago[i]>>]
<1>2. spot \in [1..Len(beats) -> places]
  <2>1. ASSUME NEW i \in 1..Len(beats) PROVE beats[i] \in others /\ ago[i] \in 0..BeatEvery
    <3>1. beats[i] \in Nodes /\ beats[i] # n
      BY LiveTyped DEF Waits
    <3>2. ago[i] \in 0..agent[n].since /\ agent[n].since \in Nat /\ agent[n].since <= BeatEvery
      BY <1>1, LiveTyped
    <3> QED BY <3>1, <3>2, MonitorAssumption
  <2> QED BY <2>1
<1>3. IsFiniteSet(places) /\ Cardinality(places) = full
  <2>1. IsFiniteSet(others) /\ Cardinality(others) = Cardinality(Nodes) - 1
    BY NodesAssumption, FS_RemoveElement
  <2>2. IsFiniteSet(0..BeatEvery) /\ Cardinality(0..BeatEvery) = BeatEvery + 1
    BY FS_Interval, MonitorAssumption
  <2>3. IsFiniteSet(places) /\ Cardinality(places) = Cardinality(others) * Cardinality(0..BeatEvery)
    <3> HIDE DEF others
    <3> QED BY <2>1, <2>2, FS_Product
  <2> QED BY <2>1, <2>2, <2>3
<1>4. IsFiniteSet(1..Len(beats)) /\ Cardinality(1..Len(beats)) = Len(beats) /\ Len(beats) \in Nat
  <2>1. Len(beats) \in Nat
    BY LiveTyped
  <2>2. /\ IsFiniteSet(1..Len(beats))
        /\ Cardinality(1..Len(beats)) = IF 1 > Len(beats) THEN 0 ELSE Len(beats) - 1 + 1
    BY <2>1, FS_Interval
  <2> QED BY <2>1, <2>2
<1>5. \A i, k \in 1..Len(beats) : spot[i] = spot[k] => i = k
  BY <1>1 DEF SinceBeat
<1> HIDE DEF spot, places
<1>6. ~(Cardinality(places) < Cardinality(1..Len(beats)))
  <2> SUFFICES ASSUME Cardinality(places) < Cardinality(1..Len(beats)) PROVE FALSE
    OBVIOUS
  <2>1. \E i, k \in 1..Len(beats) : i # k /\ spot[i] = spot[k]
    BY <1>2, <1>3, <1>4, FS_PigeonHole
  <2> QED BY <1>5, <2>1
<1>7. Cardinality(places) \in Nat
  BY <1>3, FS_CardinalityType
<1>8. QueueSize > full /\ QueueSize \in Nat
  BY MonitorAssumption DEF RoomForBeats
<1> HIDE DEF full
<1> QED BY <1>3, <1>4, <1>6, <1>7, <1>8

LEMMA EmptyFits ==
  ASSUME NEW n \in Nodes, beats = <<>>
  PROVE  Fits(n)
<1> DEFINE ago == [i \in 1..Len(beats) |-> 0]
<1>1. Len(beats) = 0 /\ 1..Len(beats) = {}
  OBVIOUS
<1>2. ago \in [1..Len(beats) -> 0..agent[n].since]
  BY <1>1
<1>3. SinceBeat(n, ago)
  BY <1>1, <1>2 DEF SinceBeat
<1> QED BY <1>2, <1>3 DEF Fits

\* Nothing is put in or taken out, and nobody's last beat was of another unit.
LEMMA SameFits ==
  ASSUME MonInv, ClockInv, NEW n \in Nodes, Fits(n), beats' = beats, agent'[n].since = agent[n].since,
         \A k \in Nodes : BeatNow(k) => BeatNow(k)'
  PROVE  Fits(n)'
<1>1. PICK ago \in [1..Len(beats) -> 0..agent[n].since] : SinceBeat(n, ago)
  BY DEF Fits
<1>2. SinceBeat(n, ago)'
  BY <1>1, LiveTyped DEF SinceBeat
<1> QED BY <1>1, <1>2 DEF Fits

LEMMA AppendFits ==
  ASSUME MonInv, ClockInv, NEW n \in Nodes, Fits(n), NEW m \in Nodes, beats' = Append(beats, m),
         agent'[n].since = agent[n].since, ~BeatNow(m), BeatNow(m)',
         \A k \in Nodes : BeatNow(k) => BeatNow(k)'
  PROVE  Fits(n)'
<1>1. PICK ago \in [1..Len(beats) -> 0..agent[n].since] : SinceBeat(n, ago)
  BY DEF Fits
<1>2. /\ Len(beats) \in Nat /\ Len(beats') = Len(beats) + 1 /\ beats'[Len(beats) + 1] = m
      /\ \A i \in 1..Len(beats) : beats'[i] = beats[i] /\ beats[i] \in Nodes
  BY LiveTyped, AppendProperties
<1>3. agent[n].since \in Nat
  BY LiveTyped
<1>4. \A i \in 1..Len(beats') : i = Len(beats) + 1 \/ i \in 1..Len(beats)
  BY <1>2
<1>5. PICK new \in [1..Len(beats') -> 0..agent'[n].since] :
        \A i \in 1..Len(beats') : new[i] = IF i = Len(beats) + 1 THEN 0 ELSE ago[i]
  <2> DEFINE f == [i \in 1..Len(beats') |-> IF i = Len(beats) + 1 THEN 0 ELSE ago[i]]
  <2>1. f \in [1..Len(beats') -> 0..agent'[n].since]
    BY <1>1, <1>3, <1>4
  <2> QED BY <2>1
<1>6. \A i \in 1..Len(beats) : beats[i] = m => ago[i] # 0
  BY <1>1 DEF SinceBeat
<1>7. Len(beats) + 1 \notin 1..Len(beats) /\ \A i \in 1..Len(beats) : i \in 1..Len(beats') /\ new[i] = ago[i]
  BY <1>2, <1>5
<1>8. Len(beats) + 1 \in 1..Len(beats') /\ new[Len(beats) + 1] = 0
  BY <1>2, <1>5
<1>9. \A i, k \in 1..Len(beats') : beats'[i] = beats'[k] /\ new[i] = new[k] => i = k
  BY <1>1, <1>2, <1>4, <1>6, <1>7, <1>8 DEF SinceBeat
<1>10. ASSUME NEW i \in 1..Len(beats'), new[i] = 0
       PROVE  IF agent'[beats'[i]].up THEN agent'[beats'[i]].since = 0 ELSE agent'[beats'[i]].changed = 0
  <2>1. PICK k \in Nodes : k = beats'[i] /\ (k = m \/ BeatNow(k))
    BY <1>1, <1>2, <1>4, <1>7, <1>10 DEF SinceBeat
  <2>2. BeatNow(k)'
    BY <2>1
  <2> QED BY <2>1, <2>2 DEF BeatNow
<1>11. SinceBeat(n, new)'
  BY <1>5, <1>9, <1>10 DEF SinceBeat, BeatNow
<1> QED BY <1>5, <1>11 DEF Fits

LEMMA TailFits ==
  ASSUME MonInv, ClockInv, NEW n \in Nodes, Fits(n), TouchHead
  PROVE  Fits(n)'
<1>1. PICK ago \in [1..Len(beats) -> 0..agent[n].since] : SinceBeat(n, ago)
  BY DEF Fits
<1>2. /\ Len(beats) \in Nat /\ Len(beats') \in Nat /\ agent' = agent
      /\ \A i \in 1..Len(beats') : i + 1 \in 1..Len(beats) /\ beats'[i] = beats[i + 1]
  BY DEF TouchHead, MonInv, MonTypeOK
<1>3. PICK new \in [1..Len(beats') -> 0..agent'[n].since] :
        \A i \in 1..Len(beats') : new[i] = ago[i + 1]
  <2> DEFINE f == [i \in 1..Len(beats') |-> ago[i + 1]]
  <2>1. f \in [1..Len(beats') -> 0..agent'[n].since]
    BY <1>1, <1>2
  <2> QED BY <2>1
<1>4. ASSUME NEW i \in 1..Len(beats'), NEW k \in 1..Len(beats'), beats'[i] = beats'[k], new[i] = new[k]
      PROVE  i = k
  <2>1. i + 1 = k + 1
    BY <1>1, <1>2, <1>3, <1>4 DEF SinceBeat
  <2> QED BY <2>1
<1>5. ASSUME NEW i \in 1..Len(beats'), new[i] = 0
      PROVE  IF agent'[beats'[i]].up THEN agent'[beats'[i]].since = 0 ELSE agent'[beats'[i]].changed = 0
  BY <1>1, <1>2, <1>3, <1>5 DEF SinceBeat, BeatNow
<1>6. SinceBeat(n, new)'
  BY <1>3, <1>4, <1>5 DEF SinceBeat, BeatNow
<1> QED BY <1>3, <1>6 DEF Fits

LEMMA PassFits ==
  ASSUME MonInv, ClockInv, NEW n \in Nodes, agent[n].up, Fits(n), Pass
  PROVE  Fits(n)'
<1>1. PICK ago \in [1..Len(beats) -> 0..agent[n].since] : SinceBeat(n, ago)
  BY DEF Fits
<1>2. beats' = beats /\ agent'[n].since = agent[n].since + 1 /\ agent[n].since \in Nat
  BY LiveTyped DEF Pass
<1>3. PICK new \in [1..Len(beats') -> 0..agent'[n].since] :
        \A i \in 1..Len(beats) : new[i] = ago[i] + 1 /\ ago[i] \in Nat
  <2> DEFINE f == [i \in 1..Len(beats') |-> ago[i] + 1]
  <2>1. f \in [1..Len(beats') -> 0..agent'[n].since]
    BY <1>1, <1>2
  <2>2. \A i \in 1..Len(beats) : ago[i] \in Nat
    BY <1>1, <1>2
  <2> QED BY <1>2, <2>1, <2>2
<1>4. ASSUME NEW i \in 1..Len(beats), NEW k \in 1..Len(beats), beats[i] = beats[k], new[i] = new[k]
      PROVE  i = k
  BY <1>1, <1>3, <1>4 DEF SinceBeat
<1>5. \A i \in 1..Len(beats) : new[i] # 0
  BY <1>3
<1>6. SinceBeat(n, new)'
  BY <1>2, <1>3, <1>4, <1>5 DEF SinceBeat
<1> QED BY <1>3, <1>6 DEF Fits

\* An agent that is cut off, starts or comes back: it begins anew, and is nothing to
\* the others.
LEMMA AgentsStand ==
  ASSUME MonInv, ClockInv, LiveInv, NEW m \in Nodes, Join(m) \/ CutOff(m) \/ ComeBack(m)
  PROVE  LiveInv'
<1>1. /\ UNCHANGED <<beats, ticker, pc, slack>>
      /\ \A k \in Nodes \ {m} : agent'[k] = agent[k] /\ status'[k] = status[k] /\ age'[k] = age[k]
      /\ agent'[m].changed = 0
  BY DEF Join, CutOff, ComeBack, MonInv, MonTypeOK
<1>2. agent'[m].up => ShutOut(m)'
  BY <1>1, LiveTyped, MonitorAssumption DEF ShutOut, Delay
<1>3. BeatNow(m) => BeatNow(m)'
  <2>1. CASE CutOff(m)
    BY <1>1, <2>1 DEF CutOff, BeatNow, MonInv, MonTypeOK
  <2>2. CASE Join(m) \/ ComeBack(m)
    BY <2>2, LiveTyped DEF Join, ComeBack, Away, BeatNow
  <2> QED BY <2>1, <2>2
<1>4. \A k \in Nodes : BeatNow(k) => BeatNow(k)'
  BY <1>1, <1>3 DEF BeatNow
<1>5. ASSUME NEW n \in Nodes \ {m}, agent[n].up PROVE Standing(n)'
  <2>1. Fits(n) => Fits(n)'
    BY <1>1, <1>4, SameFits
  <2>2. Standing(n)
    BY <1>5 DEF LiveInv
  <2>3. Waits(n)' <=> Waits(n)
    BY <1>1 DEF Waits
  <2>4. JustHeard(n)' <=> JustHeard(n)
    BY <1>1 DEF JustHeard
  <2> QED BY <1>1, <2>1, <2>2, <2>3, <2>4 DEF Standing, Known, Waiting, Quiet, ShutOut, Delay
<1> QED BY <1>1, <1>2, <1>5 DEF LiveInv, QuickRound, Standing

LEMMA RecordStands ==
  ASSUME MonInv, ClockInv, LiveInv, RoomForBeats, NEW m \in Nodes, Record(m)
  PROVE  LiveInv'
<1>1. /\ UNCHANGED <<status, age, ticker, pc, slack>>
      /\ agent[m].up /\ agent[m].since = BeatEvery /\ BeatEvery \in Nat \ {0}
      /\ agent'[m].up /\ agent'[m].since = 0
      /\ \A k \in Nodes : agent'[k].up = agent[k].up /\ agent'[k].changed = agent[k].changed
      /\ \A k \in Nodes \ {m} : agent'[k] = agent[k]
  BY MonitorAssumption DEF Record, MonInv, MonTypeOK
<1>2. beats' = Append(beats, m) \/ (beats' = beats /\ ~(Len(beats) < QueueSize))
  BY DEF Record
<1>3. Len(beats) < QueueSize => Waits(m)'
  <2> SUFFICES ASSUME Len(beats) < QueueSize PROVE Waits(m)'
    OBVIOUS
  <2>1. beats' = Append(beats, m) /\ Len(beats) \in Nat /\ beats \in Seq(Nodes)
    BY LiveTyped DEF Record
  <2>2. Len(beats') = Len(beats) + 1 /\ beats'[Len(beats) + 1] = m
    BY <2>1, AppendProperties
  <2> QED BY <2>1, <2>2 DEF Waits
<1>4. \A n \in Nodes : Waits(n) => Waits(n)'
  <2>1. Len(beats) \in Nat /\ beats \in Seq(Nodes)
    BY LiveTyped
  <2>2. beats' = beats \/ (Len(beats') = Len(beats) + 1 /\ \A i \in 1..Len(beats) : beats'[i] = beats[i])
    BY <1>2, <2>1, AppendProperties
  <2> QED BY <2>1, <2>2 DEF Waits
<1>5. ~BeatNow(m) /\ BeatNow(m)' /\ \A k \in Nodes : BeatNow(k) => BeatNow(k)'
  BY <1>1 DEF BeatNow
<1>6. ASSUME NEW n \in Nodes, agent[n].up PROVE Standing(n)'
  <2>1. n # m /\ Fits(n) => Fits(n)'
    BY <1>1, <1>2, <1>5, SameFits, AppendFits
  <2>2. n = m /\ Fits(n) => Waits(n)'
    BY <1>3, <1>4, RoomForNext
  <2>3. Standing(n)
    BY <1>6 DEF LiveInv
  <2>4. JustHeard(n) => JustHeard(n)'
    BY <1>1 DEF JustHeard
  <2>5. Delay' = Delay /\ Delay \in Nat
    BY <1>1, LiveTyped DEF Delay
  <2>6. CASE Known(n)
    BY <1>1, <1>4, <2>1, <2>2, <2>4, <2>6 DEF Standing, Known
  <2>7. CASE Waiting(n)
    BY <1>1, <1>4, <2>5, <2>7 DEF Standing, Waiting
  <2>8. CASE Quiet(n)
    <3>1. CASE n = m
      <4>1. agent[n].changed <= Stall + Gap + BeatEvery
        BY <1>1, <2>8, <3>1 DEF Quiet
      <4>2. agent[n].changed + slack <= 2 * Stall + Gap + BeatEvery + Delay
        BY <2>5, <4>1, LiveTyped, MonitorAssumption
      <4> QED BY <1>1, <2>2, <2>5, <2>8, <3>1, <4>2 DEF Standing, Quiet, Waiting
    <3>2. CASE n # m
      BY <1>1, <2>1, <2>8, <3>2 DEF Standing, Quiet
    <3> QED BY <3>1, <3>2
  <2>9. CASE ShutOut(n)
    BY <1>1, <2>5, <2>9 DEF Standing, ShutOut
  <2> QED BY <2>3, <2>6, <2>7, <2>8, <2>9 DEF Standing
<1> QED BY <1>1, <1>6 DEF LiveInv, QuickRound

\* Taking a beat out makes its node known and keeps everybody else's standing.
LEMMA TouchStands ==
  ASSUME MonInv, ClockInv, LiveInv, TouchHead, pc' = pc,
         \/ pc = "select" /\ slack' = 0
         \/ pc = "drain" /\ slack' = slack
  PROVE  LiveInv'
<1>1. PICK h \in Nodes : h = Head(beats)
  BY DEF TouchHead, MonInv, MonTypeOK
<1>2. /\ h = beats[1] /\ Len(beats) \in Nat /\ Len(beats') = Len(beats) - 1
      /\ \A i \in 1..Len(beats') : beats'[i] = beats[i + 1]
  BY <1>1 DEF TouchHead, MonInv, MonTypeOK
<1>3. /\ UNCHANGED <<ticker, agent>>
      /\ status'[h] = "online" /\ age'[h] = 0
      /\ \A k \in Nodes \ {h} : status'[k] = status[k] /\ age'[k] = age[k]
  BY <1>1 DEF TouchHead, MonInv, MonTypeOK
<1>4. slack \in Nat /\ slack' \in Nat /\ slack' <= slack /\ Delay' = Delay /\ Delay \in Nat
  BY LiveTyped DEF Delay
<1>5. QuickRound'
  BY DEF LiveInv, QuickRound
<1>6. Known(h)'
  <2>1. CASE pc = "select" /\ slack' = 0
    BY <1>3, <2>1 DEF Known, JustHeard
  <2>2. CASE pc = "drain" /\ slack' = slack
    <3>1. slack' <= Gap
      BY <1>5, <2>2 DEF QuickRound
    <3>2. age'[h] + slack' <= Gap
      BY <1>3, <1>4, <3>1
    <3> QED BY <1>3, <2>2, <3>2 DEF Known, JustHeard
  <2> QED BY <2>1, <2>2
<1>7. ASSUME NEW n \in Nodes \ {h}, agent[n].up PROVE Standing(n)'
  <2>1. Fits(n) => Fits(n)'
    BY TailFits
  <2>2. Waits(n) => Waits(n)'
    <3> SUFFICES ASSUME NEW i \in 1..Len(beats), beats[i] = n PROVE Waits(n)'
      BY DEF Waits
    <3>1. i - 1 \in 1..Len(beats') /\ beats'[i - 1] = beats[i]
      BY <1>2, <1>7
    <3> QED BY <3>1 DEF Waits
  <2>3. JustHeard(n) => JustHeard(n)'
    BY <1>3, <1>4 DEF JustHeard
  <2>4. Standing(n) /\ agent[n].changed \in Nat
    BY <1>7, LiveTyped DEF LiveInv
  <2>5. CASE Known(n)
    BY <1>3, <2>1, <2>2, <2>3, <2>5 DEF Standing, Known
  <2>6. CASE Waiting(n)
    BY <1>3, <1>4, <2>2, <2>4, <2>6, MonitorAssumption DEF Standing, Waiting
  <2>7. CASE Quiet(n)
    BY <1>3, <2>1, <2>7 DEF Standing, Quiet
  <2>8. CASE ShutOut(n)
    BY <1>3, <1>4, <2>4, <2>8, MonitorAssumption DEF Standing, ShutOut
  <2> QED BY <2>4, <2>5, <2>6, <2>7, <2>8 DEF Standing
<1> QED BY <1>3, <1>5, <1>6, <1>7 DEF LiveInv, Standing

LEMMA TickStands ==
  ASSUME MonInv, ClockInv, LiveInv, TakeTick
  PROVE  LiveInv'
<1>1. /\ UNCHANGED <<status, age, beats, agent>> /\ pc = "select" /\ pc' = "drain" /\ slack' = Gap
      /\ Gap \in Nat /\ slack \in Nat /\ Delay = 0 /\ Delay' = Gap
  BY GapBounded, LiveTyped DEF TakeTick, Delay
<1>2. ASSUME NEW n \in Nodes, agent[n].up PROVE Standing(n)'
  <2>1. Fits(n) => Fits(n)'
    BY <1>1 DEF Fits, SinceBeat, BeatNow
  <2>2. Waits(n) => Waits(n)'
    BY <1>1 DEF Waits
  <2>3. JustHeard(n) => JustHeard(n)'
    BY <1>1 DEF JustHeard
  <2>4. Standing(n) /\ agent[n].changed \in Nat
    BY <1>2, LiveTyped DEF LiveInv
  <2>5. CASE Known(n)
    BY <1>1, <2>1, <2>2, <2>3, <2>5 DEF Standing, Known
  <2>6. CASE Waiting(n)
    BY <1>1, <2>2, <2>4, <2>6, MonitorAssumption DEF Standing, Waiting
  <2>7. CASE Quiet(n)
    BY <1>1, <2>1, <2>7 DEF Standing, Quiet
  <2>8. CASE ShutOut(n)
    BY <1>1, <2>4, <2>8, MonitorAssumption DEF Standing, ShutOut
  <2> QED BY <2>4, <2>5, <2>6, <2>7, <2>8 DEF Standing
<1> QED BY <1>1, <1>2 DEF LiveInv, QuickRound

\* When the channel has been found empty, nobody waits and everybody's next beat fits.
LEMMA DrainedStands ==
  ASSUME MonInv, ClockInv, LiveInv, pc = "drain", beats = <<>>, pc' = "reap",
         UNCHANGED <<status, age, beats, ticker, slack, agent>>
  PROVE  LiveInv'
<1>1. slack <= Gap /\ slack \in Nat /\ Gap \in Nat /\ BeatEvery \in Nat /\ Stall \in Nat
  BY LiveTyped, GapBounded, MonitorAssumption DEF LiveInv, QuickRound
<1>2. ASSUME NEW n \in Nodes, agent[n].up PROVE Standing(n)'
  <2>1. Fits(n)'
    <3>1. Fits(n)
      BY EmptyFits
    <3>2. \A k \in Nodes : BeatNow(k) => BeatNow(k)'
      BY DEF BeatNow
    <3> QED BY <3>1, <3>2, SameFits
  <2>2. ~Waits(n)
    BY DEF Waits
  <2>3. /\ Standing(n) /\ agent[n].changed \in Nat /\ age[n] \in Nat
        /\ agent[n].since \in Nat /\ agent[n].since <= BeatEvery
    BY <1>2, LiveTyped DEF LiveInv
  <2>4. CASE Known(n)
    <3>1. age[n] <= agent[n].since + Gap /\ age[n] + slack <= BeatEvery + 2 * Gap
      BY <1>1, <2>2, <2>3, <2>4 DEF Known, JustHeard
    <3> QED BY <2>1, <2>4, <3>1 DEF Standing, Known
  <2>5. CASE Quiet(n)
    BY <2>1, <2>5 DEF Standing, Quiet
  <2>6. CASE ShutOut(n)
    <3>1. agent[n].changed <= Stall + Gap + agent[n].since
      BY <1>1, <2>3, <2>6 DEF ShutOut, Delay
    <3> QED BY <2>1, <3>1 DEF Standing, Quiet
  <2> QED BY <2>2, <2>3, <2>4, <2>5, <2>6 DEF Standing, Waiting
<1> QED BY <1>1, <1>2 DEF LiveInv, QuickRound

\* A node that is known is too young for ReapStale.
LEMMA ReapStands ==
  ASSUME MonInv, ClockInv, LiveInv, BeatsInTime, Reap \/ Handled
  PROVE  LiveInv'
<1>1. UNCHANGED <<age, beats, ticker, slack, agent>> /\ pc \in {"reap", "handle"} /\ pc' \in {"select", "handle"}
  BY DEF Reap, Handled
<1>2. ASSUME NEW n \in Nodes, agent[n].up PROVE Standing(n)'
  <2>1. Fits(n) => Fits(n)'
    BY <1>1 DEF Fits, SinceBeat, BeatNow
  <2>2. (Waits(n) => Waits(n)') /\ ~JustHeard(n) /\ Delay' = Delay
    BY <1>1 DEF Waits, JustHeard, Delay
  <2>3. Known(n) => Known(n)'
    <3> SUFFICES ASSUME Known(n) PROVE status'[n] = "online"
      BY <1>1, <2>1, <2>2 DEF Known
    <3>1. CASE Reap
      <4>1. age[n] <= Timeout
        BY <3>1, LiveTyped, MonitorAssumption DEF Reap, Known, BeatsInTime
      <4>2. ~(age[n] > Timeout)
        BY <4>1, LiveTyped, MonitorAssumption
      <4> QED BY <3>1, <4>2 DEF Reap, Known
    <3>2. CASE Handled
      BY <3>2 DEF Handled, Known
    <3> QED BY <3>1, <3>2
  <2>4. Standing(n)
    BY <1>2 DEF LiveInv
  <2> QED BY <1>1, <2>1, <2>2, <2>3, <2>4 DEF Standing, Waiting, Quiet, ShutOut
<1> QED BY <1>1, <1>2 DEF LiveInv, QuickRound

LEMMA PassStands ==
  ASSUME MonInv, ClockInv, LiveInv, Pass
  PROVE  LiveInv'
<1>1. /\ UNCHANGED <<status, beats, pc>> /\ Delay' = Delay /\ Delay \in Nat
      /\ slack \in Nat /\ slack <= Stall /\ Stall \in Nat /\ Gap \in Nat /\ BeatEvery \in Nat
      /\ Busy => slack > 0 /\ slack' = slack - 1
      /\ ~Busy => slack' = Stall
  BY LiveTyped, GapBounded, MonitorAssumption DEF Pass, Delay
<1>2. QuickRound'
  BY <1>1 DEF LiveInv, QuickRound, Busy
<1>3. ASSUME NEW n \in Nodes, agent'[n].up PROVE Standing(n)'
  <2>1. /\ age[n] \in Nat /\ age'[n] \in Nat /\ age'[n] <= age[n] + 1
        /\ agent[n].changed \in Nat /\ agent'[n].changed \in Nat
        /\ agent'[n].changed <= agent[n].changed + 1
        /\ agent[n].up /\ agent[n].since \in Nat /\ agent'[n].since = agent[n].since + 1
    <3>1. age[n] \in Nat /\ agent[n].changed \in Nat /\ agent[n].since \in Nat
      BY LiveTyped
    <3>2. /\ age'[n] = Capped(age[n], Timeout + 1)
          /\ agent'[n].changed = Capped(agent[n].changed, Detect + 1)
          /\ agent'[n].up = agent[n].up
          /\ agent'[n].since = IF agent[n].up THEN agent[n].since + 1 ELSE 0
      BY DEF Pass
    <3>3. age'[n] \in Nat /\ age'[n] <= age[n] + 1
      BY <3>1, <3>2, MonitorAssumption DEF Capped
    <3>4. agent'[n].changed \in Nat /\ agent'[n].changed <= agent[n].changed + 1
      BY <3>1, <3>2, DetectNat DEF Capped
    <3> QED BY <1>3, <3>1, <3>2, <3>3, <3>4
  <2>2. Fits(n) => Fits(n)'
    BY <2>1, PassFits
  <2>3. ~Busy => beats = <<>> /\ pc = "select" /\ Fits(n)'
    <3>1. ~Busy => beats = <<>> /\ pc = "select"
      BY DEF Busy
    <3>2. beats = <<>> => Fits(n)
      BY EmptyFits
    <3> QED BY <2>2, <3>1, <3>2
  <2>4. Waits(n) => Busy /\ Waits(n)'
    BY <1>1 DEF Waits, Busy
  <2>5. Standing(n)
    BY <2>1 DEF LiveInv
  <2>6. CASE Known(n)
    <3>1. pc = "reap" => age'[n] + slack' <= BeatEvery + 2 * Gap
      BY <1>1, <2>1, <2>6 DEF Known, Busy
    <3>2. JustHeard(n) => JustHeard(n)' \/ (Fits(n)' /\ age'[n] <= agent'[n].since + Gap)
      <4>1. CASE pc = "select" /\ slack = 0 /\ age[n] = 0
        <5>1. Fits(n)'
          BY <1>1, <2>3, <4>1
        <5> QED BY <1>1, <2>1, <4>1, <5>1
      <4>2. CASE pc = "drain" /\ age[n] + slack <= Gap
        <5>1. Busy
          BY <4>2 DEF Busy
        <5> QED BY <1>1, <2>1, <4>2, <5>1 DEF JustHeard
      <4> QED BY <4>1, <4>2 DEF JustHeard
    <3>3. Fits(n) /\ age[n] <= agent[n].since + Gap => Fits(n)' /\ age'[n] <= agent'[n].since + Gap
      BY <1>1, <2>1, <2>2
    <3> QED BY <1>1, <2>4, <2>6, <3>1, <3>2, <3>3 DEF Standing, Known
  <2>7. CASE Waiting(n)
    BY <1>1, <2>1, <2>4, <2>7 DEF Standing, Waiting
  <2>8. CASE Quiet(n)
    <3>1. agent'[n].changed <= Stall + Gap + agent'[n].since
      BY <1>1, <2>1, <2>8 DEF Quiet
    <3> QED BY <2>2, <2>8, <3>1 DEF Standing, Quiet
  <2>9. CASE ShutOut(n)
    <3>1. CASE Busy
      BY <1>1, <2>1, <2>9, <3>1 DEF Standing, ShutOut
    <3>2. CASE ~Busy
      <4>1. agent[n].changed <= Stall
        BY <1>1, <2>1, <2>3, <2>9, <3>2 DEF ShutOut, Delay
      <4>2. agent'[n].changed <= Stall + Gap + agent'[n].since
        BY <1>1, <2>1, <4>1
      <4> QED BY <2>3, <3>2, <4>2 DEF Standing, Quiet
    <3> QED BY <3>1, <3>2
  <2> QED BY <2>5, <2>6, <2>7, <2>8, <2>9 DEF Standing
<1> QED BY <1>2, <1>3 DEF LiveInv

LEMMA LiveKept ==
  ASSUME RoomForBeats, BeatsInTime
  PROVE  MonInv /\ ClockInv /\ LiveInv /\ [MonNext]_monVars => LiveInv'
<1> SUFFICES ASSUME MonInv, ClockInv, LiveInv, [MonNext]_monVars PROVE LiveInv'
  OBVIOUS
<1>1. CASE \E n \in Nodes : Join(n) \/ CutOff(n) \/ ComeBack(n) \/ Record(n)
  BY <1>1, RoomForBeats, AgentsStand, RecordStands
<1>2. CASE TakeBeat
  BY <1>2, TouchStands DEF TakeBeat
<1>3. CASE TakeTick
  BY <1>3, TickStands
<1>4. CASE Drain
  BY <1>4, TouchStands, DrainedStands DEF Drain
<1>5. CASE Reap \/ Handled
  BY <1>5, BeatsInTime, ReapStands
<1>6. CASE Pass
  BY <1>6, PassStands
<1>7. CASE UNCHANGED monVars
  BY <1>7 DEF monVars, LiveInv, QuickRound, Standing, Known, Waiting, Quiet, ShutOut, Waits,
              JustHeard, Fits, SinceBeat, BeatNow, Delay
<1> QED BY <1>1, <1>2, <1>3, <1>4, <1>5, <1>6, <1>7 DEF MonNext, MonStep

\* heartbeat.go: a full queue "Drops the beat ...; the next one will refresh liveness".
\* With a channel as large as RoomForBeats says, any number of nodes and any delays of
\* the goroutine, a node that has been reached for Recover units is online: no beat
\* that is dropped or waits, and no tick that comes at the wrong time, gets it reaped.
THEOREM LiveNodesOnline ==
  ASSUME RoomForBeats, BeatsInTime PROVE MonSpec => []LiveIsOnline
<1>1. MonInit => MonInv /\ ClockInv /\ LiveInv
  <2>1. MonInit => ClockInv
    BY MonitorAssumption DEF MonInit, ClockInv, SlackBounded, OldBeatsLeave, AgeFollows, ReapInTime
  <2>2. MonInit => LiveInv
    BY DEF MonInit, LiveInv, QuickRound
  <2> QED BY <2>1, <2>2, InitKeeps
<1>2. MonInv /\ ClockInv /\ LiveInv /\ [MonNext]_monVars => MonInv' /\ ClockInv' /\ LiveInv'
  BY RoomForBeats, BeatsInTime, NextKeeps, ClockKept, LiveKept
<1>3. MonInv /\ ClockInv /\ LiveInv => LiveIsOnline
  <2> SUFFICES ASSUME MonInv, ClockInv, LiveInv, NEW n \in Nodes, agent[n].up, agent[n].changed > Recover
               PROVE  status[n] = "online"
    BY DEF LiveIsOnline
  <2>1. /\ agent[n].changed \in Nat /\ agent[n].since \in Nat /\ agent[n].since <= BeatEvery
        /\ slack \in Nat /\ Delay \in Nat /\ Delay <= Gap
    BY LiveTyped
  <2>2. agent[n].changed > 2 * (BeatEvery + Stall + Gap)
    BY DEF Recover
  <2>3. ~Waiting(n) /\ ~Quiet(n) /\ ~ShutOut(n)
    BY <2>1, <2>2, MonitorAssumption DEF Waiting, Quiet, ShutOut
  <2> QED BY <2>3 DEF LiveInv, Standing, Known
<1> QED BY <1>1, <1>2, <1>3, RoomForBeats, BeatsInTime, PTL DEF MonSpec

-------------------------------------------------------------------------------
(* Refinement: what each action does to the registry as Controller sees it. *)

\* Nothing the flag is made of changes.
LEMMA ViewUnchanged == UNCHANGED <<status, age>> => UNCHANGED LateView
BY DEF LateView

LEMMA JoinRefines ==
  ASSUME MonInv, NEW n \in Nodes, Join(n)
  PROVE  Reg!RegisterNode(n, 1)
<1>1. status' = [status EXCEPT ![n] = "online"] /\ age' = [age EXCEPT ![n] = 0]
  BY DEF Join
<1>2. status \in [Nodes -> {"absent", "online", "offline"}] /\ age \in [Nodes -> 0..Timeout + 1]
  BY DEF MonInv, MonTypeOK
<1>3. ASSUME NEW k \in Nodes
      PROVE  LateView'[k] = IF k = n THEN [status |-> "online", total |-> 1, alloc |-> 0,
                                           job |-> NoJob, late |-> FALSE]
                            ELSE LateView[k]
  <2>1. CASE k = n
    <3>1. status'[n] = "online" /\ age'[n] = 0
      BY <1>1, <1>2
    <3>2. ~(age'[n] > Timeout)
      BY <3>1, MonitorAssumption
    <3>3. LateView'[n] = [status |-> "online", total |-> 1, alloc |-> 0, job |-> NoJob, late |-> FALSE]
      BY <3>1, <3>2 DEF LateView
    <3> QED BY <2>1, <3>3
  <2>2. CASE k # n
    <3>1. status'[k] = status[k] /\ age'[k] = age[k]
      BY <1>1, <1>2, <2>2
    <3> QED BY <2>2, <3>1 DEF LateView
  <2> QED BY <2>1, <2>2
<1> QED BY <1>3 DEF LateView, Reg!RegisterNode

\* What LateView makes of a registered node, and what a beat makes of that.
ViewRec == [status : {"absent", "online", "offline"}, total : {1}, alloc : {0},
            job : {NoJob}, late : BOOLEAN]

LEMMA ViewOnline ==
  ASSUME NEW v \in ViewRec, NEW w, w = [v EXCEPT !.status = "online"]
  PROVE  w \in ViewRec /\ w.status = "online"
BY DEF ViewRec

LEMMA ViewFresh ==
  ASSUME NEW v \in ViewRec, NEW w, w = [v EXCEPT !.late = FALSE]
  PROVE  w \in ViewRec /\ w.late = FALSE /\ w.status = v.status
BY DEF ViewRec

LEMMA ViewTouched ==
  ASSUME NEW v \in ViewRec
  PROVE  [[v EXCEPT !.status = "online"] EXCEPT !.late = FALSE]
           = [status |-> "online", total |-> 1, alloc |-> 0, job |-> NoJob, late |-> FALSE]
<1> DEFINE on == [v EXCEPT !.status = "online"]
           w  == [on EXCEPT !.late = FALSE]
<1>1. on \in ViewRec /\ on.status = "online"
  BY ViewOnline
<1>2. w \in ViewRec /\ w.late = FALSE /\ w.status = on.status
  BY <1>1, ViewFresh
<1> HIDE DEF on, w
<1>3. w = [status |-> "online", total |-> 1, alloc |-> 0, job |-> NoJob, late |-> FALSE]
  BY <1>1, <1>2 DEF ViewRec
<1> QED BY <1>3 DEF on, w

LEMMA TouchRefines ==
  ASSUME MonInv, TouchHead
  PROVE  Head(beats) \in Nodes /\ Reg!Touch(Head(beats))
<1> DEFINE n == Head(beats)
<1>1. n \in Nodes /\ status[n] # "absent"
  BY DEF MonInv, MonTypeOK, BeatsAreKnown, TouchHead
<1>2. status' = [status EXCEPT ![n] = "online"] /\ age' = [age EXCEPT ![n] = 0]
  BY DEF TouchHead
<1>3. status \in [Nodes -> {"absent", "online", "offline"}] /\ age \in [Nodes -> 0..Timeout + 1]
  BY DEF MonInv, MonTypeOK
<1> HIDE DEF n
<1>4. ASSUME NEW k \in Nodes
      PROVE  LateView'[k] = IF k = n THEN [[LateView[k] EXCEPT !.status = "online"] EXCEPT !.late = FALSE]
                            ELSE LateView[k]
  <2>1. CASE k = n
    <3>1. status'[n] = "online" /\ age'[n] = 0
      BY <1>1, <1>2, <1>3
    <3>2. ~(age'[n] > Timeout)
      BY <3>1, MonitorAssumption
    <3>3. LateView'[n] = [status |-> "online", total |-> 1, alloc |-> 0, job |-> NoJob, late |-> FALSE]
      BY <1>1, <3>1, <3>2 DEF LateView
    <3>4. LateView[n] \in ViewRec
      BY <1>1, MonitorAssumption DEF LateView, ViewRec, MonInv, MonTypeOK
    <3> QED BY <2>1, <3>3, <3>4, ViewTouched
  <2>2. CASE k # n
    <3>1. status'[k] = status[k] /\ age'[k] = age[k]
      BY <1>1, <1>2, <2>2, <1>3
    <3> QED BY <2>2, <3>1 DEF LateView
  <2> QED BY <2>1, <2>2
<1>5. LateView[n].status # "absent"
  BY <1>1 DEF LateView
<1>6. Reg!Touch(n)
  <2>1. LateView' = [LateView EXCEPT ![n] = [[@ EXCEPT !.status = "online"] EXCEPT !.late = FALSE]]
    BY <1>1, <1>4 DEF LateView
  <2>2. Reg!Registered(n)
    BY <1>5 DEF Reg!Registered
  <2> QED BY <2>1, <2>2 DEF Reg!Touch
<1> QED BY <1>1, <1>6 DEF n

LEMMA ReapRefines ==
  ASSUME MonInv, Reap
  PROVE  Reg!ReapStale
<1>1. /\ status' = [n \in Nodes |->
                     IF status[n] = "online" /\ age[n] > Timeout THEN "offline" ELSE status[n]]
      /\ age' = age
  BY DEF Reap
<1>2. ASSUME NEW n \in Nodes
      PROVE  LateView'[n] = IF n \in Reg!Stale THEN [LateView[n] EXCEPT !.status = "offline"]
                            ELSE LateView[n]
  BY <1>1 DEF LateView, Reg!Stale
<1> QED BY <1>2 DEF LateView, Reg!ReapStale

\* Time makes registered nodes late and does nothing else.
LEMMA PassRefines ==
  ASSUME MonInv, Pass
  PROVE  \E late \in SUBSET {n \in Nodes : Reg!Registered(n)} :
           LateView' = [n \in Nodes |-> [LateView[n] EXCEPT !.late = @ \/ n \in late]]
<1> DEFINE grown == {n \in Nodes : status[n] # "absent" /\ age'[n] > Timeout}
<1>1. status' = status /\ age' = [n \in Nodes |-> Capped(age[n], Timeout + 1)]
  BY DEF Pass
<1>2. age \in [Nodes -> 0..Timeout + 1]
  BY DEF MonInv, MonTypeOK
<1>3. ASSUME NEW n \in Nodes PROVE age[n] > Timeout => age'[n] > Timeout
  BY <1>1, <1>2, MonitorAssumption DEF Capped
<1>4. grown \in SUBSET {n \in Nodes : Reg!Registered(n)}
  BY DEF Reg!Registered, LateView
<1>5. ASSUME NEW n \in Nodes
      PROVE  LateView'[n] = [LateView[n] EXCEPT !.late = @ \/ n \in grown]
  <2>1. status'[n] = status[n]
    BY <1>1
  <2>2. (status'[n] # "absent" /\ age'[n] > Timeout)
          <=> ((status[n] # "absent" /\ age[n] > Timeout) \/ n \in grown)
    BY <2>1, <1>3
  <2> HIDE DEF grown
  <2>3. /\ LateView'[n] = [status |-> status[n], total |-> IF status[n] = "absent" THEN 0 ELSE 1,
                           alloc |-> 0, job |-> NoJob,
                           late |-> status'[n] # "absent" /\ age'[n] > Timeout]
        /\ LateView[n] = [status |-> status[n], total |-> IF status[n] = "absent" THEN 0 ELSE 1,
                          alloc |-> 0, job |-> NoJob,
                          late |-> status[n] # "absent" /\ age[n] > Timeout]
    BY <2>1 DEF LateView
  <2>4. LateView[n].late = (status[n] # "absent" /\ age[n] > Timeout)
    BY <2>3
  <2>5. (LateView[n].late \/ n \in grown) <=> (status'[n] # "absent" /\ age'[n] > Timeout)
    BY <2>2, <2>4
  <2> QED BY <2>3, <2>5
<1>6. LateView' = [n \in Nodes |-> [LateView[n] EXCEPT !.late = @ \/ n \in grown]]
  BY <1>5 DEF LateView
<1> HIDE DEF grown
<1> QED BY <1>4, <1>6

LEMMA StepRefines == MonInv /\ [MonNext]_monVars => [LateNext]_LateView
<1> SUFFICES ASSUME MonInv, [MonNext]_monVars PROVE LateNext \/ UNCHANGED LateView
  OBVIOUS
<1>1. ASSUME NEW n \in Nodes, Join(n) PROVE LateNext
  BY <1>1, JoinRefines DEF LateNext
<1>2. ASSUME NEW n \in Nodes, CutOff(n) \/ ComeBack(n) \/ Record(n) PROVE UNCHANGED LateView
  BY <1>2, ViewUnchanged DEF CutOff, ComeBack, Record
<1>3. CASE TakeBeat \/ (Drain /\ TouchHead)
  <2>1. TouchHead
    BY <1>3 DEF TakeBeat
  <2> QED BY <2>1, TouchRefines DEF LateNext
<1>4. CASE TakeTick \/ (Drain /\ ~TouchHead) \/ Handled \/ UNCHANGED monVars
  <2>1. UNCHANGED <<status, age>>
    BY <1>4 DEF TakeTick, Drain, Handled, monVars
  <2> QED BY <2>1, ViewUnchanged
<1>5. CASE Reap
  BY <1>5, ReapRefines DEF LateNext
<1>6. CASE Pass
  BY <1>6, PassRefines DEF LateNext
<1> QED BY <1>1, <1>2, <1>3, <1>4, <1>5, <1>6 DEF MonNext, MonStep

LEMMA InitRefines == MonInit => Reg!RegInit
<1> SUFFICES ASSUME MonInit
             PROVE  LateView = [n \in Nodes |-> Reg!Unregistered]
  BY DEF Reg!RegInit
<1>1. ASSUME NEW n \in Nodes PROVE status[n] = "absent"
  BY DEF MonInit
<1>2. ASSUME NEW n \in Nodes PROVE LateView[n] = Reg!Unregistered
  BY <1>1 DEF LateView, Reg!Unregistered, NoJob, Reg!NoJob
<1> QED BY <1>2 DEF LateView

\* Controller's abstraction of time is sound: with any timeout, channel size and
\* delays of the goroutine, Monitor.Run and the agents do to the registry what
\* RegisterNode, Touch, ReapStale and nodes turning late may do, and no more.
THEOREM MonitorImplementsLateFlag == MonSpec => ImplementsLateFlag
<1>1. MonInit => MonInv
  BY InitKeeps
<1>2. MonInv /\ [MonNext]_monVars => MonInv'
  BY NextKeeps
<1>3. MonInit => Reg!RegInit
  BY InitRefines
<1>4. MonInv /\ [MonNext]_monVars => [LateNext]_LateView
  BY StepRefines
<1> QED BY <1>1, <1>2, <1>3, <1>4, PTL DEF MonSpec, ImplementsLateFlag
================================================================================
