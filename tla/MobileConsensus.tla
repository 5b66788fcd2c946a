-------------------------- MODULE MobileConsensus ---------------------------
(* The consensus of Badache, Hurfin and Macedo among the mobile hosts of a  *)
(* network of support stations: badacheAndHurfinAndMacedo99 of INF2056.     *)
(* The stations run rounds with a rotating coordinator on behalf of the     *)
(* hosts, and decide a set of the hosts' values.  The value of a host is    *)
(* its name.  A message arrives alone, and none is lost: most take the same *)
(* time, so that they arrive in the order in which they were sent, and a    *)
(* bounded number is delayed for as long as may be.                         *)
EXTENDS Integers, SequencesExt

CONSTANTS
  n,              \* support stations, numbered from 1 as Sinalgo does
  hosts,          \* mobile hosts, numbered after the stations
  alpha,          \* hosts whose values are enough for a decision
  MaxRound,       \* bound: no station enters a later round
  MaxStarts,      \* bound: times that the user starts a consensus
  MaxHandoffs,    \* bound: moves of mobile hosts
  MaxLate         \* bound: messages that others overtake

MSSs == 1 .. n
MHs == (n + 1) .. (n + hosts)
Rounds == 0 .. (MaxRound + 1)

ASSUME ConsensusAssumption ==
  /\ n \in Nat \ {0} /\ hosts \in Nat /\ alpha \in Nat /\ MaxRound \in Nat
  /\ MaxStarts \in Nat /\ MaxHandoffs \in Nat /\ MaxLate \in Nat

VARIABLES
  mss,            \* the fields of each station
  connectedMSS,   \* the station of each mobile host
  network,        \* the messages in flight, in the order of their arrival
  late,           \* the bag of the delayed ones
  starts, handoffs, delays,        \* what is spent of the bounds
  restarted       \* history: a station that had decided was started again

vars == <<mss, connectedMSS, network, late, starts, handoffs, delays, restarted>>

findCoordinator(r) == (r % n) + 1

(* More than half of the stations. *)
Majority(k) == 2 * k > n

(* log.get(r).size(), copies included. *)
Size(entries) ==
  Cardinality(UNION {{e} \X (1 .. entries[e]) : e \in BagToSet(entries)})

NewStation ==
  [roundR |-> 0, roundPhase |-> 0, decidedState |-> FALSE, ts |-> 0,
   p |-> {}, newV |-> {}, v |-> {}, endCollect |-> FALSE,
   log |-> [r \in Rounds |-> EmptyBag],
   nbPositiveAck |-> [r \in Rounds |-> 0],
   nbNegativeAck |-> [r \in Rounds |-> 0]]

-----------------------------------------------------------------------------
(* Messages.  A handler is a function of the fields of station i and of     *)
(* what it has sent so far: c.st and c.out.                                 *)

Init1Message(i) == [type |-> "INIT_1", to |-> i]
Init2Message(i, j) == [type |-> "INIT_2", from |-> i, to |-> j]
Init3Message(i, h) == [type |-> "INIT_3", from |-> i, to |-> h]
ProposeMessage(h, i) == [type |-> "PROPOSE", from |-> h, to |-> i]
DecideMessage(i, s, j) == [type |-> "DECIDE", from |-> i, to |-> j, v |-> s.v]
EstimateMessage(i, s, vals) ==
  [type |-> "ESTIMATE", from |-> i, to |-> findCoordinator(s.roundR),
   r |-> s.roundR, newV |-> vals, p |-> s.p, ts |-> s.ts]
NewEstimateMessage(i, s, j) ==
  [type |-> "NEW_EST", from |-> i, to |-> j, r |-> s.roundR,
   v |-> s.v, p |-> s.p, endCollect |-> s.endCollect]
AckMessage(i, positive, r, j) ==
  [type |-> "ACK", from |-> i, to |-> j, r |-> r, positive |-> positive]

(* A station has no edge to itself: a message that it sends itself with     *)
(* send() is dropped, and sendDirect() delivers it.                         *)
Send(c, msg) == [c EXCEPT !.out = Append(@, msg)]
SendAll(c, msgs) == [c EXCEPT !.out = @ \o SetToSeq(msgs)]
Others(i) == MSSs \ {i}

(* Hosts within reach of a station that are connected to another one ignore *)
(* what it broadcasts.                                                      *)
BroadcastInit3(i, c) ==
  SendAll(c, {Init3Message(i, h) : h \in {g \in MHs : connectedMSS[g] = i}})

-----------------------------------------------------------------------------
(* The phases.  Every callback leaves its phase, so phaseEnteredCallback is *)
(* never set between two messages.                                          *)

(* Seeded fault: one host less is enough. *)
CollectedEarly(s) == s.endCollect \/ Cardinality(s.p) >= alpha - 1

Collected(s) == s.endCollect \/ Cardinality(s.p) >= alpha

(* Seeded fault: the coordinator ignores what others have adopted. *)
BestEstimatesNew(s) == {s.newV}

(* The set that the coordinator proposes: the one with the greatest ts of   *)
(* its log, or everything it collected.                                     *)
BestEstimates(s) ==
  LET entries == BagToSet(s.log[s.roundR])
      tmax == Max({e.ts : e \in entries})
  IN  IF tmax > 0 THEN {e.v : e \in {f \in entries : f.ts = tmax}}
                  ELSE {s.newV}

(* Seeded fault: the coordinator stays in phase 2. *)
ProposeAgain(i, c) ==
  IF c.st.roundPhase = 2 /\ Majority(Size(c.st.log[c.st.roundR]))
  THEN {LET s == [c.st EXCEPT !.v = best]
        IN  SendAll(Send([c EXCEPT !.st = s], NewEstimateMessage(i, s, i)),
                    {NewEstimateMessage(i, s, j) : j \in Others(i)})
          : best \in BestEstimates(c.st)}
  ELSE {c}

(* Phase 2: the coordinator has a majority of estimates. *)
ProposeEstimate(i, c) ==
  IF c.st.roundPhase = 2 /\ Majority(Size(c.st.log[c.st.roundR]))
  THEN {LET s == [c.st EXCEPT !.v = best, !.roundPhase = 3]
        IN  SendAll(Send([c EXCEPT !.st = s], NewEstimateMessage(i, s, i)),
                    {NewEstimateMessage(i, s, j) : j \in Others(i)})
          : best \in BestEstimates(c.st)}
  ELSE {c}

(* Phase 1: a new round. *)
StartRound(i, c) ==
  LET r == c.st.roundR + 1
      s == [c.st EXCEPT !.roundR = r,
              !.v = IF c.st.ts = 0 THEN c.st.newV ELSE @,
              !.roundPhase = IF i = findCoordinator(r) THEN 2 ELSE 3]
  IN  ProposeEstimate(i, Send([c EXCEPT !.st = s], EstimateMessage(i, s, s.v)))

(* Seeded fault: negative acknowledgements count as positive ones. *)
ConcludeAny(i, c) ==
  LET s == c.st
  IN  IF s.roundPhase # 4
         \/ ~Majority(s.nbPositiveAck[s.roundR] + s.nbNegativeAck[s.roundR])
      THEN {c}
      ELSE {SendAll(
              [c EXCEPT !.st.decidedState = TRUE, !.st.roundPhase = 0],
              {DecideMessage(i, s, j) : j \in Others(i)})}

(* Phase 4: the coordinator has a majority of acknowledgements. *)
Conclude(i, c) ==
  LET s == c.st
  IN  IF s.roundPhase # 4
         \/ ~Majority(s.nbPositiveAck[s.roundR] + s.nbNegativeAck[s.roundR])
      THEN {c}
      ELSE IF Majority(s.nbPositiveAck[s.roundR])
      THEN {SendAll(
              [c EXCEPT !.st.decidedState = TRUE, !.st.roundPhase = 0],
              {DecideMessage(i, s, j) : j \in Others(i)})}
      ELSE StartRound(i, c)

onPhaseChanged(i, c) == UNION {Conclude(i, d) : d \in ProposeEstimate(i, c)}

-----------------------------------------------------------------------------
(* The handlers of a station. *)

onInit(i, c) ==
  IF c.st.roundPhase # 0 THEN {c}
  ELSE {IF d.st.endCollect THEN d ELSE BroadcastInit3(i, d)
          : d \in StartRound(i,
                   SendAll(c, {Init2Message(i, j) : j \in Others(i)}))}

onPropose(i, c, m) ==
  LET s == [c.st EXCEPT !.p = @ \cup {m.from}, !.newV = @ \cup {m.from}]
      t == [s EXCEPT !.endCollect = Collected(s)]
  IN  IF c.st.endCollect THEN {c}
      ELSE {IF t.roundPhase > 1
            THEN Send([c EXCEPT !.st = t], EstimateMessage(i, t, t.newV))
            ELSE [c EXCEPT !.st = t]}

(* Seeded fault: a station keeps its own set. *)
onDecideOwn(i, c, m) ==
  IF c.st.decidedState THEN {c}
  ELSE LET s == [c.st EXCEPT !.decidedState = TRUE, !.roundPhase = 0]
       IN  {SendAll([c EXCEPT !.st = s],
                    {DecideMessage(i, s, j) : j \in Others(i)})}

onDecide(i, c, m) ==
  IF c.st.decidedState THEN {c}
  ELSE LET s == [c.st EXCEPT !.decidedState = TRUE, !.v = m.v, !.roundPhase = 0]
       IN  {SendAll([c EXCEPT !.st = s],
                    {DecideMessage(i, s, j) : j \in Others(i)})}

(* Of the entries of one station with one ts, the largest stay.  An entry   *)
(* has an identity: the same estimate twice makes two.                      *)
Logged(entries, e) ==
  LET all == entries (+) SetToBag({e})
      rivals == {f \in BagToSet(all) : f.mssNode = e.mssNode /\ f.ts = e.ts}
      largest == Max({Cardinality(f.v) : f \in rivals})
  IN  [f \in {g \in BagToSet(all) :
               g \in rivals => Cardinality(g.v) = largest} |-> all[f]]

onEstimate(i, c, m) ==
  LET e == [mssNode |-> m.from, v |-> m.newV, ts |-> m.ts]
      s == [c.st EXCEPT !.log[m.r] = Logged(@, e)]
      t == [s EXCEPT !.p = @ \cup m.p, !.newV = @ \cup m.newV]
  IN  {[c EXCEPT !.st = IF s.endCollect THEN s
                        ELSE [t EXCEPT !.endCollect = Collected(t)]]}

(* Seeded fault: the number of acknowledgements is set, not increased. *)
onAckOnce(c, m) ==
  {IF m.positive THEN [c EXCEPT !.st.nbPositiveAck[m.r] = 1]
                 ELSE [c EXCEPT !.st.nbNegativeAck[m.r] = 1]}

onAck(c, m) ==
  {IF m.positive THEN [c EXCEPT !.st.nbPositiveAck[m.r] = @ + 1]
                 ELSE [c EXCEPT !.st.nbNegativeAck[m.r] = @ + 1]}

(* Seeded fault: a station acknowledges that it has collected enough. *)
onNewEstimateOwn(i, c, m) ==
  LET s == IF m.endCollect
           THEN [c.st EXCEPT !.v = m.v, !.ts = m.r, !.endCollect = TRUE]
           ELSE [c.st EXCEPT !.p = @ \cup m.p, !.newV = @ \cup m.v]
      t == [s EXCEPT !.endCollect = Collected(s)]
      d == [c EXCEPT !.st = IF m.endCollect THEN s ELSE t]
  IN  IF c.st.roundPhase # 3 THEN {c}
      ELSE IF m.from = i THEN {[d EXCEPT !.st.roundPhase = 4]}
      ELSE StartRound(i, Send(d, AckMessage(i, d.st.endCollect, m.r, m.from)))

(* A station in phase 3 takes the proposal of any round. *)
onNewEstimate(i, c, m) ==
  LET s == IF m.endCollect
           THEN [c.st EXCEPT !.v = m.v, !.ts = m.r, !.endCollect = TRUE]
           ELSE [c.st EXCEPT !.p = @ \cup m.p, !.newV = @ \cup m.v]
      t == [s EXCEPT !.endCollect = Collected(s)]
      d == [c EXCEPT !.st = IF m.endCollect THEN s ELSE t]
  IN  IF c.st.roundPhase # 3 THEN {c}
      ELSE IF m.from = i THEN {[d EXCEPT !.st.roundPhase = 4]}
      ELSE StartRound(i, Send(d, AckMessage(i, m.endCollect, m.r, m.from)))

handleMessage(i, c, m) ==
  CASE m.type \in {"INIT_1", "INIT_2"} -> onInit(i, c)
    [] m.type = "PROPOSE"  -> onPropose(i, c, m)
    [] m.type = "DECIDE"   -> onDecide(i, c, m)
    [] m.type = "ESTIMATE" -> onEstimate(i, c, m)
    [] m.type = "ACK"      -> onAck(c, m)
    [] m.type = "NEW_EST"  -> onNewEstimate(i, c, m)

(* Message m arrives and a station or a host handles it; rest is what stays *)
(* on its way, and sent what its handler sends.                             *)
handleMessages(m, rest) ==
  /\ m.to \in MSSs
  /\ restarted' = \/ restarted
                   \/ /\ m.type \in {"INIT_1", "INIT_2"}
                      /\ mss[m.to].decidedState /\ mss[m.to].roundPhase = 0
  /\ \E d \in handleMessage(m.to, [st |-> mss[m.to], out |-> <<>>], m) :
     \E e \in onPhaseChanged(m.to, d) :
       /\ e.st.roundR <= MaxRound
       /\ mss' = [mss EXCEPT ![m.to] = e.st]
       /\ network' = rest \o e.out

handleInit3(m, rest) ==
  /\ m.to \in MHs
  /\ network' = IF m.from = connectedMSS[m.to]
                THEN Append(rest, ProposeMessage(m.to, m.from)) ELSE rest
  /\ UNCHANGED <<mss, restarted>>

Arrive ==
  /\ \/ /\ network # <<>>
        /\ \/ handleMessages(Head(network), Tail(network))
           \/ handleInit3(Head(network), Tail(network))
        /\ UNCHANGED late
     \/ \E m \in BagToSet(late) :
          /\ handleMessages(m, network) \/ handleInit3(m, network)
          /\ late' = late (-) SetToBag({m})
  /\ UNCHANGED <<connectedMSS, starts, handoffs, delays>>

(* The next message takes longer than those behind it. *)
Delay ==
  /\ network # <<>> /\ delays < MaxLate
  /\ network' = Tail(network)
  /\ late' = late (+) SetToBag({Head(network)})
  /\ delays' = delays + 1
  /\ UNCHANGED <<mss, connectedMSS, starts, handoffs, restarted>>

-----------------------------------------------------------------------------
(* The mobile hosts. *)

(* A host proposes its value to the station it finds first. *)
Init ==
  /\ mss = [i \in MSSs |-> NewStation]
  /\ connectedMSS \in [MHs -> MSSs]
  /\ network = [k \in 1 .. hosts |-> ProposeMessage(n + k, connectedMSS[n + k])]
  /\ late = EmptyBag
  /\ starts = 0 /\ handoffs = 0 /\ delays = 0
  /\ restarted = FALSE

startConsensus(h) ==
  /\ starts < MaxStarts
  /\ starts' = starts + 1
  /\ network' = Append(network, Init1Message(connectedMSS[h]))
  /\ UNCHANGED <<mss, connectedMSS, late, handoffs, delays, restarted>>

(* The host moved, and found another station. *)
setConnectedMSS(h) ==
  /\ handoffs < MaxHandoffs
  /\ \E i \in MSSs \ {connectedMSS[h]} :
       /\ connectedMSS' = [connectedMSS EXCEPT ![h] = i]
       /\ network' = Append(network, ProposeMessage(h, i))
  /\ handoffs' = handoffs + 1
  /\ UNCHANGED <<mss, late, starts, delays, restarted>>

Next == \/ Arrive \/ Delay
        \/ \E h \in MHs : startConsensus(h) \/ setConnectedMSS(h)

(* A message in flight arrives in the end. *)
Spec == Init /\ [][Next]_vars /\ WF_vars(Arrive)

-----------------------------------------------------------------------------
InFlight == Range(network) \cup BagToSet(late)

(* The types of the fields, and where messages go.                          *)
TypeOK ==
  /\ \A i \in MSSs :
       /\ mss[i].roundR \in Rounds /\ mss[i].roundPhase \in 0 .. 4
       /\ mss[i].decidedState \in BOOLEAN /\ mss[i].ts \in Rounds
       /\ mss[i].p \subseteq MHs /\ mss[i].newV \subseteq MHs
       /\ mss[i].v \subseteq MHs /\ mss[i].endCollect \in BOOLEAN
       /\ \A r \in Rounds : IsABag(mss[i].log[r])
  /\ connectedMSS \in [MHs -> MSSs]
  /\ \A m \in InFlight : m.to \in IF m.type = "INIT_3" THEN MHs ELSE MSSs
  /\ IsABag(late) /\ restarted \in BOOLEAN

(* All hosts must agree on one set of values, so all stations that have     *)
(* decided hold the same one, whatever reached them afterwards.             *)
Agreement ==
  \A i, j \in MSSs :
    mss[i].decidedState /\ mss[j].decidedState => mss[i].v = mss[j].v

(* Nothing but a station that takes part again after it has decided breaks  *)
(* the agreement (MSSNode.java:71): no delay, loss of turn or handoff does. *)
AgreedUntilRestart == restarted \/ Agreement

(* From the first estimate that a station adopts, every estimate that is    *)
(* adopted is the same: otherwise two rounds could decide different sets.   *)
EstimatesLocked ==
  \/ restarted
  \/ \A i, j \in MSSs :
       mss[i].ts > 0 /\ mss[j].ts > 0 => mss[i].v = mss[j].v

(* A decision holds the values of alpha hosts at least, although p, which   *)
(* is counted, and the sets of values grow from different messages.         *)
DecidesEnough ==
  \/ restarted
  \/ \A i \in MSSs : mss[i].decidedState => Cardinality(mss[i].v) >= alpha

(* A round has one proposal: the NEW_ESTs of one round that are on their    *)
(* way carry one set, and one endCollect, however often the condition of    *)
(* phase 2 holds and whoever coordinates again (MSSNode.java:241).          *)
OneProposal ==
  \A l, m \in InFlight :
    l.type = "NEW_EST" /\ m.type = "NEW_EST" /\ l.r = m.r =>
      l.from = m.from /\ l.v = m.v /\ l.p = m.p /\ l.endCollect = m.endCollect

(* Acknowledgements have no names: the majority that phase 4 counts is one  *)
(* of different stations only because each other station answers a round    *)
(* once at most, and all that answer it answer the same (MSSNode.java:254). *)
AcksFromDifferent ==
  \A i \in MSSs, r \in Rounds :
    LET positive == mss[i].nbPositiveAck[r]
        negative == mss[i].nbNegativeAck[r]
    IN  positive + negative < n /\ (positive = 0 \/ negative = 0)

(* Whoever has decided did so because some coordinator had a majority of    *)
(* positive acknowledgements of one round, however the DECIDE reached it.   *)
DecidedByMajority ==
  (\E i \in MSSs : mss[i].decidedState)
  => \E i \in MSSs, r \in Rounds : Majority(mss[i].nbPositiveAck[r])

(* Without delays, a consensus that was started is decided by all stations, *)
(* whatever the hosts do: a NEW_EST finds every station in phase 3.         *)
AllDecide ==
  starts > 0 ~> \/ \A i \in MSSs : mss[i].decidedState
                \/ delays > 0
=============================================================================
