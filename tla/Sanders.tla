------------------------------ MODULE Sanders ------------------------------
(***************************************************************************)
(* Sanders' algorithm for distributed mutual exclusion, as SandersNode     *)
(* implements it: a node enters its critical section when every arbiter of *)
(* its district has voted for it; an arbiter has one vote, and asks it     *)
(* back (INQ) from a candidate when an older request arrives.              *)
(*                                                                         *)
(* The simulator calls the nodes in rounds.  A message takes no or two     *)
(* rounds (RandomRound) and one more when a SendMessageTimer sends it; it  *)
(* overtakes others and is never lost.  Here a message in msgs may arrive  *)
(* at any time, but a timer fires in a later round than it was started in: *)
(* the request of round t arrives, and its loop sees votes, after t.       *)
(***************************************************************************)
EXTENDS Integers, FiniteSets, Bags

CONSTANTS Node,         \* the IDs of the nodes
          District,     \* DistrictRepository.coteries: the arbiters of each node
          MaxRound,     \* bound on the rounds
          MaxRequests   \* bound: how often each node requests

ASSUME SandersAssumption ==
  /\ IsFiniteSet(Node) /\ Node \subseteq Nat \ {0}
  /\ District \in [Node -> SUBSET Node]
  /\ MaxRound \in Nat /\ MaxRequests \in [Node -> Nat]

NoNode == 0

VARIABLES
  curTS,                        \* the round: every node's postStep counts it
  inCS, requestedCS, myTS, yesVotes,           \* as a requester
  hasVoted, cand, candTS, inquired, deferredQ, \* as an arbiter
  msgs,                         \* bag of the messages on their way
  requests,                     \* bound: requests so far
  late                          \* history: a vote was given back by a node that had
                                \* left its critical section (and released it already)

requester == <<inCS, requestedCS, myTS, yesVotes>>
arbiter == <<hasVoted, cand, candTS, inquired, deferredQ>>
vars == <<curTS, requester, arbiter, msgs, requests, late>>

Msg(type, from, to, ts) == [type |-> type, from |-> from, to |-> to, ts |-> ts]
Yes(from, to) == SetToBag({Msg("YES", from, to, 0)})

Init ==
  /\ curTS = 0
  /\ inCS = [n \in Node |-> FALSE]
  /\ requestedCS = [n \in Node |-> FALSE]
  /\ myTS = [n \in Node |-> 0]
  /\ yesVotes = [n \in Node |-> 0]
  /\ hasVoted = [n \in Node |-> FALSE]
  /\ cand = [n \in Node |-> NoNode]
  /\ candTS = [n \in Node |-> 0]
  /\ inquired = [n \in Node |-> FALSE]
  /\ deferredQ = [n \in Node |-> EmptyBag]
  /\ msgs = EmptyBag
  /\ requests = [n \in Node |-> 0]
  /\ late = FALSE

(* ProcessingRequest.compareTo: the older request first, then the smaller ID. *)
Precedes(p, q) == p[1] < q[1] \/ (p[1] = q[1] /\ p[2] < q[2])

Wants(n) == requestedCS[n] \/ inCS[n]

First(queue) ==
  CHOOSE p \in BagToSet(queue) : \A q \in BagToSet(queue) \ {p} : Precedes(p, q)

-----------------------------------------------------------------------------
(* Requesting and leaving: preStep, or the menu of the simulator. *)
RequestCS(n) ==
  /\ ~requestedCS[n] /\ ~inCS[n]
  /\ requests[n] < MaxRequests[n] /\ curTS < MaxRound
  /\ requests[n] = 0 \/ myTS[n] < curTS      \* a later round than the last request
  /\ requests' = [requests EXCEPT ![n] = @ + 1]
  /\ myTS' = [myTS EXCEPT ![n] = curTS]
  /\ msgs' = msgs (+) SetToBag({Msg("REQ", n, r, curTS) : r \in District[n]})
  /\ LET enters == yesVotes[n] >= Cardinality(District[n]) IN
       /\ inCS' = [inCS EXCEPT ![n] = enters]
       /\ requestedCS' = [requestedCS EXCEPT ![n] = ~enters]
  /\ UNCHANGED <<curTS, yesVotes, arbiter, late>>

(* Seeded fault: one vote less is enough. *)
EnterCSLoopEarly(n) ==
  /\ requestedCS[n] /\ myTS[n] < curTS
  /\ yesVotes[n] + 1 >= Cardinality(District[n])
  /\ inCS' = [inCS EXCEPT ![n] = TRUE]
  /\ requestedCS' = [requestedCS EXCEPT ![n] = FALSE]
  /\ UNCHANGED <<curTS, myTS, yesVotes, arbiter, msgs, requests, late>>

EnterCSLoop(n) ==
  /\ requestedCS[n] /\ myTS[n] < curTS
  /\ yesVotes[n] >= Cardinality(District[n])
  /\ inCS' = [inCS EXCEPT ![n] = TRUE]
  /\ requestedCS' = [requestedCS EXCEPT ![n] = FALSE]
  /\ UNCHANGED <<curTS, myTS, yesVotes, arbiter, msgs, requests, late>>

(* At any time, inquiries on their way or not. *)
LeaveCS(n) ==
  /\ inCS[n]
  /\ inCS' = [inCS EXCEPT ![n] = FALSE]
  /\ yesVotes' = [yesVotes EXCEPT ![n] = 0]
  /\ msgs' = msgs (+) SetToBag({Msg("RELEASE", n, r, 0) : r \in District[n]})
  /\ UNCHANGED <<curTS, requestedCS, myTS, arbiter, requests, late>>

Round ==
  /\ curTS < MaxRound
  /\ curTS' = curTS + 1
  /\ UNCHANGED <<requester, arbiter, msgs, requests, late>>

-----------------------------------------------------------------------------
(* handleMessages: m is taken from the inbox, and the messages of out are sent. *)
Handle(m, type, out) ==
  /\ m.type = type
  /\ msgs' = (msgs (-) SetToBag({m})) (+) out
  /\ UNCHANGED <<curTS, requests>>

(* The vote of n goes to the request p. *)
VoteFor(n, p) ==
  /\ cand' = [cand EXCEPT ![n] = p[2]]
  /\ candTS' = [candTS EXCEPT ![n] = p[1]]

Defer(n, p) == [deferredQ EXCEPT ![n] = @ (+) SetToBag({p})]

handleYesMessage(m) ==
  /\ Handle(m, "YES", EmptyBag)
  /\ yesVotes' = [yesVotes EXCEPT ![m.to] = @ + 1]
  /\ UNCHANGED <<inCS, requestedCS, myTS, arbiter, late>>

(* Seeded fault: the candidate of an equal timestamp is never asked (so says the
   comment above the handler). *)
handleReqTsMessageNoTies(m) ==
  LET n == m.to
      older == m.ts < candTS[n]
  IN
  /\ m.ts < curTS
  /\ UNCHANGED <<requester, late>>
  /\ \/ /\ ~hasVoted[n]
        /\ Handle(m, "REQ", Yes(n, m.from))
        /\ VoteFor(n, <<m.ts, m.from>>)
        /\ hasVoted' = [hasVoted EXCEPT ![n] = TRUE]
        /\ UNCHANGED <<inquired, deferredQ>>
     \/ /\ hasVoted[n]
        /\ deferredQ' = Defer(n, <<m.ts, m.from>>)
        /\ IF older /\ ~inquired[n]
           THEN /\ Handle(m, "REQ", SetToBag({Msg("INQ", n, cand[n], candTS[n])}))
                /\ inquired' = [inquired EXCEPT ![n] = TRUE]
           ELSE Handle(m, "REQ", EmptyBag) /\ UNCHANGED inquired
        /\ UNCHANGED <<hasVoted, cand, candTS>>

handleReqTsMessage(m) ==
  LET n == m.to
      older == Precedes(<<m.ts, m.from>>, <<candTS[n], cand[n]>>)
  IN
  /\ m.ts < curTS
  /\ UNCHANGED <<requester, late>>
  /\ \/ /\ ~hasVoted[n]
        /\ Handle(m, "REQ", Yes(n, m.from))
        /\ VoteFor(n, <<m.ts, m.from>>)
        /\ hasVoted' = [hasVoted EXCEPT ![n] = TRUE]
        /\ UNCHANGED <<inquired, deferredQ>>
     \/ /\ hasVoted[n]
        /\ deferredQ' = Defer(n, <<m.ts, m.from>>)
        /\ IF older /\ ~inquired[n]
           THEN /\ Handle(m, "REQ", SetToBag({Msg("INQ", n, cand[n], candTS[n])}))
                /\ inquired' = [inquired EXCEPT ![n] = TRUE]
           ELSE Handle(m, "REQ", EmptyBag) /\ UNCHANGED inquired
        /\ UNCHANGED <<hasVoted, cand, candTS>>

(* Whoever sends it, the candidate goes back into the queue. *)
handleRelinquishMessage(m) ==
  LET n == m.to
      p == First(Defer(n, <<candTS[n], cand[n]>>)[n])
  IN
  /\ Handle(m, "RELINQUISH", Yes(n, p[2]))
  /\ VoteFor(n, p)
  /\ deferredQ' = [Defer(n, <<candTS[n], cand[n]>>) EXCEPT ![n] = @ (-) SetToBag({p})]
  /\ inquired' = [inquired EXCEPT ![n] = FALSE]
  /\ UNCHANGED <<requester, hasVoted, late>>

handleReleaseMessage(m) ==
  LET n == m.to IN
  /\ inquired' = [inquired EXCEPT ![n] = FALSE]
  /\ UNCHANGED <<requester, late>>
  /\ \/ /\ deferredQ[n] # EmptyBag
        /\ Handle(m, "RELEASE", Yes(n, First(deferredQ[n])[2]))
        /\ VoteFor(n, First(deferredQ[n]))
        /\ deferredQ' = [deferredQ EXCEPT ![n] = @ (-) SetToBag({First(@)})]
        /\ UNCHANGED hasVoted
     \/ /\ deferredQ[n] = EmptyBag
        /\ Handle(m, "RELEASE", EmptyBag)
        /\ hasVoted' = [hasVoted EXCEPT ![n] = FALSE]
        /\ UNCHANGED <<cand, candTS, deferredQ>>

(* Seeded faults: a node in its critical section yields too (as in the comment
   above the handler); the vote given back stays counted. *)
handleInqTsMessageInCS(m) ==
  LET n == m.to
      yields == myTS[n] = m.ts
  IN
  /\ Handle(m, "INQ", IF yields THEN SetToBag({Msg("RELINQUISH", n, m.from, 0)})
                      ELSE EmptyBag)
  /\ yesVotes' = [yesVotes EXCEPT ![n] = IF yields THEN @ - 1 ELSE @]
  /\ late' = (late \/ (yields /\ ~Wants(n)))
  /\ UNCHANGED <<inCS, requestedCS, myTS, arbiter>>

handleInqTsMessageKeeps(m) ==
  LET n == m.to
      yields == ~inCS[n] /\ myTS[n] = m.ts
  IN
  /\ Handle(m, "INQ", IF yields THEN SetToBag({Msg("RELINQUISH", n, m.from, 0)})
                      ELSE EmptyBag)
  /\ late' = (late \/ (yields /\ ~Wants(n)))
  /\ UNCHANGED <<requester, arbiter>>

handleInqTsMessage(m) ==
  LET n == m.to
      yields == ~inCS[n] /\ myTS[n] = m.ts
  IN
  /\ Handle(m, "INQ", IF yields THEN SetToBag({Msg("RELINQUISH", n, m.from, 0)})
                      ELSE EmptyBag)
  /\ yesVotes' = [yesVotes EXCEPT ![n] = IF yields THEN @ - 1 ELSE @]
  /\ late' = (late \/ (yields /\ ~Wants(n)))
  /\ UNCHANGED <<inCS, requestedCS, myTS, arbiter>>

handleMessages ==
  \E m \in BagToSet(msgs) :
    \/ handleInqTsMessage(m) \/ handleReleaseMessage(m)
    \/ handleRelinquishMessage(m) \/ handleReqTsMessage(m) \/ handleYesMessage(m)

-----------------------------------------------------------------------------
Next ==
  \/ Round
  \/ \E n \in Node : RequestCS(n) \/ EnterCSLoop(n) \/ LeaveCS(n)
  \/ handleMessages

(* Every message arrives, timers fire, nodes leave (with probability pls in each
   round) and rounds follow each other. *)
Spec == /\ Init /\ [][Next]_vars
        /\ WF_vars(handleMessages) /\ WF_vars(Round)
        /\ \A n \in Node : WF_vars(EnterCSLoop(n)) /\ WF_vars(LeaveCS(n))

-----------------------------------------------------------------------------
Entries == (0 .. MaxRound) \X Node
Messages == [type : {"REQ", "INQ", "YES", "RELINQUISH", "RELEASE"},
             from : Node, to : Node, ts : 0 .. MaxRound]

(* Every field of SandersNode keeps its type, and every message names nodes. *)
TypeOK ==
  /\ curTS \in 0 .. MaxRound
  /\ inCS \in [Node -> BOOLEAN] /\ requestedCS \in [Node -> BOOLEAN]
  /\ myTS \in [Node -> 0 .. MaxRound] /\ yesVotes \in [Node -> Int]
  /\ hasVoted \in [Node -> BOOLEAN] /\ cand \in [Node -> Node \cup {NoNode}]
  /\ candTS \in [Node -> 0 .. MaxRound] /\ inquired \in [Node -> BOOLEAN]
  /\ DOMAIN deferredQ = Node
  /\ \A n \in Node : IsABag(deferredQ[n]) /\ BagToSet(deferredQ[n]) \subseteq Entries
  /\ IsABag(msgs) /\ BagToSet(msgs) \subseteq Messages
  /\ requests \in [Node -> Nat]
  /\ late \in BOOLEAN

(* What the votes are worth depends on no node giving one back twice: one that left
   its critical section answers an inquiry about the request it had there (nothing
   else than inCS and the timestamp is compared) although it has sent RELEASE.  The
   properties hold in all that comes before such an answer. *)
(* "Enter_CS" .. "Exit_CS" (SandersNode): two nodes are never in their critical
   sections at once, for districts that pairwise intersect. *)
MutualExclusion ==
  \A n, o \in Node : inCS[n] /\ inCS[o] => n = o \/ late

(* "yes_votes: number of processes that answered YES" (comment on the state of
   SandersNode): a node in its critical section has the vote of every arbiter of
   its district, for this very request. *)
EntrantHoldsVotes ==
  \A n \in Node : inCS[n] /\ ~late =>
    \A d \in District[n] : hasVoted[d] /\ cand[d] = n /\ candTS[d] = myTS[n]

(* How many of the messages in M are on their way. *)
Flying(M) ==
  Cardinality(UNION {{m} \X (1 .. msgs[m]) : m \in M \cap BagToSet(msgs)})

(* A vote is never lost or doubled between handlers, whatever overtakes what: what
   a requester has counted is the number of arbiters that name it, less the
   answers on their way and the votes on their way back. *)
VotesConserved ==
  \A n \in Node : Wants(n) /\ ~late =>
    yesVotes[n] = Cardinality({d \in District[n] : hasVoted[d] /\ cand[d] = n})
                  - Flying({Msg("YES", d, n, 0) : d \in District[n]})
                  - Flying({Msg(t, n, d, 0) : t \in {"RELINQUISH", "RELEASE"},
                                              d \in District[n]})

(* "forall r in Si send(r, REQ); waitWhile (yes_votes < |Si|)" (SandersNode): every
   request is granted in the end. *)
Granted == \A n \in Node : requestedCS[n] ~> (inCS[n] \/ late)
=============================================================================
