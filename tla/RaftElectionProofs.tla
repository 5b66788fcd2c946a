------------------------- MODULE RaftElectionProofs -------------------------
(***************************************************************************)
(* Proofs about RaftElection for any set of servers and any bounds: types, *)
(* the vote of a candidate for itself, the monotony of terms, what becomes *)
(* of every vote, and when two servers can win the election of a term.     *)
(***************************************************************************)
EXTENDS RaftElection, SequenceTheorems, FiniteSetTheorems, TLAPS

Places == {"off", "timers", "take", "tasks", "dead"}

(* The records that server.lua sends are tasks. *)
LEMMA TaskTypes ==
  ASSUME NEW s \in Server, NEW t \in Nat, NEW g \in BOOLEAN,
         NEW r \in {"RequestVote", "AppendEntries"}
  PROVE  /\ t # 0 => RequestVote(s, t) \in Tasks
         /\ AppendEntries(s, t) \in Tasks
         /\ Reply(s, t, g, r) \in Tasks
BY DEF Tasks, RequestVote, AppendEntries, Reply

(* A task has a term and a sender; a request is not of term 0. *)
LEMMA TaskFields ==
  ASSUME NEW m \in Tasks
  PROVE  /\ m.term \in Nat /\ m.from \in Server
         /\ m.type = "RequestVote" => m.term # 0
         /\ m.type \in {"RequestVote", "AppendEntries", "ReplyRequestVote"}
BY DEF Tasks

(* One RPC leaves queues of tasks behind, wherever the loop goes on. *)
LEMMA CallTypes ==
  ASSUME TypeOK, NEW s \in Server, NEW d \in Server, NEW m \in Tasks,
         NEW q \in [Server -> Seq(Tasks)], NEW l \in Places, Call(s, d, m, q, l)
  PROVE  /\ pc' \in [Server -> Places]
         /\ taskQueue' \in [Server -> Seq(Tasks)]
<1>1. Append(q[d], m) \in Seq(Tasks)
  OBVIOUS
<1> QED
  BY <1>1 DEF Call, TypeOK, Places

(* So does the first RPC of a broadcast, which leaves the others in outbox. *)
LEMMA BroadcastTypes ==
  ASSUME TypeOK, NEW s \in Server, NEW m \in Tasks, NEW D \in SUBSET Server,
         Broadcast(s, m, D)
  PROVE  /\ pc' \in [Server -> Places]
         /\ taskQueue' \in [Server -> Seq(Tasks)]
         /\ outbox' \in [Server -> SUBSET (Server \X Tasks)]
<1>1. PICK d \in D : /\ Call(s, d, m, taskQueue, "take")
                     /\ outbox' = [outbox EXCEPT ![s] = {<<c, m>> : c \in D \ {d}}]
  BY DEF Broadcast
<1>2. taskQueue \in [Server -> Seq(Tasks)] /\ "take" \in Places
  BY DEF TypeOK, Places
<1>3. /\ pc' \in [Server -> Places]
      /\ taskQueue' \in [Server -> Seq(Tasks)]
  BY <1>1, <1>2, CallTypes
<1>4. {<<c, m>> : c \in D \ {d}} \in SUBSET (Server \X Tasks)
  OBVIOUS
<1> QED
  BY <1>1, <1>3, <1>4 DEF TypeOK

(* The task at the head of a batch, and what is left of the batch. *)
LEMMA BatchTypes ==
  ASSUME TypeOK, NEW s \in Server, NEW type, NextTask(s, type)
  PROVE  /\ Head(Batch(s)) \in Tasks /\ Head(Batch(s)).type = type
         /\ toProcess' \in [Server -> Seq(Tasks)]
         /\ Queues(s) \in [Server -> Seq(Tasks)]
         /\ Continue(s) \in Places
<1>1. Batch(s) \in Seq(Tasks) /\ Batch(s) # <<>>
  BY DEF TypeOK, Batch, NextTask
<1>2. Head(Batch(s)) \in Tasks /\ Tail(Batch(s)) \in Seq(Tasks)
  BY <1>1, HeadTailProperties
<1>3. Queues(s) \in [Server -> Seq(Tasks)]
  BY DEF TypeOK, Queues
<1> QED
  BY <1>2, <1>3 DEF NextTask, TypeOK, Continue, Places

-----------------------------------------------------------------------------
(* Type correctness. *)
LEMMA InitTypes == Init => TypeOK
<1>1. <<>> \in Seq(Tasks)
  OBVIOUS
<1> QED
  BY <1>1 DEF Init, TypeOK

LEMMA TimersTypes ==
  ASSUME TypeOK, NEW s \in Server,
         StartElection(s) \/ SendHeartbeats(s) \/ Deliver(s)
  PROVE  TypeOK'
<1> USE DEF Places
<1>1. CASE StartElection(s)
  <2>1. currentTerm[s] + 1 \in Nat \ {0}
    BY DEF TypeOK
  <2>2. RequestVote(s, currentTerm[s] + 1) \in Tasks
    BY <2>1, TaskTypes
  <2>3. Others(s) \in SUBSET Server
    BY DEF Others
  <2>4. /\ pc' \in [Server -> Places]
        /\ taskQueue' \in [Server -> Seq(Tasks)]
        /\ outbox' \in [Server -> SUBSET (Server \X Tasks)]
    BY <1>1, <2>2, <2>3, BroadcastTypes DEF StartElection
  <2>5. granters' \in [Server -> SUBSET Server]
    BY <1>1 DEF StartElection, TypeOK
  <2>6. /\ currentTerm' \in [Server -> Nat]
        /\ votedFor' \in [Server -> Server \cup {Nil}]
        /\ votes' \in [Server -> Nat]
        /\ state' \in [Server -> {"candidate", "follower", "leader"}]
        /\ elections' \in Nat
    BY <1>1 DEF StartElection, TypeOK
  <2>7. UNCHANGED <<initialized, stopped, calls, exited, toProcess, elected, beats>>
    BY <1>1 DEF StartElection, switches
  <2> QED
    BY <2>4, <2>5, <2>6, <2>7 DEF TypeOK
<1>2. CASE SendHeartbeats(s)
  <2>1. AppendEntries(s, currentTerm[s]) \in Tasks
    BY TaskTypes DEF TypeOK
  <2>2. Others(s) \in SUBSET Server
    BY DEF Others
  <2>3. /\ pc' \in [Server -> Places]
        /\ taskQueue' \in [Server -> Seq(Tasks)]
        /\ outbox' \in [Server -> SUBSET (Server \X Tasks)]
    BY <1>2, <2>1, <2>2, BroadcastTypes DEF SendHeartbeats
  <2>4. /\ beats' \in Nat
        /\ UNCHANGED <<initialized, stopped, calls, elections, exited, currentTerm,
                       votedFor, votes, state, granters, toProcess, elected>>
    BY <1>2 DEF SendHeartbeats, TypeOK, control, server
  <2> QED
    BY <2>3, <2>4 DEF TypeOK
<1>3. CASE Deliver(s)
  <2>1. PICK o \in outbox[s] : Broadcast(s, o[2], {x[1] : x \in outbox[s]})
    BY <1>3 DEF Deliver
  <2>2. o[2] \in Tasks /\ {x[1] : x \in outbox[s]} \in SUBSET Server
    BY DEF TypeOK
  <2>3. /\ pc' \in [Server -> Places]
        /\ taskQueue' \in [Server -> Seq(Tasks)]
        /\ outbox' \in [Server -> SUBSET (Server \X Tasks)]
    BY <2>1, <2>2, BroadcastTypes
  <2> QED
    BY <1>3, <2>3 DEF Deliver, TypeOK, control, server
<1> QED
  BY <1>1, <1>2, <1>3

(* The answer of a handler. *)
LEMMA AnswerTypes ==
  ASSUME TypeOK, NEW s \in Server,
         NEW type \in {"RequestVote", "AppendEntries"}, NextTask(s, type),
         currentTerm' \in [Server -> Nat], NEW g \in BOOLEAN,
         Answer(s, Head(Batch(s)), g)
  PROVE  /\ pc' \in [Server -> Places]
         /\ taskQueue' \in [Server -> Seq(Tasks)]
<1> DEFINE m == Head(Batch(s))
<1>1. m \in Tasks /\ m.type = type /\ m.from \in Server
  BY BatchTypes, TaskFields
<1>2. Reply(s, currentTerm'[s], g, m.type) \in Tasks
  BY <1>1, TaskTypes
<1>3. Queues(s) \in [Server -> Seq(Tasks)] /\ Continue(s) \in Places
  BY BatchTypes
<1>4. Call(s, m.from, Reply(s, currentTerm'[s], g, m.type), Queues(s), Continue(s))
  BY DEF Answer
<1> HIDE DEF m
<1> QED
  BY <1>1, <1>2, <1>3, <1>4, CallTypes

(* The state a vote is given from, where the handlers clear it or leave it. *)
LEMMA FollowerTypes ==
  ASSUME TypeOK, NEW s \in Server, ConvertToFollower(s)
  PROVE  /\ votedFor' \in [Server -> Server \cup {Nil}]
         /\ votes' \in [Server -> Nat]
         /\ state' \in [Server -> {"candidate", "follower", "leader"}]
         /\ granters' \in [Server -> SUBSET Server]
<1>1. granters' \in [Server -> SUBSET Server]
  BY DEF ConvertToFollower, TypeOK
<1>2. votedFor' \in [Server -> Server \cup {Nil}]
  BY DEF ConvertToFollower, TypeOK
<1> QED
  BY <1>1, <1>2 DEF ConvertToFollower, TypeOK

LEMMA AppendEntriesTypes ==
  ASSUME TypeOK, NEW s \in Server, ProcessAppendEntries(s)
  PROVE  TypeOK'
<1> DEFINE m == Head(Batch(s))
<1>1. NextTask(s, "AppendEntries")
  BY DEF ProcessAppendEntries
<1>2. m.term \in Nat /\ toProcess' \in [Server -> Seq(Tasks)]
      /\ Queues(s) \in [Server -> Seq(Tasks)]
  BY <1>1, BatchTypes, TaskFields
<1>3. currentTerm' \in [Server -> Nat]
  BY <1>2 DEF ProcessAppendEntries, TypeOK
<1>4. /\ votedFor' \in [Server -> Server \cup {Nil}]
      /\ votes' \in [Server -> Nat]
      /\ state' \in [Server -> {"candidate", "follower", "leader"}]
      /\ granters' \in [Server -> SUBSET Server]
  <2>1. CASE ConvertToFollower(s)
    BY <2>1, FollowerTypes
  <2>2. CASE UNCHANGED <<votedFor, votes, state, granters>>
    BY <2>2 DEF TypeOK
  <2> QED
    BY <2>1, <2>2 DEF ProcessAppendEntries
<1>5. /\ pc' \in [Server -> Places]
      /\ taskQueue' \in [Server -> Seq(Tasks)]
      /\ exited' \subseteq Server
  <2>1. CASE Answer(s, m, FALSE) /\ UNCHANGED exited
    BY <1>1, <1>3, <2>1, AnswerTypes DEF TypeOK
  <2>2. CASE /\ exited' = exited \cup {s}
             /\ pc' = [pc EXCEPT ![s] = "dead"]
             /\ taskQueue' = Queues(s)
    BY <1>2, <2>2 DEF TypeOK, Places
  <2> QED
    BY <2>1, <2>2 DEF ProcessAppendEntries
<1>6. UNCHANGED <<control, outbox, beats, elected>>
  BY <1>1 DEF NextTask, ProcessAppendEntries
<1> HIDE DEF m
<1> QED
  BY <1>2, <1>3, <1>4, <1>5, <1>6 DEF TypeOK, control, Places

LEMMA RequestVoteTypes ==
  ASSUME TypeOK, NEW s \in Server, ProcessRequestVote(s)
  PROVE  TypeOK'
<1> DEFINE m == Head(Batch(s))
           voted == IF m.term > currentTerm[s] THEN Nil ELSE votedFor[s]
           grant == voted \in {Nil, m.from}
<1>1. NextTask(s, "RequestVote")
  BY DEF ProcessRequestVote
<1>2. m.term \in Nat /\ m.from \in Server /\ toProcess' \in [Server -> Seq(Tasks)]
  BY <1>1, BatchTypes, TaskFields
<1>3. currentTerm' \in [Server -> Nat]
  BY <1>2 DEF ProcessRequestVote, TypeOK
<1>4. /\ votedFor' \in [Server -> Server \cup {Nil}]
      /\ votes' \in [Server -> Nat]
      /\ state' \in [Server -> {"candidate", "follower", "leader"}]
      /\ granters' \in [Server -> SUBSET Server]
  <2>1. votedFor' \in [Server -> Server \cup {Nil}]
    BY <1>2 DEF ProcessRequestVote, TypeOK
  <2>2. CASE /\ votes' = [votes EXCEPT ![s] = 0]
             /\ granters' = [granters EXCEPT ![s] = {}]
             /\ state' = [state EXCEPT ![s] = "follower"]
    <3>1. granters' \in [Server -> SUBSET Server]
      BY <2>2 DEF TypeOK
    <3> QED
      BY <2>1, <2>2, <3>1 DEF TypeOK
  <2>3. CASE UNCHANGED <<currentTerm, votes, granters, state>>
    BY <2>1, <2>3 DEF TypeOK
  <2> QED
    BY <2>2, <2>3 DEF ProcessRequestVote
<1>5. /\ pc' \in [Server -> Places]
      /\ taskQueue' \in [Server -> Seq(Tasks)]
  <2>1. grant \in BOOLEAN /\ Answer(s, m, grant)
    BY DEF ProcessRequestVote
  <2> HIDE DEF grant
  <2> QED
    BY <1>1, <1>3, <2>1, AnswerTypes
<1>6. UNCHANGED <<control, outbox, beats, elected, exited>>
  BY <1>1 DEF NextTask, ProcessRequestVote
<1> HIDE DEF m
<1> QED
  BY <1>2, <1>3, <1>4, <1>5, <1>6 DEF TypeOK, control, Places

LEMMA ReplyTypes ==
  ASSUME TypeOK, NEW s \in Server, ProcessReplyRequestVote(s)
  PROVE  TypeOK'
<1> DEFINE m == Head(Batch(s))
<1>1. NextTask(s, "ReplyRequestVote")
  BY DEF ProcessReplyRequestVote
<1>2. m.term \in Nat /\ m.from \in Server /\ toProcess' \in [Server -> Seq(Tasks)]
  BY <1>1, BatchTypes, TaskFields
<1>3. /\ currentTerm' \in [Server -> Nat]
      /\ votedFor' \in [Server -> Server \cup {Nil}]
      /\ votes' \in [Server -> Nat]
      /\ state' \in [Server -> {"candidate", "follower", "leader"}]
      /\ granters' \in [Server -> SUBSET Server]
      /\ elected' \subseteq Nat \X Server \X SUBSET Server
  <2>1. CASE UNCHANGED <<server, elected>>
    BY <2>1 DEF server, TypeOK
  <2>2. CASE /\ currentTerm' = [currentTerm EXCEPT ![s] = m.term]
             /\ ConvertToFollower(s)
             /\ UNCHANGED elected
    BY <1>2, <2>2, FollowerTypes DEF TypeOK
  <2>3. CASE /\ votes' = [votes EXCEPT ![s] = votes[s] + 1]
             /\ granters' = [granters EXCEPT ![s] = @ \cup {m.from}]
             /\ UNCHANGED <<currentTerm, votedFor>>
    <3>1. votes' \in [Server -> Nat]
      BY <2>3 DEF TypeOK
    <3>2. granters' \in [Server -> SUBSET Server]
      BY <1>2, <2>3 DEF TypeOK
    <3>3. \/ UNCHANGED <<state, elected>>
          \/ /\ state' = [state EXCEPT ![s] = "leader"]
             /\ elected' = elected \cup {<<currentTerm[s], s, granters'[s]>>}
      BY <2>3 DEF ProcessReplyRequestVote, TypeOK, ConvertToFollower, server
    <3>4. elected' \subseteq Nat \X Server \X SUBSET Server
      <4>1. <<currentTerm[s], s, granters'[s]>> \in Nat \X Server \X SUBSET Server
        BY <3>2 DEF TypeOK
      <4> QED
        BY <3>3, <4>1 DEF TypeOK
    <3>5. state' \in [Server -> {"candidate", "follower", "leader"}]
      BY <3>3 DEF TypeOK
    <3> QED
      BY <2>3, <3>1, <3>2, <3>4, <3>5 DEF TypeOK
  <2>4. CASE UNCHANGED <<votes, granters, state, elected, currentTerm, votedFor>>
    BY <2>4 DEF TypeOK
  <2> QED
    BY <2>1, <2>2, <2>3, <2>4 DEF ProcessReplyRequestVote
<1>4. pc' \in [Server -> Places] /\ taskQueue' \in [Server -> Seq(Tasks)]
  BY <1>1, BatchTypes DEF ProcessReplyRequestVote, TypeOK, Places
<1>5. UNCHANGED <<control, outbox, beats, exited>>
  BY <1>1 DEF NextTask, ProcessReplyRequestVote
<1> HIDE DEF m
<1> QED
  BY <1>2, <1>3, <1>4, <1>5 DEF TypeOK, control, Places

LEMMA StepTypes == TypeOK /\ [Next]_vars => TypeOK'
<1> SUFFICES ASSUME TypeOK, [Next]_vars PROVE TypeOK'
  OBVIOUS
<1>1. ASSUME NEW s \in Server, InitializeNode(s) \/ StopNode(s) \/ ResumeNode(s)
      PROVE  TypeOK'
  <2>1. UNCHANGED <<exited, currentTerm, votedFor, votes, state, granters, taskQueue,
                    toProcess, outbox, elected, elections, beats>>
    BY <1>1 DEF InitializeNode, StopNode, ResumeNode, server
  <2>2. /\ initialized' \in [Server -> BOOLEAN]
        /\ stopped' \in [Server -> BOOLEAN]
        /\ calls' \in Nat
    <3>1. CASE InitializeNode(s)
      BY <3>1 DEF InitializeNode, TypeOK
    <3>2. CASE StopNode(s)
      BY <3>2 DEF StopNode, TypeOK
    <3>3. CASE ResumeNode(s)
      BY <3>3 DEF ResumeNode, TypeOK
    <3> QED
      BY <1>1, <3>1, <3>2, <3>3
  <2>3. pc' \in [Server -> {"off", "timers", "take", "tasks", "dead"}]
    BY <1>1 DEF InitializeNode, StopNode, ResumeNode, TypeOK
  <2> QED
    BY <2>1, <2>2, <2>3 DEF TypeOK
<1>2. ASSUME NEW s \in Server, NoTasks(s) \/ SkipTasks(s)
      PROVE  TypeOK'
  <2>1. <<>> \in Seq(Tasks)
    OBVIOUS
  <2> QED
    <3>1. UNCHANGED <<initialized, stopped, calls, elections, exited, currentTerm,
                      votedFor, votes, state, granters, toProcess, outbox, elected,
                      beats>>
      BY <1>2 DEF NoTasks, SkipTasks, control, server
    <3>2. taskQueue' \in [Server -> Seq(Tasks)]
      BY <1>2, <2>1 DEF NoTasks, SkipTasks, TypeOK
    <3>3. pc' \in [Server -> {"off", "timers", "take", "tasks", "dead"}]
      BY <1>2 DEF NoTasks, SkipTasks, TypeOK
    <3> QED
      BY <3>1, <3>2, <3>3 DEF TypeOK
<1>3. CASE UNCHANGED vars
  BY <1>3 DEF vars, TypeOK
<1> QED
  BY <1>1, <1>2, <1>3, TimersTypes, AppendEntriesTypes, RequestVoteTypes, ReplyTypes
     DEF Next, Loop

(* Every variable of server.lua keeps its type, whatever the handlers are given:
   in particular votedFor is a server or Nil and the queues hold only tasks. *)
THEOREM TypeCorrect == Spec => []TypeOK
<1> QED
  BY InitTypes, StepTypes, PTL DEF Spec

-----------------------------------------------------------------------------
(* The own vote of candidates and leaders. *)
LEMMA StepVotes == TypeOK /\ VotesForSelf /\ [Next]_vars => VotesForSelf'
<1> SUFFICES ASSUME TypeOK, VotesForSelf, [Next]_vars,
                    NEW r \in Server, state'[r] # "follower"
             PROVE  votedFor'[r] = r \/ (currentTerm'[r] = 0 /\ votedFor'[r] = Nil)
  BY DEF VotesForSelf
<1>1. CASE UNCHANGED <<currentTerm, votedFor, state>>
  BY <1>1 DEF VotesForSelf
<1>2. ASSUME NEW s \in Server, StartElection(s)
      PROVE  votedFor'[r] = r \/ (currentTerm'[r] = 0 /\ votedFor'[r] = Nil)
  BY <1>2 DEF StartElection, VotesForSelf, TypeOK
<1>3. ASSUME NEW s \in Server, ProcessAppendEntries(s)
      PROVE  votedFor'[r] = r \/ (currentTerm'[r] = 0 /\ votedFor'[r] = Nil)
  <2>1. CASE ConvertToFollower(s)
    <3>1. r # s
      BY <2>1 DEF ConvertToFollower, TypeOK
    <3> QED
      BY <1>3, <2>1, <3>1 DEF ConvertToFollower, ProcessAppendEntries, VotesForSelf, TypeOK
  <2>2. CASE /\ UNCHANGED <<votedFor, votes, state, granters>>
             /\ ~(Head(Batch(s)).term > currentTerm[s])
    BY <1>3, <2>2 DEF ProcessAppendEntries, VotesForSelf, TypeOK
  <2> QED
    BY <1>3, <2>1, <2>2 DEF ProcessAppendEntries
<1>4. ASSUME NEW s \in Server, ProcessRequestVote(s)
      PROVE  votedFor'[r] = r \/ (currentTerm'[r] = 0 /\ votedFor'[r] = Nil)
  <2> DEFINE m == Head(Batch(s))
             voted == IF m.term > currentTerm[s] THEN Nil ELSE votedFor[s]
             grant == voted \in {Nil, m.from}
  <2>1. m.term \in Nat \ {0} /\ m.from \in Server /\ currentTerm[s] \in Nat
    <3>1. NextTask(s, "RequestVote")
      BY <1>4 DEF ProcessRequestVote
    <3> QED
      BY <3>1, BatchTypes, TaskFields DEF TypeOK
  <2>2. votedFor' = [votedFor EXCEPT ![s] = IF grant THEN m.from ELSE voted]
    BY <1>4 DEF ProcessRequestVote
  <2>3. CASE /\ currentTerm' = [currentTerm EXCEPT ![s] = m.term]
             /\ state' = [state EXCEPT ![s] = "follower"]
    <3>1. r # s
      BY <2>3 DEF TypeOK
    <3> QED
      BY <2>2, <2>3, <3>1 DEF VotesForSelf, TypeOK
  <2>4. CASE ~(m.term > currentTerm[s]) /\ UNCHANGED <<currentTerm, votes, granters, state>>
    <3>1. currentTerm[s] # 0 /\ voted = votedFor[s]
      BY <2>1, <2>4
    <3>2. CASE r = s
      <4>1. votedFor[s] = s /\ s # Nil
        BY <2>4, <3>1, <3>2, RaftAssumption DEF VotesForSelf
      <4>2. votedFor'[s] = s
        BY <2>2, <3>1, <4>1 DEF TypeOK
      <4> QED
        BY <3>2, <4>2
    <3>3. CASE r # s
      BY <2>2, <2>4, <3>3 DEF VotesForSelf, TypeOK
    <3> QED
      BY <3>2, <3>3
  <2> QED
    BY <1>4, <2>3, <2>4 DEF ProcessRequestVote
<1>5. ASSUME NEW s \in Server, ProcessReplyRequestVote(s)
      PROVE  votedFor'[r] = r \/ (currentTerm'[r] = 0 /\ votedFor'[r] = Nil)
  <2>1. CASE UNCHANGED <<server, elected>>
    BY <2>1 DEF server, VotesForSelf
  <2>2. CASE ConvertToFollower(s) /\ currentTerm' = [currentTerm EXCEPT ![s] = Head(Batch(s)).term]
    <3>1. r # s
      BY <2>2 DEF ConvertToFollower, TypeOK
    <3> QED
      BY <2>2, <3>1 DEF ConvertToFollower, VotesForSelf, TypeOK
  <2>3. CASE state[s] = "candidate" /\ UNCHANGED <<currentTerm, votedFor>>
    <3>1. state[r] # "follower"
      BY <1>5, <2>3 DEF ProcessReplyRequestVote, TypeOK, ConvertToFollower, server
    <3> QED
      BY <2>3, <3>1 DEF VotesForSelf
  <2> QED
    BY <1>5, <2>1, <2>2, <2>3 DEF ProcessReplyRequestVote
<1>6. ASSUME NEW s \in Server,
             \/ InitializeNode(s) \/ StopNode(s) \/ ResumeNode(s) \/ SendHeartbeats(s)
             \/ Deliver(s) \/ NoTasks(s) \/ SkipTasks(s)
      PROVE  UNCHANGED <<currentTerm, votedFor, state>>
  BY <1>6 DEF InitializeNode, StopNode, ResumeNode, SendHeartbeats, Deliver, NoTasks,
              SkipTasks, server
<1>7. CASE UNCHANGED vars
  BY <1>7 DEF vars, VotesForSelf
<1> QED
  BY <1>1, <1>2, <1>3, <1>4, <1>5, <1>6, <1>7 DEF Next, Loop

(* A candidate or leader keeps its vote for itself, however many servers there
   are and however often they are stopped and resumed: no stale or repeated request
   takes it away while the server stands for election (processRequestVote). *)
THEOREM CandidatesKeepTheirVote == Spec => []VotesForSelf
<1>1. Init => VotesForSelf
  BY DEF Init, VotesForSelf
<1> QED
  BY <1>1, InitTypes, StepTypes, StepVotes, PTL DEF Spec

-----------------------------------------------------------------------------
LEMMA StepTerms ==
  TypeOK /\ [Next]_vars => \A s \in Server : currentTerm'[s] >= currentTerm[s]
<1> SUFFICES ASSUME TypeOK, [Next]_vars, NEW r \in Server
             PROVE  currentTerm'[r] >= currentTerm[r]
  OBVIOUS
<1>0. currentTerm[r] \in Nat
  BY DEF TypeOK
<1>1. CASE UNCHANGED currentTerm
  BY <1>0, <1>1
<1>2. ASSUME NEW s \in Server, StartElection(s)
      PROVE  currentTerm'[r] >= currentTerm[r]
  BY <1>0, <1>2 DEF StartElection, TypeOK
<1>3. ASSUME NEW s \in Server, NEW type, NextTask(s, type),
             \/ currentTerm' = [currentTerm EXCEPT ![s] = Head(Batch(s)).term]
                 /\ Head(Batch(s)).term > currentTerm[s]
             \/ currentTerm' = [currentTerm EXCEPT
                    ![s] = IF Head(Batch(s)).term > @ THEN Head(Batch(s)).term ELSE @]
      PROVE  currentTerm'[r] >= currentTerm[r]
  <2> DEFINE t == Head(Batch(s)).term
  <2>1. t \in Nat /\ currentTerm[s] \in Nat
    BY <1>3, BatchTypes, TaskFields DEF TypeOK
  <2>2. CASE r # s
    BY <1>0, <1>3, <2>2 DEF TypeOK
  <2>3. CASE r = s /\ currentTerm'[s] = t /\ t > currentTerm[s]
    BY <2>1, <2>3
  <2>4. CASE r = s /\ currentTerm'[s] = IF t > currentTerm[s] THEN t ELSE currentTerm[s]
    BY <2>1, <2>4
  <2>5. \/ currentTerm'[s] = t /\ t > currentTerm[s]
        \/ currentTerm'[s] = IF t > currentTerm[s] THEN t ELSE currentTerm[s]
    BY <1>3 DEF TypeOK
  <2> QED
    BY <2>2, <2>3, <2>4, <2>5
<1>4. ASSUME NEW s \in Server, ProcessAppendEntries(s)
      PROVE  currentTerm'[r] >= currentTerm[r]
  BY <1>3, <1>4 DEF ProcessAppendEntries
<1>5. ASSUME NEW s \in Server, ProcessRequestVote(s)
      PROVE  currentTerm'[r] >= currentTerm[r]
  BY <1>1, <1>3, <1>5 DEF ProcessRequestVote
<1>6. ASSUME NEW s \in Server, ProcessReplyRequestVote(s)
      PROVE  currentTerm'[r] >= currentTerm[r]
  BY <1>1, <1>3, <1>6 DEF ProcessReplyRequestVote, server
<1>7. ASSUME NEW s \in Server,
             \/ InitializeNode(s) \/ StopNode(s) \/ ResumeNode(s) \/ SendHeartbeats(s)
             \/ Deliver(s) \/ NoTasks(s) \/ SkipTasks(s)
      PROVE  UNCHANGED currentTerm
  BY <1>7 DEF InitializeNode, StopNode, ResumeNode, SendHeartbeats, Deliver, NoTasks,
              SkipTasks, server
<1>8. CASE UNCHANGED vars
  BY <1>1, <1>8 DEF vars
<1> QED
  BY <1>1, <1>2, <1>4, <1>5, <1>6, <1>7, <1>8 DEF Next, Loop

(* No handler ever takes a term back, whatever stale tasks are in its batch. *)
THEOREM TermsGrow == Spec => TermsNeverRegress
<1>1. TypeOK /\ [Next]_vars
        => [\A s \in Server : currentTerm'[s] >= currentTerm[s]]_vars
  BY StepTerms
<1> QED
  BY <1>1, InitTypes, StepTypes, PTL DEF Spec, TermsNeverRegress

-----------------------------------------------------------------------------
(* The votes.  A grant of g to s in term t is on its way to s, counted by s, or *)
(* one of those with which s was elected; so is the vote of s for itself when   *)
(* it was elected.                                                              *)
Items(q) == {q[k] : k \in DOMAIN q}
Mail(s) == Items(taskQueue[s]) \cup Items(toProcess[s])

IsGrant(m) == m.type = "ReplyRequestVote" /\ m.voteGranted

Voted(g, t, s) ==
  \/ \E m \in Mail(s) : IsGrant(m) /\ m.from = g /\ m.term = t
  \/ g \in granters[s] /\ t = currentTerm[s]
  \/ \E e \in elected : e[1] = t /\ e[2] = s /\ g \in e[3] \cup {s}

(* What holds g to that vote as long as it is in term t: a request of t finds   *)
(* votedFor taken, and only a candidate clears it for a heartbeat of its term.  *)
Bound(g, t, s) ==
  /\ t <= currentTerm[g]
  /\ currentTerm[g] = t => votedFor[g] = s /\ state[g] # "candidate"

Leads(s, t) == \E e \in elected : e[1] = t /\ e[2] = s

VotesBind == \A g, s \in Server, t \in Nat : Voted(g, t, s) => Bound(g, t, s)

VotesOnce ==
  \A g, s, r \in Server, t \in Nat : Voted(g, t, s) /\ Voted(g, t, r) => s = r

(* Nobody sends to itself, only a leader sends heartbeats, and nobody grants a  *)
(* vote in term 0.                                                              *)
MailSound(m, s) ==
  /\ m.from # s
  /\ m.type = "AppendEntries" => Leads(m.from, m.term)
  /\ IsGrant(m) => m.term # 0

SentByOthers ==
  /\ \A s \in Server : \A m \in Mail(s) : MailSound(m, s)
  /\ \A s \in Server : \A o \in outbox[s] :
       /\ o[1] # s /\ o[2].from = s
       /\ o[2].type \in {"RequestVote", "AppendEntries"}
       /\ o[2].type = "AppendEntries" => Leads(s, o[2].term)

(* A leader was elected in its term, with the grant of another server. *)
LeadersElected ==
  /\ \A s \in Server : /\ s \notin granters[s]
                       /\ state[s] = "leader" => Leads(s, currentTerm[s])
  /\ \A e \in elected : e[3] # {} /\ e[2] \notin e[3]

VoteInv == /\ TypeOK /\ VotesForSelf
           /\ VotesBind /\ VotesOnce /\ SentByOthers /\ LeadersElected

LEMMA ItemsOf ==
  ASSUME NEW q \in Seq(Tasks)
  PROVE  /\ Items(q) \subseteq Tasks
         /\ \A m \in Tasks : Items(Append(q, m)) = Items(q) \cup {m}
         /\ q # <<>> => Head(q) \in Items(q) /\ Items(Tail(q)) \subseteq Items(q)
<1>1. DOMAIN q = 1 .. Len(q) /\ Len(q) \in Nat /\ \A k \in 1 .. Len(q) : q[k] \in Tasks
  OBVIOUS
<1>2. Items(q) \subseteq Tasks
  BY <1>1 DEF Items
<1>3. ASSUME NEW m \in Tasks PROVE Items(Append(q, m)) = Items(q) \cup {m}
  <2>1. PICK r : r = Append(q, m)
    OBVIOUS
  <2>2. /\ DOMAIN r = 1 .. (Len(q) + 1) /\ r[Len(q) + 1] = m
        /\ \A k \in 1 .. Len(q) : r[k] = q[k]
    BY <1>1, <2>1
  <2>3. Items(r) \subseteq Items(q) \cup {m}
    <3> SUFFICES ASSUME NEW k \in 1 .. (Len(q) + 1) PROVE r[k] \in Items(q) \cup {m}
      BY <2>2 DEF Items
    <3>1. k = Len(q) + 1 \/ k \in 1 .. Len(q)
      BY <1>1
    <3> QED
      BY <1>1, <2>2, <3>1 DEF Items
  <2>4. Items(q) \cup {m} \subseteq Items(r)
    <3>1. Len(q) + 1 \in DOMAIN r /\ \A k \in 1 .. Len(q) : k \in DOMAIN r
      BY <1>1, <2>2
    <3> QED
      BY <1>1, <2>2, <3>1 DEF Items
  <2> QED
    BY <2>1, <2>3, <2>4
<1>4. ASSUME q # <<>>
      PROVE  Head(q) \in Items(q) /\ Items(Tail(q)) \subseteq Items(q)
  <2>1. PICK r : r = Tail(q)
    OBVIOUS
  <2>2. /\ DOMAIN r = 1 .. (Len(q) - 1) /\ Head(q) = q[1] /\ 1 \in 1 .. Len(q)
        /\ \A k \in 1 .. (Len(q) - 1) : r[k] = q[k + 1]
    BY <1>1, <1>4, <2>1
  <2>3. \A k \in 1 .. (Len(q) - 1) : k + 1 \in 1 .. Len(q)
    BY <1>1
  <2> QED
    BY <1>1, <2>1, <2>2, <2>3 DEF Items
<1> QED
  BY <1>2, <1>3, <1>4

(* What a call, a broadcast and the next task do to the mail. *)
LEMMA CallMail ==
  ASSUME NEW s \in Server, NEW d \in Server, NEW m \in Tasks,
         NEW q \in [Server -> Seq(Tasks)], NEW l, Call(s, d, m, q, l)
  PROVE  \A r \in Server : \A x \in Items(taskQueue'[r]) :
           x \in Items(q[r]) \/ (r = d /\ x = m)
<1>1. CASE taskQueue' = q
  BY <1>1
<1>2. CASE taskQueue' = [q EXCEPT ![d] = Append(@, m)]
  <2>1. Items(taskQueue'[d]) = Items(q[d]) \cup {m}
    BY <1>2, ItemsOf
  <2>2. \A r \in Server \ {d} : taskQueue'[r] = q[r]
    BY <1>2
  <2> QED
    BY <2>1, <2>2
<1> QED
  BY <1>1, <1>2 DEF Call

LEMMA BroadcastMail ==
  ASSUME TypeOK, NEW s \in Server, NEW m \in Tasks, NEW D \in SUBSET Server,
         Broadcast(s, m, D)
  PROVE  /\ \A r \in Server : \A x \in Items(taskQueue'[r]) :
              x \in Items(taskQueue[r]) \/ (r \in D /\ x = m)
         /\ \A r \in Server : \A o \in outbox'[r] :
              o \in outbox[r] \/ (r = s /\ o[1] \in D /\ o[2] = m)
<1>1. PICK d \in D : /\ Call(s, d, m, taskQueue, "take")
                     /\ outbox' = [outbox EXCEPT ![s] = {<<c, m>> : c \in D \ {d}}]
  BY DEF Broadcast
<1>2. taskQueue \in [Server -> Seq(Tasks)] /\ DOMAIN outbox = Server
  BY DEF TypeOK
<1>3. \A r \in Server : \A x \in Items(taskQueue'[r]) :
        x \in Items(taskQueue[r]) \/ (r = d /\ x = m)
  <2>1. PICK q, l : q = taskQueue /\ l = "take"
    OBVIOUS
  <2>2. d \in Server /\ q \in [Server -> Seq(Tasks)] /\ Call(s, d, m, q, l)
    BY <1>1, <1>2, <2>1
  <2>3. \A r \in Server : \A x \in Items(taskQueue'[r]) :
          x \in Items(q[r]) \/ (r = d /\ x = m)
    BY <2>2, CallMail
  <2> QED
    BY <2>1, <2>3
<1>4. /\ outbox'[s] = {<<c, m>> : c \in D \ {d}}
      /\ \A r \in Server \ {s} : outbox'[r] = outbox[r]
  BY <1>1, <1>2
<1>5. \A o \in outbox'[s] : o[1] \in D /\ o[2] = m
  BY <1>4
<1> QED
  BY <1>3, <1>4, <1>5

LEMMA NextMail ==
  ASSUME TypeOK, NEW s \in Server, NEW type, NextTask(s, type)
  PROVE  /\ Head(Batch(s)) \in Mail(s)
         /\ \A r \in Server : /\ Items(Queues(s)[r]) \subseteq Mail(r)
                              /\ Items(toProcess'[r]) \subseteq Mail(r)
<1>1. Batch(s) \in Seq(Tasks) /\ Batch(s) # <<>> /\ Items(Batch(s)) \subseteq Mail(s)
  BY DEF TypeOK, Batch, NextTask, Mail
<1>2. Head(Batch(s)) \in Items(Batch(s)) /\ Items(Tail(Batch(s))) \subseteq Items(Batch(s))
  BY <1>1, ItemsOf
<1>3. ASSUME NEW r \in Server PROVE Items(toProcess'[r]) \subseteq Mail(r)
  <2>1. toProcess'[r] = IF r = s THEN Tail(Batch(s)) ELSE toProcess[r]
    BY DEF NextTask, TypeOK
  <2> QED
    BY <1>1, <1>2, <2>1 DEF Mail
<1>4. ASSUME NEW r \in Server PROVE Items(Queues(s)[r]) \subseteq Mail(r)
  <2>1. Queues(s)[r] = taskQueue[r] \/ Queues(s)[r] = <<>>
    BY DEF Queues, TypeOK
  <2>2. Items(<<>>) = {}
    BY DEF Items
  <2> QED
    BY <2>1, <2>2 DEF Mail
<1> QED
  BY <1>1, <1>2, <1>3, <1>4

-----------------------------------------------------------------------------
(* What a step does to the votes of the server s that takes it. *)
Starts(s) ==
  /\ state[s] \in {"candidate", "follower"} /\ state'[s] = "candidate"
  /\ currentTerm'[s] = currentTerm[s] + 1 /\ votedFor'[s] = s
  /\ granters'[s] = {} /\ elected' = elected

Follows(s) ==
  /\ currentTerm'[s] > currentTerm[s] \/ state[s] = "candidate"
  /\ currentTerm'[s] >= currentTerm[s]
  /\ state'[s] = "follower" /\ granters'[s] = {} /\ elected' = elected

Grants(s) ==
  /\ currentTerm'[s] = currentTerm[s] /\ state'[s] = state[s]
  /\ granters'[s] = granters[s] /\ elected' = elected
  /\ votedFor[s] \notin {Nil, votedFor'[s]} => votedFor'[s] = votedFor[s]

Counts(s) ==
  LET m == Head(Batch(s)) IN
  /\ m \in Mail(s) /\ IsGrant(m) /\ m.term = currentTerm[s] /\ m.from \in Server
  /\ state[s] = "candidate"
  /\ currentTerm'[s] = currentTerm[s] /\ votedFor'[s] = votedFor[s]
  /\ granters'[s] = granters[s] \cup {m.from}
  /\ \/ state'[s] = "candidate" /\ elected' = elected
     \/ /\ state'[s] = "leader"
        /\ elected' = elected \cup {<<currentTerm[s], s, granters'[s]>>}

Elsewhere(s) ==
  \A r \in Server \ {s} :
    /\ currentTerm'[r] = currentTerm[r] /\ votedFor'[r] = votedFor[r]
    /\ state'[r] = state[r] /\ granters'[r] = granters[r]

Unvoted == /\ currentTerm' = currentTerm /\ votedFor' = votedFor
           /\ state' = state /\ granters' = granters /\ elected' = elected

VoteStep == \/ Unvoted
            \/ \E s \in Server : /\ Elsewhere(s)
                                 /\ Starts(s) \/ Follows(s) \/ Grants(s) \/ Counts(s)

LEMMA VoteSteps == TypeOK /\ [Next]_vars => VoteStep
<1> SUFFICES ASSUME TypeOK, [Next]_vars PROVE VoteStep
  OBVIOUS
<1>1. ASSUME NEW s \in Server, StartElection(s) PROVE VoteStep
  <2>1. Elsewhere(s) /\ Starts(s)
    BY <1>1 DEF StartElection, TypeOK, Elsewhere, Starts
  <2> QED
    BY <2>1 DEF VoteStep
<1>2. ASSUME NEW s \in Server, ProcessAppendEntries(s) PROVE VoteStep
  <2> DEFINE m == Head(Batch(s))
  <2>1. m.term \in Nat /\ currentTerm[s] \in Nat
    <3>1. NextTask(s, "AppendEntries")
      BY <1>2 DEF ProcessAppendEntries
    <3> QED
      BY <3>1, BatchTypes, TaskFields DEF TypeOK
  <2>2. /\ currentTerm' = [currentTerm EXCEPT ![s] = IF m.term > @ THEN m.term ELSE @]
        /\ elected' = elected
        /\ \/ /\ \/ m.term > currentTerm[s]
                 \/ m.term = currentTerm[s] /\ state[s] = "candidate"
              /\ ConvertToFollower(s)
           \/ /\ ~ (m.term > currentTerm[s])
              /\ UNCHANGED <<votedFor, votes, state, granters>>
    BY <1>2 DEF ProcessAppendEntries
  <2> HIDE DEF m
  <2>3. CASE /\ \/ m.term > currentTerm[s]
                \/ m.term = currentTerm[s] /\ state[s] = "candidate"
             /\ ConvertToFollower(s)
    <3>1. currentTerm'[s] = IF m.term > currentTerm[s] THEN m.term ELSE currentTerm[s]
      BY <2>2 DEF TypeOK
    <3>2. Elsewhere(s)
      BY <2>2, <2>3 DEF ConvertToFollower, TypeOK, Elsewhere
    <3>3. Follows(s)
      BY <2>1, <2>2, <2>3, <3>1 DEF ConvertToFollower, TypeOK, Follows
    <3> QED
      BY <3>2, <3>3 DEF VoteStep
  <2>4. CASE /\ ~ (m.term > currentTerm[s])
             /\ UNCHANGED <<votedFor, votes, state, granters>>
    <3>1. currentTerm' = currentTerm
      BY <2>2, <2>4 DEF TypeOK
    <3> QED
      BY <2>2, <2>4, <3>1 DEF VoteStep, Unvoted
  <2> QED
    BY <2>2, <2>3, <2>4
<1>3. ASSUME NEW s \in Server, ProcessRequestVote(s) PROVE VoteStep
  <2> DEFINE m == Head(Batch(s))
             voted == IF m.term > currentTerm[s] THEN Nil ELSE votedFor[s]
             grant == voted \in {Nil, m.from}
  <2>1. m.term \in Nat /\ currentTerm[s] \in Nat
    <3>1. NextTask(s, "RequestVote")
      BY <1>3 DEF ProcessRequestVote
    <3> QED
      BY <3>1, BatchTypes, TaskFields DEF TypeOK
  <2>2. votedFor' = [votedFor EXCEPT ![s] = IF grant THEN m.from ELSE voted]
        /\ elected' = elected
    BY <1>3 DEF ProcessRequestVote
  <2>3. CASE /\ m.term > currentTerm[s]
             /\ currentTerm' = [currentTerm EXCEPT ![s] = m.term]
             /\ granters' = [granters EXCEPT ![s] = {}]
             /\ state' = [state EXCEPT ![s] = "follower"]
    <3> HIDE DEF m, voted, grant
    <3>1. Elsewhere(s)
      BY <2>2, <2>3 DEF TypeOK, Elsewhere
    <3>2. Follows(s)
      BY <2>1, <2>2, <2>3 DEF TypeOK, Follows
    <3> QED
      BY <3>1, <3>2 DEF VoteStep
  <2>4. CASE ~ (m.term > currentTerm[s]) /\ UNCHANGED <<currentTerm, votes, granters, state>>
    <3>1. votedFor'[s] = IF votedFor[s] \in {Nil, m.from} THEN m.from ELSE votedFor[s]
      BY <2>2, <2>4 DEF TypeOK
    <3> HIDE DEF m, voted, grant
    <3>2. Elsewhere(s)
      BY <2>2, <2>4 DEF TypeOK, Elsewhere
    <3>3. Grants(s)
      BY <2>2, <2>4, <3>1 DEF Grants
    <3> QED
      BY <3>2, <3>3 DEF VoteStep
  <2> QED
    BY <1>3, <2>3, <2>4 DEF ProcessRequestVote
<1>4. ASSUME NEW s \in Server, ProcessReplyRequestVote(s) PROVE VoteStep
  <2> DEFINE m == Head(Batch(s))
  <2>1. /\ m \in Mail(s) /\ m.term \in Nat /\ m.from \in Server
        /\ m.type = "ReplyRequestVote" /\ currentTerm[s] \in Nat
    <3>1. NextTask(s, "ReplyRequestVote")
      BY <1>4 DEF ProcessReplyRequestVote
    <3> QED
      BY <3>1, BatchTypes, TaskFields, NextMail DEF TypeOK
  <2>2. CASE UNCHANGED <<server, elected>>
    BY <2>2 DEF server, VoteStep, Unvoted
  <2>3. CASE /\ m.term > currentTerm[s]
             /\ currentTerm' = [currentTerm EXCEPT ![s] = m.term]
             /\ ConvertToFollower(s)
             /\ UNCHANGED elected
    <3> HIDE DEF m
    <3>1. Elsewhere(s)
      BY <2>3 DEF TypeOK, Elsewhere, ConvertToFollower
    <3>2. Follows(s)
      BY <2>1, <2>3 DEF TypeOK, Follows, ConvertToFollower
    <3> QED
      BY <3>1, <3>2 DEF VoteStep
  <2>4. CASE /\ m.term = currentTerm[s] /\ state[s] = "candidate" /\ m.voteGranted
             /\ granters' = [granters EXCEPT ![s] = @ \cup {m.from}]
             /\ \/ /\ state' = [state EXCEPT ![s] = "leader"]
                   /\ elected' = elected \cup {<<currentTerm[s], s, granters'[s]>>}
                \/ UNCHANGED <<state, elected>>
             /\ UNCHANGED <<currentTerm, votedFor>>
    <3>1. Elsewhere(s)
      BY <2>4 DEF TypeOK, Elsewhere
    <3>2. Counts(s)
      BY <2>1, <2>4 DEF TypeOK, Counts, IsGrant
    <3> QED
      BY <3>1, <3>2 DEF VoteStep
  <2>5. CASE UNCHANGED <<votes, granters, state, elected, currentTerm, votedFor>>
    BY <2>5 DEF VoteStep, Unvoted
  <2> QED
    BY <1>4, <2>2, <2>3, <2>4, <2>5 DEF ProcessReplyRequestVote
<1>5. ASSUME NEW s \in Server,
             \/ InitializeNode(s) \/ StopNode(s) \/ ResumeNode(s) \/ SendHeartbeats(s)
             \/ Deliver(s) \/ NoTasks(s) \/ SkipTasks(s)
      PROVE  VoteStep
  BY <1>5 DEF InitializeNode, StopNode, ResumeNode, SendHeartbeats, Deliver, NoTasks,
              SkipTasks, server, VoteStep, Unvoted
<1>6. CASE UNCHANGED vars
  BY <1>6 DEF vars, VoteStep, Unvoted
<1> QED
  BY <1>1, <1>2, <1>3, <1>4, <1>5, <1>6 DEF Next, Loop

(* A vote stands for as long as its term does. *)
LEMMA BoundStays ==
  ASSUME TypeOK, TypeOK', VoteStep, NEW g \in Server, NEW s \in Server, NEW t \in Nat,
         Bound(g, t, s)
  PROVE  Bound(g, t, s)'
<1>1. currentTerm[g] \in Nat /\ currentTerm'[g] \in Nat /\ s # Nil
  BY RaftAssumption DEF TypeOK
<1>2. CASE /\ currentTerm'[g] = currentTerm[g] /\ votedFor'[g] = votedFor[g]
           /\ state'[g] = state[g]
  BY <1>2 DEF Bound
<1>3. CASE Starts(g)
  BY <1>1, <1>3 DEF Starts, Bound
<1>4. CASE Follows(g)
  BY <1>1, <1>4 DEF Follows, Bound
<1>5. CASE Grants(g)
  BY <1>1, <1>5 DEF Grants, Bound
<1>6. CASE Counts(g)
  BY <1>1, <1>6 DEF Counts, Bound
<1> QED
  BY <1>2, <1>3, <1>4, <1>5, <1>6 DEF VoteStep, Elsewhere, Unvoted

(* What may be new in the mail of r after a step, and in the outbox of r.       *)
Fresh(x, r) ==
  /\ x.from \in Server /\ x.from # r
  /\ x.type = "AppendEntries" => Leads(x.from, x.term)
  /\ IsGrant(x) => /\ x.term = currentTerm'[x.from] /\ x.term # 0
                   /\ votedFor'[x.from] = r /\ state'[x.from] # "candidate"

Sent(o, r) == /\ o[1] # r /\ o[2].from = r
              /\ o[2].type \in {"RequestVote", "AppendEntries"}
              /\ o[2].type = "AppendEntries" => Leads(r, o[2].term)

MailStep == \A r \in Server : /\ \A x \in Mail(r)' : x \in Mail(r) \/ Fresh(x, r)
                              /\ \A o \in outbox'[r] : o \in outbox[r] \/ Sent(o, r)

(* A broadcast of a request, or of the heartbeat of a leader, to others.        *)
LEMMA BroadcastFresh ==
  ASSUME TypeOK, NEW s \in Server, NEW m \in Tasks, NEW D \in SUBSET Server,
         Broadcast(s, m, D), toProcess' = toProcess, \A d \in D : Sent(<<d, m>>, s)
  PROVE  MailStep
<1>1. /\ \A r \in Server : \A x \in Items(taskQueue'[r]) :
           x \in Items(taskQueue[r]) \/ (r \in D /\ x = m)
      /\ \A r \in Server : \A o \in outbox'[r] :
           o \in outbox[r] \/ (r = s /\ o[1] \in D /\ o[2] = m)
  BY BroadcastMail
<1>2. \A d \in D : /\ d # s /\ m.from = s /\ m.type \in {"RequestVote", "AppendEntries"}
                   /\ m.type = "AppendEntries" => Leads(s, m.term)
  BY DEF Sent
<1>3. ASSUME NEW r \in Server, NEW x \in Mail(r)' PROVE x \in Mail(r) \/ Fresh(x, r)
  <2>1. x \in Mail(r) \/ (r \in D /\ x = m)
    BY <1>1, <1>3 DEF Mail
  <2>2. CASE r \in D /\ x = m
    <3>1. ~IsGrant(m)
      BY <1>2, <2>2 DEF IsGrant
    <3> QED
      BY <1>2, <2>2, <3>1 DEF Fresh
  <2> QED
    BY <2>1, <2>2
<1>4. ASSUME NEW r \in Server, NEW o \in outbox'[r] PROVE o \in outbox[r] \/ Sent(o, r)
  BY <1>1, <1>2 DEF Sent
<1> QED
  BY <1>3, <1>4 DEF MailStep

(* The answer of a handler of s to the task m it took from its batch.           *)
LEMMA AnswerFresh ==
  ASSUME TypeOK, TypeOK', NEW s \in Server, NEW type, NextTask(s, type), NEW g \in BOOLEAN,
         type \in {"RequestVote", "AppendEntries"},
         MailSound(Head(Batch(s)), s), Answer(s, Head(Batch(s)), g),
         g => /\ currentTerm'[s] # 0 /\ votedFor'[s] = Head(Batch(s)).from
              /\ state'[s] # "candidate"
  PROVE  MailStep
<1>1. PICK m : m = Head(Batch(s))
  OBVIOUS
<1>2. PICK y : y = Reply(s, currentTerm'[s], g, m.type)
  OBVIOUS
<1>3. m \in Tasks /\ m.type = type /\ Queues(s) \in [Server -> Seq(Tasks)]
  BY <1>1, BatchTypes
<1>4. m.from \in Server /\ m.from # s
  BY <1>1, <1>3, TaskFields DEF MailSound
<1>5. currentTerm'[s] \in Nat
  BY DEF TypeOK
<1>6. /\ y \in Tasks /\ y.type = "ReplyRequestVote" /\ y.from = s
      /\ y.voteGranted = g /\ y.term = currentTerm'[s]
  BY <1>2, <1>3, <1>5 DEF Reply, Tasks
<1>7. Call(s, m.from, y, Queues(s), Continue(s))
  BY <1>1, <1>2 DEF Answer
<1>8. \A r \in Server : \A x \in Items(taskQueue'[r]) :
        x \in Items(Queues(s)[r]) \/ (r = m.from /\ x = y)
  <2>1. PICK d, q, l : d = m.from /\ q = Queues(s) /\ l = Continue(s)
    OBVIOUS
  <2>2. d \in Server /\ q \in [Server -> Seq(Tasks)] /\ Call(s, d, y, q, l)
    BY <1>3, <1>4, <1>7, <2>1
  <2>3. \A r \in Server : \A x \in Items(taskQueue'[r]) :
          x \in Items(q[r]) \/ (r = d /\ x = y)
    BY <1>6, <2>2, CallMail
  <2> QED
    BY <2>1, <2>3
<1>9. \A r \in Server : /\ Items(Queues(s)[r]) \subseteq Mail(r)
                        /\ Items(toProcess'[r]) \subseteq Mail(r)
  BY NextMail
<1>10. Fresh(y, m.from)
  BY <1>1, <1>4, <1>6 DEF Fresh, IsGrant
<1>11. ASSUME NEW r \in Server, NEW x \in Mail(r)' PROVE x \in Mail(r) \/ Fresh(x, r)
  BY <1>8, <1>9, <1>10, <1>11 DEF Mail
<1>12. outbox' = outbox
  BY DEF NextTask
<1> QED
  BY <1>11, <1>12 DEF MailStep

(* Every handler answers the sender of its task, only a leader broadcasts a     *)
(* heartbeat, and a candidate, which holds its own vote, grants no request.     *)
LEMMA MailSteps == VoteInv /\ TypeOK' /\ [Next]_vars => MailStep
<1> SUFFICES ASSUME VoteInv, TypeOK', [Next]_vars PROVE MailStep
  OBVIOUS
<1>a. TypeOK /\ VotesForSelf /\ SentByOthers /\ LeadersElected
  BY DEF VoteInv
<1>b. ASSUME NEW s \in Server, NEW type, NextTask(s, type)
      PROVE  LET m == Head(Batch(s)) IN
             /\ m \in Tasks /\ m.type = type /\ m.from \in Server /\ MailSound(m, s)
             /\ m.term \in Nat /\ currentTerm[s] \in Nat
             /\ type = "RequestVote" => m.term # 0
  <2>1. PICK m : m = Head(Batch(s))
    OBVIOUS
  <2>2. m \in Tasks /\ m.type = type /\ m \in Mail(s)
    BY <1>a, <1>b, <2>1, BatchTypes, NextMail
  <2>3. MailSound(m, s) /\ currentTerm[s] \in Nat
    BY <1>a, <2>2 DEF SentByOthers, TypeOK
  <2>4. /\ m.term \in Nat /\ m.from \in Server
        /\ m.type = "RequestVote" => m.term # 0
    BY <2>2, TaskFields
  <2> QED
    BY <2>1, <2>2, <2>3, <2>4
<1>1. ASSUME NEW s \in Server, StartElection(s) PROVE MailStep
  <2>1. PICK m : m = RequestVote(s, currentTerm[s] + 1)
    OBVIOUS
  <2>2. currentTerm[s] + 1 \in Nat \ {0}
    BY <1>a DEF TypeOK
  <2>3. m \in Tasks /\ m.from = s /\ m.type = "RequestVote"
    BY <2>1, <2>2 DEF RequestVote, Tasks
  <2>4. Broadcast(s, m, Others(s)) /\ toProcess' = toProcess
    BY <1>1, <2>1 DEF StartElection
  <2>5. Others(s) \subseteq Server /\ \A d \in Others(s) : Sent(<<d, m>>, s)
    BY <2>3 DEF Others, Sent
  <2> QED
    BY <1>a, <2>3, <2>4, <2>5, BroadcastFresh
<1>2. ASSUME NEW s \in Server, SendHeartbeats(s) PROVE MailStep
  <2>1. PICK m : m = AppendEntries(s, currentTerm[s])
    OBVIOUS
  <2>2. m \in Tasks /\ m.from = s /\ m.type = "AppendEntries" /\ m.term = currentTerm[s]
    BY <1>a, <2>1 DEF AppendEntries, Tasks, TypeOK
  <2>3. Broadcast(s, m, Others(s)) /\ toProcess' = toProcess
    BY <1>2, <2>1 DEF SendHeartbeats
  <2>4. Leads(s, m.term)
    BY <1>2, <1>a, <2>2 DEF SendHeartbeats, LeadersElected
  <2>5. Others(s) \subseteq Server /\ \A d \in Others(s) : Sent(<<d, m>>, s)
    BY <2>2, <2>4 DEF Others, Sent
  <2> QED
    BY <1>a, <2>2, <2>3, <2>5, BroadcastFresh
<1>3. ASSUME NEW s \in Server, Deliver(s) PROVE MailStep
  <2>1. PICK o \in outbox[s] : Broadcast(s, o[2], {x[1] : x \in outbox[s]})
    BY <1>3 DEF Deliver
  <2>2. PICK D : D = {x[1] : x \in outbox[s]}
    OBVIOUS
  <2>3. outbox[s] \subseteq Server \X Tasks
    BY <1>a DEF TypeOK
  <2>4. o[2] \in Tasks /\ D \subseteq Server
    BY <2>2, <2>3
  <2>5. /\ \A x \in outbox[s] : x[1] # s
        /\ o[2].from = s /\ o[2].type \in {"RequestVote", "AppendEntries"}
        /\ o[2].type = "AppendEntries" => Leads(s, o[2].term)
    BY <1>a DEF SentByOthers
  <2>6. \A d \in D : d # s
    BY <2>2, <2>5
  <2>7. \A d \in D : Sent(<<d, o[2]>>, s)
    BY <2>5, <2>6 DEF Sent
  <2>8. toProcess' = toProcess
    BY <1>3 DEF Deliver
  <2> QED
    BY <1>a, <2>1, <2>2, <2>4, <2>7, <2>8, BroadcastFresh
<1>4. ASSUME NEW s \in Server, SkipTasks(s) PROVE MailStep
  <2>1. taskQueue' = [taskQueue EXCEPT ![s] = <<>>] /\ toProcess' = toProcess /\ outbox' = outbox
    BY <1>4 DEF SkipTasks
  <2>2. \A r \in Server : taskQueue'[r] = taskQueue[r] \/ taskQueue'[r] = <<>>
    BY <1>a, <2>1 DEF TypeOK
  <2>3. Items(<<>>) = {}
    BY DEF Items
  <2>4. \A r \in Server : Items(taskQueue'[r]) \subseteq Items(taskQueue[r])
    BY <2>2, <2>3
  <2> QED
    BY <2>1, <2>4 DEF MailStep, Mail
<1>5. ASSUME NEW s \in Server, ProcessAppendEntries(s) PROVE MailStep
  <2>1. NextTask(s, "AppendEntries")
    BY <1>5 DEF ProcessAppendEntries
  <2>2. MailSound(Head(Batch(s)), s)
    BY <1>b, <2>1
  <2>3. CASE Answer(s, Head(Batch(s)), FALSE)
    BY <1>a, <2>1, <2>2, <2>3, AnswerFresh
  <2>4. CASE taskQueue' = Queues(s)
    <3>1. \A r \in Server : /\ Items(Queues(s)[r]) \subseteq Mail(r)
                            /\ Items(toProcess'[r]) \subseteq Mail(r)
      BY <1>a, <2>1, NextMail
    <3>2. outbox' = outbox
      BY <2>1 DEF NextTask
    <3> QED
      BY <2>4, <3>1, <3>2 DEF MailStep, Mail
  <2> QED
    BY <1>5, <2>3, <2>4 DEF ProcessAppendEntries
<1>6. ASSUME NEW s \in Server, ProcessRequestVote(s) PROVE MailStep
  <2>1. PICK m : m = Head(Batch(s))
    OBVIOUS
  <2>2. PICK voted : voted = IF m.term > currentTerm[s] THEN Nil ELSE votedFor[s]
    OBVIOUS
  <2>3. PICK grant : grant = (voted \in {Nil, m.from})
    OBVIOUS
  <2>4. /\ NextTask(s, "RequestVote")
        /\ votedFor' = [votedFor EXCEPT ![s] = IF grant THEN m.from ELSE voted]
        /\ Answer(s, m, grant)
        /\ \/ /\ m.term > currentTerm[s]
              /\ currentTerm' = [currentTerm EXCEPT ![s] = m.term]
              /\ state' = [state EXCEPT ![s] = "follower"]
           \/ /\ ~ (m.term > currentTerm[s])
              /\ currentTerm' = currentTerm /\ state' = state
    BY <1>6, <2>1, <2>2, <2>3 DEF ProcessRequestVote
  <2>5. /\ m.from \in Server /\ MailSound(m, s) /\ m.term \in Nat \ {0}
        /\ currentTerm[s] \in Nat
    BY <1>b, <2>1, <2>4
  <2>6. ASSUME grant
        PROVE  /\ currentTerm'[s] # 0 /\ votedFor'[s] = m.from
               /\ state'[s] # "candidate"
    <3>1. votedFor'[s] = m.from
      BY <1>a, <2>4, <2>6 DEF TypeOK
    <3>2. CASE /\ m.term > currentTerm[s]
               /\ currentTerm' = [currentTerm EXCEPT ![s] = m.term]
               /\ state' = [state EXCEPT ![s] = "follower"]
      BY <1>a, <2>5, <3>1, <3>2 DEF TypeOK
    <3>3. CASE /\ ~ (m.term > currentTerm[s])
               /\ currentTerm' = currentTerm /\ state' = state
      <4>1. currentTerm[s] # 0 /\ votedFor[s] \in {Nil, m.from}
        <5>1. voted \in {Nil, m.from}
          BY <2>3, <2>6
        <5> QED
          BY <2>2, <2>5, <3>3, <5>1
      <4>2. state[s] = "candidate" => votedFor[s] = s /\ s # Nil /\ m.from # s
        BY <1>a, <2>5, <4>1, RaftAssumption DEF VotesForSelf, MailSound
      <4> QED
        BY <3>1, <3>3, <4>1, <4>2
    <3> QED
      BY <2>4, <3>2, <3>3
  <2>7. grant \in BOOLEAN
    BY <2>3
  <2> QED
    BY <1>a, <2>1, <2>4, <2>5, <2>6, <2>7, AnswerFresh
<1>7. ASSUME NEW s \in Server, ProcessReplyRequestVote(s) PROVE MailStep
  <2>1. NextTask(s, "ReplyRequestVote") /\ taskQueue' = Queues(s)
    BY <1>7 DEF ProcessReplyRequestVote
  <2>2. \A r \in Server : /\ Items(Queues(s)[r]) \subseteq Mail(r)
                          /\ Items(toProcess'[r]) \subseteq Mail(r)
    BY <1>a, <2>1, NextMail
  <2>3. outbox' = outbox
    BY <2>1 DEF NextTask
  <2> QED
    BY <2>1, <2>2, <2>3 DEF MailStep, Mail
<1>8. CASE UNCHANGED <<taskQueue, toProcess, outbox>>
  BY <1>8 DEF MailStep, Mail
<1>9. ASSUME NEW s \in Server,
             InitializeNode(s) \/ StopNode(s) \/ ResumeNode(s) \/ NoTasks(s)
      PROVE  UNCHANGED <<taskQueue, toProcess, outbox>>
  BY <1>9 DEF InitializeNode, StopNode, ResumeNode, NoTasks
<1>10. UNCHANGED vars => UNCHANGED <<taskQueue, toProcess, outbox>>
  BY DEF vars
<1> QED
  BY <1>1, <1>2, <1>3, <1>4, <1>5, <1>6, <1>7, <1>8, <1>9, <1>10 DEF Next, Loop

(* A vote that is new after a step is one of the voter's present term, and binds *)
(* it.                                                                          *)
LEMMA VotedNew ==
  ASSUME VoteInv, TypeOK', VoteStep, MailStep,
         NEW g \in Server, NEW s \in Server, NEW t \in Nat, Voted(g, t, s)'
  PROVE  Voted(g, t, s) \/ (t = currentTerm'[g] /\ Bound(g, t, s)')
<1>a. /\ TypeOK /\ VotesForSelf /\ SentByOthers
      /\ currentTerm'[g] \in Nat /\ currentTerm'[s] \in Nat /\ currentTerm[s] \in Nat
  BY DEF VoteInv, TypeOK
<1>1. ASSUME NEW m \in Mail(s)', IsGrant(m), m.from = g, m.term = t
      PROVE  Voted(g, t, s) \/ (t = currentTerm'[g] /\ Bound(g, t, s)')
  <2>1. m \in Mail(s) \/ Fresh(m, s)
    BY <1>1 DEF MailStep
  <2>2. CASE m \in Mail(s)
    BY <1>1, <2>2 DEF Voted
  <2>3. CASE Fresh(m, s)
    <3>1. t = currentTerm'[g] /\ votedFor'[g] = s /\ state'[g] # "candidate"
      BY <1>1, <2>3 DEF Fresh
    <3> QED
      BY <1>a, <3>1 DEF Bound
  <2> QED
    BY <2>1, <2>2, <2>3
<1>2. ASSUME g \in granters'[s], t = currentTerm'[s] PROVE Voted(g, t, s)
  <2>1. CASE granters'[s] = granters[s] /\ currentTerm'[s] = currentTerm[s]
    BY <1>2, <2>1 DEF Voted
  <2>2. CASE granters'[s] = {}
    BY <1>2, <2>2
  <2>3. CASE Counts(s)
    BY <1>2, <2>3 DEF Counts, Voted
  <2> QED
    BY <2>1, <2>2, <2>3 DEF VoteStep, Elsewhere, Unvoted, Starts, Follows, Grants
<1>3. ASSUME NEW e \in elected', e[1] = t, e[2] = s, g \in e[3] \cup {s}
      PROVE  Voted(g, t, s) \/ (t = currentTerm'[g] /\ Bound(g, t, s)')
  <2>1. CASE e \in elected
    BY <1>3, <2>1 DEF Voted
  <2>2. CASE /\ Counts(s) /\ state'[s] = "leader"
             /\ e = <<currentTerm[s], s, granters'[s]>>
    <3>1. t = currentTerm[s] /\ t = currentTerm'[s] /\ votedFor'[s] = votedFor[s]
          /\ state[s] = "candidate" /\ e[3] = granters'[s]
      BY <1>3, <2>2 DEF Counts
    <3>2. CASE g \in granters'[s]
      BY <1>2, <3>1, <3>2
    <3>3. CASE g = s
      <4>1. t # 0
        BY <1>a, <2>2, <3>1 DEF Counts, SentByOthers, MailSound
      <4>2. votedFor[s] = s
        BY <1>a, <3>1, <4>1 DEF VotesForSelf
      <4> QED
        BY <1>a, <2>2, <3>1, <3>3, <4>2 DEF Bound
    <3> QED
      BY <1>3, <3>1, <3>2, <3>3
  <2>3. CASE e \notin elected
    <3>1. PICK r \in Server : /\ Counts(r) /\ state'[r] = "leader"
                              /\ e = <<currentTerm[r], r, granters'[r]>>
      BY <2>3 DEF VoteStep, Unvoted, Starts, Follows, Grants, Counts
    <3>2. r = s
      BY <1>3, <3>1
    <3> QED
      BY <2>2, <3>1, <3>2
  <2> QED
    BY <2>1, <2>3
<1> QED
  BY <1>1, <1>2, <1>3 DEF Voted

LEMMA VotesBound == VoteInv /\ TypeOK' /\ VoteStep /\ MailStep => VotesBind' /\ VotesOnce'
<1> SUFFICES ASSUME VoteInv, TypeOK', VoteStep, MailStep
             PROVE  VotesBind' /\ VotesOnce'
  OBVIOUS
<1>a. TypeOK /\ VotesBind /\ VotesOnce
  BY DEF VoteInv
<1>1. ASSUME NEW g \in Server, NEW s \in Server, NEW t \in Nat, Voted(g, t, s)'
      PROVE  Bound(g, t, s)'
  <2>1. Voted(g, t, s) => Bound(g, t, s)
    BY <1>a DEF VotesBind
  <2>2. Bound(g, t, s) => Bound(g, t, s)'
    BY <1>a, BoundStays
  <2> QED
    BY <1>1, <2>1, <2>2, VotedNew
<1>2. ASSUME NEW g \in Server, NEW s \in Server, NEW r \in Server, NEW t \in Nat,
             Voted(g, t, s)', Voted(g, t, r)'
      PROVE  s = r
  <2>1. Bound(g, t, s)' /\ Bound(g, t, r)'
    BY <1>1, <1>2
  <2>2. CASE t = currentTerm'[g]
    BY <2>1, <2>2 DEF Bound
  <2>3. CASE Voted(g, t, s) /\ Voted(g, t, r)
    BY <1>a, <2>3 DEF VotesOnce
  <2> QED
    BY <1>2, <2>2, <2>3, VotedNew
<1>3. VotesBind'
  BY <1>1 DEF VotesBind
<1>4. VotesOnce'
  BY <1>2 DEF VotesOnce
<1> QED
  BY <1>3, <1>4

LEMMA MailStaysSound ==
  VoteInv /\ VoteStep /\ MailStep => SentByOthers' /\ LeadersElected'
<1> SUFFICES ASSUME VoteInv, VoteStep, MailStep
             PROVE  SentByOthers' /\ LeadersElected'
  OBVIOUS
<1>a. TypeOK /\ SentByOthers /\ LeadersElected
  BY DEF VoteInv
<1>1. elected \subseteq elected'
  BY DEF VoteStep, Unvoted, Starts, Follows, Grants, Counts
<1>2. \A s, t : Leads(s, t) => Leads(s, t)'
  BY <1>1 DEF Leads
<1>3. ASSUME NEW s \in Server, NEW m \in Mail(s)' PROVE MailSound(m, s)'
  BY <1>a, <1>2, <1>3 DEF MailStep, SentByOthers, Fresh, MailSound
<1>4. ASSUME NEW s \in Server, NEW o \in outbox'[s]
      PROVE  /\ o[1] # s /\ o[2].from = s
             /\ o[2].type \in {"RequestVote", "AppendEntries"}
             /\ o[2].type = "AppendEntries" => Leads(s, o[2].term)'
  <2>1. Sent(o, s)
    BY <1>a, <1>4 DEF MailStep, SentByOthers, Sent
  <2> QED
    BY <1>2, <2>1 DEF Sent
<1>5. ASSUME NEW s \in Server
      PROVE  /\ s \notin granters'[s]
             /\ state'[s] = "leader" => Leads(s, currentTerm[s])'
  <2>0. s \notin granters[s] /\ (state[s] = "leader" => Leads(s, currentTerm[s]))
    BY <1>a DEF LeadersElected
  <2>1. CASE /\ granters'[s] = granters[s] /\ state'[s] = state[s]
             /\ currentTerm'[s] = currentTerm[s]
    BY <1>2, <2>0, <2>1
  <2>2. CASE granters'[s] = {} /\ state'[s] # "leader"
    BY <2>2
  <2>3. CASE Counts(s)
    <3>1. Head(Batch(s)).from # s
      BY <1>a, <2>3 DEF Counts, SentByOthers, MailSound
    <3>2. s \notin granters'[s]
      BY <2>0, <2>3, <3>1 DEF Counts
    <3>3. ASSUME state'[s] = "leader" PROVE Leads(s, currentTerm[s])'
      <4>1. <<currentTerm[s], s, granters'[s]>> \in elected'
            /\ currentTerm'[s] = currentTerm[s]
        BY <2>3, <3>3 DEF Counts
      <4> QED
        BY <4>1 DEF Leads
    <3> QED
      BY <3>2, <3>3
  <2> QED
    BY <2>1, <2>2, <2>3 DEF VoteStep, Elsewhere, Unvoted, Starts, Follows, Grants
<1>6. ASSUME NEW e \in elected' PROVE e[3] # {} /\ e[2] \notin e[3]
  <2>1. CASE e \in elected
    BY <1>a, <2>1 DEF LeadersElected
  <2>2. CASE e \notin elected
    <3>1. PICK r \in Server : /\ Counts(r) /\ state'[r] = "leader"
                              /\ e = <<currentTerm[r], r, granters'[r]>>
      BY <2>2 DEF VoteStep, Unvoted, Starts, Follows, Grants, Counts
    <3>2. granters'[r] # {}
      BY <3>1 DEF Counts
    <3> QED
      BY <1>5, <3>1, <3>2
  <2> QED
    BY <2>1, <2>2
<1>7. SentByOthers'
  BY <1>3, <1>4 DEF SentByOthers
<1>8. LeadersElected'
  BY <1>5, <1>6 DEF LeadersElected
<1> QED
  BY <1>7, <1>8

LEMMA InitVoteInv == Init => VoteInv
<1> SUFFICES ASSUME Init PROVE VoteInv
  OBVIOUS
<1>1. TypeOK
  BY InitTypes
<1>2. \A s \in Server : Mail(s) = {}
  BY DEF Init, Mail, Items
<1>3. VotesForSelf /\ LeadersElected
  BY DEF Init, VotesForSelf, LeadersElected
<1>4. SentByOthers
  BY <1>2 DEF Init, SentByOthers
<1>5. \A g, s \in Server, t \in Nat : ~ Voted(g, t, s)
  BY <1>2 DEF Init, Voted
<1> QED
  BY <1>1, <1>3, <1>4, <1>5 DEF VoteInv, VotesBind, VotesOnce

LEMMA VotesSound == Spec => []VoteInv
<1>1. VoteInv /\ [Next]_vars => VoteInv'
  <2> SUFFICES ASSUME VoteInv, [Next]_vars PROVE VoteInv'
    OBVIOUS
  <2>1. TypeOK' /\ VotesForSelf'
    BY StepTypes, StepVotes DEF VoteInv
  <2>2. VoteStep /\ MailStep
    BY <2>1, VoteSteps, MailSteps DEF VoteInv
  <2>3. VotesBind' /\ VotesOnce'
    BY <2>1, <2>2, VotesBound
  <2>4. SentByOthers' /\ LeadersElected'
    BY <2>2, MailStaysSound
  <2> QED
    BY <2>1, <2>3, <2>4 DEF VoteInv
<1> QED
  BY <1>1, InitVoteInv, PTL DEF Spec

-----------------------------------------------------------------------------
(* Of any two winners of an election of the same term, for any number of servers, *)
(* none has a vote the other has counted: a voter whose grant is still on its way *)
(* or was counted twice gives no vote to another candidate of that term           *)
(* (processRequestVote, convertToFollower).                                       *)
SeparateVoters ==
  \A x, y \in elected :
    x[1] = y[1] /\ x[2] # y[2] => (x[3] \cup {x[2]}) \cap (y[3] \cup {y[2]}) = {}

LEMMA ElectedVoted ==
  ASSUME TypeOK, NEW e \in elected
  PROVE  /\ e[1] \in Nat /\ e[2] \in Server /\ e[3] \subseteq Server
         /\ \A g \in e[3] \cup {e[2]} : Voted(g, e[1], e[2])
BY DEF TypeOK, Voted

LEMMA VotersApart == VoteInv => SeparateVoters
<1> SUFFICES ASSUME VoteInv, NEW x \in elected, NEW y \in elected,
                    x[1] = y[1], x[2] # y[2], NEW g,
                    g \in x[3] \cup {x[2]}, g \in y[3] \cup {y[2]}
             PROVE  FALSE
  BY DEF SeparateVoters
<1>1. TypeOK /\ VotesOnce
  BY DEF VoteInv
<1>2. /\ x[1] \in Nat /\ x[2] \in Server /\ y[2] \in Server /\ g \in Server
      /\ Voted(g, x[1], x[2]) /\ Voted(g, x[1], y[2])
  BY <1>1, ElectedVoted
<1> QED
  BY <1>1, <1>2 DEF VotesOnce

THEOREM WinnersShareNoVoter == Spec => []SeparateVoters
BY VotersApart, VotesSound, PTL

(* Whoever has granted a vote that a candidate or leader still counts stays with  *)
(* that vote in its term, for any number of servers: only a candidate forgets its *)
(* vote for a heartbeat of its own term (convertToFollower), and a candidate has  *)
(* granted no vote.                                                               *)
THEOREM VotersAreFaithful == Spec => []VotersStay
<1>1. VoteInv => VotersStay
  <2> SUFFICES ASSUME VoteInv, NEW s \in Server, NEW g \in Server,
                      g \in granters[s], currentTerm[g] = currentTerm[s]
               PROVE  votedFor[g] = s
    BY DEF VotersStay
  <2>1. currentTerm[s] \in Nat /\ VotesBind
    BY DEF VoteInv, TypeOK
  <2>2. Voted(g, currentTerm[s], s)
    BY DEF Voted
  <2> QED
    BY <2>1, <2>2 DEF VotesBind, Bound
<1> QED
  BY <1>1, VotesSound, PTL

(* Two winners of one term make four different servers, each with its own vote    *)
(* and that of somebody else.                                                     *)
LEMMA WinnersNeedFour ==
  ASSUME VoteInv, NEW x \in elected, NEW y \in elected, x[1] = y[1], x[2] # y[2]
  PROVE  Cardinality(Server) >= 4
<1>1. TypeOK /\ LeadersElected /\ SeparateVoters
  BY VotersApart DEF VoteInv
<1>2. /\ x[2] \in Server /\ x[3] \subseteq Server /\ x[3] # {} /\ x[2] \notin x[3]
      /\ y[2] \in Server /\ y[3] \subseteq Server /\ y[3] # {} /\ y[2] \notin y[3]
  BY <1>1, ElectedVoted DEF LeadersElected
<1>3. PICK s, r, g, h : s = x[2] /\ r = y[2] /\ g \in x[3] /\ h \in y[3]
  BY <1>2
<1>4. (x[3] \cup {x[2]}) \cap (y[3] \cup {y[2]}) = {}
  BY <1>1 DEF SeparateVoters
<1>5. g # s /\ h # r /\ s # r /\ g # h /\ g # r /\ h # s
  BY <1>2, <1>3, <1>4
<1>6. {s, r, g, h} \subseteq Server
  BY <1>2, <1>3
<1>7. PICK A : A = {s}
  OBVIOUS
<1>8. PICK B : B = A \cup {r}
  OBVIOUS
<1>9. PICK C : C = B \cup {g}
  OBVIOUS
<1>10. PICK D : D = C \cup {h}
  OBVIOUS
<1>11. r \notin A
  BY <1>5, <1>7
<1>12. g \notin B
  BY <1>5, <1>7, <1>8
<1>13. h \notin C /\ D \subseteq Server
  BY <1>5, <1>6, <1>7, <1>8, <1>9, <1>10
<1>14. IsFiniteSet(A) /\ Cardinality(A) = 1
  BY <1>7, FS_Singleton
<1>15. IsFiniteSet(B) /\ Cardinality(B) = Cardinality(A) + 1
  BY <1>8, <1>11, <1>14, FS_AddElement
<1>16. IsFiniteSet(C) /\ Cardinality(C) = Cardinality(B) + 1
  BY <1>9, <1>12, <1>15, FS_AddElement
<1>17. Cardinality(D) = Cardinality(C) + 1
  BY <1>10, <1>13, <1>16, FS_AddElement
<1>18. Cardinality(D) <= Cardinality(Server) /\ Cardinality(Server) \in Nat
  BY <1>13, RaftAssumption, FS_Subset, FS_CardinalityType
<1> QED
  BY <1>14, <1>15, <1>16, <1>17, <1>18

(* Had the majority in processReplyRequestVote been one of different servers, as  *)
(* its comment says, no term would have two winners, however many servers there   *)
(* are: only grants counted twice (VotesFromMajority) can elect a second one.     *)
MajoritiesAgree ==
  \A x, y \in elected :
    /\ x[1] = y[1]
    /\ Cardinality(x[3]) >= MajorityMinimum /\ Cardinality(y[3]) >= MajorityMinimum
    => x[2] = y[2]

LEMMA SupportersCount ==
  ASSUME VoteInv, NEW e \in elected
  PROVE  /\ IsFiniteSet(e[3] \cup {e[2]}) /\ e[3] \cup {e[2]} \subseteq Server
         /\ Cardinality(e[3] \cup {e[2]}) = Cardinality(e[3]) + 1
         /\ Cardinality(e[3]) \in Nat
<1>1. TypeOK /\ LeadersElected
  BY DEF VoteInv
<1>2. e[2] \in Server /\ e[3] \subseteq Server /\ e[2] \notin e[3]
  BY <1>1, ElectedVoted DEF LeadersElected
<1>3. IsFiniteSet(e[3])
  BY <1>2, RaftAssumption, FS_Subset
<1> QED
  BY <1>2, <1>3, FS_AddElement, FS_CardinalityType

(* Two majorities of different servers, each with the vote of the winner itself,  *)
(* would be more servers than there are.                                          *)
LEMMA MajoritiesApart == VoteInv => MajoritiesAgree
<1> SUFFICES ASSUME VoteInv, NEW x \in elected, NEW y \in elected,
                    x[1] = y[1], x[2] # y[2],
                    Cardinality(x[3]) >= MajorityMinimum,
                    Cardinality(y[3]) >= MajorityMinimum
             PROVE  FALSE
  BY DEF MajoritiesAgree
<1>1. PICK X, Y, n : /\ X = x[3] \cup {x[2]} /\ Y = y[3] \cup {y[2]}
                     /\ n = Cardinality(Server)
  OBVIOUS
<1>2. X \cap Y = {}
  BY <1>1, VotersApart DEF SeparateVoters
<1>3. /\ IsFiniteSet(X) /\ X \subseteq Server /\ IsFiniteSet(Y) /\ Y \subseteq Server
      /\ Cardinality(X) \in Nat /\ Cardinality(Y) \in Nat
      /\ Cardinality(X) >= MajorityMinimum + 1
      /\ Cardinality(Y) >= MajorityMinimum + 1
  <2>1. MajorityMinimum \in Nat
    BY RaftAssumption, FS_CardinalityType DEF MajorityMinimum
  <2> QED
    BY <1>1, <2>1, SupportersCount
<1>4. Cardinality(X \cup Y) = Cardinality(X) + Cardinality(Y)
  <2>1. Cardinality(X \cap Y) = 0
    BY <1>2, FS_EmptySet
  <2>2. Cardinality(X \cup Y) = Cardinality(X) + Cardinality(Y) - Cardinality(X \cap Y)
    BY <1>3, FS_Union
  <2> QED
    BY <1>3, <2>1, <2>2
<1>5. IsFiniteSet(Server) /\ X \cup Y \subseteq Server
  BY <1>3, RaftAssumption
<1>6. Cardinality(X \cup Y) <= n /\ n \in Nat
  BY <1>1, <1>5, FS_Subset, FS_CardinalityType
<1>7. 2 * ((n + 2) \div 2) >= n + 1 /\ (n + 2) \div 2 \in Nat
  BY <1>6
<1>8. MajorityMinimum = (n + 2) \div 2
  BY <1>1 DEF MajorityMinimum
<1> QED
  BY <1>3, <1>4, <1>6, <1>7, <1>8

(* "majority of servers" (processReplyRequestVote): where it is one, a term has    *)
(* one leader, for any number of servers.                                         *)
THEOREM RealMajoritiesAgree == Spec => []MajoritiesAgree
BY MajoritiesApart, VotesSound, PTL

(* A winner that had fewer voters than grants: one of them was counted twice      *)
(* (processReplyRequestVote).  It cannot give a term two winners among three      *)
(* servers, of which each has its own vote and needs a voter of its own.          *)
GrantCountedTwice ==
  /\ \E x \in elected : Cardinality(x[3]) < MajorityMinimum
  /\ Cardinality(Server) >= 4

(* Of two winners of a term one had no majority of servers. *)
LEMMA TwoWinners == VoteInv => ElectionSafety \/ GrantCountedTwice
<1> SUFFICES ASSUME VoteInv, NEW x \in elected, NEW y \in elected,
                    x[1] = y[1], x[2] # y[2]
             PROVE  GrantCountedTwice
  BY DEF ElectionSafety
<1>1. Cardinality(Server) >= 4
  BY WinnersNeedFour
<1>2. MajoritiesAgree
  BY MajoritiesApart
<1>3. MajorityMinimum \in Nat /\ Cardinality(x[3]) \in Nat /\ Cardinality(y[3]) \in Nat
  <2>1. MajorityMinimum \in Nat
    BY RaftAssumption, FS_CardinalityType DEF MajorityMinimum
  <2> QED
    BY <2>1, SupportersCount
<1>4. Cardinality(x[3]) < MajorityMinimum \/ Cardinality(y[3]) < MajorityMinimum
  BY <1>2, <1>3 DEF MajoritiesAgree
<1> QED
  BY <1>1, <1>4 DEF GrantCountedTwice

(* Any number of servers: at most one of them wins the election of a term,        *)
(* whatever is delayed or repeated, but for a winner whose majority is of grants  *)
(* and not of servers, and then there are four of them or more.                   *)
THEOREM OneLeaderPerTerm == Spec => [](ElectionSafety \/ GrantCountedTwice)
BY TwoWinners, VotesSound, PTL

(* A leader that gets a heartbeat of its own term is not the only winner of it.   *)
LEMMA FatalNeedsTwo ==
  ASSUME VoteInv, NEW s \in Server, NextTask(s, "AppendEntries"),
         Head(Batch(s)).term = currentTerm[s], state[s] = "leader"
  PROVE  ~ElectionSafety
<1>1. TypeOK /\ SentByOthers /\ LeadersElected
  BY DEF VoteInv
<1>2. PICK m : m = Head(Batch(s))
  OBVIOUS
<1>3. m \in Mail(s) /\ m.type = "AppendEntries"
  BY <1>1, <1>2, NextMail, BatchTypes
<1>4. m.from # s /\ Leads(m.from, m.term)
  BY <1>1, <1>3 DEF SentByOthers, MailSound
<1>5. Leads(s, m.term)
  BY <1>1, <1>2 DEF LeadersElected
<1> QED
  BY <1>4, <1>5 DEF Leads, ElectionSafety

(* Elections that were won stay won. *)
LEMMA ElectedGrows == [Next]_vars => elected \subseteq elected'
<1> SUFFICES ASSUME [Next]_vars PROVE elected \subseteq elected'
  OBVIOUS
<1>1. ASSUME NEW s \in Server, ProcessReplyRequestVote(s) PROVE elected \subseteq elected'
  BY <1>1 DEF ProcessReplyRequestVote
<1>2. ASSUME NEW s \in Server,
             \/ InitializeNode(s) \/ StopNode(s) \/ ResumeNode(s) \/ StartElection(s)
             \/ SendHeartbeats(s) \/ Deliver(s) \/ NoTasks(s) \/ SkipTasks(s)
             \/ ProcessAppendEntries(s) \/ ProcessRequestVote(s)
      PROVE  elected' = elected
  BY <1>2 DEF InitializeNode, StopNode, ResumeNode, StartElection, SendHeartbeats,
              Deliver, NoTasks, SkipTasks, ProcessAppendEntries, ProcessRequestVote
<1> QED
  BY <1>1, <1>2 DEF Next, Loop, vars

(* So the os.exit(-1) of setElectionTimeout is reached only after a leader was    *)
(* elected by grants counted twice, among four servers or more.                   *)
THEOREM LeadersNeverExit == Spec => [](NoFatalExit \/ GrantCountedTwice)
<1>1. Init => NoFatalExit
  BY DEF Init, NoFatalExit
<1>2. VoteInv /\ (NoFatalExit \/ GrantCountedTwice) /\ [Next]_vars =>
        (NoFatalExit \/ GrantCountedTwice)'
  <2> SUFFICES ASSUME VoteInv, NoFatalExit \/ GrantCountedTwice, [Next]_vars
               PROVE  (NoFatalExit \/ GrantCountedTwice)'
    OBVIOUS
  <2>1. CASE GrantCountedTwice
    <3>1. elected \subseteq elected'
      BY ElectedGrows
    <3> QED
      BY <2>1, <3>1 DEF GrantCountedTwice, MajorityMinimum
  <2>2. CASE ElectionSafety /\ NoFatalExit
    <3>1. ASSUME NEW s \in Server, ProcessAppendEntries(s) PROVE exited' = exited
      <4>1. NextTask(s, "AppendEntries")
        BY <3>1 DEF ProcessAppendEntries
      <4>2. ~(Head(Batch(s)).term = currentTerm[s] /\ state[s] = "leader")
        BY <2>2, <4>1, FatalNeedsTwo
      <4> QED
        BY <3>1, <4>2 DEF ProcessAppendEntries
    <3>2. ASSUME NEW s \in Server,
                 \/ InitializeNode(s) \/ StopNode(s) \/ ResumeNode(s)
                 \/ StartElection(s) \/ SendHeartbeats(s) \/ Deliver(s) \/ NoTasks(s)
                 \/ SkipTasks(s) \/ ProcessRequestVote(s) \/ ProcessReplyRequestVote(s)
          PROVE  exited' = exited
      BY <3>2 DEF InitializeNode, StopNode, ResumeNode, StartElection, SendHeartbeats,
                  Deliver, NoTasks, SkipTasks, ProcessRequestVote,
                  ProcessReplyRequestVote
    <3>3. exited' = exited
      BY <3>1, <3>2 DEF Next, Loop, vars
    <3> QED
      BY <2>2, <3>3 DEF NoFatalExit
  <2> QED
    BY <2>1, <2>2, TwoWinners
<1> QED
  BY <1>1, <1>2, VotesSound, PTL DEF Spec
=============================================================================
