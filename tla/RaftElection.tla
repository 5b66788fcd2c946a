---------------------------- MODULE RaftElection ----------------------------
(***************************************************************************)
(* The leader election of trab2-raft: server.lua over luarpc.lua.          *)
(*                                                                         *)
(* The RPC handlers only append a task to taskQueue and acknowledge; one   *)
(* coroutine per server, the loop, looks at its timers and processes the   *)
(* tasks.  An outgoing RPC yields until the acknowledgement, so the loop   *)
(* sends its messages one at a time and stands still meanwhile: outbox     *)
(* holds what a broadcast has still to send.  A handler and the delivery   *)
(* of its only answer are one step, since nothing that the handler changes *)
(* is visible to another server before the answer is.                      *)
(*                                                                         *)
(* A timer may expire at any iteration of the loop: the delays of          *)
(* setElectionTimeout and setLeaderHeartbeatTimeout are left out.  The     *)
(* handler of ReplyAppendEntries is left out too: nobody calls it, since   *)
(* processAppendEntries answers with ReplyRequestVote.                     *)
(***************************************************************************)
EXTENDS Naturals, Sequences, FiniteSets

CONSTANTS Server,      \* the servers of ports.txt
          Nil,         \* votedFor of a server that has not voted
          MaxElections,\* bound: elections started by all the servers together
          MaxCalls,    \* bound: calls of StopNode and ResumeNode
          MaxBeats     \* bound: how often heartbeats are broadcast

ASSUME RaftAssumption ==
  /\ IsFiniteSet(Server)
  /\ Nil \notin Server
  /\ MaxElections \in Nat /\ MaxCalls \in Nat /\ MaxBeats \in Nat

(* math.ceil((#networkPorts + 1) / 2) *)
MajorityMinimum == (Cardinality(Server) + 2) \div 2

VARIABLES
  initialized, stopped,     \* flags of the operator's RPCs
  exited,                   \* servers whose process ended with os.exit(-1)
  currentTerm, votedFor, votes, state,
  taskQueue,                \* tasks appended by the RPC handlers
  toProcess,                \* the batch the loop is processing
  pc,                       \* where the loop is
  outbox,                   \* <<destination, task>> pairs still to be sent
  granters,                 \* history: whose grants are counted in votes
  elected,                  \* history: <<term, server, granters>> of every leader
  elections, calls, beats   \* bounds: how often so far

server  == <<currentTerm, votedFor, votes, state, granters>>
switches == <<initialized, stopped, calls>>
control == <<initialized, stopped, calls, elections>>
vars == <<initialized, stopped, exited, currentTerm, votedFor, votes, state,
          taskQueue, toProcess, pc, outbox, granters, elected, elections, calls, beats>>

Others(s) == Server \ {s}

(* The fields from of a reply and re are history: the code's replies carry
   neither the voter nor the request they answer. *)
RequestVote(s, t)   == [type |-> "RequestVote", term |-> t, from |-> s]
AppendEntries(s, t) == [type |-> "AppendEntries", term |-> t, from |-> s]
Reply(s, t, g, r)   == [type |-> "ReplyRequestVote", term |-> t,
                        voteGranted |-> g, from |-> s, re |-> r]

Init ==
  /\ initialized = [s \in Server |-> FALSE]
  /\ stopped = [s \in Server |-> TRUE]
  /\ exited = {}
  /\ currentTerm = [s \in Server |-> 0]
  /\ votedFor = [s \in Server |-> Nil]
  /\ votes = [s \in Server |-> 0]
  /\ state = [s \in Server |-> "candidate"]
  /\ taskQueue = [s \in Server |-> <<>>]
  /\ toProcess = [s \in Server |-> <<>>]
  /\ pc = [s \in Server |-> "off"]
  /\ outbox = [s \in Server |-> {}]
  /\ granters = [s \in Server |-> {}]
  /\ elected = {}
  /\ elections = 0 /\ calls = 0 /\ beats = 0

-----------------------------------------------------------------------------
(* The operator's calls: test.lua, stop.lua and resume.lua. *)
InitializeNode(s) ==
  /\ ~initialized[s]
  /\ initialized' = [initialized EXCEPT ![s] = TRUE]
  /\ stopped' = [stopped EXCEPT ![s] = FALSE]
  /\ pc' = [pc EXCEPT ![s] = "timers"]
  /\ UNCHANGED <<exited, server, taskQueue, toProcess, outbox, elected,
                 elections, calls, beats>>

StopNode(s) ==
  /\ s \notin exited
  /\ ~stopped[s]
  /\ calls < MaxCalls
  /\ calls' = calls + 1
  /\ stopped' = [stopped EXCEPT ![s] = TRUE]
  /\ UNCHANGED <<initialized, exited, server, taskQueue, toProcess, pc, outbox,
                 elected, elections, beats>>

ResumeNode(s) ==
  /\ s \notin exited
  /\ stopped[s]
  /\ calls < MaxCalls
  /\ calls' = calls + 1
  /\ stopped' = [stopped EXCEPT ![s] = FALSE]
  /\ UNCHANGED <<initialized, exited, server, taskQueue, toProcess, pc, outbox,
                 elected, elections, beats>>

-----------------------------------------------------------------------------
(* One RPC of the loop of s: the handler at d appends the task to its queue (q:
   the queues before) and acknowledges.  Without a process there, the use of a
   failed connection raises an error that ends the loop of s, which otherwise
   goes on at l. *)
Call(s, d, m, q, l) ==
  IF d \in exited
  THEN pc' = [pc EXCEPT ![s] = "dead"] /\ taskQueue' = q
  ELSE /\ taskQueue' = [q EXCEPT ![d] = Append(@, m)]
       /\ pc' = [pc EXCEPT ![s] = l]

(* A broadcast of m to the servers D, in the arbitrary order of pairs(others). *)
Broadcast(s, m, D) ==
  \E d \in D : /\ Call(s, d, m, taskQueue, "take")
              /\ outbox' = [outbox EXCEPT ![s] = {<<c, m>> : c \in D \ {d}}]

AtTimers(s) == pc[s] = "timers" /\ ~stopped[s]

(* startElection, with its first RPC: the vote of s for itself is recorded and
   not counted. *)
StartElection(s) ==
  /\ AtTimers(s)
  /\ state[s] \in {"candidate", "follower"}
  /\ elections < MaxElections
  /\ elections' = elections + 1
  /\ state' = [state EXCEPT ![s] = "candidate"]
  /\ votes' = [votes EXCEPT ![s] = 0]
  /\ granters' = [granters EXCEPT ![s] = {}]
  /\ currentTerm' = [currentTerm EXCEPT ![s] = @ + 1]
  /\ votedFor' = [votedFor EXCEPT ![s] = s]
  /\ Broadcast(s, RequestVote(s, currentTerm[s] + 1), Others(s))
  /\ UNCHANGED <<switches, exited, toProcess, elected, beats>>

SendHeartbeats(s) ==
  /\ AtTimers(s)
  /\ state[s] = "leader"
  /\ beats < MaxBeats
  /\ beats' = beats + 1
  /\ Broadcast(s, AppendEntries(s, currentTerm[s]), Others(s))
  /\ UNCHANGED <<control, exited, server, toProcess, elected>>

(* The next RPC of the broadcast. *)
Deliver(s) ==
  /\ pc[s] = "take"
  /\ \E o \in outbox[s] : Broadcast(s, o[2], {x[1] : x \in outbox[s]})
  /\ UNCHANGED <<control, exited, server, toProcess, elected, beats>>

(* The rest of an iteration when there is nothing to process. *)
NoTasks(s) ==
  /\ pc[s] = "take" /\ outbox[s] = {} /\ taskQueue[s] = <<>>
  /\ pc' = [pc EXCEPT ![s] = "timers"]
  /\ UNCHANGED <<control, exited, server, taskQueue, toProcess, outbox, elected,
                 beats>>

(* A stopped server drops the tasks it finds in its queue. *)
SkipTasks(s) ==
  /\ pc[s] \in {"timers", "take"} /\ outbox[s] = {} /\ taskQueue[s] # <<>>
  /\ stopped[s]
  /\ taskQueue' = [taskQueue EXCEPT ![s] = <<>>]
  /\ pc' = [pc EXCEPT ![s] = "timers"]
  /\ UNCHANGED <<control, exited, server, toProcess, outbox, elected, beats>>

-----------------------------------------------------------------------------
(* The batch of s: what is left of the one it is processing, or else the queue it
   takes over at once with the first task (a stopped server would not). *)
InBatch(s) == pc[s] = "tasks"
Batch(s) == IF InBatch(s) THEN toProcess[s] ELSE taskQueue[s]

Queues(s) == IF InBatch(s) THEN taskQueue ELSE [taskQueue EXCEPT ![s] = <<>>]

(* The next task is of the given type. *)
NextTask(s, type) ==
  /\ \/ InBatch(s)
     \/ pc[s] \in {"timers", "take"} /\ outbox[s] = {} /\ ~stopped[s]
  /\ Batch(s) # <<>>
  /\ Head(Batch(s)).type = type
  /\ toProcess' = [toProcess EXCEPT ![s] = Tail(Batch(s))]
  /\ UNCHANGED <<control, outbox, beats>>

(* Where the loop goes on: after the batch, and the wait, it is at its timers. *)
Continue(s) == IF Len(Batch(s)) = 1 THEN "timers" ELSE "tasks"

ConvertToFollower(s) ==
  /\ votedFor' = [votedFor EXCEPT ![s] = Nil]
  /\ votes' = [votes EXCEPT ![s] = 0]
  /\ granters' = [granters EXCEPT ![s] = {}]
  /\ state' = [state EXCEPT ![s] = "follower"]

(* ReplyRequestVote with the term the server has by then. *)
Answer(s, m, granted) ==
  Call(s, m.from, Reply(s, currentTerm'[s], granted, m.type), Queues(s), Continue(s))

(* Seeded faults: a heartbeat of the same term clears the vote of a follower; the
   term of the heartbeat is taken over even if it is older. *)
ProcessAppendEntriesForgets(s) ==
  LET m == Head(Batch(s)) IN
  /\ NextTask(s, "AppendEntries")
  /\ currentTerm' = [currentTerm EXCEPT ![s] = IF m.term > @ THEN m.term ELSE @]
  /\ IF m.term >= currentTerm[s] THEN ConvertToFollower(s)
     ELSE UNCHANGED <<votedFor, votes, state, granters>>
  /\ Answer(s, m, FALSE)
  /\ UNCHANGED <<exited, elected>>

ProcessAppendEntriesAnyTerm(s) ==
  LET m == Head(Batch(s)) IN
  /\ NextTask(s, "AppendEntries")
  /\ currentTerm' = [currentTerm EXCEPT ![s] = m.term]
  /\ ConvertToFollower(s)
  /\ Answer(s, m, FALSE)
  /\ UNCHANGED <<exited, elected>>

(* In the term of a leader setElectionTimeout ends the process of s. *)
ProcessAppendEntries(s) ==
  LET m == Head(Batch(s))
      fatal == m.term = currentTerm[s] /\ state[s] = "leader"
  IN
  /\ NextTask(s, "AppendEntries")
  /\ currentTerm' = [currentTerm EXCEPT ![s] = IF m.term > @ THEN m.term ELSE @]
  /\ IF \/ m.term > currentTerm[s]
        \/ m.term = currentTerm[s] /\ state[s] = "candidate"
     THEN ConvertToFollower(s)
     ELSE UNCHANGED <<votedFor, votes, state, granters>>
  /\ IF fatal
     THEN /\ exited' = exited \cup {s}
          /\ pc' = [pc EXCEPT ![s] = "dead"]
          /\ taskQueue' = Queues(s)
     ELSE UNCHANGED exited /\ Answer(s, m, FALSE)
  /\ UNCHANGED elected

(* Seeded fault: the vote is granted without looking at votedFor. *)
ProcessRequestVoteAlways(s) ==
  LET m == Head(Batch(s)) IN
  /\ NextTask(s, "RequestVote")
  /\ votedFor' = [votedFor EXCEPT ![s] = m.from]
  /\ IF m.term > currentTerm[s]
     THEN /\ currentTerm' = [currentTerm EXCEPT ![s] = m.term]
          /\ votes' = [votes EXCEPT ![s] = 0]
          /\ granters' = [granters EXCEPT ![s] = {}]
          /\ state' = [state EXCEPT ![s] = "follower"]
     ELSE UNCHANGED <<currentTerm, votes, granters, state>>
  /\ Answer(s, m, TRUE)
  /\ UNCHANGED <<exited, elected>>

(* A request of an older term falls through to the test of votedFor. *)
ProcessRequestVote(s) ==
  LET m == Head(Batch(s))
      voted == IF m.term > currentTerm[s] THEN Nil ELSE votedFor[s]
      grant == voted \in {Nil, m.from}
  IN
  /\ NextTask(s, "RequestVote")
  /\ votedFor' = [votedFor EXCEPT ![s] = IF grant THEN m.from ELSE voted]
  /\ IF m.term > currentTerm[s]
     THEN /\ currentTerm' = [currentTerm EXCEPT ![s] = m.term]
          /\ votes' = [votes EXCEPT ![s] = 0]
          /\ granters' = [granters EXCEPT ![s] = {}]
          /\ state' = [state EXCEPT ![s] = "follower"]
     ELSE UNCHANGED <<currentTerm, votes, granters, state>>
  /\ Answer(s, m, grant)
  /\ UNCHANGED <<exited, elected>>

(* Grants are counted without asking who sent them. *)
ProcessReplyRequestVote(s) ==
  LET m == Head(Batch(s))
      counted == votes[s] + 1
  IN
  /\ NextTask(s, "ReplyRequestVote")
  /\ pc' = [pc EXCEPT ![s] = Continue(s)]
  /\ taskQueue' = Queues(s)
  /\ \/ /\ m.term < currentTerm[s] \/ state[s] # "candidate"
        /\ UNCHANGED <<server, elected>>
     \/ /\ m.term > currentTerm[s] /\ state[s] = "candidate"
        /\ currentTerm' = [currentTerm EXCEPT ![s] = m.term]
        /\ ConvertToFollower(s)
        /\ UNCHANGED elected
     \/ /\ m.term = currentTerm[s] /\ state[s] = "candidate"
        /\ IF m.voteGranted
           THEN /\ votes' = [votes EXCEPT ![s] = counted]
                /\ granters' = [granters EXCEPT ![s] = @ \cup {m.from}]
                /\ IF counted >= MajorityMinimum
                   THEN /\ state' = [state EXCEPT ![s] = "leader"]
                        /\ elected' = elected \cup
                                        {<<currentTerm[s], s, granters'[s]>>}
                   ELSE UNCHANGED <<state, elected>>
           ELSE UNCHANGED <<votes, granters, state, elected>>
        /\ UNCHANGED <<currentTerm, votedFor>>
  /\ UNCHANGED exited

-----------------------------------------------------------------------------
Loop(s) ==
  \/ StartElection(s) \/ SendHeartbeats(s) \/ Deliver(s) \/ NoTasks(s)
  \/ SkipTasks(s)
  \/ ProcessAppendEntries(s) \/ ProcessRequestVote(s)
  \/ ProcessReplyRequestVote(s)

Next == \E s \in Server :
  \/ InitializeNode(s) \/ StopNode(s) \/ ResumeNode(s)
  \/ Loop(s)

Spec == Init /\ [][Next]_vars

-----------------------------------------------------------------------------
(* A request is sent by a server that has just left term 0. *)
Tasks == [type : {"RequestVote"}, term : Nat \ {0}, from : Server]
         \cup [type : {"AppendEntries"}, term : Nat, from : Server]
         \cup [type : {"ReplyRequestVote"}, term : Nat, voteGranted : BOOLEAN,
               from : Server, re : {"RequestVote", "AppendEntries"}]

(* Every variable of server.lua keeps its type, across every handler. *)
TypeOK ==
  /\ initialized \in [Server -> BOOLEAN] /\ stopped \in [Server -> BOOLEAN]
  /\ exited \subseteq Server
  /\ currentTerm \in [Server -> Nat]
  /\ votedFor \in [Server -> Server \cup {Nil}]
  /\ votes \in [Server -> Nat]
  /\ state \in [Server -> {"candidate", "follower", "leader"}]
  /\ taskQueue \in [Server -> Seq(Tasks)] /\ toProcess \in [Server -> Seq(Tasks)]
  /\ pc \in [Server -> {"off", "timers", "take", "tasks", "dead"}]
  /\ outbox \in [Server -> SUBSET (Server \X Tasks)]
  /\ granters \in [Server -> SUBSET Server]
  /\ elected \subseteq (Nat \X Server \X SUBSET Server)
  /\ elections \in Nat /\ calls \in Nat /\ beats \in Nat

(* At most one server ever wins the election of a term (the point of terms in
   startElection), although nothing in a reply says who voted. *)
ElectionSafety ==
  \A x, y \in elected : x[1] = y[1] => x[2] = y[2]

(* The os.exit(-1) of setElectionTimeout, an assertion that a leader never gets
   the heartbeat of another leader of its own term, is never reached. *)
NoFatalExit == exited = {}

(* "If votes received from majority of servers: become leader" (comment in
   processReplyRequestVote): the grants counted came from that many different
   servers, although a reply does not say who sent it and a request of an older
   term is granted too. *)
VotesFromMajority ==
  \A s \in Server : state[s] = "leader" => Cardinality(granters[s]) >= MajorityMinimum

(* A server whose grant was counted has not voted for another candidate in the
   same term, although convertToFollower clears votedFor. *)
VotersStay ==
  \A s, g \in Server :
    g \in granters[s] /\ currentTerm[g] = currentTerm[s] => votedFor[g] = s

(* "Vote for self" (startElection): a candidate that has started an election, and
   the leader it may become, holds its own vote for as long as it is one, so that
   it grants nobody else's request in that term. *)
VotesForSelf ==
  \A s \in Server : state[s] # "follower" =>
    votedFor[s] = s \/ (currentTerm[s] = 0 /\ votedFor[s] = Nil)

(* A term never goes back, whatever stale task a handler gets. *)
TermsNeverRegress ==
  [][\A s \in Server : currentTerm'[s] >= currentTerm[s]]_vars

(* "Received a reply append entries that has a greater term. Converting to
   follower..." (processReplyAppendEntries): a leader that learns of a greater term
   from the answer to its heartbeat steps down. *)
AnsweredLeaderStepsDown ==
  [][\A s \in Server :
       LET m == Head(Batch(s)) IN
         /\ ProcessReplyRequestVote(s)
         /\ state[s] = "leader" /\ m.re = "AppendEntries"
         /\ m.term > currentTerm[s]
         => state'[s] = "follower"]_vars
=============================================================================
