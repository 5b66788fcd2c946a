# TLA+ specifications of the PUC-Rio course work

The repository holds the course work of three degrees: some ninety programs, of
which a few are concurrent or distributed systems written from scratch, and the
rest sequential exercises, games and vendored frameworks. The specifications
here are about the former: the programs in which threads, processes or messages
interleave, and which a test run can only sample.

- [The system](#the-system): the parts, their state and what is hard in each
- [The modules](#the-modules): how state and actions correspond to the code
- [The runs](#the-runs): what TLC checks, with which bounds
- [Fairness](#fairness)
- [The proofs](#the-proofs)
- [Disagreements found](#disagreements-found)
- [Plan](#plan) and [what is not modelled](#what-is-not-modelled)

Paths below are relative to `src/`; the course directories are written short
(`INF2591` for `INF2591-Concurrent-And-Parallel-Programming`, and so on).

## The system

### Limited buffer (INF2591/T1-Limited-Buffer)

*State*: a ring of `n` positions with, for each position and consumer, a count of
pending reads; an index to write next and one to read next per consumer; counters
of waiting and active threads; the semaphores `e`, `sW`, `sR[i]`.
*Operations*: `lbuf_create`, `lbuf_deposit`, `lbuf_consume`, `lbuf_free`; `SIGNAL`
inside them; the program of `main.c` that starts producers and consumers.
*Interaction*: POSIX threads that share the buffer. One baton goes from thread to
thread through a split binary semaphore.
*Hard*: every interleaving of the critical sections; the distance between
`sem_post(e)` and the `sem_wait` that follows; the read of `nextWriteIndex` outside
the critical section.
*Correct when*: the baton excludes and is never lost, every consumer gets every
deposit in order, nothing unread is overwritten, the program ends.

### Raft election (INF2545/trab2-raft) and its RPC library

*State* of a server (`server.lua`): term, vote, count of votes, role, timers, the
queue of tasks, the operator's `stopped` flag. *Operations*: the RPC handlers
(which only enqueue), the main loop's coroutine, elections, heartbeats,
`InitializeNode`, `StopNode`, `ResumeNode`. *State* of `luarpc.lua`: the sockets, the
list `wakeup_times`, the coroutines by socket and by time.
*Interaction*: an RPC yields until it is acknowledged, so a broadcast is a
sequence of steps, and the answer to a request is an RPC of its own.
*Hard*: replies without voter or request; stale requests; servers stopped in the
middle of a broadcast; a clock in whole seconds and a `select` without a bound.
*Correct when*: a term has one leader, elected by a majority; a vote is kept for a
term; terms never go back; waits end, and not early.

### Sanders' mutual exclusion (INF2056, projects/sanders)

*State* of a node: as a requester, its timestamp and count of votes; as an arbiter,
its candidate, whether it asked the vote back, the deferred requests.
*Operations*: `enterCS`, its timer loop, `exitCS` and a handler for each of REQ, YES,
INQ, RELINQUISH and RELEASE. *Interaction*: messages delivered by the simulator in
rounds, in any order.
*Hard*: messages overtake each other; the inquiry that finds the node gone.
*Correct when*: one node at a time is in its section, holds the votes it counted,
no vote is lost or doubled, and every request is granted.

### Adaptive quadrature (INF2591/T2-Adaptive-Quadrature)

*State* of the master: a stack of intervals, the number of idle workers, a mark per
worker, the area and the width summed. *Operations*: the master's receive loop;
the worker's loop, that returns half of its task or reports its area. *Interaction*:
MPI messages, in order per pair of processes.
*Hard*: to know that all is done while tasks are on their way in both directions.
*Correct when*: each part of the interval is added once and the area is announced
only, and always, when it is complete.

### Travelling salesman (INF2591/T3-TSP)

*State* of a process: a stack of partial tours per thread; `term`, with the stack on
offer and the count of threads out of work; the best tour, its cost, and the costs
received from other processes. *Operations*: the partition of the tree among
processes and threads, the search, `Terminated` and `Split_stack`, the update and
the broadcast of the best tour. *Interaction*: threads share `term` under one mutex
and the best tour under another; processes send costs over MPI.
*Hard*: the signal to one waiter against the last thread to finish; spurious wakeups;
the best tour is read without its mutex; a probe and the receive that follows it.
*Correct when*: no tour is dropped, the best tour is a best one, all threads end.

### Consensus (INF2056, projects/badacheAndHurfinAndMacedo99)

*State* of a support station: round and phase, the estimate `v` with its time stamp,
the collected values `newV` and their hosts `p`, and per round a log of estimates and
two counts of acknowledgements. *Operations*: a handler per message type, each of
which may start the next phase; the hosts' proposals, starts and handoffs.
*Interaction*: messages of the simulator; the coordinator of a round changes with it.
*Hard*: messages of rounds that are over, hosts that move while their values are
collected, a message that overtakes a decision.
*Correct when*: all stations decide, and decide one set with enough values.

### Process schedulers (INF1019/trab1)

*State*: the list of processes, the index of the running one, the chosen one; the
line of `exec.txt` in shared memory. *Operations*: the loop of `escalonador.c` (choose,
pause, free a position, stop, continue), the handlers of SIGUSR1 and SIGINT, the sender
`interpretador.c`, and three policies: round robin, priority and lottery.
*Interaction*: signals and one word of shared memory.
*Hard*: a signal at any point of the loop, between two stores too; SIGCONT before the new process has stopped
itself; a program that ends at any time.
*Correct when*: exactly one process runs, it is the one the list names, whoever is
entitled to a turn gets it, and positions become free again.

### Other components

| component | state and operations | hard | correct when |
|---|---|---|---|
| Virtual memory (INF1019/trab2) | page table, flags, times; access and three replacement policies | flags over long runs | the victim is the one the policy names; no page is in memory twice |
| Rumor routing (INF2545/trab3-rr) | tables of events and paths, bounded; agents over MQTT | duplicated and reordered agents | a query ends, and at a node that saw the event |
| Ludo server (INF1013) | lobby, board, end of game; a thread per player | boards set by several threads | all players see the boards in one order, the server closes |
| BLE mesh MAC and MAM (INF3000) | state machine inside INET | the simulation kernel is part of the behaviour | frames are delivered once, caches stay bounded |

## The modules

`PROJECT.json` names the lines behind each definition.

### LimitedBuffer, BroadcastBuffer

One action per stretch of code between two semaphore operations: `Acquire` is
`sem_wait(e)`; `DepositCheck` tests the await condition, and sleeps or goes on;
`DepositWake` returns from `sem_wait(sW)`; `DepositEnter` counts itself in and
signals; `DepositIndex` and `DepositStore` are the accesses outside the critical
section, separate because another producer may run between them;
`DepositCommit` is the second critical section. `Consume...` likewise. `SIGNAL` is
an operator over the primed counters, since every action updates its counters
before it signals. `Create` and `JoinAndFree` are `main`. A deposited value is
`<<producer, k>>`, so the order and the identity of deposits are visible.

`BroadcastBuffer` is the promise: a log of deposits that every consumer reads in
order, at most `N` behind. `LimitedBuffer` implements it with one producer and one
consumer (`PromiseKept`, the log being the history of committed deposits).

### RaftElection, MCRaftElection

A server's loop has a `pc`: `"timers"` (the loop looks at its timers), `"take"` (takes
the queue as a batch), `"tasks"`, `"dead"` (its coroutine ended with an error).
`StartElection` and `SendHeartbeats` put a broadcast in `outbox`, and `Deliver` sends
one RPC at a time; between them the loop stands still while its own handlers go on
enqueuing, as the yielding RPC makes it. `ProcessAppendEntries`,
`ProcessRequestVote` and `ProcessReplyRequestVote` are the handlers of the loop's
tasks with every early return. The fields `from` and `re` of replies, and the
variables `granters` and `elected`, are history: the code has no such fields, and no
action depends on them. Timers may expire in any iteration, which
over-approximates the random delays. `processReplyAppendEntries` is left out because
no message reaches it.

### LuaRpc

`CallSelect` is the head of `waitIncoming` (the timeout is the time left to the first
entry of `wakeup_times`); `Serve` is a return with readable sockets, `Timeout` one
without. `Run` lets the resumed coroutines go on to their next `wait` or RPC. The
clock counts seconds, as `os.time` does. `Request` and `Acknowledge` are the other
servers. LuaSocket's `select` blocks without a bound for a nil or negative timeout.

### Sanders, MCSanders, Coteries

A handler per message type, `RequestCS` and `EnterCSLoop` for the two halves of
`enterCS`, `LeaveCS` for `exitCS`, `Round` for the simulator's round. Messages are a bag
and arrive at any time after their round: this contains every delay that
`RandomRound` and `SendMessageTimer` produce. The priority queue is a bag with
`First`, by `ProcessingRequest.compareTo`.

A node may leave its section at any moment, as `preStep` leaves with probability `pls`
(0.5 by default) in each round. Then an inquiry may find it gone, and `handleInqTsMessage` answers it
like one that found the node waiting, although RELEASE has been sent: the vote is given
twice, and the algorithm is wrong from there on (see the disagreements). `late` is
history: it is set by such an answer and by nothing else, no action reads it, and the
properties are about all that comes before. Inquiries that find the node gone and
are not answered, because it has made a new request or entered again, are no exception.

`Coteries` is `DistrictRepository.genCoteries`: the nodes in a square, the district of
a node the others of its row and of its column.

### AdaptiveQuadrature, DivideAndSum

`Start`, `ReceiveTask`, `DivideTask` and `FinishTask` are a worker, whose recursion in
`curve_subarea` sends the right half back at each level (`DivideTask`) before it
reports (`FinishTask`); `ReceiveAvailable` and `ReceiveTaskToAdd` are the two branches
of the master's loop, each ending with the test of the loop (`LoopTest`); `Notify`
follows it. An interval is a run of unit cells; whether one is within the tolerance
is a free choice, except that a single cell is. `aquad3-version2.c` differs only
in that its workers divide at most once, which is one of the choices of the model.

The test `progress/expected >= 1.0` is on sums of doubles. The model keeps
`progress` exact and lets the comparison fail when the sum is complete, which is
what a sum one ulp short does. `DivideAndSum` is the promise: divide, add, announce.

MPI is taken to buffer messages of two doubles (the eager protocol), which both the
master's sends to busy workers and the worker's `MPI_Isend` of a local array rely on.

### TourSearch, MCTourSearch

One process, from `Get_upper_bd_queue_sz` to the end of its threads. A section under
`term->mutex` is one step, since it never blocks: `Proceed`, `Offer`, `LastOne`, `Wait` are
the ways through `Terminated`, `TakeOffer`, `NoWorkAvail` and `AllDone` those of a thread
that `pthread_cond_wait` returned to. `Contended` is `trylock` that fails. `Expand` is one turn of
the loop over the neighbours; `BestTour`, `Lock` and `CloseTour` are the two comparisons,
the mutex, and the moment between `Copy_tour` and `Add_city` in which the best tour is
open and its cost too low. `misled` is history: some thread dropped a tour for such a
cost. The other processes are `CostArrives`; `Probe` and `Receive` are separate because a
second thread may receive what the first one saw. The queue and its size are drawn from the
sets of what the loops of `Build_initial_queue` and `Get_upper_bd_queue_sz` can end with, which have one
element each when the loops end (`Ends_at`).

### MobileConsensus

The fields of a station are a record, and a handler is a function of the record and
of what it has sent so far, so that a handler that starts the next phase, which sends
and may start another one, is one step as in the code. `Arrive` delivers the oldest
message, `Delay` puts one aside: Sinalgo gives most messages the same transmission time, and
what the algorithm must survive is a few that are late. `restarted` is history: a
station that had decided was started again (`MSSNode.java:71`), which is what breaks
the agreement (see below), and nothing else. An estimate is logged once per message, and
an acknowledgement has no sender, as in the code, so that the sizes that phases 2 and 4
compare with a majority count messages and not stations.

### Scheduler, MCScheduler

`Choose`, `Pause`, `Reap`, `ForgetNumber`, `UnsetCurrent`, `Interrupt` and `Resume` are the loop between
two points at which a signal or the end of a program is observed. A position is freed by
three stores (two under round robin, which keeps no numbers): the pid, with the `waitpid` before it
(`Reap`), the priority or tickets (`ForgetNumber`), and the index (`UnsetCurrent`); the handler may take the
position after the first. `overwritten` is history: the processes whose number the second store
replaced. `Drawable` are the positions that some draw of the lottery falls on, as sums that
may include a -1. The policy is chosen in `Init` and never
changes, so that a run explores the three programs. `adicionaProcessos` is the
interpreter, whose `sleep(3)` outlasts a handler and the start of a process;
`adicionarProcesso` is the handler of SIGUSR1, which also ends the pause of the loop.
`StopItself` is the new process's SIGSTOP before its `execve`, `End` the end of a program.

## The runs

| run | instance | shows |
|---|---|---|
| `lb_single` | 1 producer, 1 consumer, 2 positions, 5 deposits | every item once and in order, nothing unread overwritten, the promise is implemented, the program ends |
| `lb_baton` | 2 producers, 2 consumers, 2 positions, 3 deposits each | the baton excludes and is never lost; the counters of sleeping threads are exact |
| `raft_election` | 3 servers, 3 elections, 2 stops or resumes, 1 heartbeat | one leader per term, no fatal exit, votes stay, terms never go back |
| `lua_traffic` | 2 coroutines, 5 seconds, 3 requests | no wait ends early; a due wait ends unless `select` has no bound |
| `sanders_votes` | 3 nodes, 2 rounds, 2, 1 and 2 requests, up to the first late answer | exclusion, votes conserved, every request granted |
| `aquad_dynamic` | a master and 3 workers, 4 tasks, each divided at most once | no work lost, the idle count detects the end, the promise is implemented, the program ends unless the sum fell short |
| `ts_search` | 5 cities, 2 threads, 1 other process with 1 cost, 1 spurious wakeup | the count of idle threads is exact, who is woken finds work, the best tour only improves and is a best one, all threads end |
| `co_rounds` | 5 stations, 1 host, 2 rounds, 1 start, 1 handoff, 1 late message | a round has one proposal and its answers come from different stations; one set is adopted and decided, by a majority, with enough values; without delays all decide |
| `sc_turns` | 4 lines, 3 positions, each policy | one process runs, the current one; unless a process lost its number to a signal, every process entitled to a turn gets it and positions become free |
| `raft_majority`, `ts_lost`, `co_restart` | | [disagreements](#disagreements-found) |

Bounds, and why they are enough:

- *Buffer*: two positions and five deposits wrap the ring twice; the counters and
  semaphores do not depend on the data, and two threads of each kind are the least
  that compete for the same semaphore. The number of deposits of `lb_baton` (3 each)
  lets main block before it creates the others and again after.
- *Raft*: `MaxElections` bounds the elections of all servers together: three give
  two candidates in one term and a third in a later one. `MaxCalls` lets one server
  be stopped and resumed while its requests are on their way; `MaxBeats` one
  broadcast of heartbeats. Servers are symmetric, none is named by a property. There
  are three of them, where `ports.txt` has five, because a search with five is out of
  reach; one leader per term, which the run shows, is *not* true of five (see the disagreements), and
  what is true of any number is proved.
- *luarpc*: `Delay` is server.lua's second; two coroutines give two entries with
  equal and with different times. `MaxTime` bounds the clock.
- *Sanders*: three nodes whose districts are the two others, as the coteries of
  the repository leave the node itself out, so that any two share one arbiter.
  Two requests over two rounds give reuse of an arbiter's state, equal
  timestamps and inquiries, answered in time, late or not at all; a third round adds
  no relation between timestamps. A CONSTRAINT (`UntilLate`) ends the search at a late answer. It
  cuts nothing away that a property speaks about: `late` is never reset, and every property
  has it as a disjunct.
- *Quadrature*: `n_cores` = 4 and `Width` = 2 cells per task: tasks reach workers from
  the stack and from other workers, a worker may hold two, and one may have none.
  (3 processes with tasks of 4 cells, divided twice, gives the same results.)
- *Travelling salesman*: five cities let a thread with two tours on its stack split it
  while the other waits; the other process takes half of the tree and sends one cost,
  which one of two threads receives although both may see it. The graph's
  cheapest tour is not the first one found. Five cities with three
  threads and no spurious wakeup give the same results, in 1.6 million states; that
  is too long for a regular run.
- *Consensus*: five stations. With three, a decision needs two acknowledgements beside
  the coordinator, so that everybody has adopted before anybody decides; with five,
  one station can learn the decision without having adopted anything, and one can answer
  late. Two rounds give an adopted set to a second coordinator. `MaxRound` stops the
  stations, and would by itself keep some from deciding if a consensus needed more
  rounds: `AllDecide` is checked where one round is enough to decide when no message is late.
- *Schedulers*: more lines than positions, so that a position is used again or a
  process refused; two equal numbers, a lowest one, and one without tickets.

Deadlock is not checked where a system may really stop: with several producers or
consumers the buffer's program may hang (`lb_single` checks deadlock, and ends in
`Finished`); Raft and the consensus stop at their bounds; the quadrature after the
last message, the search when its threads have ended, the scheduler on SIGINT, and so
on.

`raft_majority` needs a long counterexample. It starts where `test.sh` has brought the
servers before the first timer expires (`TestedInit`) and a CONSTRAINT (`Parts`) fixes
which server plays which part. That narrows the search for a violation and would
be no ground for a result that holds. `ts_lost` needs four cities only;
`co_restart` has five stations, so that one of them learns of a decision without having
taken part, and two late messages.

Every property of the passing runs has a seeded fault (the definitions
called "Seeded fault" in the modules): a variant of an action, as a plausible bug
would make it, under which TLC finds that property violated.

## Fairness

- *Buffer*: weak fairness of each thread. The kernel runs every thread that can
  run, and a thread in `sem_wait` is taken to be able to run while the semaphore is
  up. Semaphores do not promise a fixed order and none is assumed.
- *luarpc*: the process runs (its three loop steps), the clock goes on however often
  the loop turns (strong fairness: no step of the loop can stop it), RPCs are
  acknowledged. Nothing is assumed about requests of other servers.
- *Sanders*: every message arrives (the simulator's reliability model drops none),
  rounds follow each other, timers fire, and nodes leave (`pls` > 0).
- *Quadrature*: each process runs until it blocks. `MPI_Recv` from any source need
  not be fair between workers, and is not assumed to be.
- *Travelling salesman*: each thread runs while it can; `Par_tree_search` as a whole is
  weakly fair per thread, and mutexes are granted. Nothing is assumed of other
  processes, and `Ends` names the two events that may keep a thread from its end.
- *Consensus*: messages arrive. Nothing is assumed about starts, moves or delays.
- *Schedulers*: the scheduler, the interpreter and a new process get the processor. Each
  choice of a process is strongly fair: for round robin and priority the choice is
  determined, and in the lottery a ticket that takes part in draw after draw is drawn.
  Programs need not end, and SIGINT need not come.
- *Raft*: no fairness, since no liveness property is claimed: equal timeouts may
  split the vote for ever.

## The proofs

`tlapm` checks these for every value of the constants that satisfies the modules'
assumptions.

| theorem | says | argument |
|---|---|---|
| `LimitedBufferProofs!TypeCorrect`, `BatonExcludes`, `BatonSurvives` | types (the semaphores stay binary), mutual exclusion, the baton is never lost | see below |
| `LimitedBufferProofs!SleepersAreCounted`, `ActiveAreCounted` | the counters that `SIGNAL` reads are exact, for any number of threads | each step moves one member of one set that a counter counts |
| `LimitedBufferProofs!SingleReadsPending`, `SingleWritesFree`, `SingleDelivers`, `SingleKeepsPromise` | with one producer and one consumer: reads find a deposit, nothing unread is overwritten, all is delivered in order, `BroadcastBuffer` is implemented | see below |
| `RaftElectionProofs!TypeCorrect` | types, in particular the queues hold tasks | one lemma per handler |
| `RaftElectionProofs!CandidatesKeepTheirVote` | a candidate or leader keeps its own vote | `VotesForSelf` is inductive with `TypeOK` |
| `RaftElectionProofs!TermsGrow` | terms never go back | action property, from `TypeOK` |
| `RaftElectionProofs!VotersAreFaithful`, `WinnersShareNoVoter`, `RealMajoritiesAgree` | voters stay with their vote, two winners of a term share no voter, a term has one winner with a majority of different voters | `VoteInv`, see below |
| `RaftElectionProofs!OneLeaderPerTerm`, `LeadersNeverExit` | for any number of servers: one leader per term, and no fatal exit, unless there are four servers or more and a winner counted a grant twice | two winners need four servers, see below |
| `LuaRpcProofs!TypeCorrect`, `NoWaitForgotten`, `NoWaitEndsEarly` | types, a wait has its entry in `wakeup_times` until it ends, and does not end early | see below |
| `SandersProofs!TypeCorrect`, `EntrantsHoldVotes` | types, whatever happens; until a late answer, a node in its section has the vote of each of its arbiters | see below |
| `SandersProofs!VotesAreConserved` | until a late answer, a count of votes is what the arbiters, and the messages on their way, say it is | see below |
| `SandersProofs!Exclusion`, `GeneratedDistrictsExclude` | until a late answer, nodes exclude each other where districts intersect, in particular with those of `genCoteries` from three columns on | the common arbiter has one candidate |
| `AdaptiveQuadratureProofs!AvailableWorkerExists` | the scan for a free worker always finds one | `IdleInv`: workers are idle only while the stack is empty |
| `AdaptiveQuadratureProofs!TypesHold`, `NoWorkIsLost`, `IdleCountSuffices` | types; each cell is in one place; the idle count detects the end | `WorkInv`, see below |
| `AdaptiveQuadratureProofs!QuadratureDividesAndSums` | `AdaptiveQuadrature` implements `DivideAndSum` | see below |
| `TourSearchProofs!TypeCorrect`, `BestImproves` | types; the best tour is only replaced by a cheaper one | `TInv`, see below |
| `TourSearchProofs!FindsBestTour` | what the threads find is a cheapest tour below the process's share, for any digraph | `SInv`, see below |
| `TourSearchProofs!CountIsExact`, `NoThreadWokenInVain` | the count of threads out of work is exact; without spurious wakeups a woken thread finds work or the end | see below |
| `MobileConsensusProofs!TypeCorrect`, `ProposesOnce`, `CountsStations` | types; a round has one proposal; the acknowledgements of a round come from different stations and agree | `IInv`, see below |
| `MobileConsensusProofs!MajorityDecides`, `Agrees`, `AdoptsOne`, `DecidesAlpha` | a decision has a majority behind it; one set is adopted and decided, unless a decided station was started again; it has the values of `alpha` hosts | see below |
| `SchedulerProofs!TypeCorrect`, `OneRuns`, `CurrentIsNotStopped`, `PositionsOwned` | one process runs, the one the list names; each process has one position, with its own number or, if it took the position too soon, -1 | see below |

*The baton.* Neither binary semaphores nor exclusion is inductive alone: a post of
`sW` keeps it binary only if it was down, which holds because the thread that posts
held the baton, so no semaphore was up. The invariant is their conjunction
with "some semaphore is up or some thread holds the baton". The lemmas `TakeE`,
`TakeW`, `TakeR`, `GiveE` and `SignalGives` describe the only ways the baton moves, and each
action of a thread is one of them. The proof uses no bound on threads,
positions or deposits; the properties that fail for several producers do not
enter it.

*The candidate's vote.* A request of term 0 could find a candidate that has
not voted, so the types say that requests have a positive term (a server leaves
term 0 before it sends one). With that, the only handlers that touch `votedFor` either
leave the server a follower or find its vote taken.

*The votes of an election.* `VoteInv` says what binds a voter. A grant of `g` to `s` in term `t` is
on its way to `s`, counted by `s` (`granters`), or one of those with which `s` was
elected (`elected`): `Voted(g, t, s)`. `VotesBind`: as long as `g` is in term `t` it has `s` in `votedFor` and is
no candidate, so that a heartbeat of the term, which makes a candidate forget its
vote, does not touch it; afterwards `g` is in a greater term. `VotesOnce`: `g` voted for one
server per term. These are not inductive without `SentByOthers` (only a leader of the term
sends heartbeats, no grant is of term 0) and `LeadersElected`. They were checked as an
invariant with three servers before they were proved.
From them follow `SeparateVoters` and `VotersStay` for any number of servers, and
`MajoritiesAgree`: if the majority that `processReplyRequestVote` counts were one of different
servers, no term would have two leaders.

It is not one (`raft_majority`). `OneLeaderPerTerm` says what is left, for any number of servers:
a term has one leader, unless some winner counted fewer voters than a majority
(`GrantCountedTwice`). That takes four servers, because a winner has the grant of at least one
other server, and two winners share no voter. The exception is the
code's and not the proof's: with the five servers of `ports.txt` two leaders of one term are
possible (see the disagreements). `LeadersNeverExit` says the same of the `os.exit(-1)`: a leader that gets a
heartbeat of its own term is one of two.

*The loop of luarpc.* `wakeup_times` is a bag of times that does not say who waits. The invariant
adds three facts to the types: a coroutine that waits has its time in the bag
(`WaitsEntered`), the deadline of a pending `select` is the least time of the bag as it is, since nobody
runs in between (`DeadlineIsFirst`), and acknowledgements are for coroutines in an RPC. A timeout
resumes exactly those whose time is the least and removes one entry per coroutine, so that
nobody else loses its own; and it comes at the deadline, so that nobody ends early.

*The idle count.* `availableWorkers` starts all true and is not cleared for tasks
that come from other workers, so that it says little by itself. What keeps the exit
at `aquad3.c:179` unreachable is that a mark is cleared only when a task is popped,
and then nobody is idle.

*The work of the quadrature.* `WorkInv` counts twice. `WorkersCounted`: the idle workers, the
reports on their way, the tasks on their way and the workers that run are together the
workers, since each of them is known to the master by exactly one of the four. `CountedOnce`:
each unit cell of the interval is once on the stack, in a message to the master, in a message to
a worker, with a worker, or in the area. The shapes of messages connect them: only a report may carry no work, a
task always does, and the last message of a worker that does not work is its report.
When all are idle the first count leaves no message and no running worker, so the
second puts every cell in the area (`IdleCountSuffices`). The counts are cardinalities of sets
of positions; a message that moves changes two of them by one. For the
refinement, `DivideTask` maps to a division of a missing part, the receipt of a
report to an addition, `Notify` to the announcement, and every other step, which only moves a part,
to a stutter.

*The ring.* With one producer and one consumer the indices are counters modulo `N`. The
invariant states, for every place of the two threads in their loops, how many
deposits are committed, stored and read, that the difference lies between 0 and `N`,
and that a position is pending exactly when its number is in between. Two counters
that differ by less than `N` differ modulo `N`, so that the two threads are never at one
position. From the same facts each step of the buffer maps to a step or a
stutter of `BroadcastBuffer`. The assumption of one producer and one consumer is
necessary (see the disagreements).

*Votes.* A requester enters by a count, which may be ahead of or behind what its
arbiters think, and may be negative. The invariant (`IInv` in `SandersProofs`) has one part
per kind of message. `Tokens`: for each arbiter at most one message is on its way that
asks its vote back, gives it back or releases it; it is from or to the candidate, and
a release is only on its way when no inquiry can follow. `Requests` and `Queues`: a request
is the last one of its node, is in one place, and is not from a candidate, unless
that one's release is on its way. `Votes`: the count of a node is the number of
arbiters with it for a candidate, less the votes on their way to it, less those on
their way back. That is `VotesConserved`, once the arbiters that the node gives a vote back to are
matched with the messages that do so, of which there is one for each. So a count of `|Si|` leaves no vote outside (`AllVotes`). A handler of an
arbiter passes the vote from one node, or none, to another, or none (`VoteGoes`),
whatever messages overtake each other. A node that leaves may have an inquiry on its way to it: the
inquiry is then stale (`Stale`), and all the parts are about the messages that are not. A stale
inquiry stays so, since it is of an earlier round than any later request of its receiver (`Past`),
and one that is answered is a late answer, where the invariant ends: what is
inductive is `late \/ IInv`. Only `TypeOK` goes on after it, with its own invariant (`Typed`).

*The tour on offer.* A stack is on offer exactly while the one thread that was signalled
for it has not taken it; the invariant pairs `offered` with that thread, and counts the
threads at the two barriers, so that no thread searches before the queue is built. The
theorem on waking is under the hypothesis that no wakeup was spurious, as the property
is. What it does not say is that the stack is taken before the end: it need not be
(`ts_lost`).

*The best tour.* `TInv` says for every label what a thread holds there, in particular that the
best tour is open exactly while the holder of its mutex is between `Copy_tour` and `Add_city`
(`Guarded`). Closing it then gives it the cost at which it was settled, and a
replacement was compared, under the mutex, with a tour that is closed. The costs need induction,
and the provers have none over operators: `Induction` states it over sets of numbers, from the
well-foundedness of finite sets under inclusion (the intervals `0 .. k`), and `Recursion` derives from
it that a function defined by its first value and its steps exists. `Tour_cost`, `Size`,
`Children` and `Level` are such functions; `CostsGrow` is the lemma that makes the bound sound, which
is why costs must not be negative.

*The search.* `SInv` follows the full tours below the process's share of the queue (`Goal`). Those
`Left` to search lie below a share that is not yet on a stack, a stack, the tour in a thread's
hands (the cities from `nbr` down), or the stack on offer. `Sound`: nothing else is searched, and the best
tour, closed or not, is one of the goal. `Complete`: a tour of the goal is left, or the best one is not
dearer, unless a tour was dropped for the cost of an open one (`misled`). `Progress` states once what a step has
to show: a full tour that it takes out of `Left` costs no less than the best one. Popping a tour,
splitting a stack and taking the offer leave `Left` as it is (`PopLeaves`, `SplitStack`); a longer tour that is
not pushed takes away what lies below it, all of which costs no less (`BelowCosts`). `InPhase` keeps the
threads behind the two barriers until the queue is built, so that the goal does not change
under them. At the end nothing is left, and the goal is what the process was given: the shares of
its threads lie in a row (`SharesInARow`, `GoalIsAssigned`). The invariant was checked in the run's
instance before it was proved. It holds as long as no wakeup was spurious: after one, a thread may be past a barrier
before the queue is built.

*The scheduler.* While a signal is pending no process is starting, and a chosen process
has stopped itself before SIGCONT reaches it, because the pause of the loop lasts
until then; the handler ends that pause early, but the chosen process is then an older
one. The position that a new process takes is the lowest free one, which exists in a
finite list by the pigeonhole principle. While a position is freed nothing runs (`Freeing`), so that
the process which takes it in between is not mistaken for the current one although
the index names its position; the number that it has then, or has lost, is what `Number` says.

*The consensus.* Its quorum argument needs majorities of stations, but the code counts messages:
log entries and acknowledgements without names. `IInv` in `MobileConsensusProofs` has two layers.
`Good` holds whatever happens. For every round and station there is at most one *token*
on its way, the proposal to the station or its answer (`Unique`, over the queue and the
bag of late messages, copies included). A round whose proposal exists is past for its
coordinator, which cannot propose in it again (`Proposals`). The acknowledgements that a
coordinator has counted are no more than the other stations whose token of the round is
gone (`Counted`), and proposals and answers of a round never disagree about `endCollect`
(`Unanimous`). So a count is one of different stations, although nothing in the
code compares them.
The second layer (`Locked`) holds until a decided station is started again: there are `K`,
`L` and `V` such that rounds 1 to `K` have been proposed, those up to `L` without
`endCollect` and all later ones with the set `V`. What makes it inductive is not an intersection
of majorities but the pace of the stations: a station leaves phase 3 only with a
proposal, and takes one proposal per round it leaves (`Turns`), so that no station is in a
round whose predecessors have not all been proposed. A station that has adopted nothing is
therefore in round `L + 1` at most, and the coordinator of a later round sees only estimates with
`ts` > 0, all of them `V`, whether its log repeats a station or not. A proposal out of
another round, which phase 3 takes, consumes a turn like any other. While `K = L` the hosts
in `p` are among the values collected, so that the first set proposed with `endCollect` has
`alpha` values. Neither the number of stations, hosts and late messages nor the bounds enter.
A restart breaks the second layer and only that: DECIDE takes a station out of its round without a
proposal, and when it is started again it goes on to the next round (`roundR` is kept) with
fewer proposals taken than rounds left, and replaces its set if it has adopted nothing. The
invariant does not survive it, and neither do `Agreement` (`co_restart`) and, without its first
disjunct, `DecidesEnough`.

*Model-checked only*: all liveness (`Termination`, `Granted`, `EndsUnlessShort`, `DueWaitsEnd`,
`Ends`, `AllDecide`, `AllServed`, `AllReaped`), which is out of the prover's reach. Every invariant and
action property that a passing run checks has a theorem.

*Proved, and not repeated in a run*: the type invariants of the buffer, Raft, luarpc, Sanders, the
quadrature, the consensus and the schedulers, `ReadsOnlyPending`, `ActiveCounted`, `VotesForSelf`,
`SeparateVoters`, `MajoritiesAgree` and `WaitsEntered`.

## Disagreements found

Three are runs of the project:

- `raft_majority`: a leader may count two grants of one server, since a request of an
  older term is granted in the newer one and a reply does not name its voter.
  With three servers `ElectionSafety` still holds; with five it does not (see below).
- `ts_lost`: a thread splits its stack, signals a waiter and finishes its own half before
  the waiter has the mutex again. It finds `count == thread_count-1`, takes itself for the last
  one, and the woken waiter then sees `count == thread_count` and ends with a stack on offer:
  its tours are never searched (`main.c:1265`). `FindsBest` excludes exactly this case, and
  the case of a cost that no tour has.
- `co_restart`: a station that learns the decision goes back to phase 0, and keeps its round and its
  `ts`. If it had adopted nothing, `ts` is 0: a late INIT_2 starts it again and phase 1 of
  the next round replaces the set it had decided (`MSSNode.java:271`).

Others are found with these instances, each with one property:

- *Buffer*, 2 producers, 1 consumer, 2 positions, 2 deposits each, `WritesOnlyFree`: two producers
  pass the test for the same position, since the test and the update of `pendingReads`
  are in different critical sections, and one overwrites unread data; the comment at
  `limitedbuffer.c:79` has one await for both.
- *Buffer*, 1 producer, 2 consumers, 2 positions, 3 deposits, `Termination` of `FairSpec`:
  `SIGNAL` wakes a reader whatever its pending reads; the reader takes a deposit that is
  not there, its count becomes -1 and a position is never free again, against "cada
  leitor irá ler ... o número total de depósitos" (`relatorio.txt:54`).
- *Raft*, five servers, `MaxElections` 11, `ElectionSafety`, along one schedule (a search without it is
  out of reach): two leaders of term 3. One server asks for votes up to term 3 while the others are
  stopped, and its requests to them are dropped; two that resume start term 1, and its refusals
  bring them to term 3, where they have not voted. Then a server that is still in term
  0 starts terms 1, 2 and 3 in a row; the first of the two grants all three requests in term 3
  and so gives it three grants, a majority of five. Another does the same with the
  second.
- *Raft*, `AnsweredLeaderStepsDown`: the answer to a heartbeat goes to the handler of votes,
  so that a leader does not step down for a greater term (`server.lua:206`).
- *luarpc*, `DueWaitsEnd` without its last disjunct `Blocked`, 1 coroutine, `MaxTime` 4,
  `MaxRequests` 2: once a wakeup time is in the past, the timeout is negative and `select`
  blocks without a bound: the loop of `server.lua:322` does not go on until some other
  server calls. `DueWaitsEnd` shows that nothing else keeps a wait from ending.
- *Sanders*, `sanders_votes` without its CONSTRAINT and without `late` in the properties: a node that left its
  section answers an inquiry as if it still held the vote (`SandersNode.java:199` looks at
  `inCS` and the timestamp only), after its RELEASE. The arbiter, which has passed the vote on, takes it from
  the next candidate and gives it once more. `EntrantHoldsVotes` fails in 17 steps, two nodes are in
  their sections at once in 24 (`MutualExclusion`), and a request is never granted (`Granted`) because
  the vote of an arbiter stays with a node that does not want it any more.
- *Schedulers*, `sc_turns` without `Misnumbered` in the properties: a SIGUSR1 between the stores of
  `prioridade/escalonador.c:147` and 148 puts a new process into the position that is being freed, and
  line 148 replaces its priority by -1. It then comes before all others, and the most urgent process of
  `exec.txt` may never run (`AllServed`). In the lottery (lines 163 and 164) it has no tickets and takes one from the
  others, so that an owner of tickets is not drawn (`AllServed`) and a program that has ended is not
  reaped (`AllReaped`). `OwnPosition` says that nobody else is without a number.

Reading the schedulers gave four remarks, of which the model takes what happens:
`encerra` swaps the arguments of `kill`, so that SIGINT ends the scheduler and leaves its
processes; without a running process the loop reads `PIDList[-1]`, which in the
programs beside the source is padding of value 0; a program that cannot be
executed leaves its process in the loop as a second scheduler; and by priorities a
program that ends between `waitpid` and SIGSTOP may never be reaped, which is why
`AllReaped` leaves that policy out.

One more is outside what the models can decide. `aquad3.c:199` waits for
`progress/expected >= 1.0`. With a power of two of processes the widths are exact, and
so is the sum. Otherwise it depends on the order of the reports: adding
the widths of the program's own intervals on [0, 1] in random orders, 3
processes end below 1.0 in about one order of five and 10 processes in one of two.
The master and the workers then wait for ever. `IdleSuffices` shows that the
comparison is not needed, and `EndsUnlessShort` that nothing else prevents the end. The
model also explains the times of `runs.txt`: tasks returned by workers go to the first
marked worker, busy or not, so that with 8 and 10 processes most of the work is done
by few.

## Plan

The project stays within a dozen runs; as a component's modules grow, its
single-question violation runs give way to those of new components.

1. `PageTable` (virtual memory): the access path and the three policies against
   reference definitions of LRU, NRU and second chance.
2. `StaticQuadrature` (`aquad2.c`) as a second implementation of `DivideAndSum`.
3. `RumorRouting` and `Lobby` (Ludo).
4. In `TourSearch`, the exchange after the join (`Get_global_best_tour`, `Cleanup_msg_queue`) with
   two modelled processes; in `MobileConsensus`, `reset()` and several messages per inbox.

Theorems go with the modules: the reference definitions of the page policies, and that `StaticQuadrature`
implements `DivideAndSum`.

## What is not modelled

- The components of the table above are planned, not modelled; of the quadrature,
  the static programs.
- Of the travelling salesman, what follows the join (`Cleanup_msg_queue`,
  `Get_global_best_tour`) and the overflow of a stack; of the consensus, `reset()`, several
  messages in one inbox, and `suspectedMSSs`, which no code reads; of the
  schedulers, programs that are missing and SIGINT of `interpretador.c`.
- `aquad3.c` with an MPI that does not buffer: a send to a worker that sends would block
  both.
- Of luarpc, marshalling, the interface file and validation; of Raft, log replication
  (the program has none) and real timeouts.
- Sanders' `reset()` with messages on their way, and the files of coteries.
- The BLE mesh MAC and the MAM application, which live inside INET's event kernel.
- The Sinalgo and INET frameworks (vendored), from which the models take only how
  messages are delivered.
- The sequential work of INF1011, INF1018, INF1301, INF1399, INF1608, INF1636, INF1715,
  INF1761, INF1771 and INF2609: numerical methods, graphics, a compiler, games,
  neural and genetic algorithms. They have no interleaving to explore, and their
  data are reals or trees too large for TLC.
