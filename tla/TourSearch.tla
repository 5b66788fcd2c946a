----------------------------- MODULE TourSearch -----------------------------
(* INF2591/T3-TSP/main.c: one process of the parallel branch and bound for  *)
(* the travelling salesman, from the partition of the tree to the join of   *)
(* its threads.  The other processes of the cluster only send it the costs  *)
(* they find.  A tour is the sequence of its cities.  A section under       *)
(* term->mutex is one step, since it never blocks; best_tour_mutex is kept, *)
(* because the best tour is read without it.                                *)
EXTENDS Integers, Sequences, FiniteSets, Functions, SequencesExt, FiniteSetsExt

CONSTANTS
  n,              \* cities; 0 is the home town
  thread_count, cluster_count, cluster_rank, min_split_sz,
  Cost(_, _),     \* the digraph
  INFINITY,       \* the cost of the best tour before there is one
  MaxCosts,       \* bound: costs that each other process sends
  MaxSpurious     \* bound: spurious wakeups of condition variables

Cities == 0 .. (n - 1)
Threads == 0 .. (thread_count - 1)
Peers == 0 .. (cluster_count - 1) \ {cluster_rank}
Workers == thread_count * cluster_count

(* Splitting a stack of one tour would offer an empty stack: the comment at *)
(* Empty_stack asks for 2, main itself only for 1.                          *)
ASSUME TourAssumption ==
  /\ n \in Nat \ {0, 1} /\ thread_count \in Nat \ {0}
  /\ cluster_count \in Nat \ {0} /\ cluster_rank \in 0 .. (cluster_count - 1)
  /\ min_split_sz \in Nat \ {0, 1}
  /\ \A a, b \in Cities : Cost(a, b) \in Nat
  /\ INFINITY \in Nat /\ MaxCosts \in Nat /\ MaxSpurious \in Nat

Nobody == -1
NULL == <<>>  \* term->stack when no stack is offered

VARIABLES
  queue_size, queue, curr_tc,      \* the partition of the tree and its barrier
  pc, stack, curr_tour, nbr,       \* of each thread
  source,         \* the process from which a thread is about to receive
  best,           \* loc_best_tour, <<>> before there is one
  best_mutex,     \* the thread that holds best_tour_mutex
  offered, count, \* term->stack, as <<stack>> or NULL; term->count
  inbox,          \* costs that arrived from each peer and were not received
  costs_sent, spurious,            \* what is spent of the bounds
  misled          \* history: a tour was dropped for a cost no tour has

partition == <<queue_size, queue, curr_tc>>
search == <<stack, curr_tour, nbr>>
bound == <<best, best_mutex, misled>>
term == <<offered, count>>
mpi == <<inbox, source, costs_sent>>
vars == <<partition, pc, search, bound, term, mpi, spurious>>

-----------------------------------------------------------------------------
(* Tours. *)

Last_city(tour) == tour[Len(tour)]
Visited(tour, city) == \E i \in DOMAIN tour : tour[i] = city

(* What Add_city adds up, city by city. *)
Tour_cost(tour) ==
  LET cost[k \in 0 .. Len(tour)] ==
        IF k <= 1 THEN 0 ELSE cost[k - 1] + Cost(tour[k - 1], tour[k])
  IN  cost[Len(tour)]

Best_cost == IF best = <<>> THEN INFINITY ELSE Tour_cost(best)

(* Copy_tour leaves in loc_best_tour a tour that Add_city has not closed    *)
(* yet, with the cost of the open tour.                                     *)
Open == Len(best) = n
Settled_cost ==
  IF Open THEN Best_cost + Cost(Last_city(best), 0) ELSE Best_cost

(* A comparison of cost with the bound, by a thread that reads it unlocked. *)
Compare(cost) ==
  misled' = (misled \/ (Best_cost <= cost /\ cost < Settled_cost))

-----------------------------------------------------------------------------
(* The partition of the tree. *)

Fact[k \in Nat] == IF k = 0 THEN 1 ELSE k * Fact[k - 1]

(* The sizes that Get_upper_bd_queue_sz goes through. *)
Size[k \in Nat] == IF k = 0 THEN n - 1 ELSE Size[k - 1] * (n - 1 + k)

(* The loops end as soon as there is one for each thread of the cluster.    *)
Ends_at(k, size) ==
  size[k] >= Workers /\ \A j \in 0 .. (k - 1) : size[j] < Workers

Get_upper_bd_queue_sz ==
  {IF Size[k] > Fact[n - 1] THEN 0 ELSE Size[k]
     : k \in {j \in 0 .. Workers : Ends_at(j, Size)}}

(* The tours that nbr = 1, ..., n - 1 add to tour. *)
Children(tour) ==
  LET added[k \in 0 .. (n - 1)] ==
        IF k = 0 THEN <<>>
        ELSE IF Visited(tour, k) THEN added[k - 1]
        ELSE Append(added[k - 1], Append(tour, k))
  IN  added[n - 1]

(* The queue after k steps of the breadth-first search; Dequeue would end   *)
(* the program if it were empty.                                            *)
Level[k \in Nat] ==
  IF k = 0 THEN <<<<0>>>>
  ELSE IF Level[k - 1] = <<>> THEN <<>>
  ELSE Tail(Level[k - 1]) \o Children(Head(Level[k - 1]))

Build_initial_queue ==
  {Level[k] : k \in {j \in 0 .. Workers :
                      Ends_at(j, [i \in 0 .. j |-> Len(Level[i])])}}

(* The first of the tours of thread r of the cluster, of a queue of total.  *)
(* Its last is the one before the first of thread r + 1.                    *)
First_tour(r, total) ==
  LET quotient == total \div Workers
      remainder == total % Workers
  IN  IF r < remainder THEN r * (quotient + 1) ELSE r * quotient + remainder

Last_tour(r, total) ==
  First_tour(r, total) + total \div Workers
    - (IF r < total % Workers THEN 0 ELSE 1)

(* The stack of thread t: its first tour is on top. *)
Set_init_tours(t) ==
  LET r == t + thread_count * cluster_rank
  IN  Reverse(SubSeq(queue, First_tour(r, Len(queue)) + 1,
                            Last_tour(r, Len(queue)) + 1))

Init ==
  /\ queue_size = 0 /\ queue = <<>> /\ curr_tc = 0
  /\ pc = [t \in Threads |-> IF t = 0 THEN "measure" ELSE "enter1"]
  /\ stack = [t \in Threads |-> <<>>]
  /\ curr_tour = [t \in Threads |-> <<>>]
  /\ nbr = [t \in Threads |-> 0]
  /\ source = [t \in Threads |-> Nobody]
  /\ best = <<>> /\ best_mutex = Nobody
  /\ offered = NULL /\ count = 0
  /\ inbox = [p \in Peers |-> 0]
  /\ costs_sent = [p \in Peers |-> 0]
  /\ spurious = 0 /\ misled = FALSE

Goto(t, label) == pc' = [pc EXCEPT ![t] = label]

Measure(t) ==
  /\ pc[t] = "measure"
  /\ queue_size' \in Get_upper_bd_queue_sz
  /\ Goto(t, "enter1")
  /\ UNCHANGED <<queue, curr_tc, search, bound, term, mpi, spurious>>

(* My_barrier, at its first and its second use.  The thread that completes  *)
(* the number wakes whoever sleeps at the barrier.                          *)
Barrier(t, enter, asleep, next) ==
  /\ pc[t] = enter
  /\ IF curr_tc + 1 = thread_count
     THEN /\ curr_tc' = 0
          /\ pc' = [u \in Threads |->
               IF u = t THEN next
               ELSE CASE pc[u] = "asleep1" -> "sized"
                      [] pc[u] = "asleep2" -> "assign"
                      [] OTHER -> pc[u]]
     ELSE curr_tc' = curr_tc + 1 /\ Goto(t, asleep)
  /\ UNCHANGED <<queue_size, queue, search, bound, term, mpi, spurious>>

Barrier1(t) == Barrier(t, "enter1", "asleep1", "sized")
Barrier2(t) == Barrier(t, "enter2", "asleep2", "assign")

(* Too many threads for the problem: the thread ends. *)
Sized(t) ==
  /\ pc[t] = "sized"
  /\ Goto(t, IF queue_size = 0 THEN "gone" ELSE "enter2")
  /\ IF t = 0 /\ queue_size # 0
     THEN queue' \in Build_initial_queue ELSE UNCHANGED queue
  /\ UNCHANGED <<queue_size, curr_tc, search, bound, term, mpi, spurious>>

Assign(t) ==
  /\ pc[t] = "assign"
  /\ stack' = [stack EXCEPT ![t] = Set_init_tours(t)]
  /\ Goto(t, "test")
  /\ UNCHANGED <<partition, curr_tour, nbr, bound, term, mpi, spurious>>

-----------------------------------------------------------------------------
(* The sharing of work. *)

CanSplit(t) ==
  Len(stack[t]) >= min_split_sz /\ count > 0 /\ offered = NULL

(* Another thread may hold term->mutex, and trylock fail. *)
Contended(t) ==
  \E u \in Threads \ {t} : \/ pc[u] = "woken"
                           \/ pc[u] = "test" /\ (stack[u] = <<>> \/ CanSplit(u))

Unvisited(tour, below) == {c \in 1 .. (below - 1) : ~Visited(tour, c)}
Next_nbr(tour, below) == Max(Unvisited(tour, below) \cup {0})

(* Thread t pops the tour on top of s, its stack from now on. *)
Pop(t, s) ==
  LET tour == Last(s)
  IN  /\ stack' = [stack EXCEPT ![t] = Front(s)]
      /\ curr_tour' = [curr_tour EXCEPT ![t] = tour]
      /\ nbr' = [nbr EXCEPT ![t] = Next_nbr(tour, n)]

Popped(s) == IF Len(Last(s)) = n THEN "probe" ELSE "expand"

(* Terminated returns FALSE: the thread has work. *)
Proceed(t) ==
  /\ pc[t] = "test"
  /\ stack[t] # <<>>
  /\ CanSplit(t) => Contended(t)
  /\ Pop(t, stack[t])
  /\ Goto(t, Popped(stack[t]))
  /\ UNCHANGED <<partition, bound, term, mpi, spurious>>

(* Seeded fault: the loop stops before the last tour of a stack. *)
Split_stackShort(s, odd) ==
  [k \in 1 .. (Len(s) \div 2) |-> IF odd THEN s[2 * k] ELSE s[2 * k - 1]]

(* The tours of s at the odd positions of the array, and at the even ones. *)
Split_stack(s, odd) ==
  [k \in 1 .. (IF odd THEN Len(s) \div 2 ELSE (Len(s) + 1) \div 2) |->
     IF odd THEN s[2 * k] ELSE s[2 * k - 1]]

(* Terminated returns FALSE after it offered half of the stack.  The signal *)
(* finds no waiter when every counted thread was already woken.             *)
Offer(t) ==
  /\ pc[t] = "test"
  /\ CanSplit(t)
  /\ offered' = <<Split_stack(stack[t], TRUE)>>
  /\ LET kept == Split_stack(stack[t], FALSE)
         waiters == {u \in Threads : pc[u] = "waiting"}
         next == [pc EXCEPT ![t] = Popped(kept)]
     IN  /\ Pop(t, kept)
         /\ \/ waiters = {} /\ pc' = next
            \/ \E u \in waiters : pc' = [next EXCEPT ![u] = "woken"]
  /\ UNCHANGED <<partition, bound, count, mpi, spurious>>

(* Seeded fault: the last thread does not count itself. *)
LastOneUncounted(t) ==
  /\ pc[t] = "test" /\ stack[t] = <<>>
  /\ count = thread_count - 1
  /\ pc' = [u \in Threads |->
       IF u = t THEN "done" ELSE IF pc[u] = "waiting" THEN "woken" ELSE pc[u]]
  /\ UNCHANGED <<partition, search, bound, term, mpi, spurious>>

(* Seeded fault: the last thread does not wake the others. *)
LastOneSilent(t) ==
  /\ pc[t] = "test" /\ stack[t] = <<>>
  /\ count = thread_count - 1
  /\ count' = count + 1
  /\ Goto(t, "done")
  /\ UNCHANGED <<partition, search, bound, offered, mpi, spurious>>

(* Every other thread waits: the last one ends them all. *)
LastOne(t) ==
  /\ pc[t] = "test" /\ stack[t] = <<>>
  /\ count = thread_count - 1
  /\ count' = count + 1
  /\ pc' = [u \in Threads |->
       IF u = t THEN "done" ELSE IF pc[u] = "waiting" THEN "woken" ELSE pc[u]]
  /\ UNCHANGED <<partition, search, bound, offered, mpi, spurious>>

Wait(t) ==
  /\ pc[t] = "test" /\ stack[t] = <<>>
  /\ count # thread_count - 1
  /\ count' = count + 1
  /\ Goto(t, "waiting")
  /\ UNCHANGED <<partition, search, bound, offered, mpi, spurious>>

(* Seeded fault: a thread that is given work still counts as idle. *)
TakeOfferStaysCounted(t) ==
  /\ pc[t] = "woken"
  /\ count < thread_count
  /\ offered # NULL
  /\ Pop(t, offered[1])
  /\ Goto(t, Popped(offered[1]))
  /\ offered' = NULL
  /\ UNCHANGED <<partition, bound, count, mpi, spurious>>

(* A woken thread has the mutex again, and takes the stack on offer. *)
TakeOffer(t) ==
  /\ pc[t] = "woken"
  /\ count < thread_count
  /\ offered # NULL
  /\ Pop(t, offered[1])
  /\ Goto(t, Popped(offered[1]))
  /\ offered' = NULL
  /\ count' = count - 1
  /\ UNCHANGED <<partition, bound, mpi, spurious>>

(* "Awakened with no work avail!": the thread exits. *)
NoWorkAvail(t) ==
  /\ pc[t] = "woken"
  /\ count < thread_count
  /\ offered = NULL
  /\ count' = count - 1
  /\ Goto(t, "gone")
  /\ UNCHANGED <<partition, search, bound, offered, mpi, spurious>>

AllDone(t) ==
  /\ pc[t] = "woken"
  /\ count >= thread_count
  /\ Goto(t, "done")
  /\ UNCHANGED <<partition, search, bound, term, mpi, spurious>>

(* A condition variable may wake a thread that nobody signalled.  The loops *)
(* around pthread_cond_wait look only at its return value.                  *)
SpuriousWakeup(t) ==
  /\ spurious < MaxSpurious
  /\ spurious' = spurious + 1
  /\ \/ pc[t] = "waiting" /\ Goto(t, "woken")
     \/ pc[t] = "asleep1" /\ Goto(t, "sized")
     \/ pc[t] = "asleep2" /\ Goto(t, "assign")
  /\ UNCHANGED <<partition, search, bound, term, mpi>>

-----------------------------------------------------------------------------
(* The search. *)

(* Thread t is through with its tour. *)
Free_tour(t) ==
  /\ curr_tour' = [curr_tour EXCEPT ![t] = <<>>]
  /\ nbr' = [nbr EXCEPT ![t] = 0]
  /\ Goto(t, "test")

(* One turn of the loop over the cities that the tour has not visited.      *)
Expand(t) ==
  LET tour == curr_tour[t]
      longer == Append(tour, nbr[t])
      following == Next_nbr(tour, nbr[t])
  IN  /\ pc[t] = "expand"
      /\ Compare(Tour_cost(longer))
      /\ stack' = [stack EXCEPT ![t] =
           IF Tour_cost(longer) < Best_cost THEN Append(@, longer) ELSE @]
      /\ \/ following = 0 /\ Free_tour(t)
         \/ /\ following # 0
            /\ nbr' = [nbr EXCEPT ![t] = following]
            /\ UNCHANGED <<pc, curr_tour>>
      /\ UNCHANGED <<partition, best, best_mutex, term, mpi, spurious>>

Closed_cost(tour) == Tour_cost(tour) + Cost(Last_city(tour), 0)

(* Seeded fault: the holder of the mutex does not compare again, which is   *)
(* the race that the comment at Update_best_tour describes.                 *)
BestTourOnce(t) ==
  LET better == Closed_cost(curr_tour[t]) < Best_cost \/ best_mutex = t
  IN  /\ pc[t] = "probe"
      /\ \A p \in Peers : inbox[p] = 0
      /\ \/ /\ best_mutex # t
            /\ Compare(Closed_cost(curr_tour[t]))
            /\ IF better THEN Goto(t, "lock") /\ UNCHANGED <<curr_tour, nbr>>
                         ELSE Free_tour(t)
            /\ UNCHANGED <<best, best_mutex>>
         \/ /\ best_mutex = t
            /\ best' = curr_tour[t]
            /\ Goto(t, "close")
            /\ UNCHANGED <<best_mutex, curr_tour, nbr, misled>>
      /\ UNCHANGED <<partition, stack, term, mpi, spurious>>

(* Best_tour, when no cost has arrived.  A thread that does not hold the    *)
(* mutex goes on to Update_best_tour with a better tour; the one that holds *)
(* it compares again and copies the tour.                                   *)
BestTour(t) ==
  LET better == Closed_cost(curr_tour[t]) < Best_cost
  IN  /\ pc[t] = "probe"
      /\ \A p \in Peers : inbox[p] = 0
      /\ \/ /\ best_mutex # t
            /\ Compare(Closed_cost(curr_tour[t]))
            /\ IF better THEN Goto(t, "lock") /\ UNCHANGED <<curr_tour, nbr>>
                         ELSE Free_tour(t)
            /\ UNCHANGED <<best, best_mutex>>
         \/ /\ best_mutex = t
            /\ IF better
               THEN /\ best' = curr_tour[t]
                    /\ Goto(t, "close")
                    /\ UNCHANGED <<best_mutex, curr_tour, nbr>>
               ELSE best_mutex' = Nobody /\ Free_tour(t) /\ UNCHANGED best
            /\ UNCHANGED misled
      /\ UNCHANGED <<partition, stack, term, mpi, spurious>>

(* Look_for_best_tours: the probe sees a cost, and the receive takes one    *)
(* from the same process, when there still is one.  The cost goes to        *)
(* global_best_tour_cost, which the search never reads.                     *)
Probe(t) ==
  /\ pc[t] = "probe"
  /\ \E p \in Peers : inbox[p] > 0 /\ source' = [source EXCEPT ![t] = p]
  /\ Goto(t, "receive")
  /\ UNCHANGED <<partition, search, bound, term, inbox, costs_sent, spurious>>

Receive(t) ==
  /\ pc[t] = "receive"
  /\ inbox[source[t]] > 0
  /\ inbox' = [inbox EXCEPT ![source[t]] = @ - 1]
  /\ source' = [source EXCEPT ![t] = Nobody]
  /\ Goto(t, "probe")
  /\ UNCHANGED <<partition, search, bound, term, costs_sent, spurious>>

Lock(t) ==
  /\ pc[t] = "lock"
  /\ best_mutex = Nobody
  /\ best_mutex' = t
  /\ Goto(t, "probe")
  /\ UNCHANGED <<partition, search, best, misled, term, mpi, spurious>>

(* Add_city closes the best tour; the broadcast does not wait. *)
CloseTour(t) ==
  /\ pc[t] = "close"
  /\ best' = Append(best, 0)
  /\ best_mutex' = Nobody
  /\ Free_tour(t)
  /\ UNCHANGED <<partition, stack, misled, term, mpi, spurious>>

(* Another process found a tour. *)
CostArrives(p) ==
  /\ costs_sent[p] < MaxCosts
  /\ costs_sent' = [costs_sent EXCEPT ![p] = @ + 1]
  /\ inbox' = [inbox EXCEPT ![p] = @ + 1]
  /\ UNCHANGED <<partition, pc, search, bound, term, source, spurious>>

-----------------------------------------------------------------------------
Partition(t) ==
  Measure(t) \/ Barrier1(t) \/ Sized(t) \/ Barrier2(t) \/ Assign(t)

Terminated(t) == \/ Proceed(t) \/ Offer(t) \/ LastOne(t) \/ Wait(t)
                 \/ TakeOffer(t) \/ NoWorkAvail(t) \/ AllDone(t)

Search(t) == \/ Expand(t) \/ BestTour(t) \/ Probe(t) \/ Receive(t)
             \/ Lock(t) \/ CloseTour(t)

Par_tree_search(t) == Partition(t) \/ Terminated(t) \/ Search(t)

Next == \/ \E t \in Threads : Par_tree_search(t) \/ SpuriousWakeup(t)
        \/ \E p \in Peers : CostArrives(p)

(* The kernel runs every thread that can run, the mutexes are granted. *)
Spec == Init /\ [][Next]_vars /\ \A t \in Threads : WF_vars(Par_tree_search(t))

-----------------------------------------------------------------------------
Labels == {"measure", "enter1", "asleep1", "sized", "enter2", "asleep2",
           "assign", "test", "waiting", "woken", "expand", "probe", "receive",
           "lock", "close", "done", "gone"}
Tours == UNION {[1 .. k -> Cities] : k \in 1 .. n}

(* The types of the variables.  term->count never exceeds the threads.      *)
TypeOK ==
  /\ queue_size \in Nat /\ queue \in Seq(Tours)
  /\ curr_tc \in 0 .. (thread_count - 1)
  /\ pc \in [Threads -> Labels]
  /\ stack \in [Threads -> Seq(Tours)]
  /\ curr_tour \in [Threads -> Tours \cup {<<>>}]
  /\ nbr \in [Threads -> Cities]
  /\ source \in [Threads -> Peers \cup {Nobody}]
  /\ best \in Seq(Cities)
  /\ best_mutex \in Threads \cup {Nobody}
  /\ Len(offered) <= 1 /\ \A k \in DOMAIN offered : offered[k] \in Seq(Tours)
  /\ count \in 0 .. thread_count
  /\ inbox \in [Peers -> Nat] /\ costs_sent \in [Peers -> 0 .. MaxCosts]
  /\ spurious \in 0 .. MaxSpurious
  /\ misled \in BOOLEAN

(* term->count is the number of threads that are out of work, and it alone  *)
(* tells the last one from the others (main.c:1274): it counts exactly the  *)
(* threads that wait, are being woken or have ended through the end of all. *)
SleepersCounted ==
  count = Cardinality({t \in Threads : pc[t] \in {"waiting", "woken", "done"}})

Ended == \A t \in Threads : pc[t] \in {"done", "gone"}

(* A thread exits with "Awakened with no work avail!" (main.c:1292) only    *)
(* when a condition variable woke somebody whom nobody signalled: a signal  *)
(* comes with work that no other thread takes, the broadcast with the end.  *)
AwakenedToWork ==
  (queue_size # 0 /\ \E t \in Threads : pc[t] = "gone") => spurious > 0

(* The closed tours below the tours that this process was given.            *)
Full_tours == {<<0>> \o t : t \in {f \in [1 .. (n - 1) -> 1 .. (n - 1)] :
                 \A i, j \in 1 .. (n - 1) : f[i] = f[j] => i = j}}
Assigned ==
  UNION {{tour \in Full_tours : IsPrefix(queue[i + 1], tour)} :
    i \in First_tour(thread_count * cluster_rank, Len(queue))
      .. Last_tour(thread_count * (cluster_rank + 1) - 1, Len(queue))}

(* The parallel search finds what a search of the whole subtree would: when *)
(* every thread has ended through Terminated with no stack left on offer,   *)
(* and no tour was dropped for a cost that no tour has, the best tour is a  *)
(* cheapest one of the tours below the process's share (main.c:403).        *)
FindsBest ==
  (/\ \A t \in Threads : pc[t] = "done"
   /\ offered = NULL /\ ~misled /\ spurious = 0)
  => Best_cost = Min({Closed_cost(tour) : tour \in Assigned} \cup {INFINITY})

(* The best tour is only ever replaced by a cheaper one, whichever threads  *)
(* race for it: what the second call of Best_tour is for (main.c:663).      *)
BestOnlyImproves ==
  [][best' # best => Settled_cost' <= Settled_cost]_vars

(* Terminated says whether "there is any remaining work" (main.c:1222): no  *)
(* stack is still on offer when every thread has ended.                     *)
NoWorkRemains == Ended => offered = NULL

(* Every thread ends, unless a condition variable woke somebody spuriously  *)
(* or a thread waits for a cost that another thread has received: the sleep *)
(* of main.c:1278 always has a waker.                                       *)
Ends ==
  <>(\/ Ended \/ spurious > 0
     \/ \E t \in Threads : pc[t] = "receive" /\ inbox[source[t]] = 0)
=============================================================================
