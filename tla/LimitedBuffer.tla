--------------------------- MODULE LimitedBuffer ---------------------------
(***************************************************************************)
(* The bounded broadcast buffer of T1-Limited-Buffer: limitedbuffer.c and  *)
(* the program around it, main.c.  A split binary semaphore (e, sW and the *)
(* array sR) hands one baton from thread to thread; the counters of the    *)
(* buffer are touched only by the thread that holds it, while the data     *)
(* itself, and the read of nextWriteIndex at line 101, happen outside.     *)
(*                                                                         *)
(* A thread's pc says where it is in lbuf_deposit or lbuf_consume:         *)
(*   "call"    about to call the operation (or finished, see Exited)       *)
(*   "check"   holds the baton, tests its await condition                  *)
(*   "asleep"  in sem_wait(sW) or sem_wait(sR[i])                          *)
(*   "enter"   holds the baton, about to count itself in and SIGNAL        *)
(*   "index"   (deposit) no baton, about to read nextWriteIndex            *)
(*   "access"  no baton, about to store into or load from the slot         *)
(*   "leave"   in the second sem_wait(e)                                   *)
(*   "commit"  holds the baton, about to count itself out and SIGNAL       *)
(***************************************************************************)
EXTENDS Integers, Sequences, FiniteSets

CONSTANTS Producers,   \* the depositing threads
          Consumers,   \* the consuming threads
          Main,        \* the main thread: producer 0
          N,           \* nPositions
          D            \* N_DEPOSITS_PER_THREAD

ASSUME BufferAssumption ==
  /\ N \in Nat \ {0}
  /\ D \in Nat
  /\ Main \in Producers
  /\ Producers \cap Consumers = {}
  /\ IsFiniteSet(Producers)
  /\ IsFiniteSet(Consumers)

Threads == Producers \cup Consumers
Slots   == 0 .. N - 1
Items   == Producers \X Nat          \* the k-th deposit of a producer
NoItem  == <<>>                      \* a position never written

VARIABLES
  e, sW, sR,            \* the semaphores
  pendingReads,         \* pendingReads[i][c]
  nextConsume,          \* nextConsume[c]
  nextWriteIndex,
  waitForDeposit, waitForRead,
  nW, nR,
  buffer,
  pc, slot, datum,      \* each thread's place, writeIndex/readIndex, data
  done,                 \* operations each thread has completed
  created, freed,       \* main: the threads were created, the buffer freed
  deposited, received   \* history: items committed, items each consumer got

sems  == <<e, sW, sR>>
waits == <<waitForDeposit, waitForRead>>
shape == <<pendingReads, nextConsume, nextWriteIndex>>
hist  == <<deposited, received>>
vars  == <<e, sW, sR, pendingReads, nextConsume, nextWriteIndex, waitForDeposit,
           waitForRead, nW, nR, buffer, pc, slot, datum, done, created, freed,
           deposited, received>>

(***************************************************************************)
(* main.c: the main thread makes the first N deposits alone, then creates  *)
(* the other threads, then goes on up to D; each consumer consumes D items *)
(* per producer.                                                           *)
(***************************************************************************)
Quota(t) == IF t \in Consumers THEN D * Cardinality(Producers)
            ELSE IF t = Main /\ D < N THEN N ELSE D

Exited(t) == pc[t] = "call" /\ done[t] >= Quota(t)

Started(t) == IF t = Main THEN created \/ done[t] < N ELSE created

(* lbuf_create *)
Init ==
  /\ e = 1 /\ sW = 0 /\ sR = [i \in Slots |-> 0]
  /\ pendingReads = [i \in Slots |-> [c \in Consumers |-> 0]]
  /\ nextConsume = [c \in Consumers |-> 0]
  /\ nextWriteIndex = 0
  /\ waitForDeposit = 0 /\ waitForRead = [i \in Slots |-> 0]
  /\ nW = 0 /\ nR = [i \in Slots |-> 0]
  /\ buffer = [i \in Slots |-> NoItem]
  /\ pc = [t \in Threads |-> "call"]
  /\ slot = [t \in Threads |-> 0]
  /\ datum = [c \in Consumers |-> NoItem]
  /\ done = [t \in Threads |-> 0]
  /\ created = FALSE /\ freed = FALSE
  /\ deposited = <<>> /\ received = [c \in Consumers |-> <<>>]

Free(i) == \A c \in Consumers : pendingReads[i][c] = 0

Goto(t, l) == pc' = [pc EXCEPT ![t] = l]

-----------------------------------------------------------------------------
(***************************************************************************)
(* SIGNAL, run by the thread that holds the baton after its updates of the *)
(* other counters (hence the primes).  It passes the baton to a reader     *)
(* that waits on the lowest position, else to a depositor, else gives it   *)
(* back to e.  A reader is woken whatever its pendingReads say.            *)
(***************************************************************************)
CanWakeReader(i) == nW' = 0 /\ waitForRead[i] > 0

(* Seeded fault: the waiting reader is not counted out. *)
WakeReaderUncounted(i) ==
  /\ CanWakeReader(i)
  /\ \A j \in Slots : CanWakeReader(j) => i <= j
  /\ sR' = [sR EXCEPT ![i] = @ + 1]
  /\ UNCHANGED <<e, sW, waits>>

WakeReader(i) ==
  /\ CanWakeReader(i)
  /\ \A j \in Slots : CanWakeReader(j) => i <= j
  /\ waitForRead' = [waitForRead EXCEPT ![i] = @ - 1]
  /\ sR' = [sR EXCEPT ![i] = @ + 1]
  /\ UNCHANGED <<e, sW, waitForDeposit>>

CanWakeWriter ==
  /\ \A c \in Consumers : pendingReads'[nextWriteIndex'][c] = 0
  /\ nW' = 0
  /\ nR'[nextWriteIndex'] = 0
  /\ waitForDeposit > 0

WakeWriter ==
  /\ \A i \in Slots : ~CanWakeReader(i)
  /\ CanWakeWriter
  /\ waitForDeposit' = waitForDeposit - 1
  /\ sW' = sW + 1
  /\ UNCHANGED <<e, sR, waitForRead>>

Release ==
  /\ \A i \in Slots : ~CanWakeReader(i)
  /\ ~CanWakeWriter
  /\ e' = e + 1
  /\ UNCHANGED <<sW, sR, waits>>

(* Seeded faults: no return after sem_post(sR[i]); nobody is ever woken. *)
SIGNALNoReturn ==
  \/ \E i \in Slots : /\ CanWakeReader(i)
                      /\ waitForRead' = [waitForRead EXCEPT ![i] = @ - 1]
                      /\ sR' = [sR EXCEPT ![i] = @ + 1]
                      /\ e' = e + 1
                      /\ UNCHANGED <<sW, waitForDeposit>>
  \/ WakeWriter
  \/ Release

SIGNALNobody == e' = e + 1 /\ UNCHANGED <<sW, sR, waits>>

SIGNAL == \/ \E i \in Slots : WakeReader(i)
          \/ WakeWriter
          \/ Release

-----------------------------------------------------------------------------
(* sem_wait(&e), at the start of an operation and again before its end. *)
Acquire(t) ==
  /\ e > 0
  /\ e' = e - 1
  /\ \/ pc[t] = "call" /\ Started(t) /\ done[t] < Quota(t) /\ Goto(t, "check")
     \/ pc[t] = "leave" /\ Goto(t, "commit")
  /\ UNCHANGED <<sW, sR, shape, waits, nW, nR, buffer, slot, datum, done,
                 created, freed, hist>>

(***************************************************************************)
(* lbuf_deposit                                                            *)
(***************************************************************************)
(* Seeded faults: the await condition is not tested; the thread goes to sleep
   with the baton. *)
DepositCheckUntested(p) ==
  /\ pc[p] = "check"
  /\ Goto(p, "enter")
  /\ UNCHANGED <<sems, shape, waits, nW, nR, buffer, slot, datum, done,
                 created, freed, hist>>

DepositCheckKeeps(p) ==
  /\ pc[p] = "check"
  /\ IF Free(nextWriteIndex)
     THEN Goto(p, "enter") /\ UNCHANGED waitForDeposit
     ELSE waitForDeposit' = waitForDeposit + 1 /\ Goto(p, "asleep")
  /\ UNCHANGED <<sems, shape, waitForRead, nW, nR, buffer, slot, datum, done,
                 created, freed, hist>>

DepositCheck(p) ==
  /\ pc[p] = "check"
  /\ IF Free(nextWriteIndex)
     THEN Goto(p, "enter") /\ UNCHANGED <<waitForDeposit, e>>
     ELSE /\ waitForDeposit' = waitForDeposit + 1
          /\ e' = e + 1
          /\ Goto(p, "asleep")
  /\ UNCHANGED <<sW, sR, shape, waitForRead, nW, nR, buffer, slot, datum, done,
                 created, freed, hist>>

DepositWake(p) ==
  /\ pc[p] = "asleep"
  /\ sW > 0
  /\ sW' = sW - 1
  /\ Goto(p, "enter")
  /\ UNCHANGED <<e, sR, shape, waits, nW, nR, buffer, slot, datum, done,
                 created, freed, hist>>

DepositEnter(p) ==
  /\ pc[p] = "enter"
  /\ nW' = nW + 1
  /\ UNCHANGED <<nR, shape>>
  /\ SIGNAL
  /\ Goto(p, "index")
  /\ UNCHANGED <<buffer, slot, datum, done, created, freed, hist>>

(* int writeIndex = lbuf->nextWriteIndex, outside the critical section. *)
DepositIndex(p) ==
  /\ pc[p] = "index"
  /\ slot' = [slot EXCEPT ![p] = nextWriteIndex]
  /\ Goto(p, "access")
  /\ UNCHANGED <<sems, shape, waits, nW, nR, buffer, datum, done, created,
                 freed, hist>>

DepositStore(p) ==
  /\ pc[p] = "access"
  /\ buffer' = [buffer EXCEPT ![slot[p]] = <<p, done[p]>>]
  /\ Goto(p, "leave")
  /\ UNCHANGED <<sems, shape, waits, nW, nR, slot, datum, done, created, freed,
                 hist>>

NextSlot(i) == IF i + 1 = N THEN 0 ELSE i + 1

DepositCommit(p) ==
  /\ pc[p] = "commit"
  /\ nW' = nW - 1
  /\ pendingReads' = [pendingReads EXCEPT ![slot[p]] = [c \in Consumers |-> 1]]
  /\ nextWriteIndex' = NextSlot(nextWriteIndex)
  /\ UNCHANGED <<nR, nextConsume>>
  /\ SIGNAL
  /\ Goto(p, "call")
  /\ done' = [done EXCEPT ![p] = @ + 1]
  /\ deposited' = Append(deposited, <<p, done[p]>>)
  /\ UNCHANGED <<buffer, slot, datum, created, freed, received>>

(***************************************************************************)
(* lbuf_consume                                                            *)
(***************************************************************************)

ConsumeCheck(c) ==
  /\ pc[c] = "check"
  /\ slot' = [slot EXCEPT ![c] = nextConsume[c]]
  /\ nextConsume' = [nextConsume EXCEPT ![c] = NextSlot(@)]
  /\ IF pendingReads[nextConsume[c]][c] = 0
     THEN /\ waitForRead' = [waitForRead EXCEPT ![nextConsume[c]] = @ + 1]
          /\ e' = e + 1
          /\ Goto(c, "asleep")
     ELSE Goto(c, "enter") /\ UNCHANGED <<waitForRead, e>>
  /\ UNCHANGED <<sW, sR, pendingReads, nextWriteIndex, waitForDeposit, nW, nR,
                 buffer, datum, done, created, freed, hist>>

ConsumeWake(c) ==
  /\ pc[c] = "asleep"
  /\ sR[slot[c]] > 0
  /\ sR' = [sR EXCEPT ![slot[c]] = @ - 1]
  /\ Goto(c, "enter")
  /\ UNCHANGED <<e, sW, shape, waits, nW, nR, buffer, slot, datum, done,
                 created, freed, hist>>

ConsumeEnter(c) ==
  /\ pc[c] = "enter"
  /\ nR' = [nR EXCEPT ![slot[c]] = @ + 1]
  /\ UNCHANGED <<nW, shape>>
  /\ SIGNAL
  /\ Goto(c, "access")
  /\ UNCHANGED <<buffer, slot, datum, done, created, freed, hist>>

(* Seeded fault: the load uses nextConsume, advanced already. *)
ConsumeLoadNext(c) ==
  /\ pc[c] = "access"
  /\ datum' = [datum EXCEPT ![c] = buffer[nextConsume[c]]]
  /\ Goto(c, "leave")
  /\ UNCHANGED <<sems, shape, waits, nW, nR, buffer, slot, done, created, freed,
                 hist>>

ConsumeLoad(c) ==
  /\ pc[c] = "access"
  /\ datum' = [datum EXCEPT ![c] = buffer[slot[c]]]
  /\ Goto(c, "leave")
  /\ UNCHANGED <<sems, shape, waits, nW, nR, buffer, slot, done, created, freed,
                 hist>>

ConsumeCommit(c) ==
  /\ pc[c] = "commit"
  /\ nR' = [nR EXCEPT ![slot[c]] = @ - 1]
  /\ pendingReads' = [pendingReads EXCEPT ![slot[c]][c] = @ - 1]
  /\ UNCHANGED <<nW, nextConsume, nextWriteIndex>>
  /\ SIGNAL
  /\ Goto(c, "call")
  /\ done' = [done EXCEPT ![c] = @ + 1]
  /\ received' = [received EXCEPT ![c] = Append(@, datum[c])]
  /\ UNCHANGED <<buffer, slot, datum, created, freed, deposited>>

-----------------------------------------------------------------------------
(* main creates the consumers and the other producers (pthread_create). *)
Create ==
  /\ ~created /\ pc[Main] = "call" /\ done[Main] = N
  /\ created' = TRUE
  /\ UNCHANGED <<sems, shape, waits, nW, nR, buffer, pc, slot, datum, done,
                 freed, hist>>

(* main joins every thread and calls lbuf_free. *)
JoinAndFree ==
  /\ created /\ ~freed
  /\ \A t \in Threads : Exited(t)
  /\ freed' = TRUE
  /\ UNCHANGED <<sems, shape, waits, nW, nR, buffer, pc, slot, datum, done,
                 created, hist>>

ProducerStep(p) ==
  \/ Acquire(p) \/ DepositCheck(p) \/ DepositWake(p) \/ DepositEnter(p)
  \/ DepositIndex(p) \/ DepositStore(p) \/ DepositCommit(p)

ConsumerStep(c) ==
  \/ Acquire(c) \/ ConsumeCheck(c) \/ ConsumeWake(c) \/ ConsumeEnter(c)
  \/ ConsumeLoad(c) \/ ConsumeCommit(c)

Finished == freed /\ UNCHANGED vars

Next ==
  \/ \E p \in Producers : ProducerStep(p)
  \/ \E c \in Consumers : ConsumerStep(c)
  \/ Create
  \/ JoinAndFree
  \/ Finished

Spec == Init /\ [][Next]_vars

(* Every thread that can run is eventually scheduled (the kernel's threads). *)
Fairness ==
  /\ \A p \in Producers : WF_vars(ProducerStep(p))
  /\ \A c \in Consumers : WF_vars(ConsumerStep(c))
  /\ WF_vars(Create) /\ WF_vars(JoinAndFree)

FairSpec == Spec /\ Fairness

-----------------------------------------------------------------------------
(* Every variable keeps its type: in particular each semaphore of the split
   binary semaphore of lbuf_create stays binary, which sem_post does not
   guarantee by itself. *)
TypeOK ==
  /\ e \in {0, 1} /\ sW \in {0, 1} /\ sR \in [Slots -> {0, 1}]
  /\ pendingReads \in [Slots -> [Consumers -> Int]]
  /\ nextConsume \in [Consumers -> Slots]
  /\ nextWriteIndex \in Slots
  /\ waitForDeposit \in Nat /\ waitForRead \in [Slots -> Nat]
  /\ nW \in Int /\ nR \in [Slots -> Int]
  /\ buffer \in [Slots -> Items \cup {NoItem}]
  /\ pc \in [Threads -> {"call", "check", "asleep", "enter", "index", "access",
                         "leave", "commit"}]
  /\ slot \in [Threads -> Slots]
  /\ datum \in [Consumers -> Items \cup {NoItem}]
  /\ done \in [Threads -> Nat]
  /\ created \in BOOLEAN /\ freed \in BOOLEAN
  /\ deposited \in Seq(Items)
  /\ received \in [Consumers -> Seq(Items \cup {NoItem})]

Holds(t) == pc[t] \in {"check", "enter", "commit"}

(* The baton of SIGNAL and sem_wait: a thread between sem_wait and SIGNAL
   excludes every other one and no semaphore is up meanwhile, and at most one
   semaphore is up otherwise.  With several producers and consumers as well. *)
MutualExclusion ==
  /\ \A t \in Threads : Holds(t) =>
       /\ e = 0 /\ sW = 0 /\ \A i \in Slots : sR[i] = 0
       /\ \A u \in Threads : Holds(u) => u = t
  /\ e = 1 => sW = 0 /\ \A i \in Slots : sR[i] = 0
  /\ sW = 1 => \A i \in Slots : sR[i] = 0
  /\ \A i, j \in Slots : sR[i] = 1 /\ sR[j] = 1 => i = j

(* The baton is never lost: when nobody holds it some semaphore is up, so a
   sem_wait that will be granted is not waiting for a post that never comes. *)
BatonNotLost ==
  \/ e = 1 \/ sW = 1 \/ \E i \in Slots : sR[i] = 1
  \/ \E t \in Threads : Holds(t)

Sleepers(i) == {c \in Consumers : pc[c] = "asleep" /\ slot[c] = i}

(* The counters of waiting threads: SIGNAL posts sW and sR[i] only for a thread
   that is in sem_wait or on its way to it, one post for each, whatever the
   distance between sem_post(&e) and the sem_wait that follows it. *)
SleepersCounted ==
  /\ waitForDeposit + sW = Cardinality({p \in Producers : pc[p] = "asleep"})
  /\ \A i \in Slots : waitForRead[i] + sR[i] = Cardinality(Sleepers(i))

Active(S) == {t \in S : pc[t] \in {"index", "access", "leave", "commit"}}

(* nW and nR[i] count the threads between their two critical sections, which is
   what SIGNAL trusts when it decides whom to wake. *)
ActiveCounted ==
  /\ nW = Cardinality(Active(Producers))
  /\ \A i \in Slots : nR[i] = Cardinality({c \in Active(Consumers) : slot[c] = i})

(* await pendingReads[readIndex][threadId] > 0 (comment in lbuf_consume): a
   consumer about to load from its slot has a deposit pending there. *)
ReadsOnlyPending ==
  \A c \in Consumers : pc[c] = "access" => pendingReads[slot[c]][c] > 0

(* await pendingReads[nextWriteIndex] == 0 (comment in lbuf_deposit): a producer
   about to store into its slot overwrites nothing that is still to be read. *)
WritesOnlyFree ==
  \A p \in Producers : pc[p] = "access" => Free(slot[p])

(* After the join, every consumer got the deposits, all and in order. *)
AllDelivered ==
  freed => \A c \in Consumers : received[c] = SubSeq(deposited, 1, Quota(c))

(* The buffer implements its promise: in-order delivery of every deposit to
   every consumer, at most N behind. *)
Promise == INSTANCE BroadcastBuffer
             WITH Items <- Producers \X (0 .. N + D),
                  log <- deposited, got <- received
PromiseKept == Promise!Spec

(* The program ends: main joins all its threads and frees the buffer. *)
Termination == <>freed
=============================================================================
