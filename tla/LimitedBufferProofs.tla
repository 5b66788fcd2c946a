------------------------ MODULE LimitedBufferProofs ------------------------
(***************************************************************************)
(* The split binary semaphore of the limited buffer is correct for every   *)
(* number of positions, producers and consumers: it stays binary, it       *)
(* excludes, the baton is never lost, and its counters are exact.          *)
(***************************************************************************)
EXTENDS LimitedBuffer, FiniteSetTheorems, TLAPS

Inv == TypeOK /\ MutualExclusion /\ BatonNotLost

Labels == {"call", "check", "asleep", "enter", "index", "access", "leave",
           "commit"}

LEMMA SlotFacts == /\ 0 \in Slots
                   /\ \A i \in Slots : NextSlot(i) \in Slots
  BY BufferAssumption DEF Slots, NextSlot

LEMMA InitInv == Init => Inv
<1> SUFFICES ASSUME Init PROVE Inv
  OBVIOUS
<1>1. TypeOK
  <2>1. /\ e \in {0, 1} /\ sW \in {0, 1} /\ sR \in [Slots -> {0, 1}]
        /\ pendingReads \in [Slots -> [Consumers -> Int]]
        /\ nextConsume \in [Consumers -> Slots]
        /\ nextWriteIndex \in Slots
        /\ waitForDeposit \in Nat /\ waitForRead \in [Slots -> Nat]
        /\ nW \in Int /\ nR \in [Slots -> Int]
    BY SlotFacts DEF Init
  <2>2. /\ buffer \in [Slots -> Items \cup {NoItem}]
        /\ datum \in [Consumers -> Items \cup {NoItem}]
        /\ done \in [Threads -> Nat]
        /\ slot \in [Threads -> Slots]
        /\ created \in BOOLEAN /\ freed \in BOOLEAN
    BY SlotFacts DEF Init
  <2>3. pc \in [Threads -> {"call", "check", "asleep", "enter", "index", "access",
                           "leave", "commit"}]
    BY DEF Init
  <2>4. /\ deposited \in Seq(Items)
        /\ received \in [Consumers -> Seq(Items \cup {NoItem})]
    BY DEF Init
  <2>5. QED
    BY <2>1, <2>2, <2>3, <2>4 DEF TypeOK
<1>2. MutualExclusion
  BY DEF Init, MutualExclusion, Holds, Threads
<1>3. BatonNotLost
  BY DEF Init, BatonNotLost
<1>4. QED
  BY <1>1, <1>2, <1>3 DEF Inv

(***************************************************************************)
(* The two ways the baton moves.  A thread that does not hold it takes it  *)
(* from a semaphore that is up, or the holder puts it in a semaphore.      *)
(***************************************************************************)
LEMMA TakeE ==
  ASSUME Inv, NEW t \in Threads, e > 0, e' = e - 1, UNCHANGED <<sW, sR>>,
         NEW l \in {"check", "commit"}, Goto(t, l)
  PROVE  /\ e' \in {0, 1} /\ sW' \in {0, 1} /\ sR' \in [Slots -> {0, 1}]
         /\ pc' \in [Threads -> Labels]
         /\ MutualExclusion' /\ BatonNotLost'
<1> USE DEF Inv, TypeOK, MutualExclusion, BatonNotLost, Holds, Goto, Labels
<1>1. e = 1 /\ e' = 0 /\ sW = 0 /\ \A i \in Slots : sR[i] = 0
  OBVIOUS
<1>2. \A u \in Threads : pc[u] \notin {"check", "enter", "commit"}
  BY <1>1
<1>3. /\ pc' \in [Threads -> Labels]
      /\ pc'[t] \in {"check", "enter", "commit"}
      /\ \A u \in Threads : u # t => pc'[u] = pc[u]
  OBVIOUS
<1>4. QED
  BY <1>1, <1>2, <1>3

LEMMA TakeW ==
  ASSUME Inv, NEW t \in Threads, sW > 0, sW' = sW - 1, UNCHANGED <<e, sR>>,
         Goto(t, "enter")
  PROVE  /\ e' \in {0, 1} /\ sW' \in {0, 1} /\ sR' \in [Slots -> {0, 1}]
         /\ pc' \in [Threads -> Labels]
         /\ MutualExclusion' /\ BatonNotLost'
<1> USE DEF Inv, TypeOK, MutualExclusion, BatonNotLost, Holds, Goto, Labels
<1>1. sW = 1 /\ sW' = 0 /\ e = 0 /\ \A i \in Slots : sR[i] = 0
  OBVIOUS
<1>2. \A u \in Threads : pc[u] \notin {"check", "enter", "commit"}
  BY <1>1
<1>3. /\ pc' \in [Threads -> Labels]
      /\ pc'[t] = "enter"
      /\ \A u \in Threads : u # t => pc'[u] = pc[u]
  OBVIOUS
<1>4. QED
  BY <1>1, <1>2, <1>3

LEMMA TakeR ==
  ASSUME Inv, NEW t \in Threads, NEW i \in Slots, sR[i] > 0,
         sR' = [sR EXCEPT ![i] = @ - 1], UNCHANGED <<e, sW>>,
         Goto(t, "enter")
  PROVE  /\ e' \in {0, 1} /\ sW' \in {0, 1} /\ sR' \in [Slots -> {0, 1}]
         /\ pc' \in [Threads -> Labels]
         /\ MutualExclusion' /\ BatonNotLost'
<1> USE DEF Inv, TypeOK, MutualExclusion, BatonNotLost, Holds, Goto, Labels
<1>1. sR[i] = 1 /\ e = 0 /\ sW = 0 /\ \A j \in Slots : j # i => sR[j] = 0
  OBVIOUS
<1>2. sR' \in [Slots -> {0, 1}] /\ \A j \in Slots : sR'[j] = 0
  BY <1>1
<1>3. \A u \in Threads : pc[u] \notin {"check", "enter", "commit"}
  BY <1>1
<1>4. /\ pc' \in [Threads -> Labels]
      /\ pc'[t] = "enter"
      /\ \A u \in Threads : u # t => pc'[u] = pc[u]
  OBVIOUS
<1>5. QED
  BY <1>1, <1>2, <1>3, <1>4

LEMMA GiveE ==
  ASSUME Inv, NEW t \in Threads, Holds(t), e' = e + 1, UNCHANGED <<sW, sR>>,
         NEW l \in {"call", "asleep", "index", "access"}, Goto(t, l)
  PROVE  /\ e' \in {0, 1} /\ sW' \in {0, 1} /\ sR' \in [Slots -> {0, 1}]
         /\ pc' \in [Threads -> Labels]
         /\ MutualExclusion' /\ BatonNotLost'
<1> USE DEF Inv, TypeOK, MutualExclusion, BatonNotLost, Holds, Goto, Labels
<1>1. e' = 1 /\ sW' = 0 /\ \A i \in Slots : sR'[i] = 0
  OBVIOUS
<1>2. pc' \in [Threads -> Labels]
      /\ \A u \in Threads : pc'[u] \notin {"check", "enter", "commit"}
  OBVIOUS
<1>3. QED
  BY <1>1, <1>2

LEMMA SignalGives ==
  ASSUME Inv, NEW t \in Threads, Holds(t), SIGNAL,
         NEW l \in {"call", "asleep", "index", "access"}, Goto(t, l)
  PROVE  /\ e' \in {0, 1} /\ sW' \in {0, 1} /\ sR' \in [Slots -> {0, 1}]
         /\ pc' \in [Threads -> Labels]
         /\ waitForDeposit' \in Nat /\ waitForRead' \in [Slots -> Nat]
         /\ MutualExclusion' /\ BatonNotLost'
<1>1. e = 0 /\ sW = 0 /\ \A i \in Slots : sR[i] = 0
  BY DEF Inv, MutualExclusion
<1>2. /\ pc' \in [Threads -> Labels]
      /\ \A u \in Threads : pc'[u] \notin {"check", "enter", "commit"}
  BY DEF Inv, TypeOK, MutualExclusion, Holds, Goto, Labels
<1>3. CASE \E i \in Slots : WakeReader(i)
  <2>1. PICK i \in Slots : WakeReader(i)
    BY <1>3
  <2>2. /\ sR' \in [Slots -> {0, 1}] /\ sR'[i] = 1
        /\ \A j \in Slots : j # i => sR'[j] = 0
    BY <1>1, <2>1 DEF WakeReader, Inv, TypeOK
  <2>3. waitForDeposit' \in Nat /\ waitForRead' \in [Slots -> Nat]
    BY <2>1 DEF WakeReader, CanWakeReader, Inv, TypeOK
  <2>4. e' = 0 /\ sW' = 0
    BY <1>1, <2>1 DEF WakeReader
  <2>5. QED
    BY <1>2, <2>2, <2>3, <2>4 DEF MutualExclusion, BatonNotLost, Holds
<1>4. CASE WakeWriter
  <2>1. /\ e' = 0 /\ sW' = 1 /\ sR' = sR
        /\ waitForDeposit' \in Nat /\ waitForRead' \in [Slots -> Nat]
    BY <1>1, <1>4 DEF WakeWriter, CanWakeWriter, Inv, TypeOK
  <2>2. QED
    BY <1>1, <1>2, <2>1 DEF MutualExclusion, BatonNotLost, Holds, Inv, TypeOK
<1>5. CASE Release
  BY <1>5, GiveE DEF Release, waits, Inv, TypeOK
<1>6. QED
  BY <1>3, <1>4, <1>5 DEF SIGNAL

(***************************************************************************)
(* Every step preserves Inv.  The part of TypeOK that is not the baton's.  *)
(***************************************************************************)
Rest ==
  /\ pendingReads \in [Slots -> [Consumers -> Int]]
  /\ nextConsume \in [Consumers -> Slots]
  /\ nextWriteIndex \in Slots
  /\ nW \in Int /\ nR \in [Slots -> Int]
  /\ buffer \in [Slots -> Items \cup {NoItem}]
  /\ slot \in [Threads -> Slots]
  /\ datum \in [Consumers -> Items \cup {NoItem}]
  /\ done \in [Threads -> Nat]
  /\ created \in BOOLEAN /\ freed \in BOOLEAN
  /\ deposited \in Seq(Items)
  /\ received \in [Consumers -> Seq(Items \cup {NoItem})]

Baton ==
  /\ e \in {0, 1} /\ sW \in {0, 1} /\ sR \in [Slots -> {0, 1}]
  /\ pc \in [Threads -> Labels]
  /\ waitForDeposit \in Nat /\ waitForRead \in [Slots -> Nat]
  /\ MutualExclusion /\ BatonNotLost

LEMMA InvParts == Inv <=> Rest /\ Baton
  BY DEF Inv, TypeOK, Rest, Baton, Labels

LEMMA PrimedParts == Rest' /\ Baton' => Inv'
  BY DEF Inv, TypeOK, Rest, Baton, Labels

LEMMA ProducerInv ==
  ASSUME Inv, NEW p \in Producers, ProducerStep(p)
  PROVE  Inv'
<1> p \in Threads
  BY DEF Threads
<1>r. Rest /\ Baton
  BY InvParts
<1>1. CASE Acquire(p)
  <2>1. PICK l \in {"check", "commit"} : Goto(p, l)
    BY <1>1 DEF Acquire
  <2>2. Baton'
    BY <1>1, <1>r, <2>1, TakeE DEF Acquire, Baton, waits
  <2>3. Rest'
    BY <1>1, <1>r DEF Acquire, Rest, shape, hist
  <2>4. QED
    BY <2>2, <2>3, PrimedParts
<1>2. CASE DepositCheck(p)
  <2>1. Rest'
    BY <1>2, <1>r DEF DepositCheck, Rest, shape, hist
  <2>2. CASE Free(nextWriteIndex)
    <3>1. Goto(p, "enter") /\ UNCHANGED <<e, sW, sR, waitForDeposit, waitForRead>>
      BY <1>2, <2>2 DEF DepositCheck
    <3>2. \A u \in Threads : Holds(u)' <=> Holds(u)
      BY <1>2, <1>r, <3>1 DEF DepositCheck, Goto, Holds, Baton
    <3>3. pc' \in [Threads -> Labels]
      BY <1>r, <3>1 DEF Baton, Goto, Labels
    <3>4. Baton'
      BY <1>r, <3>1, <3>2, <3>3 DEF Baton, MutualExclusion, BatonNotLost
    <3>5. QED
      BY <2>1, <3>4, PrimedParts
  <2>3. CASE ~Free(nextWriteIndex)
    <3>1. /\ Goto(p, "asleep") /\ e' = e + 1 /\ UNCHANGED <<sW, sR>>
          /\ waitForDeposit' = waitForDeposit + 1 /\ UNCHANGED waitForRead
      BY <1>2, <2>3 DEF DepositCheck
    <3>2. Holds(p)
      BY <1>2 DEF DepositCheck, Holds
    <3>3. Baton'
      BY <1>r, <3>1, <3>2, GiveE DEF Baton
    <3>4. QED
      BY <2>1, <3>3, PrimedParts
  <2>4. QED
    BY <2>2, <2>3
<1>3. CASE DepositWake(p)
  <2>1. Baton'
    BY <1>3, <1>r, TakeW DEF DepositWake, Baton, waits
  <2>2. Rest'
    BY <1>3, <1>r DEF DepositWake, Rest, shape, hist
  <2>3. QED
    BY <2>1, <2>2, PrimedParts
<1>4. CASE DepositEnter(p)
  <2>1. Baton'
    BY <1>4, <1>r, SignalGives DEF DepositEnter, Baton, Holds
  <2>2. Rest'
    BY <1>4, <1>r DEF DepositEnter, Rest, shape, hist
  <2>3. QED
    BY <2>1, <2>2, PrimedParts
<1>5. CASE DepositIndex(p)
  <2>1. /\ UNCHANGED <<e, sW, sR, waitForDeposit, waitForRead>>
        /\ pc' \in [Threads -> Labels]
        /\ \A u \in Threads : Holds(u)' <=> Holds(u)
    BY <1>5, <1>r DEF DepositIndex, Goto, Holds, Baton, Labels, sems, waits
  <2>2. Baton'
    BY <1>r, <2>1 DEF Baton, MutualExclusion, BatonNotLost
  <2>3. Rest'
    BY <1>5, <1>r DEF DepositIndex, Rest, shape, hist
  <2>4. QED
    BY <2>2, <2>3, PrimedParts
<1>6. CASE DepositStore(p)
  <2>1. /\ UNCHANGED <<e, sW, sR, waitForDeposit, waitForRead>>
        /\ pc' \in [Threads -> Labels]
        /\ \A u \in Threads : Holds(u)' <=> Holds(u)
    BY <1>6, <1>r DEF DepositStore, Goto, Holds, Baton, Labels, sems, waits
  <2>2. Baton'
    BY <1>r, <2>1 DEF Baton, MutualExclusion, BatonNotLost
  <2>3. <<p, done[p]>> \in Items
    BY <1>r DEF Rest, Items
  <2>4. Rest'
    BY <1>6, <1>r, <2>3 DEF DepositStore, Rest, shape, hist
  <2>5. QED
    BY <2>2, <2>4, PrimedParts
<1>7. CASE DepositCommit(p)
  <2>1. Baton'
    BY <1>7, <1>r, SignalGives DEF DepositCommit, Baton, Holds
  <2>2. <<p, done[p]>> \in Items
    BY <1>r DEF Rest, Items
  <2>3. deposited' \in Seq(Items) /\ received' = received
    BY <1>7, <1>r, <2>2 DEF DepositCommit, Rest
  <2>4. /\ pendingReads' \in [Slots -> [Consumers -> Int]]
        /\ nextWriteIndex' \in Slots
        /\ nW' \in Int /\ nR' = nR /\ nextConsume' = nextConsume
        /\ done' \in [Threads -> Nat]
    BY <1>7, <1>r, SlotFacts DEF DepositCommit, Rest
  <2>5. Rest'
    BY <1>7, <1>r, <2>3, <2>4 DEF DepositCommit, Rest
  <2>6. QED
    BY <2>1, <2>5, PrimedParts
<1>8. QED
  BY <1>1, <1>2, <1>3, <1>4, <1>5, <1>6, <1>7 DEF ProducerStep

LEMMA ConsumerInv ==
  ASSUME Inv, NEW c \in Consumers, ConsumerStep(c)
  PROVE  Inv'
<1> c \in Threads
  BY DEF Threads
<1>r. Rest /\ Baton
  BY InvParts
<1>1. CASE Acquire(c)
  <2>1. PICK l \in {"check", "commit"} : Goto(c, l)
    BY <1>1 DEF Acquire
  <2>2. Baton'
    BY <1>1, <1>r, <2>1, TakeE DEF Acquire, Baton, waits
  <2>3. Rest'
    BY <1>1, <1>r DEF Acquire, Rest, shape, hist
  <2>4. QED
    BY <2>2, <2>3, PrimedParts
<1>2. CASE ConsumeCheck(c)
  <2>1. nextConsume[c] \in Slots /\ NextSlot(nextConsume[c]) \in Slots
    BY <1>r, SlotFacts DEF Rest
  <2>2. Rest'
    BY <1>2, <1>r, <2>1 DEF ConsumeCheck, Rest, hist
  <2>3. CASE pendingReads[nextConsume[c]][c] = 0
    <3>1. /\ Goto(c, "asleep") /\ e' = e + 1 /\ UNCHANGED <<sW, sR>>
          /\ waitForRead' = [waitForRead EXCEPT ![nextConsume[c]] = @ + 1]
          /\ UNCHANGED waitForDeposit
      BY <1>2, <2>3 DEF ConsumeCheck
    <3>2. Holds(c)
      BY <1>2 DEF ConsumeCheck, Holds
    <3>3. Baton'
      BY <1>r, <2>1, <3>1, <3>2, GiveE DEF Baton
    <3>4. QED
      BY <2>2, <3>3, PrimedParts
  <2>4. CASE pendingReads[nextConsume[c]][c] # 0
    <3>1. Goto(c, "enter") /\ UNCHANGED <<e, sW, sR, waitForDeposit, waitForRead>>
      BY <1>2, <2>4 DEF ConsumeCheck
    <3>2. /\ pc' \in [Threads -> Labels]
          /\ \A u \in Threads : Holds(u)' <=> Holds(u)
      BY <1>2, <1>r, <3>1 DEF ConsumeCheck, Goto, Holds, Baton, Labels
    <3>3. Baton'
      BY <1>r, <3>1, <3>2 DEF Baton, MutualExclusion, BatonNotLost
    <3>4. QED
      BY <2>2, <3>3, PrimedParts
  <2>5. QED
    BY <2>3, <2>4
<1>3. CASE ConsumeWake(c)
  <2>1. slot[c] \in Slots
    BY <1>r DEF Rest
  <2>2. Baton'
    BY <1>3, <1>r, <2>1, TakeR DEF ConsumeWake, Baton, waits
  <2>3. Rest'
    BY <1>3, <1>r DEF ConsumeWake, Rest, shape, hist
  <2>4. QED
    BY <2>2, <2>3, PrimedParts
<1>4. CASE ConsumeEnter(c)
  <2>1. Baton'
    BY <1>4, <1>r, SignalGives DEF ConsumeEnter, Baton, Holds
  <2>2. Rest'
    BY <1>4, <1>r DEF ConsumeEnter, Rest, shape, hist
  <2>3. QED
    BY <2>1, <2>2, PrimedParts
<1>5. CASE ConsumeLoad(c)
  <2>1. /\ UNCHANGED <<e, sW, sR, waitForDeposit, waitForRead>>
        /\ pc' \in [Threads -> Labels]
        /\ \A u \in Threads : Holds(u)' <=> Holds(u)
    BY <1>5, <1>r DEF ConsumeLoad, Goto, Holds, Baton, Labels, sems, waits
  <2>2. Baton'
    BY <1>r, <2>1 DEF Baton, MutualExclusion, BatonNotLost
  <2>3. buffer[slot[c]] \in Items \cup {NoItem}
    BY <1>r DEF Rest
  <2>4. Rest'
    BY <1>5, <1>r, <2>3 DEF ConsumeLoad, Rest, shape, hist
  <2>5. QED
    BY <2>2, <2>4, PrimedParts
<1>6. CASE ConsumeCommit(c)
  <2>1. Baton'
    BY <1>6, <1>r, SignalGives DEF ConsumeCommit, Baton, Holds
  <2>2. Append(received[c], datum[c]) \in Seq(Items \cup {NoItem})
    BY <1>r DEF Rest
  <2>3. /\ pendingReads' \in [Slots -> [Consumers -> Int]]
        /\ nR' \in [Slots -> Int]
        /\ done' \in [Threads -> Nat]
    BY <1>6, <1>r DEF ConsumeCommit, Rest
  <2>4. received' \in [Consumers -> Seq(Items \cup {NoItem})]
    <3>1. received' = [received EXCEPT ![c] = Append(received[c], datum[c])]
      BY <1>6 DEF ConsumeCommit
    <3>2. QED
      BY <1>r, <2>2, <3>1 DEF Rest
  <2>5. Rest'
    BY <1>6, <1>r, <2>3, <2>4 DEF ConsumeCommit, Rest
  <2>6. QED
    BY <2>1, <2>5, PrimedParts
<1>7. QED
  BY <1>1, <1>2, <1>3, <1>4, <1>5, <1>6 DEF ConsumerStep

LEMMA StepInv == Inv /\ [Next]_vars => Inv'
<1> SUFFICES ASSUME Inv, [Next]_vars PROVE Inv'
  OBVIOUS
<1>1. CASE \E p \in Producers : ProducerStep(p)
  BY <1>1, ProducerInv
<1>2. CASE \E c \in Consumers : ConsumerStep(c)
  BY <1>2, ConsumerInv
<1>3. CASE Create \/ JoinAndFree
  <2>1. /\ UNCHANGED <<sems, shape, waits, nW, nR, buffer, pc, slot, datum, done, hist>>
        /\ created' \in BOOLEAN /\ freed' \in BOOLEAN
    BY <1>3 DEF Create, JoinAndFree, Inv, TypeOK
  <2>2. TypeOK'
    BY <2>1 DEF Inv, TypeOK, sems, shape, waits, hist
  <2>3. MutualExclusion' /\ BatonNotLost'
    BY <2>1 DEF Inv, MutualExclusion, BatonNotLost, Holds, sems
  <2>4. QED
    BY <2>2, <2>3 DEF Inv
<1>4. CASE UNCHANGED vars
  BY <1>4 DEF vars, Inv, TypeOK, MutualExclusion, BatonNotLost, Holds
<1>5. QED
  BY <1>1, <1>2, <1>3, <1>4 DEF Next, Finished

(* Every variable of the buffer keeps its type for every N, P and C; the
   semaphores of lbuf_create stay binary. *)
THEOREM TypeCorrect == Spec => []TypeOK
<1>1. Inv => TypeOK
  BY DEF Inv
<1>2. QED
  BY InitInv, StepInv, <1>1, PTL DEF Spec

(* The code between sem_wait and SIGNAL is a critical section, however many
   producers and consumers there are. *)
THEOREM BatonExcludes == Spec => []MutualExclusion
<1>1. Inv => MutualExclusion
  BY DEF Inv
<1>2. QED
  BY InitInv, StepInv, <1>1, PTL DEF Spec

(* No path of lbuf_deposit, lbuf_consume or SIGNAL loses the baton. *)
THEOREM BatonSurvives == Spec => []BatonNotLost
<1>1. Inv => BatonNotLost
  BY DEF Inv
<1>2. QED
  BY InitInv, StepInv, <1>1, PTL DEF Spec

-----------------------------------------------------------------------------
(* The counters that SIGNAL trusts are exact for every number of positions,
   producers and consumers: waitForDeposit and waitForRead with the posts not
   yet taken count the threads in sem_wait, nW and nR the threads between their
   two critical sections. *)
One(b) == IF b THEN 1 ELSE 0

(* Where thread t counts. *)
SleepsW(t) == t \in Producers /\ pc[t] = "asleep"
SleepsR(t, i) == t \in Consumers /\ pc[t] = "asleep" /\ slot[t] = i
IsActive(t) == pc[t] \in {"index", "access", "leave", "commit"}
ActiveW(t) == t \in Producers /\ IsActive(t)
ActiveR(t, i) == t \in Consumers /\ IsActive(t) /\ slot[t] = i

Counted == SleepersCounted /\ ActiveCounted

(* A set that gains or loses at most t. *)
LEMMA OneMember ==
  ASSUME NEW S, IsFiniteSet(S), NEW A \in SUBSET S, NEW B \in SUBSET S, NEW t,
         A \ {t} = B \ {t}
  PROVE  /\ Cardinality(A) \in Nat
         /\ Cardinality(B) = Cardinality(A) + One(t \in B) - One(t \in A)
<1>1. /\ IsFiniteSet(A) /\ IsFiniteSet(B)
      /\ Cardinality(A) \in Nat /\ Cardinality(B) \in Nat
  BY FS_Subset, FS_CardinalityType
<1>2. \A C \in SUBSET S : Cardinality(C \ {t}) = Cardinality(C) - One(t \in C)
  <2> SUFFICES ASSUME NEW C \in SUBSET S
               PROVE  Cardinality(C \ {t}) = Cardinality(C) - One(t \in C)
    OBVIOUS
  <2>1. IsFiniteSet(C) /\ Cardinality(C) \in Nat
    BY FS_Subset, FS_CardinalityType
  <2>2. Cardinality(C \ {t}) = IF t \in C THEN Cardinality(C) - 1 ELSE Cardinality(C)
    BY <2>1, FS_RemoveElement
  <2> QED
    BY <2>1, <2>2 DEF One
<1> QED
  BY <1>1, <1>2 DEF One

(* When only thread t moves, the counters are right if they follow it. *)
LEMMA CountsFollow ==
  ASSUME Inv, Counted, NEW t \in Threads,
         \A u \in Threads \ {t} : pc'[u] = pc[u] /\ slot'[u] = slot[u],
         waitForDeposit' + sW' = waitForDeposit + sW
                                   + One(SleepsW(t)') - One(SleepsW(t)),
         \A i \in Slots : waitForRead'[i] + sR'[i] = waitForRead[i] + sR[i]
                                   + One(SleepsR(t, i)') - One(SleepsR(t, i)),
         nW' = nW + One(ActiveW(t)') - One(ActiveW(t)),
         \A i \in Slots : nR'[i] = nR[i] + One(ActiveR(t, i)') - One(ActiveR(t, i))
  PROVE  Counted'
<1> USE BufferAssumption
<1>1. waitForDeposit' + sW' = Cardinality({p \in Producers : pc'[p] = "asleep"})
  <2> DEFINE A == {p \in Producers : pc[p] = "asleep"}
             B == {p \in Producers : pc'[p] = "asleep"}
  <2>1. A \ {t} = B \ {t} /\ (t \in A <=> SleepsW(t)) /\ (t \in B <=> SleepsW(t)')
    BY DEF SleepsW, Threads
  <2>2. Cardinality(B) = Cardinality(A) + One(t \in B) - One(t \in A)
    <3>1. A \in SUBSET Producers /\ B \in SUBSET Producers
      OBVIOUS
    <3> HIDE DEF A, B
    <3> QED
      BY <2>1, <3>1, OneMember
  <2>3. waitForDeposit + sW = Cardinality(A)
    BY DEF Counted, SleepersCounted
  <2> HIDE DEF A, B
  <2>4. waitForDeposit' + sW' = Cardinality(B)
    BY <2>1, <2>2, <2>3 DEF One
  <2> QED
    BY <2>4 DEF B
<1>2. ASSUME NEW i \in Slots
      PROVE  waitForRead'[i] + sR'[i] = Cardinality(Sleepers(i)')
  <2> DEFINE A == {c \in Consumers : pc[c] = "asleep" /\ slot[c] = i}
             B == {c \in Consumers : pc'[c] = "asleep" /\ slot'[c] = i}
  <2>1. A \ {t} = B \ {t} /\ (t \in A <=> SleepsR(t, i)) /\ (t \in B <=> SleepsR(t, i)')
    BY DEF SleepsR, Threads
  <2>2. Cardinality(B) = Cardinality(A) + One(t \in B) - One(t \in A)
    <3>1. A \in SUBSET Consumers /\ B \in SUBSET Consumers
      OBVIOUS
    <3> HIDE DEF A, B
    <3> QED
      BY <2>1, <3>1, OneMember
  <2>3. waitForRead[i] + sR[i] = Cardinality(A)
    BY DEF Counted, SleepersCounted, Sleepers
  <2>4. B = Sleepers(i)'
    BY DEF Sleepers
  <2> HIDE DEF A, B
  <2> QED
    BY <2>1, <2>2, <2>3, <2>4 DEF One
<1>3. nW' = Cardinality(Active(Producers)')
  <2> DEFINE A == {p \in Producers : IsActive(p)}
             B == {p \in Producers : IsActive(p)'}
  <2>1. A \ {t} = B \ {t} /\ (t \in A <=> ActiveW(t)) /\ (t \in B <=> ActiveW(t)')
    BY DEF ActiveW, IsActive, Threads
  <2>2. Cardinality(B) = Cardinality(A) + One(t \in B) - One(t \in A)
    <3>1. A \in SUBSET Producers /\ B \in SUBSET Producers
      OBVIOUS
    <3> HIDE DEF A, B
    <3> QED
      BY <2>1, <3>1, OneMember
  <2>3. nW = Cardinality(A) /\ B = Active(Producers)'
    BY DEF Counted, ActiveCounted, Active, IsActive
  <2> HIDE DEF A, B
  <2> QED
    BY <2>1, <2>2, <2>3 DEF One
<1>4. ASSUME NEW i \in Slots
      PROVE  nR'[i] = Cardinality({c \in Active(Consumers)' : slot'[c] = i})
  <2> DEFINE A == {c \in Consumers : IsActive(c) /\ slot[c] = i}
             B == {c \in Consumers : IsActive(c)' /\ slot'[c] = i}
  <2>1. A \ {t} = B \ {t} /\ (t \in A <=> ActiveR(t, i)) /\ (t \in B <=> ActiveR(t, i)')
    BY DEF ActiveR, IsActive, Threads
  <2>2. Cardinality(B) = Cardinality(A) + One(t \in B) - One(t \in A)
    <3>1. A \in SUBSET Consumers /\ B \in SUBSET Consumers
      OBVIOUS
    <3> HIDE DEF A, B
    <3> QED
      BY <2>1, <3>1, OneMember
  <2>3. A = {c \in Active(Consumers) : slot[c] = i}
    BY DEF Active, IsActive
  <2>4. nR[i] = Cardinality(A)
    BY <2>3 DEF Counted, ActiveCounted
  <2>5. B = {c \in Active(Consumers)' : slot'[c] = i}
    BY DEF Active, IsActive
  <2> HIDE DEF A, B
  <2> QED
    BY <2>1, <2>2, <2>4, <2>5 DEF One
<1> QED
  BY <1>1, <1>2, <1>3, <1>4 DEF Counted, SleepersCounted, ActiveCounted

LEMMA CounterTypes ==
  ASSUME Inv
  PROVE  /\ pc \in [Threads -> Labels] /\ slot \in [Threads -> Slots]
         /\ waitForDeposit \in Nat /\ waitForRead \in [Slots -> Nat]
         /\ sW \in Nat /\ sR \in [Slots -> Nat] /\ nW \in Int /\ nR \in [Slots -> Int]
         /\ nextConsume \in [Consumers -> Slots]
<1>1. TypeOK
  BY DEF Inv
<1>2. sR \in [Slots -> {0, 1}] /\ {0, 1} \subseteq Nat
  BY <1>1 DEF TypeOK
<1>3. sR \in [Slots -> Nat]
  BY <1>2
<1> QED
  BY <1>1, <1>3 DEF TypeOK, Labels

(* A post of SIGNAL takes the thread that it wakes out of the waiting ones. *)
LEMMA SignalSums ==
  ASSUME Inv, SIGNAL
  PROVE  /\ waitForDeposit' + sW' = waitForDeposit + sW
         /\ \A i \in Slots : waitForRead'[i] + sR'[i] = waitForRead[i] + sR[i]
<1>0. /\ waitForDeposit \in Int /\ sW \in Int
      /\ \A i \in Slots : waitForRead[i] \in Int /\ sR[i] \in Int
      /\ \A i \in Slots : i \in DOMAIN waitForRead /\ i \in DOMAIN sR
  BY CounterTypes
<1>1. CASE \E i \in Slots : WakeReader(i)
  <2>1. PICK i \in Slots : WakeReader(i)
    BY <1>1
  <2>2. /\ waitForRead'[i] = waitForRead[i] - 1 /\ sR'[i] = sR[i] + 1
        /\ \A j \in Slots \ {i} : waitForRead'[j] = waitForRead[j] /\ sR'[j] = sR[j]
        /\ UNCHANGED <<sW, waitForDeposit>>
    BY <1>0, <2>1 DEF WakeReader
  <2>3. ASSUME NEW j \in Slots
        PROVE  waitForRead'[j] + sR'[j] = waitForRead[j] + sR[j]
    <3>1. CASE j = i
      BY <1>0, <2>2, <3>1
    <3>2. CASE j # i
      BY <2>2, <3>2
    <3> QED
      BY <3>1, <3>2
  <2> QED
    BY <2>2, <2>3
<1>2. CASE WakeWriter
  BY <1>0, <1>2 DEF WakeWriter
<1>3. CASE Release
  BY <1>3 DEF Release, waits
<1> QED
  BY <1>1, <1>2, <1>3 DEF SIGNAL

LEMMA ProducerCounts ==
  ASSUME Inv, Counted, NEW p \in Producers, ProducerStep(p)
  PROVE  Counted'
<1> USE DEF Goto
<1>1. /\ p \in Threads /\ p \notin Consumers
      /\ pc \in [Threads -> Labels] /\ slot \in [Threads -> Slots]
      /\ waitForDeposit \in Nat /\ waitForRead \in [Slots -> Nat]
      /\ sW \in Nat /\ sR \in [Slots -> Nat] /\ nW \in Int /\ nR \in [Slots -> Int]
  BY BufferAssumption, CounterTypes DEF Threads
<1>2. \A i \in Slots : /\ One(SleepsR(p, i)') = 0 /\ One(SleepsR(p, i)) = 0
                       /\ One(ActiveR(p, i)') = 0 /\ One(ActiveR(p, i)) = 0
  BY <1>1 DEF One, SleepsR, ActiveR
<1>3. One(SleepsW(p)) = (IF pc[p] = "asleep" THEN 1 ELSE 0)
      /\ One(SleepsW(p)') = (IF pc'[p] = "asleep" THEN 1 ELSE 0)
      /\ One(ActiveW(p)) = (IF IsActive(p) THEN 1 ELSE 0)
      /\ One(ActiveW(p)') = (IF IsActive(p)' THEN 1 ELSE 0)
  BY DEF One, SleepsW, ActiveW
<1>4. SUFFICES
        /\ \A u \in Threads \ {p} : pc'[u] = pc[u] /\ slot'[u] = slot[u]
        /\ waitForDeposit' + sW' = waitForDeposit + sW
             + (IF pc'[p] = "asleep" THEN 1 ELSE 0) - (IF pc[p] = "asleep" THEN 1 ELSE 0)
        /\ \A i \in Slots : waitForRead'[i] + sR'[i] = waitForRead[i] + sR[i]
        /\ nW' = nW + (IF IsActive(p)' THEN 1 ELSE 0) - (IF IsActive(p) THEN 1 ELSE 0)
        /\ \A i \in Slots : nR'[i] = nR[i]
  <2>1. \A i \in Slots : waitForRead[i] + sR[i] \in Int /\ nR[i] \in Int
    BY <1>1
  <2>2. \A i \in Slots :
          /\ waitForRead'[i] + sR'[i] = waitForRead[i] + sR[i]
               + One(SleepsR(p, i)') - One(SleepsR(p, i))
          /\ nR'[i] = nR[i] + One(ActiveR(p, i)') - One(ActiveR(p, i))
    BY <1>2, <2>1
  <2>3. /\ waitForDeposit' + sW' = waitForDeposit + sW
              + One(SleepsW(p)') - One(SleepsW(p))
        /\ nW' = nW + One(ActiveW(p)') - One(ActiveW(p))
    BY <1>3
  <2> QED
    BY <1>1, <2>2, <2>3, CountsFollow
<1> USE DEF IsActive
<1>5. CASE Acquire(p)
  BY <1>1, <1>5 DEF Acquire, waits
<1>6. CASE DepositCheck(p)
  BY <1>1, <1>6 DEF DepositCheck
<1>7. CASE DepositWake(p)
  BY <1>1, <1>7 DEF DepositWake, waits
<1>8. CASE DepositEnter(p)
  BY <1>1, <1>8, SignalSums DEF DepositEnter
<1>9. CASE DepositIndex(p)
  BY <1>1, <1>9 DEF DepositIndex, sems, waits
<1>10. CASE DepositStore(p)
  BY <1>1, <1>10 DEF DepositStore, sems, waits
<1>11. CASE DepositCommit(p)
  BY <1>1, <1>11, SignalSums DEF DepositCommit
<1> QED
  BY <1>5, <1>6, <1>7, <1>8, <1>9, <1>10, <1>11 DEF ProducerStep

LEMMA ConsumerCounts ==
  ASSUME Inv, Counted, NEW c \in Consumers, ConsumerStep(c)
  PROVE  Counted'
<1> USE DEF Goto
<1>1. /\ c \in Threads /\ c \notin Producers
      /\ pc \in [Threads -> Labels] /\ slot \in [Threads -> Slots]
      /\ waitForDeposit \in Nat /\ waitForRead \in [Slots -> Nat]
      /\ sW \in Nat /\ sR \in [Slots -> Nat] /\ nW \in Int /\ nR \in [Slots -> Int]
      /\ nextConsume[c] \in Slots /\ slot[c] \in Slots
  BY BufferAssumption, CounterTypes DEF Threads
<1>2. /\ One(SleepsW(c)') = 0 /\ One(SleepsW(c)) = 0
      /\ One(ActiveW(c)') = 0 /\ One(ActiveW(c)) = 0
  BY <1>1 DEF One, SleepsW, ActiveW
<1>3. SUFFICES
        /\ \A u \in Threads \ {c} : pc'[u] = pc[u] /\ slot'[u] = slot[u]
        /\ waitForDeposit' + sW' = waitForDeposit + sW
        /\ \A i \in Slots : waitForRead'[i] + sR'[i] = waitForRead[i] + sR[i]
             + One(pc'[c] = "asleep" /\ slot'[c] = i) - One(pc[c] = "asleep" /\ slot[c] = i)
        /\ nW' = nW
        /\ \A i \in Slots : nR'[i] = nR[i]
             + One(IsActive(c)' /\ slot'[c] = i) - One(IsActive(c) /\ slot[c] = i)
  <2>1. \A i \in Slots :
          /\ SleepsR(c, i) <=> pc[c] = "asleep" /\ slot[c] = i
          /\ SleepsR(c, i)' <=> pc'[c] = "asleep" /\ slot'[c] = i
          /\ ActiveR(c, i) <=> IsActive(c) /\ slot[c] = i
          /\ ActiveR(c, i)' <=> IsActive(c)' /\ slot'[c] = i
    BY DEF SleepsR, ActiveR
  <2>2. \A i \in Slots : 
          /\ One(SleepsR(c, i)) = One(pc[c] = "asleep" /\ slot[c] = i)
          /\ One(SleepsR(c, i)') = One(pc'[c] = "asleep" /\ slot'[c] = i)
          /\ One(ActiveR(c, i)) = One(IsActive(c) /\ slot[c] = i)
          /\ One(ActiveR(c, i)') = One(IsActive(c)' /\ slot'[c] = i)
    BY <2>1 DEF One
  <2> QED
    BY <1>1, <1>2, <2>2, CountsFollow
<1> USE DEF IsActive, One
<1>4. CASE Acquire(c)
  BY <1>1, <1>4 DEF Acquire, waits
<1>5. CASE ConsumeCheck(c)
  BY <1>1, <1>5 DEF ConsumeCheck
<1>6. CASE ConsumeWake(c)
  BY <1>1, <1>6 DEF ConsumeWake, waits
<1>7. CASE ConsumeEnter(c)
  BY <1>1, <1>7, SignalSums DEF ConsumeEnter
<1>8. CASE ConsumeLoad(c)
  BY <1>1, <1>8 DEF ConsumeLoad, sems, waits
<1>9. CASE ConsumeCommit(c)
  BY <1>1, <1>9, SignalSums DEF ConsumeCommit
<1> QED
  BY <1>4, <1>5, <1>6, <1>7, <1>8, <1>9 DEF ConsumerStep

-----------------------------------------------------------------------------
LEMMA InitCounts == Init => Counted
<1> SUFFICES ASSUME Init PROVE Counted
  OBVIOUS
<1>1. /\ {p \in Producers : pc[p] = "asleep"} = {} /\ Active(Producers) = {}
      /\ \A i \in Slots : Sleepers(i) = {}
      /\ \A i \in Slots : {c \in Active(Consumers) : slot[c] = i} = {}
  BY DEF Init, Active, Sleepers, Threads
<1>2. /\ waitForDeposit + sW = 0 /\ nW = 0
      /\ \A i \in Slots : waitForRead[i] + sR[i] = 0 /\ nR[i] = 0
  BY DEF Init
<1>3. SleepersCounted
  BY <1>1, <1>2, FS_EmptySet DEF SleepersCounted
<1>4. ActiveCounted
  BY <1>1, <1>2, FS_EmptySet DEF ActiveCounted
<1> QED
  BY <1>3, <1>4 DEF Counted

LEMMA StepCounts == Inv /\ Counted /\ [Next]_vars => Counted'
<1> SUFFICES ASSUME Inv, Counted, [Next]_vars PROVE Counted'
  OBVIOUS
<1>1. CASE \E p \in Producers : ProducerStep(p)
  BY <1>1, ProducerCounts
<1>2. CASE \E c \in Consumers : ConsumerStep(c)
  BY <1>2, ConsumerCounts
<1>3. CASE UNCHANGED <<sems, waits, nW, nR, pc, slot>>
  BY <1>3 DEF Counted, SleepersCounted, ActiveCounted, Sleepers, Active, sems, waits
<1> QED
  BY <1>1, <1>2, <1>3 DEF Next, Create, JoinAndFree, Finished, vars, sems, waits

LEMMA AlwaysCounted == Spec => [](Inv /\ Counted)
<1>1. Init => Inv /\ Counted
  BY InitInv, InitCounts
<1>2. Inv /\ Counted /\ [Next]_vars => (Inv /\ Counted)'
  BY StepInv, StepCounts
<1> QED
  BY <1>1, <1>2, PTL DEF Spec

(* Between sem_post(&e) and the sem_wait that follows it no post is lost, and
   none is sent to a thread that does not wait: the waiting counters and the
   semaphores together are the number of sleepers. *)
THEOREM SleepersAreCounted == Spec => []SleepersCounted
<1>1. Inv /\ Counted => SleepersCounted
  BY DEF Counted
<1> QED
  BY <1>1, AlwaysCounted, PTL

(* nW and nR[i], by which SIGNAL decides, are the numbers of the threads that
   write and that read position i. *)
THEOREM ActiveAreCounted == Spec => []ActiveCounted
<1>1. Inv /\ Counted => ActiveCounted
  BY DEF Counted
<1> QED
  BY <1>1, AlwaysCounted, PTL

-----------------------------------------------------------------------------
(* One producer and one consumer: whatever the number of positions and of   *)
(* deposits, nothing unread is overwritten, nothing is read that was not    *)
(* deposited, and the buffer implements BroadcastBuffer.  The positions     *)
(* are those of a counter modulo N: done[Main] is the number of deposits    *)
(* committed, done[r] that of the reads of the consumer r.                  *)

USE BufferAssumption

Single(r) == Producers = {Main} /\ Consumers = {r}

(* The indices of the buffer and of the threads that are under way. *)
Pointers(r) ==
  /\ nextWriteIndex = done[Main] % N
  /\ pc[Main] \in {"access", "leave", "commit"} => slot[Main] = done[Main] % N
  /\ pc[r] \in {"call", "check"} => nextConsume[r] = done[r] % N
  /\ pc[r] \notin {"call", "check"} =>
       nextConsume[r] = (done[r] + 1) % N /\ slot[r] = done[r] % N

(* What is deposited and not read is pending, and nothing else. *)
Pending(r) ==
  /\ done[r] <= done[Main] /\ done[Main] <= done[r] + N
  /\ \A k \in Nat :
       done[r] <= k /\ k < done[Main] => pendingReads[k % N][r] = 1
  /\ \A k \in Nat :
       done[Main] <= k /\ k < done[r] + N => pendingReads[k % N][r] = 0

(* Who passed the await condition, or was woken, may go on. *)
Admitted(r) ==
  /\ pc[Main] \in {"enter", "index", "access", "leave", "commit"} \/ sW = 1
       => done[Main] < done[r] + N
  /\ pc[r] \in {"enter", "access", "leave", "commit"} \/ (\E i \in Slots : sR[i] = 1)
       => done[r] < done[Main]

(* The data on their way through the buffer. *)
Contents(r) ==
  /\ \A k \in Nat :
       done[r] <= k /\ k < done[Main] => buffer[k % N] = <<Main, k>>
  /\ pc[Main] \in {"leave", "commit"} => buffer[done[Main] % N] = <<Main, done[Main]>>
  /\ pc[r] \in {"leave", "commit"} => datum[r] = <<Main, done[r]>>

(* The deposits and the reads are the first numbers, in order. *)
Histories(r) ==
  /\ Len(deposited) = done[Main] /\ Len(received[r]) = done[r]
  /\ \A k \in 1 .. done[Main] : deposited[k] = <<Main, k - 1>>
  /\ \A k \in 1 .. done[r] : received[r][k] = <<Main, k - 1>>

InQuota ==
  \A t \in Threads : /\ done[t] <= Quota(t)
                     /\ pc[t] # "call" => done[t] < Quota(t)

Ring(r) == Pointers(r) /\ Pending(r) /\ Admitted(r) /\ Contents(r)
             /\ Histories(r) /\ InQuota

-----------------------------------------------------------------------------
(* The ring. *)

LEMMA InRing == \A k \in Nat : k % N \in Slots
BY DEF Slots

LEMMA NextInRing == \A k \in Nat : NextSlot(k % N) = (k + 1) % N
<1> SUFFICES ASSUME NEW k \in Nat PROVE NextSlot(k % N) = (k + 1) % N
  OBVIOUS
<1> DEFINE q == k \div N
           m == k % N
<1>1. q \in Nat /\ m \in 0 .. (N - 1) /\ k = q * N + m
  OBVIOUS
<1> HIDE DEF q, m
<1>2. CASE m + 1 = N
  <2>1. k + 1 = (q + 1) * N + 0
    BY <1>1, <1>2
  <2>2. (k + 1) % N = 0
    BY <1>1, <2>1
  <2> QED
    BY <1>2, <2>2 DEF NextSlot, m
<1>3. CASE m + 1 < N
  <2>1. k + 1 = q * N + (m + 1)
    BY <1>1
  <2>2. (k + 1) % N = m + 1
    BY <1>1, <1>3, <2>1
  <2> QED
    BY <1>1, <1>3, <2>2 DEF NextSlot, m
<1> QED
  BY <1>1, <1>2, <1>3

LEMMA Around == \A k \in Nat : (k + N) % N = k % N
<1> SUFFICES ASSUME NEW k \in Nat PROVE (k + N) % N = k % N
  OBVIOUS
<1> DEFINE q == k \div N
           m == k % N
<1>1. q \in Nat /\ m \in 0 .. (N - 1) /\ k = q * N + m
  OBVIOUS
<1> HIDE DEF q, m
<1>2. k + N = (q + 1) * N + m
  BY <1>1
<1>3. (k + N) % N = m
  BY <1>1, <1>2
<1> QED
  BY <1>3 DEF m

(* Numbers less than N apart have different positions. *)
LEMMA Apart ==
  ASSUME NEW a \in Nat, NEW b \in Nat, a < b, b < a + N
  PROVE  a % N # b % N
<1> SUFFICES ASSUME a % N = b % N PROVE FALSE
  OBVIOUS
<1> DEFINE q == a \div N
           s == b \div N
           m == a % N
<1>1. /\ q \in Nat /\ s \in Nat /\ m \in 0 .. (N - 1)
      /\ a = q * N + m /\ b = s * N + m
  OBVIOUS
<1> HIDE DEF q, s, m
<1>2. b - a = (s - q) * N /\ s - q \in Int
  BY <1>1
<1>3. CASE s - q <= 0
  <2>1. (s - q) * N <= 0
    BY <1>2, <1>3
  <2> QED
    BY <1>2, <2>1
<1>4. CASE s - q >= 1
  <2>1. (s - q) * N >= N
    BY <1>2, <1>4
  <2> QED
    BY <1>2, <2>1
<1> QED
  BY <1>2, <1>3, <1>4

-----------------------------------------------------------------------------
(* Facts about the two threads, and about SIGNAL. *)

LEMMA Two ==
  ASSUME Inv, NEW r, Single(r)
  PROVE  /\ Main \in Producers /\ r \in Consumers /\ Main # r
         /\ Threads = {Main, r} /\ Producers = {Main} /\ Consumers = {r}
         /\ done[Main] \in Nat /\ done[r] \in Nat
         /\ done \in [Threads -> Nat] /\ pc \in [Threads -> Labels]
         /\ slot \in [Threads -> Slots] /\ sR \in [Slots -> {0, 1}]
         /\ pendingReads \in [Slots -> [Consumers -> Int]]
BY DEF Single, Threads, Inv, TypeOK, Labels

LEMMA QuotaTyped ==
  ASSUME NEW r, Single(r)
  PROVE  Quota(Main) = (IF D < N THEN N ELSE D) /\ Quota(r) = D
         /\ Quota(Main) \in Nat /\ Quota(r) \in Nat
<1>1. Cardinality(Producers) = 1
  BY FS_Singleton DEF Single
<1>2. r \in Consumers /\ Main \notin Consumers
  BY DEF Single
<1>3. D * Cardinality(Producers) = D
  BY <1>1
<1> QED
  BY <1>2, <1>3 DEF Quota

(* A reader that SIGNAL wakes sleeps, and for that position. *)
LEMMA WokenSleeps ==
  ASSUME Inv, Counted, NEW r, Single(r), NEW i \in Slots,
         waitForRead[i] > 0 \/ sR[i] > 0
  PROVE  pc[r] = "asleep" /\ slot[r] = i
<1>1. waitForRead[i] \in Nat /\ sR[i] \in Nat
  BY CounterTypes
<1>2. waitForRead[i] + sR[i] = Cardinality(Sleepers(i))
  BY DEF Counted, SleepersCounted
<1>3. Sleepers(i) # {}
  BY <1>1, <1>2, FS_EmptySet
<1> QED
  BY <1>3 DEF Sleepers, Single

(* The await condition of a deposit, in terms of the counters. *)
LEMMA FreeMeansRoom ==
  ASSUME Inv, NEW r, Single(r), Pending(r),
         pendingReads[done[Main] % N][r] = 0
  PROVE  done[Main] < done[r] + N
<1>1. done[Main] \in Nat /\ done[r] \in Nat
  BY Two
<1>2. CASE done[Main] = done[r] + N
  <2>1. pendingReads[done[r] % N][r] = 1
    BY <1>1, <1>2 DEF Pending
  <2>2. done[Main] % N = done[r] % N
    BY <1>1, <1>2, Around
  <2> QED
    BY <2>1, <2>2
<1> QED
  BY <1>1, <1>2 DEF Pending

(* Steps that leave the buffer and the indices as they are. *)
LEMMA Moves ==
  ASSUME Inv, NEW r, Single(r), Ring(r), Admitted(r)',
         UNCHANGED <<shape, buffer, slot, datum, done, hist>>,
         pc'[Main] \in {"access", "leave", "commit"} =>
           pc[Main] \in {"access", "leave", "commit"},
         pc'[Main] \in {"leave", "commit"} => pc[Main] \in {"leave", "commit"},
         pc'[r] \in {"leave", "commit"} => pc[r] \in {"leave", "commit"},
         pc'[r] \in {"call", "check"} <=> pc[r] \in {"call", "check"},
         \A t \in Threads : pc'[t] # "call" => pc[t] # "call" \/ done[t] < Quota(t)
  PROVE  Ring(r)'
<1> USE DEF Ring, shape, hist
<1>1. Pointers(r)'
  BY DEF Pointers
<1>2. Pending(r)'
  BY DEF Pending
<1>3. Contents(r)'
  BY DEF Contents
<1>4. Histories(r)'
  BY DEF Histories
<1>5. InQuota'
  BY DEF InQuota, Quota
<1> QED
  BY <1>1, <1>2, <1>3, <1>4, <1>5

(* What SIGNAL may post: a reader that waits is woken when nobody writes, a *)
(* depositor when its position is free.                                     *)
LEMMA Posts ==
  ASSUME Inv, NEW r, Single(r), SIGNAL
  PROVE  /\ \A i \in Slots : sR'[i] = 1 => sR[i] = 1 \/ (nW' = 0 /\ waitForRead[i] > 0)
         /\ sW' = 1 => sW = 1 \/ (nW' = 0 /\ pendingReads'[nextWriteIndex'][r] = 0)
<1>1. sR \in [Slots -> {0, 1}] /\ r \in Consumers
  BY Two
<1>2. CASE \E i \in Slots : WakeReader(i)
  BY <1>1, <1>2 DEF WakeReader, CanWakeReader
<1>3. CASE WakeWriter
  BY <1>1, <1>3 DEF WakeWriter, CanWakeWriter
<1>4. CASE Release
  BY <1>4 DEF Release
<1> QED
  BY <1>2, <1>3, <1>4 DEF SIGNAL

-----------------------------------------------------------------------------
(* The steps of the producer. *)

LEMMA AcquireRing ==
  ASSUME Inv, NEW r, Single(r), Ring(r), NEW t \in {Main, r}, Acquire(t)
  PROVE  Ring(r)'
<1>1. PICK l \in {"check", "commit"} :
        /\ pc' = [pc EXCEPT ![t] = l]
        /\ l = "check" => pc[t] = "call" /\ done[t] < Quota(t)
        /\ l = "commit" => pc[t] = "leave"
  BY DEF Acquire, Goto
<1>2. UNCHANGED <<sW, sR, shape, buffer, slot, datum, done, hist>>
  BY DEF Acquire
<1>3. Admitted(r)'
  BY <1>1, <1>2, Two DEF Ring, Admitted
<1> QED
  BY <1>1, <1>2, <1>3, Two, Moves

LEMMA DepositCheckRing ==
  ASSUME Inv, NEW r, Single(r), Ring(r), DepositCheck(Main)
  PROVE  Ring(r)'
<1>1. /\ pc[Main] = "check"
      /\ UNCHANGED <<sW, sR, shape, buffer, slot, datum, done, hist>>
  BY DEF DepositCheck
<1>2. CASE Free(nextWriteIndex)
  <2>1. pc' = [pc EXCEPT ![Main] = "enter"]
    BY <1>2 DEF DepositCheck, Goto
  <2>2. done[Main] < done[r] + N
    BY <1>2, Two, FreeMeansRoom DEF Free, Ring, Pointers
  <2>3. Admitted(r)'
    BY <1>1, <2>1, <2>2, Two DEF Ring, Admitted
  <2> QED
    BY <1>1, <2>1, <2>3, Two, Moves
<1>3. CASE ~Free(nextWriteIndex)
  <2>1. pc' = [pc EXCEPT ![Main] = "asleep"]
    BY <1>3 DEF DepositCheck, Goto
  <2>2. Admitted(r)'
    BY <1>1, <2>1, Two DEF Ring, Admitted
  <2> QED
    BY <1>1, <2>1, <2>2, Two, Moves
<1> QED
  BY <1>2, <1>3

LEMMA DepositWakeRing ==
  ASSUME Inv, NEW r, Single(r), Ring(r), DepositWake(Main)
  PROVE  Ring(r)'
<1>1. /\ pc[Main] = "asleep" /\ pc' = [pc EXCEPT ![Main] = "enter"]
      /\ sW > 0 /\ sW' = sW - 1
      /\ UNCHANGED <<sR, shape, buffer, slot, datum, done, hist>>
  BY DEF DepositWake, Goto
<1>2. sW = 1 /\ sW' = 0
  BY <1>1 DEF Inv, TypeOK
<1>3. Admitted(r)'
  BY <1>1, <1>2, Two DEF Ring, Admitted
<1> QED
  BY <1>1, <1>3, Two, Moves

(* The writer counts itself in first: SIGNAL wakes nobody. *)
LEMMA DepositEnterRing ==
  ASSUME Inv, Counted, NEW r, Single(r), Ring(r), DepositEnter(Main)
  PROVE  Ring(r)'
<1>1. /\ pc[Main] = "enter" /\ pc' = [pc EXCEPT ![Main] = "index"]
      /\ UNCHANGED <<shape, buffer, slot, datum, done, hist>>
      /\ SIGNAL /\ nW' = nW + 1
  BY DEF DepositEnter, Goto
<1>2. nW' # 0
  <2>1. IsFiniteSet(Active(Producers)) /\ Cardinality(Active(Producers)) \in Nat
    BY FS_Subset, FS_CardinalityType DEF Active
  <2> QED
    BY <1>1, <2>1 DEF Counted, ActiveCounted
<1>3. Admitted(r)'
  BY <1>1, <1>2, Two, Posts DEF Ring, Admitted
<1> QED
  BY <1>1, <1>3, Two, Moves

LEMMA DepositIndexRing ==
  ASSUME Inv, NEW r, Single(r), Ring(r), DepositIndex(Main)
  PROVE  Ring(r)'
<1> USE DEF Ring
<1>1. /\ pc[Main] = "index" /\ pc' = [pc EXCEPT ![Main] = "access"]
      /\ slot' = [slot EXCEPT ![Main] = nextWriteIndex]
      /\ UNCHANGED <<sW, sR, shape, buffer, datum, done, hist>>
  BY DEF DepositIndex, Goto, sems
<1>2. /\ pc'[Main] = "access" /\ pc'[r] = pc[r]
      /\ slot'[Main] = nextWriteIndex /\ slot'[r] = slot[r]
  BY <1>1, Two
<1>3. Pointers(r)'
  BY <1>1, <1>2 DEF Pointers, shape
<1>4. Pending(r)'
  BY <1>1 DEF Pending, shape
<1>5. Admitted(r)'
  BY <1>1, <1>2 DEF Admitted
<1>6. Contents(r)'
  BY <1>1, <1>2 DEF Contents
<1>7. Histories(r)'
  BY <1>1 DEF Histories, hist
<1>8. InQuota'
  BY <1>1, Two DEF InQuota, Quota
<1> QED
  BY <1>3, <1>4, <1>5, <1>6, <1>7, <1>8

(* The position of the next deposit is none of those that are to be read. *)
LEMMA DepositStoreRing ==
  ASSUME Inv, NEW r, Single(r), Ring(r), DepositStore(Main)
  PROVE  Ring(r)'
<1> USE DEF Ring
<1>1. /\ pc[Main] = "access" /\ pc' = [pc EXCEPT ![Main] = "leave"]
      /\ buffer' = [buffer EXCEPT ![slot[Main]] = <<Main, done[Main]>>]
      /\ UNCHANGED <<sW, sR, shape, slot, datum, done, hist>>
  BY DEF DepositStore, Goto, sems
<1>2. /\ pc'[Main] = "leave" /\ pc'[r] = pc[r]
      /\ slot[Main] = done[Main] % N
      /\ done[Main] < done[r] + N
  BY <1>1, Two DEF Pointers, Admitted
<1>3. Pointers(r)'
  BY <1>1, <1>2 DEF Pointers, shape
<1>4. Pending(r)'
  BY <1>1 DEF Pending, shape
<1>5. Admitted(r)'
  BY <1>1, <1>2 DEF Admitted
<1>6. Contents(r)'
  <2>1. buffer \in [Slots -> Items \cup {NoItem}] /\ done[Main] % N \in Slots
    BY Two, InRing DEF Inv, TypeOK
  <2>2. buffer'[done[Main] % N] = <<Main, done[Main]>>
    BY <1>1, <1>2, <2>1
  <2>3. ASSUME NEW k \in Nat, done[r] <= k, k < done[Main]
        PROVE  buffer'[k % N] = <<Main, k>>
    <3>1. k % N # done[Main] % N
      <4>1. done[Main] \in Nat /\ done[r] \in Nat
        BY Two
      <4>2. done[Main] < k + N
        BY <1>2, <2>3, <4>1
      <4> QED
        BY <2>3, <4>1, <4>2, Apart
    <3>2. buffer'[k % N] = buffer[k % N]
      BY <1>1, <1>2, <2>1, <2>3, <3>1, InRing
    <3> QED
      BY <2>3, <3>2 DEF Contents
  <2> QED
    BY <1>1, <1>2, <2>2, <2>3 DEF Contents
<1>7. Histories(r)'
  BY <1>1 DEF Histories, hist
<1>8. InQuota'
  BY <1>1, Two DEF InQuota, Quota
<1> QED
  BY <1>3, <1>4, <1>5, <1>6, <1>7, <1>8

LEMMA DepositCommitRing ==
  ASSUME Inv, Counted, NEW r, Single(r), Ring(r), DepositCommit(Main)
  PROVE  Ring(r)'
<1> USE DEF Ring
<1> DEFINE d == done[Main]
           q == done[r]
<1>1. /\ pc[Main] = "commit" /\ pc' = [pc EXCEPT ![Main] = "call"]
      /\ pendingReads' = [pendingReads EXCEPT ![slot[Main]] = [c \in Consumers |-> 1]]
      /\ nextWriteIndex' = NextSlot(nextWriteIndex)
      /\ done' = [done EXCEPT ![Main] = @ + 1]
      /\ deposited' = Append(deposited, <<Main, done[Main]>>)
      /\ SIGNAL
      /\ UNCHANGED <<nextConsume, buffer, slot, datum, received>>
  BY DEF DepositCommit, Goto
<1>2. /\ pc'[Main] = "call" /\ pc'[r] = pc[r]
      /\ d \in Nat /\ q \in Nat /\ done'[Main] = d + 1 /\ done'[r] = q
      /\ slot[Main] = d % N /\ d % N \in Slots
      /\ q <= d /\ d < q + N
  BY <1>1, Two, InRing DEF Pointers, Pending, Admitted
<1>3. sW = 0 /\ \A i \in Slots : sR[i] = 0
  BY <1>1, Two DEF Inv, MutualExclusion, Holds
<1> HIDE DEF d, q
<1>4. Pointers(r)'
  BY <1>1, <1>2, NextInRing DEF Pointers, d, q
<1>5. Pending(r)'
  <2>1. pendingReads'[d % N][r] = 1
    BY <1>1, <1>2, Two
  <2>2. \A i \in Slots : i # d % N => pendingReads'[i][r] = pendingReads[i][r]
    BY <1>1, <1>2, Two
  <2>3. ASSUME NEW k \in Nat, q <= k, k < d + 1
        PROVE  pendingReads'[k % N][r] = 1
    <3>1. CASE k = d
      BY <2>1, <3>1
    <3>2. CASE k < d
      <4>1. k % N \in Slots /\ pendingReads[k % N][r] = 1
        BY <2>3, <3>2, InRing DEF Pending, d, q
      <4>2. k % N # d % N
        BY <1>2, <2>3, <3>2, Apart
      <4> QED
        BY <2>2, <4>1, <4>2
    <3> QED
      BY <1>2, <2>3, <3>1, <3>2
  <2>4. ASSUME NEW k \in Nat, d + 1 <= k, k < q + N
        PROVE  pendingReads'[k % N][r] = 0
    <3>1. k % N \in Slots /\ pendingReads[k % N][r] = 0
      BY <1>2, <2>4, InRing DEF Pending, d, q
    <3>2. d % N # k % N
      <4>1. d < k /\ k < d + N
        BY <1>2, <2>4
      <4> QED
        BY <1>2, <4>1, Apart
    <3> QED
      BY <2>2, <3>1, <3>2
  <2> QED
    BY <1>2, <2>3, <2>4 DEF Pending, d, q
<1>6. Admitted(r)'
  <2>1. q < d + 1
    BY <1>2
  <2>2. ASSUME sW' = 1 PROVE d + 1 < q + N
    <3>1. pendingReads'[(d + 1) % N][r] = 0
      <4>1. nextWriteIndex' = (d + 1) % N
        BY <1>2, <1>4 DEF Pointers
      <4> QED
        BY <1>1, <1>3, <2>2, <4>1, Posts
    <3>2. CASE d + 1 = q + N
      <4>1. pendingReads'[q % N][r] = 1
        BY <1>2, <1>5 DEF Pending
      <4>2. (d + 1) % N = q % N
        BY <1>2, <3>2, Around
      <4> QED
        BY <3>1, <4>1, <4>2
    <3> QED
      BY <1>2, <3>2
  <2> QED
    BY <1>2, <2>1, <2>2 DEF Admitted
<1>7. Contents(r)'
  <2>1. buffer[d % N] = <<Main, d>>
    BY <1>1 DEF Contents, d
  <2>2. ASSUME NEW k \in Nat, q <= k, k < d + 1
        PROVE  buffer[k % N] = <<Main, k>>
    <3>1. CASE k = d
      BY <2>1, <3>1
    <3>2. CASE k < d
      BY <2>2, <3>2 DEF Contents, d, q
    <3> QED
      BY <1>2, <2>2, <3>1, <3>2
  <2> QED
    BY <1>1, <1>2, <2>2 DEF Contents, d, q
<1>8. Histories(r)'
  <2>1. deposited \in Seq(Items) /\ Len(deposited) = d
    BY DEF Inv, TypeOK, Histories, d
  <2>2. <<Main, d>> \in Items
    BY <1>2, Two DEF Items
  <2>3. /\ Len(deposited') = d + 1 /\ deposited'[d + 1] = <<Main, d>>
        /\ \A k \in 1 .. d : deposited'[k] = deposited[k]
    BY <1>1, <2>1, <2>2 DEF d
  <2>4. ASSUME NEW k \in 1 .. (d + 1) PROVE deposited'[k] = <<Main, k - 1>>
    <3>1. CASE k = d + 1
      BY <1>2, <2>3, <3>1
    <3>2. CASE k \in 1 .. d
      BY <2>3, <3>2 DEF Histories, d
    <3> QED
      BY <1>2, <3>1, <3>2
  <2> QED
    BY <1>1, <1>2, <2>3, <2>4 DEF Histories, d, q
<1>9. InQuota'
  <2>1. d < Quota(Main) /\ Quota(Main) \in Nat
    BY <1>1, Two, QuotaTyped DEF InQuota, d
  <2>2. done'[Main] <= Quota(Main)
    BY <1>2, <2>1
  <2> QED
    BY <1>1, <1>2, <2>2, Two DEF InQuota, Quota, q
<1> QED
  BY <1>4, <1>5, <1>6, <1>7, <1>8, <1>9

-----------------------------------------------------------------------------
(* The steps of the consumer. *)

LEMMA ConsumeCheckRing ==
  ASSUME Inv, NEW r, Single(r), Ring(r), ConsumeCheck(r)
  PROVE  Ring(r)'
<1> USE DEF Ring
<1> DEFINE d == done[Main]
           q == done[r]
<1>1. /\ pc[r] = "check" /\ nextConsume[r] = q % N
      /\ slot' = [slot EXCEPT ![r] = nextConsume[r]]
      /\ nextConsume' = [nextConsume EXCEPT ![r] = NextSlot(@)]
      /\ UNCHANGED <<sW, sR, pendingReads, nextWriteIndex, buffer, datum, done, hist>>
  BY DEF ConsumeCheck, Pointers
<1>2. /\ d \in Nat /\ q \in Nat /\ q <= d /\ d <= q + N /\ q % N \in Slots
      /\ slot'[r] = q % N /\ slot'[Main] = slot[Main]
  BY <1>1, Two, InRing DEF Pending
<1>3. nextConsume'[r] = (q + 1) % N
  BY <1>1, <1>2, Two, NextInRing DEF Inv, TypeOK
<1>4. /\ pc'[Main] = pc[Main] /\ pc' \in [Threads -> Labels]
      /\ \/ pc'[r] = "asleep"
         \/ pc'[r] = "enter" /\ pendingReads[q % N][r] # 0
  BY <1>1, Two DEF ConsumeCheck, Goto, Labels
<1> HIDE DEF d, q
<1>5. Pointers(r)'
  BY <1>1, <1>2, <1>3, <1>4 DEF Pointers, d, q
<1>6. Pending(r)'
  BY <1>1 DEF Pending
<1>7. Admitted(r)'
  <2>1. ASSUME pc'[r] = "enter" PROVE q < d
    <3>1. CASE q = d
      <4>1. q < q + N
        BY <1>2
      <4>2. pendingReads[q % N][r] = 0
        BY <1>2, <3>1, <4>1 DEF Pending, d, q
      <4> QED
        BY <1>4, <2>1, <4>2
    <3> QED
      BY <1>2, <3>1
  <2> QED
    BY <1>1, <1>4, <2>1 DEF Admitted, d, q
<1>8. Contents(r)'
  BY <1>1, <1>4 DEF Contents
<1>9. Histories(r)'
  BY <1>1 DEF Histories, hist
<1>10. InQuota'
  BY <1>1, <1>4, Two DEF InQuota, Quota
<1> QED
  BY <1>5, <1>6, <1>7, <1>8, <1>9, <1>10

LEMMA ConsumeWakeRing ==
  ASSUME Inv, NEW r, Single(r), Ring(r), ConsumeWake(r)
  PROVE  Ring(r)'
<1>1. /\ pc[r] = "asleep" /\ pc' = [pc EXCEPT ![r] = "enter"]
      /\ sR[slot[r]] > 0 /\ sR' = [sR EXCEPT ![slot[r]] = @ - 1]
      /\ UNCHANGED <<sW, shape, buffer, slot, datum, done, hist>>
  BY DEF ConsumeWake, Goto
<1>2. slot[r] \in Slots /\ sR[slot[r]] = 1
  BY <1>1, Two
<1>3. Admitted(r)'
  <2>1. done[r] < done[Main]
    BY <1>2 DEF Ring, Admitted
  <2> QED
    BY <1>1, <2>1, Two DEF Ring, Admitted
<1> QED
  BY <1>1, <1>3, Two, Moves

LEMMA ConsumeEnterRing ==
  ASSUME Inv, NEW r, Single(r), Ring(r), ConsumeEnter(r)
  PROVE  Ring(r)'
<1>1. /\ pc[r] = "enter" /\ pc' = [pc EXCEPT ![r] = "access"]
      /\ UNCHANGED <<shape, buffer, slot, datum, done, hist>> /\ SIGNAL
  BY DEF ConsumeEnter, Goto
<1>2. /\ done[r] < done[Main]
      /\ sW' = 1 => done[Main] < done[r] + N
  <2>1. ASSUME pendingReads'[nextWriteIndex'][r] = 0
        PROVE  done[Main] < done[r] + N
    BY <1>1, <2>1, FreeMeansRoom DEF shape, Ring, Pointers
  <2> QED
    BY <1>1, <2>1, Posts DEF Ring, Admitted
<1>3. Admitted(r)'
  BY <1>1, <1>2, Two DEF Ring, Admitted
<1> QED
  BY <1>1, <1>3, Two, Moves

LEMMA ConsumeLoadRing ==
  ASSUME Inv, NEW r, Single(r), Ring(r), ConsumeLoad(r)
  PROVE  Ring(r)'
<1> USE DEF Ring
<1>1. /\ pc[r] = "access" /\ pc' = [pc EXCEPT ![r] = "leave"]
      /\ datum' = [datum EXCEPT ![r] = buffer[slot[r]]]
      /\ UNCHANGED <<sW, sR, shape, slot, buffer, done, hist>>
  BY DEF ConsumeLoad, Goto, sems
<1>2. /\ pc'[r] = "leave" /\ pc'[Main] = pc[Main]
      /\ slot[r] = done[r] % N /\ done[r] < done[Main]
  BY <1>1, Two DEF Pointers, Admitted
<1>3. datum'[r] = <<Main, done[r]>>
  <2>1. buffer[done[r] % N] = <<Main, done[r]>>
    <3>1. done[r] \in Nat /\ done[r] <= done[r]
      BY Two
    <3> QED
      BY <1>2, <3>1 DEF Contents
  <2> QED
    BY <1>1, <1>2, <2>1, Two DEF Inv, TypeOK
<1>4. Pointers(r)'
  BY <1>1, <1>2 DEF Pointers, shape
<1>5. Pending(r)'
  BY <1>1 DEF Pending, shape
<1>6. Admitted(r)'
  BY <1>1, <1>2 DEF Admitted
<1>7. Contents(r)'
  BY <1>1, <1>2, <1>3 DEF Contents
<1>8. Histories(r)'
  BY <1>1 DEF Histories, hist
<1>9. InQuota'
  BY <1>1, Two DEF InQuota, Quota
<1> QED
  BY <1>4, <1>5, <1>6, <1>7, <1>8, <1>9

(* Nobody waits to read: the only consumer is the one that signals. *)
LEMMA ConsumeCommitRing ==
  ASSUME Inv, Counted, NEW r, Single(r), Ring(r), ConsumeCommit(r)
  PROVE  Ring(r)'
<1> USE DEF Ring
<1> DEFINE d == done[Main]
           q == done[r]
<1>1. /\ pc[r] = "commit" /\ pc' = [pc EXCEPT ![r] = "call"]
      /\ pendingReads' = [pendingReads EXCEPT ![slot[r]][r] = @ - 1]
      /\ done' = [done EXCEPT ![r] = @ + 1]
      /\ received' = [received EXCEPT ![r] = Append(@, datum[r])]
      /\ SIGNAL
      /\ UNCHANGED <<nextConsume, nextWriteIndex, buffer, slot, datum, deposited>>
  BY DEF ConsumeCommit, Goto
<1>2. /\ pc'[r] = "call" /\ pc'[Main] = pc[Main]
      /\ d \in Nat /\ q \in Nat /\ done'[r] = q + 1 /\ done'[Main] = d
      /\ slot[r] = q % N /\ q % N \in Slots
      /\ q < d /\ d <= q + N
      /\ nextConsume[r] = (q + 1) % N
  BY <1>1, Two, InRing DEF Pointers, Pending, Admitted
<1>3. \A i \in Slots : sR'[i] # 1
  <2>1. \A i \in Slots : ~(waitForRead[i] > 0 \/ sR[i] > 0)
    BY <1>1, WokenSleeps
  <2> QED
    BY <1>1, <2>1, Posts
<1> HIDE DEF d, q
<1>4. Pointers(r)'
  BY <1>1, <1>2 DEF Pointers, d, q
<1>5. Pending(r)'
  <2>1. pendingReads[q % N][r] = 1
    BY <1>2 DEF Pending, d, q
  <2>2. /\ pendingReads'[q % N][r] = 0
        /\ \A i \in Slots : i # q % N => pendingReads'[i][r] = pendingReads[i][r]
    BY <1>1, <1>2, <2>1, Two
  <2>3. ASSUME NEW k \in Nat, q + 1 <= k, k < d
        PROVE  pendingReads'[k % N][r] = 1
    <3>1. k % N \in Slots /\ pendingReads[k % N][r] = 1
      BY <1>2, <2>3, InRing DEF Pending, d, q
    <3>2. k % N # q % N
      <4>1. q < k /\ k < q + N
        BY <1>2, <2>3
      <4> QED
        BY <1>2, <4>1, Apart
    <3> QED
      BY <2>2, <3>1, <3>2
  <2>4. ASSUME NEW k \in Nat, d <= k, k < q + 1 + N
        PROVE  pendingReads'[k % N][r] = 0
    <3>1. CASE k = q + N
      BY <1>2, <2>2, <3>1, Around
    <3>2. CASE k < q + N
      <4>1. k % N \in Slots /\ pendingReads[k % N][r] = 0
        BY <2>4, <3>2, InRing DEF Pending, d, q
      <4>2. k % N # q % N
        <5>1. q < k
          BY <1>2, <2>4
        <5> QED
          BY <1>2, <3>2, <5>1, Apart
      <4> QED
        BY <2>2, <4>1, <4>2
    <3> QED
      BY <1>2, <2>4, <3>1, <3>2
  <2> QED
    BY <1>2, <2>3, <2>4 DEF Pending, d, q
<1>6. Admitted(r)'
  BY <1>2, <1>3 DEF Admitted, d, q
<1>7. Contents(r)'
  <2>1. \A k \in Nat : q + 1 <= k /\ k < d => buffer[k % N] = <<Main, k>>
    BY <1>2 DEF Contents, d, q
  <2> QED
    BY <1>1, <1>2, <2>1 DEF Contents, d, q
<1>8. Histories(r)'
  <2>1. received[r] \in Seq(Items \cup {NoItem}) /\ Len(received[r]) = q
    BY Two DEF Inv, TypeOK, Histories, q
  <2>2. datum[r] = <<Main, q>> /\ datum[r] \in Items \cup {NoItem}
    BY <1>1, Two DEF Inv, TypeOK, Contents, q
  <2>3. received'[r] = Append(received[r], datum[r])
    BY <1>1, Two DEF Inv, TypeOK
  <2>4. /\ Len(received'[r]) = q + 1 /\ received'[r][q + 1] = <<Main, q>>
        /\ \A k \in 1 .. q : received'[r][k] = received[r][k]
    BY <1>2, <2>1, <2>2, <2>3
  <2>5. ASSUME NEW k \in 1 .. (q + 1) PROVE received'[r][k] = <<Main, k - 1>>
    <3>1. CASE k = q + 1
      BY <1>2, <2>4, <3>1
    <3>2. CASE k \in 1 .. q
      BY <2>4, <3>2 DEF Histories, q
    <3> QED
      BY <1>2, <3>1, <3>2
  <2> QED
    BY <1>1, <1>2, <2>4, <2>5 DEF Histories, d, q
<1>9. InQuota'
  <2>1. q < Quota(r) /\ Quota(r) \in Nat
    BY <1>1, Two, QuotaTyped DEF InQuota, q
  <2>2. done'[r] <= Quota(r)
    BY <1>2, <2>1
  <2> QED
    BY <1>1, <1>2, <2>2, Two DEF InQuota, Quota, d
<1> QED
  BY <1>4, <1>5, <1>6, <1>7, <1>8, <1>9

-----------------------------------------------------------------------------
LEMMA InitRing ==
  ASSUME Init, NEW r, Single(r)
  PROVE  Ring(r)
<1>1. /\ Main # r /\ r \in Consumers /\ Threads = {Main, r}
      /\ Quota(Main) \in Nat /\ Quota(r) \in Nat
  BY QuotaTyped DEF Single, Threads
<1>2. /\ done[Main] = 0 /\ done[r] = 0 /\ pc[Main] = "call" /\ pc[r] = "call"
      /\ nextConsume[r] = 0 /\ nextWriteIndex = 0 /\ sW = 0
      /\ \A i \in Slots : sR[i] = 0 /\ pendingReads[i][r] = 0
      /\ deposited = <<>> /\ received[r] = <<>>
  BY <1>1 DEF Init
<1>3. 0 % N = 0
  OBVIOUS
<1>4. Pointers(r)
  BY <1>2, <1>3 DEF Pointers
<1>5. Pending(r) /\ Admitted(r)
  <2>1. \A k \in Nat : pendingReads[k % N][r] = 0
    <3>1. \A k \in Nat : k % N \in Slots
      BY InRing
    <3> QED
      BY <1>2, <3>1
  <2>2. Pending(r)
    <3>1. done[r] <= done[Main] /\ done[Main] <= done[r] + N
      BY <1>2
    <3>2. \A k \in Nat : ~(done[r] <= k /\ k < done[Main])
      BY <1>2
    <3> QED
      BY <2>1, <3>1, <3>2 DEF Pending
  <2>3. Admitted(r)
    BY <1>2 DEF Admitted
  <2> QED
    BY <2>2, <2>3
<1>6. Contents(r) /\ Histories(r)
  BY <1>2 DEF Contents, Histories
<1>7. InQuota
  BY <1>1, <1>2 DEF InQuota
<1> QED
  BY <1>4, <1>5, <1>6, <1>7 DEF Ring

LEMMA StepRing ==
  ASSUME Inv, Counted, NEW r, Single(r), Ring(r), [Next]_vars
  PROVE  Ring(r)'
<1>1. CASE ProducerStep(Main)
  BY <1>1, AcquireRing, DepositCheckRing, DepositWakeRing, DepositEnterRing,
     DepositIndexRing, DepositStoreRing, DepositCommitRing DEF ProducerStep
<1>2. CASE ConsumerStep(r)
  BY <1>2, AcquireRing, ConsumeCheckRing, ConsumeWakeRing, ConsumeEnterRing,
     ConsumeLoadRing, ConsumeCommitRing DEF ConsumerStep
<1>3. CASE UNCHANGED <<sems, shape, buffer, pc, slot, datum, done, hist>>
  <2>1. Admitted(r)'
    BY <1>3 DEF Ring, Admitted, sems
  <2> QED
    BY <1>3, <2>1, Moves
<1> QED
  BY <1>1, <1>2, <1>3 DEF Next, Create, JoinAndFree, Finished, vars, sems, shape,
     hist, Single

LEMMA RingHolds ==
  ASSUME NEW r, Single(r)
  PROVE  Spec => [](Inv /\ Counted /\ Ring(r))
<1>1. Init => Ring(r)
  BY InitRing
<1>2. Inv /\ Counted /\ Ring(r) /\ [Next]_vars => Ring(r)'
  BY StepRing
<1> QED
  BY <1>1, <1>2, AlwaysCounted, PTL DEF Spec

(* With one consumer, pendingReads[readIndex][threadId] > 0 holds where the
   consumer loads, which with two it need not. *)
THEOREM SingleReadsPending ==
  ASSUME NEW r, Single(r)
  PROVE  Spec => []ReadsOnlyPending
<1>1. Inv /\ Ring(r) => ReadsOnlyPending
  <2> SUFFICES ASSUME Inv, Ring(r), pc[r] = "access"
               PROVE  pendingReads[slot[r]][r] > 0
    BY DEF ReadsOnlyPending, Single
  <2>1. slot[r] = done[r] % N /\ done[r] < done[Main]
    BY DEF Ring, Pointers, Admitted
  <2>2. done[r] \in Nat /\ done[r] <= done[r]
    BY Two
  <2>3. pendingReads[slot[r]][r] = 1
    BY <2>1, <2>2 DEF Ring, Pending
  <2> QED
    BY <2>3
<1> QED
  BY <1>1, RingHolds, PTL

(* With one producer, pendingReads[nextWriteIndex] == 0 still holds where the
   producer stores, outside the critical section that tested it. *)
THEOREM SingleWritesFree ==
  ASSUME NEW r, Single(r)
  PROVE  Spec => []WritesOnlyFree
<1>1. Inv /\ Ring(r) => WritesOnlyFree
  <2> SUFFICES ASSUME Inv, Ring(r), pc[Main] = "access"
               PROVE  pendingReads[slot[Main]][r] = 0
    BY DEF WritesOnlyFree, Free, Single
  <2>1. slot[Main] = done[Main] % N /\ done[Main] < done[r] + N
    BY DEF Ring, Pointers, Admitted
  <2>2. done[Main] \in Nat /\ done[Main] <= done[Main]
    BY Two
  <2> QED
    BY <2>1, <2>2 DEF Ring, Pending
<1> QED
  BY <1>1, RingHolds, PTL

(* After lbuf_free every thread has made all its operations. *)
AllJoined == freed => \A t \in Threads : Exited(t)

LEMMA JoinedStays == Inv /\ AllJoined /\ [Next]_vars => AllJoined'
<1> SUFFICES ASSUME Inv, AllJoined, [Next]_vars, freed'
             PROVE  (\A t \in Threads : Exited(t))'
  BY DEF AllJoined
<1>1. CASE JoinAndFree
  BY <1>1 DEF JoinAndFree, Exited, Quota
<1>2. CASE UNCHANGED <<freed, pc, done>>
  BY <1>2 DEF AllJoined, Exited, Quota
<1>3. ASSUME NEW t \in Threads, pc[t] # "call" \/ done[t] < Quota(t), freed
      PROVE  FALSE
  <2>1. /\ pc[t] = "call" /\ done[t] >= Quota(t)
        /\ done[t] \in Nat /\ Quota(t) \in Nat
    BY <1>3, FS_CardinalityType DEF AllJoined, Exited, Inv, TypeOK, Quota
  <2> QED
    BY <1>3, <2>1
<1>4. ASSUME NEW p \in Producers, ProducerStep(p) PROVE FALSE
  <2>1. p \in Threads /\ (pc[p] # "call" \/ done[p] < Quota(p))
    BY <1>4 DEF ProducerStep, Acquire, DepositCheck, DepositWake, DepositEnter,
       DepositIndex, DepositStore, DepositCommit, Threads
  <2>2. freed
    BY <1>4 DEF ProducerStep, Acquire, DepositCheck, DepositWake, DepositEnter,
       DepositIndex, DepositStore, DepositCommit
  <2> QED
    BY <1>3, <2>1, <2>2
<1>5. ASSUME NEW c \in Consumers, ConsumerStep(c) PROVE FALSE
  <2>1. c \in Threads /\ (pc[c] # "call" \/ done[c] < Quota(c))
    BY <1>5 DEF ConsumerStep, Acquire, ConsumeCheck, ConsumeWake, ConsumeEnter,
       ConsumeLoad, ConsumeCommit, Threads
  <2>2. freed
    BY <1>5 DEF ConsumerStep, Acquire, ConsumeCheck, ConsumeWake, ConsumeEnter,
       ConsumeLoad, ConsumeCommit
  <2> QED
    BY <1>3, <2>1, <2>2
<1> QED
  BY <1>1, <1>2, <1>4, <1>5 DEF Next, Create, Finished, vars

(* One consumer gets all the deposits of main, each once and in order. *)
THEOREM SingleDelivers ==
  ASSUME NEW r, Single(r)
  PROVE  Spec => []AllDelivered
<1>1. Init => AllJoined
  BY DEF Init, AllJoined
<1>2. Inv /\ Ring(r) /\ AllJoined => AllDelivered
  <2> SUFFICES ASSUME Inv, Ring(r), AllJoined, freed
               PROVE  received[r] = SubSeq(deposited, 1, Quota(r))
    BY DEF AllDelivered, Single
  <2>1. /\ done[r] \in Nat /\ done[Main] \in Nat /\ r \in Threads
        /\ Quota(r) \in Nat
    BY Two, QuotaTyped
  <2>2. done[r] = Quota(r) /\ done[r] <= done[Main]
    BY <2>1 DEF AllJoined, Exited, Ring, InQuota, Pending
  <2>3. /\ deposited \in Seq(Items) /\ Len(deposited) = done[Main]
        /\ received[r] \in Seq(Items \cup {NoItem}) /\ Len(received[r]) = done[r]
    BY Two DEF Inv, TypeOK, Ring, Histories
  <2>4. \A k \in 1 .. done[r] : received[r][k] = deposited[k]
    <3> SUFFICES ASSUME NEW k \in 1 .. done[r]
                 PROVE  received[r][k] = deposited[k]
      OBVIOUS
    <3>1. k \in 1 .. done[Main]
      BY <2>1, <2>2
    <3>2. received[r][k] = <<Main, k - 1>> /\ deposited[k] = <<Main, k - 1>>
      BY <3>1 DEF Ring, Histories
    <3> QED
      BY <3>2
  <2> DEFINE sub == SubSeq(deposited, 1, done[r])
  <2>5. /\ sub \in Seq(Items) /\ Len(sub) = done[r]
        /\ \A k \in 1 .. done[r] : sub[k] = deposited[k]
    BY <2>1, <2>2, <2>3
  <2> HIDE DEF sub
  <2>6. received[r] = sub
    BY <2>1, <2>3, <2>4, <2>5
  <2> QED
    BY <2>2, <2>6 DEF sub
<1> QED
  BY <1>1, <1>2, JoinedStays, RingHolds, PTL DEF Spec

(* The buffer implements BroadcastBuffer: the second critical sections are the
   deposits and the reads of the log, every other step is a stutter. *)
THEOREM SingleKeepsPromise ==
  ASSUME NEW r, Single(r)
  PROVE  Spec => PromiseKept
<1>1. Init => Promise!Init
  BY DEF Init, Promise!Init
<1>2. Inv /\ Ring(r) /\ [Next]_vars => [Promise!Next]_(Promise!vars)
  <2> SUFFICES ASSUME Inv, Ring(r), [Next]_vars,
                      ~UNCHANGED <<deposited, received>>
               PROVE  Promise!Next
    BY DEF Promise!vars
  <2>1. DepositCommit(Main) \/ ConsumeCommit(r)
    BY DEF Next, ProducerStep, ConsumerStep, Create, JoinAndFree, Finished, vars,
       Acquire, DepositCheck, DepositWake, DepositEnter, DepositIndex,
       DepositStore, ConsumeCheck, ConsumeWake, ConsumeEnter, ConsumeLoad, hist,
       Single
  <2>2. CASE DepositCommit(Main)
    <3> DEFINE x == <<Main, done[Main]>>
    <3>1. /\ pc[Main] = "commit" /\ deposited' = Append(deposited, x)
          /\ received' = received
      BY <2>2 DEF DepositCommit
    <3>2. \A c \in Consumers : Len(deposited) < Len(received[c]) + N
      BY <3>1 DEF Ring, Histories, Admitted, Single
    <3>3. x \in Producers \X (0 .. (N + D))
      <4>1. done[Main] < Quota(Main) /\ Quota(Main) <= N + D
        BY <3>1, Two, QuotaTyped DEF Ring, InQuota
      <4> QED
        BY <4>1, Two, QuotaTyped
    <3> QED
      BY <3>1, <3>2, <3>3 DEF Promise!Next, Promise!Deposit
  <2>3. CASE ConsumeCommit(r)
    <3>1. /\ pc[r] = "commit" /\ deposited' = deposited
          /\ received' = [received EXCEPT ![r] = Append(@, datum[r])]
      BY <2>3 DEF ConsumeCommit
    <3>2. /\ Len(received[r]) = done[r] /\ done[r] \in Nat /\ done[Main] \in Nat
          /\ done[r] < done[Main] /\ Len(deposited) = done[Main]
      BY <3>1, Two DEF Ring, Histories, Admitted
    <3>3. datum[r] = deposited[Len(received[r]) + 1]
      <4>1. deposited[done[r] + 1] = <<Main, done[r] + 1 - 1>>
        <5>1. done[r] + 1 \in 1 .. done[Main]
          BY <3>2
        <5> QED
          BY <5>1 DEF Ring, Histories
      <4>2. datum[r] = <<Main, done[r]>>
        BY <3>1 DEF Ring, Contents
      <4> QED
        BY <3>2, <4>1, <4>2
    <3>4. Promise!Receive(r)
      BY <3>1, <3>2, <3>3 DEF Promise!Receive
    <3> QED
      BY <3>4, Two DEF Promise!Next
  <2> QED
    BY <2>1, <2>2, <2>3
<1> QED
  BY <1>1, <1>2, RingHolds, PTL DEF Spec, PromiseKept, Promise!Spec
============================================================================
