-------------------------- MODULE SchedulerProofs ---------------------------
(***************************************************************************)
(* Proofs about Scheduler for any exec.txt, any length of the list and the *)
(* three policies: every process has its own position of the list, only    *)
(* the current process runs, and the current process is never one that     *)
(* stopped.                                                                *)
(***************************************************************************)
EXTENDS Scheduler, FiniteSetTheorems, TLAPS

USE SchedulerAssumption

Alive == {"created", "stopped", "running", "ended"}

(* Every signal sent was handled, but for a pending one, and the pids are   *)
(* those of the signals handled.                                            *)
Counted ==
  /\ sent = created + (IF pending THEN 1 ELSE 0)
  /\ \A p \in Pids : process[p] = "absent" <=> p > created

(* The positions in use are those of the processes that are alive, one for  *)
(* each, with its number.  Nobody loses a number before he has one.         *)
Positions ==
  /\ \A i \in Listed : /\ process[PIDList[i].pid] \in Alive
                       /\ PIDList[i].arg = Number(PIDList[i].pid)
  /\ \A i, j \in Listed : PIDList[i].pid = PIDList[j].pid => i = j
  /\ \A p \in Pids : process[p] \in Alive => \E i \in Listed : PIDList[i].pid = p
  /\ \A p \in overwritten : process[p] # "absent"

(* While the loop frees a position nothing runs, whoever takes it.          *)
Freeing ==
  pc \in {"forget", "unset"} =>
    HasCurrent /\ \A p \in Pids : process[p] # "running"

(* A process that was chosen has stopped itself before the SIGCONT, for a   *)
(* signal finds no process that has not: only the one that it creates may   *)
(* cut the pause short, and that is not the one chosen.                     *)
ChosenStopped ==
  /\ pending => ~Starting
  /\ pc \in {"sleep", "reap", "stop", "continue"} => processoAExecutar \in Listed
  /\ pc \in {"reap", "stop", "continue"} => process[Chosen] # "created"

(* After the SIGSTOP the current process runs only if it was chosen again.  *)
Interrupted ==
  pc = "continue" /\ HasCurrent =>
    process[Current] \in IF Current = Chosen THEN {"running", "ended"}
                                              ELSE {"stopped", "ended"}

IInv ==
  /\ TypeOK /\ Counted /\ Positions /\ Freeing /\ ChosenStopped
  /\ Interrupted /\ OnlyCurrentRuns /\ CurrentRuns

(* A set of natural numbers that is not empty has a least element: if it    *)
(* had none, the numbers up to x that are not below all of it could be      *)
(* counted down into fewer pigeonholes.                                     *)
LEMMA MinInSet ==
  ASSUME NEW S \in SUBSET Nat, S # {}
  PROVE  Min(S) \in S
<1>1. SUFFICES ASSUME \A t \in S : ~(\A s \in S : t <= s)
               PROVE  FALSE
  BY Zenon DEF Min
<1>2. PICK x \in S : TRUE
  OBVIOUS
<1> DEFINE U == {y \in 0 .. x : \E t \in S : t <= y}
           Holes == U \ {x}
           down == [y \in U |-> y - 1]
<1>3. IsFiniteSet(U) /\ x \in U
  <2>1. IsFiniteSet(0 .. x)
    BY FS_Interval
  <2> QED
    BY <2>1, FS_Subset
<1>4. IsFiniteSet(Holes) /\ Cardinality(Holes) < Cardinality(U)
  <2> HIDE DEF U
  <2>1. Cardinality(U) \in Nat
    BY <1>3, FS_CardinalityType
  <2>2. IsFiniteSet(U \ {x}) /\ Cardinality(U \ {x}) = Cardinality(U) - 1
    BY <1>3, FS_RemoveElement
  <2> QED
    BY <2>1, <2>2
<1>5. down \in [U -> Holes]
  <2>1. SUFFICES ASSUME NEW y \in U PROVE y - 1 \in U \ {x}
    OBVIOUS
  <2>2. PICK t \in S : t <= y
    OBVIOUS
  <2>3. PICK s \in S : ~(t <= s)
    BY <1>1
  <2> QED
    BY <2>2, <2>3
<1>6. PICK y \in U, z \in U : y # z /\ down[y] = down[z]
  <2> HIDE DEF U, Holes, down
  <2>1. \A A, B : \A f \in [A -> B] :
          IsFiniteSet(A) /\ IsFiniteSet(B) /\ Cardinality(B) < Cardinality(A) =>
            \E y, z \in A : y # z /\ f[y] = f[z]
    BY FS_PigeonHole
  <2>2. \E y, z \in U : y # z /\ down[y] = down[z]
    BY <1>3, <1>4, <1>5, <2>1
  <2> QED
    BY <2>2
<1> QED
  BY <1>6

(* Each of the three programs chooses a position that is in use. *)
LEMMA ChoosesListed ==
  obtemProcessoAExecutar \subseteq Listed
<1>1. Listed \in SUBSET Nat /\ After \in SUBSET Listed
  BY DEF Listed, After, Slots
<1>2. NextInTurn \subseteq Listed
  BY <1>1, MinInSet DEF NextInTurn
<1>3. MostUrgent \subseteq Listed
  <2> DEFINE Best == {i \in Listed : \A j \in Listed : PIDList[i].arg <= PIDList[j].arg}
  <2>1. Best # {} => Min(Best) \in Best
    BY <1>1, MinInSet
  <2> QED
    BY <2>1 DEF MostUrgent
<1>4. Drawable \subseteq Listed
  BY DEF Drawable
<1> QED
  BY <1>2, <1>3, <1>4 DEF obtemProcessoAExecutar

(* A position of the list is free or belongs to a process. *)
LEMMA EntryFields ==
  /\ Free \in Entries /\ Free.pid = -1 /\ -1 \notin Pids
  /\ \A e \in Entries : e.pid \in Pids \union {-1} /\ e.arg \in Nat \union {-1}
  /\ \A e \in Entries : LET f == [e EXCEPT !.pid = -1] IN f \in Entries /\ f.pid = -1
  /\ \A e \in Entries : LET f == [e EXCEPT !.arg = -1]
                        IN  f \in Entries /\ f.pid = e.pid /\ f.arg = -1
  /\ \A p \in Pids, a \in Nat \union {-1} :
       LET e == [pid |-> p, arg |-> a]
       IN  e \in Entries /\ e.pid = p /\ e.arg = a
BY DEF Entries, Free, Pids

(* So has the current process one, if there is a current process and the    *)
(* loop is not about to forget it.                                          *)
LEMMA InUse ==
  ASSUME TypeOK
  PROVE  /\ \A i \in Listed : PIDList[i].pid \in Pids
         /\ HasCurrent => idxProcessoExecutando \in Slots
         /\ HasCurrent /\ pc \notin {"forget", "unset", "exited"} =>
              idxProcessoExecutando \in Listed /\ Current \in Pids
BY EntryFields DEF TypeOK, Listed, HasCurrent, Current

LEMMA InitEstablishes == Init => IInv
<1> SUFFICES ASSUME Init PROVE IInv
  OBVIOUS
<1>1. Listed = {}
  BY DEF Init, Listed, Free
<1>2. TypeOK
  <2>1. PIDList \in [Slots -> Entries] /\ process \in [Pids -> States]
    BY EntryFields DEF Init, States
  <2>2. pending \in BOOLEAN
    BY DEF Init
  <2>3. sent \in 0 .. Lines /\ created \in 0 .. Lines
    BY DEF Init
  <2> QED
    BY <2>1, <2>2, <2>3 DEF Init, TypeOK, Places
<1>3. Counted /\ Freeing /\ OnlyCurrentRuns /\ CurrentRuns
  BY DEF Init, Counted, Freeing, OnlyCurrentRuns, CurrentRuns, HasCurrent, Pids
<1>4. Positions
  BY <1>1 DEF Init, Positions, Alive
<1>5. ChosenStopped /\ Interrupted
  BY DEF Init, ChosenStopped, Interrupted, HasCurrent
<1> QED
  BY <1>2, <1>3, <1>4, <1>5 DEF IInv

(* The interpreter sends a line. *)
LEMMA adicionaProcessosKeeps ==
  ASSUME IInv, adicionaProcessos
  PROVE  IInv'
BY DEF adicionaProcessos, scheduler, IInv, TypeOK, Listed, Counted, Positions, Number, Freeing,
       ChosenStopped, Interrupted, OnlyCurrentRuns, CurrentRuns, HasCurrent, Current,
       Chosen, Starting

(* A choice. *)
LEMMA ChooseKeeps ==
  ASSUME IInv, NEW i \in Slots, Choose(i)
  PROVE  IInv'
<1>1. i \in Listed
  BY ChoosesListed DEF Choose
<1> QED
  BY <1>1 DEF Choose, IInv, Places, TypeOK, Listed, Counted, Positions, Number,
       Freeing, ChosenStopped,
       Interrupted, OnlyCurrentRuns, CurrentRuns, HasCurrent, Current, Starting

(* The pause ends. *)
LEMMA PauseKeeps ==
  ASSUME IInv, Pause
  PROVE  IInv'
<1>1. Chosen \in Pids
  BY InUse DEF IInv, ChosenStopped, Pause, Chosen
<1> QED
  BY <1>1 DEF Pause, IInv, Places, TypeOK, Listed, Counted, Positions, Number,
       Freeing, ChosenStopped,
       Interrupted, OnlyCurrentRuns, CurrentRuns, HasCurrent, Current, Chosen, Starting

(* SIGINT. *)
LEMMA encerraKeeps ==
  ASSUME IInv, encerra
  PROVE  IInv'
BY DEF encerra, IInv, Places, TypeOK, Listed, Counted, Positions, Number,
     Freeing, ChosenStopped,
       Interrupted, OnlyCurrentRuns, CurrentRuns, HasCurrent, Current, Chosen, Starting

(* The handler of SIGUSR1. *)
LEMMA adicionarProcessoKeeps ==
  ASSUME IInv, adicionarProcesso
  PROVE  IInv'
<1> DEFINE new == created + 1
<1>1. /\ new \in Pids /\ created' = new /\ sent' = sent /\ sent = new
      /\ pending /\ ~pending' /\ pending' \in BOOLEAN
      /\ process[new] = "absent" /\ ~Starting
  <2>1. pending /\ pending' = FALSE /\ created' = new /\ sent' = sent
    BY DEF adicionarProcesso
  <2>2. sent = new /\ new \in Pids
    BY <2>1 DEF IInv, TypeOK, Counted, Pids
  <2>3. new > created
    BY DEF IInv, TypeOK
  <2> QED
    BY <2>1, <2>2, <2>3 DEF IInv, Counted, ChosenStopped
<1>2. /\ \A i \in Listed : PIDList[i].pid \in Pids /\ PIDList[i].pid # new
      /\ new \notin overwritten /\ overwritten' = overwritten /\ overwritten \in SUBSET Pids
      /\ policy' = policy /\ \A p \in Pids : Number(p)' = Number(p)
  BY <1>1, InUse DEF adicionarProcesso, IInv, TypeOK, Positions, Alive, Number
<1>3. CASE Listed = Slots
  <2>1. /\ process' = [process EXCEPT ![new] = "refused"] /\ PIDList' = PIDList
        /\ Listed' = Listed
    BY <1>1, <1>3 DEF adicionarProcesso, Listed
  <2>2. TypeOK' /\ Counted'
    <3>1. TypeOK'
      BY <1>1, <1>2, <2>1 DEF adicionarProcesso, IInv, TypeOK, Places, States, Pids
    <3>2. Counted'
      BY <1>1, <2>1 DEF IInv, TypeOK, Counted, Pids
    <3> QED
      BY <3>1, <3>2
  <2>3. Positions'
    BY <1>1, <1>2, <2>1 DEF IInv, TypeOK, Positions, Alive
  <2>4. ChosenStopped' /\ Freeing'
    BY <1>1, <1>2, <2>1 DEF adicionarProcesso, IInv, TypeOK, ChosenStopped, Starting, Chosen,
       Freeing, HasCurrent
  <2>5. Interrupted' /\ OnlyCurrentRuns' /\ CurrentRuns'
    BY <1>1, <1>2, <2>1 DEF adicionarProcesso, IInv, TypeOK, Interrupted,
       OnlyCurrentRuns, CurrentRuns, HasCurrent, Current, Chosen
  <2> QED
    BY <2>2, <2>3, <2>4, <2>5 DEF IInv
<1>4. CASE Listed # Slots
  <2> DEFINE k == Min(Slots \ Listed)
             entry == [pid |-> new,
                       arg |-> IF policy = "roundrobin" THEN -1 ELSE Arg[sent]]
  <2>1. k \in Slots \ Listed
    <3>1. Slots \ Listed \in SUBSET Nat /\ Slots \ Listed # {}
      BY <1>4 DEF Listed, Slots
    <3> QED
      BY <3>1, MinInSet, Zenon
  <2>2. /\ process' = [process EXCEPT ![new] = "created"]
        /\ PIDList' = [PIDList EXCEPT ![k] = entry]
        /\ pc' = IF pc = "sleep" THEN "reap" ELSE pc
        /\ UNCHANGED <<policy, idxProcessoExecutando, processoAExecutar>>
    BY <1>1, <1>4 DEF adicionarProcesso
  <2> HIDE DEF k
  <2>3. Listed' = Listed \union {k}
    <3>1. entry.pid # -1
      BY <1>1, EntryFields
    <3> HIDE DEF entry
    <3> QED
      BY <2>1, <2>2, <3>1 DEF IInv, TypeOK, Listed
  <2>4. \A i \in Listed : PIDList'[i] = PIDList[i]
    BY <2>1, <2>2 DEF Listed, IInv, TypeOK
  <2>5. /\ PIDList'[k] = entry /\ entry \in Entries
        /\ entry.pid = new /\ entry.arg = Number(new)
    <3>1. PIDList'[k] = entry
      BY <2>1, <2>2 DEF IInv, TypeOK
    <3>2. Arg[sent] \in Nat /\ sent = new
      BY <1>1 DEF Pids
    <3>3. entry \in Entries /\ entry.pid = new
      BY <1>1, <3>2, EntryFields
    <3>4. entry.arg = Number(new)
      BY <1>2, <3>2 DEF Number
    <3> QED
      BY <3>1, <3>3, <3>4
  <2>6. TypeOK' /\ Counted'
    <3>2. PIDList' \in [Slots -> Entries]
      <4> HIDE DEF entry
      <4> QED
        BY <2>1, <2>2, <2>5 DEF IInv, TypeOK
    <3>3. process' \in [Pids -> States] /\ pc' \in Places
      BY <2>2 DEF IInv, TypeOK, States, Places
    <3>4. created' \in 0 .. Lines /\ sent' \in 0 .. Lines
      BY <1>1 DEF IInv, TypeOK, Pids
    <3>5. TypeOK'
      BY <1>1, <1>2, <2>2, <2>3, <3>2, <3>3, <3>4 DEF IInv, TypeOK
    <3>6. Counted'
      BY <1>1, <2>2 DEF IInv, TypeOK, Counted, Pids
    <3> QED
      BY <3>5, <3>6
  <2>7. Positions'
    <3> HIDE DEF entry
    <3> QED
      BY <1>1, <1>2, <2>1, <2>2, <2>3, <2>4, <2>5 DEF IInv, TypeOK, Positions, Alive
  <2>8. ChosenStopped'
    <3>1. pc' \in {"sleep", "reap", "stop", "continue"} =>
            processoAExecutar' \in Listed'
      BY <2>2, <2>3 DEF IInv, ChosenStopped
    <3>2. pc' \in {"reap", "stop", "continue"} => process'[Chosen'] # "created"
      BY <1>1, <1>2, <2>2, <2>4 DEF IInv, TypeOK, ChosenStopped, Starting, Chosen
    <3> QED
      BY <1>1, <3>1, <3>2 DEF ChosenStopped
  <2>9. HasCurrent /\ pc \notin {"forget", "unset"} =>
          Current' = Current /\ Current \in Pids /\ Current # new
    BY <1>2, <2>2, <2>4, InUse DEF adicionarProcesso, IInv, HasCurrent, Current
  <2>10. OnlyCurrentRuns' /\ CurrentRuns' /\ Freeing'
    BY <1>1, <2>2, <2>9 DEF IInv, TypeOK, OnlyCurrentRuns, CurrentRuns, HasCurrent, Freeing
  <2>11. Interrupted'
    BY <1>1, <1>2, <2>2, <2>4, <2>9 DEF IInv, TypeOK, ChosenStopped, Interrupted, HasCurrent, Chosen
  <2> QED
    BY <2>6, <2>7, <2>8, <2>10, <2>11 DEF IInv
<1> QED
  BY <1>3, <1>4

(* The test of the current process, which frees the position of one that    *)
(* ended.                                                                   *)
LEMMA ReapKeepsInv ==
  ASSUME IInv, Reap
  PROVE  IInv'
<1>1. CASE ~(HasCurrent /\ process[Current] = "ended")
  BY <1>1 DEF Reap, IInv, Places, TypeOK, Listed, Counted, Positions, Number,
       Freeing, ChosenStopped,
       Interrupted, OnlyCurrentRuns, CurrentRuns, HasCurrent, Current, Chosen, Starting
<1>2. CASE HasCurrent /\ process[Current] = "ended"
  <2> DEFINE k == idxProcessoExecutando
  <2>1. k \in Listed /\ k \in Slots /\ Current \in Pids /\ PIDList[k].pid = Current
    BY <1>2, InUse DEF Reap, IInv, Listed, Current
  <2> DEFINE e == [PIDList[k] EXCEPT !.pid = -1]
  <2>2. /\ process' = [process EXCEPT ![Current] = "reaped"]
        /\ PIDList' = [PIDList EXCEPT ![k] = e] /\ e \in Entries /\ e.pid = -1
        /\ pc' \in {"forget", "unset"} /\ pc = "reap"
        /\ UNCHANGED <<policy, sent, pending, created, idxProcessoExecutando,
                       processoAExecutar, overwritten>>
    BY <1>2, <2>1, EntryFields DEF Reap, IInv, TypeOK
  <2> HIDE DEF e
  <2>3. Listed' = Listed \ {k}
    BY <2>1, <2>2 DEF IInv, TypeOK, Listed
  <2>4. \A i \in Listed' : PIDList'[i] = PIDList[i] /\ PIDList[i].pid \in Pids
                           /\ PIDList[i].pid # Current
    BY <2>1, <2>2, <2>3, InUse DEF IInv, TypeOK, Positions, Listed
  <2>5. TypeOK' /\ Counted'
    BY <1>2, <2>1, <2>2, <2>3 DEF IInv, TypeOK, Counted, Places, States
  <2>6. Positions'
    <3>1. \A p \in Pids : Number(p)' = Number(p)
      BY <2>2 DEF Number
    <3> QED
      BY <1>2, <2>1, <2>2, <2>3, <2>4, <3>1 DEF IInv, TypeOK, Positions, Alive
  <2>7. ChosenStopped' /\ Interrupted' /\ OnlyCurrentRuns' /\ CurrentRuns' /\ Freeing'
    BY <1>2, <2>1, <2>2 DEF IInv, TypeOK, ChosenStopped, Interrupted, Freeing,
       OnlyCurrentRuns, CurrentRuns, HasCurrent, Starting
  <2> QED
    BY <2>5, <2>6, <2>7 DEF IInv
<1> QED
  BY <1>1, <1>2

(* The number of the position goes, with whoever has taken it. *)
LEMMA ForgetNumberKeeps ==
  ASSUME IInv, ForgetNumber
  PROVE  IInv'
<1> DEFINE k == idxProcessoExecutando
           e == [PIDList[k] EXCEPT !.arg = -1]
<1>1. /\ k \in Slots /\ HasCurrent /\ Current = PIDList[k].pid
      /\ Current \in Pids \union {-1} /\ -1 \notin Pids
      /\ PIDList' = [PIDList EXCEPT ![k] = e] /\ e \in Entries
      /\ e.pid = PIDList[k].pid /\ e.arg = -1
      /\ pc = "forget" /\ pc' = "unset"
      /\ overwritten' = overwritten \union ({Current} \ {-1})
      /\ UNCHANGED <<policy, sent, pending, created, idxProcessoExecutando,
                     processoAExecutar, process>>
  BY EntryFields, InUse DEF ForgetNumber, IInv, TypeOK, Freeing, Current
<1> HIDE DEF e
<1>2. Listed' = Listed /\ \A i \in Slots : PIDList'[i].pid = PIDList[i].pid
  BY <1>1 DEF IInv, TypeOK, Listed
<1>3. TypeOK' /\ Counted'
  BY <1>1, <1>2 DEF IInv, TypeOK, Counted, Places
<1>4. Positions'
  <2>1. \A i \in Listed : (PIDList[i].arg = Number(PIDList[i].pid))'
    <3> SUFFICES ASSUME NEW i \in Listed PROVE (PIDList[i].arg = Number(PIDList[i].pid))'
      OBVIOUS
    <3>1. CASE i = k
      BY <1>1, <1>2, <3>1 DEF IInv, TypeOK, Number, Listed
    <3>2. CASE i # k
      <4>1. PIDList'[i] = PIDList[i] /\ PIDList[i].arg = Number(PIDList[i].pid)
        BY <1>1, <3>2 DEF IInv, TypeOK, Positions, Listed
      <4>2. PIDList[i].pid # Current
        BY <1>1, <3>2, EntryFields DEF IInv, TypeOK, Positions, Listed
      <4> QED
        BY <1>1, <4>1, <4>2 DEF Number
    <3> QED
      BY <3>1, <3>2
  <2>2. \A p \in overwritten' : process[p] # "absent"
    <3>1. Current \in Pids => k \in Listed
      BY <1>1 DEF Listed
    <3> QED
      BY <1>1, <3>1 DEF IInv, Positions, Alive
  <2> QED
    BY <1>1, <1>2, <2>1, <2>2 DEF IInv, Positions, Listed
<1>5. ChosenStopped' /\ Interrupted' /\ OnlyCurrentRuns' /\ CurrentRuns' /\ Freeing'
  BY <1>1, <1>2 DEF IInv, ChosenStopped, Interrupted, OnlyCurrentRuns, CurrentRuns, Freeing,
     HasCurrent, Starting
<1> QED
  BY <1>3, <1>4, <1>5 DEF IInv

(* The index is that of no position. *)
LEMMA UnsetCurrentKeeps ==
  ASSUME IInv, UnsetCurrent
  PROVE  IInv'
BY DEF UnsetCurrent, IInv, Places, TypeOK, Listed, Counted, Positions, Number, Freeing,
   ChosenStopped, Interrupted, OnlyCurrentRuns, CurrentRuns, HasCurrent, Starting

(* The SIGSTOP. *)
LEMMA InterruptKeeps ==
  ASSUME IInv, Interrupt
  PROVE  IInv'
<1>1. /\ Chosen \in Pids /\ process[Chosen] # "created"
      /\ HasCurrent => Current \in Pids /\ process[Current] \in {"running", "ended"}
      /\ Listed' = Listed /\ pc = "stop" /\ pc' = "continue"
      /\ UNCHANGED <<policy, sent, pending, created, PIDList,
                     idxProcessoExecutando, processoAExecutar, overwritten>>
      /\ \A p \in Pids : Number(p)' = Number(p)
      /\ Freeing'
  BY InUse DEF Interrupt, Number, Freeing, IInv, ChosenStopped, CurrentRuns, Chosen, Listed
<1>2. CASE HasCurrent /\ Current # Chosen /\ process[Current] = "running"
  <2>1. process' = [process EXCEPT ![Current] = "stopped"]
    BY <1>2 DEF Interrupt, Stopped
  <2>2. TypeOK' /\ Counted'
    BY <1>1, <1>2, <2>1 DEF IInv, TypeOK, Counted, Places, States
  <2>3. Positions'
    BY <1>1, <1>2, <2>1, InUse DEF IInv, TypeOK, Positions, Alive
  <2>4. ChosenStopped'
    <3>1. Starting' => Starting
      BY <1>1, <1>2, <2>1 DEF IInv, TypeOK, Starting
    <3>2. process'[Chosen'] # "created"
      BY <1>1, <1>2, <2>1 DEF IInv, TypeOK, Chosen
    <3>3. processoAExecutar \in Listed
      BY DEF Interrupt, IInv, ChosenStopped
    <3> QED
      BY <1>1, <3>1, <3>2, <3>3 DEF Interrupt, IInv, ChosenStopped, Chosen
  <2>5. Interrupted' /\ OnlyCurrentRuns' /\ CurrentRuns'
    BY <1>1, <1>2, <2>1 DEF IInv, TypeOK, Interrupted, OnlyCurrentRuns, CurrentRuns,
       HasCurrent, Current, Chosen
  <2> QED
    BY <1>1, <2>2, <2>3, <2>4, <2>5 DEF IInv
<1>3. CASE ~(HasCurrent /\ Current # Chosen /\ process[Current] = "running")
  <2>1. process' = process
    BY <1>3 DEF Interrupt, Stopped
  <2>2. TypeOK' /\ Counted' /\ Positions'
    BY <1>1, <2>1, InUse DEF Interrupt, IInv, TypeOK, Counted, Positions, Places
  <2>3. ChosenStopped'
    BY <1>1, <2>1 DEF Interrupt, IInv, ChosenStopped, Starting, Chosen
  <2>4. Interrupted' /\ OnlyCurrentRuns' /\ CurrentRuns'
    BY <1>1, <1>3, <2>1 DEF IInv, Interrupted, OnlyCurrentRuns, CurrentRuns, HasCurrent,
       Current, Chosen
  <2> QED
    BY <1>1, <2>2, <2>3, <2>4 DEF IInv
<1> QED
  BY <1>2, <1>3

(* The SIGCONT. *)
LEMMA ResumeKeeps ==
  ASSUME IInv, Resume
  PROVE  IInv'
<1>1. /\ processoAExecutar \in Listed /\ Chosen \in Pids /\ process[Chosen] # "created"
      /\ HasCurrent => Current \in Pids
      /\ Listed' = Listed /\ pc = "continue" /\ pc' = "choose"
      /\ UNCHANGED <<policy, sent, pending, created, PIDList, processoAExecutar,
                     overwritten>>
      /\ \A p \in Pids : Number(p)' = Number(p)
      /\ Freeing'
  BY InUse DEF Resume, IInv, ChosenStopped, Chosen, Listed, Number, Freeing
<1>2. CASE HasCurrent /\ Current = Chosen
  <2>1. UNCHANGED <<process, idxProcessoExecutando>>
    BY <1>2 DEF Resume
  <2> QED
    BY <1>1, <1>2, <2>1 DEF Resume, IInv, TypeOK, Counted, Positions, Number,
         Freeing, ChosenStopped,
       Interrupted, OnlyCurrentRuns, CurrentRuns, HasCurrent, Current, Chosen, Starting,
       Places
<1>3. CASE ~(HasCurrent /\ Current = Chosen)
  <2>1. /\ process' = Continued(Chosen) /\ idxProcessoExecutando' = processoAExecutar
        /\ HasCurrent' /\ Current' = Chosen
    BY <1>1, <1>3 DEF Resume, HasCurrent, Current, Chosen, Listed, Slots
  <2>2. \A p \in Pids : process[p] # "running"
    BY <1>3 DEF Resume, IInv, Interrupted, OnlyCurrentRuns
  <2>3. process[Chosen] \in {"stopped", "ended"}
    BY <1>1, <2>2 DEF IInv, Positions, Alive, Chosen
  <2>4. CASE process[Chosen] = "stopped"
    <3>1. process' = [process EXCEPT ![Chosen] = "running"]
      BY <2>1, <2>4 DEF Continued
    <3>2. TypeOK' /\ Counted'
      BY <1>1, <2>1, <2>4, <3>1 DEF IInv, TypeOK, Counted, Places, States
    <3>3. Positions'
      BY <1>1, <2>4, <3>1, InUse DEF IInv, TypeOK, Positions, Alive
    <3>4. ChosenStopped' /\ Interrupted'
      BY <1>1, <2>4, <3>1 DEF IInv, TypeOK, ChosenStopped, Interrupted, Starting
    <3>5. OnlyCurrentRuns' /\ CurrentRuns'
      BY <1>1, <2>1, <2>2, <3>1 DEF IInv, TypeOK, OnlyCurrentRuns, CurrentRuns
    <3> QED
      BY <1>1, <3>2, <3>3, <3>4, <3>5 DEF IInv
  <2>5. CASE process[Chosen] = "ended"
    <3>1. process' = process
      BY <2>1, <2>5 DEF Continued
    <3>2. TypeOK' /\ Counted' /\ Positions' /\ ChosenStopped' /\ Interrupted'
      BY <1>1, <2>1, <3>1 DEF IInv, TypeOK, Counted, Positions, Number,
           Freeing, ChosenStopped,
         Interrupted, Starting, Places
    <3>3. OnlyCurrentRuns' /\ CurrentRuns'
      BY <2>1, <2>2, <2>5, <3>1 DEF OnlyCurrentRuns, CurrentRuns
    <3> QED
      BY <1>1, <3>2, <3>3 DEF IInv
  <2> QED
    BY <2>3, <2>4, <2>5
<1> QED
  BY <1>2, <1>3

(* A new process stops itself. *)
LEMMA StopItselfKeeps ==
  ASSUME IInv, NEW p \in Pids, StopItself(p)
  PROVE  IInv'
<1>1. /\ process[p] = "created" /\ process' = [process EXCEPT ![p] = "stopped"]
      /\ Listed' = Listed
      /\ UNCHANGED <<policy, sent, pending, created, PIDList,
                     idxProcessoExecutando, processoAExecutar, pc, overwritten>>
      /\ \A q \in Pids : Number(q)' = Number(q)
  BY DEF StopItself, scheduler, Listed, Number
<1>2. TypeOK' /\ Counted'
  BY <1>1 DEF IInv, TypeOK, Counted, States
<1>3. Positions'
  BY <1>1, InUse DEF IInv, TypeOK, Positions, Alive
<1>4. ChosenStopped'
  BY <1>1 DEF IInv, TypeOK, ChosenStopped, Starting, Chosen
<1>5. Interrupted' /\ OnlyCurrentRuns' /\ CurrentRuns' /\ Freeing'
  BY <1>1, InUse DEF IInv, TypeOK, Interrupted, Freeing, OnlyCurrentRuns, CurrentRuns,
     HasCurrent, Current, Chosen
<1> QED
  BY <1>2, <1>3, <1>4, <1>5 DEF IInv

(* A program ends. *)
LEMMA EndKeeps ==
  ASSUME IInv, NEW p \in Pids, End(p)
  PROVE  IInv'
<1>1. /\ process[p] = "running" /\ process' = [process EXCEPT ![p] = "ended"]
      /\ Listed' = Listed
      /\ UNCHANGED <<policy, sent, pending, created, PIDList,
                     idxProcessoExecutando, processoAExecutar, pc, overwritten>>
      /\ \A q \in Pids : Number(q)' = Number(q)
  BY DEF End, scheduler, Listed, Number
<1>2. TypeOK' /\ Counted'
  BY <1>1 DEF IInv, TypeOK, Counted, States
<1>3. Positions'
  BY <1>1, InUse DEF IInv, TypeOK, Positions, Alive
<1>4. ChosenStopped'
  BY <1>1 DEF IInv, TypeOK, ChosenStopped, Starting, Chosen
<1>5. Interrupted' /\ OnlyCurrentRuns' /\ CurrentRuns' /\ Freeing'
  BY <1>1, InUse DEF IInv, TypeOK, Interrupted, Freeing, OnlyCurrentRuns, CurrentRuns,
     HasCurrent, Current, Chosen
<1> QED
  BY <1>2, <1>3, <1>4, <1>5 DEF IInv

(* The invariant is inductive. *)
THEOREM Inductive == Spec => []IInv
<1>1. Init => IInv
  BY InitEstablishes
<1>2. IInv /\ [Next]_vars => IInv'
  <2> SUFFICES ASSUME IInv, [Next]_vars PROVE IInv'
    OBVIOUS
  <2>1. CASE UNCHANGED vars
    BY <2>1 DEF vars, IInv, TypeOK, Listed, Counted, Positions, Number,
         Freeing, ChosenStopped,
       Interrupted, OnlyCurrentRuns, CurrentRuns, HasCurrent, Current, Chosen, Starting
  <2>2. CASE Loop
    BY <2>2, PauseKeeps, ReapKeepsInv, ForgetNumberKeeps, UnsetCurrentKeeps,
       InterruptKeeps, ResumeKeeps DEF Loop
  <2> QED
    BY <2>1, <2>2, adicionaProcessosKeeps, adicionarProcessoKeeps, encerraKeeps,
       ChooseKeeps, StopItselfKeeps, EndKeeps DEF Next
<1> QED
  BY <1>1, <1>2, PTL DEF Spec

(* Type correctness, between the stores that free a position too. *)
THEOREM TypeCorrect == Spec => []TypeOK
BY Inductive, PTL DEF IInv

(* Only the process that the list calls the current one runs. *)
THEOREM OneRuns == Spec => []OnlyCurrentRuns
BY Inductive, PTL DEF IInv

(* The scheduler never waits for a process that is stopped.                 *)
THEOREM CurrentIsNotStopped == Spec => []CurrentRuns
BY Inductive, PTL DEF IInv

(* Every process that was created and not reaped has one position, with its *)
(* number unless the loop cleared the position after the process took it.   *)
THEOREM PositionsOwned == Spec => []OwnPosition
<1>1. IInv => OwnPosition
  <2> SUFFICES ASSUME IInv, NEW p \in Pids
               PROVE  Cardinality({i \in Slots : PIDList[i].pid = p}) =
                        IF process[p] \in {"absent", "refused", "reaped"} THEN 0 ELSE 1
    BY DEF IInv, Positions, OwnPosition
  <2> DEFINE Own == {i \in Slots : PIDList[i].pid = p}
  <2>1. Own = {i \in Listed : PIDList[i].pid = p}
    BY EntryFields DEF IInv, TypeOK, Listed
  <2>2. CASE process[p] \in {"absent", "refused", "reaped"}
    <3>1. Own = {}
      BY <2>1, <2>2 DEF IInv, Positions, Alive
    <3> QED
      BY <2>2, <3>1, FS_EmptySet
  <2>3. CASE process[p] \in Alive
    <3>1. PICK i \in Listed : PIDList[i].pid = p
      BY <2>3 DEF IInv, Positions
    <3>2. Own = {i}
      BY <2>1, <3>1 DEF IInv, Positions
    <3> QED
      BY <2>3, <3>2, FS_Singleton DEF Alive
  <2> QED
    BY <2>2, <2>3 DEF IInv, TypeOK, States, Alive
<1> QED
  BY <1>1, Inductive, PTL

=============================================================================
