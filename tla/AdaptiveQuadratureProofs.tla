---------------------- MODULE AdaptiveQuadratureProofs ----------------------
(***************************************************************************)
(* Proofs about AdaptiveQuadrature, for any number of processes and any    *)
(* division of the interval: the exit of a master without available        *)
(* workers is dead code, no work is lost or done twice, the idle counter   *)
(* detects the end, and the area is summed as DivideAndSum promises.       *)
(***************************************************************************)
EXTENDS AdaptiveQuadrature, FiniteSetTheorems, FunctionTheorems, TLAPS

(* What AvailableFound rests on: workers are idle only while the stack is  *)
(* empty.  A mark is removed only when a task is popped, so never while    *)
(* one is idle; and the report that makes a worker idle marks it.          *)
IdleInv ==
  /\ idle \in Nat
  /\ availableWorkers \in [Workers -> BOOLEAN]
  /\ idle > 0 => stack = <<>>
  /\ AvailableFound

LEMMA IdleInit == Init => IdleInv
<1> SUFFICES ASSUME Init PROVE IdleInv
  OBVIOUS
<1>1. idle = 0 /\ availableWorkers \in [Workers -> BOOLEAN]
  BY DEF Init
<1> QED
  BY <1>1 DEF IdleInv, AvailableFound

(* The master's variables that IdleInv is about change in two actions. *)
LEMMA IdleStep == IdleInv /\ [Next]_vars => IdleInv'
<1> SUFFICES ASSUME IdleInv, [Next]_vars PROVE IdleInv'
  OBVIOUS
<1> USE DEF IdleInv, AvailableFound, AvailableOnes
<1>1. ASSUME NEW w \in Workers, ReceiveAvailable(w) PROVE IdleInv'
  <2>1. CASE /\ stack = <<>>
             /\ idle' = idle + 1
             /\ availableWorkers' = [availableWorkers EXCEPT ![w] = TRUE]
             /\ UNCHANGED stack
    <3>1. availableWorkers'[w]
      BY <2>1
    <3> QED
      BY <2>1, <3>1
  <2>2. CASE /\ stack # <<>>
             /\ availableWorkers' = [availableWorkers EXCEPT ![w] = FALSE]
             /\ UNCHANGED idle
    <3>1. ~ (idle > 0)
      BY <2>2
    <3> QED
      BY <2>2, <3>1
  <2> QED
    BY <1>1, <2>1, <2>2 DEF ReceiveAvailable
<1>2. ASSUME NEW w \in Workers, ReceiveTaskToAdd(w) PROVE IdleInv'
  <2>1. availableWorkers' = availableWorkers
    BY <1>2 DEF ReceiveTaskToAdd
  <2>2. \/ idle > 0 /\ idle' = idle - 1 /\ stack' = stack
        \/ idle = 0 /\ idle' = idle
    BY <1>2 DEF ReceiveTaskToAdd
  <2> QED
    BY <2>1, <2>2
<1>3. CASE UNCHANGED <<stack, idle, availableWorkers>>
  BY <1>3
<1>4. ASSUME Notify PROVE UNCHANGED <<stack, idle, availableWorkers>>
  BY <1>4 DEF Notify
<1>5. ASSUME NEW w \in Workers, WorkerStep(w)
      PROVE  UNCHANGED <<stack, idle, availableWorkers>>
  BY <1>5 DEF WorkerStep, Start, ReceiveTask, DivideTask, FinishTask, masterVars
<1>6. ASSUME UNCHANGED vars PROVE UNCHANGED <<stack, idle, availableWorkers>>
  BY <1>6 DEF vars, masterVars
<1> QED
  BY <1>1, <1>2, <1>3, <1>4, <1>5, <1>6 DEF Next, MasterStep

(* The exit at aquad3.c:179 is dead code: whenever idle is positive, the   *)
(* scan of availableWorkers finds a worker.                                *)
THEOREM AvailableWorkerExists == Spec => []AvailableFound
<1>1. Init => IdleInv
  BY IdleInit
<1>2. IdleInv /\ [Next]_vars => IdleInv'
  BY IdleStep
<1>3. IdleInv => AvailableFound
  BY DEF IdleInv
<1> QED
  BY <1>1, <1>2, <1>3, PTL DEF Spec

-----------------------------------------------------------------------------
(* Counting the messages, tasks and workers of some kind: a step of one    *)
(* process adds or removes at most one in each place.                      *)

One(b) == IF b THEN 1 ELSE 0

(* The positions of a family of sequences that hold a member of P. *)
At(Q, P) ==
  UNION {{<<i, k>> : k \in {j \in DOMAIN Q[i] : Q[i][j] \in P}} : i \in DOMAIN Q}

(* A family of sequences, an item appended to one, the first one removed. *)
Families(I, M) == [I -> Seq(M)]
Put(Q, i, m) == [Q EXCEPT ![i] = Append(@, m)]
Take(Q, i) == [Q EXCEPT ![i] = Tail(@)]

LEMMA PositionsOf ==
  \A Q, P, x : x \in At(Q, P) <=>
                 \E i \in DOMAIN Q : \E k \in DOMAIN Q[i] :
                   Q[i][k] \in P /\ x = <<i, k>>
BY DEF At

(* Sets that differ in t at most. *)
LEMMA OneApart ==
  ASSUME NEW A, IsFiniteSet(A), NEW B, NEW t, A \ {t} = B \ {t}
  PROVE  /\ IsFiniteSet(B) /\ Cardinality(A) \in Nat /\ Cardinality(B) \in Nat
         /\ Cardinality(B) = Cardinality(A) + One(t \in B) - One(t \in A)
<1>1. B \in SUBSET (A \cup {t})
  OBVIOUS
<1>2. IsFiniteSet(B)
  BY <1>1, FS_AddElement, FS_Subset
<1>3. Cardinality(A) \in Nat /\ Cardinality(B) \in Nat
  BY <1>2, FS_CardinalityType
<1>4. Cardinality(A \ {t}) = Cardinality(A) - One(t \in A)
  BY <1>3, FS_RemoveElement DEF One
<1>5. Cardinality(B \ {t}) = Cardinality(B) - One(t \in B)
  BY <1>2, <1>3, FS_RemoveElement DEF One
<1> QED
  BY <1>2, <1>3, <1>4, <1>5 DEF One

(* Appending m to a sequence. *)
LEMMA AppendCounts ==
  ASSUME NEW I, NEW M, NEW Q \in Families(I, M), NEW P, IsFiniteSet(At(Q, P)),
         NEW i \in I, NEW m \in M
  PROVE  /\ IsFiniteSet(At(Put(Q, i, m), P))
         /\ Cardinality(At(Q, P)) \in Nat
         /\ Cardinality(At(Put(Q, i, m), P)) \in Nat
         /\ Cardinality(At(Put(Q, i, m), P)) = Cardinality(At(Q, P)) + One(m \in P)
<1> USE DEF Families
<1> DEFINE Z == Put(Q, i, m)
           x == <<i, Len(Q[i]) + 1>>
<1>1. Z \in [I -> Seq(M)]
  BY DEF Put
<1>2. /\ Len(Z[i]) = Len(Q[i]) + 1 /\ Z[i][Len(Q[i]) + 1] = m
      /\ \A k \in 1 .. Len(Q[i]) : Z[i][k] = Q[i][k]
      /\ \A j \in I \ {i} : Z[j] = Q[j]
  BY DEF Put
<1> HIDE DEF Z
<1>d. DOMAIN Z = I /\ \A j \in I : DOMAIN Z[j] = 1 .. Len(Z[j])
  BY <1>1
<1>0. \A y : y \in At(Z, P) <=>
        \E j \in I : \E k \in 1 .. Len(Z[j]) : Z[j][k] \in P /\ y = <<j, k>>
  BY <1>d, PositionsOf
<1>q. \A y : y \in At(Q, P) <=>
        \E j \in I : \E k \in 1 .. Len(Q[j]) : Q[j][k] \in P /\ y = <<j, k>>
  <2>1. DOMAIN Q = I /\ \A j \in I : DOMAIN Q[j] = 1 .. Len(Q[j])
    OBVIOUS
  <2> QED
    BY <2>1, PositionsOf
<1>3. x \notin At(Q, P)
  BY PositionsOf
<1>4. x \in At(Z, P) <=> m \in P
  BY <1>0, <1>2
<1>5. At(Q, P) \ {x} = At(Z, P) \ {x}
  <2> HIDE DEF x
  <2>1. ASSUME NEW y, y # x, y \in At(Q, P) PROVE y \in At(Z, P)
    <3>1. PICK j \in I : \E k \in 1 .. Len(Q[j]) : Q[j][k] \in P /\ y = <<j, k>>
      BY <2>1, <1>q
    <3>2. PICK k \in 1 .. Len(Q[j]) : Q[j][k] \in P /\ y = <<j, k>>
      BY <3>1
    <3>3. k \in 1 .. Len(Z[j]) /\ Z[j][k] = Q[j][k]
      <4>1. CASE j = i
        <5>1. Len(Q[i]) \in Nat
          OBVIOUS
        <5> QED
          BY <1>2, <3>2, <4>1, <5>1
      <4>2. CASE j # i
        BY <1>2, <3>2, <4>2
      <4> QED
        BY <4>1, <4>2
    <3> QED
      BY <1>0, <3>2, <3>3
  <2>2. ASSUME NEW y, y # x, y \in At(Z, P) PROVE y \in At(Q, P)
    <3>1. PICK j \in I : \E k \in 1 .. Len(Z[j]) : Z[j][k] \in P /\ y = <<j, k>>
      BY <1>0, <2>2
    <3>2. PICK k \in 1 .. Len(Z[j]) : Z[j][k] \in P /\ y = <<j, k>>
      BY <3>1
    <3>3. k \in 1 .. Len(Q[j]) /\ Z[j][k] = Q[j][k]
      <4>1. CASE j = i
        <5>1. Len(Q[i]) \in Nat /\ k # Len(Q[i]) + 1
          BY <2>2, <3>2, <4>1 DEF x
        <5> QED
          BY <1>2, <3>2, <4>1, <5>1
      <4>2. CASE j # i
        BY <1>2, <3>2, <4>2
      <4> QED
        BY <4>1, <4>2
    <3> QED
      BY <1>q, <3>2, <3>3
  <2> QED
    BY <2>1, <2>2
<1>6. /\ IsFiniteSet(At(Z, P))
      /\ Cardinality(At(Q, P)) \in Nat /\ Cardinality(At(Z, P)) \in Nat
      /\ Cardinality(At(Z, P)) = Cardinality(At(Q, P)) + One(m \in P)
  <2> HIDE DEF x
  <2> QED
    BY <1>3, <1>4, <1>5, OneApart DEF One
<1> QED
  BY <1>6 DEF Z

(* Removing the first of a sequence: the others move one position. *)
LEMMA TailMoves ==
  ASSUME NEW I, NEW M, NEW Q \in Families(I, M), NEW P,
         NEW i \in I, Q[i] # <<>>
  PROVE  ExistsBijection(At(Take(Q, i), P), At(Q, P) \ {<<i, 1>>})
<1> USE DEF Families
<1> DEFINE Z == Take(Q, i)
           S == At(Z, P)
           T == At(Q, P) \ {<<i, 1>>}
           f == [x \in S |-> IF x[1] = i THEN <<i, x[2] + 1>> ELSE x]
<1>2. /\ Len(Q[i]) \in Nat \ {0} /\ Len(Z[i]) = Len(Q[i]) - 1
      /\ \A k \in 1 .. Len(Z[i]) : Z[i][k] = Q[i][k + 1]
      /\ \A j \in I \ {i} : Z[j] = Q[j]
  BY DEF Take
<1>1. Z \in [I -> Seq(M)]
  BY DEF Take
<1> HIDE DEF Z
<1>d. DOMAIN Z = I /\ \A j \in I : DOMAIN Z[j] = 1 .. Len(Z[j])
  BY <1>1
<1>3. \A x : x \in S <=> \E j \in I : \E k \in 1 .. Len(Z[j]) :
                            Z[j][k] \in P /\ x = <<j, k>>
  BY <1>d, PositionsOf
<1>4. \A x : x \in At(Q, P) <=> \E j \in I : \E k \in 1 .. Len(Q[j]) :
                                  Q[j][k] \in P /\ x = <<j, k>>
  BY PositionsOf
<1> HIDE DEF S
<1>5. ASSUME NEW x \in S PROVE f[x] \in T
  <2>1. PICK j \in I, k \in Nat :
         k \in 1 .. Len(Z[j]) /\ Z[j][k] \in P /\ x = <<j, k>>
    BY <1>3
  <2>2. CASE j = i
    <3>1. f[x] = <<i, k + 1>> /\ k + 1 \in 1 .. Len(Q[i]) /\ k + 1 # 1
      BY <1>2, <2>1, <2>2
    <3>2. Q[i][k + 1] \in P
      BY <1>2, <2>1, <2>2
    <3> QED
      BY <1>4, <3>1, <3>2
  <2>3. CASE j # i
    BY <1>2, <1>4, <2>1, <2>3
  <2> QED
    BY <2>2, <2>3
<1>6. ASSUME NEW x \in S, NEW y \in S, f[x] = f[y] PROVE x = y
  <2>1. PICK j \in I, k \in Nat :
         k \in 1 .. Len(Z[j]) /\ x = <<j, k>>
    BY <1>3
  <2>2. PICK l \in I, n \in Nat :
         n \in 1 .. Len(Z[l]) /\ y = <<l, n>>
    BY <1>3
  <2>3. k \in Int /\ n \in Int
    OBVIOUS
  <2> QED
    BY <1>6, <2>1, <2>2, <2>3
<1>7. ASSUME NEW y \in T PROVE \E x \in S : f[x] = y
  <2>1. PICK j \in I, k \in Nat :
         k \in 1 .. Len(Q[j]) /\ Q[j][k] \in P /\ y = <<j, k>>
    BY <1>4
  <2>2. CASE j = i
    <3>1. k # 1
      BY <2>1, <2>2
    <3>2. k - 1 \in 1 .. Len(Z[i]) /\ Z[i][k - 1] \in P /\ (k - 1) + 1 = k
      BY <1>2, <2>1, <2>2, <3>1
    <3>3. <<i, k - 1>> \in S
      BY <1>3, <3>2
    <3> QED
      BY <2>1, <2>2, <3>2, <3>3
  <2>3. CASE j # i
    <3>1. y \in S
      BY <1>2, <1>3, <2>1, <2>3
    <3> QED
      BY <2>1, <2>3, <3>1
  <2> QED
    BY <2>2, <2>3
<1>8. f \in Bijection(S, T)
  <2>1. f \in [S -> T]
    BY <1>5
  <2> HIDE DEF f, T
  <2> QED
    BY <1>6, <1>7, <2>1, Fun_IsBij
<1> QED
  BY <1>8, Fun_ExistsBij DEF S, Z

LEMMA TailCounts ==
  ASSUME NEW I, NEW M, NEW Q \in Families(I, M), NEW P,
         NEW i \in I, Q[i] # <<>>
  PROVE  /\ IsFiniteSet(At(Q, P)) <=> IsFiniteSet(At(Take(Q, i), P))
         /\ IsFiniteSet(At(Q, P)) =>
              /\ Cardinality(At(Q, P)) \in Nat
              /\ Cardinality(At(Take(Q, i), P)) \in Nat
              /\ Cardinality(At(Q, P)) =
                   Cardinality(At(Take(Q, i), P)) + One(Head(Q[i]) \in P)
<1> DEFINE A == At(Q, P)
           B == At(Take(Q, i), P)
           x == <<i, 1>>
<1>1. x \in A <=> Head(Q[i]) \in P
  <2>1. i \in DOMAIN Q /\ 1 \in DOMAIN Q[i] /\ Head(Q[i]) = Q[i][1]
    BY DEF Families
  <2> QED
    BY <2>1, PositionsOf
<1>2. ExistsBijection(B, A \ {x})
  BY TailMoves
<1> HIDE DEF A, B, x
<1>3. ExistsBijection(A \ {x}, B)
  BY <1>2, Fun_ExistsBijSymmetric
<1>4. ASSUME IsFiniteSet(A)
      PROVE  /\ IsFiniteSet(B) /\ Cardinality(A) \in Nat /\ Cardinality(B) \in Nat
             /\ Cardinality(A) = Cardinality(B) + One(x \in A)
  <2>1. /\ IsFiniteSet(A \ {x}) /\ Cardinality(A) \in Nat
        /\ Cardinality(A \ {x}) = Cardinality(A) - One(x \in A)
    BY <1>4, FS_RemoveElement, FS_CardinalityType DEF One
  <2>2. IsFiniteSet(B) /\ Cardinality(B) = Cardinality(A \ {x})
    BY <1>3, <2>1, FS_Bijection
  <2>3. Cardinality(B) \in Nat
    BY <2>2, FS_CardinalityType
  <2> QED
    BY <2>1, <2>2, <2>3 DEF One
<1>5. ASSUME IsFiniteSet(B) PROVE IsFiniteSet(A)
  <2>1. IsFiniteSet(A \ {x})
    BY <1>2, <1>5, FS_Bijection
  <2>2. IsFiniteSet((A \ {x}) \cup {x}) /\ A \in SUBSET ((A \ {x}) \cup {x})
    BY <2>1, FS_AddElement
  <2> QED
    BY <2>2, FS_Subset
<1> QED
  BY <1>1, <1>4, <1>5 DEF A, B

-----------------------------------------------------------------------------
(* The invariant.                                                          *)

(* A worker that does not wait is counted by idle, by its report or the    *)
(* task on its way, or as running.                                         *)
Reports == {m \in Messages : m.tag = "WORKER_AVAILABLE"}
Orders == {m \in Messages : m.tag = "EXECUTE_TASK"}
Running == {w \in Workers : worker[w] \in {"starts", "works"}}

WorkersCounted ==
  /\ IsFiniteSet(At(toMaster, Reports)) /\ IsFiniteSet(At(toWorker, Orders))
  /\ idle + Cardinality(At(toMaster, Reports)) + Cardinality(At(toWorker, Orders))
       + Cardinality(Running) = n_cores - 1

(* The four places of the intervals with cell c. *)
Stack == [i \in {0} |-> stack]    \* a family of one
With(c) == {t \in Intervals : Covers(t, c)}
Carrying(c) == {m \in Messages : Covers(m.task, c)}
Having(c) == {w \in Workers : Covers(local[w], c)}

CountedOnce ==
  \A c \in Cells :
    /\ IsFiniteSet(At(Stack, With(c)))
    /\ IsFiniteSet(At(toMaster, Carrying(c)))
    /\ IsFiniteSet(At(toWorker, Carrying(c)))
    /\ Cardinality(At(Stack, With(c))) + Cardinality(At(toMaster, Carrying(c)))
         + Cardinality(At(toWorker, Carrying(c))) + Cardinality(Having(c))
         + total_area[c] = 1

(* Only reports carry no work, and the last message of a worker that does  *)
(* not work is its report.                                                 *)
IsWork(t) == t[1] < t[2]

ToMasterShaped ==
  \A w \in Workers : \A k \in 1 .. Len(toMaster[w]) :
    \/ /\ toMaster[w][k].tag = "WORKER_AVAILABLE"
       /\ IsWork(toMaster[w][k].task) \/ toMaster[w][k].task = Nothing
    \/ toMaster[w][k].tag = "ADD_TASK" /\ IsWork(toMaster[w][k].task)

ToWorkerShaped ==
  \A w \in Workers : \A k \in 1 .. Len(toWorker[w]) :
    \/ toWorker[w][k].tag = "EXECUTE_TASK" /\ IsWork(toWorker[w][k].task)
    \/ toWorker[w][k] = Message("NO_MORE_TASKS", Nothing)

StackShaped == \A k \in 1 .. Len(stack) : IsWork(stack[k])

WorkersShaped ==
  \A w \in Workers :
    /\ IF worker[w] = "works" THEN IsWork(local[w]) ELSE local[w] = Nothing
    /\ toMaster[w] # <<>> /\ worker[w] # "works" =>
         toMaster[w][Len(toMaster[w])].tag = "WORKER_AVAILABLE"

MasterShaped == master # "receive" => idle = n_cores - 1

WorkInv == /\ TypeOK /\ IdleInv
           /\ WorkersCounted /\ CountedOnce
           /\ ToMasterShaped /\ ToWorkerShaped /\ StackShaped
           /\ WorkersShaped /\ MasterShaped

LEMMA Constants ==
  /\ Workers \subseteq Nat /\ IsFiniteSet(Workers)
  /\ Cardinality(Workers) = n_cores - 1
  /\ Expected \in Nat /\ n_cores - 1 \in Nat \ {0}
<1>1. IsFiniteSet(1 .. (n_cores - 1)) /\ Cardinality(1 .. (n_cores - 1)) = n_cores - 1
  <2>1. /\ 1 \in Int /\ n_cores - 1 \in Int /\ ~ (1 > n_cores - 1)
        /\ (n_cores - 1) - 1 + 1 = n_cores - 1
    BY QuadratureAssumption
  <2> QED
    BY <2>1, FS_Interval
<1>2. n_cores * Width \in Nat
  BY QuadratureAssumption
<1> QED
  BY <1>1, <1>2, QuadratureAssumption DEF Workers, Expected

(* The first tasks lie side by side: cell c is in one. *)
LEMMA FirstTasks ==
  /\ \A i \in 0 .. (n_cores - 1) : FirstTask(i) \in Intervals /\ IsWork(FirstTask(i))
  /\ \A c \in Cells : \E i \in 0 .. (n_cores - 1) :
       \A j \in 0 .. (n_cores - 1) : Covers(FirstTask(j), c) <=> j = i
<1>1. \A i, j \in Nat : i <= j => i * Width <= j * Width
  <2> SUFFICES ASSUME NEW i \in Nat, NEW j \in Nat, i <= j
               PROVE  i * Width <= j * Width
    OBVIOUS
  <2>1. PICK d \in Nat : j = i + d
    <3>1. j - i \in Nat /\ j = i + (j - i)
      OBVIOUS
    <3> QED
      BY <3>1
  <2>2. (i + d) * Width = i * Width + d * Width /\ d * Width \in Nat /\ i * Width \in Nat
    BY QuadratureAssumption
  <2> QED
    BY <2>1, <2>2
<1>2. \A i \in Nat : /\ i * Width \in Nat /\ (i + 1) * Width = i * Width + Width
  BY QuadratureAssumption
<1>3. ASSUME NEW i \in 0 .. (n_cores - 1)
      PROVE  FirstTask(i) \in Intervals /\ IsWork(FirstTask(i))
  <2>1. i \in Nat /\ i + 1 \in Nat /\ i + 1 <= n_cores /\ n_cores \in Nat
    BY QuadratureAssumption
  <2>2. (i + 1) * Width <= n_cores * Width
    BY <1>1, <2>1
  <2> QED
    BY <1>2, <2>1, <2>2, QuadratureAssumption
       DEF FirstTask, Intervals, Expected, IsWork
<1>4. ASSUME NEW c \in Cells
      PROVE  \E i \in 0 .. (n_cores - 1) :
               \A j \in 0 .. (n_cores - 1) : Covers(FirstTask(j), c) <=> j = i
  <2> DEFINE i == c \div Width
  <2>1. c \in Nat /\ c < n_cores * Width
    BY Constants DEF Cells, Expected
  <2>2. i \in Nat /\ i * Width <= c /\ c < (i + 1) * Width
    BY <2>1, QuadratureAssumption
  <2> HIDE DEF i
  <2>3. i \in 0 .. (n_cores - 1)
    <3>1. i < n_cores
      <4>1. ~ (n_cores <= i)
        BY <1>1, <2>1, <2>2, QuadratureAssumption
      <4> QED
        BY <2>2, <4>1, QuadratureAssumption
    <3> QED
      BY <2>2, <3>1, QuadratureAssumption
  <2>4. ASSUME NEW j \in 0 .. (n_cores - 1)
        PROVE  Covers(FirstTask(j), c) <=> j = i
    <3>1. Covers(FirstTask(j), c) <=> j * Width <= c /\ c < (j + 1) * Width
      BY DEF Covers, FirstTask
    <3>2. CASE j < i
      <4>1. (j + 1) * Width <= i * Width
        <5>1. j \in Nat /\ j + 1 \in Nat /\ j + 1 <= i
          BY <2>2, <3>2
        <5> QED
          BY <1>1, <2>2, <5>1
      <4>2. (j + 1) * Width \in Nat /\ i * Width \in Nat
        BY <1>2, <2>2
      <4> QED
        BY <2>1, <2>2, <3>1, <3>2, <4>1, <4>2
    <3>3. CASE i < j
      <4>1. (i + 1) * Width <= j * Width
        <5>1. j \in Nat /\ i + 1 \in Nat /\ i + 1 <= j
          BY <2>2, <3>3
        <5> QED
          BY <1>1, <5>1
      <4>2. (i + 1) * Width \in Nat /\ j * Width \in Nat
        BY <1>2, <2>2
      <4> QED
        BY <2>1, <2>2, <3>1, <3>3, <4>1, <4>2
    <3> QED
      BY <2>2, <3>1, <3>2, <3>3
  <2> QED
    BY <2>3, <2>4
<1> QED
  BY <1>3, <1>4

LEMMA NothingAt ==
  ASSUME NEW Q, NEW P, \A i \in DOMAIN Q : Q[i] = <<>>
  PROVE  At(Q, P) = {} /\ IsFiniteSet(At(Q, P)) /\ Cardinality(At(Q, P)) = 0
<1>1. \A i \in DOMAIN Q : DOMAIN Q[i] = {}
  OBVIOUS
<1>2. At(Q, P) = {}
  BY <1>1, PositionsOf
<1> QED
  BY <1>2, FS_EmptySet

LEMMA WorkInit == Init => WorkInv
<1> SUFFICES ASSUME Init PROVE WorkInv
  OBVIOUS
<1>1. /\ stack \in Seq(Intervals) /\ Len(stack) = n_cores
      /\ \A k \in 1 .. n_cores : stack[k] = FirstTask(n_cores - k)
  <2>1. \A k \in 1 .. n_cores : n_cores - k \in 0 .. (n_cores - 1)
    BY QuadratureAssumption
  <2> QED
    BY <2>1, FirstTasks, QuadratureAssumption DEF Init
<1>2. TypeOK
  <2>1. Nothing \in Intervals
    BY Constants DEF Nothing, Intervals
  <2>2. 0 \in 0 .. (n_cores - 1)
    BY Constants
  <2> QED
    BY <1>1, <2>1, <2>2 DEF Init, TypeOK
<1>3. WorkersCounted
  <2>1. Running = Workers
    BY DEF Init, Running
  <2>2. /\ IsFiniteSet(At(toMaster, Reports)) /\ Cardinality(At(toMaster, Reports)) = 0
        /\ IsFiniteSet(At(toWorker, Orders)) /\ Cardinality(At(toWorker, Orders)) = 0
    <3>1. /\ \A i \in DOMAIN toMaster : toMaster[i] = <<>>
          /\ \A i \in DOMAIN toWorker : toWorker[i] = <<>>
      BY DEF Init
    <3> QED
      BY <3>1, NothingAt
  <2>3. idle = 0
    BY DEF Init
  <2> QED
    BY <2>1, <2>2, <2>3, Constants DEF WorkersCounted
<1>4. CountedOnce
  <2> SUFFICES ASSUME NEW c \in Cells
               PROVE  /\ IsFiniteSet(At(Stack, With(c)))
                      /\ IsFiniteSet(At(toMaster, Carrying(c)))
                      /\ IsFiniteSet(At(toWorker, Carrying(c)))
                      /\ Cardinality(At(Stack, With(c)))
                           + Cardinality(At(toMaster, Carrying(c)))
                           + Cardinality(At(toWorker, Carrying(c)))
                           + Cardinality(Having(c)) + total_area[c] = 1
    BY DEF CountedOnce
  <2>1. /\ IsFiniteSet(At(toMaster, Carrying(c)))
        /\ Cardinality(At(toMaster, Carrying(c))) = 0
        /\ IsFiniteSet(At(toWorker, Carrying(c)))
        /\ Cardinality(At(toWorker, Carrying(c))) = 0
    <3>1. /\ \A i \in DOMAIN toMaster : toMaster[i] = <<>>
          /\ \A i \in DOMAIN toWorker : toWorker[i] = <<>>
      BY DEF Init
    <3> QED
      BY <3>1, NothingAt
  <2>2. Cardinality(Having(c)) = 0 /\ total_area[c] = 0
    <3>1. Having(c) = {}
      BY DEF Init, Having, Covers, Nothing, Cells
    <3> QED
      BY <3>1, FS_EmptySet DEF Init
  <2>3. /\ IsFiniteSet(At(Stack, With(c)))
        /\ Cardinality(At(Stack, With(c))) = 1
    <3>1. PICK i \in 0 .. (n_cores - 1) :
            \A j \in 0 .. (n_cores - 1) : Covers(FirstTask(j), c) <=> j = i
      BY FirstTasks
    <3>2. \A k \in 1 .. n_cores : stack[k] \in With(c) <=> k = n_cores - i
      <4> SUFFICES ASSUME NEW k \in 1 .. n_cores
                   PROVE  stack[k] \in With(c) <=> k = n_cores - i
        OBVIOUS
      <4>1. n_cores - k \in 0 .. (n_cores - 1) /\ stack[k] = FirstTask(n_cores - k)
        BY <1>1, QuadratureAssumption
      <4>2. stack[k] \in With(c) <=> Covers(FirstTask(n_cores - k), c)
        BY <4>1, FirstTasks DEF With
      <4> QED
        BY <3>1, <4>1, <4>2, QuadratureAssumption
    <3>3. n_cores - i \in 1 .. n_cores
      BY QuadratureAssumption
    <3>4. \A x : x \in At(Stack, With(c)) <=>
                   \E k \in 1 .. n_cores : stack[k] \in With(c) /\ x = <<0, k>>
      <4>1. DOMAIN Stack = {0} /\ Stack[0] = stack /\ DOMAIN stack = 1 .. n_cores
        BY <1>1 DEF Stack
      <4>2. \A x : x \in At(Stack, With(c)) <=>
                     \E j \in DOMAIN Stack : \E k \in DOMAIN Stack[j] :
                       Stack[j][k] \in With(c) /\ x = <<j, k>>
        BY PositionsOf
      <4> QED
        BY <4>1, <4>2
    <3>5. At(Stack, With(c)) = {<<0, n_cores - i>>}
      BY <3>2, <3>3, <3>4
    <3> QED
      BY <3>5, FS_Singleton
  <2> QED
    BY <2>1, <2>2, <2>3
<1>5. StackShaped
  <2>1. \A k \in 1 .. n_cores : n_cores - k \in 0 .. (n_cores - 1)
    BY QuadratureAssumption
  <2> QED
    BY <1>1, <2>1, FirstTasks DEF StackShaped
<1>6. ToMasterShaped /\ ToWorkerShaped /\ WorkersShaped /\ MasterShaped
  BY DEF Init, ToMasterShaped, ToWorkerShaped, WorkersShaped, MasterShaped
<1> QED
  BY <1>2, <1>3, <1>4, <1>5, <1>6, IdleInit DEF WorkInv

-----------------------------------------------------------------------------
(* The counts under the steps.                                             *)

(* Only worker w moves. *)
LEMMA RunningMoves ==
  ASSUME NEW w \in Workers, \A v \in Workers \ {w} : worker'[v] = worker[v]
  PROVE  /\ Cardinality(Running) \in Nat /\ Cardinality(Running') \in Nat
         /\ Cardinality(Running') = Cardinality(Running)
                                    + One(w \in Running') - One(w \in Running)
<1>1. Running \in SUBSET Workers /\ Running \ {w} = Running' \ {w}
  BY DEF Running
<1>2. IsFiniteSet(Running)
  BY <1>1, Constants, FS_Subset
<1> QED
  BY <1>1, <1>2, OneApart

LEMMA HavingMoves ==
  ASSUME NEW c, NEW w \in Workers, \A v \in Workers \ {w} : local'[v] = local[v]
  PROVE  /\ Cardinality(Having(c)) \in Nat /\ Cardinality(Having(c)') \in Nat
         /\ Cardinality(Having(c)') = Cardinality(Having(c))
              + One(Covers(local'[w], c)) - One(Covers(local[w], c))
<1>1. /\ Having(c) \in SUBSET Workers /\ Having(c) \ {w} = Having(c)' \ {w}
      /\ w \in Having(c) <=> Covers(local[w], c)
      /\ w \in Having(c)' <=> Covers(local'[w], c)
  BY DEF Having, Covers
<1>2. IsFiniteSet(Having(c))
  BY <1>1, Constants, FS_Subset
<1>3. Cardinality(Having(c)') = Cardinality(Having(c))
              + One(w \in Having(c)') - One(w \in Having(c))
  BY <1>1, <1>2, OneApart
<1> QED
  BY <1>1, <1>2, <1>3, OneApart DEF One

(* A message m sent to the master, or to a worker, and one received. *)
LEMMA SendCounts ==
  ASSUME NEW Q \in [Workers -> Seq(Messages)], NEW w \in Workers,
         NEW m \in Messages
  PROVE  /\ Put(Q, w, m) \in [Workers -> Seq(Messages)]
         /\ \A P : IsFiniteSet(At(Q, P)) =>
              /\ IsFiniteSet(At(Put(Q, w, m), P))
              /\ Cardinality(At(Q, P)) \in Nat
              /\ Cardinality(At(Put(Q, w, m), P)) \in Nat
              /\ Cardinality(At(Put(Q, w, m), P)) =
                   Cardinality(At(Q, P)) + One(m \in P)
<1>1. Q \in Families(Workers, Messages)
  BY DEF Families
<1>2. Put(Q, w, m) \in [Workers -> Seq(Messages)]
  BY DEF Put
<1> QED
  BY <1>1, <1>2, AppendCounts

LEMMA ReceiveCounts ==
  ASSUME NEW Q \in [Workers -> Seq(Messages)], NEW w \in Workers, Q[w] # <<>>
  PROVE  /\ Take(Q, w) \in [Workers -> Seq(Messages)] /\ Head(Q[w]) \in Messages
         /\ \A P : IsFiniteSet(At(Q, P)) =>
              /\ IsFiniteSet(At(Take(Q, w), P))
              /\ Cardinality(At(Q, P)) \in Nat
              /\ Cardinality(At(Take(Q, w), P)) \in Nat
              /\ Cardinality(At(Q, P)) =
                   Cardinality(At(Take(Q, w), P)) + One(Head(Q[w]) \in P)
<1>1. Q \in Families(Workers, Messages)
  BY DEF Families
<1>2. Take(Q, w) \in [Workers -> Seq(Messages)] /\ Head(Q[w]) \in Messages
  BY DEF Take
<1> QED
  BY <1>1, <1>2, TailCounts

LEMMA Kinds ==
  /\ \A m \in Messages : /\ m \in Reports <=> m.tag = "WORKER_AVAILABLE"
                         /\ m \in Orders <=> m.tag = "EXECUTE_TASK"
                         /\ \A c : m \in Carrying(c) <=> Covers(m.task, c)
  /\ \A t \in Intervals : \A c : t \in With(c) <=> Covers(t, c)
  /\ \A c \in Cells : ~ Covers(Nothing, c)
  /\ Nothing \in Intervals
  /\ \A tag \in {"WORKER_AVAILABLE", "ADD_TASK", "EXECUTE_TASK", "NO_MORE_TASKS"},
        t \in Intervals :
       /\ Message(tag, t) \in Messages
       /\ Message(tag, t).tag = tag /\ Message(tag, t).task = t
<1>1. Nothing \in Intervals
  BY Constants DEF Nothing, Intervals
<1>2. \A c \in Cells : ~ Covers(Nothing, c)
  BY Constants DEF Covers, Nothing, Cells
<1> QED
  BY <1>1, <1>2 DEF Reports, Orders, Carrying, With, Messages, Message

(* The halves of curve_subarea share the cells of the interval. *)
LEMMA Halves ==
  ASSUME NEW t \in Intervals, t[2] - t[1] > 1
  PROVE  /\ <<t[1], Middle(t)>> \in Intervals /\ <<Middle(t), t[2]>> \in Intervals
         /\ IsWork(<<t[1], Middle(t)>>) /\ IsWork(<<Middle(t), t[2]>>)
         /\ \A c \in Cells : One(Covers(t, c)) =
              One(Covers(<<t[1], Middle(t)>>, c)) + One(Covers(<<Middle(t), t[2]>>, c))
<1>1. /\ t[1] \in Nat /\ t[2] \in Nat /\ t[2] <= Expected /\ Expected \in Nat
  BY Constants DEF Intervals
<1>2. Middle(t) \in Nat /\ t[1] < Middle(t) /\ Middle(t) < t[2]
  BY <1>1 DEF Middle
<1> QED
  BY <1>1, <1>2 DEF Intervals, IsWork, Covers, One, Cells

(* A task popped from a stack s. *)
LEMMA StackCounts ==
  ASSUME NEW s \in Seq(Intervals), s # <<>>, NEW P
  PROVE  LET A == At([i \in {0} |-> s], P)
             B == At([i \in {0} |-> Tail(s)], P)
         IN  /\ IsFiniteSet(A) <=> IsFiniteSet(B)
             /\ IsFiniteSet(A) => /\ Cardinality(A) \in Nat /\ Cardinality(B) \in Nat
                                  /\ Cardinality(A) = Cardinality(B) + One(Head(s) \in P)
<1> DEFINE Q == [i \in {0} |-> s]
<1>1. Q \in Families({0}, Intervals) /\ Q[0] = s
  BY DEF Families
<1>2. Take(Q, 0) = [i \in {0} |-> Tail(s)]
  BY DEF Take
<1> HIDE DEF Q
<1>3. /\ IsFiniteSet(At(Q, P)) <=> IsFiniteSet(At(Take(Q, 0), P))
      /\ IsFiniteSet(At(Q, P)) =>
           /\ Cardinality(At(Q, P)) \in Nat
           /\ Cardinality(At(Take(Q, 0), P)) \in Nat
           /\ Cardinality(At(Q, P)) =
                Cardinality(At(Take(Q, 0), P)) + One(Head(s) \in P)
  BY <1>1, TailCounts
<1> QED
  BY <1>2, <1>3 DEF Q

(* The task a worker is given, and the marked worker that is given one. *)
LEMMA MarkedWorker ==
  ASSUME AvailableOnes # {} PROVE Min(AvailableOnes) \in Workers
<1> DEFINE S == AvailableOnes
           T == {0 .. w : w \in S}
<1>1. S \subseteq Workers /\ S # {} /\ Workers \subseteq Nat
  BY Constants DEF AvailableOnes
<1>2. T \subseteq FiniteSubsetsOf(Nat) /\ T # {}
  <2>1. ASSUME NEW w \in S PROVE 0 .. w \in FiniteSubsetsOf(Nat)
    BY <1>1, FS_Interval DEF FiniteSubsetsOf
  <2> QED
    BY <1>1, <2>1
<1>3. PICK x \in T : \A y \in T : ~ (<<y, x>> \in StrictSubsetOrdering(Nat))
  <2> HIDE DEF T
  <2> QED
    BY <1>2, FS_StrictSubsetOrderingWellFounded, WFMin
<1>4. PICK w \in S : x = 0 .. w
  BY <1>3
<1>5. ASSUME NEW v \in S PROVE w <= v
  <2>1. v \in Nat /\ w \in Nat
    BY <1>1
  <2>2. SUFFICES ASSUME v < w PROVE FALSE
    BY <2>1
  <2>3. 0 .. v \subseteq 0 .. w /\ w \in 0 .. w /\ w \notin 0 .. v
    BY <2>1, <2>2
  <2>4. <<0 .. v, 0 .. w>> \in StrictSubsetOrdering(Nat)
    BY <2>1, <2>3 DEF StrictSubsetOrdering
  <2> QED
    BY <1>3, <1>4, <2>4
<1>6. Min(S) \in S
  BY <1>4, <1>5 DEF Min
<1> QED
  BY <1>1, <1>6

-----------------------------------------------------------------------------
(* Every step keeps the counts. *)

Counted == WorkersCounted /\ CountedOnce

(* Enough for a step of worker w to keep them. *)
LEMMA WorkerCounts ==
  ASSUME WorkInv, NEW w \in Workers,
         UNCHANGED <<stack, idle, total_area>>,
         \A v \in Workers \ {w} : worker'[v] = worker[v] /\ local'[v] = local[v],
         IsFiniteSet(At(toMaster', Reports)), IsFiniteSet(At(toWorker', Orders)),
         \A c \in Cells : /\ IsFiniteSet(At(toMaster', Carrying(c)))
                          /\ IsFiniteSet(At(toWorker', Carrying(c))),
         Cardinality(At(toMaster', Reports)) + Cardinality(At(toWorker', Orders))
             + One(w \in Running')
           = Cardinality(At(toMaster, Reports)) + Cardinality(At(toWorker, Orders))
             + One(w \in Running),
         \A c \in Cells :
           Cardinality(At(toMaster', Carrying(c))) + Cardinality(At(toWorker', Carrying(c)))
               + One(Covers(local'[w], c))
             = Cardinality(At(toMaster, Carrying(c)))
               + Cardinality(At(toWorker, Carrying(c))) + One(Covers(local[w], c))
  PROVE  Counted'
<1>1. WorkersCounted'
  <2>1. /\ IsFiniteSet(At(toMaster, Reports)) /\ IsFiniteSet(At(toWorker, Orders))
        /\ IsFiniteSet(At(toMaster', Reports)) /\ IsFiniteSet(At(toWorker', Orders))
    BY DEF WorkInv, WorkersCounted
  <2>2. /\ Cardinality(At(toMaster, Reports)) \in Nat
        /\ Cardinality(At(toWorker, Orders)) \in Nat
        /\ Cardinality(At(toMaster', Reports)) \in Nat
        /\ Cardinality(At(toWorker', Orders)) \in Nat
    BY <2>1, FS_CardinalityType
  <2>3. Cardinality(Running') = Cardinality(Running)
                                + One(w \in Running') - One(w \in Running)
        /\ Cardinality(Running) \in Nat /\ Cardinality(Running') \in Nat
    BY RunningMoves
  <2>4. idle' + Cardinality(At(toMaster', Reports)) + Cardinality(At(toWorker', Orders))
          + Cardinality(Running') = n_cores - 1
    <3>1. idle' = idle /\ idle \in Nat
      BY DEF WorkInv, IdleInv
    <3>2. idle + Cardinality(At(toMaster, Reports)) + Cardinality(At(toWorker, Orders))
            + Cardinality(Running) = n_cores - 1
      BY DEF WorkInv, WorkersCounted
    <3> QED
      BY <2>2, <2>3, <3>1, <3>2 DEF One
  <2>5. Reports' = Reports /\ Orders' = Orders
    BY DEF Reports, Orders
  <2> QED
    BY <2>1, <2>4, <2>5 DEF WorkersCounted
<1>2. CountedOnce'
  <2> SUFFICES ASSUME NEW c \in Cells
               PROVE  /\ IsFiniteSet(At(Stack', With(c)))
                      /\ IsFiniteSet(At(toMaster', Carrying(c)))
                      /\ IsFiniteSet(At(toWorker', Carrying(c)))
                      /\ Cardinality(At(Stack', With(c)))
                           + Cardinality(At(toMaster', Carrying(c)))
                           + Cardinality(At(toWorker', Carrying(c)))
                           + Cardinality(Having(c)') + total_area'[c] = 1
    <3>1. Cells' = Cells /\ \A c : With(c)' = With(c) /\ Carrying(c)' = Carrying(c)
      BY DEF Cells, With, Carrying, Covers
    <3> QED
      BY <3>1 DEF CountedOnce
  <2>1. /\ IsFiniteSet(At(Stack, With(c)))
        /\ IsFiniteSet(At(toMaster, Carrying(c)))
        /\ IsFiniteSet(At(toWorker, Carrying(c)))
        /\ Cardinality(At(Stack, With(c))) + Cardinality(At(toMaster, Carrying(c)))
             + Cardinality(At(toWorker, Carrying(c))) + Cardinality(Having(c))
             + total_area[c] = 1
    BY DEF WorkInv, CountedOnce
  <2>2. /\ IsFiniteSet(At(toMaster', Carrying(c)))
        /\ IsFiniteSet(At(toWorker', Carrying(c)))
    BY <2>1
  <2>3. Stack' = Stack /\ total_area'[c] = total_area[c] /\ total_area[c] \in Nat
    BY DEF Stack, WorkInv, TypeOK
  <2>4. /\ Cardinality(At(Stack, With(c))) \in Nat
        /\ Cardinality(At(toMaster, Carrying(c))) \in Nat
        /\ Cardinality(At(toWorker, Carrying(c))) \in Nat
        /\ Cardinality(At(toMaster', Carrying(c))) \in Nat
        /\ Cardinality(At(toWorker', Carrying(c))) \in Nat
    BY <2>1, <2>2, FS_CardinalityType
  <2>5. /\ Cardinality(Having(c)) \in Nat /\ Cardinality(Having(c)') \in Nat
        /\ Cardinality(Having(c)') = Cardinality(Having(c))
             + One(Covers(local'[w], c)) - One(Covers(local[w], c))
    BY HavingMoves
  <2>6. Cardinality(At(toMaster', Carrying(c))) + Cardinality(At(toWorker', Carrying(c)))
               + One(Covers(local'[w], c))
             = Cardinality(At(toMaster, Carrying(c)))
               + Cardinality(At(toWorker, Carrying(c))) + One(Covers(local[w], c))
    OBVIOUS
  <2>7. Cardinality(At(Stack', With(c)))
           + Cardinality(At(toMaster', Carrying(c)))
           + Cardinality(At(toWorker', Carrying(c)))
           + Cardinality(Having(c)') + total_area'[c] = 1
    BY <2>1, <2>3, <2>4, <2>5, <2>6 DEF One
  <2> QED
    BY <2>1, <2>2, <2>3, <2>7
<1> QED
  BY <1>1, <1>2 DEF Counted

(* What WorkInv says of the sets that the steps count, and its types. *)
LEMMA Finite ==
  ASSUME WorkInv
  PROVE  /\ toMaster \in [Workers -> Seq(Messages)]
         /\ toWorker \in [Workers -> Seq(Messages)]
         /\ local \in [Workers -> Intervals] /\ stack \in Seq(Intervals)
         /\ IsFiniteSet(At(toMaster, Reports)) /\ IsFiniteSet(At(toWorker, Orders))
         /\ \A c \in Cells : /\ IsFiniteSet(At(Stack, With(c)))
                             /\ IsFiniteSet(At(toMaster, Carrying(c)))
                             /\ IsFiniteSet(At(toWorker, Carrying(c)))
BY DEF WorkInv, TypeOK, WorkersCounted, CountedOnce

(* Message m is sent to the master; nothing is sent to a worker. *)
Sent(m) ==
  /\ IsFiniteSet(At(toMaster', Reports))
  /\ Cardinality(At(toMaster, Reports)) \in Nat
  /\ Cardinality(At(toMaster', Reports)) =
       Cardinality(At(toMaster, Reports)) + One(m.tag = "WORKER_AVAILABLE")
  /\ \A c \in Cells :
       /\ IsFiniteSet(At(toMaster', Carrying(c)))
       /\ Cardinality(At(toMaster, Carrying(c))) \in Nat
       /\ Cardinality(At(toMaster', Carrying(c))) =
            Cardinality(At(toMaster, Carrying(c))) + One(Covers(m.task, c))

NothingOrdered ==
  /\ IsFiniteSet(At(toWorker', Orders))
  /\ Cardinality(At(toWorker', Orders)) = Cardinality(At(toWorker, Orders))
  /\ Cardinality(At(toWorker, Orders)) \in Nat
  /\ \A c \in Cells :
       /\ IsFiniteSet(At(toWorker', Carrying(c)))
       /\ Cardinality(At(toWorker, Carrying(c))) \in Nat
       /\ Cardinality(At(toWorker', Carrying(c))) =
            Cardinality(At(toWorker, Carrying(c)))

LEMMA WorkerStepCounts ==
  ASSUME WorkInv, NEW w \in Workers, WorkerStep(w) PROVE Counted'
<1>1. ASSUME NEW m \in Messages,
             toMaster' = [toMaster EXCEPT ![w] = Append(@, m)]
      PROVE  Sent(m)
  <2>1. toMaster' = Put(toMaster, w, m)
    BY <1>1 DEF Put
  <2>2. /\ m \in Reports <=> m.tag = "WORKER_AVAILABLE"
        /\ \A c : m \in Carrying(c) <=> Covers(m.task, c)
    BY Kinds
  <2>3. \A P : IsFiniteSet(At(toMaster, P)) =>
                 /\ IsFiniteSet(At(toMaster', P))
                 /\ Cardinality(At(toMaster, P)) \in Nat
                 /\ Cardinality(At(toMaster', P)) =
                      Cardinality(At(toMaster, P)) + One(m \in P)
    <3>1. toMaster \in [Workers -> Seq(Messages)]
      BY Finite
    <3>2. \A P : IsFiniteSet(At(toMaster, P)) =>
                   /\ IsFiniteSet(At(Put(toMaster, w, m), P))
                   /\ Cardinality(At(toMaster, P)) \in Nat
                   /\ Cardinality(At(Put(toMaster, w, m), P)) =
                        Cardinality(At(toMaster, P)) + One(m \in P)
      BY <3>1, SendCounts
    <3> QED
      BY <2>1, <3>2
  <2>4. One(m \in Reports) = One(m.tag = "WORKER_AVAILABLE")
    BY <2>2 DEF One
  <2>5. \A c : One(m \in Carrying(c)) = One(Covers(m.task, c))
    BY <2>2 DEF One
  <2>6. /\ IsFiniteSet(At(toMaster, Reports))
        /\ \A c \in Cells : IsFiniteSet(At(toMaster, Carrying(c)))
    BY Finite
  <2>7. /\ IsFiniteSet(At(toMaster', Reports))
        /\ Cardinality(At(toMaster, Reports)) \in Nat
        /\ Cardinality(At(toMaster', Reports)) =
             Cardinality(At(toMaster, Reports)) + One(m.tag = "WORKER_AVAILABLE")
    BY <2>3, <2>4, <2>6
  <2>8. ASSUME NEW c \in Cells
        PROVE  /\ IsFiniteSet(At(toMaster', Carrying(c)))
               /\ Cardinality(At(toMaster, Carrying(c))) \in Nat
               /\ Cardinality(At(toMaster', Carrying(c))) =
                    Cardinality(At(toMaster, Carrying(c))) + One(Covers(m.task, c))
    BY <2>3, <2>5, <2>6
  <2> QED
    BY <2>7, <2>8 DEF Sent
<1>2. ASSUME UNCHANGED toWorker
      PROVE  NothingOrdered
  BY <1>2, Finite, FS_CardinalityType DEF NothingOrdered
<1>3. CASE Start(w)
  <2> DEFINE m == Message("WORKER_AVAILABLE", Nothing)
  <2>1. /\ m \in Messages /\ m.tag = "WORKER_AVAILABLE" /\ m.task = Nothing
        /\ \A c \in Cells : ~ Covers(m.task, c)
    BY Kinds
  <2>2. /\ toMaster' = [toMaster EXCEPT ![w] = Append(@, m)] /\ UNCHANGED toWorker
        /\ UNCHANGED <<stack, idle, total_area>> /\ UNCHANGED local
        /\ worker[w] = "starts" /\ worker' = [worker EXCEPT ![w] = "waits"]
    BY <1>3 DEF Start, Send, masterVars
  <2>3. w \in Running /\ w \notin Running'
    BY <2>2 DEF Running, WorkInv, TypeOK
  <2>4. \A v \in Workers \ {w} : worker'[v] = worker[v] /\ local'[v] = local[v]
    BY <2>2
  <2> HIDE DEF m
  <2>s. Sent(m) /\ NothingOrdered
    BY <1>1, <1>2, <2>1, <2>2
  <2>a. Cardinality(At(toMaster', Reports)) + Cardinality(At(toWorker', Orders))
          + One(w \in Running')
        = Cardinality(At(toMaster, Reports)) + Cardinality(At(toWorker, Orders))
          + One(w \in Running)
    BY <2>s, <2>1, <2>3 DEF One, Sent, NothingOrdered
  <2>b. ASSUME NEW c \in Cells
       PROVE  Cardinality(At(toMaster', Carrying(c)))
                  + Cardinality(At(toWorker', Carrying(c))) + One(Covers(local'[w], c))
                = Cardinality(At(toMaster, Carrying(c)))
                  + Cardinality(At(toWorker, Carrying(c))) + One(Covers(local[w], c))
    <3>1. /\ Cardinality(At(toMaster, Carrying(c))) \in Nat
          /\ Cardinality(At(toMaster', Carrying(c))) =
               Cardinality(At(toMaster, Carrying(c))) + One(Covers(m.task, c))
          /\ Cardinality(At(toWorker, Carrying(c))) \in Nat
          /\ Cardinality(At(toWorker', Carrying(c))) =
               Cardinality(At(toWorker, Carrying(c)))
      BY <2>s DEF Sent, NothingOrdered
    <3>2. One(Covers(local[w], c)) =
            One(Covers(local'[w], c)) + One(Covers(m.task, c))
      BY <2>1, <2>2 DEF One
    <3>3. One(Covers(local'[w], c)) \in Nat /\ One(Covers(m.task, c)) \in Nat
      BY DEF One
    <3> QED
      BY <3>1, <3>2, <3>3
  <2> QED
    BY <2>s, <2>1, <2>2, <2>4, <2>a, <2>b, WorkerCounts DEF Sent, NothingOrdered
<1>4. CASE DivideTask(w)
  <2> DEFINE t == local[w]
             m == Message("ADD_TASK", <<Middle(t), t[2]>>)
             l == <<t[1], Middle(t)>>
  <2>1. /\ toMaster' = [toMaster EXCEPT ![w] = Append(@, m)] /\ UNCHANGED toWorker
        /\ UNCHANGED <<stack, idle, total_area>> /\ UNCHANGED worker
        /\ t[2] - t[1] > 1 /\ local' = [local EXCEPT ![w] = l]
    BY <1>4 DEF DivideTask, Send, masterVars
  <2>2. t \in Intervals
    BY Finite
  <2>3. /\ <<Middle(t), t[2]>> \in Intervals
        /\ \A c \in Cells : One(Covers(t, c)) =
                              One(Covers(l, c)) + One(Covers(<<Middle(t), t[2]>>, c))
    BY <2>1, <2>2, Halves
  <2>4. m \in Messages /\ m.tag = "ADD_TASK" /\ m.task = <<Middle(t), t[2]>>
    BY <2>3, Kinds
  <2>5. /\ local'[w] = l /\ (w \in Running <=> w \in Running')
        /\ \A v \in Workers \ {w} : worker'[v] = worker[v] /\ local'[v] = local[v]
    BY <2>1, Finite DEF Running
  <2>6. \A c \in Cells : One(Covers(local[w], c)) =
                           One(Covers(local'[w], c)) + One(Covers(m.task, c))
    <3>1. t = local[w] /\ l = local'[w] /\ m.task = <<Middle(t), t[2]>>
      BY <2>4, <2>5
    <3> HIDE DEF m, t, l
    <3> QED
      BY <2>3, <3>1
  <2> HIDE DEF m, t, l
  <2>s. Sent(m) /\ NothingOrdered
    BY <1>1, <1>2, <2>1, <2>4
  <2>a. Cardinality(At(toMaster', Reports)) + Cardinality(At(toWorker', Orders))
          + One(w \in Running')
        = Cardinality(At(toMaster, Reports)) + Cardinality(At(toWorker, Orders))
          + One(w \in Running)
    BY <2>s, <2>1, <2>4, <2>5, <2>6 DEF One, Sent, NothingOrdered
  <2>b. ASSUME NEW c \in Cells
       PROVE  Cardinality(At(toMaster', Carrying(c)))
                  + Cardinality(At(toWorker', Carrying(c))) + One(Covers(local'[w], c))
                = Cardinality(At(toMaster, Carrying(c)))
                  + Cardinality(At(toWorker, Carrying(c))) + One(Covers(local[w], c))
    <3>1. /\ Cardinality(At(toMaster, Carrying(c))) \in Nat
          /\ Cardinality(At(toMaster', Carrying(c))) =
               Cardinality(At(toMaster, Carrying(c))) + One(Covers(m.task, c))
          /\ Cardinality(At(toWorker, Carrying(c))) \in Nat
          /\ Cardinality(At(toWorker', Carrying(c))) =
               Cardinality(At(toWorker, Carrying(c)))
      BY <2>s DEF Sent, NothingOrdered
    <3>2. One(Covers(local[w], c)) =
            One(Covers(local'[w], c)) + One(Covers(m.task, c))
      BY <2>6
    <3>3. One(Covers(local'[w], c)) \in Nat /\ One(Covers(m.task, c)) \in Nat
      BY DEF One
    <3> QED
      BY <3>1, <3>2, <3>3
  <2> QED
    BY <2>s, <2>1, <2>4, <2>5, <2>a, <2>b, WorkerCounts DEF Sent, NothingOrdered
<1>5. CASE FinishTask(w)
  <2> DEFINE m == Message("WORKER_AVAILABLE", local[w])
  <2>1. /\ toMaster' = [toMaster EXCEPT ![w] = Append(@, m)] /\ UNCHANGED toWorker
        /\ UNCHANGED <<stack, idle, total_area>>
        /\ local' = [local EXCEPT ![w] = Nothing]
        /\ worker[w] = "works" /\ worker' = [worker EXCEPT ![w] = "waits"]
    BY <1>5 DEF FinishTask, Send, masterVars
  <2>2. m \in Messages /\ m.tag = "WORKER_AVAILABLE" /\ m.task = local[w]
    BY Kinds, Finite
  <2>3. w \in Running /\ w \notin Running'
    BY <2>1 DEF Running, WorkInv, TypeOK
  <2>4. /\ \A v \in Workers \ {w} : worker'[v] = worker[v] /\ local'[v] = local[v]
        /\ \A c \in Cells : ~ Covers(local'[w], c)
    BY <2>1, Kinds, Finite
  <2> HIDE DEF m
  <2>s. Sent(m) /\ NothingOrdered
    BY <1>1, <1>2, <2>1, <2>2
  <2>a. Cardinality(At(toMaster', Reports)) + Cardinality(At(toWorker', Orders))
          + One(w \in Running')
        = Cardinality(At(toMaster, Reports)) + Cardinality(At(toWorker, Orders))
          + One(w \in Running)
    BY <2>s, <2>1, <2>2, <2>3 DEF One, Sent, NothingOrdered
  <2>b. ASSUME NEW c \in Cells
       PROVE  Cardinality(At(toMaster', Carrying(c)))
                  + Cardinality(At(toWorker', Carrying(c))) + One(Covers(local'[w], c))
                = Cardinality(At(toMaster, Carrying(c)))
                  + Cardinality(At(toWorker, Carrying(c))) + One(Covers(local[w], c))
    <3>1. /\ Cardinality(At(toMaster, Carrying(c))) \in Nat
          /\ Cardinality(At(toMaster', Carrying(c))) =
               Cardinality(At(toMaster, Carrying(c))) + One(Covers(m.task, c))
          /\ Cardinality(At(toWorker, Carrying(c))) \in Nat
          /\ Cardinality(At(toWorker', Carrying(c))) =
               Cardinality(At(toWorker, Carrying(c)))
      BY <2>s DEF Sent, NothingOrdered
    <3>2. One(Covers(local[w], c)) =
            One(Covers(local'[w], c)) + One(Covers(m.task, c))
      BY <2>2, <2>4 DEF One
    <3>3. One(Covers(local'[w], c)) \in Nat /\ One(Covers(m.task, c)) \in Nat
      BY DEF One
    <3> QED
      BY <3>1, <3>2, <3>3
  <2> QED
    BY <2>s, <2>1, <2>2, <2>4, <2>a, <2>b, WorkerCounts DEF Sent, NothingOrdered
<1>6. CASE ReceiveTask(w)
  <2> DEFINE m == Head(toWorker[w])
  <2>1. /\ toWorker[w] # <<>> /\ toWorker' = Take(toWorker, w) /\ UNCHANGED toMaster
        /\ UNCHANGED <<stack, idle, total_area>> /\ worker[w] = "waits"
    BY <1>6 DEF ReceiveTask, Take, masterVars
  <2>2. m \in Messages /\ m = toWorker[w][1] /\ 1 \in 1 .. Len(toWorker[w])
    BY <2>1, Finite
  <2>3. /\ IsFiniteSet(At(toWorker', Orders))
        /\ Cardinality(At(toWorker, Orders)) \in Nat
        /\ Cardinality(At(toWorker', Orders)) \in Nat
        /\ Cardinality(At(toWorker, Orders)) =
             Cardinality(At(toWorker', Orders)) + One(m.tag = "EXECUTE_TASK")
        /\ \A c \in Cells :
             /\ IsFiniteSet(At(toWorker', Carrying(c)))
             /\ Cardinality(At(toWorker, Carrying(c))) \in Nat
             /\ Cardinality(At(toWorker', Carrying(c))) \in Nat
             /\ Cardinality(At(toWorker, Carrying(c))) =
                  Cardinality(At(toWorker', Carrying(c))) + One(Covers(m.task, c))
    <3>1. /\ m \in Orders <=> m.tag = "EXECUTE_TASK"
          /\ \A c : m \in Carrying(c) <=> Covers(m.task, c)
      BY <2>2, Kinds
    <3>2. One(m \in Orders) = One(m.tag = "EXECUTE_TASK")
      BY <3>1 DEF One
    <3>3. \A c : One(m \in Carrying(c)) = One(Covers(m.task, c))
      BY <3>1 DEF One
    <3>4. \A P : IsFiniteSet(At(toWorker, P)) =>
                   /\ IsFiniteSet(At(toWorker', P))
                   /\ Cardinality(At(toWorker, P)) \in Nat
                   /\ Cardinality(At(toWorker', P)) \in Nat
                   /\ Cardinality(At(toWorker, P)) =
                        Cardinality(At(toWorker', P)) + One(m \in P)
      BY <2>1, ReceiveCounts, Finite
    <3> HIDE DEF m
    <3> QED
      BY <3>2, <3>3, <3>4, Finite
  <2>4. /\ Cardinality(At(toMaster, Reports)) \in Nat
        /\ \A c \in Cells : Cardinality(At(toMaster, Carrying(c))) \in Nat
    BY Finite, FS_CardinalityType
  <2>5. local[w] = Nothing /\ \A c \in Cells : ~ Covers(local[w], c)
    BY <2>1, Kinds DEF WorkInv, WorkersShaped
  <2>6. w \notin Running
    BY <2>1 DEF Running
  <2>7. CASE /\ m.tag = "EXECUTE_TASK"
             /\ worker' = [worker EXCEPT ![w] = "works"]
             /\ local' = [local EXCEPT ![w] = m.task]
    <3>1. w \in Running' /\ local'[w] = m.task
      BY <2>7, Finite DEF Running, WorkInv, TypeOK
    <3>2. \A v \in Workers \ {w} : worker'[v] = worker[v] /\ local'[v] = local[v]
      BY <2>7
    <3> HIDE DEF m
    <3>a. Cardinality(At(toMaster', Reports)) + Cardinality(At(toWorker', Orders))
            + One(w \in Running')
          = Cardinality(At(toMaster, Reports)) + Cardinality(At(toWorker, Orders))
            + One(w \in Running)
      BY <2>1, <2>3, <2>4, <2>5, <2>6, <2>7, <3>1 DEF One
    <3>b. ASSUME NEW c \in Cells
         PROVE  Cardinality(At(toMaster', Carrying(c)))
                    + Cardinality(At(toWorker', Carrying(c))) + One(Covers(local'[w], c))
                  = Cardinality(At(toMaster, Carrying(c)))
                    + Cardinality(At(toWorker, Carrying(c))) + One(Covers(local[w], c))
      BY <2>1, <2>3, <2>4, <2>5, <2>6, <2>7, <3>1 DEF One
    <3> QED
      BY <2>1, <2>3, <3>2, Finite, <3>a, <3>b, WorkerCounts
  <2>8. CASE /\ m.tag = "NO_MORE_TASKS"
             /\ worker' = [worker EXCEPT ![w] = "stopped"]
             /\ UNCHANGED local
    <3>1. w \notin Running' /\ \A c \in Cells : ~ Covers(m.task, c)
      <4>1. m = Message("NO_MORE_TASKS", Nothing)
        BY <2>2, <2>8 DEF WorkInv, ToWorkerShaped
      <4> QED
        BY <2>8, <4>1, Kinds DEF Running, WorkInv, TypeOK
    <3>2. \A v \in Workers \ {w} : worker'[v] = worker[v] /\ local'[v] = local[v]
      BY <2>8
    <3> HIDE DEF m
    <3>a. Cardinality(At(toMaster', Reports)) + Cardinality(At(toWorker', Orders))
            + One(w \in Running')
          = Cardinality(At(toMaster, Reports)) + Cardinality(At(toWorker, Orders))
            + One(w \in Running)
      BY <2>1, <2>3, <2>4, <2>5, <2>6, <2>8, <3>1 DEF One
    <3>b. ASSUME NEW c \in Cells
         PROVE  Cardinality(At(toMaster', Carrying(c)))
                    + Cardinality(At(toWorker', Carrying(c))) + One(Covers(local'[w], c))
                  = Cardinality(At(toMaster, Carrying(c)))
                    + Cardinality(At(toWorker, Carrying(c))) + One(Covers(local[w], c))
      BY <2>1, <2>3, <2>4, <2>5, <2>6, <2>8, <3>1 DEF One
    <3> QED
      BY <2>1, <2>3, <3>2, Finite, <3>a, <3>b, WorkerCounts
  <2> QED
    BY <1>6, <2>7, <2>8 DEF ReceiveTask
<1> QED
  BY <1>3, <1>4, <1>5, <1>6 DEF WorkerStep

(* Enough for a step of the master to keep the counts. *)
LEMMA MasterCounts ==
  ASSUME WorkInv, UNCHANGED <<worker, local>>,
         IsFiniteSet(At(toMaster', Reports)), IsFiniteSet(At(toWorker', Orders)),
         \A c \in Cells : /\ IsFiniteSet(At(Stack', With(c)))
                          /\ IsFiniteSet(At(toMaster', Carrying(c)))
                          /\ IsFiniteSet(At(toWorker', Carrying(c))),
         idle' + Cardinality(At(toMaster', Reports)) + Cardinality(At(toWorker', Orders))
           = idle + Cardinality(At(toMaster, Reports)) + Cardinality(At(toWorker, Orders)),
         \A c \in Cells :
           Cardinality(At(Stack', With(c))) + Cardinality(At(toMaster', Carrying(c)))
               + Cardinality(At(toWorker', Carrying(c))) + total_area'[c]
             = Cardinality(At(Stack, With(c))) + Cardinality(At(toMaster, Carrying(c)))
               + Cardinality(At(toWorker, Carrying(c))) + total_area[c],
         idle' \in Nat, \A c \in Cells : total_area'[c] \in Nat
  PROVE  Counted'
<1>1. WorkersCounted'
  <2>1. /\ IsFiniteSet(At(toMaster, Reports)) /\ IsFiniteSet(At(toWorker, Orders))
        /\ idle + Cardinality(At(toMaster, Reports)) + Cardinality(At(toWorker, Orders))
             + Cardinality(Running) = n_cores - 1
    BY DEF WorkInv, WorkersCounted
  <2>2. Running \in SUBSET Workers /\ Running' = Running
    BY DEF Running
  <2>3. /\ Cardinality(At(toMaster, Reports)) \in Nat
        /\ Cardinality(At(toWorker, Orders)) \in Nat
        /\ Cardinality(At(toMaster', Reports)) \in Nat
        /\ Cardinality(At(toWorker', Orders)) \in Nat
        /\ Cardinality(Running) \in Nat
    BY <2>1, <2>2, Constants, FS_Subset, FS_CardinalityType
  <2>4. idle \in Nat
    BY DEF WorkInv, IdleInv
  <2>5. idle' + Cardinality(At(toMaster', Reports)) + Cardinality(At(toWorker', Orders))
           + Cardinality(Running') = n_cores - 1
    BY <2>1, <2>2, <2>3, <2>4
  <2>6. Reports' = Reports /\ Orders' = Orders
    BY DEF Reports, Orders
  <2> QED
    BY <2>5, <2>6 DEF WorkersCounted
<1>2. CountedOnce'
  <2> SUFFICES ASSUME NEW c \in Cells
               PROVE  /\ IsFiniteSet(At(Stack', With(c)))
                      /\ IsFiniteSet(At(toMaster', Carrying(c)))
                      /\ IsFiniteSet(At(toWorker', Carrying(c)))
                      /\ Cardinality(At(Stack', With(c)))
                           + Cardinality(At(toMaster', Carrying(c)))
                           + Cardinality(At(toWorker', Carrying(c)))
                           + Cardinality(Having(c)') + total_area'[c] = 1
    <3>1. Cells' = Cells /\ \A c : With(c)' = With(c) /\ Carrying(c)' = Carrying(c)
      BY DEF Cells, With, Carrying, Covers
    <3> QED
      BY <3>1 DEF CountedOnce
  <2>1. /\ IsFiniteSet(At(Stack, With(c)))
        /\ IsFiniteSet(At(toMaster, Carrying(c)))
        /\ IsFiniteSet(At(toWorker, Carrying(c)))
        /\ Cardinality(At(Stack, With(c))) + Cardinality(At(toMaster, Carrying(c)))
             + Cardinality(At(toWorker, Carrying(c))) + Cardinality(Having(c))
             + total_area[c] = 1
    BY DEF WorkInv, CountedOnce
  <2>2. Having(c) \in SUBSET Workers /\ Having(c)' = Having(c)
    BY DEF Having, Covers
  <2>3. /\ Cardinality(At(Stack, With(c))) \in Nat
        /\ Cardinality(At(toMaster, Carrying(c))) \in Nat
        /\ Cardinality(At(toWorker, Carrying(c))) \in Nat
        /\ Cardinality(At(Stack', With(c))) \in Nat
        /\ Cardinality(At(toMaster', Carrying(c))) \in Nat
        /\ Cardinality(At(toWorker', Carrying(c))) \in Nat
        /\ Cardinality(Having(c)) \in Nat
    BY <2>1, <2>2, Constants, FS_Subset, FS_CardinalityType
  <2>4. total_area[c] \in Nat /\ total_area'[c] \in Nat
    BY DEF WorkInv, TypeOK
  <2>5. Cardinality(At(Stack', With(c))) + Cardinality(At(toMaster', Carrying(c)))
               + Cardinality(At(toWorker', Carrying(c))) + total_area'[c]
             = Cardinality(At(Stack, With(c))) + Cardinality(At(toMaster, Carrying(c)))
               + Cardinality(At(toWorker, Carrying(c))) + total_area[c]
    OBVIOUS
  <2>6. Cardinality(At(Stack', With(c))) + Cardinality(At(toMaster', Carrying(c)))
           + Cardinality(At(toWorker', Carrying(c)))
           + Cardinality(Having(c)') + total_area'[c] = 1
    BY <2>1, <2>2, <2>3, <2>4, <2>5
  <2> QED
    BY <2>6
<1> QED
  BY <1>1, <1>2 DEF Counted

(* The master receives message m, pops task t or pushes it, orders it. *)
Received(m) ==
  /\ IsFiniteSet(At(toMaster', Reports))
  /\ Cardinality(At(toMaster', Reports)) \in Nat
  /\ Cardinality(At(toMaster, Reports)) =
       Cardinality(At(toMaster', Reports)) + One(m.tag = "WORKER_AVAILABLE")
  /\ \A c \in Cells :
       /\ IsFiniteSet(At(toMaster', Carrying(c)))
       /\ Cardinality(At(toMaster', Carrying(c))) \in Nat
       /\ Cardinality(At(toMaster, Carrying(c))) =
            Cardinality(At(toMaster', Carrying(c))) + One(Covers(m.task, c))

Popped(t) ==
  \A c \in Cells :
    /\ IsFiniteSet(At(Stack', With(c)))
    /\ Cardinality(At(Stack', With(c))) \in Nat
    /\ Cardinality(At(Stack, With(c))) =
         Cardinality(At(Stack', With(c))) + One(Covers(t, c))

Pushed(t) ==
  \A c \in Cells :
    /\ IsFiniteSet(At(Stack', With(c)))
    /\ Cardinality(At(Stack, With(c))) \in Nat
    /\ Cardinality(At(Stack', With(c))) =
         Cardinality(At(Stack, With(c))) + One(Covers(t, c))

Ordered(t) ==
  /\ IsFiniteSet(At(toWorker', Orders))
  /\ Cardinality(At(toWorker, Orders)) \in Nat
  /\ Cardinality(At(toWorker', Orders)) = Cardinality(At(toWorker, Orders)) + 1
  /\ \A c \in Cells :
       /\ IsFiniteSet(At(toWorker', Carrying(c)))
       /\ Cardinality(At(toWorker, Carrying(c))) \in Nat
       /\ Cardinality(At(toWorker', Carrying(c))) =
            Cardinality(At(toWorker, Carrying(c))) + One(Covers(t, c))

LEMMA ReceiptCounts ==
  ASSUME WorkInv, NEW w \in Workers, NEW tag, Receive(w, tag)
  PROVE  /\ Head(toMaster[w]) \in Messages /\ Head(toMaster[w]).tag = tag
         /\ Received(Head(toMaster[w]))
<1> DEFINE m == Head(toMaster[w])
<1>1. toMaster[w] # <<>> /\ toMaster' = Take(toMaster, w) /\ m.tag = tag
  BY DEF Receive, Take
<1>2. /\ m \in Messages
      /\ \A P : IsFiniteSet(At(toMaster, P)) =>
                  /\ IsFiniteSet(At(toMaster', P))
                  /\ Cardinality(At(toMaster', P)) \in Nat
                  /\ Cardinality(At(toMaster, P)) =
                       Cardinality(At(toMaster', P)) + One(m \in P)
  BY <1>1, ReceiveCounts, Finite
<1>3. /\ m \in Reports <=> m.tag = "WORKER_AVAILABLE"
      /\ \A c : m \in Carrying(c) <=> Covers(m.task, c)
  BY <1>2, Kinds
<1> HIDE DEF m
<1>4. Received(m)
  BY <1>2, <1>3, Finite DEF Received, One
<1> QED
  BY <1>1, <1>2, <1>4 DEF m

LEMMA PopCounts ==
  ASSUME WorkInv, stack # <<>>, stack' = Tail(stack)
  PROVE  Head(stack) \in Intervals /\ Popped(Head(stack))
<1>1. Head(stack) \in Intervals /\ stack \in Seq(Intervals)
  BY Finite
<1>2. ASSUME NEW c \in Cells
      PROVE  /\ IsFiniteSet(At(Stack', With(c)))
             /\ Cardinality(At(Stack', With(c))) \in Nat
             /\ Cardinality(At(Stack, With(c))) =
                  Cardinality(At(Stack', With(c))) + One(Covers(Head(stack), c))
  <2>1. IsFiniteSet(At(Stack, With(c)))
    BY Finite
  <2>2. Head(stack) \in With(c) <=> Covers(Head(stack), c)
    BY <1>1, Kinds
  <2>3. Stack = [i \in {0} |-> stack] /\ Stack' = [i \in {0} |-> Tail(stack)]
    BY DEF Stack
  <2>4. /\ IsFiniteSet(At(Stack', With(c)))
        /\ Cardinality(At(Stack', With(c))) \in Nat
        /\ Cardinality(At(Stack, With(c))) =
             Cardinality(At(Stack', With(c))) + One(Head(stack) \in With(c))
    BY <1>1, <2>1, <2>3, StackCounts
  <2> QED
    BY <2>2, <2>4 DEF One
<1> QED
  BY <1>1, <1>2 DEF Popped

LEMMA PushCounts ==
  ASSUME WorkInv, NEW t \in Intervals, stack' = <<t>> \o stack
  PROVE  Pushed(t)
<1>1. stack' \in Seq(Intervals) /\ stack' # <<>> /\ Head(stack') = t /\ Tail(stack') = stack
  BY Finite
<1>2. ASSUME NEW c \in Cells
      PROVE  /\ IsFiniteSet(At(Stack', With(c)))
             /\ Cardinality(At(Stack, With(c))) \in Nat
             /\ Cardinality(At(Stack', With(c))) =
                  Cardinality(At(Stack, With(c))) + One(Covers(t, c))
  <2>1. IsFiniteSet(At(Stack, With(c)))
    BY Finite
  <2>2. t \in With(c) <=> Covers(t, c)
    BY Kinds
  <2>3. Stack' = [i \in {0} |-> stack'] /\ Stack = [i \in {0} |-> Tail(stack')]
    BY <1>1 DEF Stack
  <2>4. /\ IsFiniteSet(At(Stack', With(c)))
        /\ Cardinality(At(Stack, With(c))) \in Nat
        /\ Cardinality(At(Stack', With(c))) =
             Cardinality(At(Stack, With(c))) + One(t \in With(c))
    BY <1>1, <2>1, <2>3, StackCounts
  <2> QED
    BY <2>2, <2>4 DEF One
<1> QED
  BY <1>2 DEF Pushed

LEMMA OrderCounts ==
  ASSUME WorkInv, NEW w \in Workers, NEW t \in Intervals, Execute(w, t)
  PROVE  Ordered(t)
<1> DEFINE m == Message("EXECUTE_TASK", t)
<1>1. toWorker' = Put(toWorker, w, m)
  BY DEF Execute, Put
<1>2. /\ m \in Messages /\ m \in Orders /\ m.task = t
      /\ \A c : m \in Carrying(c) <=> Covers(t, c)
  BY Kinds
<1> HIDE DEF m
<1>3. \A P : IsFiniteSet(At(toWorker, P)) =>
               /\ IsFiniteSet(At(toWorker', P))
               /\ Cardinality(At(toWorker, P)) \in Nat
               /\ Cardinality(At(toWorker', P)) =
                    Cardinality(At(toWorker, P)) + One(m \in P)
  <2>1. toWorker \in [Workers -> Seq(Messages)]
    BY Finite
  <2>2. \A P : IsFiniteSet(At(toWorker, P)) =>
                 /\ IsFiniteSet(At(Put(toWorker, w, m), P))
                 /\ Cardinality(At(toWorker, P)) \in Nat
                 /\ Cardinality(At(Put(toWorker, w, m), P)) =
                      Cardinality(At(toWorker, P)) + One(m \in P)
    BY <1>2, <2>1, SendCounts
  <2> QED
    BY <1>1, <2>2
<1>4. One(m \in Orders) = 1 /\ \A c : One(m \in Carrying(c)) = One(Covers(t, c))
  BY <1>2 DEF One
<1>5. /\ IsFiniteSet(At(toWorker, Orders))
      /\ \A c \in Cells : IsFiniteSet(At(toWorker, Carrying(c)))
  BY Finite
<1>6. /\ IsFiniteSet(At(toWorker', Orders))
      /\ Cardinality(At(toWorker, Orders)) \in Nat
      /\ Cardinality(At(toWorker', Orders)) = Cardinality(At(toWorker, Orders)) + 1
  BY <1>3, <1>4, <1>5
<1>7. ASSUME NEW c \in Cells
      PROVE  /\ IsFiniteSet(At(toWorker', Carrying(c)))
             /\ Cardinality(At(toWorker, Carrying(c))) \in Nat
             /\ Cardinality(At(toWorker', Carrying(c))) =
                  Cardinality(At(toWorker, Carrying(c))) + One(Covers(t, c))
  BY <1>3, <1>4, <1>5
<1> QED
  BY <1>6, <1>7 DEF Ordered

LEMMA AvailableCounts ==
  ASSUME WorkInv, NEW w \in Workers, ReceiveAvailable(w)
  PROVE  Counted' /\ progress' \in Nat /\ total_area' \in [Cells -> Nat]
<1> DEFINE m == Head(toMaster[w])
<1>1. /\ Receive(w, "WORKER_AVAILABLE") /\ Account(m.task)
      /\ UNCHANGED <<worker, local>>
  BY DEF ReceiveAvailable, Receive
<1>2. /\ m \in Messages /\ m.tag = "WORKER_AVAILABLE" /\ Received(m)
  BY <1>1, ReceiptCounts
<1>3. m.task \in Intervals /\ m.task[2] - m.task[1] \in Nat
  BY <1>2 DEF Messages, Intervals
<1> HIDE DEF m
<1>4. /\ total_area' \in [Cells -> Nat]
      /\ \A c \in Cells : /\ total_area[c] \in Nat
                          /\ total_area'[c] = total_area[c] + One(Covers(m.task, c))
  BY <1>1 DEF Account, One, Covers, WorkInv, TypeOK
<1>5. progress' \in Nat
  BY <1>1, <1>3 DEF Account, WorkInv, TypeOK
<1>6. CASE stack = <<>> /\ idle' = idle + 1 /\ UNCHANGED <<stack, toWorker>>
  <2>1. /\ IsFiniteSet(At(toWorker', Orders))
        /\ Cardinality(At(toWorker, Orders)) \in Nat
        /\ At(toWorker', Orders) = At(toWorker, Orders) /\ idle \in Nat
    BY <1>6, Finite, FS_CardinalityType DEF WorkInv, IdleInv
  <2>2. idle' + Cardinality(At(toMaster', Reports)) + Cardinality(At(toWorker', Orders))
          = idle + Cardinality(At(toMaster, Reports)) + Cardinality(At(toWorker, Orders))
    BY <1>2, <1>6, <2>1 DEF Received, One
  <2>3. ASSUME NEW c \in Cells
        PROVE  /\ IsFiniteSet(At(Stack', With(c)))
               /\ IsFiniteSet(At(toWorker', Carrying(c)))
               /\ Cardinality(At(Stack, With(c))) \in Nat
               /\ Cardinality(At(toWorker, Carrying(c))) \in Nat
               /\ Stack' = Stack /\ toWorker' = toWorker
    BY <1>6, Finite, FS_CardinalityType DEF Stack
  <2>4. ASSUME NEW c \in Cells
        PROVE  Cardinality(At(Stack', With(c))) + Cardinality(At(toMaster', Carrying(c)))
                   + Cardinality(At(toWorker', Carrying(c))) + total_area'[c]
                 = Cardinality(At(Stack, With(c))) + Cardinality(At(toMaster, Carrying(c)))
                   + Cardinality(At(toWorker, Carrying(c))) + total_area[c]
    BY <1>2, <1>4, <2>3 DEF Received, One
  <2> QED
    BY <1>1, <1>2, <1>4, <1>5, <1>6, <2>1, <2>2, <2>3, <2>4, MasterCounts DEF Received
<1>7. CASE /\ stack # <<>> /\ stack' = Tail(stack) /\ UNCHANGED idle
           /\ Execute(w, Head(stack))
  <2> DEFINE t == Head(stack)
  <2>1. t \in Intervals /\ Popped(t) /\ Ordered(t)
    BY <1>7, PopCounts, OrderCounts
  <2> HIDE DEF t
  <2>2. idle' + Cardinality(At(toMaster', Reports)) + Cardinality(At(toWorker', Orders))
          = idle + Cardinality(At(toMaster, Reports)) + Cardinality(At(toWorker, Orders))
    BY <1>2, <1>7, <2>1 DEF Received, Ordered, One, WorkInv, IdleInv
  <2>3. ASSUME NEW c \in Cells
        PROVE  Cardinality(At(Stack', With(c))) + Cardinality(At(toMaster', Carrying(c)))
                   + Cardinality(At(toWorker', Carrying(c))) + total_area'[c]
                 = Cardinality(At(Stack, With(c))) + Cardinality(At(toMaster, Carrying(c)))
                   + Cardinality(At(toWorker, Carrying(c))) + total_area[c]
    BY <1>2, <1>4, <2>1 DEF Received, Popped, Ordered, One
  <2>4. idle' \in Nat
    BY <1>7 DEF WorkInv, IdleInv
  <2> QED
    BY <1>1, <1>2, <1>4, <1>5, <2>1, <2>2, <2>3, <2>4, MasterCounts
       DEF Received, Popped, Ordered
<1> QED
  BY <1>6, <1>7 DEF ReceiveAvailable

LEMMA TaskToAddCounts ==
  ASSUME WorkInv, NEW w \in Workers, ReceiveTaskToAdd(w) PROVE Counted'
<1> DEFINE m == Head(toMaster[w])
           t == m.task
<1>1. /\ Receive(w, "ADD_TASK") /\ UNCHANGED <<worker, local>>
      /\ UNCHANGED total_area
  BY DEF ReceiveTaskToAdd, Receive
<1>2. /\ m \in Messages /\ m.tag = "ADD_TASK" /\ Received(m)
  BY <1>1, ReceiptCounts
<1>3. t \in Intervals
  BY <1>2 DEF Messages
<1>4. idle \in Nat /\ \A c \in Cells : total_area[c] \in Nat /\ total_area'[c] = total_area[c]
  BY <1>1 DEF WorkInv, TypeOK, IdleInv
<1>5. CASE idle > 0 /\ idle' = idle - 1 /\ UNCHANGED stack
           /\ Execute(Min(AvailableOnes), t)
  <2>1. Min(AvailableOnes) \in Workers
    BY <1>5, MarkedWorker DEF WorkInv, IdleInv, AvailableFound
  <2>2. Ordered(t)
    BY <1>3, <1>5, <2>1, OrderCounts
  <2> HIDE DEF m
  <2>3. idle' + Cardinality(At(toMaster', Reports)) + Cardinality(At(toWorker', Orders))
          = idle + Cardinality(At(toMaster, Reports)) + Cardinality(At(toWorker, Orders))
    BY <1>2, <1>4, <1>5, <2>2 DEF Received, Ordered, One
  <2>4. ASSUME NEW c \in Cells
        PROVE  /\ IsFiniteSet(At(Stack', With(c)))
               /\ Cardinality(At(Stack, With(c))) \in Nat
               /\ Stack' = Stack
    BY <1>5, Finite, FS_CardinalityType DEF Stack
  <2>5. ASSUME NEW c \in Cells
        PROVE  Cardinality(At(Stack', With(c))) + Cardinality(At(toMaster', Carrying(c)))
                   + Cardinality(At(toWorker', Carrying(c))) + total_area'[c]
                 = Cardinality(At(Stack, With(c))) + Cardinality(At(toMaster, Carrying(c)))
                   + Cardinality(At(toWorker, Carrying(c))) + total_area[c]
    BY <1>2, <1>4, <2>2, <2>4 DEF Received, Ordered, One
  <2>6. idle' \in Nat
    BY <1>4, <1>5
  <2> QED
    BY <1>1, <1>2, <1>4, <2>2, <2>3, <2>4, <2>5, <2>6, MasterCounts DEF Received, Ordered
<1>6. CASE idle = 0 /\ stack' = <<t>> \o stack /\ UNCHANGED <<idle, toWorker>>
  <2>1. Pushed(t)
    BY <1>3, <1>6, PushCounts
  <2> HIDE DEF m
  <2>2. /\ IsFiniteSet(At(toWorker', Orders)) /\ Cardinality(At(toWorker, Orders)) \in Nat
        /\ toWorker' = toWorker
        /\ \A c \in Cells : /\ IsFiniteSet(At(toWorker', Carrying(c)))
                            /\ Cardinality(At(toWorker, Carrying(c))) \in Nat
    BY <1>6, Finite, FS_CardinalityType
  <2>3. idle' + Cardinality(At(toMaster', Reports)) + Cardinality(At(toWorker', Orders))
          = idle + Cardinality(At(toMaster, Reports)) + Cardinality(At(toWorker, Orders))
    BY <1>2, <1>4, <1>6, <2>2 DEF Received, One
  <2>4. ASSUME NEW c \in Cells
        PROVE  Cardinality(At(Stack', With(c))) + Cardinality(At(toMaster', Carrying(c)))
                   + Cardinality(At(toWorker', Carrying(c))) + total_area'[c]
                 = Cardinality(At(Stack, With(c))) + Cardinality(At(toMaster, Carrying(c)))
                   + Cardinality(At(toWorker, Carrying(c))) + total_area[c]
    BY <1>2, <1>4, <2>1, <2>2 DEF Received, Pushed, One
  <2>5. idle' \in Nat
    BY <1>4, <1>6
  <2> QED
    BY <1>1, <1>2, <1>4, <2>1, <2>2, <2>3, <2>4, <2>5, MasterCounts DEF Received, Pushed
<1> QED
  BY <1>5, <1>6 DEF ReceiveTaskToAdd

LEMMA NotifyCounts == ASSUME WorkInv, Notify PROVE Counted'
<1> DEFINE m == Message("NO_MORE_TASKS", Nothing)
<1>1. /\ toWorker' = [w \in Workers |-> Append(toWorker[w], m)]
      /\ UNCHANGED <<worker, local, toMaster, idle, total_area, stack>>
  BY DEF Notify
<1>2. m \in Messages /\ m \notin Orders /\ \A c \in Cells : m \notin Carrying(c)
  BY Kinds
<1> HIDE DEF m
<1>3. ASSUME NEW P, m \notin P PROVE At(toWorker', P) = At(toWorker, P)
  <2>1. \A w \in Workers : /\ toWorker[w] \in Seq(Messages)
                           /\ toWorker'[w] = Append(toWorker[w], m)
    BY <1>1, Finite
  <2>2. /\ DOMAIN toWorker = Workers /\ DOMAIN toWorker' = Workers
        /\ \A w \in Workers :
             /\ DOMAIN toWorker[w] = 1 .. Len(toWorker[w])
             /\ DOMAIN toWorker'[w] = 1 .. (Len(toWorker[w]) + 1)
             /\ Len(toWorker[w]) \in Nat
             /\ toWorker'[w][Len(toWorker[w]) + 1] = m
             /\ \A k \in 1 .. Len(toWorker[w]) : toWorker'[w][k] = toWorker[w][k]
    BY <1>1, <1>2, <2>1, Finite
  <2>3. ASSUME NEW x PROVE x \in At(toWorker', P) <=> x \in At(toWorker, P)
    <3>1. x \in At(toWorker, P) <=>
            \E w \in Workers : \E k \in 1 .. Len(toWorker[w]) :
              toWorker[w][k] \in P /\ x = <<w, k>>
      BY <2>2, PositionsOf
    <3>2. x \in At(toWorker', P) <=>
            \E w \in Workers : \E k \in 1 .. (Len(toWorker[w]) + 1) :
              toWorker'[w][k] \in P /\ x = <<w, k>>
      BY <2>2, PositionsOf
    <3>3. \A w \in Workers : \A k \in 1 .. (Len(toWorker[w]) + 1) :
            toWorker'[w][k] \in P <=>
              k \in 1 .. Len(toWorker[w]) /\ toWorker[w][k] \in P
      BY <1>3, <2>2
    <3> QED
      BY <2>2, <3>1, <3>2, <3>3
  <2> QED
    BY <2>3
<1>4. /\ At(toWorker', Orders) = At(toWorker, Orders)
      /\ \A c \in Cells : At(toWorker', Carrying(c)) = At(toWorker, Carrying(c))
  BY <1>2, <1>3
<1>5. Stack' = Stack
  BY <1>1 DEF Stack
<1>6. idle' \in Nat /\ \A c \in Cells : total_area'[c] \in Nat
  BY <1>1 DEF WorkInv, TypeOK, IdleInv
<1> QED
  BY <1>1, <1>4, <1>5, <1>6, Finite, MasterCounts

-----------------------------------------------------------------------------
(* Every step keeps the types and the shapes. *)

Shaped == /\ ToMasterShaped /\ ToWorkerShaped /\ StackShaped
          /\ WorkersShaped /\ MasterShaped

(* The types, but for the bound of idle. *)
Typed ==
  /\ stack \in Seq(Intervals)
  /\ availableWorkers \in [Workers -> BOOLEAN]
  /\ progress \in Nat
  /\ total_area \in [Cells -> Nat]
  /\ master \in {"receive", "notify", "ended"}
  /\ worker \in [Workers -> {"starts", "waits", "works", "stopped"}]
  /\ local \in [Workers -> Intervals]
  /\ toMaster \in [Workers -> Seq(Messages)]
  /\ toWorker \in [Workers -> Seq(Messages)]

LEMMA SendShapes ==
  ASSUME WorkInv, NEW w \in Workers, NEW tag, NEW t \in Intervals,
         Send(w, tag, t),
         \/ tag = "WORKER_AVAILABLE" /\ (IsWork(t) \/ t = Nothing)
         \/ tag = "ADD_TASK" /\ IsWork(t)
  PROVE  /\ toMaster' \in [Workers -> Seq(Messages)] /\ ToMasterShaped'
         /\ toMaster'[w][Len(toMaster'[w])].tag = tag
         /\ \A v \in Workers \ {w} : toMaster'[v] = toMaster[v]
<1> DEFINE m == Message(tag, t)
<1>1. m \in Messages /\ m.tag = tag /\ m.task = t
  BY Kinds
<1>2. toMaster' = [toMaster EXCEPT ![w] = Append(@, m)]
  BY DEF Send
<1> HIDE DEF m
<1>3. toMaster' \in [Workers -> Seq(Messages)]
  BY <1>1, <1>2, Finite
<1>4. /\ Len(toMaster'[w]) = Len(toMaster[w]) + 1 /\ Len(toMaster[w]) \in Nat
      /\ toMaster'[w][Len(toMaster[w]) + 1] = m
      /\ \A k \in 1 .. Len(toMaster[w]) : toMaster'[w][k] = toMaster[w][k]
      /\ \A v \in Workers \ {w} : toMaster'[v] = toMaster[v]
  BY <1>1, <1>2, Finite
<1>5. ToMasterShaped'
  <2> SUFFICES ASSUME NEW v \in Workers, NEW k \in 1 .. Len(toMaster'[v])
               PROVE  \/ /\ toMaster'[v][k].tag = "WORKER_AVAILABLE"
                         /\ \/ IsWork(toMaster'[v][k].task)
                            \/ toMaster'[v][k].task = Nothing
                      \/ /\ toMaster'[v][k].tag = "ADD_TASK"
                         /\ IsWork(toMaster'[v][k].task)
    BY DEF ToMasterShaped, IsWork, Nothing
  <2>1. \/ v = w /\ k = Len(toMaster[w]) + 1
        \/ k \in 1 .. Len(toMaster[v]) /\ toMaster'[v][k] = toMaster[v][k]
    BY <1>4
  <2> QED
    BY <1>1, <1>4, <2>1 DEF WorkInv, ToMasterShaped
<1> QED
  BY <1>1, <1>3, <1>4, <1>5

LEMMA ReceiptShapes ==
  ASSUME WorkInv, NEW w \in Workers, NEW tag, Receive(w, tag)
  PROVE  /\ toMaster' \in [Workers -> Seq(Messages)] /\ ToMasterShaped'
         /\ WorkersShaped'
         /\ Head(toMaster[w]).task \in Intervals
         /\ \/ IsWork(Head(toMaster[w]).task)
            \/ tag = "WORKER_AVAILABLE" /\ Head(toMaster[w]).task = Nothing
<1>1. /\ toMaster[w] # <<>> /\ toMaster' = [toMaster EXCEPT ![w] = Tail(@)]
      /\ Head(toMaster[w]).tag = tag /\ UNCHANGED <<worker, local>>
  BY DEF Receive
<1>2. toMaster' \in [Workers -> Seq(Messages)] /\ Head(toMaster[w]) \in Messages
  BY <1>1, Finite
<1>3. /\ Len(toMaster'[w]) = Len(toMaster[w]) - 1 /\ Len(toMaster[w]) \in Nat \ {0}
      /\ \A k \in 1 .. Len(toMaster'[w]) : toMaster'[w][k] = toMaster[w][k + 1]
      /\ \A v \in Workers \ {w} : toMaster'[v] = toMaster[v]
      /\ Head(toMaster[w]) = toMaster[w][1]
  BY <1>1, Finite
<1>4. ToMasterShaped'
  <2> SUFFICES ASSUME NEW v \in Workers, NEW k \in 1 .. Len(toMaster'[v])
               PROVE  \/ /\ toMaster'[v][k].tag = "WORKER_AVAILABLE"
                         /\ \/ IsWork(toMaster'[v][k].task)
                            \/ toMaster'[v][k].task = Nothing
                      \/ /\ toMaster'[v][k].tag = "ADD_TASK"
                         /\ IsWork(toMaster'[v][k].task)
    BY DEF ToMasterShaped, IsWork, Nothing
  <2>1. \/ k + 1 \in 1 .. Len(toMaster[v]) /\ toMaster'[v][k] = toMaster[v][k + 1]
        \/ k \in 1 .. Len(toMaster[v]) /\ toMaster'[v][k] = toMaster[v][k]
    BY <1>3
  <2> QED
    BY <2>1 DEF WorkInv, ToMasterShaped
<1>5. WorkersShaped'
  <2> SUFFICES ASSUME NEW v \in Workers
               PROVE  /\ IF worker'[v] = "works" THEN IsWork(local'[v])
                                                 ELSE local'[v] = Nothing
                      /\ toMaster'[v] # <<>> /\ worker'[v] # "works" =>
                           toMaster'[v][Len(toMaster'[v])].tag = "WORKER_AVAILABLE"
    BY DEF WorkersShaped, IsWork, Nothing
  <2>1. /\ IF worker[v] = "works" THEN IsWork(local[v]) ELSE local[v] = Nothing
        /\ toMaster[v] # <<>> /\ worker[v] # "works" =>
             toMaster[v][Len(toMaster[v])].tag = "WORKER_AVAILABLE"
    BY DEF WorkInv, WorkersShaped
  <2>2. CASE v = w
    <3>1. ASSUME toMaster'[w] # <<>>
          PROVE  toMaster'[w][Len(toMaster'[w])] = toMaster[w][Len(toMaster[w])]
      <4>1. Len(toMaster'[w]) \in 1 .. Len(toMaster'[w])
        BY <1>2, <3>1
      <4> QED
        BY <1>3, <4>1
    <3> QED
      BY <1>1, <2>1, <2>2, <3>1
  <2>3. CASE v # w
    BY <1>1, <1>3, <2>1, <2>3
  <2> QED
    BY <2>2, <2>3
<1>6. /\ Head(toMaster[w]).task \in Intervals
      /\ \/ IsWork(Head(toMaster[w]).task)
         \/ tag = "WORKER_AVAILABLE" /\ Head(toMaster[w]).task = Nothing
  <2>1. 1 \in 1 .. Len(toMaster[w])
    BY <1>3
  <2>2. PICK m \in Messages : m = Head(toMaster[w])
    BY <1>2
  <2>3. \/ m.tag = "WORKER_AVAILABLE" /\ (IsWork(m.task) \/ m.task = Nothing)
        \/ m.tag = "ADD_TASK" /\ IsWork(m.task)
    BY <1>3, <2>1, <2>2 DEF WorkInv, ToMasterShaped
  <2>4. m.tag = tag /\ m.task \in Intervals
    BY <1>1, <2>2 DEF Messages
  <2> QED
    BY <2>2, <2>3, <2>4
<1> QED
  BY <1>2, <1>4, <1>5, <1>6

LEMMA OrderShapes ==
  ASSUME WorkInv, NEW w \in Workers, NEW t \in Intervals, IsWork(t), Execute(w, t)
  PROVE  toWorker' \in [Workers -> Seq(Messages)] /\ ToWorkerShaped'
<1> DEFINE m == Message("EXECUTE_TASK", t)
<1>1. m \in Messages /\ m.tag = "EXECUTE_TASK" /\ m.task = t
  BY Kinds
<1>2. toWorker' = [toWorker EXCEPT ![w] = Append(@, m)]
  BY DEF Execute
<1> HIDE DEF m
<1>3. toWorker' \in [Workers -> Seq(Messages)]
  BY <1>1, <1>2, Finite
<1>4. /\ Len(toWorker'[w]) = Len(toWorker[w]) + 1 /\ Len(toWorker[w]) \in Nat
      /\ toWorker'[w][Len(toWorker[w]) + 1] = m
      /\ \A k \in 1 .. Len(toWorker[w]) : toWorker'[w][k] = toWorker[w][k]
      /\ \A v \in Workers \ {w} : toWorker'[v] = toWorker[v]
  BY <1>1, <1>2, Finite
<1>5. ToWorkerShaped'
  <2> SUFFICES ASSUME NEW v \in Workers, NEW k \in 1 .. Len(toWorker'[v])
               PROVE  \/ /\ toWorker'[v][k].tag = "EXECUTE_TASK"
                         /\ IsWork(toWorker'[v][k].task)
                      \/ toWorker'[v][k] = Message("NO_MORE_TASKS", Nothing)
    BY DEF ToWorkerShaped, IsWork, Nothing, Message
  <2>1. \/ v = w /\ k = Len(toWorker[w]) + 1
        \/ k \in 1 .. Len(toWorker[v]) /\ toWorker'[v][k] = toWorker[v][k]
    BY <1>4
  <2> QED
    BY <1>1, <1>4, <2>1 DEF WorkInv, ToWorkerShaped
<1> QED
  BY <1>3, <1>5

LEMMA WorkerStepShapes ==
  ASSUME WorkInv, NEW w \in Workers, WorkerStep(w) PROVE Typed' /\ Shaped'
<1>1. /\ UNCHANGED masterVars /\ MasterShaped' /\ StackShaped'
      /\ stack' \in Seq(Intervals) /\ availableWorkers' \in [Workers -> BOOLEAN]
      /\ progress' \in Nat /\ total_area' \in [Cells -> Nat]
      /\ master' \in {"receive", "notify", "ended"}
  <2>1. UNCHANGED masterVars
    BY DEF WorkerStep, Start, ReceiveTask, DivideTask, FinishTask
  <2> QED
    BY <2>1 DEF masterVars, MasterShaped, StackShaped, WorkInv, TypeOK, IsWork
<1>2. /\ worker \in [Workers -> {"starts", "waits", "works", "stopped"}]
      /\ local \in [Workers -> Intervals] /\ toWorker \in [Workers -> Seq(Messages)]
      /\ toMaster \in [Workers -> Seq(Messages)]
      /\ ToMasterShaped /\ ToWorkerShaped /\ WorkersShaped
  BY DEF WorkInv, TypeOK
<1>3. ASSUME UNCHANGED toWorker PROVE ToWorkerShaped'
  BY <1>2, <1>3 DEF ToWorkerShaped, IsWork, Message, Nothing
<1>4. \A v \in Workers : IF worker[v] = "works" THEN IsWork(local[v]) ELSE local[v] = Nothing
  BY <1>2 DEF WorkersShaped
<1>5. ASSUME \A v \in Workers \ {w} : /\ worker'[v] = worker[v] /\ local'[v] = local[v]
                                      /\ toMaster'[v] = toMaster[v],
             IF worker'[w] = "works" THEN IsWork(local'[w]) ELSE local'[w] = Nothing,
             toMaster'[w] # <<>> /\ worker'[w] # "works" =>
               toMaster'[w][Len(toMaster'[w])].tag = "WORKER_AVAILABLE"
      PROVE  WorkersShaped'
  BY <1>2, <1>5 DEF WorkersShaped, IsWork, Nothing
<1>6. CASE Start(w)
  <2>1. /\ Send(w, "WORKER_AVAILABLE", Nothing) /\ UNCHANGED <<local, toWorker>>
        /\ worker[w] = "starts" /\ worker' = [worker EXCEPT ![w] = "waits"]
    BY <1>6 DEF Start
  <2>2. /\ toMaster' \in [Workers -> Seq(Messages)] /\ ToMasterShaped'
        /\ toMaster'[w][Len(toMaster'[w])].tag = "WORKER_AVAILABLE"
        /\ \A v \in Workers \ {w} : toMaster'[v] = toMaster[v]
    BY <2>1, SendShapes, Kinds
  <2>3. WorkersShaped'
    BY <1>2, <1>4, <1>5, <2>1, <2>2
  <2> QED
    BY <1>1, <1>2, <1>3, <2>1, <2>2, <2>3 DEF Typed, Shaped
<1>7. CASE DivideTask(w)
  <2> DEFINE t == local[w]
             l == <<t[1], Middle(t)>>
             r == <<Middle(t), t[2]>>
  <2>1. /\ Send(w, "ADD_TASK", r) /\ UNCHANGED <<worker, toWorker>>
        /\ worker[w] = "works" /\ t[2] - t[1] > 1 /\ local' = [local EXCEPT ![w] = l]
    BY <1>7 DEF DivideTask
  <2>2. l \in Intervals /\ r \in Intervals /\ IsWork(l) /\ IsWork(r)
    BY <1>2, <2>1, Halves
  <2> HIDE DEF l, r
  <2>3. /\ toMaster' \in [Workers -> Seq(Messages)] /\ ToMasterShaped'
        /\ \A v \in Workers \ {w} : toMaster'[v] = toMaster[v]
    BY <2>1, <2>2, SendShapes
  <2>4. WorkersShaped'
    BY <1>2, <1>5, <2>1, <2>2, <2>3
  <2> QED
    BY <1>1, <1>2, <1>3, <2>1, <2>2, <2>3, <2>4 DEF Typed, Shaped
<1>8. CASE FinishTask(w)
  <2>1. /\ Send(w, "WORKER_AVAILABLE", local[w]) /\ UNCHANGED toWorker
        /\ local' = [local EXCEPT ![w] = Nothing]
        /\ worker[w] = "works" /\ worker' = [worker EXCEPT ![w] = "waits"]
    BY <1>8 DEF FinishTask
  <2>2. /\ toMaster' \in [Workers -> Seq(Messages)] /\ ToMasterShaped'
        /\ toMaster'[w][Len(toMaster'[w])].tag = "WORKER_AVAILABLE"
        /\ \A v \in Workers \ {w} : toMaster'[v] = toMaster[v]
    BY <1>2, <1>4, <2>1, SendShapes
  <2>3. WorkersShaped'
    BY <1>2, <1>5, <2>1, <2>2
  <2>4. local' \in [Workers -> Intervals]
    BY <1>2, <2>1, Kinds
  <2> QED
    BY <1>1, <1>2, <1>3, <2>1, <2>2, <2>3, <2>4 DEF Typed, Shaped
<1>9. CASE ReceiveTask(w)
  <2> DEFINE m == Head(toWorker[w])
  <2>1. /\ toWorker[w] # <<>> /\ toWorker' = [toWorker EXCEPT ![w] = Tail(@)]
        /\ UNCHANGED toMaster /\ worker[w] = "waits"
    BY <1>9 DEF ReceiveTask
  <2>2. /\ toWorker' \in [Workers -> Seq(Messages)] /\ m \in Messages
        /\ m = toWorker[w][1] /\ 1 \in 1 .. Len(toWorker[w])
        /\ Len(toWorker'[w]) = Len(toWorker[w]) - 1 /\ Len(toWorker[w]) \in Nat
        /\ \A k \in 1 .. Len(toWorker'[w]) : toWorker'[w][k] = toWorker[w][k + 1]
        /\ \A v \in Workers \ {w} : toWorker'[v] = toWorker[v]
    BY <1>2, <2>1
  <2>3. ToWorkerShaped'
    <3> SUFFICES ASSUME NEW v \in Workers, NEW k \in 1 .. Len(toWorker'[v])
                 PROVE  \/ /\ toWorker'[v][k].tag = "EXECUTE_TASK"
                           /\ IsWork(toWorker'[v][k].task)
                        \/ toWorker'[v][k] = Message("NO_MORE_TASKS", Nothing)
      BY DEF ToWorkerShaped, IsWork, Nothing, Message
    <3>1. \/ k + 1 \in 1 .. Len(toWorker[v]) /\ toWorker'[v][k] = toWorker[v][k + 1]
          \/ k \in 1 .. Len(toWorker[v]) /\ toWorker'[v][k] = toWorker[v][k]
      BY <2>2
    <3> QED
      BY <1>2, <3>1 DEF ToWorkerShaped
  <2>4. ToMasterShaped'
    BY <1>2, <2>1 DEF ToMasterShaped, IsWork, Nothing
  <2>5. toMaster[w] # <<>> => toMaster[w][Len(toMaster[w])].tag = "WORKER_AVAILABLE"
    BY <1>2, <2>1 DEF WorkersShaped
  <2>6. CASE /\ m.tag = "EXECUTE_TASK"
             /\ worker' = [worker EXCEPT ![w] = "works"]
             /\ local' = [local EXCEPT ![w] = m.task]
    <3>1. IsWork(m.task) /\ m.task \in Intervals
      <4>1. \/ m.tag = "EXECUTE_TASK" /\ IsWork(m.task)
            \/ m = Message("NO_MORE_TASKS", Nothing)
        BY <1>2, <2>2 DEF ToWorkerShaped
      <4> QED
        BY <2>2, <2>6, <4>1, Kinds DEF Messages
    <3> HIDE DEF m
    <3>2. WorkersShaped'
      BY <1>2, <1>5, <2>1, <2>6, <3>1
    <3> QED
      BY <1>1, <1>2, <2>1, <2>2, <2>3, <2>4, <2>6, <3>1, <3>2 DEF Typed, Shaped
  <2>7. CASE worker' = [worker EXCEPT ![w] = "stopped"] /\ UNCHANGED local
    <3>1. WorkersShaped'
      BY <1>2, <1>4, <1>5, <2>1, <2>5, <2>7
    <3> QED
      BY <1>1, <1>2, <2>1, <2>2, <2>3, <2>4, <2>7, <3>1 DEF Typed, Shaped
  <2> QED
    BY <1>9, <2>6, <2>7 DEF ReceiveTask
<1> QED
  BY <1>6, <1>7, <1>8, <1>9 DEF WorkerStep

LEMMA MasterStepShapes ==
  ASSUME WorkInv, MasterStep PROVE Typed' /\ Shaped'
<1>1. /\ stack \in Seq(Intervals) /\ availableWorkers \in [Workers -> BOOLEAN]
      /\ worker \in [Workers -> {"starts", "waits", "works", "stopped"}]
      /\ local \in [Workers -> Intervals] /\ toWorker \in [Workers -> Seq(Messages)]
      /\ progress \in Nat /\ total_area \in [Cells -> Nat]
      /\ toMaster \in [Workers -> Seq(Messages)]
      /\ ToMasterShaped /\ ToWorkerShaped /\ WorkersShaped /\ StackShaped
  BY DEF WorkInv, TypeOK
<1>2. ASSUME UNCHANGED toWorker PROVE ToWorkerShaped'
  BY <1>1, <1>2 DEF ToWorkerShaped, IsWork, Message, Nothing
<1>3. ASSUME LoopTest PROVE MasterShaped' /\ master' \in {"receive", "notify", "ended"}
  BY <1>3 DEF LoopTest, MasterShaped, AllDone
<1>4. ASSUME NEW w \in Workers, ReceiveAvailable(w) PROVE Typed' /\ Shaped'
  <2>1. /\ Receive(w, "WORKER_AVAILABLE") /\ LoopTest /\ UNCHANGED <<worker, local>>
    BY <1>4 DEF ReceiveAvailable, Receive
  <2>2. /\ toMaster' \in [Workers -> Seq(Messages)] /\ ToMasterShaped' /\ WorkersShaped'
    BY <2>1, ReceiptShapes
  <2>3. progress' \in Nat /\ total_area' \in [Cells -> Nat]
    BY <1>4, AvailableCounts
  <2>4. CASE /\ stack = <<>> /\ UNCHANGED <<stack, toWorker>>
             /\ availableWorkers' = [availableWorkers EXCEPT ![w] = TRUE]
    <3>1. StackShaped'
      BY <1>1, <2>4 DEF StackShaped, IsWork
    <3> QED
      BY <1>1, <1>2, <1>3, <2>1, <2>2, <2>3, <2>4, <3>1 DEF Typed, Shaped
  <2>5. CASE /\ stack # <<>> /\ stack' = Tail(stack) /\ Execute(w, Head(stack))
             /\ availableWorkers' = [availableWorkers EXCEPT ![w] = FALSE]
    <3>1. /\ stack' \in Seq(Intervals) /\ Head(stack) \in Intervals
          /\ Head(stack) = stack[1] /\ 1 \in 1 .. Len(stack)
          /\ \A k \in 1 .. Len(stack') : stack'[k] = stack[k + 1] /\ k + 1 \in 1 .. Len(stack)
      BY <1>1, <2>5
    <3>2. IsWork(Head(stack)) /\ StackShaped'
      BY <1>1, <3>1 DEF StackShaped, IsWork
    <3>3. toWorker' \in [Workers -> Seq(Messages)] /\ ToWorkerShaped'
      BY <2>5, <3>1, <3>2, OrderShapes
    <3> QED
      BY <1>1, <1>3, <2>1, <2>2, <2>3, <2>5, <3>1, <3>2, <3>3 DEF Typed, Shaped
  <2> QED
    BY <1>4, <2>4, <2>5 DEF ReceiveAvailable
<1>5. ASSUME NEW w \in Workers, ReceiveTaskToAdd(w) PROVE Typed' /\ Shaped'
  <2> DEFINE t == Head(toMaster[w]).task
  <2>1. /\ Receive(w, "ADD_TASK") /\ LoopTest /\ UNCHANGED <<worker, local>>
        /\ UNCHANGED <<availableWorkers, progress, total_area>>
    BY <1>5 DEF ReceiveTaskToAdd, Receive
  <2>2. /\ toMaster' \in [Workers -> Seq(Messages)] /\ ToMasterShaped' /\ WorkersShaped'
        /\ t \in Intervals /\ IsWork(t)
    BY <2>1, ReceiptShapes
  <2>3. CASE idle > 0 /\ UNCHANGED stack /\ Execute(Min(AvailableOnes), t)
    <3>1. Min(AvailableOnes) \in Workers
      BY <2>3, MarkedWorker DEF WorkInv, IdleInv, AvailableFound
    <3> HIDE DEF t
    <3>2. toWorker' \in [Workers -> Seq(Messages)] /\ ToWorkerShaped'
      BY <2>2, <2>3, <3>1, OrderShapes
    <3>3. StackShaped'
      BY <1>1, <2>3 DEF StackShaped, IsWork
    <3> QED
      BY <1>1, <1>3, <2>1, <2>2, <2>3, <3>2, <3>3 DEF Typed, Shaped
  <2>4. CASE stack' = <<t>> \o stack /\ UNCHANGED toWorker
    <3> HIDE DEF t
    <3>1. /\ stack' \in Seq(Intervals) /\ Len(stack') = Len(stack) + 1
          /\ stack'[1] = t /\ Len(stack) \in Nat
          /\ \A k \in 1 .. Len(stack) : stack'[k + 1] = stack[k]
      BY <1>1, <2>2, <2>4
    <3>2. StackShaped'
      <4> SUFFICES ASSUME NEW k \in 1 .. Len(stack') PROVE IsWork(stack'[k])
        BY DEF StackShaped, IsWork
      <4>1. k = 1 \/ (k - 1 \in 1 .. Len(stack) /\ stack'[(k - 1) + 1] = stack[k - 1])
        BY <3>1
      <4>2. ASSUME k # 1 PROVE stack'[k] = stack[k - 1] /\ IsWork(stack[k - 1])
        BY <1>1, <4>1, <4>2 DEF StackShaped
      <4> QED
        BY <2>2, <3>1, <4>2
    <3> QED
      BY <1>1, <1>2, <1>3, <2>1, <2>2, <2>4, <3>1, <3>2 DEF Typed, Shaped
  <2> QED
    BY <1>5, <2>3, <2>4 DEF ReceiveTaskToAdd
<1>6. ASSUME Notify PROVE Typed' /\ Shaped'
  <2> DEFINE m == Message("NO_MORE_TASKS", Nothing)
  <2>1. /\ toWorker' = [w \in Workers |-> Append(toWorker[w], m)]
        /\ master = "notify" /\ master' = "ended"
        /\ UNCHANGED <<stack, idle, availableWorkers, progress, total_area,
                       worker, local, toMaster>>
    BY <1>6 DEF Notify
  <2>2. m \in Messages
    BY Kinds
  <2>3. toWorker' \in [Workers -> Seq(Messages)]
    BY <1>1, <2>1, <2>2
  <2>4. ToWorkerShaped'
    <3> SUFFICES ASSUME NEW v \in Workers, NEW k \in 1 .. Len(toWorker'[v])
                 PROVE  \/ /\ toWorker'[v][k].tag = "EXECUTE_TASK"
                           /\ IsWork(toWorker'[v][k].task)
                        \/ toWorker'[v][k] = Message("NO_MORE_TASKS", Nothing)
      BY DEF ToWorkerShaped, IsWork, Nothing, Message
    <3>1. \/ k \in 1 .. Len(toWorker[v]) /\ toWorker'[v][k] = toWorker[v][k]
          \/ toWorker'[v][k] = m
      <4> HIDE DEF m
      <4> QED
        BY <1>1, <2>1, <2>2
    <3> QED
      BY <1>1, <3>1 DEF ToWorkerShaped
  <2>5. ToMasterShaped' /\ WorkersShaped' /\ StackShaped' /\ MasterShaped'
    BY <1>1, <2>1 DEF ToMasterShaped, WorkersShaped, StackShaped, MasterShaped,
                      WorkInv, IsWork, Nothing
  <2> HIDE DEF m
  <2> QED
    BY <1>1, <2>1, <2>3, <2>4, <2>5 DEF Typed, Shaped
<1> QED
  BY <1>4, <1>5, <1>6 DEF MasterStep

-----------------------------------------------------------------------------
(* The invariant holds.                                                    *)

LEMMA WorkStep == WorkInv /\ [Next]_vars => WorkInv'
<1> SUFFICES ASSUME WorkInv, [Next]_vars PROVE WorkInv'
  OBVIOUS
<1>1. IdleInv'
  BY IdleStep DEF WorkInv
<1>2. ASSUME Counted', Typed', Shaped' PROVE WorkInv'
  <2>1. idle' \in 0 .. (n_cores - 1)
    <3>1. /\ IsFiniteSet(At(toMaster', Reports)) /\ IsFiniteSet(At(toWorker', Orders))
          /\ idle' + Cardinality(At(toMaster', Reports))
               + Cardinality(At(toWorker', Orders)) + Cardinality(Running') = n_cores - 1
      <4>1. Reports' = Reports /\ Orders' = Orders
        BY DEF Reports, Orders
      <4> QED
        BY <1>2, <4>1 DEF Counted, WorkersCounted
    <3>2. IsFiniteSet(Running')
      <4>1. Running' \in SUBSET Workers
        BY DEF Running
      <4> QED
        BY <4>1, Constants, FS_Subset
    <3>3. /\ Cardinality(At(toMaster', Reports)) \in Nat
          /\ Cardinality(At(toWorker', Orders)) \in Nat /\ Cardinality(Running') \in Nat
      BY <3>1, <3>2, FS_CardinalityType
    <3>4. idle' \in Nat
      BY <1>1 DEF IdleInv
    <3> QED
      BY <3>1, <3>3, <3>4, QuadratureAssumption
  <2> QED
    BY <1>1, <1>2, <2>1 DEF WorkInv, TypeOK, Typed, Shaped, Counted
<1>3. CASE MasterStep
  <2>1. Counted'
    BY <1>3, AvailableCounts, TaskToAddCounts, NotifyCounts DEF MasterStep
  <2> QED
    BY <1>2, <1>3, <2>1, MasterStepShapes
<1>4. ASSUME NEW w \in Workers, WorkerStep(w) PROVE WorkInv'
  BY <1>2, <1>4, WorkerStepCounts, WorkerStepShapes
<1>5. CASE UNCHANGED vars
  <2>1. UNCHANGED <<stack, idle, availableWorkers, progress, total_area, master,
                    worker, local, toMaster, toWorker>>
    BY <1>5 DEF vars, masterVars
  <2>2. TypeOK'
    BY <2>1 DEF WorkInv, TypeOK
  <2>3. /\ Reports' = Reports /\ Orders' = Orders /\ Running' = Running
        /\ Stack' = Stack /\ Cells' = Cells
        /\ \A c : With(c)' = With(c) /\ Carrying(c)' = Carrying(c)
        /\ \A c : Having(c)' = Having(c)
    BY <2>1 DEF Reports, Orders, Running, Stack, Cells, With, Carrying, Having, Covers
  <2>4. WorkersCounted' /\ CountedOnce'
    BY <2>1, <2>3 DEF WorkInv, WorkersCounted, CountedOnce
  <2>5. /\ ToMasterShaped' /\ ToWorkerShaped' /\ StackShaped'
        /\ WorkersShaped' /\ MasterShaped'
    BY <2>1 DEF WorkInv, ToMasterShaped, ToWorkerShaped, StackShaped,
                WorkersShaped, MasterShaped, IsWork, Nothing, Message
  <2> QED
    BY <1>1, <2>2, <2>4, <2>5 DEF WorkInv
<1> QED
  BY <1>3, <1>4, <1>5 DEF Next

LEMMA WorkHolds == Spec => []WorkInv
BY WorkInit, WorkStep, PTL DEF Spec

(* The types of the variables: the reports that idle counts never exceed   *)
(* the workers, whatever order the messages come in.                       *)
THEOREM TypesHold == Spec => []TypeOK
<1>1. WorkInv => TypeOK
  BY DEF WorkInv
<1> QED
  BY <1>1, WorkHolds, PTL

(* Marking the members of a set of pairs with the place they are in. *)
Tag(tag, A) == {<<tag, x[1], x[2]>> : x \in A}

LEMMA Tagged ==
  ASSUME NEW A, IsFiniteSet(A), \A x \in A : x = <<x[1], x[2]>>, NEW tag
  PROVE  IsFiniteSet(Tag(tag, A)) /\ Cardinality(Tag(tag, A)) = Cardinality(A)
<1> DEFINE B == Tag(tag, A)
           f == [x \in A |-> <<tag, x[1], x[2]>>]
<1>1. f \in [A -> B]
  BY DEF Tag
<1>2. \A x, y \in A : f[x] = f[y] => x = y
  OBVIOUS
<1>3. \A y \in B : \E x \in A : f[x] = y
  BY DEF Tag
<1> HIDE DEF f, B
<1>4. f \in Bijection(A, B)
  BY <1>1, <1>2, <1>3, Fun_IsBij
<1>5. ExistsBijection(A, B)
  BY <1>4, Fun_ExistsBij
<1> QED
  BY <1>5, FS_Bijection DEF B

Pairs(A) == \A x \in A : x = <<x[1], x[2]>>

Marks(y, tag, A) == \E i, k : <<i, k>> \in A /\ y = <<tag, i, k>>

LEMMA TagMembers ==
  ASSUME NEW tag, NEW A, Pairs(A), NEW y
  PROVE  y \in Tag(tag, A) <=> Marks(y, tag, A)
<1>1. ASSUME y \in Tag(tag, A)
      PROVE  Marks(y, tag, A)
  <2>1. PICK x \in A : y = <<tag, x[1], x[2]>>
    BY <1>1 DEF Tag
  <2>2. <<x[1], x[2]>> \in A
    BY DEF Pairs
  <2> QED
    BY <2>1, <2>2 DEF Marks
<1>2. ASSUME NEW i, NEW k, <<i, k>> \in A, y = <<tag, i, k>>
      PROVE  y \in Tag(tag, A)
  <2>1. <<i, k>>[1] = i /\ <<i, k>>[2] = k
    OBVIOUS
  <2> QED
    BY <1>2, <2>1 DEF Tag
<1> QED
  BY <1>1, <1>2 DEF Marks

(* Two disjoint finite sets. *)
LEMMA Apart ==
  ASSUME NEW A, NEW B, IsFiniteSet(A), IsFiniteSet(B), \A x \in A : x \notin B
  PROVE  /\ IsFiniteSet(A \cup B)
         /\ Cardinality(A \cup B) = Cardinality(A) + Cardinality(B)
<1>1. A \cap B = {}
  OBVIOUS
<1>2. Cardinality(A \cap B) = 0
  BY <1>1, FS_EmptySet
<1>3. Cardinality(A) \in Nat /\ Cardinality(B) \in Nat
  BY FS_CardinalityType
<1>4. /\ IsFiniteSet(A \cup B)
      /\ Cardinality(A \cup B) =
           Cardinality(A) + Cardinality(B) - Cardinality(A \cap B)
  BY FS_Union
<1> QED
  BY <1>2, <1>3, <1>4

(* Four sets of pairs, put together with their marks. *)
LEMMA FourTagged ==
  ASSUME NEW A1, NEW A2, NEW A3, NEW A4,
         IsFiniteSet(A1), IsFiniteSet(A2), IsFiniteSet(A3), IsFiniteSet(A4),
         Pairs(A1), Pairs(A2), Pairs(A3), Pairs(A4), NEW S,
         \A y : y \in S <=> \/ y \in Tag("stack", A1) \/ y \in Tag("toMaster", A2)
                            \/ y \in Tag("toWorker", A3) \/ y \in Tag("local", A4)
  PROVE  /\ IsFiniteSet(S)
         /\ Cardinality(S) = Cardinality(A1) + Cardinality(A2)
                               + Cardinality(A3) + Cardinality(A4)
<1>1. PICK B1 : B1 = Tag("stack", A1)
  OBVIOUS
<1>2. PICK B2 : B2 = Tag("toMaster", A2)
  OBVIOUS
<1>3. PICK B3 : B3 = Tag("toWorker", A3)
  OBVIOUS
<1>4. PICK B4 : B4 = Tag("local", A4)
  OBVIOUS
<1>5. /\ IsFiniteSet(B1) /\ Cardinality(B1) = Cardinality(A1)
      /\ IsFiniteSet(B2) /\ Cardinality(B2) = Cardinality(A2)
      /\ IsFiniteSet(B3) /\ Cardinality(B3) = Cardinality(A3)
      /\ IsFiniteSet(B4) /\ Cardinality(B4) = Cardinality(A4)
  <2>1. IsFiniteSet(B1) /\ Cardinality(B1) = Cardinality(A1)
    BY <1>1, Tagged DEF Pairs
  <2>2. IsFiniteSet(B2) /\ Cardinality(B2) = Cardinality(A2)
    BY <1>2, Tagged DEF Pairs
  <2>3. IsFiniteSet(B3) /\ Cardinality(B3) = Cardinality(A3)
    BY <1>3, Tagged DEF Pairs
  <2>4. IsFiniteSet(B4) /\ Cardinality(B4) = Cardinality(A4)
    BY <1>4, Tagged DEF Pairs
  <2> QED
    BY <2>1, <2>2, <2>3, <2>4
<1>6. /\ \A x \in B1 : x[1] = "stack" 
      /\ \A x \in B2 : x[1] = "toMaster"
      /\ \A x \in B3 : x[1] = "toWorker" 
      /\ \A x \in B4 : x[1] = "local"
  <2>1. \A tag, A : \A x \in Tag(tag, A) : x[1] = tag
    BY DEF Tag
  <2> QED
    BY <1>1, <1>2, <1>3, <1>4, <2>1
<1>7. /\ IsFiniteSet(B1 \cup B2)
      /\ Cardinality(B1 \cup B2) = Cardinality(B1) + Cardinality(B2)
  <2>1. \A x \in B1 : x \notin B2
    BY <1>6
  <2> QED
    BY <1>5, <2>1, Apart
<1>8. /\ IsFiniteSet((B1 \cup B2) \cup B3)
      /\ Cardinality((B1 \cup B2) \cup B3) = Cardinality(B1 \cup B2) + Cardinality(B3)
  <2>1. \A x \in B1 \cup B2 : x \notin B3
    BY <1>6
  <2> QED
    BY <1>5, <1>7, <2>1, Apart
<1>9. /\ IsFiniteSet(((B1 \cup B2) \cup B3) \cup B4)
      /\ Cardinality(((B1 \cup B2) \cup B3) \cup B4) =
           Cardinality((B1 \cup B2) \cup B3) + Cardinality(B4)
  <2>1. \A x \in (B1 \cup B2) \cup B3 : x \notin B4
    BY <1>6
  <2> QED
    BY <1>5, <1>8, <2>1, Apart
<1>10. S = ((B1 \cup B2) \cup B3) \cup B4
  BY <1>1, <1>2, <1>3, <1>4
<1> QED
  BY <1>5, <1>7, <1>8, <1>9, <1>10

(* The places of cell c, counted together. *)
LEMMA HoldersCounted ==
  ASSUME WorkInv, NEW c \in Cells
  PROVE  /\ IsFiniteSet(Holders(c))
         /\ Cardinality(Holders(c)) =
              Cardinality(At(Stack, With(c))) + Cardinality(At(toMaster, Carrying(c)))
                + Cardinality(At(toWorker, Carrying(c))) + Cardinality(Having(c))
<1>1. PICK A1 : A1 = At(Stack, With(c))
  OBVIOUS
<1>2. PICK A2 : A2 = At(toMaster, Carrying(c))
  OBVIOUS
<1>3. PICK A3 : A3 = At(toWorker, Carrying(c))
  OBVIOUS
<1>4. PICK A4 : A4 = {<<w, 0>> : w \in Having(c)}
  OBVIOUS
<1>5. IsFiniteSet(A1) /\ IsFiniteSet(A2) /\ IsFiniteSet(A3)
  BY <1>1, <1>2, <1>3, Finite
<1>6. IsFiniteSet(A4) /\ Cardinality(A4) = Cardinality(Having(c))
  <2>1. Having(c) \in SUBSET Workers
    BY DEF Having
  <2>2. IsFiniteSet(Having(c))
    BY <2>1, Constants, FS_Subset
  <2> DEFINE f == [w \in Having(c) |-> <<w, 0>>]
  <2>3. /\ f \in [Having(c) -> A4]
        /\ \A x, y \in Having(c) : f[x] = f[y] => x = y
        /\ \A y \in A4 : \E x \in Having(c) : f[x] = y
    BY <1>4
  <2> HIDE DEF f
  <2>4. ExistsBijection(Having(c), A4)
    BY <2>3, Fun_IsBij, Fun_ExistsBij
  <2> QED
    BY <2>2, <2>4, FS_Bijection
<1>7. /\ \A x : x \in A1 <=> \E k \in DOMAIN stack : Covers(stack[k], c) /\ x = <<0, k>>
      /\ \A x : x \in A2 <=> \E w \in Workers : \E k \in DOMAIN toMaster[w] :
                               Covers(toMaster[w][k].task, c) /\ x = <<w, k>>
      /\ \A x : x \in A3 <=> \E w \in Workers : \E k \in DOMAIN toWorker[w] :
                               Covers(toWorker[w][k].task, c) /\ x = <<w, k>>
      /\ \A x : x \in A4 <=> \E w \in Workers : Covers(local[w], c) /\ x = <<w, 0>>
  <2>1. /\ \A k \in DOMAIN stack : stack[k] \in With(c) <=> Covers(stack[k], c)
        /\ \A w \in Workers : \A k \in DOMAIN toMaster[w] :
             toMaster[w][k] \in Carrying(c) <=> Covers(toMaster[w][k].task, c)
        /\ \A w \in Workers : \A k \in DOMAIN toWorker[w] :
             toWorker[w][k] \in Carrying(c) <=> Covers(toWorker[w][k].task, c)
    <3>1. /\ \A k \in DOMAIN stack : stack[k] \in Intervals
          /\ \A w \in Workers : \A k \in DOMAIN toMaster[w] : toMaster[w][k] \in Messages
          /\ \A w \in Workers : \A k \in DOMAIN toWorker[w] : toWorker[w][k] \in Messages
      BY Finite
    <3> QED
      BY <3>1, Kinds
  <2>2. /\ DOMAIN Stack = {0} /\ Stack[0] = stack
        /\ DOMAIN toMaster = Workers /\ DOMAIN toWorker = Workers
    BY Finite DEF Stack
  <2>3. \A x : x \in A1 <=> \E k \in DOMAIN stack : stack[k] \in With(c) /\ x = <<0, k>>
    <3>1. \A x : x \in At(Stack, With(c)) <=>
                   \E i \in DOMAIN Stack : \E k \in DOMAIN Stack[i] :
                     Stack[i][k] \in With(c) /\ x = <<i, k>>
      BY PositionsOf
    <3> QED
      BY <1>1, <2>2, <3>1
  <2>4. \A x : x \in A2 <=> \E w \in Workers : \E k \in DOMAIN toMaster[w] :
                              toMaster[w][k] \in Carrying(c) /\ x = <<w, k>>
    BY <1>2, <2>2, PositionsOf
  <2>5. \A x : x \in A3 <=> \E w \in Workers : \E k \in DOMAIN toWorker[w] :
                              toWorker[w][k] \in Carrying(c) /\ x = <<w, k>>
    BY <1>3, <2>2, PositionsOf
  <2>6. \A x : x \in A4 <=> \E w \in Workers : Covers(local[w], c) /\ x = <<w, 0>>
    BY <1>4 DEF Having
  <2> QED
    BY <2>1, <2>3, <2>4, <2>5, <2>6
<1>8. Pairs(A1) /\ Pairs(A2) /\ Pairs(A3) /\ Pairs(A4)
  BY <1>7 DEF Pairs
<1>9. ASSUME NEW y
      PROVE  y \in Holders(c) <=>
               \/ \E k \in DOMAIN stack : Covers(stack[k], c) /\ y = <<"stack", 0, k>>
               \/ \E w \in Workers : \E k \in DOMAIN toMaster[w] :
                    Covers(toMaster[w][k].task, c) /\ y = <<"toMaster", w, k>>
               \/ \E w \in Workers : \E k \in DOMAIN toWorker[w] :
                    Covers(toWorker[w][k].task, c) /\ y = <<"toWorker", w, k>>
               \/ \E w \in Workers : Covers(local[w], c) /\ y = <<"local", w, 0>>
  <2>1. PICK C1 : C1 = {<<"stack", 0, k>> : k \in {k \in DOMAIN stack : Covers(stack[k], c)}}
    OBVIOUS
  <2>2. PICK C2 : C2 = UNION {{<<"toMaster", w, k>> :
               k \in {k \in DOMAIN toMaster[w] : Covers(toMaster[w][k].task, c)}} :
             w \in Workers}
    OBVIOUS
  <2>3. PICK C3 : C3 = UNION {{<<"toWorker", w, k>> :
               k \in {k \in DOMAIN toWorker[w] : Covers(toWorker[w][k].task, c)}} :
             w \in Workers}
    OBVIOUS
  <2>4. PICK C4 : C4 = {<<"local", w, 0>> : w \in {w \in Workers : Covers(local[w], c)}}
    OBVIOUS
  <2>5. y \in C1 <=>
          \E k \in DOMAIN stack : Covers(stack[k], c) /\ y = <<"stack", 0, k>>
    BY <2>1
  <2>6. y \in C2 <=>
          \E w \in Workers : \E k \in DOMAIN toMaster[w] :
            Covers(toMaster[w][k].task, c) /\ y = <<"toMaster", w, k>>
    BY <2>2
  <2>7. y \in C3 <=>
          \E w \in Workers : \E k \in DOMAIN toWorker[w] :
            Covers(toWorker[w][k].task, c) /\ y = <<"toWorker", w, k>>
    BY <2>3
  <2>8. y \in C4 <=>
          \E w \in Workers : Covers(local[w], c) /\ y = <<"local", w, 0>>
    BY <2>4
  <2>9. Holders(c) = C1 \cup C2 \cup C3 \cup C4
    BY <2>1, <2>2, <2>3, <2>4 DEF Holders
  <2> QED
    BY <2>5, <2>6, <2>7, <2>8, <2>9
<1>10. ASSUME NEW y
       PROVE  /\ y \in Tag("stack", A1) <=>
                   \E k \in DOMAIN stack : Covers(stack[k], c) /\ y = <<"stack", 0, k>>
              /\ y \in Tag("toMaster", A2) <=>
                   \E w \in Workers : \E k \in DOMAIN toMaster[w] :
                     Covers(toMaster[w][k].task, c) /\ y = <<"toMaster", w, k>>
              /\ y \in Tag("toWorker", A3) <=>
                   \E w \in Workers : \E k \in DOMAIN toWorker[w] :
                     Covers(toWorker[w][k].task, c) /\ y = <<"toWorker", w, k>>
              /\ y \in Tag("local", A4) <=>
                   \E w \in Workers : Covers(local[w], c) /\ y = <<"local", w, 0>>
  <2>1. y \in Tag("stack", A1) <=>
          \E k \in DOMAIN stack : Covers(stack[k], c) /\ y = <<"stack", 0, k>>
    <3>1. y \in Tag("stack", A1) <=> Marks(y, "stack", A1)
      BY <1>8, TagMembers
    <3>2. \A i, k : <<i, k>> \in A1 <=> k \in DOMAIN stack /\ Covers(stack[k], c) /\ i = 0
      BY <1>7
    <3> QED
      BY <3>1, <3>2 DEF Marks
  <2>2. y \in Tag("toMaster", A2) <=>
          \E w \in Workers : \E k \in DOMAIN toMaster[w] :
            Covers(toMaster[w][k].task, c) /\ y = <<"toMaster", w, k>>
    <3>1. y \in Tag("toMaster", A2) <=> Marks(y, "toMaster", A2)
      BY <1>8, TagMembers
    <3>2. \A i, k : <<i, k>> \in A2 <=>
            i \in Workers /\ k \in DOMAIN toMaster[i] /\ Covers(toMaster[i][k].task, c)
      BY <1>7
    <3> QED
      BY <3>1, <3>2 DEF Marks
  <2>3. y \in Tag("toWorker", A3) <=>
          \E w \in Workers : \E k \in DOMAIN toWorker[w] :
            Covers(toWorker[w][k].task, c) /\ y = <<"toWorker", w, k>>
    <3>1. y \in Tag("toWorker", A3) <=> Marks(y, "toWorker", A3)
      BY <1>8, TagMembers
    <3>2. \A i, k : <<i, k>> \in A3 <=>
            i \in Workers /\ k \in DOMAIN toWorker[i] /\ Covers(toWorker[i][k].task, c)
      BY <1>7
    <3> QED
      BY <3>1, <3>2 DEF Marks
  <2>4. y \in Tag("local", A4) <=>
          \E w \in Workers : Covers(local[w], c) /\ y = <<"local", w, 0>>
    <3>1. y \in Tag("local", A4) <=> Marks(y, "local", A4)
      BY <1>8, TagMembers
    <3>2. \A i, k : <<i, k>> \in A4 <=> i \in Workers /\ Covers(local[i], c) /\ k = 0
      BY <1>7
    <3> QED
      <4>1. ASSUME Marks(y, "local", A4)
            PROVE  \E w \in Workers : Covers(local[w], c) /\ y = <<"local", w, 0>>
        BY <3>2, <4>1 DEF Marks
      <4>2. ASSUME NEW w \in Workers, Covers(local[w], c), y = <<"local", w, 0>>
            PROVE  Marks(y, "local", A4)
        BY <3>2, <4>2 DEF Marks
      <4> QED
        BY <3>1, <4>1, <4>2
  <2> QED
    BY <2>1, <2>2, <2>3, <2>4
<1>11. \A y : y \in Holders(c) <=>
                \/ y \in Tag("stack", A1) \/ y \in Tag("toMaster", A2)
                \/ y \in Tag("toWorker", A3) \/ y \in Tag("local", A4)
  BY <1>9, <1>10
<1>12. /\ IsFiniteSet(Holders(c))
       /\ Cardinality(Holders(c)) = Cardinality(A1) + Cardinality(A2)
                                      + Cardinality(A3) + Cardinality(A4)
  BY <1>5, <1>6, <1>8, <1>11, FourTagged
<1> QED
  BY <1>1, <1>2, <1>3, <1>6, <1>12

(* NoWorkLost (the divisions, the stack and the messages): CountedOnce, put *)
(* in terms of the places that hold the cell.                               *)
THEOREM NoWorkIsLost == Spec => []NoWorkLost
<1>1. ASSUME WorkInv PROVE NoWorkLost
  <2> SUFFICES ASSUME NEW c \in Cells
               PROVE  Cardinality(Holders(c)) + total_area[c] = 1
    BY DEF NoWorkLost
  <2>1. Cardinality(At(Stack, With(c))) + Cardinality(At(toMaster, Carrying(c)))
          + Cardinality(At(toWorker, Carrying(c))) + Cardinality(Having(c))
          + total_area[c] = 1
    BY <1>1 DEF WorkInv, CountedOnce
  <2> QED
    BY <1>1, <2>1, HoldersCounted
<1> QED
  BY <1>1, WorkHolds, PTL

(* No worker works, none has reported, and none is told to work. *)
Quiet ==
  \A w \in Workers : /\ toMaster[w] = <<>>
                     /\ worker[w] \notin {"starts", "works"}
                     /\ local[w] = Nothing
                     /\ \A k \in 1 .. Len(toWorker[w]) :
                          toWorker[w][k] = Message("NO_MORE_TASKS", Nothing)

LEMMA AllIdle ==
  ASSUME WorkInv, idle = n_cores - 1
  PROVE  stack = <<>> /\ Quiet /\ \A c \in Cells : total_area[c] = 1
<1>1. stack = <<>>
  <2>1. idle > 0
    <3>1. n_cores - 1 > 0
      BY QuadratureAssumption
    <3> QED
      BY <3>1
  <2>2. idle > 0 => stack = <<>>
    BY DEF WorkInv, IdleInv
  <2> QED
    BY <2>1, <2>2
<1>2. /\ At(toMaster, Reports) = {} /\ At(toWorker, Orders) = {} /\ Running = {}
  <2>1. IsFiniteSet(Running)
    BY Constants, FS_Subset DEF Running
  <2>2. /\ IsFiniteSet(At(toMaster, Reports)) /\ IsFiniteSet(At(toWorker, Orders))
        /\ idle + Cardinality(At(toMaster, Reports)) + Cardinality(At(toWorker, Orders))
             + Cardinality(Running) = n_cores - 1
    BY DEF WorkInv, WorkersCounted
  <2>3. /\ Cardinality(At(toMaster, Reports)) \in Nat
        /\ Cardinality(At(toWorker, Orders)) \in Nat /\ Cardinality(Running) \in Nat
    BY <2>1, <2>2, FS_CardinalityType
  <2>4. /\ Cardinality(At(toMaster, Reports)) = 0 /\ Cardinality(At(toWorker, Orders)) = 0
        /\ Cardinality(Running) = 0
    BY <2>2, <2>3, Constants
  <2> QED
    BY <2>1, <2>2, <2>4, FS_EmptySet
<1>3. Quiet
  <2> SUFFICES ASSUME NEW w \in Workers
               PROVE  /\ toMaster[w] = <<>>
                      /\ worker[w] \notin {"starts", "works"}
                      /\ local[w] = Nothing
                      /\ \A k \in 1 .. Len(toWorker[w]) :
                           toWorker[w][k] = Message("NO_MORE_TASKS", Nothing)
    BY DEF Quiet
  <2>1. worker[w] \notin {"starts", "works"}
    BY <1>2 DEF Running
  <2>2. toMaster[w] \in Seq(Messages) /\ toWorker[w] \in Seq(Messages)
        /\ DOMAIN toMaster = Workers /\ DOMAIN toWorker = Workers
    BY Finite
  <2>3. /\ \A k \in DOMAIN toMaster[w] : toMaster[w][k].tag # "WORKER_AVAILABLE"
        /\ \A k \in DOMAIN toWorker[w] : toWorker[w][k].tag # "EXECUTE_TASK"
    <3>1. /\ \A k \in DOMAIN toMaster[w] : toMaster[w][k] \notin Reports
          /\ \A k \in DOMAIN toWorker[w] : toWorker[w][k] \notin Orders
      <4>1. \A Q, P, i, k :
              i \in DOMAIN Q /\ k \in DOMAIN Q[i] /\ Q[i][k] \in P
                => <<i, k>> \in At(Q, P)
        BY PositionsOf
      <4> QED
        BY <1>2, <2>2, <4>1
    <3>2. /\ \A k \in DOMAIN toMaster[w] : toMaster[w][k] \in Messages
          /\ \A k \in DOMAIN toWorker[w] : toWorker[w][k] \in Messages
      BY <2>2
    <3> QED
      BY <3>1, <3>2, Kinds
  <2>4. toMaster[w] = <<>>
    <3> SUFFICES ASSUME toMaster[w] # <<>> PROVE FALSE
      OBVIOUS
    <3>1. toMaster[w][Len(toMaster[w])].tag = "WORKER_AVAILABLE"
      BY <2>1 DEF WorkInv, WorkersShaped
    <3>2. Len(toMaster[w]) \in DOMAIN toMaster[w]
      BY <2>2
    <3> QED
      BY <2>3, <3>1, <3>2
  <2>5. local[w] = Nothing
    BY <2>1 DEF WorkInv, WorkersShaped
  <2>6. ASSUME NEW k \in 1 .. Len(toWorker[w])
        PROVE  toWorker[w][k] = Message("NO_MORE_TASKS", Nothing)
    <3>1. toWorker[w][k].tag # "EXECUTE_TASK"
      BY <2>2, <2>3
    <3> QED
      BY <3>1 DEF WorkInv, ToWorkerShaped
  <2> QED
    BY <2>1, <2>4, <2>5, <2>6
<1>4. ASSUME NEW c \in Cells PROVE total_area[c] = 1
  <2>1. At(Stack, With(c)) = {}
    <3>1. \A i \in DOMAIN Stack : Stack[i] = <<>>
      BY <1>1 DEF Stack
    <3> QED
      BY <3>1, NothingAt
  <2>2. At(toMaster, Carrying(c)) = {}
    <3>1. \A w \in DOMAIN toMaster : toMaster[w] = <<>>
      BY <1>3, Finite DEF Quiet
    <3> QED
      BY <3>1, NothingAt
  <2>3. At(toWorker, Carrying(c)) = {}
    <3>1. ASSUME NEW w \in DOMAIN toWorker, NEW k \in DOMAIN toWorker[w]
          PROVE  toWorker[w][k] \notin Carrying(c)
      <4>1. w \in Workers /\ k \in 1 .. Len(toWorker[w])
        BY Finite
      <4>2. toWorker[w][k] = Message("NO_MORE_TASKS", Nothing)
        BY <1>3, <4>1 DEF Quiet
      <4>3. /\ Message("NO_MORE_TASKS", Nothing).task = Nothing
            /\ Message("NO_MORE_TASKS", Nothing) \in Messages
            /\ ~ Covers(Nothing, c)
        BY Kinds
      <4> QED
        BY <4>2, <4>3, Kinds
    <3> QED
      BY <3>1, PositionsOf
  <2>4. Having(c) = {}
    <3>1. ~ Covers(Nothing, c)
      BY Kinds
    <3> QED
      BY <1>3, <3>1 DEF Having, Quiet
  <2>5. /\ Cardinality(At(Stack, With(c))) = 0 /\ Cardinality(At(toMaster, Carrying(c))) = 0
        /\ Cardinality(At(toWorker, Carrying(c))) = 0 /\ Cardinality(Having(c)) = 0
    BY <2>1, <2>2, <2>3, <2>4, FS_EmptySet
  <2>6. Cardinality(At(Stack, With(c))) + Cardinality(At(toMaster, Carrying(c)))
          + Cardinality(At(toWorker, Carrying(c))) + Cardinality(Having(c))
          + total_area[c] = 1
    BY DEF WorkInv, CountedOnce
  <2>7. total_area[c] \in Nat
    BY DEF WorkInv, TypeOK
  <2> QED
    BY <2>5, <2>6, <2>7
<1> QED
  BY <1>1, <1>3, <1>4

(* IdleSuffices (aquad3.c:199): every worker is counted once, as idle, by  *)
(* its report, by the task it was sent or by the one it works on; so when  *)
(* all are idle there is nothing anywhere, and each cell is in the area.   *)
THEOREM IdleCountSuffices == Spec => []IdleSuffices
<1>1. WorkInv => IdleSuffices
  BY AllIdle DEF IdleSuffices, Quiet
<1> QED
  BY <1>1, WorkHolds, PTL

(* The intervals in the four places, and how the steps move them. *)
Tasks(Q) == UNION {TasksIn(Q[w]) : w \in Workers}
OnStack(s) == {s[k] : k \in DOMAIN s}
Locals(l) == {l[w] : w \in Workers}

LEMMA PendingParts ==
  /\ Pending = (OnStack(stack) \cup Tasks(toMaster) \cup Tasks(toWorker)
                  \cup Locals(local)) \ {Nothing}
  /\ Pending' = (OnStack(stack') \cup Tasks(toMaster') \cup Tasks(toWorker')
                   \cup Locals(local')) \ {Nothing}
BY DEF Pending, OnStack, Tasks, Locals, Nothing, TasksIn, Workers

LEMMA TaskOf ==
  ASSUME NEW Q, NEW t
  PROVE  t \in Tasks(Q) <=> \E w \in Workers : \E k \in DOMAIN Q[w] : t = Q[w][k].task
BY DEF Tasks, TasksIn

LEMMA PutTasks ==
  ASSUME NEW Q \in [Workers -> Seq(Messages)], NEW w \in Workers, NEW m \in Messages
  PROVE  Tasks(Put(Q, w, m)) = Tasks(Q) \cup {m.task}
<1>1. PICK R : R = Put(Q, w, m)
  OBVIOUS
<1>2. /\ \A v \in Workers \ {w} : R[v] = Q[v]
      /\ R[w] = Append(Q[w], m)
  BY <1>1 DEF Put
<1>3. /\ DOMAIN Q[w] = 1 .. Len(Q[w]) /\ Len(Q[w]) \in Nat
      /\ DOMAIN R[w] = 1 .. (Len(Q[w]) + 1)
      /\ \A k \in 1 .. Len(Q[w]) : R[w][k] = Q[w][k]
      /\ R[w][Len(Q[w]) + 1] = m
  BY <1>2
<1>4. ASSUME NEW t PROVE t \in Tasks(R) <=> t \in Tasks(Q) \/ t = m.task
  <2>1. ASSUME NEW v \in Workers, NEW k \in DOMAIN R[v], t = R[v][k].task
        PROVE  t \in Tasks(Q) \/ t = m.task
    <3>1. CASE v = w /\ k = Len(Q[w]) + 1
      BY <1>3, <2>1, <3>1
    <3>2. CASE ~ (v = w /\ k = Len(Q[w]) + 1)
      <4>1. k \in DOMAIN Q[v] /\ R[v][k] = Q[v][k]
        BY <1>2, <1>3, <3>2
      <4> QED
        BY <2>1, <4>1, TaskOf
    <3> QED
      BY <3>1, <3>2
  <2>2. ASSUME NEW v \in Workers, NEW k \in DOMAIN Q[v], t = Q[v][k].task
        PROVE  t \in Tasks(R)
    <3>1. k \in DOMAIN R[v] /\ R[v][k] = Q[v][k]
      BY <1>2, <1>3
    <3> QED
      BY <2>2, <3>1, TaskOf
  <2>3. m.task \in Tasks(R)
    <3>1. Len(Q[w]) + 1 \in DOMAIN R[w] /\ m.task = R[w][Len(Q[w]) + 1].task
      BY <1>3
    <3> QED
      BY <3>1, TaskOf
  <2>4. t \in Tasks(R) => t \in Tasks(Q) \/ t = m.task
    BY <2>1, TaskOf
  <2>5. t \in Tasks(Q) => t \in Tasks(R)
    BY <2>2, TaskOf
  <2> QED
    BY <2>3, <2>4, <2>5
<1> QED
  BY <1>1, <1>4

LEMMA TakeTasks ==
  ASSUME NEW Q \in [Workers -> Seq(Messages)], NEW w \in Workers, Q[w] # <<>>
  PROVE  /\ Tasks(Q) = Tasks(Take(Q, w)) \cup {Head(Q[w]).task}
         /\ Head(Q[w]) \in Messages
<1>1. PICK R : R = Take(Q, w)
  OBVIOUS
<1>2. /\ \A v \in Workers \ {w} : R[v] = Q[v]
      /\ R[w] = Tail(Q[w])
  BY <1>1 DEF Take
<1>3. /\ DOMAIN Q[w] = 1 .. Len(Q[w]) /\ Len(Q[w]) \in Nat \ {0}
      /\ DOMAIN R[w] = 1 .. (Len(Q[w]) - 1)
      /\ \A k \in 1 .. (Len(Q[w]) - 1) : R[w][k] = Q[w][k + 1]
      /\ Head(Q[w]) = Q[w][1] /\ Head(Q[w]) \in Messages
  BY <1>2
<1>4. ASSUME NEW t PROVE t \in Tasks(Q) <=> t \in Tasks(R) \/ t = Head(Q[w]).task
  <2>1. ASSUME NEW v \in Workers, NEW k \in DOMAIN Q[v], t = Q[v][k].task
        PROVE  t \in Tasks(R) \/ t = Head(Q[w]).task
    <3>1. CASE v = w /\ k = 1
      BY <1>3, <2>1, <3>1
    <3>2. CASE v = w /\ k # 1
      <4>1. k - 1 \in DOMAIN R[w] /\ R[w][k - 1] = Q[w][k]
        BY <1>3, <3>2
      <4> QED
        BY <2>1, <3>2, <4>1, TaskOf
    <3>3. CASE v # w
      BY <1>2, <2>1, <3>3, TaskOf
    <3> QED
      BY <3>1, <3>2, <3>3
  <2>2. ASSUME NEW v \in Workers, NEW k \in DOMAIN R[v], t = R[v][k].task
        PROVE  t \in Tasks(Q)
    <3>1. CASE v = w
      <4>1. k + 1 \in DOMAIN Q[w] /\ R[w][k] = Q[w][k + 1]
        BY <1>3, <3>1
      <4> QED
        BY <2>2, <3>1, <4>1, TaskOf
    <3>2. CASE v # w
      BY <1>2, <2>2, <3>2, TaskOf
    <3> QED
      BY <3>1, <3>2
  <2>3. Head(Q[w]).task \in Tasks(Q)
    <3>1. 1 \in DOMAIN Q[w] /\ Head(Q[w]).task = Q[w][1].task
      BY <1>3
    <3> QED
      BY <3>1, TaskOf
  <2>4. t \in Tasks(Q) => t \in Tasks(R) \/ t = Head(Q[w]).task
    BY <2>1, TaskOf
  <2>5. t \in Tasks(R) => t \in Tasks(Q)
    BY <2>2, TaskOf
  <2> QED
    BY <2>3, <2>4, <2>5
<1> QED
  BY <1>1, <1>3, <1>4

LEMMA StackTasks ==
  ASSUME NEW s \in Seq(Intervals)
  PROVE  /\ s # <<>> => /\ OnStack(s) = OnStack(Tail(s)) \cup {Head(s)}
                        /\ Head(s) \in Intervals
         /\ \A t \in Intervals : OnStack(<<t>> \o s) = OnStack(s) \cup {t}
<1>1. ASSUME s # <<>>
      PROVE  OnStack(s) = OnStack(Tail(s)) \cup {Head(s)} /\ Head(s) \in Intervals
  <2>1. PICK r : r = Tail(s)
    OBVIOUS
  <2>2. /\ DOMAIN s = 1 .. Len(s) /\ Len(s) \in Nat \ {0}
        /\ DOMAIN r = 1 .. (Len(s) - 1)
        /\ \A k \in 1 .. (Len(s) - 1) : r[k] = s[k + 1]
        /\ Head(s) = s[1] /\ Head(s) \in Intervals
    BY <1>1, <2>1
  <2>3. ASSUME NEW t PROVE t \in OnStack(s) <=> t \in OnStack(r) \/ t = Head(s)
    <3>1. ASSUME NEW k \in DOMAIN s, t = s[k] PROVE t \in OnStack(r) \/ t = Head(s)
      <4>1. k = 1 \/ (k - 1 \in DOMAIN r /\ r[k - 1] = s[k])
        BY <2>2
      <4> QED
        BY <2>2, <3>1, <4>1 DEF OnStack
    <3>2. ASSUME NEW k \in DOMAIN r, t = r[k] PROVE t \in OnStack(s)
      <4>1. k + 1 \in DOMAIN s /\ r[k] = s[k + 1]
        BY <2>2
      <4> QED
        BY <3>2, <4>1 DEF OnStack
    <3>3. Head(s) \in OnStack(s)
      <4>1. 1 \in DOMAIN s /\ Head(s) = s[1]
        BY <2>2
      <4> QED
        BY <4>1 DEF OnStack
    <3>4. t \in OnStack(s) => t \in OnStack(r) \/ t = Head(s)
      BY <3>1 DEF OnStack
    <3>5. t \in OnStack(r) => t \in OnStack(s)
      BY <3>2 DEF OnStack
    <3> QED
      BY <3>3, <3>4, <3>5
  <2> QED
    BY <2>1, <2>2, <2>3
<1>2. ASSUME NEW i \in Intervals PROVE OnStack(<<i>> \o s) = OnStack(s) \cup {i}
  <2>1. PICK r : r = <<i>> \o s
    OBVIOUS
  <2>2. /\ DOMAIN s = 1 .. Len(s) /\ Len(s) \in Nat
        /\ DOMAIN r = 1 .. (Len(s) + 1)
        /\ \A k \in 1 .. Len(s) : r[k + 1] = s[k]
        /\ r[1] = i
    BY <2>1
  <2>3. ASSUME NEW t PROVE t \in OnStack(r) <=> t \in OnStack(s) \/ t = i
    <3>1. ASSUME NEW k \in DOMAIN r, t = r[k] PROVE t \in OnStack(s) \/ t = i
      <4>1. k = 1 \/ (k - 1 \in DOMAIN s /\ r[k] = s[k - 1])
        BY <2>2
      <4> QED
        BY <2>2, <3>1, <4>1 DEF OnStack
    <3>2. ASSUME NEW k \in DOMAIN s, t = s[k] PROVE t \in OnStack(r)
      <4>1. k + 1 \in DOMAIN r /\ r[k + 1] = s[k]
        BY <2>2
      <4> QED
        BY <3>2, <4>1 DEF OnStack
    <3>3. i \in OnStack(r)
      <4>1. 1 \in DOMAIN r
        BY <2>2
      <4> QED
        BY <2>2, <4>1 DEF OnStack
    <3>4. t \in OnStack(r) => t \in OnStack(s) \/ t = i
      BY <3>1 DEF OnStack
    <3>5. t \in OnStack(s) => t \in OnStack(r)
      BY <3>2 DEF OnStack
    <3> QED
      BY <3>3, <3>4, <3>5
  <2> QED
    BY <2>1, <2>3
<1> QED
  BY <1>1, <1>2

Takes(l, w, t) == [l EXCEPT ![w] = t]

LEMMA LocalTasks ==
  ASSUME NEW l \in [Workers -> Intervals], NEW w \in Workers, NEW t
  PROVE  /\ Locals(Takes(l, w, t)) \cup {l[w]} = Locals(l) \cup {t}
         /\ (\A v \in Workers \ {w} : l[v] # l[w]) /\ t # l[w] =>
              l[w] \notin Locals(Takes(l, w, t))
<1>1. PICK r : r = Takes(l, w, t)
  OBVIOUS
<1>2. r[w] = t /\ \A v \in Workers \ {w} : r[v] = l[v]
  BY <1>1 DEF Takes
<1>3. ASSUME NEW x
      PROVE  /\ x \in Locals(r) <=> \E v \in Workers : x = r[v]
             /\ x \in Locals(l) <=> \E v \in Workers : x = l[v]
  BY DEF Locals
<1>4. ASSUME NEW x PROVE x \in Locals(r) \/ x = l[w] <=> x \in Locals(l) \/ x = t
  BY <1>2, <1>3
<1>5. (\A v \in Workers \ {w} : l[v] # l[w]) /\ t # l[w] => l[w] \notin Locals(r)
  BY <1>2, <1>3
<1> QED
  BY <1>1, <1>4, <1>5

(* Work covers its first cell; a place without that cell does not have it. *)
LEMMA FirstCell ==
  ASSUME NEW t \in Intervals, IsWork(t)
  PROVE  t[1] \in Cells /\ Covers(t, t[1]) /\ t # Nothing
BY Constants DEF Intervals, IsWork, Cells, Covers, Nothing

LEMMA NotThere ==
  ASSUME NEW c, NEW t, Covers(t, c)
  PROVE  /\ \A Q \in [Workers -> Seq(Messages)] :
              At(Q, Carrying(c)) = {} => t \notin Tasks(Q)
         /\ stack \in Seq(Intervals) /\ At(Stack, With(c)) = {} => t \notin OnStack(stack)
<1>1. ASSUME NEW Q \in [Workers -> Seq(Messages)], t \in Tasks(Q)
      PROVE  At(Q, Carrying(c)) # {}
  <2>1. PICK w \in Workers, k \in Nat : k \in DOMAIN Q[w] /\ t = Q[w][k].task
    BY <1>1, TaskOf
  <2>2. Q[w][k] \in Messages /\ w \in DOMAIN Q
    BY <2>1
  <2>3. Q[w][k] \in Carrying(c)
    BY <2>1, <2>2, Kinds
  <2>4. <<w, k>> \in At(Q, Carrying(c))
    BY <2>1, <2>2, <2>3, PositionsOf
  <2> QED
    BY <2>4
<1>2. ASSUME stack \in Seq(Intervals), t \in OnStack(stack)
      PROVE  At(Stack, With(c)) # {}
  <2>1. PICK k \in DOMAIN stack : t = stack[k]
    BY <1>2 DEF OnStack
  <2>2. stack[k] \in With(c)
    BY <1>2, <2>1, Kinds
  <2>3. 0 \in DOMAIN Stack /\ Stack[0] = stack
    BY DEF Stack
  <2>4. <<0, k>> \in At(Stack, With(c))
    BY <2>1, <2>2, <2>3, PositionsOf
  <2> QED
    BY <2>4
<1> QED
  BY <1>1, <1>2

(* The interval in a report is nowhere else. *)
LEMMA ReportOnce ==
  ASSUME WorkInv, NEW w \in Workers, toMaster[w] # <<>>,
         NEW t, t = Head(toMaster[w]).task, IsWork(t)
  PROVE  /\ t \notin OnStack(stack) /\ t \notin Tasks(Take(toMaster, w))
         /\ t \notin Tasks(toWorker) /\ t \notin Locals(local)
<1>1. Head(toMaster[w]) \in Messages /\ t \in Intervals
  <2>1. Head(toMaster[w]) \in Messages
    BY Finite
  <2> QED
    BY <2>1 DEF Messages
<1>2. PICK c \in Cells : Covers(t, c)
  BY <1>1, FirstCell
<1>3. PICK R : R = Take(toMaster, w)
  OBVIOUS
<1>4. /\ R \in [Workers -> Seq(Messages)] /\ IsFiniteSet(At(R, Carrying(c)))
      /\ Cardinality(At(R, Carrying(c))) \in Nat
      /\ Cardinality(At(toMaster, Carrying(c))) = Cardinality(At(R, Carrying(c))) + 1
  <2>1. /\ R \in [Workers -> Seq(Messages)] /\ IsFiniteSet(At(R, Carrying(c)))
        /\ Cardinality(At(R, Carrying(c))) \in Nat
        /\ Cardinality(At(toMaster, Carrying(c))) =
             Cardinality(At(R, Carrying(c))) + One(Head(toMaster[w]) \in Carrying(c))
    BY <1>3, Finite, ReceiveCounts
  <2>2. Head(toMaster[w]) \in Carrying(c)
    BY <1>1, <1>2, Kinds
  <2> QED
    BY <2>1, <2>2 DEF One
<1>5. IsFiniteSet(Having(c))
  BY Constants, FS_Subset DEF Having
<1>6. /\ Cardinality(At(Stack, With(c))) \in Nat
      /\ Cardinality(At(toWorker, Carrying(c))) \in Nat
      /\ Cardinality(Having(c)) \in Nat /\ total_area[c] \in Nat
  BY <1>5, Finite, FS_CardinalityType DEF WorkInv, TypeOK
<1>7. Cardinality(At(Stack, With(c))) + Cardinality(At(toMaster, Carrying(c)))
        + Cardinality(At(toWorker, Carrying(c))) + Cardinality(Having(c))
        + total_area[c] = 1
  BY DEF WorkInv, CountedOnce
<1>8. /\ Cardinality(At(Stack, With(c))) = 0 /\ Cardinality(At(R, Carrying(c))) = 0
      /\ Cardinality(At(toWorker, Carrying(c))) = 0 /\ Cardinality(Having(c)) = 0
  BY <1>4, <1>6, <1>7
<1>9. /\ At(Stack, With(c)) = {} /\ At(R, Carrying(c)) = {}
      /\ At(toWorker, Carrying(c)) = {} /\ Having(c) = {}
  BY <1>4, <1>5, <1>8, Finite, FS_EmptySet
<1>10. t \notin Locals(local)
  BY <1>2, <1>9 DEF Having, Locals
<1> QED
  BY <1>2, <1>3, <1>4, <1>9, <1>10, NotThere, Finite

(* The interval a worker works on is nowhere else. *)
LEMMA WorkOnce ==
  ASSUME WorkInv, NEW w \in Workers, NEW t, t = local[w], IsWork(t)
  PROVE  /\ t \notin OnStack(stack) /\ t \notin Tasks(toMaster)
         /\ t \notin Tasks(toWorker) /\ \A v \in Workers \ {w} : local[v] # t
<1>1. t \in Intervals
  BY Finite
<1>2. PICK c \in Cells : Covers(t, c)
  BY <1>1, FirstCell
<1>3. IsFiniteSet(Having(c)) /\ w \in Having(c)
  BY <1>2, Constants, FS_Subset DEF Having
<1>4. Cardinality(Having(c)) \in Nat \ {0}
  BY <1>3, FS_CardinalityType, FS_EmptySet
<1>5. /\ Cardinality(At(Stack, With(c))) \in Nat
      /\ Cardinality(At(toMaster, Carrying(c))) \in Nat
      /\ Cardinality(At(toWorker, Carrying(c))) \in Nat /\ total_area[c] \in Nat
  BY Finite, FS_CardinalityType DEF WorkInv, TypeOK
<1>6. Cardinality(At(Stack, With(c))) + Cardinality(At(toMaster, Carrying(c)))
        + Cardinality(At(toWorker, Carrying(c))) + Cardinality(Having(c))
        + total_area[c] = 1
  BY DEF WorkInv, CountedOnce
<1>7. /\ Cardinality(At(Stack, With(c))) = 0 /\ Cardinality(At(toMaster, Carrying(c))) = 0
      /\ Cardinality(At(toWorker, Carrying(c))) = 0 /\ Cardinality(Having(c)) = 1
  BY <1>4, <1>5, <1>6
<1>8. /\ At(Stack, With(c)) = {} /\ At(toMaster, Carrying(c)) = {}
      /\ At(toWorker, Carrying(c)) = {}
  BY <1>7, Finite, FS_EmptySet
<1>9. \A v \in Workers \ {w} : local[v] # t
  <2>1. \E x : Having(c) = {x}
    BY <1>3, <1>7, FS_Singleton
  <2>2. Having(c) = {w}
    BY <1>3, <2>1
  <2> QED
    BY <1>2, <2>2 DEF Having
<1> QED
  BY <1>2, <1>8, <1>9, NotThere, Finite

(* A message that a worker sends, and the order that the master does. *)
LEMMA SentTask ==
  ASSUME WorkInv, NEW w \in Workers, NEW tag, NEW t \in Intervals, Send(w, tag, t),
         tag \in {"WORKER_AVAILABLE", "ADD_TASK"}
  PROVE  Tasks(toMaster') = Tasks(toMaster) \cup {t}
<1>1. Message(tag, t) \in Messages /\ Message(tag, t).task = t
  BY Kinds
<1>2. toMaster' = Put(toMaster, w, Message(tag, t))
  BY DEF Send, Put
<1> QED
  BY <1>1, <1>2, PutTasks, Finite

LEMMA OrderedTask ==
  ASSUME WorkInv, NEW w \in Workers, NEW t \in Intervals, Execute(w, t)
  PROVE  Tasks(toWorker') = Tasks(toWorker) \cup {t}
<1>1. /\ Message("EXECUTE_TASK", t) \in Messages
      /\ Message("EXECUTE_TASK", t).task = t
  BY Kinds
<1>2. toWorker' = Put(toWorker, w, Message("EXECUTE_TASK", t))
  BY DEF Execute, Put
<1> QED
  BY <1>1, <1>2, PutTasks, Finite

(* The halves that a division leaves. *)
LEMMA WorkerStepMaps ==
  ASSUME WorkInv, NEW w \in Workers, WorkerStep(w)
  PROVE  /\ UNCHANGED <<total_area, master>>
         /\ \/ Pending' = Pending
            \/ \E t \in Pending : Abstract!Divide(t)
<1>1. local[w] \in Intervals /\ Nothing \in Intervals /\ local[w] \in Locals(local)
  BY Finite, Kinds DEF Locals
<1>2. CASE Start(w)
  <2>1. /\ Send(w, "WORKER_AVAILABLE", Nothing)
        /\ UNCHANGED <<stack, local, toWorker, total_area, master>>
    BY <1>2 DEF Start, masterVars
  <2>2. Tasks(toMaster') = Tasks(toMaster) \cup {Nothing}
    BY <1>1, <2>1, SentTask
  <2> QED
    BY <2>1, <2>2, PendingParts
<1>3. CASE ReceiveTask(w)
  <2> DEFINE m == Head(toWorker[w])
  <2>1. /\ worker[w] = "waits" /\ toWorker[w] # <<>>
        /\ toWorker' = Take(toWorker, w)
        /\ UNCHANGED <<stack, toMaster, total_area, master>>
        /\ \/ m.tag = "EXECUTE_TASK" /\ local' = Takes(local, w, m.task)
           \/ m.tag = "NO_MORE_TASKS" /\ local' = local
    BY <1>3 DEF ReceiveTask, masterVars, Take, Takes
  <2>2. Tasks(toWorker) = Tasks(toWorker') \cup {m.task}
    BY <2>1, TakeTasks, Finite
  <2>3. local[w] = Nothing
    BY <2>1 DEF WorkInv, WorkersShaped
  <2>4. CASE m.tag = "EXECUTE_TASK" /\ local' = Takes(local, w, m.task)
    <3>1. Locals(local') \cup {Nothing} = Locals(local) \cup {m.task}
      BY <2>3, <2>4, LocalTasks, Finite
    <3> QED
      BY <2>1, <2>2, <3>1, PendingParts
  <2>5. CASE m.tag = "NO_MORE_TASKS" /\ local' = local
    <3>1. m = toWorker[w][1] /\ 1 \in 1 .. Len(toWorker[w])
      BY <2>1, Finite
    <3>2. m = Message("NO_MORE_TASKS", Nothing)
      BY <2>5, <3>1 DEF WorkInv, ToWorkerShaped
    <3>3. m.task = Nothing
      BY <1>1, <3>2, Kinds
    <3> QED
      BY <2>1, <2>2, <2>5, <3>3, PendingParts
  <2> QED
    BY <2>1, <2>4, <2>5
<1>4. CASE DivideTask(w)
  <2> DEFINE t == local[w]
             l == <<t[1], Middle(t)>>
             r == <<Middle(t), t[2]>>
  <2>1. /\ worker[w] = "works" /\ t[2] - t[1] > 1
        /\ Send(w, "ADD_TASK", r) /\ local' = Takes(local, w, l)
        /\ UNCHANGED <<stack, toWorker, total_area, master>>
    BY <1>4 DEF DivideTask, masterVars, Takes
  <2>2. l \in Intervals /\ r \in Intervals /\ IsWork(l) /\ IsWork(r)
    BY <1>1, <2>1, Halves
  <2>3. IsWork(t)
    BY <2>1 DEF WorkInv, WorkersShaped
  <2>4. l # t /\ r # t
    <3>1. /\ t[1] \in Nat /\ t[2] \in Nat
      BY <1>1, Constants DEF Intervals
    <3>2. l[2] = Middle(t) /\ r[1] = Middle(t)
      OBVIOUS
    <3>3. t[1] < Middle(t) /\ Middle(t) < t[2]
      BY <2>1, <3>1 DEF Middle
    <3>4. Middle(t) \in Nat
      BY <3>1 DEF Middle
    <3> QED
      BY <3>1, <3>2, <3>3, <3>4
  <2>5. l # Nothing /\ r # Nothing /\ t # Nothing
    BY <1>1, <2>2, <2>3, FirstCell
  <2> HIDE DEF t, l, r
  <2>6. /\ Tasks(toMaster') = Tasks(toMaster) \cup {r}
        /\ Locals(local') \cup {t} = Locals(local) \cup {l}
    <3>1. Tasks(toMaster') = Tasks(toMaster) \cup {r}
      BY <2>1, <2>2, SentTask
    <3>2. Locals(Takes(local, w, l)) \cup {local[w]} = Locals(local) \cup {l}
      <4>1. local \in [Workers -> Intervals]
        BY Finite
      <4> QED
        BY <4>1, LocalTasks
    <3> QED
      BY <2>1, <3>1, <3>2 DEF t
  <2>7. /\ t \notin OnStack(stack) /\ t \notin Tasks(toMaster) /\ t \notin Tasks(toWorker)
        /\ \A v \in Workers \ {w} : local[v] # t
    BY <2>3, WorkOnce DEF t
  <2>8. t \notin Locals(local')
    <3>1. local \in [Workers -> Intervals] /\ t = local[w]
      BY Finite DEF t
    <3>2. local[w] \notin Locals(Takes(local, w, l))
      BY <2>4, <2>7, <3>1, LocalTasks
    <3> QED
      BY <2>1, <3>1, <3>2
  <2>9. t \in Pending
    BY <1>1, <2>5, PendingParts DEF t
  <2>10. Pending' = (Pending \ {t}) \cup {l, r}
    BY <2>1, <2>4, <2>5, <2>6, <2>7, <2>8, PendingParts
  <2>11. Abstract!Middle(t) = Middle(t)
    BY DEF Abstract!Middle, Middle
  <2>12. Abstract!Divide(t)
    BY <2>1, <2>10, <2>11 DEF Abstract!Divide, l, r
  <2> QED
    BY <2>1, <2>9, <2>12
<1>5. CASE FinishTask(w)
  <2> DEFINE t == local[w]
  <2>1. /\ Send(w, "WORKER_AVAILABLE", t) /\ local' = Takes(local, w, Nothing)
        /\ UNCHANGED <<stack, toWorker, total_area, master>>
    BY <1>5 DEF FinishTask, masterVars, Takes
  <2> HIDE DEF t
  <2>2. /\ Tasks(toMaster') = Tasks(toMaster) \cup {t}
        /\ Locals(local') \cup {t} = Locals(local) \cup {Nothing}
    <3>1. Tasks(toMaster') = Tasks(toMaster) \cup {t}
      BY <1>1, <2>1, SentTask DEF t
    <3>2. local \in [Workers -> Intervals] /\ t = local[w]
      BY Finite DEF t
    <3>3. Locals(Takes(local, w, Nothing)) \cup {local[w]} = Locals(local) \cup {Nothing}
      BY <3>2, LocalTasks
    <3> QED
      BY <2>1, <3>1, <3>2, <3>3
  <2>3. t \in Locals(local)
    BY <1>1 DEF t
  <2> QED
    BY <2>1, <2>2, <2>3, PendingParts
<1> QED
  BY <1>2, <1>3, <1>4, <1>5 DEF WorkerStep

(* A report is added, and the task that it is answered with only moves. *)
LEMMA AvailableMaps ==
  ASSUME WorkInv, NEW w \in Workers, ReceiveAvailable(w)
  PROVE  \/ Pending' = Pending /\ UNCHANGED total_area
         \/ \E t \in Pending : Abstract!Add(t)
<1> DEFINE m == Head(toMaster[w])
           t == m.task
<1>1. /\ Receive(w, "WORKER_AVAILABLE") /\ Account(t) /\ LoopTest
      /\ \/ stack' = stack /\ toWorker' = toWorker
         \/ stack # <<>> /\ stack' = Tail(stack) /\ Execute(w, Head(stack))
  BY DEF ReceiveAvailable
<1>2. /\ toMaster[w] # <<>> /\ toMaster' = Take(toMaster, w) /\ local' = local
      /\ master = "receive"
  BY <1>1 DEF Receive, Take
<1>3. t \in Intervals /\ (IsWork(t) \/ t = Nothing)
  BY <1>1, ReceiptShapes
<1>4. Tasks(toMaster) = Tasks(toMaster') \cup {t}
  BY <1>2, TakeTasks, Finite
<1>5. OnStack(stack) \cup Tasks(toWorker) = OnStack(stack') \cup Tasks(toWorker')
  <2>1. CASE stack # <<>> /\ stack' = Tail(stack) /\ Execute(w, Head(stack))
    <3>1. /\ OnStack(stack) = OnStack(Tail(stack)) \cup {Head(stack)}
          /\ Head(stack) \in Intervals
      BY <2>1, StackTasks, Finite
    <3>2. Tasks(toWorker') = Tasks(toWorker) \cup {Head(stack)}
      BY <2>1, <3>1, OrderedTask
    <3> QED
      BY <2>1, <3>1, <3>2
  <2> QED
    BY <1>1, <2>1
<1>6. total_area' = [c \in Cells |->
        total_area[c] + (IF t[1] <= c /\ c < t[2] THEN 1 ELSE 0)]
  BY <1>1 DEF Account
<1>7. t[1] \in Nat /\ t[2] \in Nat /\ Cells \subseteq Nat
      /\ total_area \in [Cells -> Nat]
  BY <1>3, Constants DEF Intervals, Cells, WorkInv, TypeOK
<1>8. CASE t = Nothing
  <2>1. Pending' = Pending
    BY <1>2, <1>4, <1>5, <1>8, PendingParts
  <2>2. \A c \in Cells : total_area'[c] = total_area[c]
    <3>1. t[1] = 0 /\ t[2] = 0
      BY <1>8 DEF Nothing
    <3>2. \A c \in Cells : ~ (c < t[2])
      BY <1>7, <3>1
    <3> QED
      <4> HIDE DEF t
      <4>1. \A c \in Cells : (IF t[1] <= c /\ c < t[2] THEN 1 ELSE 0) = 0
        BY <3>2
      <4>2. \A c \in Cells : total_area[c] + 0 = total_area[c]
        BY <1>7
      <4> QED
        BY <1>6, <4>1, <4>2
  <2>3. total_area' = total_area
    BY <1>6, <1>7, <2>2
  <2> QED
    BY <2>1, <2>3
<1>9. CASE IsWork(t)
  <2>1. /\ t \notin OnStack(stack) /\ t \notin Tasks(toMaster')
        /\ t \notin Tasks(toWorker) /\ t \notin Locals(local)
    BY <1>2, <1>9, ReportOnce
  <2>2. t # Nothing
    BY <1>3, <1>9, FirstCell
  <2> HIDE DEF t
  <2>3. t \in Pending
    BY <1>4, <2>2, PendingParts
  <2>4. Pending' = Pending \ {t}
    BY <1>2, <1>4, <1>5, <2>1, PendingParts
  <2>5. total_area' = [c \in Cells |-> IF c \in t[1] .. (t[2] - 1)
                                         THEN total_area[c] + 1 ELSE total_area[c]]
    <3>1. \A c \in Cells : c \in t[1] .. (t[2] - 1) <=> t[1] <= c /\ c < t[2]
      BY <1>7
    <3>2. \A c \in Cells : total_area[c] + 0 = total_area[c]
      BY <1>7
    <3> QED
      BY <1>6, <3>1, <3>2
  <2>6. UNCHANGED (master = "ended")
    <3>1. master' \in {"receive", "notify"}
      BY <1>1 DEF LoopTest
    <3> QED
      BY <1>2, <3>1
  <2>7. Abstract!Add(t)
    BY <2>4, <2>5, <2>6 DEF Abstract!Add
  <2> QED
    BY <2>3, <2>7
<1> QED
  BY <1>3, <1>8, <1>9

LEMMA TaskToAddMaps ==
  ASSUME WorkInv, NEW w \in Workers, ReceiveTaskToAdd(w)
  PROVE  Pending' = Pending /\ UNCHANGED total_area
<1> DEFINE t == Head(toMaster[w]).task
<1>1. /\ Receive(w, "ADD_TASK") /\ total_area' = total_area
      /\ \/ idle > 0 /\ Execute(Min(AvailableOnes), t) /\ stack' = stack
         \/ stack' = <<t>> \o stack /\ toWorker' = toWorker
  BY DEF ReceiveTaskToAdd
<1>2. /\ toMaster[w] # <<>> /\ toMaster' = Take(toMaster, w) /\ local' = local
  BY <1>1 DEF Receive, Take
<1>3. t \in Intervals
  BY <1>1, ReceiptShapes
<1>4. Tasks(toMaster) = Tasks(toMaster') \cup {t}
  BY <1>2, TakeTasks, Finite
<1> HIDE DEF t
<1>5. CASE idle > 0 /\ Execute(Min(AvailableOnes), t) /\ stack' = stack
  <2>1. Min(AvailableOnes) \in Workers
    BY <1>5, MarkedWorker DEF WorkInv, IdleInv, AvailableFound
  <2>2. Tasks(toWorker') = Tasks(toWorker) \cup {t}
    BY <1>3, <1>5, <2>1, OrderedTask
  <2> QED
    BY <1>1, <1>2, <1>4, <1>5, <2>2, PendingParts
<1>6. CASE stack' = <<t>> \o stack /\ toWorker' = toWorker
  <2>1. OnStack(stack') = OnStack(stack) \cup {t}
    BY <1>3, <1>6, StackTasks, Finite
  <2> QED
    BY <1>1, <1>2, <1>4, <1>6, <2>1, PendingParts
<1> QED
  BY <1>1, <1>5, <1>6

(* The end is announced when every worker is idle, so when nothing is left. *)
LEMMA NotifyMaps == ASSUME WorkInv, Notify PROVE Abstract!Announce
<1>1. /\ master = "notify" /\ master' = "ended"
      /\ UNCHANGED <<stack, local, toMaster, total_area>>
      /\ toWorker' = [w \in Workers |->
           Append(toWorker[w], Message("NO_MORE_TASKS", Nothing))]
  BY DEF Notify
<1>2. idle = n_cores - 1
  BY <1>1 DEF WorkInv, MasterShaped
<1>3. stack = <<>> /\ Quiet /\ \A c \in Cells : total_area[c] = 1
  BY <1>2, AllIdle
<1>4. Message("NO_MORE_TASKS", Nothing).task = Nothing
  BY Kinds
<1>5. OnStack(stack) = {}
  BY <1>3 DEF OnStack
<1>6. Tasks(toMaster) = {}
  <2>1. \A w \in Workers : DOMAIN toMaster[w] = {}
    BY <1>3 DEF Quiet
  <2> QED
    BY <2>1, TaskOf
<1>7. Locals(local) \subseteq {Nothing}
  BY <1>3 DEF Quiet, Locals
<1>8. Tasks(toWorker) \subseteq {Nothing}
  <2>1. ASSUME NEW w \in Workers, NEW k \in DOMAIN toWorker[w]
        PROVE  toWorker[w][k].task = Nothing
    <3>1. k \in 1 .. Len(toWorker[w])
      BY Finite
    <3> QED
      BY <1>3, <1>4, <3>1 DEF Quiet
  <2> QED
    BY <2>1, TaskOf
<1>9. Tasks(toWorker') \subseteq {Nothing}
  <2>1. ASSUME NEW w \in Workers, NEW k \in DOMAIN toWorker'[w]
        PROVE  toWorker'[w][k].task = Nothing
    <3>1. /\ toWorker'[w] = Append(toWorker[w], Message("NO_MORE_TASKS", Nothing))
          /\ toWorker[w] \in Seq(Messages)
      BY <1>1, Finite
    <3>2. \/ toWorker'[w][k] = Message("NO_MORE_TASKS", Nothing)
          \/ k \in 1 .. Len(toWorker[w]) /\ toWorker'[w][k] = toWorker[w][k]
      BY <3>1
    <3> QED
      BY <1>3, <1>4, <3>2 DEF Quiet
  <2> QED
    BY <2>1, TaskOf
<1>10. Pending = {} /\ Pending' = {}
  BY <1>1, <1>5, <1>6, <1>7, <1>8, <1>9, PendingParts
<1> QED
  BY <1>1, <1>3, <1>10 DEF Abstract!Announce

LEMMA InitMaps == ASSUME Init PROVE Abstract!Init
<1>1. Pending = {FirstTask(i) : i \in 0 .. (n_cores - 1)}
  <2>1. OnStack(stack) = {FirstTask(i) : i \in 0 .. (n_cores - 1)}
    <3>1. stack = [k \in 1 .. n_cores |-> FirstTask(n_cores - k)]
      BY DEF Init
    <3>2. \A i \in 0 .. (n_cores - 1) :
            n_cores - i \in 1 .. n_cores /\ n_cores - (n_cores - i) = i
      BY QuadratureAssumption
    <3>3. \A k \in 1 .. n_cores : n_cores - k \in 0 .. (n_cores - 1)
      BY QuadratureAssumption
    <3>4. ASSUME NEW t
          PROVE  t \in OnStack(stack) <=> \E i \in 0 .. (n_cores - 1) : t = FirstTask(i)
      <4>1. t \in OnStack(stack) <=> \E k \in 1 .. n_cores : t = FirstTask(n_cores - k)
        BY <3>1 DEF OnStack
      <4>2. ASSUME NEW i \in 0 .. (n_cores - 1), t = FirstTask(i)
            PROVE  t \in OnStack(stack)
        <5>1. n_cores - i \in 1 .. n_cores /\ t = FirstTask(n_cores - (n_cores - i))
          BY <3>2, <4>2
        <5> QED
          BY <4>1, <5>1
      <4> QED
        BY <3>3, <4>1, <4>2
    <3> QED
      BY <3>4
  <2>2. Tasks(toMaster) = {} /\ Tasks(toWorker) = {}
    BY TaskOf DEF Init
  <2>3. Locals(local) \subseteq {Nothing}
    BY DEF Init, Locals
  <2>4. \A i \in 0 .. (n_cores - 1) : FirstTask(i) # Nothing
    BY FirstTasks, FirstCell
  <2> QED
    BY <2>1, <2>2, <2>3, <2>4, PendingParts
<1>2. total_area = [c \in Cells |-> 0] /\ master # "ended"
  BY DEF Init
<1> QED
  BY <1>1, <1>2 DEF Abstract!Init

(* DividesAndSums (aquad3.c and aquad3-version2.c): every step of the       *)
(* master or of a worker divides a missing part of the interval, adds one   *)
(* to the area, announces the complete area, or only moves a part.          *)
THEOREM QuadratureDividesAndSums == Spec => DividesAndSums
<1>1. Init => Abstract!Init
  BY InitMaps
<1>2. WorkInv /\ [Next]_vars => [Abstract!Next]_(Abstract!vars)
  <2> SUFFICES ASSUME WorkInv, [Next]_vars PROVE [Abstract!Next]_(Abstract!vars)
    OBVIOUS
  <2>1. CASE UNCHANGED vars
    <3>1. UNCHANGED <<stack, toMaster, toWorker, local, total_area, master>>
      BY <2>1 DEF vars, masterVars
    <3>2. Pending' = Pending
      BY <3>1, PendingParts
    <3> QED
      BY <3>1, <3>2 DEF Abstract!vars
  <2>2. ASSUME NEW w \in Workers, WorkerStep(w)
        PROVE  [Abstract!Next]_(Abstract!vars)
    BY <2>2, WorkerStepMaps DEF Abstract!vars, Abstract!Next
  <2>3. ASSUME NEW w \in Workers, ReceiveAvailable(w)
        PROVE  [Abstract!Next]_(Abstract!vars)
    <3>1. master = "receive" /\ master' # "ended"
      BY <2>3 DEF ReceiveAvailable, Receive, LoopTest
    <3> QED
      BY <2>3, <3>1, AvailableMaps DEF Abstract!vars, Abstract!Next
  <2>4. ASSUME NEW w \in Workers, ReceiveTaskToAdd(w)
        PROVE  [Abstract!Next]_(Abstract!vars)
    <3>1. master = "receive" /\ master' # "ended"
      BY <2>4 DEF ReceiveTaskToAdd, Receive, LoopTest
    <3> QED
      BY <2>4, <3>1, TaskToAddMaps DEF Abstract!vars
  <2>5. CASE Notify
    BY <2>5, NotifyMaps DEF Abstract!Next
  <2> QED
    BY <2>1, <2>2, <2>3, <2>4, <2>5 DEF Next, MasterStep
<1> QED
  BY <1>1, <1>2, WorkHolds, PTL DEF Spec, DividesAndSums, Abstract!Spec
=============================================================================
