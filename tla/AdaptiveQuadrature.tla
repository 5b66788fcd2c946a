------------------------- MODULE AdaptiveQuadrature -------------------------
(***************************************************************************)
(* The dynamic adaptive quadrature (T2-Adaptive-Quadrature/aquad3.c, and   *)
(* aquad3-version2.c, whose workers divide a task at most once): a master, *)
(* rank 0, keeps a stack of intervals; the workers compute the area under  *)
(* an interval, or return its right half to the master and go on with the  *)
(* left one.                                                               *)
(*                                                                         *)
(* An interval <<a, b>> is a run of cells of equal width, the smallest     *)
(* that the tolerance ever asks for; whether a wider one is within the     *)
(* tolerance is any choice.  MPI delivers the messages from one process to *)
(* another in order, and buffers them: no send of two doubles blocks, and  *)
(* sendBackToMaster's are copied when they are sent.                       *)
(***************************************************************************)
EXTENDS Naturals, Sequences, FiniteSetsExt

CONSTANTS n_cores,    \* the processes: the master and n_cores - 1 workers
          Width       \* bound: the cells of each of the n_cores first tasks

ASSUME QuadratureAssumption == /\ n_cores \in Nat /\ n_cores >= 2
                               /\ Width \in Nat \ {0}

Workers == 1 .. (n_cores - 1)
Expected == n_cores * Width
Cells == 0 .. (Expected - 1)
Intervals == {t \in (0 .. Expected) \X (0 .. Expected) : t[1] <= t[2]}
Nothing == <<0, 0>>       \* what a worker reports when it starts

VARIABLES
  stack, idle, availableWorkers, progress,   \* of the master
  total_area,     \* how many times the area of each cell was added
  master,         \* "receive": in its loop; "notify": past it; "ended"
  worker, local,  \* each worker's step, and the interval it works on
  toMaster, toWorker    \* the messages on their way

masterVars == <<stack, idle, availableWorkers, progress, total_area, master>>
vars == <<masterVars, worker, local, toMaster, toWorker>>

Messages == [tag : {"WORKER_AVAILABLE", "ADD_TASK", "EXECUTE_TASK",
                    "NO_MORE_TASKS"}, task : Intervals]
Message(tag, task) == [tag |-> tag, task |-> task]

(* The task that main pushes i-th, from 0. *)
FirstTask(i) == <<i * Width, (i + 1) * Width>>

Init ==
  /\ stack = [k \in 1 .. n_cores |-> FirstTask(n_cores - k)]
  /\ idle = 0 /\ progress = 0
  /\ availableWorkers = [w \in Workers |-> TRUE]
  /\ total_area = [c \in Cells |-> 0]
  /\ master = "receive"
  /\ worker = [w \in Workers |-> "starts"]
  /\ local = [w \in Workers |-> Nothing]
  /\ toMaster = [w \in Workers |-> <<>>]
  /\ toWorker = [w \in Workers |-> <<>>]

-----------------------------------------------------------------------------
(* The workers. *)

Send(w, tag, task) ==
  toMaster' = [toMaster EXCEPT ![w] = Append(@, Message(tag, task))]

Start(w) ==
  /\ worker[w] = "starts"
  /\ Send(w, "WORKER_AVAILABLE", Nothing)
  /\ worker' = [worker EXCEPT ![w] = "waits"]
  /\ UNCHANGED <<masterVars, local, toWorker>>

ReceiveTask(w) ==
  /\ worker[w] = "waits"
  /\ toWorker[w] # <<>>
  /\ toWorker' = [toWorker EXCEPT ![w] = Tail(@)]
  /\ \/ /\ Head(toWorker[w]).tag = "EXECUTE_TASK"
        /\ worker' = [worker EXCEPT ![w] = "works"]
        /\ local' = [local EXCEPT ![w] = Head(toWorker[w]).task]
     \/ /\ Head(toWorker[w]).tag = "NO_MORE_TASKS"
        /\ worker' = [worker EXCEPT ![w] = "stopped"]
        /\ UNCHANGED local
  /\ UNCHANGED <<masterVars, toMaster>>

Middle(t) == (t[1] + t[2]) \div 2

(* Seeded fault: the half that the worker keeps is sent back. *)
DivideTaskWrongHalf(w) ==
  LET t == local[w]
  IN  /\ worker[w] = "works"
      /\ t[2] - t[1] > 1
      /\ Send(w, "ADD_TASK", <<t[1], Middle(t)>>)
      /\ local' = [local EXCEPT ![w] = <<t[1], Middle(t)>>]
      /\ UNCHANGED <<masterVars, worker, toWorker>>

(* curve_subarea above the tolerance. *)
DivideTask(w) ==
  LET t == local[w]
  IN  /\ worker[w] = "works"
      /\ t[2] - t[1] > 1
      /\ Send(w, "ADD_TASK", <<Middle(t), t[2]>>)
      /\ local' = [local EXCEPT ![w] = <<t[1], Middle(t)>>]
      /\ UNCHANGED <<masterVars, worker, toWorker>>

(* curve_subarea within the tolerance. *)
FinishTask(w) ==
  /\ worker[w] = "works"
  /\ Send(w, "WORKER_AVAILABLE", local[w])
  /\ local' = [local EXCEPT ![w] = Nothing]
  /\ worker' = [worker EXCEPT ![w] = "waits"]
  /\ UNCHANGED <<masterVars, toWorker>>

-----------------------------------------------------------------------------
(* The master. *)

Receive(w, tag) ==
  /\ master = "receive"
  /\ toMaster[w] # <<>>
  /\ Head(toMaster[w]).tag = tag
  /\ toMaster' = [toMaster EXCEPT ![w] = Tail(@)]
  /\ UNCHANGED <<worker, local>>

Execute(w, task) ==
  toWorker' = [toWorker EXCEPT ![w] = Append(@, Message("EXECUTE_TASK", task))]

(* Seeded fault: the loop ends when the stack is empty. *)
AllDoneStack == stack = <<>> /\ progress > 0

AllDone ==
  /\ idle = n_cores - 1
  /\ stack = <<>>
  /\ progress >= Expected

(* The test that ends the loop.  progress is a sum of doubles, that may    *)
(* fall short of the interval by its rounding errors when the widths have  *)
(* no exact representation: progress / expected >= 1.0 may then be false   *)
(* for ever.                                                               *)
LoopTest ==
  \/ AllDone' /\ master' = "notify"
  \/ master' = "receive"

(* Adds the area of interval t to total_area, and its width to progress. *)
Account(t) ==
  /\ total_area' = [c \in Cells |->
       total_area[c] + (IF t[1] <= c /\ c < t[2] THEN 1 ELSE 0)]
  /\ progress' = progress + (t[2] - t[1])

(* Seeded fault: the worker that is given a task is marked available, and  *)
(* the one that gets none busy.                                            *)
ReceiveAvailableSwapped(w) ==
  /\ Receive(w, "WORKER_AVAILABLE")
  /\ Account(Head(toMaster[w]).task)
  /\ \/ /\ stack = <<>>
        /\ idle' = idle + 1
        /\ availableWorkers' = [availableWorkers EXCEPT ![w] = FALSE]
        /\ UNCHANGED <<stack, toWorker>>
     \/ /\ stack # <<>>
        /\ stack' = Tail(stack)
        /\ availableWorkers' = [availableWorkers EXCEPT ![w] = TRUE]
        /\ Execute(w, Head(stack))
        /\ UNCHANGED idle
  /\ LoopTest

(* The report of worker w, that is given the task on top of the stack.     *)
ReceiveAvailable(w) ==
  /\ Receive(w, "WORKER_AVAILABLE")
  /\ Account(Head(toMaster[w]).task)
  /\ \/ /\ stack = <<>>
        /\ idle' = idle + 1
        /\ availableWorkers' = [availableWorkers EXCEPT ![w] = TRUE]
        /\ UNCHANGED <<stack, toWorker>>
     \/ /\ stack # <<>>
        /\ stack' = Tail(stack)
        /\ availableWorkers' = [availableWorkers EXCEPT ![w] = FALSE]
        /\ Execute(w, Head(stack))
        /\ UNCHANGED idle
  /\ LoopTest

AvailableOnes == {w \in Workers : availableWorkers[w]}

(* Seeded fault: a task that a worker is given leaves idle as it was.      *)
ReceiveTaskToAddKeepsIdle(w) ==
  /\ Receive(w, "ADD_TASK")
  /\ LET task == Head(toMaster[w]).task
     IN  \/ /\ idle > 0
            /\ Execute(Min(AvailableOnes), task)
            /\ UNCHANGED <<idle, stack>>
         \/ /\ idle = 0
            /\ stack' = <<task>> \o stack
            /\ UNCHANGED <<idle, toWorker>>
  /\ UNCHANGED <<availableWorkers, progress, total_area>>
  /\ LoopTest

(* A task that a worker returned: given to the first worker that is marked *)
(* available (which stays marked) when some worker is idle, and pushed     *)
(* when none is.                                                           *)
ReceiveTaskToAdd(w) ==
  /\ Receive(w, "ADD_TASK")
  /\ LET task == Head(toMaster[w]).task
     IN  \/ /\ idle > 0
            /\ idle' = idle - 1
            /\ Execute(Min(AvailableOnes), task)
            /\ UNCHANGED stack
         \/ /\ idle = 0
            /\ stack' = <<task>> \o stack
            /\ UNCHANGED <<idle, toWorker>>
  /\ UNCHANGED <<availableWorkers, progress, total_area>>
  /\ LoopTest

Notify ==
  /\ master = "notify"
  /\ master' = "ended"
  /\ toWorker' = [w \in Workers |->
       Append(toWorker[w], Message("NO_MORE_TASKS", Nothing))]
  /\ UNCHANGED <<stack, idle, availableWorkers, progress, total_area,
                 worker, local, toMaster>>

-----------------------------------------------------------------------------
WorkerStep(w) == Start(w) \/ ReceiveTask(w) \/ DivideTask(w) \/ FinishTask(w)

MasterStep == \/ \E w \in Workers : ReceiveAvailable(w) \/ ReceiveTaskToAdd(w)
              \/ Notify

Next == MasterStep \/ \E w \in Workers : WorkerStep(w)

(* Every process runs until it blocks, and MPI_Recv from MPI_ANY_SOURCE    *)
(* returns when a message has come.                                        *)
Spec == /\ Init /\ [][Next]_vars
        /\ WF_vars(MasterStep)
        /\ \A w \in Workers : WF_vars(WorkerStep(w))

-----------------------------------------------------------------------------
(* The types of the variables.  idle never exceeds the number of workers.  *)
TypeOK ==
  /\ stack \in Seq(Intervals)
  /\ idle \in 0 .. (n_cores - 1)
  /\ availableWorkers \in [Workers -> BOOLEAN]
  /\ progress \in Nat
  /\ total_area \in [Cells -> Nat]
  /\ master \in {"receive", "notify", "ended"}
  /\ worker \in [Workers -> {"starts", "waits", "works", "stopped"}]
  /\ local \in [Workers -> Intervals]
  /\ toMaster \in [Workers -> Seq(Messages)]
  /\ toWorker \in [Workers -> Seq(Messages)]

(* The intervals of a sequence of messages. *)
TasksIn(q) == {q[k].task : k \in DOMAIN q}

(* The intervals that are not in total_area yet, wherever they are. *)
Pending ==
  ({stack[k] : k \in DOMAIN stack}
     \cup (UNION {TasksIn(toMaster[w]) : w \in Workers})
     \cup (UNION {TasksIn(toWorker[w]) : w \in Workers})
     \cup {local[w] : w \in Workers}) \ {Nothing}

Covers(t, c) == t[1] <= c /\ c < t[2]

(* The places that hold an interval with cell c. *)
Holders(c) ==
  {<<"stack", 0, k>> : k \in {k \in DOMAIN stack : Covers(stack[k], c)}}
    \cup (UNION {{<<"toMaster", w, k>> :
           k \in {k \in DOMAIN toMaster[w] : Covers(toMaster[w][k].task, c)}} :
         w \in Workers})
    \cup (UNION {{<<"toWorker", w, k>> :
           k \in {k \in DOMAIN toWorker[w] : Covers(toWorker[w][k].task, c)}} :
         w \in Workers})
    \cup {<<"local", w, 0>> : w \in {w \in Workers : Covers(local[w], c)}}

(* No part of the interval is lost or counted twice: each is in the area   *)
(* once, or in one place on its way there (the halves of curve_subarea,    *)
(* the stack, and every message between the processes).                    *)
NoWorkLost == \A c \in Cells : Cardinality(Holders(c)) + total_area[c] = 1

(* The counting of idle workers detects the end by itself (aquad3.c:199):  *)
(* when every worker is idle and the stack empty, nothing is on its way to *)
(* the master and the area is complete, whatever progress says.            *)
IdleSuffices ==
  idle = n_cores - 1 /\ stack = <<>> =>
    /\ \A c \in Cells : total_area[c] = 1
    /\ \A w \in Workers : toMaster[w] = <<>>

(* The exit at aquad3.c:179 is never taken: although a worker that is      *)
(* given a task by ADD_TASK stays marked, and one that has not started is  *)
(* marked, there is a marked worker whenever idle is positive.             *)
AvailableFound == idle > 0 => AvailableOnes # {}

(* The sum fell short of the interval by rounding: the master waits for    *)
(* messages, and the workers for tasks, for ever.                          *)
Short == master = "receive" /\ AllDone

(* Every worker is told that there are no more tasks and stops, unless     *)
(* progress fell short.                                                    *)
EndsUnlessShort == <>(Short \/ \A w \in Workers : worker[w] = "stopped")

Abstract == INSTANCE DivideAndSum WITH
  Parts0 <- {FirstTask(i) : i \in 0 .. (n_cores - 1)},
  pending <- Pending, area <- total_area, announced <- (master = "ended")

(* The master and the workers implement DivideAndSum: every step divides a *)
(* missing part, adds one, or announces the complete area.                 *)
DividesAndSums == Abstract!Spec
=============================================================================
