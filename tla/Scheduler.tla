----------------------------- MODULE Scheduler ------------------------------
(* The process schedulers of INF1019 (trab1): interpretador.c sends the     *)
(* lines of exec.txt one by one, and escalonador.c creates their processes  *)
(* and lets one run at a time.  The three schedulers differ in the choice   *)
(* of the next process (obtemProcessoAExecutar); the initial state takes    *)
(* one of them.  Pauses are modelled by what they outlast: the second of    *)
(* the loop and the three of the interpreter are longer than a new process  *)
(* takes to stop itself.  Every program of exec.txt exists.                 *)
EXTENDS Integers, FiniteSets, FiniteSetsExt, Functions

CONSTANTS
  Lines,          \* lines of exec.txt
  Arg,            \* the priority, or the number of tickets, of each line
  NUMPROCESSOS    \* positions of the list

ASSUME SchedulerAssumption ==
  /\ Lines \in Nat /\ NUMPROCESSOS \in Nat \ {0}
  /\ Arg \in [1 .. Lines -> Nat]

Pids == 1 .. Lines                    \* in the order of their creation
Slots == 0 .. (NUMPROCESSOS - 1)
Free == [pid |-> -1, arg |-> -1]
Policies == {"roundrobin", "prioridade", "lottery"}
Entries == [pid : Pids \union {-1}, arg : Nat \union {-1}]
Places == {"choose", "sleep", "reap", "forget", "unset", "stop", "continue",
           "exited"}
States == {"absent", "refused", "created", "stopped", "running", "ended", "reaped"}

VARIABLES
  policy,         \* which of the three programs runs
  sent,           \* lines sent by the interpreter; the last one is in shm
  pending,        \* SIGUSR1 is pending for the scheduler
  created,        \* signals handled, and so pids given
  PIDList, idxProcessoExecutando, processoAExecutar,
  pc,             \* place of the scheduler in its loop
  process,        \* what each process is doing
  overwritten     \* history: pids whose number the loop replaced by -1

vars == <<policy, sent, pending, created, PIDList, idxProcessoExecutando,
          processoAExecutar, pc, process, overwritten>>

scheduler == <<PIDList, idxProcessoExecutando, processoAExecutar, pc, overwritten>>

Init ==
  /\ policy \in Policies
  /\ sent = 0 /\ pending = FALSE /\ created = 0
  /\ PIDList = [i \in Slots |-> Free]
  /\ idxProcessoExecutando = -1 /\ processoAExecutar = -1
  /\ pc = "choose"
  /\ process = [p \in Pids |-> "absent"]
  /\ overwritten = {}

Listed == {i \in Slots : PIDList[i].pid # -1}
Current == PIDList[idxProcessoExecutando].pid
HasCurrent == idxProcessoExecutando # -1
Chosen == PIDList[processoAExecutar].pid
Starting == \E p \in Pids : process[p] = "created"

(* Seeded fault: no pause between two signals. *)
adicionaProcessosHasty ==
  /\ sent < Lines
  /\ sent' = sent + 1 /\ pending' = TRUE
  /\ UNCHANGED <<policy, created, process, scheduler>>

-----------------------------------------------------------------------------
(* The interpreter: sleep(3) outlasts the handler of the signal and the     *)
(* start of the process that it creates.                                    *)
adicionaProcessos ==
  /\ sent < Lines /\ ~pending /\ ~Starting
  /\ sent' = sent + 1 /\ pending' = TRUE
  /\ UNCHANGED <<policy, created, process, scheduler>>

(* The handler of SIGUSR1, at any point of the loop: it ends the pause of   *)
(* the loop early.  With a full list nothing is created.  The round robin   *)
(* keeps no numbers.                                                        *)
adicionarProcesso ==
  /\ pending /\ pc # "exited"
  /\ pending' = FALSE /\ created' = created + 1
  /\ IF Listed = Slots
       THEN /\ process' = [process EXCEPT ![created'] = "refused"]
            /\ UNCHANGED PIDList
       ELSE /\ process' = [process EXCEPT ![created'] = "created"]
            /\ PIDList' = [PIDList EXCEPT ![Min(Slots \ Listed)] =
               [pid |-> created',
                arg |-> IF policy = "roundrobin" THEN -1 ELSE Arg[sent]]]
  /\ pc' = IF pc = "sleep" THEN "reap" ELSE pc
  /\ UNCHANGED <<policy, sent, idxProcessoExecutando, processoAExecutar,
                 overwritten>>

(* The three forms of obtemProcessoAExecutar: the positions it may return.  *)
After == {i \in Listed : i > idxProcessoExecutando}

(* A draw s is won by the first position up to which there are s tickets.   *)
Tickets(S) == MapThenSumSet(LAMBDA i : PIDList[i].arg, S)
UpTo(i) == {j \in Listed : j <= i}
Drawable ==
  {i \in Listed : \E s \in 1 .. Tickets(Listed) :
     s <= Tickets(UpTo(i)) /\ \A j \in UpTo(i) \ {i} : Tickets(UpTo(j)) < s}

(* Seeded fault: the turn starts again at every choice. *)
NextInTurnFirst == IF Listed # {} THEN {Min(Listed)} ELSE {}

NextInTurn == IF After # {} THEN {Min(After)}
              ELSE IF Listed # {} THEN {Min(Listed)} ELSE {}

MostUrgent ==
  LET Best == {i \in Listed : \A j \in Listed : PIDList[i].arg <= PIDList[j].arg}
  IN  IF Best # {} THEN {Min(Best)} ELSE {}

obtemProcessoAExecutar ==
  IF policy = "roundrobin" THEN NextInTurn
  ELSE IF policy = "prioridade" THEN MostUrgent ELSE Drawable

Choose(i) ==
  /\ pc = "choose" /\ i \in obtemProcessoAExecutar
  /\ processoAExecutar' = i /\ pc' = "sleep"
  /\ UNCHANGED <<policy, sent, pending, created, PIDList,
                 idxProcessoExecutando, process, overwritten>>

(* Seeded fault: the loop does not pause. *)
PauseNone ==
  /\ pc = "sleep"
  /\ pc' = "reap"
  /\ UNCHANGED <<policy, sent, pending, created, PIDList,
                 idxProcessoExecutando, processoAExecutar, process, overwritten>>

Pause ==
  /\ pc = "sleep" /\ ~Starting
  /\ pc' = "reap"
  /\ UNCHANGED <<policy, sent, pending, created, PIDList,
                 idxProcessoExecutando, processoAExecutar, process, overwritten>>

(* Seeded fault: frees the position of the chosen process. *)
ReapChosen ==
  /\ pc = "reap"
  /\ IF HasCurrent /\ process[Current] = "ended"
       THEN /\ process' = [process EXCEPT ![Current] = "reaped"]
            /\ PIDList' = [PIDList EXCEPT ![processoAExecutar].pid = -1]
            /\ pc' = IF policy = "roundrobin" THEN "unset" ELSE "forget"
       ELSE /\ pc' = "stop"
            /\ UNCHANGED <<process, PIDList>>
  /\ UNCHANGED <<policy, sent, pending, created, idxProcessoExecutando,
                 processoAExecutar, overwritten>>

(* waitpid on the running process: if it ended, its position is free.  The  *)
(* handler may take that position before the two stores that follow.        *)
Reap ==
  /\ pc = "reap"
  /\ IF HasCurrent /\ process[Current] = "ended"
       THEN /\ process' = [process EXCEPT ![Current] = "reaped"]
            /\ PIDList' = [PIDList EXCEPT ![idxProcessoExecutando].pid = -1]
            /\ pc' = IF policy = "roundrobin" THEN "unset" ELSE "forget"
       ELSE /\ pc' = "stop"
            /\ UNCHANGED <<process, PIDList>>
  /\ UNCHANGED <<policy, sent, pending, created, idxProcessoExecutando,
                 processoAExecutar, overwritten>>

(* The second store: the number of the position, whoever has it by now. *)
ForgetNumber ==
  /\ pc = "forget" /\ pc' = "unset"
  /\ PIDList' = [PIDList EXCEPT ![idxProcessoExecutando].arg = -1]
  /\ overwritten' = overwritten \union ({Current} \ {-1})
  /\ UNCHANGED <<policy, sent, pending, created, idxProcessoExecutando,
                 processoAExecutar, process>>

UnsetCurrent ==
  /\ pc = "unset" /\ pc' = "choose"
  /\ idxProcessoExecutando' = -1
  /\ UNCHANGED <<policy, sent, pending, created, PIDList, processoAExecutar,
                 process, overwritten>>

(* SIGSTOP: nothing happens to a process that ended.                        *)
Stopped(p) == IF process[p] = "running"
              THEN [process EXCEPT ![p] = "stopped"] ELSE process

(* SIGCONT: lost on a process that did not stop yet. *)
Continued(p) == IF process[p] = "stopped"
                THEN [process EXCEPT ![p] = "running"] ELSE process

(* Seeded fault: leaves the running process alone. *)
InterruptNone ==
  /\ pc = "stop" /\ pc' = "continue"
  /\ UNCHANGED <<policy, sent, pending, created, PIDList,
                 idxProcessoExecutando, processoAExecutar, process, overwritten>>

Interrupt ==
  /\ pc = "stop"
  /\ process' = IF HasCurrent /\ Current # Chosen
                THEN Stopped(Current) ELSE process
  /\ pc' = "continue"
  /\ UNCHANGED <<policy, sent, pending, created, PIDList,
                 idxProcessoExecutando, processoAExecutar, overwritten>>

(* Without a running process the code compares PIDList[-1]: in the programs *)
(* beside the source that is padding of value 0, the pid of no process.     *)
Resume ==
  /\ pc = "continue"
  /\ IF HasCurrent /\ Current = Chosen
       THEN UNCHANGED <<process, idxProcessoExecutando>>
       ELSE /\ process' = Continued(Chosen)
            /\ idxProcessoExecutando' = processoAExecutar
  /\ pc' = "choose"
  /\ UNCHANGED <<policy, sent, pending, created, PIDList, processoAExecutar,
                 overwritten>>

(* The handler of SIGINT: its kill has its arguments swapped, and reaches   *)
(* no process of the list.                                                  *)
encerra ==
  /\ pc # "exited" /\ pc' = "exited"
  /\ UNCHANGED <<policy, sent, pending, created, PIDList,
                 idxProcessoExecutando, processoAExecutar, process, overwritten>>

(* The new process stops itself before it executes its program, and a       *)
(* program that runs may end.                                               *)
StopItself(p) ==
  /\ process[p] = "created"
  /\ process' = [process EXCEPT ![p] = "stopped"]
  /\ UNCHANGED <<policy, sent, pending, created, scheduler>>

End(p) ==
  /\ process[p] = "running"
  /\ process' = [process EXCEPT ![p] = "ended"]
  /\ UNCHANGED <<policy, sent, pending, created, scheduler>>

-----------------------------------------------------------------------------
Loop == Pause \/ Reap \/ ForgetNumber \/ UnsetCurrent \/ Interrupt \/ Resume

Next ==
  \/ adicionaProcessos \/ adicionarProcesso \/ encerra
  \/ \E i \in Slots : Choose(i)
  \/ Loop
  \/ \E p \in Pids : StopItself(p) \/ End(p)

(* The processes get the processor: a draw of the lottery that may come out *)
(* again and again does come out.  Programs need not end, nor SIGINT come.  *)
Fairness ==
  /\ WF_vars(adicionaProcessos) /\ WF_vars(adicionarProcesso) /\ WF_vars(Loop)
  /\ \A i \in Slots : SF_vars(Choose(i))
  /\ \A p \in Pids : WF_vars(StopItself(p))

Spec == Init /\ [][Next]_vars /\ Fairness

-----------------------------------------------------------------------------
(* Every variable has its type, and the index of the running process is     *)
(* that of a position in use or -1, but while the loop frees that position. *)
TypeOK ==
  /\ policy \in Policies /\ pending \in BOOLEAN
  /\ sent \in 0 .. Lines /\ created \in 0 .. Lines
  /\ PIDList \in [Slots -> Entries]
  /\ idxProcessoExecutando \in {-1} \union
       (IF pc \in {"forget", "unset", "exited"} THEN Slots ELSE Listed)
  /\ processoAExecutar \in Slots \union {-1}
  /\ pc \in Places
  /\ process \in [Pids -> States]
  /\ overwritten \in SUBSET Pids

(* What the list says of a process: the number of its own line of exec.txt, *)
(* unless it took its position before the loop had cleared it.              *)
Number(p) == IF policy = "roundrobin" \/ p \in overwritten THEN -1 ELSE Arg[p]

(* Every process that was created and not reaped has one position of the    *)
(* list, although the handler takes free positions at any point of the loop *)
(* that frees them, and its own number there.                               *)
OwnPosition ==
  /\ \A p \in Pids :
       Cardinality({i \in Slots : PIDList[i].pid = p}) =
         IF process[p] \in {"absent", "refused", "reaped"} THEN 0 ELSE 1
  /\ \A i \in Listed : PIDList[i].arg = Number(PIDList[i].pid)

(* Only the process that the list calls the current one runs, whatever      *)
(* signals come between the choice and the SIGCONT.                         *)
OnlyCurrentRuns ==
  \A p \in Pids : process[p] = "running" => HasCurrent /\ p = Current

(* When the loop chooses again, the current process runs or has ended: a    *)
(* current process that was stopped would never be continued, for SIGCONT   *)
(* is sent to another one than the current only.                            *)
CurrentRuns ==
  pc \in {"choose", "sleep", "reap", "stop"} /\ HasCurrent =>
    process[Current] \in {"running", "ended"}

(* Whom each program promises a turn: everybody, the owner of the lowest    *)
(* number, and the owners of tickets.                                       *)
Entitled(p) ==
  CASE policy = "roundrobin" -> TRUE
    [] policy = "prioridade" -> \A q \in Pids \ {p} : Arg[p] < Arg[q]
    [] policy = "lottery" -> Arg[p] > 0

(* A process of the list has the number -1: it comes before all priorities, *)
(* has no tickets, and takes one ticket from the others.                    *)
Misnumbered == \E i \in Listed : PIDList[i].pid \in overwritten

(* A stopped process that is entitled to it gets its turn, even if no other *)
(* program ever ends, unless the scheduler is interrupted or a process of   *)
(* the list has lost its number.                                            *)
AllServed ==
  \A p \in Pids :
    (process[p] = "stopped" /\ Entitled(p)) ~>
      (process[p] # "stopped" \/ pc = "exited" \/ Misnumbered)

(* The position of a program that ended is free again in the end.  Not so   *)
(* by priorities: a program that ends between the waitpid and the SIGSTOP   *)
(* waits for its turn, which a more urgent one may never let come, nor by   *)
(* tickets while a process has lost its own.                                *)
AllReaped ==
  \A p \in Pids :
    (process[p] = "ended" /\ policy # "prioridade") ~>
      (process[p] = "reaped" \/ pc = "exited" \/ Misnumbered)

=============================================================================
