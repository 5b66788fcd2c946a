---------------------------- MODULE LuaRpcProofs ----------------------------
(***************************************************************************)
(* Proofs about the event loop of luarpc.lua, for any number of coroutines *)
(* and requests and any delay: its types, that every wait has its entry in *)
(* wakeup_times for as long as it lasts, and that none ends early.         *)
(***************************************************************************)
EXTENDS LuaRpc, FiniteSetTheorems, WellFoundedInduction, TLAPS

USE LuaAssumption

(* Only a coroutine in an RPC has an acknowledgement to wait for. *)
AcksAwaited == \A c \in acks : status[c] = "calling"

(* wait put the time at which it ends in wakeup_times. *)
WaitsEntered == \A c \in Coroutines : status[c] = "waiting" => due[c] \in Times

(* While select is pending nothing runs that could change wakeup_times. *)
DeadlineIsFirst ==
  deadline # Forever => sel = "select" /\ Times # {} /\ deadline = FirstWakeup

IInv == TypeOK /\ AcksAwaited /\ WaitsEntered /\ DeadlineIsFirst

(* Of the intervals that end at a time of S, one has none inside it. *)
LEMMA FirstOf ==
  ASSUME NEW k \in Nat, NEW S \in SUBSET (0 .. k), S # {}
  PROVE  \E t \in S : \A u \in S : t <= u
<1>1. PICK F : F = {0 .. t : t \in S}
  OBVIOUS
<1>2. PICK A : A = 0 .. k
  OBVIOUS
<1>3. F \subseteq SUBSET A /\ F # {} /\ IsFiniteSet(A)
  <2>1. \A t \in S : 0 .. t \subseteq A
    BY <1>2
  <2>2. IsFiniteSet(0 .. k)
    BY FS_Interval
  <2> QED
    BY <1>1, <1>2, <2>1, <2>2
<1>4. IsWellFoundedOn(StrictSubsetOrdering(A), SUBSET A)
  BY <1>3, FS_StrictSubsetOrderingWellFounded, FS_FiniteSubsetsOfFinite
<1>5. PICK I \in F : \A J \in F : <<J, I>> \notin StrictSubsetOrdering(A)
  BY <1>3, <1>4, WFMin
<1>6. \A J \in F : J \subseteq I => J = I
  BY <1>3, <1>5 DEF StrictSubsetOrdering
<1>7. PICK t \in S : I = 0 .. t
  BY <1>1
<1>8. ASSUME NEW u \in S, ~(t <= u) PROVE FALSE
  <2>1. u \in Nat /\ t \in Nat /\ 0 .. u \in F
    BY <1>1
  <2>2. 0 .. u \subseteq I
    BY <1>7, <1>8, <2>1
  <2>3. 0 .. u = 0 .. t
    BY <1>6, <1>7, <2>1, <2>2
  <2>4. t \in 0 .. t /\ t \notin 0 .. u
    BY <1>8, <2>1
  <2> QED
    BY <2>3, <2>4
<1> QED
  BY <1>8

LEMMA FirstWakeupFound ==
  ASSUME TypeOK, Times # {}
  PROVE  FirstWakeup \in Times /\ FirstWakeup \in 0 .. MaxTime + Delay
<1>1. Times \subseteq 0 .. (MaxTime + Delay) /\ MaxTime + Delay \in Nat
  BY DEF TypeOK
<1>2. \E t \in Times : \A u \in Times : t <= u
  BY <1>1, FirstOf
<1>3. FirstWakeup \in Times
  BY <1>2 DEF FirstWakeup
<1> QED
  BY <1>1, <1>3

-----------------------------------------------------------------------------
(* Bags. *)

LEMMA EntriesUnion ==
  ASSUME NEW a, IsABag(a), NEW b, IsABag(b)
  PROVE  IsABag(a (+) b) /\ BagToSet(a (+) b) = BagToSet(a) \cup BagToSet(b)
<1>1. \A e \in DOMAIN a : a[e] \in Nat /\ a[e] > 0
  BY DEF IsABag
<1>2. \A e \in DOMAIN b : b[e] \in Nat /\ b[e] > 0
  BY DEF IsABag
<1>3. BagToSet(a (+) b) = BagToSet(a) \cup BagToSet(b)
  BY DEF BagToSet, (+)
<1>4. \A e \in DOMAIN a \cup DOMAIN b :
        LET k == (IF e \in DOMAIN a THEN a[e] ELSE 0) + (IF e \in DOMAIN b THEN b[e] ELSE 0)
        IN  k \in Nat /\ k > 0
  BY <1>1, <1>2
<1> QED
  BY <1>3, <1>4 DEF IsABag, (+)

(* One entry less: the other times keep theirs. *)
LEMMA EntryRemoved ==
  ASSUME NEW a, IsABag(a), NEW t
  PROVE  /\ IsABag(a (-) SetToBag({t}))
         /\ BagToSet(a (-) SetToBag({t})) \subseteq BagToSet(a)
         /\ \A e \in BagToSet(a) \ {t} : e \in BagToSet(a (-) SetToBag({t}))
<1>1. \A e \in DOMAIN a : a[e] \in Nat /\ a[e] > 0
  BY DEF IsABag
<1>2. PICK one : one = SetToBag({t})
  OBVIOUS
<1>3. DOMAIN one = {t} /\ one[t] = 1
  BY <1>2 DEF SetToBag
<1>4. PICK left : left = [e \in DOMAIN a |-> IF e \in DOMAIN one THEN a[e] - one[e] ELSE a[e]]
  OBVIOUS
<1>5. PICK D : D = {d \in DOMAIN left : left[d] > 0}
  OBVIOUS
<1>6. a (-) one = [e \in D |-> left[e]]
  BY <1>4, <1>5 DEF (-)
<1>7. DOMAIN left = DOMAIN a /\ D \subseteq DOMAIN a
  BY <1>4, <1>5
<1>8. \A e \in DOMAIN a : left[e] \in Int /\ (e # t => left[e] = a[e])
  BY <1>1, <1>3, <1>4
<1>9. \A e \in D : left[e] \in Nat /\ left[e] > 0
  BY <1>5, <1>7, <1>8
<1>10. IsABag(a (-) one)
  BY <1>6, <1>9 DEF IsABag
<1>11. BagToSet(a (-) one) = D
  BY <1>6 DEF BagToSet
<1>12. \A e \in DOMAIN a \ {t} : e \in D
  BY <1>1, <1>5, <1>7, <1>8
<1> QED
  BY <1>2, <1>7, <1>10, <1>11, <1>12 DEF BagToSet

-----------------------------------------------------------------------------
(* What the coroutines do until they yield again: whoever waits then has its    *)
(* entry, if those that did not run have theirs among the entries left over.    *)
LEMMA RunKeeps ==
  ASSUME TypeOK, NEW R \in SUBSET Coroutines, NEW b, Run(R, b),
         IsABag(b), BagToSet(b) \subseteq 0 .. (MaxTime + Delay),
         \A c \in Coroutines \ R : status[c] = "waiting" => due[c] \in BagToSet(b)
  PROVE  /\ status' \in [Coroutines -> {"new", "waiting", "calling"}]
         /\ due' \in [Coroutines -> 0 .. (MaxTime + Delay)]
         /\ IsABag(wakeup_times') /\ Times' \subseteq 0 .. (MaxTime + Delay)
         /\ WaitsEntered'
         /\ \A c \in Coroutines \ R : status'[c] = status[c] /\ due'[c] = due[c]
<1>1. PICK W \in SUBSET R :
        /\ status' = [c \in Coroutines |-> IF c \in W THEN "waiting"
                                           ELSE IF c \in R THEN "calling" ELSE status[c]]
        /\ due' = [c \in Coroutines |-> IF c \in W THEN now + Delay ELSE due[c]]
        /\ wakeup_times' = b (+) [t \in {now + Delay : c \in W} |-> Cardinality(W)]
  BY DEF Run
<1>2. PICK new : new = [t \in {now + Delay : c \in W} |-> Cardinality(W)]
  OBVIOUS
<1>3. now + Delay \in 0 .. (MaxTime + Delay)
  BY DEF TypeOK
<1>4. IsFiniteSet(W) /\ Cardinality(W) \in Nat
  BY FS_Subset, FS_CardinalityType
<1>5. W # {} => Cardinality(W) > 0
  BY <1>4, FS_EmptySet
<1>6. BagToSet(new) = {now + Delay : c \in W}
  BY <1>2 DEF BagToSet
<1>7. IsABag(new)
  <2>1. \A t \in {now + Delay : c \in W} : Cardinality(W) \in Nat /\ Cardinality(W) > 0
    BY <1>4, <1>5
  <2> QED
    BY <1>2, <2>1 DEF IsABag
<1>8. wakeup_times' = b (+) new
  BY <1>1, <1>2
<1>9. IsABag(wakeup_times') /\ Times' = BagToSet(b) \cup {now + Delay : c \in W}
  BY <1>6, <1>7, <1>8, EntriesUnion DEF Times
<1>10. /\ status' \in [Coroutines -> {"new", "waiting", "calling"}]
       /\ due' \in [Coroutines -> 0 .. (MaxTime + Delay)]
  BY <1>1, <1>3 DEF TypeOK
<1>11. \A c \in Coroutines \ R : status'[c] = status[c] /\ due'[c] = due[c]
  BY <1>1
<1>12. ASSUME NEW c \in Coroutines, status'[c] = "waiting" PROVE due'[c] \in Times'
  <2>1. CASE c \in W
    BY <1>1, <1>9, <2>1
  <2>2. CASE c \notin R
    BY <1>9, <1>11, <1>12, <2>2
  <2> QED
    BY <1>1, <1>12, <2>1, <2>2
<1>13. WaitsEntered'
  BY <1>12 DEF WaitsEntered
<1> QED
  BY <1>3, <1>9, <1>10, <1>11, <1>13

LEMMA CallSelectStep == ASSUME IInv, CallSelect PROVE IInv'
<1>1. Times' = Times /\ FirstWakeup' = FirstWakeup
  BY DEF CallSelect, Times, FirstWakeup
<1>2. Times # {} => FirstWakeup \in 0 .. MaxTime + Delay
  BY FirstWakeupFound DEF IInv
<1>3. deadline' \in 0 .. Forever
  <2>1. deadline' = Forever \/ (Times # {} /\ deadline' = FirstWakeup)
    BY DEF CallSelect
  <2>2. Forever \in Nat /\ Forever = MaxTime + Delay + 1
    BY DEF Forever
  <2> QED
    BY <1>2, <2>1, <2>2
<1>4. TypeOK'
  BY <1>1, <1>3 DEF IInv, TypeOK, CallSelect
<1>5. AcksAwaited' /\ WaitsEntered'
  BY <1>1 DEF IInv, AcksAwaited, WaitsEntered, CallSelect
<1>6. DeadlineIsFirst'
  BY <1>1 DEF DeadlineIsFirst, CallSelect, Forever
<1> QED
  BY <1>4, <1>5, <1>6 DEF IInv

(* A return of select ends the timeout, and the coroutines that run are not the *)
(* ones that wait for an acknowledgement any more.                              *)
LEMMA ReturnStep ==
  ASSUME IInv, ReturnFromSelect, UNCHANGED <<now, requests>>,
         request' \in BOOLEAN, acks' = {},
         status' \in [Coroutines -> {"new", "waiting", "calling"}],
         due' \in [Coroutines -> 0 .. (MaxTime + Delay)],
         IsABag(wakeup_times'), Times' \subseteq 0 .. (MaxTime + Delay), WaitsEntered'
  PROVE  IInv'
<1>1. TypeOK'
  BY DEF IInv, TypeOK, ReturnFromSelect, Forever
<1>2. AcksAwaited' /\ DeadlineIsFirst'
  BY DEF AcksAwaited, DeadlineIsFirst, ReturnFromSelect, Forever
<1> QED
  BY <1>1, <1>2 DEF IInv

LEMMA ServeStep == ASSUME IInv, Serve PROVE IInv'
<1>1. PICK S \in SUBSET {c \in Coroutines : status[c] = "new"} :
        Run(acks \cup S, wakeup_times)
  BY DEF Serve
<1>2. acks \cup S \in SUBSET Coroutines /\ TypeOK
  BY DEF IInv, TypeOK
<1>3. /\ IsABag(wakeup_times) /\ BagToSet(wakeup_times) \subseteq 0 .. (MaxTime + Delay)
      /\ \A c \in Coroutines : status[c] = "waiting" => due[c] \in BagToSet(wakeup_times)
  BY DEF IInv, TypeOK, WaitsEntered, Times
<1>4. /\ status' \in [Coroutines -> {"new", "waiting", "calling"}]
      /\ due' \in [Coroutines -> 0 .. (MaxTime + Delay)]
      /\ IsABag(wakeup_times') /\ Times' \subseteq 0 .. (MaxTime + Delay)
      /\ WaitsEntered'
  BY <1>1, <1>2, <1>3, RunKeeps
<1> QED
  BY <1>4, ReturnStep DEF Serve

(* A timeout wakes everybody whose wait ends with the entry it removes. *)
LEMMA TimeoutStep == ASSUME IInv, Timeout PROVE IInv'
<1>1. PICK t : t = FirstWakeup
  OBVIOUS
<1>2. PICK b : b = wakeup_times (-) SetToBag({t})
  OBVIOUS
<1>3. TypeOK /\ WaitsEntered /\ IsABag(wakeup_times)
  BY DEF IInv, TypeOK
<1>4. /\ IsABag(b) /\ BagToSet(b) \subseteq Times
      /\ \A e \in Times \ {t} : e \in BagToSet(b)
  BY <1>2, <1>3, EntryRemoved DEF Times
<1>5. BagToSet(b) \subseteq 0 .. (MaxTime + Delay)
  BY <1>3, <1>4 DEF TypeOK
<1>6. Run(Woken(t), b) /\ Woken(t) \in SUBSET Coroutines
  BY <1>1, <1>2 DEF Timeout, Woken
<1>7. \A c \in Coroutines \ Woken(t) : status[c] = "waiting" => due[c] \in BagToSet(b)
  BY <1>3, <1>4 DEF Woken, WaitsEntered
<1>8. /\ status' \in [Coroutines -> {"new", "waiting", "calling"}]
      /\ due' \in [Coroutines -> 0 .. (MaxTime + Delay)]
      /\ IsABag(wakeup_times') /\ Times' \subseteq 0 .. (MaxTime + Delay)
      /\ WaitsEntered'
  BY <1>3, <1>4, <1>5, <1>6, <1>7, RunKeeps
<1>9. acks' = {} /\ request' \in BOOLEAN
  BY DEF Timeout, IInv, TypeOK
<1> QED
  BY <1>8, <1>9, ReturnStep DEF Timeout

LEMMA StepKeeps == IInv /\ [Next]_vars => IInv'
<1> SUFFICES ASSUME IInv, [Next]_vars PROVE IInv'
  OBVIOUS
<1>1. CASE Tick
  <2>1. Times' = Times /\ FirstWakeup' = FirstWakeup
    BY <1>1 DEF Tick, Times, FirstWakeup
  <2>2. TypeOK'
    BY <1>1, <2>1 DEF IInv, TypeOK, Tick
  <2> QED
    BY <1>1, <2>1, <2>2
       DEF IInv, Tick, AcksAwaited, WaitsEntered, DeadlineIsFirst
<1>2. CASE Request
  <2>1. Times' = Times /\ FirstWakeup' = FirstWakeup
    BY <1>2 DEF Request, Times, FirstWakeup
  <2>2. TypeOK'
    BY <1>2, <2>1 DEF IInv, TypeOK, Request
  <2> QED
    BY <1>2, <2>1, <2>2
       DEF IInv, Request, AcksAwaited, WaitsEntered, DeadlineIsFirst
<1>3. CASE Acknowledge
  <2>1. Times' = Times /\ FirstWakeup' = FirstWakeup
    BY <1>3 DEF Acknowledge, Times, FirstWakeup
  <2>2. TypeOK'
    BY <1>3, <2>1 DEF IInv, TypeOK, Acknowledge
  <2>3. AcksAwaited'
    BY <1>3 DEF IInv, Acknowledge, AcksAwaited
  <2> QED
    BY <1>3, <2>1, <2>2, <2>3 DEF IInv, Acknowledge, WaitsEntered, DeadlineIsFirst
<1>4. CASE UNCHANGED vars
  BY <1>4 DEF vars, IInv, TypeOK, AcksAwaited, WaitsEntered, DeadlineIsFirst, Times,
              FirstWakeup
<1> QED
  BY <1>1, <1>2, <1>3, <1>4, CallSelectStep, ServeStep, TimeoutStep DEF Next

LEMMA InitHolds == Init => IInv
<1> SUFFICES ASSUME Init PROVE IInv
  OBVIOUS
<1>1. IsABag(wakeup_times) /\ Times = {}
  BY DEF Init, EmptyBag, SetToBag, IsABag, Times, BagToSet
<1>2. TypeOK
  BY <1>1 DEF Init, TypeOK, Forever
<1> QED
  BY <1>2 DEF Init, IInv, AcksAwaited, WaitsEntered, DeadlineIsFirst

(* The invariant that the theorems below follow from. *)
THEOREM Inductive == Spec => []IInv
BY InitHolds, StepKeeps, PTL DEF Spec

(* The variables of the event loop keep their types, for any number of          *)
(* coroutines: wakeup_times stays a bag of times that wait computed.            *)
THEOREM TypeCorrect == Spec => []TypeOK
<1>1. IInv => TypeOK
  BY DEF IInv
<1> QED
  BY <1>1, Inductive, PTL

(* A coroutine in wait is never forgotten: the time at which it is to go on is  *)
(* in wakeup_times until it does, although a timeout removes one entry, whoever *)
(* else waits for the same time, and the bag says nothing of who that is.       *)
THEOREM NoWaitForgotten == Spec => []WaitsEntered
<1>1. IInv => WaitsEntered
  BY DEF IInv
<1> QED
  BY <1>1, Inductive, PTL

(* "wait for 1 second" (server.lua): no wait ends before its time, whatever     *)
(* requests and acknowledgements make select return in between.                 *)
THEOREM NoWaitEndsEarly == Spec => NeverEarly
<1>1. ASSUME IInv, [Next]_vars, NEW c \in Coroutines, status[c] = "waiting",
             <<status[c], due[c]>>' # <<status[c], due[c]>>
      PROVE  now >= due[c]
  <2>1. CASE Serve
    <3>1. PICK S \in SUBSET {d \in Coroutines : status[d] = "new"} :
            Run(acks \cup S, wakeup_times)
      BY <2>1 DEF Serve
    <3>2. c \notin acks \cup S
      BY <1>1 DEF IInv, AcksAwaited
    <3> QED
      BY <1>1, <3>1, <3>2 DEF Run
  <2>2. CASE Timeout
    <3>1. c \in Woken(FirstWakeup)
      BY <1>1, <2>2 DEF Timeout, Run
    <3>2. deadline # Forever
      BY <1>1, <2>2 DEF Timeout, IInv, TypeOK, Forever
    <3> QED
      BY <1>1, <2>2, <3>1, <3>2 DEF Timeout, Woken, IInv, DeadlineIsFirst
  <2>3. CASE CallSelect \/ Tick \/ Request \/ Acknowledge \/ UNCHANGED vars
    BY <1>1, <2>3 DEF CallSelect, Tick, Request, Acknowledge, vars
  <2> QED
    BY <1>1, <2>1, <2>2, <2>3 DEF Next
<1>2. IInv /\ [Next]_vars
        => [\A c \in Coroutines :
              status[c] = "waiting" /\ <<status[c], due[c]>>' # <<status[c], due[c]>>
                => now >= due[c]]_vars
  BY <1>1
<1> QED
  BY <1>2, Inductive, PTL DEF Spec, NeverEarly
=============================================================================
