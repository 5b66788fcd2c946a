------------------------------- MODULE LuaRpc -------------------------------
(***************************************************************************)
(* The event loop of trab2-raft/luarpc.lua: waitIncoming, wait and the     *)
(* coroutine side of createProxy.  One process, in which coroutines run    *)
(* until they yield: in wait, with an entry in wakeup_times, or in an RPC, *)
(* until its connection is readable.  waitIncoming calls select with the   *)
(* time left to the first entry; it looks at the entries only when select  *)
(* times out.  (LuaSocket's select blocks for ever when its timeout is nil *)
(* or negative.)                                                           *)
(*                                                                         *)
(* now is os.time(), in whole seconds.  select returns in the second in    *)
(* which its timeout ends, and at most one second ends between a return of *)
(* select and its next call: the loop is never late by more than that.     *)
(***************************************************************************)
EXTENDS Naturals, Bags, FiniteSets

CONSTANTS Coroutines,   \* coroutines that call wait in a loop (server.lua: one)
          Delay,        \* timeToWait
          MaxTime,      \* bound on the clock
          MaxRequests   \* bound on the requests of other processes

ASSUME LuaAssumption ==
  /\ IsFiniteSet(Coroutines)
  /\ Delay \in Nat \ {0}
  /\ MaxTime \in Nat /\ MaxRequests \in Nat

(* The deadline of a select without one: past every time of the clock. *)
Forever == MaxTime + Delay + 1

VARIABLES
  now, lag,        \* the clock, and its ticks since select last returned
  sel,             \* "top": before select; "select": inside it
  deadline,        \* when the timeout of the pending select ends
  wakeup_times,    \* a bag of times
  status, due,     \* each coroutine: "new", "waiting" or "calling"; its wakeup
  request,         \* a request waits on the servant's socket
  acks,            \* coroutines whose RPC has been acknowledged
  requests         \* bound: requests so far

vars == <<now, lag, sel, deadline, wakeup_times, status, due, request, acks,
          requests>>

Init ==
  /\ now = 0 /\ lag = 0
  /\ sel = "top" /\ deadline = Forever
  /\ wakeup_times = EmptyBag
  /\ status = [c \in Coroutines |-> "new"]
  /\ due = [c \in Coroutines |-> 0]
  /\ request = TRUE            \* the first call of InitializeNode
  /\ acks = {}
  /\ requests = 0

Times == BagToSet(wakeup_times)
FirstWakeup == CHOOSE t \in Times : \A u \in Times : t <= u

(* The head of the loop: select(sockets_lst, nil, nextTimeout). *)
CallSelect ==
  /\ sel = "top"
  /\ sel' = "select"
  /\ deadline' = IF Times = {} \/ FirstWakeup < now THEN Forever ELSE FirstWakeup
  /\ UNCHANGED <<now, lag, wakeup_times, status, due, request, acks, requests>>

(* The coroutines R run until they yield: W of them in wait, the others in an
   RPC.  b is what is left of wakeup_times. *)
Run(R, b) ==
  \E W \in SUBSET R :
    /\ status' = [c \in Coroutines |-> IF c \in W THEN "waiting"
                                       ELSE IF c \in R THEN "calling" ELSE status[c]]
    /\ due' = [c \in Coroutines |-> IF c \in W THEN now + Delay ELSE due[c]]
    /\ wakeup_times' = b (+) [t \in {now + Delay : c \in W} |-> Cardinality(W)]

ReturnFromSelect ==
  /\ sel = "select"
  /\ sel' = "top" /\ lag' = 0 /\ deadline' = Forever

(* Some socket is readable: every request is served and every coroutine with an
   acknowledged RPC is resumed; wakeup_times is not looked at.  A request that
   is an InitializeNode starts a coroutine. *)
Serve ==
  /\ ReturnFromSelect
  /\ request \/ acks # {}
  /\ \E S \in SUBSET {c \in Coroutines : status[c] = "new"} :
       /\ request \/ S = {}
       /\ Run(acks \cup S, wakeup_times)
  /\ request' = FALSE /\ acks' = {}
  /\ UNCHANGED <<now, requests>>

Woken(t) == {c \in Coroutines : status[c] = "waiting" /\ due[c] = t}

(* Seeded faults: every coroutine in wait is resumed; every entry is removed. *)
TimeoutAll ==
  /\ ReturnFromSelect
  /\ ~request /\ acks = {}
  /\ now >= deadline
  /\ Run({c \in Coroutines : status[c] = "waiting"},
         wakeup_times (-) SetToBag({FirstWakeup}))
  /\ UNCHANGED <<now, request, acks, requests>>

TimeoutClears ==
  /\ ReturnFromSelect
  /\ ~request /\ acks = {}
  /\ now >= deadline
  /\ Run(Woken(FirstWakeup), EmptyBag)
  /\ UNCHANGED <<now, request, acks, requests>>

(* select times out: the coroutines of the first entry are resumed. *)
Timeout ==
  /\ ReturnFromSelect
  /\ ~request /\ acks = {}
  /\ now >= deadline
  /\ Run(Woken(FirstWakeup), wakeup_times (-) SetToBag({FirstWakeup}))
  /\ UNCHANGED <<now, request, acks, requests>>

-----------------------------------------------------------------------------
(* The rest of the world: the clock, the other servers. *)
Tick ==
  /\ now < MaxTime
  /\ \/ sel = "select" /\ now < deadline
     \/ sel = "top" /\ lag = 0
  /\ now' = now + 1
  /\ lag' = IF sel = "top" THEN 1 ELSE lag
  /\ UNCHANGED <<sel, deadline, wakeup_times, status, due, request, acks, requests>>

Request ==
  /\ ~request /\ requests < MaxRequests
  /\ request' = TRUE
  /\ requests' = requests + 1
  /\ UNCHANGED <<now, lag, sel, deadline, wakeup_times, status, due, acks>>

Acknowledge ==
  \E c \in Coroutines \ acks :
    /\ status[c] = "calling"
    /\ acks' = acks \cup {c}
    /\ UNCHANGED <<now, lag, sel, deadline, wakeup_times, status, due, request,
                   requests>>

Next == CallSelect \/ Serve \/ Timeout \/ Tick \/ Request \/ Acknowledge

(* The loop runs and RPCs are answered.  The clock goes on however often the
   loop turns, which the loop cannot keep it from: strong fairness. *)
Spec == /\ Init /\ [][Next]_vars
        /\ WF_vars(CallSelect \/ Serve \/ Timeout)
        /\ SF_vars(Tick) /\ WF_vars(Acknowledge)

-----------------------------------------------------------------------------
(* Every variable of the event loop keeps its type: wakeup_times stays a bag of
   the times wait computed. *)
TypeOK ==
  /\ now \in 0 .. MaxTime /\ lag \in {0, 1}
  /\ sel \in {"top", "select"}
  /\ deadline \in 0 .. Forever
  /\ IsABag(wakeup_times) /\ Times \subseteq 0 .. MaxTime + Delay
  /\ status \in [Coroutines -> {"new", "waiting", "calling"}]
  /\ due \in [Coroutines -> 0 .. MaxTime + Delay]
  /\ request \in BOOLEAN /\ acks \subseteq Coroutines
  /\ requests \in 0 .. MaxRequests

(* "wait for 1 second" (server.lua): a wait never ends before its time. *)
NeverEarly ==
  [][\A c \in Coroutines :
       status[c] = "waiting" /\ <<status[c], due[c]>>' # <<status[c], due[c]>>
         => now >= due[c]]_vars

(* select blocks without a bound although an entry of wakeup_times is past. *)
Blocked == sel = "select" /\ deadline = Forever /\ Times # {}

(* "wait for 1 second then check the queue for tasks" (server.lua): a wait whose
   time has come ends, and only one thing keeps it from ending: a turn of the loop
   that goes past that time, after which the timeout is negative (Blocked). *)
DueWaitsEnd ==
  \A c \in Coroutines : \A t \in 0 .. MaxTime - 1 :
    (status[c] = "waiting" /\ due[c] = t /\ now >= t)
      ~> (~(status[c] = "waiting" /\ due[c] = t) \/ Blocked)
=============================================================================
