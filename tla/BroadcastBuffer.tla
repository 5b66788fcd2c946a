-------------------------- MODULE BroadcastBuffer --------------------------
(***************************************************************************)
(* What the limited buffer promises (limitedbuffer.h and the await         *)
(* conditions in the comments of limitedbuffer.c): every consumer gets     *)
(* every deposited item, in the order of the deposits, and an item may be  *)
(* overwritten only after all the consumers have read it, so that no       *)
(* consumer is ever more than N items behind.                              *)
(***************************************************************************)
EXTENDS Naturals, Sequences

CONSTANTS Consumers,   \* the consumers
          Items,       \* the items that can be deposited
          N            \* the number of positions of the buffer

VARIABLES log,         \* every item deposited so far, in order
          got          \* got[c]: the items consumer c has received, in order

vars == <<log, got>>

Init == /\ log = <<>>
        /\ got = [c \in Consumers |-> <<>>]

Deposit(x) == /\ \A c \in Consumers : Len(log) < Len(got[c]) + N
              /\ log' = Append(log, x)
              /\ UNCHANGED got

Receive(c) == /\ Len(got[c]) < Len(log)
              /\ got' = [got EXCEPT ![c] = Append(@, log[Len(@) + 1])]
              /\ UNCHANGED log

Next == \/ \E x \in Items : Deposit(x)
        \/ \E c \in Consumers : Receive(c)

Spec == Init /\ [][Next]_vars
=============================================================================
