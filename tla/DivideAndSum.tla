---------------------------- MODULE DivideAndSum ----------------------------
(***************************************************************************)
(* What a parallel quadrature promises: every part of the interval is      *)
(* added to the area once, whatever parts it is divided into and in        *)
(* whatever order they are added, and the area is announced only when no   *)
(* part is missing.                                                        *)
(***************************************************************************)
EXTENDS Naturals

CONSTANTS Parts0,   \* the first division of the interval
          Cells     \* the smallest parts

VARIABLES pending,    \* the parts that are not in the area yet
          area,       \* area[c]: how many times c was added
          announced

vars == <<pending, area, announced>>

Init == /\ pending = Parts0
        /\ area = [c \in Cells |-> 0]
        /\ announced = FALSE

Middle(t) == (t[1] + t[2]) \div 2

Divide(t) == /\ pending' = (pending \ {t}) \cup
                           {<<t[1], Middle(t)>>, <<Middle(t), t[2]>>}
             /\ UNCHANGED <<area, announced>>

Add(t) == /\ pending' = pending \ {t}
          /\ area' = [c \in Cells |-> IF c \in t[1] .. (t[2] - 1)
                                        THEN area[c] + 1 ELSE area[c]]
          /\ UNCHANGED announced

Announce == /\ pending = {}
            /\ \A c \in Cells : area[c] = 1
            /\ announced' = TRUE
            /\ UNCHANGED <<pending, area>>

Next == \/ \E t \in pending : Divide(t) \/ Add(t)
        \/ Announce

Spec == Init /\ [][Next]_vars
=============================================================================
