-------------------------- MODULE TourSearchProofs --------------------------
(***************************************************************************)
(* Proofs about TourSearch, for any digraph and any number of threads and  *)
(* processes: term->count counts the threads that are out of work, and     *)
(* without spurious wakeups nobody is woken in vain; the types; the best   *)
(* tour is only replaced by a cheaper one; and the search that the threads *)
(* share out among them finds a cheapest tour.                             *)
(*                                                                         *)
(* The three invariants build on each other: IInv for the labels and the   *)
(* counters, TInv for the types and what a thread holds at each label, and *)
(* SInv for the full tours that are left to search.                        *)
(***************************************************************************)
EXTENDS TourSearch, FiniteSetTheorems, TLAPS

-----------------------------------------------------------------------------
(* Natural numbers.                                                         *)

(* The intervals from 0 are ordered by inclusion, which is well-founded.    *)
LEMMA LeastNatural ==
  ASSUME NEW T \in SUBSET Nat, T # {}
  PROVE  \E x \in T : \A y \in T : x <= y
<1> DEFINE R == StrictSubsetOrdering(Nat)
           X == {0 .. k : k \in T}
<1>1. X # {} /\ X \subseteq FiniteSubsetsOf(Nat)
  <2>1. \A k \in T : 0 .. k \subseteq Nat /\ IsFiniteSet(0 .. k)
    BY FS_Interval
  <2> QED
    BY <2>1 DEF FiniteSubsetsOf
<1>2. IsWellFoundedOn(R, FiniteSubsetsOf(Nat))
  BY FS_StrictSubsetOrderingWellFounded
<1>3. \A j, k \in T : j < k => <<0 .. j, 0 .. k>> \in R
  <2> SUFFICES ASSUME NEW j \in T, NEW k \in T, j < k
               PROVE  <<0 .. j, 0 .. k>> \in R
    OBVIOUS
  <2>1. 0 .. j \subseteq 0 .. k /\ k \in 0 .. k /\ k \notin 0 .. j
    OBVIOUS
  <2> QED
    BY <2>1 DEF StrictSubsetOrdering
<1> HIDE DEF R
<1>4. PICK S \in X : \A Y \in X : ~(<<Y, S>> \in R)
  <2> HIDE DEF X
  <2> QED
    BY <1>1, <1>2, WFMin
<1>5. PICK k \in T : S = 0 .. k
  OBVIOUS
<1>6. \A j \in T : ~(j < k)
  BY <1>3, <1>4, <1>5
<1> QED
  BY <1>6

(* Induction, over a set of numbers.                                        *)
LEMMA Induction ==
  ASSUME NEW T, 0 \in T, \A k \in Nat : k \in T => k + 1 \in T
  PROVE  Nat \subseteq T
<1> SUFFICES ASSUME Nat \ T # {} PROVE FALSE
  OBVIOUS
<1>1. PICK k \in Nat \ T : \A j \in Nat \ T : k <= j
  BY LeastNatural
<1>2. k # 0 /\ k - 1 \in Nat
  OBVIOUS
<1>3. k - 1 \in T
  BY <1>1, <1>2
<1> QED
  BY <1>2, <1>3

(* A set of numbers up to b has a greatest one, which is its Max.           *)
LEMMA GreatestNatural ==
  ASSUME NEW b \in Nat, NEW T \in SUBSET (0 .. b), T # {}
  PROVE  Max(T) \in T /\ \A y \in T : y <= Max(T)
<1> DEFINE U == {b - x : x \in T}
<1>1. U \in SUBSET Nat /\ U # {}
  <2>1. \A x \in T : x \in 0 .. b /\ b - x \in Nat
    OBVIOUS
  <2> QED
    BY <2>1
<1>2. PICK u \in U : \A v \in U : u <= v
  <2> HIDE DEF U
  <2> QED
    BY <1>1, LeastNatural
<1>3. PICK x \in T : u = b - x
  OBVIOUS
<1>4. \A y \in T : y <= x
  <2> TAKE y \in T
  <2>1. b - y \in U
    OBVIOUS
  <2>2. b - x <= b - y
    BY <1>2, <1>3, <2>1
  <2>3. x \in Int /\ y \in Int
    BY <1>3
  <2> HIDE DEF U
  <2> QED
    BY <2>2, <2>3
<1>5. \A y \in T : x >= y
  BY <1>4
<1> QED
  BY <1>5 DEF Max

(* Products, which the provers expand only one at a time.                   *)
LEMMA Products ==
  /\ \A a, b, c \in Nat : a <= b => a * c <= b * c
  /\ \A a, b \in Nat : a * b \in Nat /\ (a + 1) * b = a * b + b /\ a * (b + 1) = a * b + a
<1>1. \A a, b, c \in Nat : a <= b => a * c <= b * c
  <2> TAKE a, b, c \in Nat
  <2> HAVE a <= b
  <2>1. PICK d \in Nat : b = a + d
    <3>1. b - a \in Nat /\ b = a + (b - a)
      OBVIOUS
    <3> QED
      BY <3>1
  <2>2. (a + d) * c = a * c + d * c /\ d * c >= 0
    OBVIOUS
  <2> QED
    BY <2>1, <2>2
<1>2. \A a, b \in Nat : a * b \in Nat /\ (a + 1) * b = a * b + b /\ a * (b + 1) = a * b + a
  OBVIOUS
<1> QED
  BY <1>1, <1>2

(* There is at least one thread in the cluster.                             *)
LEMMA WorkersType == Workers \in Nat /\ Workers >= 1
<1>1. \A a, b \in Nat : a >= 1 /\ b >= 1 => a * b \in Nat /\ a * b >= 1
  OBVIOUS
<1> QED
  BY <1>1, TourAssumption DEF Workers

(* A function on the natural numbers is defined by its first value and by   *)
(* how each value follows from the one before.                              *)
Starts(X, x0, step, k) ==
  {g \in [0 .. k -> X] : /\ g[0] = x0
                         /\ \A j \in 0 .. (k - 1) : g[j + 1] = step[j][g[j]]}

(* There is one function on 0 .. k that begins and goes on this way.        *)
LEMMA StartIsUnique ==
  ASSUME NEW X, NEW x0 \in X, NEW step \in [Nat -> [X -> X]], NEW k \in Nat
  PROVE  \E g \in Starts(X, x0, step, k) : \A h \in Starts(X, x0, step, k) : h = g
<1> DEFINE P(i) == \E g \in Starts(X, x0, step, i) :
                     \A h \in Starts(X, x0, step, i) : h = g
           T == {i \in Nat : P(i)}
<1>1. P(0)
  <2> DEFINE g == [j \in 0 .. 0 |-> x0]
  <2>1. g \in Starts(X, x0, step, 0)
    BY DEF Starts
  <2>2. \A h \in Starts(X, x0, step, 0) : h = g
    BY DEF Starts
  <2> QED
    BY <2>1, <2>2
<1>2. ASSUME NEW i \in Nat, P(i)
      PROVE  P(i + 1)
  <2>1. PICK g \in Starts(X, x0, step, i) : \A h \in Starts(X, x0, step, i) : h = g
    BY <1>2
  <2>2. /\ g \in [0 .. i -> X] /\ g[0] = x0
        /\ \A j \in 0 .. (i - 1) : g[j + 1] = step[j][g[j]]
    BY <2>1 DEF Starts
  <2>3. g[i] \in X
    BY <2>2
  <2>4. PICK y \in X : y = step[i][g[i]]
    BY <2>3
  <2> DEFINE g1 == [j \in 0 .. (i + 1) |-> IF j = i + 1 THEN y ELSE g[j]]
  <2>5. \A j \in 0 .. (i + 1) : j # i + 1 => j \in 0 .. i
    OBVIOUS
  <2>6. g1 \in [0 .. (i + 1) -> X]
    BY <2>2, <2>5
  <2>7. /\ g1[i + 1] = y /\ \A j \in 0 .. i : g1[j] = g[j]
    BY <2>5
  <2> HIDE DEF g1
  <2>8. \A j \in 0 .. i : g1[j + 1] = step[j][g1[j]]
    <3> TAKE j \in 0 .. i
    <3>1. CASE j = i
      BY <2>4, <2>7, <3>1
    <3>2. CASE j # i
      <4>1. j \in 0 .. (i - 1) /\ j + 1 \in 0 .. i
        BY <3>2
      <4> QED
        BY <2>2, <2>7, <4>1
    <3> QED
      BY <3>1, <3>2
  <2>9. g1[0] = x0 /\ (i + 1) - 1 = i
    BY <2>2, <2>7
  <2>10. g1 \in Starts(X, x0, step, i + 1)
    BY <2>6, <2>8, <2>9 DEF Starts
  <2>11. ASSUME NEW h \in Starts(X, x0, step, i + 1)
         PROVE  h = g1
    <3> DEFINE h0 == [j \in 0 .. i |-> h[j]]
    <3>1. /\ h \in [0 .. (i + 1) -> X] /\ h[0] = x0
          /\ \A j \in 0 .. i : h[j + 1] = step[j][h[j]]
      BY <2>9, <2>11 DEF Starts
    <3>2. h0 \in [0 .. i -> X] /\ \A j \in 0 .. i : h0[j] = h[j]
      BY <3>1
    <3> HIDE DEF h0
    <3>3. \A j \in 0 .. (i - 1) : h0[j + 1] = step[j][h0[j]]
      <4> TAKE j \in 0 .. (i - 1)
      <4>1. j \in 0 .. i /\ j + 1 \in 0 .. i
        OBVIOUS
      <4> QED
        BY <3>1, <3>2, <4>1
    <3>4. h0 \in Starts(X, x0, step, i)
      BY <3>1, <3>2, <3>3 DEF Starts
    <3>5. h0 = g
      BY <2>1, <3>4
    <3>6. \A j \in 0 .. i : h[j] = g1[j]
      BY <3>2, <3>5, <2>7
    <3>7. h[i + 1] = g1[i + 1]
      BY <3>1, <3>6, <2>4, <2>7
    <3>8. \A j \in 0 .. (i + 1) : h[j] = g1[j]
      BY <2>5, <3>6, <3>7
    <3> QED
      BY <2>6, <3>1, <3>8
  <2> QED
    BY <2>10, <2>11
<1>3. 0 \in T /\ \A i \in Nat : i \in T => i + 1 \in T
  BY <1>1, <1>2
<1> HIDE DEF T
<1>4. Nat \subseteq T
  BY <1>3, Induction
<1> QED
  BY <1>4 DEF T

Follows(f, x0, step) == f[0] = x0 /\ \A k \in Nat : f[k + 1] = step[k][f[k]]

(* The functions on 0 .. k agree, so they make one on the numbers.          *)
LEMMA Recursion ==
  ASSUME NEW X, NEW x0 \in X, NEW step \in [Nat -> [X -> X]]
  PROVE  \E f \in [Nat -> X] : Follows(f, x0, step)
<1> DEFINE G(k) == CHOOSE g \in Starts(X, x0, step, k) : TRUE
           f == [k \in Nat |-> G(k)[k]]
<1>1. \A k \in Nat : /\ G(k) \in Starts(X, x0, step, k)
                     /\ \A h \in Starts(X, x0, step, k) : h = G(k)
  <2> TAKE k \in Nat
  <2>1. PICK g \in Starts(X, x0, step, k) : \A h \in Starts(X, x0, step, k) : h = g
    BY StartIsUnique
  <2> QED
    BY <2>1
<1> HIDE DEF G
<1>2. \A k \in Nat : /\ G(k) \in [0 .. k -> X] /\ G(k)[0] = x0
                     /\ \A j \in 0 .. (k - 1) : G(k)[j + 1] = step[j][G(k)[j]]
  BY <1>1 DEF Starts
<1>3. f \in [Nat -> X] /\ f[0] = x0
  BY <1>2
<1>4. ASSUME NEW k \in Nat
      PROVE  f[k + 1] = step[k][f[k]]
  <2> DEFINE h == [j \in 0 .. k |-> G(k + 1)[j]]
  <2>1. /\ G(k + 1) \in [0 .. (k + 1) -> X] /\ G(k + 1)[0] = x0
        /\ \A j \in 0 .. k : G(k + 1)[j + 1] = step[j][G(k + 1)[j]]
    BY <1>2
  <2>2. h \in [0 .. k -> X] /\ \A j \in 0 .. k : h[j] = G(k + 1)[j]
    BY <2>1
  <2> HIDE DEF h
  <2>3. \A j \in 0 .. (k - 1) : h[j + 1] = step[j][h[j]]
    <3> TAKE j \in 0 .. (k - 1)
    <3>1. j \in 0 .. k /\ j + 1 \in 0 .. k
      OBVIOUS
    <3> QED
      BY <2>1, <2>2, <3>1
  <2>4. h \in Starts(X, x0, step, k)
    BY <2>1, <2>2, <2>3 DEF Starts
  <2>5. h = G(k)
    BY <1>1, <2>4
  <2>6. G(k + 1)[k] = G(k)[k]
    BY <2>2, <2>5
  <2>7. G(k + 1)[k + 1] = step[k][G(k + 1)[k]]
    BY <2>1
  <2> QED
    BY <2>6, <2>7
<1> QED
  BY <1>3, <1>4 DEF Follows
-----------------------------------------------------------------------------
(* The costs of tours.                                                      *)
Costs(tour) ==
  CHOOSE c : c = [k \in 0 .. Len(tour) |->
                    IF k <= 1 THEN 0 ELSE c[k - 1] + Cost(tour[k - 1], tour[k])]

(* Tour_cost is the last of the sums that it goes through.                  *)
LEMMA CostIsLast == \A tour : Tour_cost(tour) = Costs(tour)[Len(tour)]
BY DEF Tour_cost, Costs

(* The cost of an edge is a number.                                         *)
LEMMA CostOfEdge ==
  ASSUME NEW tour \in Seq(Cities), NEW j \in DOMAIN tour, NEW k \in DOMAIN tour
  PROVE  Cost(tour[j], tour[k]) \in Nat
<1>1. tour[j] \in Cities /\ tour[k] \in Cities
  OBVIOUS
<1> QED
  BY <1>1, TourAssumption

(* Sums of numbers are numbers.                                             *)
LEMMA SumsAreNumbers ==
  ASSUME NEW len \in Nat, NEW weight, NEW d,
         \A k \in 2 .. len : weight[k] \in Nat,
         \A k \in 0 .. len : d[k] = IF k <= 1 THEN 0 ELSE d[k - 1] + weight[k]
  PROVE  \A k \in 0 .. len : d[k] \in Nat
<1> DEFINE T == {k \in Nat : k \in 0 .. len => d[k] \in Nat}
<1>1. 0 \in T
  OBVIOUS
<1>2. ASSUME NEW k \in Nat, k \in T PROVE k + 1 \in T
  <2> SUFFICES ASSUME k + 1 \in 0 .. len PROVE d[k + 1] \in Nat
    OBVIOUS
  <2>1. d[k] \in Nat /\ (k + 1) - 1 = k
    BY <1>2
  <2>2. CASE k = 0
    BY <2>2
  <2>3. CASE k # 0
    <3>1. weight[k + 1] \in Nat /\ d[k + 1] = d[k] + weight[k + 1]
      BY <2>1, <2>3
    <3> QED
      BY <2>1, <3>1
  <2> QED
    BY <2>2, <2>3
<1> HIDE DEF T
<1>3. Nat \subseteq T
  BY <1>1, <1>2, Induction
<1> QED
  BY <1>3 DEF T

(* The recursive function of Tour_cost exists, and has numbers as values.   *)
LEMMA CostsExist ==
  ASSUME NEW tour \in Seq(Cities)
  PROVE  /\ Costs(tour) \in [0 .. Len(tour) -> Nat]
         /\ \A k \in 0 .. Len(tour) :
              Costs(tour)[k] = IF k <= 1 THEN 0
                               ELSE Costs(tour)[k - 1] + Cost(tour[k - 1], tour[k])
<1> DEFINE len == Len(tour)
           edge(k) == Cost(tour[k], tour[k + 1])
           step == [k \in Nat |-> [c \in Nat |->
                      IF k = 0 \/ k >= len THEN 0 ELSE c + edge(k)]]
<1>1. len \in Nat
  OBVIOUS
<1>2. \A k \in Nat : k # 0 /\ ~(k >= len) => edge(k) \in Nat
  <2> SUFFICES ASSUME NEW k \in Nat, k # 0, ~(k >= len) PROVE edge(k) \in Nat
    OBVIOUS
  <2>1. k \in DOMAIN tour /\ k + 1 \in DOMAIN tour
    BY <1>1
  <2> QED
    BY <2>1, CostOfEdge
<1> HIDE DEF edge
<1>3. step \in [Nat -> [Nat -> Nat]]
  BY <1>1, <1>2
<1>4. PICK f \in [Nat -> Nat] : Follows(f, 0, step)
  <2> HIDE DEF step
  <2>1. 0 \in Nat
    OBVIOUS
  <2> QED
    BY <1>3, <2>1, Recursion
<1>5. \A k \in Nat : f[k] \in Nat /\ f[k + 1] = IF k = 0 \/ k >= len THEN 0 ELSE f[k] + edge(k)
  <2> TAKE k \in Nat
  <2>1. f[k] \in Nat /\ f[k + 1] = step[k][f[k]]
    BY <1>4 DEF Follows
  <2>2. step[k] = [c \in Nat |-> IF k = 0 \/ k >= len THEN 0 ELSE c + edge(k)]
    OBVIOUS
  <2> HIDE DEF step
  <2> QED
    BY <2>1, <2>2
<1> DEFINE c == [k \in 0 .. len |-> f[k]]
<1>6. c \in [0 .. len -> Nat] /\ \A k \in 0 .. len : c[k] = f[k]
  BY <1>1, <1>5
<1> HIDE DEF c, step
<1>7. \A k \in 0 .. len :
        c[k] = IF k <= 1 THEN 0 ELSE c[k - 1] + Cost(tour[k - 1], tour[k])
  <2> TAKE k \in 0 .. len
  <2>1. CASE k = 0
    BY <1>4, <1>6, <2>1 DEF Follows
  <2>2. CASE k # 0
    <3>1. k - 1 \in Nat /\ k - 1 \in 0 .. len /\ ~(k - 1 >= len) /\ (k - 1) + 1 = k
      BY <1>1, <2>2
    <3>2. f[k] = IF k - 1 = 0 THEN 0 ELSE f[k - 1] + edge(k - 1)
      BY <1>5, <3>1
    <3>3. k <= 1 <=> k - 1 = 0
      <4>1. k \in Int /\ k >= 1
        BY <1>1, <2>2
      <4> QED
        BY <4>1
    <3>4. PICK j \in 0 .. len : j = k - 1
      BY <3>1
    <3>5. c[k] = f[k] /\ c[j] = f[j]
      BY <1>6
    <3>6. edge(j) = Cost(tour[j], tour[k])
      BY <3>1, <3>4 DEF edge
    <3> QED
      BY <3>2, <3>3, <3>4, <3>5, <3>6
  <2> QED
    BY <2>1, <2>2
<1>8. c = [k \in 0 .. len |-> IF k <= 1 THEN 0 ELSE c[k - 1] + Cost(tour[k - 1], tour[k])]
  BY <1>6, <1>7
<1>9. Costs(tour) = [k \in 0 .. len |->
        IF k <= 1 THEN 0 ELSE Costs(tour)[k - 1] + Cost(tour[k - 1], tour[k])]
  BY <1>8 DEF Costs
<1> DEFINE d == Costs(tour)
<1>10. DOMAIN d = 0 .. len /\ \A k \in 0 .. len :
         d[k] = IF k <= 1 THEN 0 ELSE d[k - 1] + Cost(tour[k - 1], tour[k])
  BY <1>9
<1>11. d = [k \in 0 .. len |-> d[k]]
  BY <1>9
<1> HIDE DEF d
<1> DEFINE weight == [k \in Nat |-> Cost(tour[k - 1], tour[k])]
<1>12. \A k \in 2 .. len : weight[k] \in Nat
  <2> TAKE k \in 2 .. len
  <2>1. k - 1 \in Nat /\ k - 1 # 0 /\ ~(k - 1 >= len) /\ (k - 1) + 1 = k
    BY <1>1
  <2>2. edge(k - 1) \in Nat
    BY <1>2, <2>1
  <2> QED
    BY <2>1, <2>2 DEF edge
<1>13. d \in [0 .. len -> Nat]
  <2>1. \A k \in 0 .. len : d[k] = IF k <= 1 THEN 0 ELSE d[k - 1] + weight[k]
    BY <1>1, <1>10
  <2> HIDE DEF weight, len
  <2>2. \A k \in 0 .. len : d[k] \in Nat
    BY <1>1, <1>12, <2>1, SumsAreNumbers
  <2> QED
    BY <1>11, <2>2
<1> QED
  BY <1>10, <1>13 DEF d

(* The cost of a tour depends only on its cities, and grows with them.      *)
LEMMA CostsAgree ==
  ASSUME NEW s \in Seq(Cities), NEW t \in Seq(Cities), NEW m \in Nat,
         m <= Len(s), m <= Len(t), \A k \in 1 .. m : s[k] = t[k]
  PROVE  \A k \in 0 .. m : Costs(s)[k] = Costs(t)[k]
<1> DEFINE T == {k \in Nat : k <= m => Costs(s)[k] = Costs(t)[k]}
<1>1. 0 \in T
  <2>1. 0 \in 0 .. Len(s) /\ 0 \in 0 .. Len(t)
    OBVIOUS
  <2>2. Costs(s)[0] = 0 /\ Costs(t)[0] = 0
    BY <2>1, CostsExist
  <2> QED
    BY <2>2
<1>2. ASSUME NEW k \in Nat, k \in T PROVE k + 1 \in T
  <2> SUFFICES ASSUME k + 1 <= m PROVE Costs(s)[k + 1] = Costs(t)[k + 1]
    OBVIOUS
  <2>1. /\ k + 1 \in 0 .. Len(s) /\ k + 1 \in 0 .. Len(t) /\ (k + 1) - 1 = k
        /\ Costs(s)[k] = Costs(t)[k]
    BY <1>2
  <2>2. k + 1 <= 1 \/ (s[k] = t[k] /\ s[k + 1] = t[k + 1])
    OBVIOUS
  <2> QED
    BY <2>1, <2>2, CostsExist
<1> HIDE DEF T
<1>3. Nat \subseteq T
  BY <1>1, <1>2, Induction
<1> QED
  BY <1>3 DEF T

(* Adding a city never makes a tour cheaper.                                *)
LEMMA CostsGrow ==
  ASSUME NEW t \in Seq(Cities), NEW j \in 0 .. Len(t)
  PROVE  \A k \in j .. Len(t) : Costs(t)[j] <= Costs(t)[k]
<1> DEFINE T == {i \in Nat : j + i <= Len(t) => Costs(t)[j] <= Costs(t)[j + i]}
<1>1. 0 \in T
  <2>1. Costs(t)[j] \in Nat /\ j + 0 = j
    BY CostsExist
  <2> QED
    BY <2>1
<1>2. ASSUME NEW i \in Nat, i \in T PROVE i + 1 \in T
  <2> SUFFICES ASSUME j + (i + 1) <= Len(t)
               PROVE  Costs(t)[j] <= Costs(t)[j + (i + 1)]
    OBVIOUS
  <2>1. PICK k \in 0 .. Len(t) : k = j + (i + 1) /\ k - 1 = j + i /\ k - 1 \in 0 .. Len(t)
    OBVIOUS
  <2>2. Costs(t)[j] <= Costs(t)[k - 1]
    BY <1>2, <2>1
  <2>3. /\ Costs(t)[j] \in Nat /\ Costs(t)[k - 1] \in Nat /\ Costs(t)[k] \in Nat
        /\ Costs(t)[k] = IF k <= 1 THEN 0 ELSE Costs(t)[k - 1] + Cost(t[k - 1], t[k])
    BY <2>1, CostsExist
  <2>4. Costs(t)[0] = 0 /\ (1 \in 0 .. Len(t) => Costs(t)[1] = 0)
    BY CostsExist
  <2>5. CASE k <= 1
    <3>1. k = 1 /\ (j = 0 \/ j = 1)
      BY <2>1, <2>5
    <3>2. Costs(t)[k] = 0 /\ Costs(t)[j] = 0
      BY <2>1, <2>4, <3>1
    <3> QED
      BY <2>1, <3>2
  <2>6. CASE ~(k <= 1)
    <3>1. k \in DOMAIN t /\ k - 1 \in DOMAIN t
      BY <2>1, <2>6
    <3>2. Cost(t[k - 1], t[k]) \in Nat
      BY <3>1, CostOfEdge
    <3> QED
      BY <2>1, <2>2, <2>3, <2>6, <3>2
  <2> QED
    BY <2>5, <2>6
<1> HIDE DEF T
<1>3. Nat \subseteq T
  BY <1>1, <1>2, Induction
<1>4. \A k \in j .. Len(t) : k - j \in T /\ j + (k - j) = k
  BY <1>3
<1> QED
  BY <1>4 DEF T

(* Closing or extending a tour adds the cost of one edge, and no tour costs *)
(* less than its beginning.                                                 *)
LEMMA CostType ==
  ASSUME NEW t \in Seq(Cities)
  PROVE  Tour_cost(t) \in Nat
<1>1. Len(t) \in 0 .. Len(t)
  OBVIOUS
<1> QED
  BY <1>1, CostIsLast, CostsExist

(* Add_city adds the cost of one edge.                                      *)
LEMMA CostOfLonger ==
  ASSUME NEW t \in Seq(Cities), NEW c \in Cities, Len(t) >= 1
  PROVE  /\ Append(t, c) \in Seq(Cities)
         /\ Cost(Last_city(t), c) \in Nat
         /\ Tour_cost(Append(t, c)) = Tour_cost(t) + Cost(Last_city(t), c)
<1> DEFINE s == Append(t, c)
           len == Len(t)
<1>1. /\ len \in Nat /\ len >= 1
      /\ s \in Seq(Cities) /\ Len(s) = len + 1 /\ s[len + 1] = c /\ s[len] = t[len]
      /\ \A k \in 1 .. len : s[k] = t[k]
      /\ t[len] \in Cities
  OBVIOUS
<1> HIDE DEF s
<1>2. Costs(s)[len] = Costs(t)[len]
  BY <1>1, CostsAgree
<1>3. Costs(s)[len + 1] = Costs(s)[len] + Cost(s[len], s[len + 1])
  <2>1. len + 1 \in 0 .. Len(s) /\ ~(len + 1 <= 1) /\ (len + 1) - 1 = len
    BY <1>1
  <2> QED
    BY <1>1, <2>1, CostsExist
<1>4. Cost(t[len], c) \in Nat
  BY <1>1, TourAssumption
<1> QED
  BY <1>1, <1>2, <1>3, <1>4, CostIsLast DEF s, Last_city

(* A prefix has the same cities, as far as it goes.                         *)
LEMMA PrefixIs ==
  ASSUME NEW S, NEW s \in Seq(S), NEW t \in Seq(S)
  PROVE  IsPrefix(s, t) <=> Len(s) <= Len(t) /\ \A i \in 1 .. Len(s) : s[i] = t[i]
<1>1. ASSUME Len(s) <= Len(t)
      PROVE  SubSeq(s, 1, Len(s)) = SubSeq(t, 1, Len(s))
               <=> \A i \in 1 .. Len(s) : s[i] = t[i]
  <2> DEFINE a == SubSeq(s, 1, Len(s))
             b == SubSeq(t, 1, Len(s))
  <2>1. /\ a \in Seq(S) /\ Len(a) = Len(s) /\ \A i \in 1 .. Len(s) : a[i] = s[i]
        /\ b \in Seq(S) /\ Len(b) = Len(s) /\ \A i \in 1 .. Len(s) : b[i] = t[i]
    BY <1>1
  <2> HIDE DEF a, b
  <2>2. a = b <=> \A i \in 1 .. Len(s) : a[i] = b[i]
    BY <2>1
  <2> QED
    BY <2>1, <2>2 DEF a, b
<1> QED
  BY <1>1 DEF IsPrefix

(* No tour costs less than its beginning.                                   *)
LEMMA PrefixCheaper ==
  ASSUME NEW s \in Seq(Cities), NEW t \in Seq(Cities), IsPrefix(s, t)
  PROVE  Tour_cost(s) <= Tour_cost(t)
<1>1. Len(s) \in Nat /\ Len(s) <= Len(t) /\ \A i \in 1 .. Len(s) : s[i] = t[i]
  BY PrefixIs
<1>2. Costs(s)[Len(s)] = Costs(t)[Len(s)]
  BY <1>1, CostsAgree
<1>3. Costs(t)[Len(s)] <= Costs(t)[Len(t)]
  <2>1. Len(s) \in 0 .. Len(t) /\ Len(t) \in Len(s) .. Len(t)
    BY <1>1
  <2> QED
    BY <2>1, CostsGrow
<1> QED
  BY <1>2, <1>3, CostIsLast

-----------------------------------------------------------------------------
(* The tours of the search start at the home town and visit no city twice. *)
Partials ==
  {tour \in Tours : tour[1] = 0 /\ \A i, j \in DOMAIN tour : tour[i] = tour[j] => i = j}

(* The tours of the search, city by city.                                   *)
LEMMA PartialIs ==
  \A p : p \in Partials
    <=> /\ p \in Seq(Cities) /\ Len(p) \in 1 .. n /\ p[1] = 0
        /\ \A i, j \in 1 .. Len(p) : p[i] = p[j] => i = j
<1> TAKE p
<1>1. n \in Nat
  BY TourAssumption
<1>2. p \in Tours <=> p \in Seq(Cities) /\ Len(p) \in 1 .. n
  <2>1. ASSUME p \in Tours PROVE p \in Seq(Cities) /\ Len(p) \in 1 .. n
    BY <1>1, <2>1 DEF Tours
  <2>2. ASSUME p \in Seq(Cities), Len(p) \in 1 .. n PROVE p \in Tours
    <3>1. p \in [1 .. Len(p) -> Cities]
      BY <2>2
    <3> QED
      BY <2>2, <3>1 DEF Tours
  <2> QED
    BY <2>1, <2>2
<1>3. p \in Seq(Cities) => DOMAIN p = 1 .. Len(p)
  OBVIOUS
<1> QED
  BY <1>2, <1>3 DEF Partials

(* There are n cities, and the home town is one of them.                    *)
LEMMA TheCities ==
  /\ n \in Nat /\ n >= 2 /\ 0 \in Cities /\ 1 .. (n - 1) \subseteq Cities
  /\ \A c \in Cities : c # 0 => c \in 1 .. (n - 1)
  /\ IsFiniteSet(Cities) /\ Cardinality(Cities) = n
<1>1. n \in Nat /\ n >= 2
  BY TourAssumption
<1>2. IsFiniteSet(Cities) /\ Cardinality(Cities) = n
  BY <1>1, FS_Interval DEF Cities
<1> QED
  BY <1>1, <1>2 DEF Cities

(* A tour that is shorter than n leaves a city to visit; one of length n    *)
(* has visited them all.                                                    *)
LEMMA SomewhereToGo ==
  ASSUME NEW p \in Partials, Len(p) < n
  PROVE  Unvisited(p, n) # {}
<1> SUFFICES ASSUME Unvisited(p, n) = {} PROVE FALSE
  OBVIOUS
<1>1. /\ p \in Seq(Cities) /\ Len(p) \in Nat /\ Len(p) >= 1 /\ p[1] = 0
      /\ p \in [1 .. Len(p) -> Cities]
  BY PartialIs
<1>2. \A c \in Cities : \E i \in 1 .. Len(p) : p[i] = c
  <2> TAKE c \in Cities
  <2>1. CASE c = 0
    BY <1>1, <2>1
  <2>2. CASE c # 0
    <3>1. Visited(p, c)
      BY <2>2, TheCities DEF Unvisited
    <3> QED
      BY <1>1, <3>1 DEF Visited
  <2> QED
    BY <2>1, <2>2
<1>3. p \in Surjection(1 .. Len(p), Cities)
  BY <1>1, <1>2 DEF Surjection
<1>4. IsFiniteSet(1 .. Len(p)) /\ Cardinality(1 .. Len(p)) = Len(p)
  BY <1>1, FS_Interval
<1>5. n <= Len(p)
  BY <1>3, <1>4, FS_Surjection, TheCities
<1> QED
  BY <1>1, <1>5, TheCities

(* A tour of length n has visited every city.                               *)
LEMMA AllVisited ==
  ASSUME NEW p \in Partials, Len(p) = n
  PROVE  \A c \in Cities : Visited(p, c)
<1>1. /\ p \in [1 .. n -> Cities] /\ DOMAIN p = 1 .. n
      /\ \A i, j \in 1 .. n : p[i] = p[j] => i = j
  BY PartialIs
<1>2. p \in Injection(1 .. n, Cities)
  BY <1>1 DEF Injection, IsInjective
<1>3. IsFiniteSet(1 .. n) /\ Cardinality(1 .. n) = n
  BY TheCities, FS_Interval
<1>4. p \in Surjection(1 .. n, Cities)
  BY <1>2, <1>3, FS_Injection, TheCities
<1> QED
  BY <1>1, <1>4 DEF Surjection, Visited

(* A city that a tour has not visited makes it longer.                      *)
LEMMA Longer ==
  ASSUME NEW p \in Partials, NEW c \in 1 .. (n - 1), ~Visited(p, c)
  PROVE  /\ Append(p, c) \in Partials /\ Len(p) < n
         /\ Len(Append(p, c)) = Len(p) + 1 /\ IsPrefix(p, Append(p, c))
         /\ Append(p, c)[Len(p) + 1] = c
<1>1. /\ p \in Seq(Cities) /\ Len(p) \in 1 .. n /\ p[1] = 0
      /\ \A i, j \in 1 .. Len(p) : p[i] = p[j] => i = j
  BY PartialIs
<1>2. c \in Cities /\ \A i \in 1 .. Len(p) : p[i] # c
  BY <1>1, TheCities DEF Visited
<1>3. Len(p) < n
  BY <1>1, <1>2, AllVisited, TheCities
<1> DEFINE q == Append(p, c)
<1>4. /\ q \in Seq(Cities) /\ Len(q) = Len(p) + 1 /\ q[Len(p) + 1] = c
      /\ \A i \in 1 .. Len(p) : q[i] = p[i]
  BY <1>1, <1>2
<1> HIDE DEF q
<1>5. \A i, j \in 1 .. Len(q) : q[i] = q[j] => i = j
  <2>1. \A i \in 1 .. Len(q) : i \in 1 .. Len(p) \/ i = Len(p) + 1
    BY <1>1, <1>4
  <2> QED
    BY <1>1, <1>2, <1>4, <2>1
<1>6. q \in Partials
  <2>1. Len(q) \in 1 .. n /\ q[1] = 0
    BY <1>1, <1>3, <1>4, TheCities
  <2> QED
    BY <1>4, <1>5, <2>1, PartialIs
<1>7. IsPrefix(p, q)
  <2>1. Len(p) <= Len(q)
    BY <1>1, <1>4
  <2> QED
    BY <1>1, <1>4, <2>1, PrefixIs
<1> QED
  BY <1>3, <1>4, <1>6, <1>7 DEF q

(* Next_nbr: the greatest city below the bound that is still to be visited. *)
LEMMA NextNbr ==
  ASSUME NEW tour, NEW below \in 0 .. n
  PROVE  /\ Next_nbr(tour, below) \in Cities
         /\ Next_nbr(tour, below) = 0 => Unvisited(tour, below) = {}
         /\ Next_nbr(tour, below) # 0 =>
              /\ Next_nbr(tour, below) \in Unvisited(tour, below)
              /\ \A c \in Unvisited(tour, below) : c <= Next_nbr(tour, below)
<1> DEFINE T == Unvisited(tour, below) \cup {0}
<1>1. T \in SUBSET (0 .. n) /\ T # {} /\ \A c \in T : c \in 0 .. (n - 1)
  BY TheCities DEF Unvisited
<1>2. Max(T) \in T /\ \A c \in T : c <= Max(T)
  <2> HIDE DEF T
  <2> QED
    BY <1>1, GreatestNatural, TheCities
<1>3. \A c \in Unvisited(tour, below) : c >= 1 /\ c \in Nat
  BY TheCities DEF Unvisited
<1> QED
  BY <1>1, <1>2, <1>3 DEF Next_nbr, Cities

-----------------------------------------------------------------------------
(* The partition of the tree.                                               *)

(* The sizes are numbers.                                                   *)
LEMMA SizeType == \A k \in Nat : Size[k] \in Nat
<1> DEFINE step == [k \in Nat |-> [x \in Nat |-> x * (n - 1 + (k + 1))]]
<1>1. n - 1 \in Nat /\ \A k \in Nat : n - 1 + k \in Nat
  BY TheCities
<1>2. step \in [Nat -> [Nat -> Nat]]
  BY <1>1
<1>3. PICK f \in [Nat -> Nat] : Follows(f, n - 1, step)
  <2> HIDE DEF step
  <2> QED
    BY <1>1, <1>2, Recursion
<1>4. \A k \in Nat : f[k] = IF k = 0 THEN n - 1 ELSE f[k - 1] * (n - 1 + k)
  <2> TAKE k \in Nat
  <2>1. CASE k = 0
    BY <1>3, <2>1 DEF Follows
  <2>2. CASE k # 0
    <3>1. k - 1 \in Nat /\ (k - 1) + 1 = k
      BY <2>2
    <3>2. f[k] = step[k - 1][f[k - 1]]
      BY <1>3, <3>1 DEF Follows
    <3>3. step[k - 1] = [x \in Nat |-> x * (n - 1 + k)]
      BY <3>1
    <3> QED
      BY <2>2, <3>1, <3>2, <3>3
  <2> QED
    BY <2>1, <2>2
<1>5. f = [k \in Nat |-> IF k = 0 THEN n - 1 ELSE f[k - 1] * (n - 1 + k)]
  BY <1>4
<1>6. Size = [k \in Nat |-> IF k = 0 THEN n - 1 ELSE Size[k - 1] * (n - 1 + k)]
  BY <1>5 DEF Size
<1>7. \A k \in Nat : Size[k] = IF k = 0 THEN n - 1 ELSE Size[k - 1] * (n - 1 + k)
  BY <1>6
<1> DEFINE T == {k \in Nat : Size[k] \in Nat}
<1>8. 0 \in T
  BY <1>1, <1>7
<1>9. ASSUME NEW k \in Nat, k \in T PROVE k + 1 \in T
  <2>1. /\ Size[k] \in Nat /\ n - 1 + (k + 1) \in Nat
        /\ Size[k + 1] = Size[k] * (n - 1 + (k + 1))
    BY <1>1, <1>7, <1>9
  <2>2. \A a, b \in Nat : a * b \in Nat
    OBVIOUS
  <2> QED
    BY <2>1, <2>2
<1> HIDE DEF T
<1>10. Nat \subseteq T
  BY <1>8, <1>9, Induction
<1> QED
  BY <1>10 DEF T

(* So is the size that Get_upper_bd_queue_sz returns.                       *)
LEMMA QueueSizeType == \A size \in Get_upper_bd_queue_sz : size \in Nat
BY SizeType, TourAssumption DEF Get_upper_bd_queue_sz, Workers

(* The tours that a thread adds behind a tour are tours of the search.      *)
LEMMA ChildrenType ==
  ASSUME NEW p \in Partials
  PROVE  Children(p) \in Seq(Partials)
<1> DEFINE X == Seq(Partials)
           last == n - 1
           step == [k \in Nat |-> [s \in X |->
                      IF k + 1 > last \/ Visited(p, k + 1) THEN s
                      ELSE Append(s, Append(p, k + 1))]]
<1>1. last \in Nat /\ <<>> \in X
  BY TheCities
<1>2. step \in [Nat -> [X -> X]]
  <2>1. ASSUME NEW k \in Nat, NEW s \in X, ~(k + 1 > last), ~Visited(p, k + 1)
        PROVE  Append(s, Append(p, k + 1)) \in X
    <3>1. k + 1 \in 1 .. (n - 1)
      BY <1>1, <2>1
    <3>2. Append(p, k + 1) \in Partials
      BY <2>1, <3>1, Longer
    <3> QED
      BY <3>2
  <2> HIDE DEF X
  <2> QED
    BY <2>1
<1>3. PICK f \in [Nat -> X] : Follows(f, <<>>, step)
  <2> HIDE DEF step, X
  <2> QED
    BY <1>1, <1>2, Recursion
<1> HIDE DEF X
<1> DEFINE added == [k \in 0 .. last |-> f[k]]
<1>4. \A k \in 0 .. last :
        f[k] = IF k = 0 THEN <<>>
               ELSE IF Visited(p, k) THEN f[k - 1] ELSE Append(f[k - 1], Append(p, k))
  <2> TAKE k \in 0 .. last
  <2>1. CASE k = 0
    BY <1>3, <2>1 DEF Follows
  <2>2. CASE k # 0
    <3>1. k - 1 \in Nat /\ (k - 1) + 1 = k /\ ~((k - 1) + 1 > last)
      BY <1>1, <2>2
    <3>2. f[k] = step[k - 1][f[k - 1]]
      BY <1>3, <3>1 DEF Follows
    <3>3. step[k - 1] = [s \in X |-> IF (k - 1) + 1 > last \/ Visited(p, (k - 1) + 1) THEN s
                                     ELSE Append(s, Append(p, (k - 1) + 1))]
      BY <3>1
    <3> HIDE DEF step
    <3>4. f[k - 1] \in X
      BY <3>1
    <3> QED
      BY <2>2, <3>1, <3>2, <3>3, <3>4
  <2> QED
    BY <2>1, <2>2
<1> HIDE DEF step
<1>5. added = [k \in 0 .. last |->
        IF k = 0 THEN <<>>
        ELSE IF Visited(p, k) THEN added[k - 1] ELSE Append(added[k - 1], Append(p, k))]
  <2>1. \A k \in 0 .. last : k # 0 => k - 1 \in 0 .. last
    BY <1>1
  <2> QED
    BY <1>4, <2>1
<1> DEFINE c == CHOOSE c : c = [k \in 0 .. last |->
        IF k = 0 THEN <<>>
        ELSE IF Visited(p, k) THEN c[k - 1] ELSE Append(c[k - 1], Append(p, k))]
<1>6. c = [k \in 0 .. last |->
        IF k = 0 THEN <<>>
        ELSE IF Visited(p, k) THEN c[k - 1] ELSE Append(c[k - 1], Append(p, k))]
  <2> HIDE DEF added
  <2> QED
    BY <1>5
<1>7. Children(p) = c[last]
  BY DEF Children
<1> HIDE DEF c
<1>8. \A k \in 0 .. last :
        c[k] = IF k = 0 THEN <<>>
               ELSE IF Visited(p, k) THEN c[k - 1] ELSE Append(c[k - 1], Append(p, k))
  BY <1>6
<1> DEFINE T == {k \in Nat : k <= last => c[k] \in Seq(Partials)}
<1>9. 0 \in T
  <2>1. 0 \in 0 .. last
    BY <1>1
  <2>2. c[0] = <<>>
    BY <1>8, <2>1
  <2>3. c[0] \in Seq(Partials)
    <3>1. <<>> \in Seq(Partials)
      OBVIOUS
    <3> QED
      BY <2>2, <3>1, Zenon
  <2> QED
    BY <2>3
<1>10. ASSUME NEW k \in Nat, k \in T PROVE k + 1 \in T
  <2> SUFFICES ASSUME k + 1 <= last PROVE c[k + 1] \in Seq(Partials)
    OBVIOUS
  <2>1. /\ c[k] \in Seq(Partials)
        /\ c[k + 1] = IF Visited(p, k + 1) THEN c[k] ELSE Append(c[k], Append(p, k + 1))
    BY <1>1, <1>8, <1>10
  <2>2. ~Visited(p, k + 1) => Append(p, k + 1) \in Partials
    <3>1. k + 1 \in 1 .. (n - 1)
      BY <1>1
    <3> QED
      BY <3>1, Longer
  <2> QED
    BY <2>1, <2>2
<1> HIDE DEF T
<1>11. Nat \subseteq T
  BY <1>9, <1>10, Induction
<1> QED
  BY <1>1, <1>7, <1>11 DEF T

(* The queue holds tours of the search at every step.                       *)
LEMMA LevelType == \A k \in Nat : Level[k] \in Seq(Partials)
<1> DEFINE X == Seq(Partials)
           step == [k \in Nat |-> [s \in X |->
                      IF s = <<>> THEN <<>> ELSE Tail(s) \o Children(Head(s))]]
<1>1. <<>> \in X /\ <<<<0>>>> \in X
  <2>1. <<0>> \in Partials
    <3>1. PICK p : p = <<0>>
      OBVIOUS
    <3>2. p \in Seq(Cities) /\ Len(p) = 1 /\ p[1] = 0
      BY <3>1, TheCities
    <3>3. p \in Partials
      BY <3>2, PartialIs, TheCities
    <3> QED
      BY <3>1, <3>3
  <2> QED
    BY <2>1
<1>2. \A s \in X : s # <<>> => Tail(s) \o Children(Head(s)) \in X
  <2> SUFFICES ASSUME NEW s \in Seq(Partials), s # <<>>
               PROVE  Tail(s) \o Children(Head(s)) \in Seq(Partials)
    OBVIOUS
  <2>1. Tail(s) \in Seq(Partials) /\ Head(s) \in Partials
    OBVIOUS
  <2>2. Children(Head(s)) \in Seq(Partials)
    BY <2>1, ChildrenType
  <2> QED
    BY <2>1, <2>2
<1>3. step \in [Nat -> [X -> X]]
  <2> HIDE DEF X
  <2> QED
    BY <1>1, <1>2
<1>4. PICK f \in [Nat -> X] : Follows(f, <<<<0>>>>, step)
  <2> HIDE DEF step, X
  <2> QED
    BY <1>1, <1>3, Recursion
<1> HIDE DEF X
<1>5. \A k \in Nat :
        f[k] = IF k = 0 THEN <<<<0>>>>
               ELSE IF f[k - 1] = <<>> THEN <<>>
               ELSE Tail(f[k - 1]) \o Children(Head(f[k - 1]))
  <2> TAKE k \in Nat
  <2>1. CASE k = 0
    BY <1>4, <2>1 DEF Follows
  <2>2. CASE k # 0
    <3>1. k - 1 \in Nat /\ (k - 1) + 1 = k /\ f[k - 1] \in X
      BY <2>2
    <3>2. f[k] = step[k - 1][f[k - 1]]
      BY <1>4, <3>1 DEF Follows
    <3> QED
      BY <2>2, <3>1, <3>2
  <2> QED
    BY <2>1, <2>2
<1> HIDE DEF step
<1>6. f = [k \in Nat |->
        IF k = 0 THEN <<<<0>>>>
        ELSE IF f[k - 1] = <<>> THEN <<>>
        ELSE Tail(f[k - 1]) \o Children(Head(f[k - 1]))]
  BY <1>5
<1>7. Level = [k \in Nat |->
        IF k = 0 THEN <<<<0>>>>
        ELSE IF Level[k - 1] = <<>> THEN <<>>
        ELSE Tail(Level[k - 1]) \o Children(Head(Level[k - 1]))]
  BY <1>6 DEF Level
<1>8. \A k \in Nat :
        Level[k] = IF k = 0 THEN <<<<0>>>>
                   ELSE IF Level[k - 1] = <<>> THEN <<>>
                   ELSE Tail(Level[k - 1]) \o Children(Head(Level[k - 1]))
  BY <1>7
<1> DEFINE T == {k \in Nat : Level[k] \in X}
<1>9. 0 \in T
  BY <1>1, <1>8
<1>10. ASSUME NEW k \in Nat, k \in T PROVE k + 1 \in T
  BY <1>1, <1>2, <1>8, <1>10
<1> HIDE DEF T
<1>11. Nat \subseteq T
  BY <1>9, <1>10, Induction
<1> QED
  BY <1>11 DEF T, X

(* The queue that thread 0 builds holds a tour for each thread at least.    *)
LEMMA QueueType ==
  ASSUME NEW q \in Build_initial_queue
  PROVE  q \in Seq(Partials) /\ Len(q) >= Workers /\ q # <<>>
<1>1. Workers \in Nat /\ Workers >= 1
  BY WorkersType
<1>2. PICK j \in 0 .. Workers :
        q = Level[j] /\ Ends_at(j, [i \in 0 .. j |-> Len(Level[i])])
  BY DEF Build_initial_queue
<1>3. q \in Seq(Partials)
  BY <1>1, <1>2, LevelType
<1>4. Len(q) >= Workers
  <2>1. j \in 0 .. j
    BY <1>1
  <2> QED
    BY <1>2, <2>1 DEF Ends_at
<1> QED
  BY <1>1, <1>3, <1>4

-----------------------------------------------------------------------------
(* The division of the queue: the tours of thread r come right before those *)
(* of thread r + 1, and the last one is at the end of the queue at most.    *)
LEMMA Division ==
  ASSUME NEW total \in Nat
  PROVE  /\ total \div Workers \in Nat /\ total % Workers \in 0 .. (Workers - 1)
         /\ total = Workers * (total \div Workers) + (total % Workers)
<1>1. ASSUME NEW w \in Nat, w >= 1
      PROVE  /\ total \div w \in Nat /\ total % w \in 0 .. (w - 1)
             /\ total = w * (total \div w) + (total % w)
  <2>1. total \div w \in Nat
    BY <1>1
  <2>2. total % w \in 0 .. (w - 1)
    BY <1>1
  <2>3. total = w * (total \div w) + (total % w)
    BY <1>1, SMTT(30)
  <2> QED
    BY <2>1, <2>2, <2>3
<1> QED
  BY <1>1, WorkersType

(* The tours of thread r + 1 begin where those of thread r end.             *)
LEMMA TourRanges ==
  ASSUME NEW total \in Nat, NEW r \in 0 .. (Workers - 1)
  PROVE  /\ First_tour(r, total) \in Nat /\ Last_tour(r, total) \in Int
         /\ First_tour(r, total) <= Last_tour(r, total) + 1
         /\ Last_tour(r, total) < total
         /\ r + 1 \in 0 .. (Workers - 1)
              => First_tour(r + 1, total) = Last_tour(r, total) + 1
<1> DEFINE w == Workers
           q == total \div w
           m == total % w
           p == r * q
<1>1. q \in Nat /\ m \in 0 .. (w - 1) /\ total = w * q + m /\ w \in Nat /\ w >= 1 /\ r \in Nat
  BY Division, WorkersType
<1>2. /\ First_tour(r, total) = IF r < m THEN r * (q + 1) ELSE r * q + m
      /\ First_tour(r + 1, total) = IF r + 1 < m THEN (r + 1) * (q + 1) ELSE (r + 1) * q + m
      /\ Last_tour(r, total) = First_tour(r, total) + q - (IF r < m THEN 0 ELSE 1)
  BY DEF First_tour, Last_tour
<1> HIDE DEF w, q, m
<1>3. /\ p \in Nat /\ r * (q + 1) = p + r /\ (r + 1) * q = p + q
      /\ (r + 1) * (q + 1) = (r + 1) * q + (r + 1)
  BY <1>1, Products
<1>4. p + q <= w * q /\ w * q \in Nat
  <2>1. r + 1 <= w /\ r + 1 \in Nat
    BY <1>1 DEF w
  <2>2. (r + 1) * q <= w * q
    BY <1>1, <2>1, Products
  <2> QED
    BY <1>1, <1>3, <2>2, Products
<1>5. /\ First_tour(r, total) = IF r < m THEN p + r ELSE p + m
      /\ First_tour(r + 1, total) = IF r + 1 < m THEN p + q + r + 1 ELSE p + q + m
  BY <1>1, <1>2, <1>3
<1> DEFINE v == w * q
           first == First_tour(r, total)
           final == Last_tour(r, total)
           next == First_tour(r + 1, total)
<1>6. /\ total = v + m /\ v \in Nat /\ p + q <= v /\ p \in Nat
      /\ first = IF r < m THEN p + r ELSE p + m
      /\ next = IF r + 1 < m THEN p + q + r + 1 ELSE p + q + m
      /\ final = first + q - (IF r < m THEN 0 ELSE 1)
  BY <1>1, <1>2, <1>3, <1>4, <1>5
<1> HIDE DEF p, v, first, final, next
<1>7. /\ first \in Nat /\ final \in Int /\ first <= final + 1 /\ final < total
      /\ next = final + 1
  BY <1>1, <1>6
<1> QED
  BY <1>7 DEF first, final, next

(* The thread's number in the cluster.                                      *)
Rank(t) == t + thread_count * cluster_rank

(* The threads of the process have numbers of the cluster in a row.         *)
LEMMA RankType ==
  /\ \A t \in Threads : Rank(t) \in 0 .. (Workers - 1)
  /\ Rank(0) = thread_count * cluster_rank
  /\ Rank(thread_count - 1) = thread_count * (cluster_rank + 1) - 1
  /\ \A t \in Threads : Rank(t) \in Nat /\ Rank(t + 1) = Rank(t) + 1
<1>1. thread_count \in Nat /\ thread_count >= 1 /\ cluster_rank \in Nat
      /\ cluster_count \in Nat /\ cluster_rank + 1 <= cluster_count
  BY TourAssumption
<1> DEFINE p == thread_count * cluster_rank
<1>2. /\ p \in Nat /\ thread_count * (cluster_rank + 1) = p + thread_count
      /\ p + thread_count <= Workers /\ Workers \in Nat
  <2>1. p \in Nat /\ thread_count * (cluster_rank + 1) = p + thread_count
    BY <1>1, Products
  <2>2. (cluster_rank + 1) * thread_count <= cluster_count * thread_count
    BY <1>1, Products
  <2>3. \A a, b \in Nat : a * b = b * a
    OBVIOUS
  <2>4. /\ (cluster_rank + 1) * thread_count = thread_count * (cluster_rank + 1)
        /\ cluster_count * thread_count = Workers
    BY <1>1, <2>3 DEF Workers
  <2> QED
    BY <2>1, <2>2, <2>4, WorkersType
<1>3. \A t : Rank(t) = t + p
  BY DEF Rank
<1> HIDE DEF p
<1>4. \A t \in Threads : t \in Nat /\ t <= thread_count - 1
  BY <1>1 DEF Threads
<1>5. \A t \in Threads : Rank(t) \in 0 .. (Workers - 1)
  BY <1>1, <1>2, <1>3, <1>4
<1>6. Rank(0) = p /\ Rank(thread_count - 1) = thread_count * (cluster_rank + 1) - 1
  BY <1>1, <1>2, <1>3
<1>7. \A t \in Threads : Rank(t) \in Nat /\ Rank(t + 1) = Rank(t) + 1
  BY <1>2, <1>3, <1>4
<1> QED
  BY <1>5, <1>6, <1>7 DEF p

(* The tours of the queue that thread t begins with.                        *)
Share(t) ==
  {queue[i + 1] : i \in First_tour(Rank(t), Len(queue)) .. Last_tour(Rank(t), Len(queue))}

(* Set_init_tours puts exactly the thread's share on its stack.             *)
LEMMA InitTours ==
  ASSUME queue \in Seq(Partials), NEW t \in Threads
  PROVE  /\ Set_init_tours(t) \in Seq(Partials)
         /\ Range(Set_init_tours(t)) = Share(t)
         /\ queue = <<>> => Share(t) = {}
<1> DEFINE first == First_tour(Rank(t), Len(queue))
           final == Last_tour(Rank(t), Len(queue))
           s == SubSeq(queue, first + 1, final + 1)
           len == final + 1 - first
<1>1. /\ Len(queue) \in Nat /\ first \in Nat /\ final \in Int
      /\ first <= final + 1 /\ final < Len(queue)
  BY RankType, TourRanges
<1>2. Set_init_tours(t) = Reverse(s)
  BY DEF Set_init_tours, Rank
<1> HIDE DEF first, final
<1>3. /\ s \in Seq(Partials) /\ Len(s) = len /\ len \in Nat
      /\ \A i \in 1 .. len : s[i] = queue[first + i] /\ s[i] \in Partials
  BY <1>1
<1> HIDE DEF s
<1>4. Reverse(s) = [i \in 1 .. len |-> s[len - i + 1]]
  BY <1>3 DEF Reverse
<1>5. \A i \in 1 .. len : len - i + 1 \in 1 .. len
  BY <1>3
<1>6. Reverse(s) \in Seq(Partials)
  BY <1>3, <1>4, <1>5
<1>7. Range(Reverse(s)) = Share(t)
  <2>1. Range(Reverse(s)) = {s[len - i + 1] : i \in 1 .. len}
    BY <1>4 DEF Range
  <2>2. Share(t) = {queue[i + 1] : i \in first .. final}
    BY DEF Share, first, final
  <2>3. ASSUME NEW i \in 1 .. len
        PROVE  \E j \in first .. final : s[len - i + 1] = queue[j + 1]
    <3>1. final + 1 - i \in first .. final /\ first + (len - i + 1) = (final + 1 - i) + 1
      BY <1>1, <1>3
    <3> QED
      BY <1>3, <1>5, <3>1
  <2>4. ASSUME NEW j \in first .. final
        PROVE  \E i \in 1 .. len : s[len - i + 1] = queue[j + 1]
    <3>1. /\ final + 1 - j \in 1 .. len /\ len - (final + 1 - j) + 1 = j + 1 - first
          /\ j + 1 - first \in 1 .. len /\ first + (j + 1 - first) = j + 1
      BY <1>1, <1>3
    <3> QED
      BY <1>3, <3>1
  <2> QED
    BY <2>1, <2>2, <2>3, <2>4
<1>8. ASSUME queue = <<>> PROVE Share(t) = {}
  <2>1. first .. final = {}
    BY <1>1, <1>8
  <2> QED
    BY <2>1 DEF Share, first, final
<1> QED
  BY <1>2, <1>6, <1>7, <1>8

-----------------------------------------------------------------------------
(* Stacks.                                                                  *)

(* The stack and the tour on its top.                                       *)
LEMMA PopStack ==
  ASSUME NEW s \in Seq(Partials), s # <<>>
  PROVE  /\ Front(s) \in Seq(Partials) /\ Last(s) \in Partials
         /\ Range(s) = Range(Front(s)) \cup {Last(s)}
<1> DEFINE f == Front(s)
           len == Len(s)
<1>1. /\ len \in Nat /\ len >= 1 /\ DOMAIN s = 1 .. len
      /\ f \in Seq(Partials) /\ Len(f) = len - 1
      /\ \A i \in 1 .. (len - 1) : f[i] = s[i]
  <2>1. len \in Nat /\ len >= 1 /\ DOMAIN s = 1 .. len
    OBVIOUS
  <2>2. f = SubSeq(s, 1, len - 1)
    BY DEF Front
  <2> QED
    BY <2>1, <2>2
<1>2. s[len] \in Partials /\ Last(s) = s[len]
  BY <1>1 DEF Last
<1>3. DOMAIN f = 1 .. (len - 1)
  BY <1>1
<1> HIDE DEF f, len
<1>4. Range(s) = Range(f) \cup {s[len]}
  <2>1. \A i \in 1 .. len : i \in 1 .. (len - 1) \/ i = len
    BY <1>1
  <2>2. len \in 1 .. len /\ \A i \in 1 .. (len - 1) : i \in 1 .. len
    BY <1>1
  <2> QED
    BY <1>1, <1>3, <2>1, <2>2 DEF Range
<1> QED
  BY <1>1, <1>2, <1>4 DEF f

(* A tour more on the stack.                                                *)
LEMMA PushStack ==
  ASSUME NEW s \in Seq(Partials), NEW p \in Partials
  PROVE  Append(s, p) \in Seq(Partials) /\ Range(Append(s, p)) = Range(s) \cup {p}
<1> DEFINE a == Append(s, p)
           len == Len(s)
<1>1. /\ len \in Nat /\ a \in Seq(Partials) /\ DOMAIN s = 1 .. len /\ DOMAIN a = 1 .. (len + 1)
      /\ \A i \in 1 .. len : a[i] = s[i] /\ i \in 1 .. (len + 1)
      /\ a[len + 1] = p /\ len + 1 \in 1 .. (len + 1)
      /\ \A i \in 1 .. (len + 1) : i \in 1 .. len \/ i = len + 1
  OBVIOUS
<1> HIDE DEF a, len
<1>2. Range(a) = Range(s) \cup {p}
  BY <1>1 DEF Range
<1> QED
  BY <1>1, <1>2 DEF a

(* Split_stack: the two halves have all the tours, and neither is empty.    *)
LEMMA SplitStack ==
  ASSUME NEW s \in Seq(Partials), Len(s) >= 2
  PROVE  /\ \A odd \in BOOLEAN :
              Split_stack(s, odd) \in Seq(Partials) /\ Split_stack(s, odd) # <<>>
         /\ Range(Split_stack(s, TRUE)) \cup Range(Split_stack(s, FALSE)) = Range(s)
<1> DEFINE len == Len(s)
           a == Split_stack(s, TRUE)
           b == Split_stack(s, FALSE)
           la == len \div 2
           lb == (len + 1) \div 2
<1>1. /\ len \in Nat /\ la \in Nat /\ la >= 1 /\ lb \in Nat /\ lb >= 1
      /\ \A k \in 1 .. la : 2 * k \in 1 .. len
      /\ \A k \in 1 .. lb : 2 * k - 1 \in 1 .. len
      /\ DOMAIN s = 1 .. len
  OBVIOUS
<1>2. /\ a = [k \in 1 .. la |-> s[2 * k]] /\ b = [k \in 1 .. lb |-> s[2 * k - 1]]
  BY DEF Split_stack
<1>3. \A i \in 1 .. len : \/ \E k \in 1 .. la : i = 2 * k
                          \/ \E k \in 1 .. lb : i = 2 * k - 1
  <2> TAKE i \in 1 .. len
  <2>1. CASE i % 2 = 0
    <3>1. i \div 2 \in 1 .. la /\ i = 2 * (i \div 2)
      BY <2>1
    <3> QED
      BY <3>1
  <2>2. CASE i % 2 # 0
    <3>1. (i + 1) \div 2 \in 1 .. lb /\ i = 2 * ((i + 1) \div 2) - 1
      BY <2>2
    <3> QED
      BY <3>1
  <2> QED
    BY <2>1, <2>2
<1> HIDE DEF a, b, la, lb, len
<1>4. \A i \in 1 .. len : s[i] \in Partials
  BY DEF len
<1>5. a \in Seq(Partials) /\ Len(a) = la /\ b \in Seq(Partials) /\ Len(b) = lb
  BY <1>1, <1>2, <1>4
<1>6. a # <<>> /\ b # <<>>
  BY <1>1, <1>5
<1>7. Range(a) \cup Range(b) = Range(s)
  <2>1. Range(a) = {s[2 * k] : k \in 1 .. la} /\ Range(b) = {s[2 * k - 1] : k \in 1 .. lb}
    BY <1>2 DEF Range
  <2>2. Range(s) = {s[i] : i \in 1 .. len}
    BY <1>1 DEF Range
  <2> QED
    BY <1>1, <1>3, <2>1, <2>2
<1>8. \A odd \in BOOLEAN : Split_stack(s, odd) = a \/ Split_stack(s, odd) = b
  BY DEF a, b
<1> QED
  BY <1>5, <1>6, <1>7, <1>8 DEF a, b

-----------------------------------------------------------------------------
(* The labels, and what the counters count.                                 *)

Idle == {"waiting", "woken", "done"}
Asleep == {"asleep1", "asleep2"}
Busy == {"assign", "test", "expand", "probe", "receive", "lock", "close"}

(* The first barrier keeps everybody behind thread 0, which measures. *)
MeasuredFirst ==
  /\ \A t \in Threads : pc[t] = "measure" => t = 0
  /\ pc[0] = "measure" => \A t \in Threads \ {0} : pc[t] \in {"enter1", "asleep1"}

(* A thread goes only when the problem is too small. *)
NobodyGone == queue_size # 0 => \A t \in Threads : pc[t] # "gone"

(* My_barrier counts the threads that sleep in it. *)
BarrierCounted == curr_tc = Cardinality({t \in Threads : pc[t] \in Asleep})

(* While the search goes on, a stack is on offer exactly as long as the one *)
(* thread that was signalled for it has not taken it.                       *)
OneIsWoken ==
  count < thread_count =>
    /\ \A t \in Threads : pc[t] # "done"
    /\ \A t, u \in Threads : pc[t] = "woken" /\ pc[u] = "woken" => t = u
    /\ offered # NULL <=> \E t \in Threads : pc[t] = "woken"

Calm == MeasuredFirst /\ NobodyGone /\ BarrierCounted /\ OneIsWoken

IInv ==
  /\ pc \in [Threads -> Labels] /\ spurious \in Nat
  /\ SleepersCounted
  /\ spurious = 0 => Calm

-----------------------------------------------------------------------------
(* Counting. *)

At(f, L) == {u \in Threads : f[u] \in L}

LEMMA ThreadsFinite ==
  /\ IsFiniteSet(Threads) /\ Cardinality(Threads) = thread_count
  /\ 0 \in Threads
BY TourAssumption, FS_Interval DEF Threads

(* How many threads are at a label of L, when only t moves in or out. *)
LEMMA OneMoves ==
  ASSUME NEW f, NEW g, NEW L, NEW t \in Threads,
         \A u \in Threads \ {t} : g[u] \in L <=> f[u] \in L
  PROVE  /\ Cardinality(At(f, L)) \in Nat
         /\ Cardinality(At(g, L))
              = Cardinality(At(f, L))
                  + (IF g[t] \in L THEN 1 ELSE 0) - (IF f[t] \in L THEN 1 ELSE 0)
<1> DEFINE F == {u \in Threads : f[u] \in L}
           G == {u \in Threads : g[u] \in L}
           Others == F \ {t}
<1>1. IsFiniteSet(F) /\ Cardinality(F) \in Nat
  BY ThreadsFinite, FS_Subset, FS_CardinalityType
<1>2. /\ IsFiniteSet(Others) /\ Cardinality(Others) \in Nat
      /\ Cardinality(Others) = IF t \in F THEN Cardinality(F) - 1 ELSE Cardinality(F)
  <2> HIDE DEF F
  <2> QED
    BY <1>1, FS_RemoveElement, FS_CardinalityType
<1>3. G = IF t \in G THEN Others \cup {t} ELSE Others
  OBVIOUS
<1>4. Cardinality(G) = Cardinality(Others) + (IF t \in G THEN 1 ELSE 0)
  <2>1. t \notin Others
    OBVIOUS
  <2> HIDE DEF Others, G
  <2>2. Cardinality(Others \cup {t}) = Cardinality(Others) + 1
    BY <1>2, <2>1, FS_AddElement
  <2>3. CASE t \in G
    BY <1>2, <1>3, <2>2, <2>3
  <2>4. CASE t \notin G
    BY <1>2, <1>3, <2>4
  <2> QED
    BY <2>3, <2>4
<1>5. (t \in F <=> f[t] \in L) /\ (t \in G <=> g[t] \in L)
  OBVIOUS
<1> HIDE DEF F, G, Others
<1>6. Cardinality(G) = Cardinality(F) + (IF g[t] \in L THEN 1 ELSE 0)
                                      - (IF f[t] \in L THEN 1 ELSE 0)
  BY <1>1, <1>2, <1>4, <1>5
<1> QED
  BY <1>1, <1>6 DEF F, G, At

(* With all threads at a label of L everybody is at one; with all but one, a *)
(* thread at another label is alone.                                         *)
LEMMA AllMove ==
  ASSUME NEW f, NEW L
  PROVE  /\ Cardinality(At(f, L)) \in 0 .. thread_count
         /\ Cardinality(At(f, L)) = thread_count
              => \A u \in Threads : f[u] \in L
         /\ \A t \in Threads :
              f[t] \notin L /\ Cardinality(At(f, L)) + 1 = thread_count
                => \A u \in Threads \ {t} : f[u] \in L
<1> DEFINE F == {u \in Threads : f[u] \in L}
<1>1. /\ IsFiniteSet(F) /\ Cardinality(F) \in Nat
      /\ Cardinality(F) <= thread_count
      /\ Cardinality(F) = thread_count => F = Threads
  BY ThreadsFinite, FS_Subset, FS_CardinalityType
<1>2. ASSUME NEW t \in Threads, f[t] \notin L, Cardinality(F) + 1 = thread_count
      PROVE  \A u \in Threads \ {t} : f[u] \in L
  <2>1. F \subseteq Threads \ {t}
    BY <1>2
  <2>2. IsFiniteSet(Threads \ {t}) /\ Cardinality(Threads \ {t}) = thread_count - 1
    BY ThreadsFinite, FS_RemoveElement
  <2>3. F = Threads \ {t}
    <3> HIDE DEF F
    <3> QED
      BY <1>1, <1>2, <2>1, <2>2, FS_Subset
  <2> QED
    BY <2>3
<1> QED
  BY <1>1, <1>2 DEF At

(* The count is that of some of the threads; a busy one is not among them. *)
LEMMA CountBounded ==
  ASSUME IInv
  PROVE  /\ count \in 0 .. thread_count
         /\ \A t \in Threads : pc[t] \notin Idle => count < thread_count
         /\ count = thread_count => \A t \in Threads : pc[t] \in Idle
<1>1. count = Cardinality(At(pc, Idle))
  BY DEF IInv, SleepersCounted, Idle, At
<1> QED
  BY <1>1, AllMove, TourAssumption

(* What the steps have in common: the counts follow the thread that moves.  *)
LEMMA Counts ==
  ASSUME IInv, NEW t \in Threads,
         \A u \in Threads \ {t} : pc'[u] \in Idle <=> pc[u] \in Idle,
         count' = count + (IF pc'[t] \in Idle THEN 1 ELSE 0)
                        - (IF pc[t] \in Idle THEN 1 ELSE 0)
  PROVE  SleepersCounted'
<1>1. count = Cardinality(At(pc, Idle))
  BY DEF IInv, SleepersCounted, Idle, At
<1>2. /\ Cardinality(At(pc, Idle)) \in Nat
      /\ Cardinality(At(pc', Idle)) = Cardinality(At(pc, Idle))
           + (IF pc'[t] \in Idle THEN 1 ELSE 0) - (IF pc[t] \in Idle THEN 1 ELSE 0)
  BY OneMoves
<1>3. count' = Cardinality(At(pc', Idle))
  BY <1>1, <1>2
<1> QED
  BY <1>3 DEF SleepersCounted, Idle, At

LEMMA PastBarriers ==
  ASSUME Calm, UNCHANGED <<queue_size, curr_tc>>,
         \A u \in Threads : pc'[u] = pc[u] \/ {pc[u], pc'[u]} \subseteq Busy \cup Idle
  PROVE  MeasuredFirst' /\ NobodyGone' /\ BarrierCounted'
<1>1. MeasuredFirst'
  BY ThreadsFinite DEF Calm, MeasuredFirst, Busy, Idle
<1>2. NobodyGone'
  BY DEF Calm, NobodyGone, Busy, Idle
<1>3. BarrierCounted'
  <2>1. \A u \in Threads : pc'[u] \in Asleep <=> pc[u] \in Asleep
    BY DEF Busy, Idle, Asleep
  <2>2. {u \in Threads : pc'[u] \in Asleep} = {u \in Threads : pc[u] \in Asleep}
    BY <2>1
  <2> QED
    BY <2>2 DEF Calm, BarrierCounted
<1> QED
  BY <1>1, <1>2, <1>3

(* The search and the stacks of a busy thread disturb nothing. *)
LEMMA Quiet ==
  ASSUME IInv, NEW t \in Threads, pc[t] \in Busy, NEW l \in Busy,
         pc' = [pc EXCEPT ![t] = l],
         UNCHANGED <<queue_size, curr_tc, offered, count, spurious>>
  PROVE  IInv'
<1> USE DEF IInv
<1>1. /\ pc' \in [Threads -> Labels] /\ pc'[t] = l
      /\ \A u \in Threads \ {t} : pc'[u] = pc[u]
      /\ count \in Nat
  BY CountBounded DEF Busy, Labels
<1>2. SleepersCounted'
  <2>1. pc'[t] \notin Idle /\ pc[t] \notin Idle
    BY <1>1 DEF Busy, Idle
  <2> QED
    BY <1>1, <2>1, Counts
<1>3. ASSUME Calm PROVE Calm'
  <2>1. MeasuredFirst' /\ NobodyGone' /\ BarrierCounted'
    BY <1>1, <1>3, PastBarriers
  <2>2. OneIsWoken'
    BY <1>1, <1>3 DEF Calm, OneIsWoken, Busy
  <2> QED
    BY <2>1, <2>2 DEF Calm
<1> QED
  BY <1>1, <1>2, <1>3

-----------------------------------------------------------------------------
(* The partition. *)

LEMMA MeasureStep ==
  ASSUME IInv, NEW t \in Threads, Measure(t)
  PROVE  IInv'
<1> USE DEF IInv, Measure, Goto, partition, term
<1>1. /\ pc' \in [Threads -> Labels] /\ pc[t] = "measure" /\ pc'[t] = "enter1"
      /\ \A u \in Threads \ {t} : pc'[u] = pc[u]
      /\ UNCHANGED <<count, offered, curr_tc, spurious>> /\ count \in Nat
  BY CountBounded DEF Labels
<1>2. SleepersCounted'
  BY <1>1, Counts DEF Idle
<1>3. ASSUME Calm PROVE Calm'
  <2>1. t = 0 /\ \A u \in Threads \ {t} : pc[u] \in {"enter1", "asleep1"}
    BY <1>1, <1>3 DEF Calm, MeasuredFirst
  <2>2. MeasuredFirst' /\ NobodyGone'
    BY <1>1, <2>1 DEF MeasuredFirst, NobodyGone
  <2>3. BarrierCounted'
    <3>1. {u \in Threads : pc'[u] \in Asleep} = {u \in Threads : pc[u] \in Asleep}
      BY <1>1 DEF Asleep
    <3> QED
      BY <1>1, <1>3, <3>1 DEF Calm, BarrierCounted
  <2>4. OneIsWoken'
    BY <1>1, <1>3 DEF Calm, OneIsWoken
  <2> QED
    BY <2>2, <2>3, <2>4 DEF Calm
<1> QED
  BY <1>1, <1>2, <1>3

(* Whoever completes the number is the only one awake, and thread 0 is not  *)
(* asleep before it has measured.                                           *)
LEMMA BarrierStep ==
  ASSUME IInv, NEW t \in Threads,
         NEW enter \in {"enter1", "enter2"}, NEW asleep \in Asleep,
         enter = "enter1" => asleep = "asleep1", NEW next \in {"sized", "assign"},
         Barrier(t, enter, asleep, next)
  PROVE  IInv'
<1> USE DEF IInv
<1>1. /\ pc[t] = enter
      /\ UNCHANGED <<queue_size, offered, count, spurious>> /\ count \in Nat
  BY CountBounded DEF Barrier, term
<1>2. CASE curr_tc + 1 = thread_count
  <2>1. /\ curr_tc' = 0
        /\ pc' = [u \in Threads |->
               IF u = t THEN next
               ELSE CASE pc[u] = "asleep1" -> "sized"
                      [] pc[u] = "asleep2" -> "assign"
                      [] OTHER -> pc[u]]
    BY <1>2 DEF Barrier
  <2>2. /\ pc' \in [Threads -> Labels] /\ pc'[t] = next
        /\ \A u \in Threads : pc'[u] \notin Asleep
        /\ \A u \in Threads \ {t} : IF pc[u] \in Asleep
                                    THEN pc'[u] \in {"sized", "assign"}
                                    ELSE pc'[u] = pc[u]
    BY <2>1 DEF Labels, Asleep
  <2>3. SleepersCounted'
    BY <1>1, <2>2, Counts DEF Idle, Asleep
  <2>4. ASSUME Calm PROVE Calm'
    <3>1. \A u \in Threads \ {t} : pc[u] \in Asleep
      <4>1. curr_tc = Cardinality(At(pc, Asleep))
        BY <2>4 DEF Calm, BarrierCounted, At
      <4> QED
        BY <1>1, <1>2, <4>1, AllMove DEF Asleep
    <3>2. MeasuredFirst' /\ NobodyGone'
      BY <2>2, <3>1, ThreadsFinite DEF MeasuredFirst, NobodyGone
    <3>3. BarrierCounted'
      <4>1. {u \in Threads : pc'[u] \in Asleep} = {}
        BY <2>2
      <4> QED
        BY <2>1, <4>1, FS_EmptySet DEF BarrierCounted
    <3>4. OneIsWoken'
      BY <1>1, <2>2, <2>4 DEF Calm, OneIsWoken, Asleep
    <3> QED
      BY <3>2, <3>3, <3>4 DEF Calm
  <2> QED
    BY <1>1, <2>2, <2>3, <2>4
<1>3. CASE curr_tc + 1 # thread_count
  <2>1. /\ curr_tc' = curr_tc + 1
        /\ pc' \in [Threads -> Labels] /\ pc'[t] = asleep
        /\ \A u \in Threads \ {t} : pc'[u] = pc[u]
    BY <1>3 DEF Barrier, Goto, Labels, Asleep
  <2>2. SleepersCounted'
    BY <1>1, <2>1, Counts DEF Idle, Asleep
  <2>3. ASSUME Calm PROVE Calm'
    <3>1. MeasuredFirst' /\ NobodyGone'
      BY <1>1, <2>1, <2>3, ThreadsFinite DEF Calm, MeasuredFirst, NobodyGone, Asleep
    <3>2. BarrierCounted'
      <4>1. curr_tc = Cardinality(At(pc, Asleep))
        BY <2>3 DEF Calm, BarrierCounted, At
      <4>2. /\ Cardinality(At(pc, Asleep)) \in Nat
            /\ Cardinality(At(pc', Asleep)) = Cardinality(At(pc, Asleep)) + 1 - 0
        <5>1. /\ pc[t] \notin Asleep /\ pc'[t] \in Asleep
              /\ \A u \in Threads \ {t} : pc'[u] \in Asleep <=> pc[u] \in Asleep
          BY <1>1, <2>1 DEF Asleep
        <5> QED
          BY <5>1, OneMoves
      <4>3. curr_tc' = Cardinality(At(pc', Asleep))
        BY <2>1, <4>1, <4>2
      <4> QED
        BY <4>3 DEF BarrierCounted, At
    <3>3. OneIsWoken'
      BY <1>1, <2>1, <2>3 DEF Calm, OneIsWoken, Asleep
    <3> QED
      BY <3>1, <3>2, <3>3 DEF Calm
  <2> QED
    BY <1>1, <2>1, <2>2, <2>3
<1> QED
  BY <1>2, <1>3

LEMMA SizedStep ==
  ASSUME IInv, NEW t \in Threads, Sized(t)
  PROVE  IInv'
<1> USE DEF IInv, Sized, Goto, term
<1>1. /\ pc' \in [Threads -> Labels] /\ pc[t] = "sized"
      /\ pc'[t] \in {"gone", "enter2"} /\ (pc'[t] = "gone" => queue_size = 0)
      /\ \A u \in Threads \ {t} : pc'[u] = pc[u]
      /\ UNCHANGED <<queue_size, curr_tc, count, offered, spurious>> /\ count \in Nat
  BY CountBounded DEF Labels
<1>2. SleepersCounted'
  BY <1>1, Counts DEF Idle
<1>3. ASSUME Calm PROVE Calm'
  <2>1. MeasuredFirst' /\ NobodyGone'
    BY <1>1, <1>3, ThreadsFinite DEF Calm, MeasuredFirst, NobodyGone
  <2>2. BarrierCounted'
    <3>1. {u \in Threads : pc'[u] \in Asleep} = {u \in Threads : pc[u] \in Asleep}
      BY <1>1 DEF Asleep
    <3> QED
      BY <1>1, <1>3, <3>1 DEF Calm, BarrierCounted
  <2>3. OneIsWoken'
    BY <1>1, <1>3 DEF Calm, OneIsWoken
  <2> QED
    BY <2>1, <2>2, <2>3 DEF Calm
<1> QED
  BY <1>1, <1>2, <1>3

-----------------------------------------------------------------------------
(* The sharing of work. *)

LEMMA PoppedIsBusy == \A s : Popped(s) \in Busy
BY DEF Popped, Busy

(* Nobody is woken while no stack is on offer, so a signal finds a waiter:  *)
(* with count > 0 somebody is idle, and nobody has ended.                   *)
LEMMA OfferStep ==
  ASSUME IInv, NEW t \in Threads, Offer(t)
  PROVE  IInv'
<1> USE DEF IInv
<1> DEFINE kept == Split_stack(stack[t], FALSE)
           waiters == {u \in Threads : pc[u] = "waiting"}
           next == [pc EXCEPT ![t] = Popped(kept)]
<1>1. /\ pc[t] = "test" /\ count > 0 /\ offered = NULL /\ offered' # NULL
      /\ \/ waiters = {} /\ pc' = next
         \/ \E u \in waiters : pc' = [next EXCEPT ![u] = "woken"]
      /\ UNCHANGED <<queue_size, curr_tc, count, spurious>>
  BY DEF Offer, CanSplit, NULL, partition
<1>2. next \in [Threads -> Labels] /\ next[t] \in Busy
      /\ \A u \in Threads \ {t} : next[u] = pc[u]
  BY PoppedIsBusy DEF Busy, Labels
<1> HIDE DEF next
<1>3. /\ pc' \in [Threads -> Labels] /\ pc'[t] \in Busy
      /\ \A u \in Threads \ {t} :
           pc'[u] = pc[u] \/ (pc[u] = "waiting" /\ pc'[u] = "woken")
  <2>1. CASE pc' = next
    BY <1>2, <2>1
  <2>2. ASSUME NEW u \in waiters, pc' = [next EXCEPT ![u] = "woken"]
        PROVE  /\ pc' \in [Threads -> Labels] /\ pc'[t] \in Busy
               /\ \A v \in Threads \ {t} :
                    pc'[v] = pc[v] \/ (pc[v] = "waiting" /\ pc'[v] = "woken")
    <3>1. u \in Threads /\ u # t /\ pc[u] = "waiting" /\ "woken" \in Labels
      BY <1>1 DEF Labels
    <3> QED
      BY <1>2, <2>2, <3>1
  <2> QED
    BY <1>1, <2>1, <2>2
<1>4. count \in Nat /\ count < thread_count
  BY <1>1, CountBounded DEF Idle
<1>5. SleepersCounted'
  <2>1. pc[t] \notin Idle /\ pc'[t] \notin Idle
        /\ \A u \in Threads \ {t} : pc'[u] \in Idle <=> pc[u] \in Idle
    BY <1>1, <1>3 DEF Idle, Busy
  <2> QED
    BY <1>1, <1>4, <2>1, Counts
<1>6. ASSUME Calm PROVE Calm'
  <2>1. MeasuredFirst' /\ NobodyGone' /\ BarrierCounted'
    <3>1. pc[t] \in Busy
      BY <1>1 DEF Busy
    <3>2. \A u \in Threads : pc'[u] = pc[u] \/ {pc[u], pc'[u]} \subseteq Busy \cup Idle
      BY <1>3, <3>1 DEF Idle
    <3> QED
      BY <1>1, <1>6, <3>2, PastBarriers
  <2>2. /\ \A u \in Threads : pc[u] # "woken" /\ pc[u] # "done"
    BY <1>1, <1>4, <1>6 DEF Calm, OneIsWoken
  <2>3. waiters # {}
    <3>1. SUFFICES ASSUME waiters = {} PROVE FALSE
      OBVIOUS
    <3>2. {u \in Threads : pc[u] \in {"waiting", "woken", "done"}} = {}
      BY <2>2, <3>1
    <3> QED
      BY <1>1, <3>2, FS_EmptySet DEF SleepersCounted
  <2>4. PICK u \in waiters : pc' = [next EXCEPT ![u] = "woken"]
    BY <1>1, <2>3
  <2>5. pc'[u] = "woken" /\ \A v \in Threads \ {u} : pc'[v] \notin {"woken", "done"}
    BY <1>2, <2>2, <2>4 DEF Busy
  <2>6. OneIsWoken'
    BY <1>1, <2>5 DEF OneIsWoken
  <2> QED
    BY <2>1, <2>6 DEF Calm
<1> QED
  BY <1>1, <1>3, <1>5, <1>6

(* The end is announced when everybody else sleeps: all are idle from then. *)
LEMMA LastOneStep ==
  ASSUME IInv, NEW t \in Threads, LastOne(t)
  PROVE  IInv'
<1> USE DEF IInv
<1>1. /\ pc[t] = "test" /\ count' = count + 1 /\ count' = thread_count
      /\ pc' = [u \in Threads |->
           IF u = t THEN "done" ELSE IF pc[u] = "waiting" THEN "woken" ELSE pc[u]]
      /\ UNCHANGED <<queue_size, curr_tc, spurious>> /\ count \in Nat
  BY CountBounded, TourAssumption DEF LastOne, partition
<1>2. pc' \in [Threads -> Labels]
  BY <1>1 DEF Labels
<1>3. /\ pc[t] \notin Idle /\ pc'[t] \in Idle
      /\ \A u \in Threads \ {t} : pc'[u] \in Idle <=> pc[u] \in Idle
  BY <1>1 DEF Idle
<1>4. SleepersCounted'
  BY <1>1, <1>3, Counts
<1>5. ASSUME Calm PROVE Calm'
  <2>1. MeasuredFirst' /\ NobodyGone' /\ BarrierCounted'
    <3>1. \A u \in Threads : pc'[u] = pc[u] \/ {pc[u], pc'[u]} \subseteq Busy \cup Idle
      BY <1>1 DEF Busy, Idle
    <3> QED
      BY <1>1, <1>5, <3>1, PastBarriers
  <2>2. OneIsWoken'
    BY <1>1 DEF OneIsWoken
  <2> QED
    BY <2>1, <2>2 DEF Calm
<1> QED
  BY <1>1, <1>2, <1>4, <1>5

LEMMA WaitStep ==
  ASSUME IInv, NEW t \in Threads, Wait(t)
  PROVE  IInv'
<1> USE DEF IInv
<1>1. /\ pc[t] = "test" /\ pc'[t] = "waiting" /\ pc' \in [Threads -> Labels]
      /\ \A u \in Threads \ {t} : pc'[u] = pc[u]
      /\ count' = count + 1 /\ UNCHANGED <<queue_size, curr_tc, offered, spurious>>
      /\ count \in Nat /\ count < thread_count
  BY CountBounded DEF Wait, Goto, partition, Labels, Idle
<1>2. SleepersCounted'
  <2>1. pc[t] \notin Idle /\ pc'[t] \in Idle
    BY <1>1 DEF Idle
  <2> QED
    BY <1>1, <2>1, Counts
<1>3. ASSUME Calm PROVE Calm'
  <2>1. MeasuredFirst' /\ NobodyGone' /\ BarrierCounted'
    <3>1. \A u \in Threads : pc'[u] = pc[u] \/ {pc[u], pc'[u]} \subseteq Busy \cup Idle
      BY <1>1 DEF Busy, Idle
    <3> QED
      BY <1>1, <1>3, <3>1, PastBarriers
  <2>2. OneIsWoken'
    BY <1>1, <1>3 DEF Calm, OneIsWoken
  <2> QED
    BY <2>1, <2>2 DEF Calm
<1> QED
  BY <1>1, <1>2, <1>3

(* The one that was woken takes the stack: it is the only one. *)
LEMMA TakeOfferStep ==
  ASSUME IInv, NEW t \in Threads, TakeOffer(t)
  PROVE  IInv'
<1> USE DEF IInv
<1>1. /\ pc[t] = "woken" /\ pc'[t] \in Busy /\ pc' \in [Threads -> Labels]
      /\ \A u \in Threads \ {t} : pc'[u] = pc[u]
      /\ count' = count - 1 /\ offered' = NULL
      /\ UNCHANGED <<queue_size, curr_tc, spurious>>
      /\ count \in Nat /\ count < thread_count
  <2>1. Popped(offered[1]) \in Busy /\ Busy \subseteq Labels
    BY PoppedIsBusy DEF Busy, Labels
  <2> QED
    BY <2>1, CountBounded DEF TakeOffer, Goto, partition
<1>2. SleepersCounted'
  <2>1. pc[t] \in Idle /\ pc'[t] \notin Idle
    BY <1>1 DEF Idle, Busy
  <2> QED
    BY <1>1, <2>1, Counts
<1>3. ASSUME Calm PROVE Calm'
  <2>1. MeasuredFirst' /\ NobodyGone' /\ BarrierCounted'
    <3>1. \A u \in Threads : pc'[u] = pc[u] \/ {pc[u], pc'[u]} \subseteq Busy \cup Idle
      BY <1>1 DEF Idle
    <3> QED
      BY <1>1, <1>3, <3>1, PastBarriers
  <2>2. OneIsWoken'
    BY <1>1, <1>3 DEF Calm, OneIsWoken, Busy
  <2> QED
    BY <2>1, <2>2 DEF Calm
<1> QED
  BY <1>1, <1>2, <1>3

(* Only after a spurious wakeup is there nothing to take. *)
LEMMA NoWorkAvailStep ==
  ASSUME IInv, NEW t \in Threads, NoWorkAvail(t)
  PROVE  IInv'
<1> USE DEF IInv
<1>1. /\ pc[t] = "woken" /\ pc'[t] = "gone" /\ pc' \in [Threads -> Labels]
      /\ \A u \in Threads \ {t} : pc'[u] = pc[u]
      /\ count' = count - 1 /\ offered = NULL
      /\ UNCHANGED spurious
      /\ count \in Nat /\ count < thread_count
  BY CountBounded DEF NoWorkAvail, Goto, Labels
<1>2. SleepersCounted'
  <2>1. pc[t] \in Idle /\ pc'[t] \notin Idle
    BY <1>1 DEF Idle
  <2> QED
    BY <1>1, <2>1, Counts
<1>3. ~Calm
  BY <1>1 DEF Calm, OneIsWoken
<1> QED
  BY <1>1, <1>2, <1>3

LEMMA AllDoneStep ==
  ASSUME IInv, NEW t \in Threads, AllDone(t)
  PROVE  IInv'
<1> USE DEF IInv
<1>1. /\ pc[t] = "woken" /\ pc'[t] = "done" /\ pc' \in [Threads -> Labels]
      /\ \A u \in Threads \ {t} : pc'[u] = pc[u]
      /\ UNCHANGED <<queue_size, curr_tc, offered, count, spurious>>
      /\ count \in Nat /\ count >= thread_count
  BY CountBounded DEF AllDone, Goto, partition, term, Labels
<1>2. SleepersCounted'
  <2>1. pc[t] \in Idle /\ pc'[t] \in Idle
    BY <1>1 DEF Idle
  <2> QED
    BY <1>1, <2>1, Counts
<1>3. ASSUME Calm PROVE Calm'
  <2>1. MeasuredFirst' /\ NobodyGone' /\ BarrierCounted'
    <3>1. \A u \in Threads : pc'[u] = pc[u] \/ {pc[u], pc'[u]} \subseteq Busy \cup Idle
      BY <1>1 DEF Idle
    <3> QED
      BY <1>1, <1>3, <3>1, PastBarriers
  <2>2. OneIsWoken'
    BY <1>1, TourAssumption DEF OneIsWoken
  <2> QED
    BY <2>1, <2>2 DEF Calm
<1> QED
  BY <1>1, <1>2, <1>3

LEMMA SpuriousWakeupStep ==
  ASSUME IInv, NEW t \in Threads, SpuriousWakeup(t)
  PROVE  IInv'
<1> USE DEF IInv
<1>1. /\ spurious' = spurious + 1 /\ count' = count /\ count \in Nat
      /\ pc' \in [Threads -> Labels]
      /\ \A u \in Threads \ {t} : pc'[u] = pc[u]
      /\ \/ pc[t] = "waiting" /\ pc'[t] = "woken"
         \/ pc[t] = "asleep1" /\ pc'[t] = "sized"
         \/ pc[t] = "asleep2" /\ pc'[t] = "assign"
  BY CountBounded DEF SpuriousWakeup, Goto, term, Labels
<1>2. SleepersCounted'
  <2>1. pc[t] \in Idle <=> pc'[t] \in Idle
    BY <1>1 DEF Idle
  <2> QED
    BY <1>1, <2>1, Counts
<1> QED
  BY <1>1, <1>2

-----------------------------------------------------------------------------
LEMMA InitHolds == Init => IInv
<1> SUFFICES ASSUME Init PROVE IInv
  OBVIOUS
<1>1. /\ pc \in [Threads -> Labels]
      /\ \A t \in Threads : pc[t] \in {"measure", "enter1"}
      /\ \A t \in Threads : pc[t] = "measure" <=> t = 0
  BY DEF Init, Labels
<1>2. /\ {t \in Threads : pc[t] \in {"waiting", "woken", "done"}} = {}
      /\ {t \in Threads : pc[t] \in Asleep} = {}
  BY <1>1 DEF Asleep
<1>3. SleepersCounted /\ BarrierCounted
  BY <1>2, FS_EmptySet DEF Init, SleepersCounted, BarrierCounted
<1>4. MeasuredFirst /\ NobodyGone /\ OneIsWoken
  BY <1>1 DEF Init, MeasuredFirst, NobodyGone, OneIsWoken
<1> QED
  BY <1>1, <1>3, <1>4 DEF Init, IInv, Calm

(* The steps of the search leave the partition and term alone. *)
LEMMA SearchStep ==
  ASSUME IInv, NEW t \in Threads, Search(t)
  PROVE  IInv'
<1> USE DEF partition, term
<1>1. pc = [pc EXCEPT ![t] = pc[t]]
  BY DEF IInv
<1>2. ASSUME NEW l \in Busy, pc[t] \in Busy, pc' = [pc EXCEPT ![t] = l],
             UNCHANGED <<partition, term, spurious>>
      PROVE  IInv'
  BY <1>2, Quiet
<1>3. CASE Expand(t)
  BY <1>1, <1>2, <1>3 DEF Expand, Free_tour, Goto, Busy
<1>4. CASE BestTour(t)
  BY <1>2, <1>4 DEF BestTour, Free_tour, Goto, Busy
<1>5. CASE Probe(t)
  BY <1>2, <1>5 DEF Probe, Goto, Busy
<1>6. CASE Receive(t)
  BY <1>2, <1>6 DEF Receive, Goto, Busy
<1>7. CASE Lock(t)
  BY <1>2, <1>7 DEF Lock, Goto, Busy
<1>8. CASE CloseTour(t)
  BY <1>2, <1>8 DEF CloseTour, Free_tour, Goto, Busy
<1> QED
  BY <1>3, <1>4, <1>5, <1>6, <1>7, <1>8 DEF Search

LEMMA StepKeeps == IInv /\ [Next]_vars => IInv'
<1> SUFFICES ASSUME IInv, [Next]_vars PROVE IInv'
  OBVIOUS
<1>1. ASSUME NEW t \in Threads, Partition(t) PROVE IInv'
  <2>1. CASE Measure(t)
    BY <2>1, MeasureStep
  <2>2. CASE Barrier1(t)
    BY <2>2, BarrierStep DEF Barrier1, Asleep
  <2>3. CASE Sized(t)
    BY <2>3, SizedStep
  <2>4. CASE Barrier2(t)
    BY <2>4, BarrierStep DEF Barrier2, Asleep
  <2>5. CASE Assign(t)
    BY <2>5, Quiet DEF Assign, Goto, Busy, partition, term
  <2> QED
    BY <1>1, <2>1, <2>2, <2>3, <2>4, <2>5 DEF Partition
<1>2. ASSUME NEW t \in Threads, Terminated(t) PROVE IInv'
  <2>1. CASE Proceed(t)
    <3>1. Popped(stack[t]) \in Busy
      BY PoppedIsBusy
    <3> QED
      BY <2>1, <3>1, Quiet DEF Proceed, Goto, Busy, partition, term
  <2>2. CASE Offer(t)
    BY <2>2, OfferStep
  <2>3. CASE LastOne(t)
    BY <2>3, LastOneStep
  <2>4. CASE Wait(t)
    BY <2>4, WaitStep
  <2>5. CASE TakeOffer(t)
    BY <2>5, TakeOfferStep
  <2>6. CASE NoWorkAvail(t)
    BY <2>6, NoWorkAvailStep
  <2>7. CASE AllDone(t)
    BY <2>7, AllDoneStep
  <2> QED
    BY <1>2, <2>1, <2>2, <2>3, <2>4, <2>5, <2>6, <2>7 DEF Terminated
<1>3. ASSUME NEW t \in Threads, Search(t) PROVE IInv'
  BY <1>3, SearchStep
<1>4. ASSUME NEW t \in Threads, SpuriousWakeup(t) PROVE IInv'
  BY <1>4, SpuriousWakeupStep
<1>5. ASSUME UNCHANGED <<partition, pc, term, spurious>> PROVE IInv'
  BY <1>5 DEF IInv, Calm, MeasuredFirst, NobodyGone, BarrierCounted, OneIsWoken,
              SleepersCounted, partition, term
<1>6. ASSUME NEW p \in Peers, CostArrives(p) PROVE IInv'
  BY <1>5, <1>6 DEF CostArrives
<1>7. CASE UNCHANGED vars
  BY <1>5, <1>7 DEF vars
<1> QED
  BY <1>1, <1>2, <1>3, <1>4, <1>6, <1>7 DEF Next, Par_tree_search

-----------------------------------------------------------------------------
(* The types of the variables.                                              *)

Before == {"measure", "enter1", "asleep1", "sized", "enter2", "asleep2", "assign"}
Resting == Before \cup Idle \cup {"gone"}

Typed ==
  /\ queue_size \in Nat /\ queue \in Seq(Partials)
  /\ curr_tc \in 0 .. (thread_count - 1)
  /\ pc \in [Threads -> Labels]
  /\ stack \in [Threads -> Seq(Partials)]
  /\ curr_tour \in [Threads -> Partials \cup {<<>>}]
  /\ nbr \in [Threads -> Cities]
  /\ source \in [Threads -> Peers \cup {Nobody}]
  /\ best \in Seq(Cities)
  /\ best_mutex \in Threads \cup {Nobody}
  /\ inbox \in [Peers -> Nat] /\ costs_sent \in [Peers -> 0 .. MaxCosts]
  /\ spurious \in 0 .. MaxSpurious
  /\ misled \in BOOLEAN

OfferedType ==
  \/ offered = NULL
  \/ offered = <<offered[1]>> /\ offered[1] \in Seq(Partials) /\ offered[1] # <<>>

(* What a thread holds at a label: a whole tour while it looks for the best *)
(* one, a city to go to while it expands a tour, and no stack as long as it *)
(* has nothing to do.                                                       *)
Fits(label, s, tour, city, peer) ==
  /\ label \in {"probe", "receive", "lock", "close"}
       => tour \in Partials /\ Len(tour) = n
  /\ label = "expand"
       => tour \in Partials /\ Len(tour) < n /\ city \in Unvisited(tour, n)
  /\ label \in Resting => s = <<>>
  /\ label = "receive" => peer \in Peers

Fitting ==
  \A t \in Threads : Fits(pc[t], stack[t], curr_tour[t], nbr[t], source[t])

(* The best tour is open exactly while the holder of its mutex closes it.   *)
Guarded ==
  /\ best = <<>> \/ Len(best) \in {n, n + 1}
  /\ Open <=> \E t \in Threads : pc[t] = "close"
  /\ \A t \in Threads : pc[t] = "close" => best_mutex = t /\ best = curr_tour[t]
  /\ \A t \in Threads : best_mutex = t => pc[t] \in {"probe", "receive", "close"}

TInv == Typed /\ OfferedType /\ Fitting /\ Guarded

(* The best tour and its mutex stay, and no thread that has it lets go.     *)
LEMMA GuardKept ==
  ASSUME Guarded, UNCHANGED <<best, best_mutex>>,
         \A u \in Threads :
           \/ pc'[u] = pc[u] /\ curr_tour'[u] = curr_tour[u]
           \/ /\ pc[u] # "close" /\ pc'[u] # "close"
              /\ best_mutex = u => pc'[u] \in {"probe", "receive"}
  PROVE  Guarded'
<1>1. Open' <=> Open
  BY DEF Open
<1>2. (\E t \in Threads : pc'[t] = "close") <=> (\E t \in Threads : pc[t] = "close")
  OBVIOUS
<1>3. \A t \in Threads : pc'[t] = "close" => best_mutex' = t /\ best' = curr_tour'[t]
  BY DEF Guarded
<1>4. \A t \in Threads : best_mutex' = t => pc'[t] \in {"probe", "receive", "close"}
  BY DEF Guarded
<1> QED
  BY <1>1, <1>2, <1>3, <1>4 DEF Guarded

(* One thread changes what it holds; the others go on resting.              *)
LEMMA OthersFit ==
  ASSUME Fitting, NEW t \in Threads,
         Fits(pc'[t], stack'[t], curr_tour'[t], nbr'[t], source'[t]),
         \A u \in Threads \ {t} :
           /\ stack'[u] = stack[u] /\ curr_tour'[u] = curr_tour[u]
           /\ nbr'[u] = nbr[u] /\ source'[u] = source[u]
           /\ pc'[u] = pc[u] \/ {pc[u], pc'[u]} \subseteq Resting
  PROVE  Fitting'
<1>1. ASSUME NEW u \in Threads \ {t}
      PROVE  Fits(pc'[u], stack'[u], curr_tour'[u], nbr'[u], source'[u])
  <2>1. Fits(pc[u], stack[u], curr_tour[u], nbr[u], source[u])
    BY DEF Fitting
  <2>2. CASE pc'[u] = pc[u]
    BY <2>1, <2>2
  <2>3. CASE {pc[u], pc'[u]} \subseteq Resting
    BY <2>1, <2>3 DEF Fits, Resting, Before, Idle
  <2> QED
    BY <2>2, <2>3
<1> QED
  BY <1>1 DEF Fitting

(* The steps of threads without a tour, which change labels and counters.   *)
LEMMA LabelStep ==
  ASSUME TInv, UNCHANGED <<search, bound, mpi, offered>>,
         pc' \in [Threads -> Labels], queue_size' \in Nat, queue' \in Seq(Partials),
         curr_tc' \in 0 .. (thread_count - 1), spurious' \in 0 .. MaxSpurious,
         \A u \in Threads : \/ pc'[u] = pc[u]
                            \/ /\ pc[u] \in Resting \cup {"test"} /\ pc'[u] \in Resting
                               /\ stack[u] = <<>>
  PROVE  TInv'
<1> USE DEF search, bound, mpi
<1>1. Typed'
  BY DEF TInv, Typed
<1>2. OfferedType'
  BY DEF TInv, OfferedType
<1>3. Fitting'
  <2> SUFFICES ASSUME NEW u \in Threads
               PROVE  Fits(pc'[u], stack'[u], curr_tour'[u], nbr'[u], source'[u])
    BY DEF Fitting
  <2>1. Fits(pc[u], stack[u], curr_tour[u], nbr[u], source[u])
    BY DEF TInv, Fitting
  <2>2. CASE pc'[u] = pc[u]
    BY <2>1, <2>2
  <2>3. CASE pc'[u] \in Resting /\ stack[u] = <<>>
    BY <2>3 DEF Fits, Resting, Before, Idle
  <2> QED
    BY <2>2, <2>3
<1>4. Guarded'
  <2>1. \A l \in Resting \cup {"test"} : l \notin {"probe", "receive", "close"}
    BY DEF Resting, Before, Idle
  <2>2. \A u \in Threads :
          \/ pc'[u] = pc[u] /\ curr_tour'[u] = curr_tour[u]
          \/ /\ pc[u] # "close" /\ pc'[u] # "close"
             /\ best_mutex = u => pc'[u] \in {"probe", "receive"}
    BY <2>1 DEF TInv, Guarded
  <2> QED
    BY <2>2, GuardKept DEF TInv
<1> QED
  BY <1>1, <1>2, <1>3, <1>4 DEF TInv

(* A thread pops a tour of its own or of the offered stack.                 *)
LEMMA PopStep ==
  ASSUME TInv, NEW t \in Threads, NEW s \in Seq(Partials), s # <<>>, Pop(t, s),
         UNCHANGED <<partition, bound, mpi, spurious>>,
         pc' \in [Threads -> Labels], pc[t] \in {"test", "woken"}, pc'[t] = Popped(s),
         \A u \in Threads \ {t} : pc'[u] = pc[u] \/ {pc[u], pc'[u]} \subseteq Idle,
         OfferedType'
  PROVE  TInv'
<1> DEFINE tour == Last(s)
<1>1. tour \in Partials /\ Front(s) \in Seq(Partials) /\ Len(tour) \in 1 .. n
  BY PopStack, PartialIs
<1>2. /\ stack' = [stack EXCEPT ![t] = Front(s)]
      /\ curr_tour' = [curr_tour EXCEPT ![t] = tour]
      /\ nbr' = [nbr EXCEPT ![t] = Next_nbr(tour, n)]
  BY DEF Pop
<1>3. /\ Next_nbr(tour, n) \in Cities
      /\ Len(tour) < n => Next_nbr(tour, n) \in Unvisited(tour, n)
  BY <1>1, NextNbr, SomewhereToGo, TheCities
<1>4. pc'[t] = IF Len(tour) = n THEN "probe" ELSE "expand"
  BY DEF Popped
<1> HIDE DEF tour
<1>5. Typed'
  BY <1>1, <1>2, <1>3 DEF TInv, Typed, partition, bound, mpi
<1>6. Fitting'
  <2>1. Fits(pc'[t], stack'[t], curr_tour'[t], nbr'[t], source'[t])
    <3>1. curr_tour'[t] = tour /\ nbr'[t] = Next_nbr(tour, n)
      BY <1>2 DEF TInv, Typed
    <3>2. Len(tour) = n \/ Len(tour) < n
      BY <1>1, TheCities
    <3> QED
      BY <1>1, <1>3, <1>4, <3>1, <3>2 DEF Fits, Resting, Before, Idle
  <2>2. \A u \in Threads \ {t} :
          /\ stack'[u] = stack[u] /\ curr_tour'[u] = curr_tour[u]
          /\ nbr'[u] = nbr[u] /\ source'[u] = source[u]
          /\ pc'[u] = pc[u] \/ {pc[u], pc'[u]} \subseteq Resting
    BY <1>2 DEF TInv, Typed, Resting, mpi
  <2> QED
    BY <2>1, <2>2, OthersFit DEF TInv
<1>7. Guarded'
  <2>1. \A u \in Threads :
          \/ pc'[u] = pc[u] /\ curr_tour'[u] = curr_tour[u]
          \/ /\ pc[u] # "close" /\ pc'[u] # "close"
             /\ best_mutex = u => pc'[u] \in {"probe", "receive"}
    <3> TAKE u \in Threads
    <3>1. CASE u = t
      BY <1>4, <3>1 DEF TInv, Guarded
    <3>2. CASE u # t
      <4>1. curr_tour'[u] = curr_tour[u]
        BY <1>2, <3>2 DEF TInv, Typed
      <4>2. CASE pc'[u] = pc[u]
        BY <4>1, <4>2
      <4>3. CASE {pc[u], pc'[u]} \subseteq Idle
        BY <4>3 DEF TInv, Guarded, Idle
      <4> QED
        BY <3>2, <4>2, <4>3
    <3> QED
      BY <3>1, <3>2
  <2> QED
    BY <2>1, GuardKept DEF TInv, bound
<1> QED
  BY <1>5, <1>6, <1>7 DEF TInv

(* The partition of the tree keeps the types.                               *)
LEMMA PartitionTypes ==
  ASSUME IInv, IInv', TInv, NEW t \in Threads, Partition(t)
  PROVE  TInv'
<1>1. pc' \in [Threads -> Labels] /\ pc \in [Threads -> Labels]
  BY DEF IInv
<1>2. /\ queue_size \in Nat /\ queue \in Seq(Partials)
      /\ curr_tc \in 0 .. (thread_count - 1) /\ spurious \in 0 .. MaxSpurious
      /\ stack \in [Threads -> Seq(Partials)]
      /\ \A u \in Threads : pc[u] \in Resting => stack[u] = <<>>
  BY DEF TInv, Typed, Fitting, Fits
<1>3. CASE Measure(t)
  <2>1. /\ queue_size' \in Nat /\ UNCHANGED <<queue, curr_tc, spurious, search, bound, mpi, offered>>
        /\ pc[t] = "measure" /\ pc' = [pc EXCEPT ![t] = "enter1"]
    BY <1>3, QueueSizeType DEF Measure, Goto, term
  <2>2. \A u \in Threads : pc'[u] = pc[u] \/ {pc[u], pc'[u]} \subseteq Resting
    BY <1>1, <2>1 DEF Resting, Before
  <2> QED
    BY <1>1, <1>2, <2>1, <2>2, LabelStep
<1>4. ASSUME NEW enter \in {"enter1", "enter2"}, NEW asleep \in Asleep,
             NEW next \in {"sized", "assign"}, Barrier(t, enter, asleep, next)
      PROVE  TInv'
  <2>1. /\ UNCHANGED <<queue_size, queue, spurious, search, bound, mpi, offered>>
        /\ pc[t] = enter
        /\ \/ /\ curr_tc' = 0
              /\ pc' = [u \in Threads |->
                   IF u = t THEN next
                   ELSE CASE pc[u] = "asleep1" -> "sized"
                          [] pc[u] = "asleep2" -> "assign"
                          [] OTHER -> pc[u]]
           \/ /\ curr_tc + 1 # thread_count /\ curr_tc' = curr_tc + 1
              /\ pc' = [pc EXCEPT ![t] = asleep]
    BY <1>4 DEF Barrier, Goto, term
  <2>2. curr_tc' \in 0 .. (thread_count - 1)
    BY <1>2, <2>1, TourAssumption
  <2>3. \A u \in Threads : pc'[u] = pc[u] \/ {pc[u], pc'[u]} \subseteq Resting
    <3>1. {enter, asleep, next, "asleep1", "asleep2", "sized", "assign"} \subseteq Resting
      BY DEF Resting, Before, Asleep
    <3> QED
      BY <1>1, <2>1, <3>1
  <2> QED
    BY <1>1, <1>2, <2>1, <2>2, <2>3, LabelStep
<1>5. CASE Sized(t)
  <2>1. /\ UNCHANGED <<queue_size, curr_tc, spurious, search, bound, mpi, offered>>
        /\ pc[t] = "sized" /\ pc' = [pc EXCEPT ![t] = IF queue_size = 0 THEN "gone" ELSE "enter2"]
        /\ queue' \in Build_initial_queue \/ queue' = queue
    BY <1>5 DEF Sized, Goto, term
  <2>2. queue' \in Seq(Partials)
    BY <1>2, <2>1, QueueType
  <2>3. \A u \in Threads : pc'[u] = pc[u] \/ {pc[u], pc'[u]} \subseteq Resting
    BY <1>1, <2>1 DEF Resting, Before
  <2> QED
    BY <1>1, <1>2, <2>1, <2>2, <2>3, LabelStep
<1>6. CASE Assign(t)
  <2>1. /\ UNCHANGED <<queue_size, queue, curr_tc, curr_tour, nbr, best, best_mutex, misled,
                       offered, inbox, source, costs_sent, spurious>>
        /\ pc[t] = "assign" /\ pc' = [pc EXCEPT ![t] = "test"]
        /\ stack' = [stack EXCEPT ![t] = Set_init_tours(t)]
    BY <1>6 DEF Assign, Goto, partition, bound, term, mpi
  <2>2. Set_init_tours(t) \in Seq(Partials)
    BY <1>2, InitTours
  <2>3. Typed'
    BY <1>1, <2>1, <2>2 DEF TInv, Typed
  <2>4. OfferedType'
    BY <2>1 DEF TInv, OfferedType
  <2>5. Fitting'
    <3>1. Fits(pc'[t], stack'[t], curr_tour'[t], nbr'[t], source'[t])
      BY <1>1, <2>1 DEF Fits, Resting, Before, Idle
    <3> QED
      BY <1>1, <1>2, <2>1, <3>1, OthersFit DEF TInv
  <2>6. Guarded'
    <3>1. \A u \in Threads : pc'[u] = pc[u] \/ (u = t /\ pc'[u] = "test")
      BY <1>1, <2>1
    <3>2. best_mutex # t
      BY <2>1 DEF TInv, Guarded
    <3> QED
      BY <2>1, <3>1, <3>2, GuardKept DEF TInv
  <2> QED
    BY <2>3, <2>4, <2>5, <2>6 DEF TInv
<1> QED
  BY <1>3, <1>4, <1>5, <1>6 DEF Partition, Barrier1, Barrier2, Asleep

(* So does the sharing of work.                                             *)
LEMMA TerminatedTypes ==
  ASSUME IInv, IInv', TInv, NEW t \in Threads, Terminated(t)
  PROVE  TInv'
<1>1. pc' \in [Threads -> Labels] /\ pc \in [Threads -> Labels]
  BY DEF IInv
<1>2. /\ queue_size \in Nat /\ queue \in Seq(Partials)
      /\ curr_tc \in 0 .. (thread_count - 1) /\ spurious \in 0 .. MaxSpurious
      /\ stack \in [Threads -> Seq(Partials)]
      /\ \A u \in Threads : pc[u] \in Resting => stack[u] = <<>>
  BY DEF TInv, Typed, Fitting, Fits
<1>3. CASE Proceed(t)
  <2>1. /\ UNCHANGED <<partition, bound, term, mpi, spurious>> /\ Pop(t, stack[t])
        /\ pc[t] = "test" /\ pc' = [pc EXCEPT ![t] = Popped(stack[t])] /\ stack[t] # <<>>
    BY <1>3 DEF Proceed, Goto
  <2>2. OfferedType'
    BY <2>1 DEF TInv, OfferedType, term
  <2> QED
    BY <1>1, <1>2, <2>1, <2>2, PopStep
<1>4. CASE Offer(t)
  <2> DEFINE kept == Split_stack(stack[t], FALSE)
             given == Split_stack(stack[t], TRUE)
             next == [pc EXCEPT ![t] = Popped(kept)]
  <2>1. /\ UNCHANGED <<partition, bound, mpi, spurious>> /\ Pop(t, kept)
        /\ pc[t] = "test" /\ CanSplit(t) /\ offered' = <<given>>
        /\ \/ pc' = next
           \/ \E u \in Threads : pc[u] = "waiting" /\ pc' = [next EXCEPT ![u] = "woken"]
    BY <1>4 DEF Offer
  <2>2. kept \in Seq(Partials) /\ kept # <<>> /\ given \in Seq(Partials) /\ given # <<>>
    <3>1. stack[t] \in Seq(Partials) /\ Len(stack[t]) >= 2
      BY <1>2, <2>1, TourAssumption DEF CanSplit
    <3> QED
      BY <3>1, SplitStack
  <2>3. /\ pc'[t] = Popped(kept)
        /\ \A u \in Threads \ {t} : pc'[u] = pc[u] \/ {pc[u], pc'[u]} \subseteq Idle
    BY <1>1, <2>1 DEF Idle
  <2> HIDE DEF kept, given, next
  <2>4. OfferedType'
    BY <2>1, <2>2 DEF OfferedType
  <2> QED
    BY <1>1, <2>1, <2>2, <2>3, <2>4, PopStep
<1>5. CASE TakeOffer(t)
  <2>1. /\ UNCHANGED <<partition, bound, mpi, spurious>> /\ Pop(t, offered[1])
        /\ pc[t] = "woken" /\ pc' = [pc EXCEPT ![t] = Popped(offered[1])]
        /\ offered # NULL /\ offered' = NULL
    BY <1>5 DEF TakeOffer, Goto
  <2>2. OfferedType' /\ offered[1] \in Seq(Partials) /\ offered[1] # <<>>
    BY <2>1 DEF TInv, OfferedType
  <2> QED
    BY <1>1, <2>1, <2>2, PopStep
<1>6. ASSUME UNCHANGED <<partition, search, bound, offered, mpi, spurious>>,
             \A u \in Threads : \/ pc'[u] = pc[u] \/ {pc[u], pc'[u]} \subseteq Resting
                                \/ u = t /\ stack[t] = <<>> /\ pc[t] = "test" /\ pc'[t] \in Resting
      PROVE  TInv'
  <2>1. \A u \in Threads : \/ pc'[u] = pc[u]
                           \/ /\ pc[u] \in Resting \cup {"test"} /\ pc'[u] \in Resting
                              /\ stack[u] = <<>>
    BY <1>2, <1>6
  <2> QED
    BY <1>1, <1>2, <1>6, <2>1, LabelStep DEF partition
<1>7. {"done", "waiting", "woken", "gone"} \subseteq Resting
  BY DEF Resting, Idle
<1>8. CASE LastOne(t)
  BY <1>1, <1>6, <1>7, <1>8 DEF LastOne
<1>9. CASE Wait(t)
  BY <1>1, <1>6, <1>7, <1>9 DEF Wait, Goto
<1>10. CASE NoWorkAvail(t)
  BY <1>1, <1>6, <1>7, <1>10 DEF NoWorkAvail, Goto
<1>11. CASE AllDone(t)
  BY <1>1, <1>6, <1>7, <1>11 DEF AllDone, Goto, term
<1> QED
  BY <1>3, <1>4, <1>5, <1>8, <1>9, <1>10, <1>11 DEF Terminated

(* So does a wakeup that nobody signalled.                                  *)
LEMMA SpuriousTypes ==
  ASSUME IInv, IInv', TInv, NEW t \in Threads, SpuriousWakeup(t)
  PROVE  TInv'
<1>1. /\ pc' \in [Threads -> Labels] /\ pc \in [Threads -> Labels]
      /\ queue_size \in Nat /\ queue \in Seq(Partials)
      /\ curr_tc \in 0 .. (thread_count - 1) /\ spurious \in 0 .. MaxSpurious
      /\ \A u \in Threads : pc[u] \in Resting => stack[u] = <<>>
  BY DEF IInv, TInv, Typed, Fitting, Fits
<1>2. spurious' \in 0 .. MaxSpurious
  BY <1>1, TourAssumption DEF SpuriousWakeup
<1>3. \A u \in Threads : pc'[u] = pc[u] \/ {pc[u], pc'[u]} \subseteq Resting
  BY <1>1 DEF SpuriousWakeup, Goto, Resting, Before, Idle
<1>4. UNCHANGED <<queue_size, queue, curr_tc, search, bound, mpi, offered>>
  BY DEF SpuriousWakeup, partition, term
<1> QED
  BY <1>1, <1>2, <1>3, <1>4, LabelStep

(* The steps of the search, whose thread alone changes what it has.         *)
LEMMA SearchFrame ==
  ASSUME TInv, NEW t \in Threads,
         UNCHANGED <<partition, term, costs_sent, spurious>>,
         pc' \in [Threads -> Labels],
         stack' \in [Threads -> Seq(Partials)],
         curr_tour' \in [Threads -> Partials \cup {<<>>}],
         nbr' \in [Threads -> Cities],
         source' \in [Threads -> Peers \cup {Nobody}],
         best' \in Seq(Cities), best_mutex' \in Threads \cup {Nobody},
         inbox' \in [Peers -> Nat], misled' \in BOOLEAN,
         \A u \in Threads \ {t} :
           /\ stack'[u] = stack[u] /\ curr_tour'[u] = curr_tour[u]
           /\ nbr'[u] = nbr[u] /\ source'[u] = source[u] /\ pc'[u] = pc[u],
         Fits(pc'[t], stack'[t], curr_tour'[t], nbr'[t], source'[t]),
         Guarded'
  PROVE  TInv'
<1>1. Typed'
  BY DEF TInv, Typed, partition
<1>2. OfferedType'
  BY DEF TInv, OfferedType, term
<1>3. Fitting'
  BY OthersFit DEF TInv
<1> QED
  BY <1>1, <1>2, <1>3 DEF TInv

(* The tour that a thread looks at is a whole one.                          *)
LEMMA WholeTour ==
  ASSUME TInv, NEW t \in Threads, pc[t] \in {"probe", "receive", "lock", "close"}
  PROVE  /\ curr_tour[t] \in Partials /\ Len(curr_tour[t]) = n
         /\ curr_tour[t] \in Seq(Cities)
         /\ Last_city(curr_tour[t]) \in Cities
         /\ Closed_cost(curr_tour[t]) \in Nat
         /\ Tour_cost(curr_tour[t]) <= Closed_cost(curr_tour[t])
<1>1. curr_tour[t] \in Partials /\ Len(curr_tour[t]) = n
  BY DEF TInv, Fitting, Fits
<1>2. curr_tour[t] \in Seq(Cities)
  BY <1>1, PartialIs
<1>3. Last_city(curr_tour[t]) \in Cities
  BY <1>1, <1>2, TheCities DEF Last_city
<1>4. Tour_cost(curr_tour[t]) \in Nat /\ Cost(Last_city(curr_tour[t]), 0) \in Nat
  BY <1>2, <1>3, CostType, TheCities, TourAssumption
<1> QED
  BY <1>1, <1>2, <1>3, <1>4 DEF Closed_cost

(* A tour that grows by a city it has not visited.                          *)
LEMMA ExpandTypes ==
  ASSUME IInv, IInv', TInv, NEW t \in Threads, Expand(t)
  PROVE  TInv'
<1> DEFINE tour == curr_tour[t]
           longer == Append(tour, nbr[t])
           following == Next_nbr(tour, nbr[t])
<1>1. /\ pc[t] = "expand"
      /\ misled' \in BOOLEAN
      /\ stack' = [stack EXCEPT ![t] =
           IF Tour_cost(longer) < Best_cost THEN Append(@, longer) ELSE @]
      /\ UNCHANGED <<partition, best, best_mutex, term, mpi, spurious>>
      /\ \/ following = 0 /\ Free_tour(t)
         \/ following # 0 /\ nbr' = [nbr EXCEPT ![t] = following] /\ UNCHANGED <<pc, curr_tour>>
  BY DEF Expand, Compare, TInv, Typed
<1>2. /\ tour \in Partials /\ Len(tour) < n /\ nbr[t] \in Unvisited(tour, n)
      /\ nbr[t] \in 1 .. (n - 1)
  BY <1>1 DEF TInv, Fitting, Fits, Unvisited
<1>3. longer \in Partials
  BY <1>2, Longer DEF Unvisited
<1>4. /\ following \in Cities
      /\ following # 0 => following \in Unvisited(tour, n)
  <2>1. nbr[t] \in 0 .. n
    BY <1>2, TheCities
  <2>2. Unvisited(tour, nbr[t]) \subseteq Unvisited(tour, n)
    BY <1>2, TheCities DEF Unvisited
  <2> QED
    BY <2>1, <2>2, NextNbr
<1> HIDE DEF longer, following
<1>5. stack' \in [Threads -> Seq(Partials)]
  <2>1. stack[t] \in Seq(Partials) /\ Append(stack[t], longer) \in Seq(Partials)
    BY <1>3, PushStack DEF TInv, Typed
  <2> QED
    BY <1>1, <2>1 DEF TInv, Typed
<1>6. /\ pc' \in [Threads -> Labels] /\ pc \in [Threads -> Labels]
      /\ stack \in [Threads -> Seq(Partials)]
      /\ curr_tour \in [Threads -> Partials \cup {<<>>}] /\ nbr \in [Threads -> Cities]
      /\ source' \in [Threads -> Peers \cup {Nobody}] /\ UNCHANGED <<source, costs_sent>>
      /\ best' \in Seq(Cities) /\ best_mutex' \in Threads \cup {Nobody}
      /\ inbox' \in [Peers -> Nat] /\ 0 \in Cities
  BY <1>1, TheCities DEF IInv, TInv, Typed, mpi
<1>7. /\ curr_tour' \in [Threads -> Partials \cup {<<>>}] /\ nbr' \in [Threads -> Cities]
      /\ \A u \in Threads \ {t} :
           /\ stack'[u] = stack[u] /\ curr_tour'[u] = curr_tour[u]
           /\ nbr'[u] = nbr[u] /\ source'[u] = source[u] /\ pc'[u] = pc[u]
      /\ \/ pc'[t] = "test"
         \/ /\ pc'[t] = "expand" /\ curr_tour'[t] = tour /\ nbr'[t] = following
            /\ following # 0
  BY <1>1, <1>4, <1>6 DEF Free_tour, Goto
<1>8. Fits(pc'[t], stack'[t], curr_tour'[t], nbr'[t], source'[t])
  BY <1>2, <1>4, <1>7 DEF Fits, Resting, Before, Idle
<1>9. Guarded'
  <2>1. best_mutex # t
    BY <1>1 DEF TInv, Guarded
  <2> QED
    BY <1>1, <1>7, <2>1, GuardKept DEF TInv
<1> QED
  BY <1>1, <1>5, <1>6, <1>7, <1>8, <1>9, SearchFrame

(* A whole tour is compared with the best one.                              *)
LEMMA BestTourTypes ==
  ASSUME IInv, IInv', TInv, NEW t \in Threads, BestTour(t)
  PROVE  TInv'
<1>1. /\ pc[t] = "probe" /\ misled' \in BOOLEAN
      /\ UNCHANGED <<partition, stack, term, inbox, source, costs_sent, spurious>>
      /\ \/ /\ pc'[t] \in {"lock", "close"} /\ pc' = [pc EXCEPT ![t] = pc'[t]]
            /\ UNCHANGED <<curr_tour, nbr>>
         \/ Free_tour(t)
  <2>1. pc[t] = "probe" /\ UNCHANGED <<partition, stack, term, mpi, spurious>>
    BY DEF BestTour
  <2>2. misled' \in BOOLEAN
    BY DEF BestTour, Compare, TInv, Typed
  <2>3. \/ /\ pc'[t] \in {"lock", "close"} /\ pc' = [pc EXCEPT ![t] = pc'[t]]
           /\ UNCHANGED <<curr_tour, nbr>>
        \/ Free_tour(t)
    BY DEF BestTour, Goto, IInv
  <2> QED
    BY <2>1, <2>2, <2>3 DEF mpi
<1>2. /\ pc' \in [Threads -> Labels] /\ pc \in [Threads -> Labels]
      /\ stack' \in [Threads -> Seq(Partials)]
      /\ curr_tour \in [Threads -> Partials \cup {<<>>}] /\ nbr \in [Threads -> Cities]
      /\ source' \in [Threads -> Peers \cup {Nobody}] /\ inbox' \in [Peers -> Nat]
      /\ 0 \in Cities
  BY <1>1, TheCities DEF IInv, TInv, Typed
<1>3. /\ curr_tour' \in [Threads -> Partials \cup {<<>>}] /\ nbr' \in [Threads -> Cities]
      /\ \A u \in Threads \ {t} :
           /\ stack'[u] = stack[u] /\ curr_tour'[u] = curr_tour[u]
           /\ nbr'[u] = nbr[u] /\ source'[u] = source[u] /\ pc'[u] = pc[u]
      /\ \/ pc'[t] = "test"
         \/ pc'[t] \in {"lock", "close"} /\ curr_tour'[t] = curr_tour[t]
  BY <1>1, <1>2 DEF Free_tour, Goto
<1>4. curr_tour[t] \in Partials /\ Len(curr_tour[t]) = n /\ curr_tour[t] \in Seq(Cities)
  BY <1>1, WholeTour
<1>5. Fits(pc'[t], stack'[t], curr_tour'[t], nbr'[t], source'[t])
  BY <1>3, <1>4 DEF Fits, Resting, Before, Idle
<1>6. /\ best' \in Seq(Cities) /\ best_mutex' \in Threads \cup {Nobody}
      /\ Guarded'
  <2>1. CASE best_mutex # t
    <3>1. UNCHANGED <<best, best_mutex>> /\ pc'[t] # "close"
      BY <1>2, <2>1 DEF BestTour, Free_tour, Goto
    <3>2. Guarded'
      BY <1>1, <1>3, <2>1, <3>1, GuardKept DEF TInv
    <3> QED
      BY <3>1, <3>2 DEF TInv, Typed
  <2>2. CASE best_mutex = t /\ Closed_cost(curr_tour[t]) < Best_cost
    <3>1. /\ best' = curr_tour[t] /\ best_mutex' = t /\ pc'[t] = "close"
          /\ curr_tour'[t] = curr_tour[t]
      BY <1>2, <2>2 DEF BestTour, Goto
    <3>2. \A u \in Threads : pc'[u] = "close" => u = t
      BY <1>3, <2>2 DEF TInv, Guarded
    <3>3. \A u \in Threads : best_mutex' = u => u = t
      BY <3>1
    <3>4. Open'
      BY <1>4, <3>1 DEF Open
    <3>5. Guarded'
      BY <1>4, <3>1, <3>2, <3>3, <3>4 DEF Guarded
    <3> QED
      BY <1>4, <3>1, <3>5
  <2>3. CASE best_mutex = t /\ ~(Closed_cost(curr_tour[t]) < Best_cost)
    <3>1. best' = best /\ best_mutex' = Nobody /\ pc'[t] = "test"
      BY <1>2, <2>3 DEF BestTour, Free_tour, Goto
    <3>2. \A u \in Threads : u # Nobody
      BY TourAssumption DEF Nobody, Threads
    <3>3. \A u \in Threads : pc[u] # "close"
      BY <1>1, <2>3 DEF TInv, Guarded
    <3>4. \A u \in Threads : pc'[u] # "close"
      BY <1>3, <3>1, <3>3
    <3>5. ~Open /\ ~Open'
      BY <3>1, <3>3 DEF TInv, Guarded, Open
    <3>6. Guarded'
      BY <3>1, <3>2, <3>4, <3>5 DEF TInv, Guarded
    <3> QED
      BY <3>1, <3>6 DEF TInv, Typed
  <2> QED
    BY <2>1, <2>2, <2>3
<1> QED
  BY <1>1, <1>2, <1>3, <1>5, <1>6, SearchFrame

(* Costs of other processes, and the mutex of the best tour.                *)
LEMMA MessageTypes ==
  ASSUME IInv, IInv', TInv, NEW t \in Threads, Probe(t) \/ Receive(t) \/ Lock(t)
  PROVE  TInv'
<1>1. /\ pc' \in [Threads -> Labels] /\ pc \in [Threads -> Labels]
      /\ stack \in [Threads -> Seq(Partials)] /\ source \in [Threads -> Peers \cup {Nobody}]
      /\ curr_tour \in [Threads -> Partials \cup {<<>>}] /\ nbr \in [Threads -> Cities]
      /\ best \in Seq(Cities) /\ inbox \in [Peers -> Nat] /\ misled \in BOOLEAN
      /\ best_mutex \in Threads \cup {Nobody}
  BY DEF IInv, TInv, Typed
<1>2. /\ UNCHANGED <<partition, search, best, misled, term, costs_sent, spurious>>
      /\ pc[t] \in {"probe", "receive", "lock"} /\ pc' = [pc EXCEPT ![t] = pc'[t]]
      /\ pc'[t] \in {"probe", "receive"}
  BY <1>1 DEF Probe, Receive, Lock, Goto, bound, mpi
<1>3. /\ source' \in [Threads -> Peers \cup {Nobody}]
      /\ \A u \in Threads \ {t} : source'[u] = source[u]
      /\ pc'[t] = "receive" => source'[t] \in Peers
      /\ inbox' \in [Peers -> Nat]
  <2>1. CASE Probe(t)
    BY <1>1, <2>1 DEF Probe
  <2>2. CASE Receive(t)
    <3>1. source[t] \in Peers /\ inbox[source[t]] \in Nat /\ inbox[source[t]] > 0
      BY <1>1, <2>2 DEF Receive, TInv, Fitting, Fits
    <3>2. inbox[source[t]] - 1 \in Nat
      BY <3>1
    <3> QED
      BY <1>1, <2>2, <3>1, <3>2 DEF Receive, Goto
  <2>3. CASE Lock(t)
    BY <1>1, <2>3 DEF Lock, mpi, Goto
  <2> QED
    BY <2>1, <2>2, <2>3
<1>4. /\ UNCHANGED <<stack, curr_tour, nbr>>
      /\ curr_tour[t] \in Partials /\ Len(curr_tour[t]) = n
  BY <1>2, WholeTour DEF search
<1>5. Fits(pc'[t], stack'[t], curr_tour'[t], nbr'[t], source'[t])
  BY <1>2, <1>3, <1>4 DEF Fits, Resting, Before, Idle
<1>6. best_mutex' \in Threads \cup {Nobody} /\ Guarded'
  <2>1. CASE Probe(t) \/ Receive(t)
    <3>1. UNCHANGED best_mutex
      BY <2>1 DEF Probe, Receive, bound
    <3>2. \A u \in Threads :
            \/ pc'[u] = pc[u] /\ curr_tour'[u] = curr_tour[u]
            \/ /\ pc[u] # "close" /\ pc'[u] # "close"
               /\ best_mutex = u => pc'[u] \in {"probe", "receive"}
      BY <1>1, <1>2, <1>4
    <3> QED
      BY <1>1, <1>2, <3>1, <3>2, GuardKept DEF TInv
  <2>2. CASE Lock(t)
    <3>1. best_mutex = Nobody /\ best_mutex' = t
      BY <2>2 DEF Lock
    <3>2. \A u \in Threads : u # Nobody
      BY TourAssumption DEF Nobody, Threads
    <3>3. \A u \in Threads : pc[u] # "close"
      BY <3>1, <3>2 DEF TInv, Guarded
    <3>4. \A u \in Threads : pc'[u] # "close"
      BY <1>1, <1>2, <3>3
    <3>5. (Open' <=> Open) /\ best' = best /\ ~Open
      BY <1>2, <3>3 DEF TInv, Guarded, Open
    <3>6. Guarded'
      BY <1>2, <3>1, <3>4, <3>5 DEF TInv, Guarded
    <3> QED
      BY <3>1, <3>6
  <2> QED
    BY <2>1, <2>2
<1>7. \A u \in Threads \ {t} :
        /\ stack'[u] = stack[u] /\ curr_tour'[u] = curr_tour[u]
        /\ nbr'[u] = nbr[u] /\ source'[u] = source[u] /\ pc'[u] = pc[u]
  BY <1>1, <1>2, <1>3, <1>4
<1> QED
  BY <1>1, <1>2, <1>3, <1>4, <1>5, <1>6, <1>7, SearchFrame

(* The best tour is closed by the thread that holds its mutex.              *)
LEMMA CloseTourTypes ==
  ASSUME IInv, IInv', TInv, NEW t \in Threads, CloseTour(t)
  PROVE  TInv'
<1>1. /\ pc' \in [Threads -> Labels] /\ pc \in [Threads -> Labels]
      /\ stack \in [Threads -> Seq(Partials)] /\ source \in [Threads -> Peers \cup {Nobody}]
      /\ curr_tour \in [Threads -> Partials \cup {<<>>}] /\ nbr \in [Threads -> Cities]
      /\ best \in Seq(Cities) /\ inbox \in [Peers -> Nat] /\ misled \in BOOLEAN
      /\ 0 \in Cities /\ n \in Nat
  BY TheCities DEF IInv, TInv, Typed
<1>2. /\ pc[t] = "close" /\ best' = Append(best, 0) /\ best_mutex' = Nobody
      /\ curr_tour' = [curr_tour EXCEPT ![t] = <<>>] /\ nbr' = [nbr EXCEPT ![t] = 0]
      /\ pc' = [pc EXCEPT ![t] = "test"]
      /\ UNCHANGED <<partition, stack, misled, term, inbox, source, costs_sent, spurious>>
  BY DEF CloseTour, Free_tour, Goto, mpi
<1>3. /\ best_mutex = t /\ Len(best) = n
      /\ \A u \in Threads : pc[u] = "close" => u = t
  BY <1>2 DEF TInv, Guarded, Open
<1>4. best' \in Seq(Cities) /\ Len(best') = n + 1
  BY <1>1, <1>2, <1>3
<1>5. Fits(pc'[t], stack'[t], curr_tour'[t], nbr'[t], source'[t])
  BY <1>1, <1>2 DEF Fits, Resting, Before, Idle
<1>6. Guarded'
  <2>1. \A u \in Threads : u # Nobody
    BY TourAssumption DEF Nobody, Threads
  <2>2. \A u \in Threads : pc'[u] # "close"
    BY <1>1, <1>2, <1>3
  <2>3. ~Open'
    BY <1>1, <1>4 DEF Open
  <2> QED
    BY <1>2, <1>4, <2>1, <2>2, <2>3 DEF Guarded
<1>7. \A u \in Threads \ {t} :
        /\ stack'[u] = stack[u] /\ curr_tour'[u] = curr_tour[u]
        /\ nbr'[u] = nbr[u] /\ source'[u] = source[u] /\ pc'[u] = pc[u]
  BY <1>1, <1>2
<1>8. curr_tour' \in [Threads -> Partials \cup {<<>>}] /\ nbr' \in [Threads -> Cities]
  BY <1>1, <1>2
<1> QED
  BY <1>1, <1>2, <1>4, <1>5, <1>6, <1>7, <1>8, SearchFrame

(* Another process sends a cost.                                            *)
LEMMA CostArrivesTypes ==
  ASSUME IInv, IInv', TInv, NEW p \in Peers, CostArrives(p)
  PROVE  TInv'
<1>1. /\ UNCHANGED <<partition, pc, search, bound, offered, source, spurious>>
      /\ costs_sent' \in [Peers -> 0 .. MaxCosts] /\ inbox' \in [Peers -> Nat]
  BY TourAssumption DEF CostArrives, term, TInv, Typed
<1>2. Typed'
  BY <1>1 DEF TInv, Typed, partition, search, bound
<1>3. OfferedType' /\ Fitting'
  BY <1>1 DEF TInv, OfferedType, Fitting, search
<1>4. Guarded'
  BY <1>1, GuardKept DEF TInv, bound, search
<1> QED
  BY <1>2, <1>3, <1>4 DEF TInv

(* The types at the start.                                                  *)
LEMMA InitTypes == Init => TInv
<1> SUFFICES ASSUME Init PROVE TInv
  OBVIOUS
<1>1. Typed
  <2>1. 0 \in Cities /\ <<>> \in Seq(Partials) /\ <<>> \in Seq(Cities)
    BY TheCities
  <2>2. /\ queue_size \in Nat /\ queue \in Seq(Partials)
        /\ stack \in [Threads -> Seq(Partials)]
        /\ curr_tour \in [Threads -> Partials \cup {<<>>}]
        /\ nbr \in [Threads -> Cities] /\ best \in Seq(Cities)
    BY <2>1 DEF Init
  <2>3. /\ curr_tc \in 0 .. (thread_count - 1) /\ spurious \in 0 .. MaxSpurious
        /\ inbox \in [Peers -> Nat] /\ costs_sent \in [Peers -> 0 .. MaxCosts]
    BY TourAssumption DEF Init
  <2>4. /\ pc \in [Threads -> Labels] /\ source \in [Threads -> Peers \cup {Nobody}]
        /\ best_mutex \in Threads \cup {Nobody} /\ misled \in BOOLEAN
    BY DEF Init, Labels
  <2> QED
    BY <2>2, <2>3, <2>4 DEF Typed
<1>2. OfferedType
  BY DEF Init, OfferedType
<1>3. Fitting
  BY DEF Init, Fitting, Fits
<1>4. Guarded
  <2>1. best = <<>> /\ best_mutex = Nobody /\ \A t \in Threads : pc[t] # "close"
    BY DEF Init
  <2>2. \A u \in Threads : u # Nobody
    BY TourAssumption DEF Nobody, Threads
  <2>3. ~Open
    BY <2>1, TheCities DEF Open
  <2> QED
    BY <2>1, <2>2, <2>3 DEF Guarded
<1> QED
  BY <1>1, <1>2, <1>3, <1>4 DEF TInv

(* Every step keeps the types.                                              *)
LEMMA StepTypes == IInv /\ IInv' /\ TInv /\ [Next]_vars => TInv'
<1> SUFFICES ASSUME IInv, IInv', TInv, [Next]_vars PROVE TInv'
  OBVIOUS
<1>1. ASSUME NEW t \in Threads, Par_tree_search(t) PROVE TInv'
  <2>1. CASE Partition(t)
    BY <2>1, PartitionTypes
  <2>2. CASE Terminated(t)
    BY <2>2, TerminatedTypes
  <2>3. CASE Search(t)
    BY <2>3, ExpandTypes, BestTourTypes, MessageTypes, CloseTourTypes DEF Search
  <2> QED
    BY <1>1, <2>1, <2>2, <2>3 DEF Par_tree_search
<1>2. ASSUME NEW t \in Threads, SpuriousWakeup(t) PROVE TInv'
  BY <1>2, SpuriousTypes
<1>3. ASSUME NEW p \in Peers, CostArrives(p) PROVE TInv'
  BY <1>3, CostArrivesTypes
<1>4. CASE UNCHANGED vars
  <2> USE <1>4 DEF vars, partition, search, bound, term, mpi
  <2>1. Typed' /\ OfferedType' /\ Fitting'
    BY DEF TInv, Typed, OfferedType, Fitting
  <2>2. Guarded'
    BY GuardKept DEF TInv
  <2> QED
    BY <2>1, <2>2 DEF TInv
<1> QED
  BY <1>1, <1>2, <1>3, <1>4 DEF Next

-----------------------------------------------------------------------------
(* The best tour.                                                           *)

(* The costs of the best tour are numbers.                                  *)
LEMMA Settled ==
  ASSUME TInv
  PROVE  /\ Best_cost \in Nat /\ Settled_cost \in Nat /\ Best_cost <= Settled_cost
         /\ ~Open => Settled_cost = Best_cost
<1>1. best \in Seq(Cities) /\ INFINITY \in Nat
  BY TourAssumption DEF TInv, Typed
<1>2. Best_cost \in Nat
  BY <1>1, CostType DEF Best_cost
<1>3. CASE Open
  <2>1. Last_city(best) \in Cities
    BY <1>1, <1>3, TheCities DEF Open, Last_city
  <2>2. Cost(Last_city(best), 0) \in Nat
    BY <2>1, TheCities, TourAssumption
  <2> QED
    BY <1>2, <1>3, <2>2 DEF Settled_cost
<1>4. CASE ~Open
  BY <1>2, <1>4 DEF Settled_cost
<1> QED
  BY <1>2, <1>3, <1>4

(* The cost of the best tour only falls, and closing it does not change it. *)
LEMMA BestTourImproves ==
  ASSUME TInv, TInv', NEW t \in Threads, BestTour(t)
  PROVE  /\ best' = best => Settled_cost' = Settled_cost
         /\ best' # best => /\ best' = curr_tour[t]
                            /\ Settled_cost' = Closed_cost(curr_tour[t])
                            /\ Settled_cost' <= Settled_cost
<1>1. pc[t] = "probe"
  BY DEF BestTour
<1>2. CASE best' = best
  BY <1>2 DEF Settled_cost, Best_cost, Open
<1>3. CASE best' # best
  <2>1. best' = curr_tour[t] /\ Closed_cost(curr_tour[t]) < Best_cost
    BY <1>3 DEF BestTour
  <2>2. Len(curr_tour[t]) = n /\ curr_tour[t] # <<>> /\ Closed_cost(curr_tour[t]) \in Nat
    BY <1>1, WholeTour, TheCities
  <2>3. Settled_cost' = Closed_cost(curr_tour[t])
    BY <2>1, <2>2 DEF Settled_cost, Best_cost, Open, Closed_cost
  <2>4. Best_cost \in Nat /\ Settled_cost \in Nat /\ Best_cost <= Settled_cost
    BY Settled
  <2> QED
    BY <1>3, <2>1, <2>2, <2>3, <2>4
<1> QED
  BY <1>2, <1>3

(* Closing the best tour gives it the cost that it was settled at.          *)
LEMMA CloseTourSettles ==
  ASSUME TInv, NEW t \in Threads, CloseTour(t)
  PROVE  /\ Settled_cost' = Settled_cost
         /\ best = curr_tour[t] /\ best' = Append(curr_tour[t], 0)
<1>1. /\ pc[t] = "close" /\ best' = Append(best, 0) /\ best = curr_tour[t]
      /\ Open /\ Len(best) = n /\ best \in Seq(Cities)
  BY DEF CloseTour, TInv, Typed, Guarded, Open
<1>2. /\ Len(best') = n + 1 /\ best' # <<>> /\ best # <<>> /\ ~Open'
  BY <1>1, TheCities DEF Open
<1>3. Tour_cost(Append(best, 0)) = Tour_cost(best) + Cost(Last_city(best), 0)
  BY <1>1, CostOfLonger, TheCities
<1>4. Settled_cost = Tour_cost(best) + Cost(Last_city(best), 0)
  BY <1>1, <1>2 DEF Settled_cost, Best_cost
<1>5. Settled_cost' = Tour_cost(best')
  BY <1>2 DEF Settled_cost, Best_cost
<1> QED
  BY <1>1, <1>3, <1>4, <1>5

(* No other step touches the best tour.                                     *)
LEMMA OnlyTheseImprove ==
  ASSUME [Next]_vars
  PROVE  best' = best \/ \E t \in Threads : BestTour(t) \/ CloseTour(t)
<1>1. ASSUME NEW t \in Threads, Partition(t) PROVE best' = best
  BY <1>1 DEF Partition, Measure, Barrier1, Barrier2, Barrier, Sized, Assign, bound
<1>2. ASSUME NEW t \in Threads, Terminated(t) PROVE best' = best
  BY <1>2 DEF Terminated, Proceed, Offer, LastOne, Wait, TakeOffer, NoWorkAvail, AllDone, bound
<1>3. ASSUME NEW t \in Threads, Search(t) PROVE best' = best \/ BestTour(t) \/ CloseTour(t)
  BY <1>3 DEF Search, Expand, Probe, Receive, Lock, bound
<1>4. ASSUME NEW t \in Threads, SpuriousWakeup(t) PROVE best' = best
  BY <1>4 DEF SpuriousWakeup, bound
<1>5. ASSUME NEW p \in Peers, CostArrives(p) PROVE best' = best
  BY <1>5 DEF CostArrives, bound
<1>6. CASE UNCHANGED vars
  BY <1>6 DEF vars, bound
<1> QED
  BY <1>1, <1>2, <1>3, <1>4, <1>5, <1>6 DEF Next, Par_tree_search

-----------------------------------------------------------------------------
(* What follows below, without the tours that are left, follows from these. *)
THEOREM Inductive == Spec => [](IInv /\ TInv)
<1>1. Init => IInv /\ TInv
  BY InitHolds, InitTypes
<1>2. IInv /\ TInv /\ [Next]_vars => (IInv /\ TInv)'
  BY StepKeeps, StepTypes
<1> QED
  BY <1>1, <1>2, PTL DEF Spec

(* term->count is exactly the number of threads that wait, are being woken  *)
(* or have ended, however many threads compete (main.c:1222-1302).          *)
THEOREM CountIsExact == Spec => []SleepersCounted
<1>1. IInv => SleepersCounted
  BY DEF IInv
<1> QED
  BY <1>1, Inductive, PTL

(* "Awakened with no work avail!" (main.c:1292) needs a spurious wakeup: a  *)
(* signal always comes with a stack that nobody else takes.                 *)
THEOREM NoThreadWokenInVain == Spec => []AwakenedToWork
<1>1. IInv => AwakenedToWork
  BY DEF IInv, Calm, NobodyGone, AwakenedToWork
<1> QED
  BY <1>1, Inductive, PTL

(* Every variable keeps its type: a tour starts at the home town and visits *)
(* no city twice, the offer is one stack, and term->count is at most the    *)
(* number of threads (main.c:1222-1302).                                    *)
THEOREM TypeCorrect == Spec => []TypeOK
<1>1. IInv /\ TInv => TypeOK
  <2> SUFFICES ASSUME IInv, TInv PROVE TypeOK
    OBVIOUS
  <2>1. count \in 0 .. thread_count
    BY CountBounded
  <2>2. Partials \subseteq Tours
    BY DEF Partials
  <2>3. Seq(Partials) \subseteq Seq(Tours)
    BY <2>2
  <2>4. Len(offered) <= 1 /\ \A k \in DOMAIN offered : offered[k] \in Seq(Tours)
    <3>1. CASE offered = NULL
      BY <3>1 DEF NULL
    <3>2. CASE offered = <<offered[1]>> /\ offered[1] \in Seq(Partials)
      <4>1. PICK s : s = offered[1] /\ s \in Seq(Tours)
        BY <2>3, <3>2
      <4>2. offered = <<s>>
        BY <3>2, <4>1
      <4> QED
        BY <4>1, <4>2
    <3> QED
      BY <3>1, <3>2 DEF TInv, OfferedType
  <2>5. /\ queue \in Seq(Tours) /\ stack \in [Threads -> Seq(Tours)]
        /\ curr_tour \in [Threads -> Tours \cup {<<>>}]
    <3>1. \A t \in Threads : stack[t] \in Seq(Tours)
      BY <2>3 DEF TInv, Typed
    <3>2. \A t \in Threads : curr_tour[t] \in Tours \cup {<<>>}
      BY <2>2 DEF TInv, Typed
    <3> QED
      BY <2>3, <3>1, <3>2 DEF TInv, Typed
  <2> QED
    BY <2>1, <2>4, <2>5 DEF TInv, Typed, TypeOK
<1> QED
  BY <1>1, Inductive, PTL

(* The best tour is only ever replaced by a cheaper one (main.c:663-700).   *)
THEOREM BestImproves == Spec => BestOnlyImproves
<1>1. TInv /\ TInv' /\ [Next]_vars => [best' # best => Settled_cost' <= Settled_cost]_vars
  <2> SUFFICES ASSUME TInv, TInv', [Next]_vars, best' # best
               PROVE  Settled_cost' <= Settled_cost
    OBVIOUS
  <2>1. PICK t \in Threads : BestTour(t) \/ CloseTour(t)
    BY OnlyTheseImprove
  <2>2. Settled_cost \in Nat
    BY Settled
  <2> QED
    BY <2>1, <2>2, BestTourImproves, CloseTourSettles
<1> QED
  BY <1>1, Inductive, PTL DEF Spec, BestOnlyImproves

-----------------------------------------------------------------------------
(* The search without spurious wakeups.                                     *)

(* Before the first barrier is open nobody is past it, and when thread 0    *)
(* builds the queue nobody has his share of it.                             *)
Phase1 == {"measure", "enter1", "asleep1"}
Phase2 == {"sized", "enter2", "asleep2", "gone"}
InPhase ==
  /\ \A t, u \in Threads : pc[t] \in Phase1 => pc[u] \in Phase1
  /\ pc[0] = "sized" => \A t \in Threads : pc[t] \in Phase2
  /\ queue = <<>> <=> pc[0] \in Phase1 \cup {"sized", "gone"}
  /\ queue # <<>> => queue_size # 0

(* The tours that thread t has in its share, on its stack and in its hands, *)
(* and has not searched yet.                                                *)
Due(t) == IF pc[t] \in Before THEN Share(t) ELSE {}
InHand(t) ==
  IF pc[t] \in {"probe", "receive", "lock"} THEN {curr_tour[t]}
  ELSE IF pc[t] = "expand"
  THEN {Append(curr_tour[t], c) : c \in Unvisited(curr_tour[t], nbr[t] + 1)}
  ELSE {}
Held(t) == Due(t) \cup Range(stack[t]) \cup InHand(t)
OnOffer == IF offered = NULL THEN {} ELSE Range(offered[1])

(* The full tours below a set of tours; those that the process is to search *)
(* and those that it still has to.                                          *)
Below(A) == {tour \in Full_tours : \E p \in A : IsPrefix(p, tour)}
Goal == {tour \in Full_tours : \E t \in Threads : tour \in Below(Share(t))}
Left ==
  {tour \in Full_tours : \/ tour \in Below(OnOffer)
                        \/ \E t \in Threads : tour \in Below(Held(t))}

Sound ==
  /\ Left \subseteq Goal
  /\ best # <<>> => \E tour \in Goal : best \in {tour, Append(tour, 0)}
  /\ Settled_cost <= INFINITY

Complete == \A tour \in Goal : tour \in Left \/ Settled_cost <= Closed_cost(tour)

SInv == spurious = 0 => InPhase /\ Sound /\ (misled \/ Complete)

(* The full tours are the tours of the search that have n cities.           *)
LEMMA FullToursAre == Full_tours = {tour \in Partials : Len(tour) = n}
<1> DEFINE F == {f \in [1 .. (n - 1) -> 1 .. (n - 1)] :
                   \A i, j \in 1 .. (n - 1) : f[i] = f[j] => i = j}
<1>1. ASSUME NEW f \in F
      PROVE  <<0>> \o f \in Partials /\ Len(<<0>> \o f) = n
  <2> DEFINE p == <<0>> \o f
  <2>1. /\ f \in [1 .. (n - 1) -> 1 .. (n - 1)]
        /\ \A i, j \in 1 .. (n - 1) : f[i] = f[j] => i = j
    OBVIOUS
  <2>2. f \in Seq(Cities) /\ Len(f) = n - 1 /\ <<0>> \in Seq(Cities) /\ Len(<<0>>) = 1
    <3>1. f \in Seq(1 .. (n - 1)) /\ Len(f) = n - 1
      BY <2>1, TheCities
    <3>2. <<0>> \in Seq(Cities) /\ Len(<<0>>) = 1
      BY TheCities
    <3> QED
      BY <2>1, <3>1, <3>2, TheCities
  <2>3. /\ p \in Seq(Cities) /\ Len(p) = n /\ p[1] = 0
        /\ \A i \in 1 .. n : i # 1 => p[i] = f[i - 1] /\ i - 1 \in 1 .. (n - 1)
    BY <2>2, TheCities
  <2> HIDE DEF p, F
  <2>4. \A i \in 1 .. n : i # 1 => p[i] \in 1 .. (n - 1)
    BY <2>1, <2>3
  <2>5. ASSUME NEW i \in 1 .. n, NEW j \in 1 .. n, p[i] = p[j]
        PROVE  i = j
    <3>1. CASE i = 1
      BY <2>3, <2>4, <2>5, <3>1
    <3>2. CASE j = 1
      BY <2>3, <2>4, <2>5, <3>2
    <3>3. CASE i # 1 /\ j # 1
      <4>1. i - 1 = j - 1
        BY <2>1, <2>3, <2>5, <3>3
      <4> QED
        BY <4>1, TheCities
    <3> QED
      BY <3>1, <3>2, <3>3
  <2>6. p \in Partials
    BY <2>3, <2>5, PartialIs, TheCities
  <2> QED
    BY <2>3, <2>6 DEF p
<1>2. ASSUME NEW p \in Partials, Len(p) = n
      PROVE  \E f \in F : p = <<0>> \o f
  <2> DEFINE f == [i \in 1 .. (n - 1) |-> p[i + 1]]
             q == <<0>> \o f
  <2>1. /\ p \in Seq(Cities) /\ p[1] = 0 /\ \A i, j \in 1 .. n : p[i] = p[j] => i = j
    BY <1>2, PartialIs
  <2>2. \A i \in 1 .. (n - 1) : i + 1 \in 1 .. n /\ i + 1 # 1
    BY TheCities
  <2>3. \A i \in 1 .. (n - 1) : p[i + 1] \in 1 .. (n - 1)
    <3> TAKE i \in 1 .. (n - 1)
    <3>1. p[i + 1] \in Cities
      BY <1>2, <2>1, <2>2
    <3>2. p[i + 1] # 0
      BY <2>1, <2>2, TheCities
    <3> QED
      BY <3>1, <3>2, TheCities
  <2>4. f \in F
    <3>1. f \in [1 .. (n - 1) -> 1 .. (n - 1)]
      BY <2>3
    <3>2. \A i, j \in 1 .. (n - 1) : f[i] = f[j] => i = j
      <4> TAKE i, j \in 1 .. (n - 1)
      <4> HAVE f[i] = f[j]
      <4>1. i + 1 = j + 1
        BY <2>1, <2>2
      <4> QED
        BY <4>1
    <3> QED
      BY <3>1, <3>2
  <2>5. /\ f \in Seq(Cities) /\ Len(f) = n - 1
    <3>1. \A i \in 1 .. (n - 1) : p[i + 1] \in Cities
      BY <2>3, TheCities
    <3> QED
      BY <3>1, TheCities
  <2>6. \A i \in 1 .. (n - 1) : f[i] = p[i + 1]
    OBVIOUS
  <2> HIDE DEF f, F
  <2>7. /\ q \in Seq(Cities) /\ Len(q) = n /\ q[1] = 0
        /\ \A i \in 1 .. n : i # 1 => q[i] = f[i - 1] /\ i - 1 \in 1 .. (n - 1)
    BY <2>5, TheCities
  <2> HIDE DEF q
  <2>8. \A i \in 1 .. n : q[i] = p[i]
    <3> TAKE i \in 1 .. n
    <3>1. CASE i = 1
      BY <2>1, <2>7, <3>1
    <3>2. CASE i # 1
      <4>1. q[i] = p[(i - 1) + 1] /\ (i - 1) + 1 = i
        BY <2>6, <2>7, <3>2
      <4> QED
        BY <4>1
    <3> QED
      BY <3>1, <3>2
  <2>9. q = p
    BY <1>2, <2>1, <2>7, <2>8
  <2> QED
    BY <2>4, <2>9 DEF q
<1>3. Full_tours = {<<0>> \o f : f \in F}
  BY DEF Full_tours
<1> HIDE DEF F
<1> QED
  BY <1>1, <1>2, <1>3

(* A full tour, and what it costs.                                          *)
LEMMA FullTour ==
  ASSUME NEW tour \in Full_tours
  PROVE  /\ tour \in Partials /\ tour \in Seq(Cities) /\ Len(tour) = n
         /\ Closed_cost(tour) \in Nat /\ Tour_cost(tour) <= Closed_cost(tour)
<1>1. tour \in Partials /\ tour \in Seq(Cities) /\ Len(tour) = n
  BY FullToursAre, PartialIs
<1>2. Last_city(tour) \in Cities
  BY <1>1, TheCities DEF Last_city
<1>3. Tour_cost(tour) \in Nat /\ Cost(Last_city(tour), 0) \in Nat
  BY <1>1, <1>2, CostType, TheCities, TourAssumption
<1> QED
  BY <1>1, <1>3 DEF Closed_cost

(* What lies below the tours of two sets.                                   *)
LEMMA BelowUnion ==
  /\ \A A, B : Below(A \cup B) = Below(A) \cup Below(B)
  /\ Below({}) = {}
BY DEF Below

(* Below a full tour there is only itself.                                  *)
LEMMA BelowFull ==
  ASSUME NEW p \in Partials, Len(p) = n
  PROVE  Below({p}) = {p}
<1>1. p \in Full_tours /\ p \in Seq(Cities) /\ n \in Nat
  BY FullToursAre, PartialIs, TheCities
<1>2. IsPrefix(p, p)
  BY <1>1, PrefixIs
<1>3. ASSUME NEW tour \in Full_tours, IsPrefix(p, tour)
      PROVE  tour = p
  <2>1. tour \in Seq(Cities) /\ Len(tour) = n
    BY FullTour
  <2>2. \A i \in 1 .. n : p[i] = tour[i]
    BY <1>1, <1>3, <2>1, PrefixIs
  <2> QED
    BY <1>1, <2>1, <2>2
<1> QED
  BY <1>1, <1>2, <1>3 DEF Below

(* The full tours below a tour go on to one of the cities that it has not   *)
(* visited.                                                                 *)
LEMMA BelowLonger ==
  ASSUME NEW p \in Partials, Len(p) < n
  PROVE  Below({p}) = Below({Append(p, c) : c \in Unvisited(p, n)})
<1>1. p \in Seq(Cities) /\ Len(p) \in Nat /\ Len(p) >= 1 /\ n \in Nat
  BY PartialIs, TheCities
<1>2. ASSUME NEW tour \in Full_tours, IsPrefix(p, tour)
      PROVE  \E c \in Unvisited(p, n) : IsPrefix(Append(p, c), tour)
  <2> DEFINE c == tour[Len(p) + 1]
  <2>1. /\ tour \in Seq(Cities) /\ Len(tour) = n /\ tour[1] = 0
        /\ \A i, j \in 1 .. n : tour[i] = tour[j] => i = j
    BY FullTour, PartialIs
  <2>2. \A i \in 1 .. Len(p) : p[i] = tour[i]
    BY <1>1, <1>2, <2>1, PrefixIs
  <2>3. Len(p) + 1 \in 1 .. n /\ Len(p) + 1 # 1
    BY <1>1
  <2>4. c \in Cities /\ c # 0
    BY <1>1, <2>1, <2>3
  <2>5. ~Visited(p, c)
    <3> SUFFICES ASSUME NEW i \in 1 .. Len(p), p[i] = c PROVE FALSE
      BY <1>1 DEF Visited
    <3>1. i \in 1 .. n /\ tour[i] = tour[Len(p) + 1] /\ i # Len(p) + 1
      BY <1>1, <2>2
    <3> QED
      BY <2>1, <2>3, <3>1
  <2>6. c \in Unvisited(p, n)
    BY <2>4, <2>5, TheCities DEF Unvisited
  <2> DEFINE q == Append(p, c)
  <2>7. /\ q \in Seq(Cities) /\ Len(q) = Len(p) + 1 /\ q[Len(p) + 1] = c
        /\ \A i \in 1 .. Len(p) : q[i] = p[i]
    BY <1>1, <2>4
  <2> HIDE DEF q
  <2>8. \A i \in 1 .. Len(q) : q[i] = tour[i]
    <3>1. \A i \in 1 .. Len(q) : i \in 1 .. Len(p) \/ i = Len(p) + 1
      BY <1>1, <2>7
    <3> QED
      BY <2>2, <2>7, <3>1
  <2>9. IsPrefix(q, tour)
    <3>1. Len(q) <= Len(tour)
      BY <1>1, <2>1, <2>7
    <3> QED
      BY <2>1, <2>7, <2>8, <3>1, PrefixIs
  <2> QED
    BY <2>6, <2>9 DEF q
<1>3. ASSUME NEW tour \in Full_tours, NEW c \in Unvisited(p, n),
             IsPrefix(Append(p, c), tour)
      PROVE  IsPrefix(p, tour)
  <2> DEFINE q == Append(p, c)
  <2>1. tour \in Seq(Cities)
    BY FullTour
  <2>2. c \in Cities
    BY TheCities DEF Unvisited
  <2>3. /\ q \in Seq(Cities) /\ Len(q) = Len(p) + 1
        /\ \A i \in 1 .. Len(p) : q[i] = p[i]
    BY <1>1, <2>2
  <2>4. Len(q) <= Len(tour) /\ \A i \in 1 .. Len(q) : q[i] = tour[i]
    BY <1>3, <2>1, <2>3, PrefixIs
  <2> HIDE DEF q
  <2>5. Len(p) <= Len(tour) /\ \A i \in 1 .. Len(p) : p[i] = tour[i]
    BY <1>1, <2>1, <2>3, <2>4
  <2> QED
    BY <1>1, <2>1, <2>5, PrefixIs
<1> QED
  BY <1>2, <1>3 DEF Below

(* No full tour costs less, closed, than the tour that it lies below.       *)
LEMMA BelowCosts ==
  ASSUME NEW p \in Partials, NEW tour \in Below({p})
  PROVE  Tour_cost(p) <= Closed_cost(tour)
<1>1. tour \in Full_tours /\ IsPrefix(p, tour)
  BY DEF Below
<1>2. p \in Seq(Cities) /\ tour \in Seq(Cities)
  BY <1>1, FullTour, PartialIs
<1>3. Tour_cost(p) <= Tour_cost(tour) /\ Tour_cost(p) \in Nat /\ Tour_cost(tour) \in Nat
  BY <1>1, <1>2, PrefixCheaper, CostType
<1> QED
  BY <1>1, <1>3, FullTour

-----------------------------------------------------------------------------
(* The partition, in phases.                                                *)

(* The threads past the barriers change no phase. *)
LEMMA PhasesPast ==
  ASSUME InPhase, UNCHANGED <<queue, queue_size>>,
         \A u \in Threads : pc'[u] = pc[u] \/ {pc[u], pc'[u]} \subseteq Busy \cup Idle
  PROVE  InPhase'
<1>1. (Phase1 \cup Phase2) \cap (Busy \cup Idle) = {}
  BY DEF Phase1, Phase2, Busy, Idle
<1>2. \A u \in Threads : /\ pc'[u] \in Phase1 <=> pc[u] \in Phase1
                         /\ pc[u] \in Phase2 => pc'[u] = pc[u]
                         /\ pc'[u] \in Phase2 => pc'[u] = pc[u]
  BY <1>1
<1>3. 0 \in Threads
  BY ThreadsFinite
<1>4. \A t, u \in Threads : pc'[t] \in Phase1 => pc'[u] \in Phase1
  BY <1>2 DEF InPhase
<1>5. pc'[0] = "sized" => \A t \in Threads : pc'[t] \in Phase2
  <2> SUFFICES ASSUME pc'[0] = "sized", NEW t \in Threads PROVE pc'[t] \in Phase2
    OBVIOUS
  <2>1. pc[0] = "sized"
    BY <1>2, <1>3 DEF Phase2
  <2> QED
    BY <1>2, <2>1 DEF InPhase
<1>6. pc'[0] \in Phase1 \cup {"sized", "gone"} <=> pc[0] \in Phase1 \cup {"sized", "gone"}
  BY <1>2, <1>3 DEF Phase2
<1> QED
  BY <1>4, <1>5, <1>6 DEF InPhase

(* While thread 0 measures nobody is past the first barrier.                *)
LEMMA PhasesMeasure ==
  ASSUME IInv, Calm, InPhase, NEW t \in Threads, Measure(t)
  PROVE  InPhase' /\ queue' = queue
<1>1. /\ pc[t] = "measure" /\ pc' = [pc EXCEPT ![t] = "enter1"] /\ UNCHANGED queue
      /\ pc \in [Threads -> Labels] /\ 0 \in Threads
  BY ThreadsFinite DEF Measure, Goto, IInv
<1>2. \A u \in Threads : pc[u] \in Phase1 /\ pc'[u] \in Phase1
  BY <1>1 DEF InPhase, Phase1
<1>3. queue = <<>> /\ pc'[0] # "sized"
  BY <1>1, <1>2 DEF InPhase, Phase1
<1> QED
  BY <1>1, <1>2, <1>3 DEF InPhase

(* A barrier opens for all threads at once.                                 *)
LEMMA PhasesBarrier ==
  ASSUME IInv, Calm, InPhase, NEW t \in Threads, Barrier1(t) \/ Barrier2(t)
  PROVE  InPhase'
<1> DEFINE enter == IF Barrier1(t) THEN "enter1" ELSE "enter2"
           asleep == IF Barrier1(t) THEN "asleep1" ELSE "asleep2"
           next == IF Barrier1(t) THEN "sized" ELSE "assign"
<1>1. Barrier(t, enter, asleep, next)
  BY DEF Barrier1, Barrier2
<1>2. \/ enter = "enter1" /\ asleep = "asleep1" /\ next = "sized"
      \/ enter = "enter2" /\ asleep = "asleep2" /\ next = "assign"
  OBVIOUS
<1> HIDE DEF enter, asleep, next
<1>3. /\ pc[t] = enter /\ UNCHANGED <<queue_size, queue>>
      /\ pc \in [Threads -> Labels] /\ 0 \in Threads
  BY <1>1, ThreadsFinite DEF Barrier, IInv
<1>4. CASE curr_tc + 1 = thread_count
  <2>1. \A u \in Threads \ {t} : pc[u] \in Asleep
    <3>1. curr_tc = Cardinality(At(pc, Asleep))
      BY DEF Calm, BarrierCounted, At
    <3>2. pc[t] \notin Asleep
      BY <1>2, <1>3 DEF Asleep
    <3> QED
      BY <1>4, <3>1, <3>2, AllMove
  <2>2. \A u \in Threads \ {t} : pc[u] = asleep
    BY <1>2, <1>3, <2>1 DEF InPhase, Phase1, Asleep
  <2>3. \A u \in Threads : pc'[u] = next
    BY <1>1, <1>2, <1>4, <2>2 DEF Barrier
  <2>4. next = "sized" => pc[0] \in Phase1
    BY <1>2, <1>3, <2>2 DEF Phase1
  <2>5. next = "assign" => pc[0] \notin Phase1 \cup {"sized", "gone"}
    BY <1>2, <1>3, <2>2 DEF Phase1
  <2> QED
    BY <1>2, <1>3, <2>3, <2>4, <2>5 DEF InPhase, Phase1, Phase2
<1>5. CASE curr_tc + 1 # thread_count
  <2>1. pc' = [pc EXCEPT ![t] = asleep]
    BY <1>1, <1>5 DEF Barrier, Goto
  <2>2. \A u \in Threads : /\ pc'[u] \in Phase1 <=> pc[u] \in Phase1
                           /\ pc[u] \in Phase2 => pc'[u] \in Phase2
                           /\ pc'[u] = "sized" <=> pc[u] = "sized"
                           /\ pc'[u] = "gone" <=> pc[u] = "gone"
    BY <1>2, <1>3, <2>1 DEF Phase1, Phase2
  <2>3. \A u, v \in Threads : pc'[u] \in Phase1 => pc'[v] \in Phase1
    BY <2>2 DEF InPhase
  <2>4. pc'[0] = "sized" => \A u \in Threads : pc'[u] \in Phase2
    BY <1>3, <2>2 DEF InPhase
  <2>5. pc'[0] \in Phase1 \cup {"sized", "gone"} <=> pc[0] \in Phase1 \cup {"sized", "gone"}
    BY <1>3, <2>2
  <2> QED
    BY <1>3, <2>3, <2>4, <2>5 DEF InPhase
<1> QED
  BY <1>4, <1>5

(* Thread 0 builds the queue while everybody else is at the barriers. *)
LEMMA PhasesSized ==
  ASSUME IInv, Calm, InPhase, NEW t \in Threads, Sized(t)
  PROVE  /\ InPhase'
         /\ queue' # queue =>
              /\ queue = <<>> /\ queue' \in Build_initial_queue
              /\ \A u \in Threads : pc[u] \in Before /\ pc'[u] \in Before
<1>1. /\ pc[t] = "sized" /\ UNCHANGED queue_size
      /\ pc' = [pc EXCEPT ![t] = IF queue_size = 0 THEN "gone" ELSE "enter2"]
      /\ pc \in [Threads -> Labels] /\ 0 \in Threads
      /\ IF t = 0 /\ queue_size # 0
         THEN queue' \in Build_initial_queue ELSE queue' = queue
  BY ThreadsFinite DEF Sized, Goto, IInv
<1>2. \A u \in Threads : pc[u] \notin Phase1 /\ pc'[u] \notin Phase1
  BY <1>1 DEF InPhase, Phase1
<1>3. CASE t = 0 /\ queue_size # 0
  <2>1. queue' # <<>> /\ queue' \in Build_initial_queue
    BY <1>1, <1>3, QueueType
  <2>2. queue = <<>> /\ \A u \in Threads : pc[u] \in Phase2
    BY <1>1, <1>3 DEF InPhase
  <2>3. pc'[0] = "enter2"
    BY <1>1, <1>3
  <2>4. InPhase'
    BY <1>1, <1>2, <1>3, <2>1, <2>3 DEF InPhase, Phase1
  <2>5. \A u \in Threads : pc[u] \in Before /\ pc'[u] \in Before
    <3>1. \A u \in Threads : pc[u] # "gone"
      BY <1>3 DEF Calm, NobodyGone
    <3> QED
      BY <1>1, <1>3, <2>2, <3>1 DEF Phase2, Before
  <2> QED
    BY <2>1, <2>2, <2>4, <2>5
<1>4. CASE ~(t = 0 /\ queue_size # 0)
  <2>1. queue' = queue
    BY <1>1, <1>4
  <2>2. pc'[0] = "sized" => pc[0] = "sized" /\ t # 0
    BY <1>1
  <2>3. pc'[0] = "sized" => \A u \in Threads : pc'[u] \in Phase2
    BY <1>1, <2>2 DEF InPhase, Phase2
  <2>4. pc'[0] \in Phase1 \cup {"sized", "gone"} <=> pc[0] \in Phase1 \cup {"sized", "gone"}
    BY <1>1, <1>4
  <2> QED
    BY <1>1, <1>2, <2>1, <2>3, <2>4 DEF InPhase
<1> QED
  BY <1>3, <1>4

(* No step without a spurious wakeup leaves the phases.                     *)
LEMMA PhasesKept ==
  ASSUME IInv, Calm, InPhase, NEW t \in Threads, Par_tree_search(t)
  PROVE  InPhase'
<1>1. pc \in [Threads -> Labels]
  BY DEF IInv
<1>2. ASSUME UNCHANGED <<queue_size, queue>>, NEW l \in Busy \cup Idle,
             pc[t] \in Busy \cup Idle, pc' = [pc EXCEPT ![t] = l]
      PROVE  InPhase'
  BY <1>1, <1>2, PhasesPast
<1>3. CASE Partition(t)
  <2>1. CASE Assign(t)
    BY <1>2, <2>1 DEF Assign, Goto, Busy, partition
  <2> QED
    BY <1>3, <2>1, PhasesMeasure, PhasesBarrier, PhasesSized DEF Partition
<1>4. CASE Terminated(t)
  <2>1. \A s : Popped(s) \in Busy \cup Idle
    BY PoppedIsBusy
  <2>2. {"waiting", "woken", "done"} \subseteq Busy \cup Idle /\ "test" \in Busy \cup Idle
    BY DEF Busy, Idle
  <2>3. CASE Proceed(t)
    BY <1>2, <2>1, <2>2, <2>3 DEF Proceed, Goto, partition
  <2>4. CASE Offer(t)
    <3> DEFINE next == [pc EXCEPT ![t] = Popped(Split_stack(stack[t], FALSE))]
    <3>1. /\ UNCHANGED <<queue, queue_size>> /\ pc[t] = "test"
          /\ \/ pc' = next
             \/ \E u \in Threads : pc[u] = "waiting" /\ pc' = [next EXCEPT ![u] = "woken"]
      BY <2>4 DEF Offer, partition
    <3>2. /\ next \in [Threads -> Labels \cup Busy \cup Idle] /\ next[t] \in Busy \cup Idle
          /\ \A u \in Threads \ {t} : next[u] = pc[u]
      BY <1>1, <2>1
    <3> HIDE DEF next
    <3>3. \A u \in Threads :
            pc'[u] = next[u] \/ (pc[u] = "waiting" /\ pc'[u] = "woken")
      BY <3>1, <3>2
    <3>4. \A u \in Threads : pc'[u] = pc[u] \/ {pc[u], pc'[u]} \subseteq Busy \cup Idle
      BY <2>2, <3>1, <3>2, <3>3
    <3> QED
      BY <3>1, <3>4, PhasesPast
  <2>5. CASE LastOne(t)
    <3>1. \A u \in Threads : pc'[u] = pc[u] \/ {pc[u], pc'[u]} \subseteq Busy \cup Idle
      BY <2>2, <2>5 DEF LastOne
    <3> QED
      BY <2>5, <3>1, PhasesPast DEF LastOne, partition
  <2>6. CASE Wait(t)
    BY <1>2, <2>2, <2>6 DEF Wait, Goto, partition
  <2>7. CASE TakeOffer(t)
    BY <1>2, <2>1, <2>2, <2>7 DEF TakeOffer, Goto, partition
  <2>8. CASE NoWorkAvail(t)
    BY <2>8, CountBounded DEF NoWorkAvail, Calm, OneIsWoken
  <2>9. CASE AllDone(t)
    BY <1>2, <2>2, <2>9 DEF AllDone, Goto, partition
  <2> QED
    BY <1>4, <2>3, <2>4, <2>5, <2>6, <2>7, <2>8, <2>9 DEF Terminated
<1>5. CASE Search(t)
  <2>1. \E l \in Busy : pc' = [pc EXCEPT ![t] = l]
    <3>1. pc = [pc EXCEPT ![t] = pc[t]]
      BY <1>1
    <3>2. CASE Expand(t)
      BY <3>1, <3>2 DEF Expand, Free_tour, Goto, Busy
    <3>3. CASE BestTour(t)
      BY <3>3 DEF BestTour, Free_tour, Goto, Busy
    <3>4. CASE Probe(t) \/ Receive(t) \/ Lock(t)
      BY <3>4 DEF Probe, Receive, Lock, Goto, Busy
    <3>5. CASE CloseTour(t)
      BY <3>5 DEF CloseTour, Free_tour, Goto, Busy
    <3> QED
      BY <1>5, <3>2, <3>3, <3>4, <3>5 DEF Search
  <2>2. pc[t] \in Busy /\ UNCHANGED <<queue_size, queue>>
    BY <1>5 DEF Search, Expand, BestTour, Probe, Receive, Lock, CloseTour, Busy, partition
  <2> QED
    BY <1>2, <2>1, <2>2
<1> QED
  BY <1>3, <1>4, <1>5 DEF Par_tree_search

-----------------------------------------------------------------------------
(* What is left to search.                                                  *)

Searched == Sound /\ (misled \/ Complete)

(* Most steps leave what the other threads hold as it is.                   *)
LEMMA HeldSame ==
  ASSUME NEW u \in Threads, queue' = queue, stack'[u] = stack[u],
         curr_tour'[u] = curr_tour[u], nbr'[u] = nbr[u],
         \/ pc'[u] = pc[u]
         \/ {pc[u], pc'[u]} \subseteq Before
         \/ {pc[u], pc'[u]} \subseteq Idle \cup {"test", "gone"}
         \/ {pc[u], pc'[u]} \subseteq {"probe", "receive", "lock"}
  PROVE  Held(u)' = Held(u)
<1>1. Share(u)' = Share(u)
  BY DEF Share
<1>2. Due(u)' = Due(u)
  BY <1>1 DEF Due, Before, Idle
<1>3. InHand(u)' = InHand(u)
  BY DEF InHand, Before, Idle
<1> QED
  BY <1>2, <1>3 DEF Held

(* The goal depends only on the queue.                                      *)
LEMMA GoalSame ==
  ASSUME queue' = queue
  PROVE  Goal' = Goal
<1>1. \A u \in Threads : Share(u)' = Share(u)
  BY DEF Share
<1> QED
  BY <1>1 DEF Goal

(* One thread and the offer change. *)
LEMMA LeftMoves ==
  ASSUME NEW t \in Threads, \A u \in Threads \ {t} : Held(u)' = Held(u)
  PROVE  \E Rest : /\ Left = Rest \cup Below(OnOffer) \cup Below(Held(t))
                   /\ Left' = Rest \cup Below(OnOffer') \cup Below(Held(t)')
<1> DEFINE Rest == {tour \in Full_tours :
                      \E u \in Threads \ {t} : tour \in Below(Held(u))}
<1>1. \A A : Below(A) \subseteq Full_tours
  BY DEF Below
<1>2. Left = Rest \cup Below(OnOffer) \cup Below(Held(t))
  BY <1>1 DEF Left
<1>3. Rest = {tour \in Full_tours : \E u \in Threads \ {t} : tour \in Below(Held(u)')}
  OBVIOUS
<1>4. Left' = {tour \in Full_tours : \/ tour \in Below(OnOffer')
                                     \/ \E u \in Threads : tour \in Below(Held(u)')}
  BY DEF Left, Below
<1> HIDE DEF Rest
<1>5. Left' = Rest \cup Below(OnOffer') \cup Below(Held(t)')
  BY <1>1, <1>3, <1>4
<1> QED
  BY <1>2, <1>5

(* Nothing changes when nobody holds anything new.                          *)
LEMMA LeftSame ==
  ASSUME OnOffer' = OnOffer, \A u \in Threads : Held(u)' = Held(u)
  PROVE  Left' = Left
BY DEF Left

(* What there is to search are full tours.                                  *)
LEMMA GoalFull == Goal \subseteq Full_tours /\ Left \subseteq Full_tours
BY DEF Goal, Left, Below

(* A tour is dropped from what is left when the best one is not dearer.     *)
LEMMA Progress ==
  ASSUME TInv, TInv', Searched, Goal' = Goal, Left' \subseteq Left,
         Settled_cost' <= Settled_cost,
         best' # <<>> => \E tour \in Goal : best' \in {tour, Append(tour, 0)},
         misled => misled',
         \A tour \in Left :
           tour \in Left' \/ misled' \/ Settled_cost' <= Closed_cost(tour)
  PROVE  Searched'
<1>1. Settled_cost \in Nat /\ INFINITY \in Nat /\ Settled_cost' \in Nat
  <2>1. Settled_cost' \in Nat
    <3>1. (TInv => Settled_cost \in Nat)'
      BY Settled, PTL
    <3> QED
      BY <3>1
  <2> QED
    BY <2>1, Settled, TourAssumption
<1>2. Sound'
  <2>1. Settled_cost' <= INFINITY
    BY <1>1 DEF Searched, Sound
  <2> QED
    BY <2>1 DEF Searched, Sound
<1>3. ASSUME ~misled' PROVE Complete'
  <2>1. Complete
    BY <1>3 DEF Searched
  <2>2. ASSUME NEW tour \in Goal
        PROVE  tour \in Left' \/ Settled_cost' <= Closed_cost(tour)
    <3>1. Closed_cost(tour) \in Nat
      BY GoalFull, FullTour
    <3>2. CASE tour \in Left
      BY <1>3, <3>2
    <3>3. CASE Settled_cost <= Closed_cost(tour)
      BY <1>1, <3>1, <3>3
    <3> QED
      BY <2>1, <3>2, <3>3 DEF Complete
  <2> QED
    BY <2>2 DEF Complete
<1> QED
  BY <1>2, <1>3 DEF Searched

(* A step that searches nothing keeps the search as it is.                  *)
LEMMA NothingSearched ==
  ASSUME TInv, TInv', Searched, Goal' = Goal, Left' = Left, UNCHANGED <<best, misled>>
  PROVE  Searched'
<1>1. Settled_cost' = Settled_cost /\ Settled_cost \in Nat
  BY Settled DEF Settled_cost, Best_cost, Open
<1> QED
  BY <1>1, Progress DEF Searched, Sound

(* A thread pops a tour of a stack. *)
LEMMA PopLeaves ==
  ASSUME TInv, NEW t \in Threads, NEW s \in Seq(Partials), s # <<>>, Pop(t, s),
         pc'[t] = Popped(s)
  PROVE  Below(Held(t)') = Below(Range(s))
<1> DEFINE tour == Last(s)
<1>1. /\ tour \in Partials /\ Len(tour) \in 1 .. n
      /\ Range(s) = Range(Front(s)) \cup {tour}
  BY PopStack, PartialIs
<1>2. /\ stack'[t] = Front(s) /\ curr_tour'[t] = tour /\ nbr'[t] = Next_nbr(tour, n)
      /\ pc'[t] = IF Len(tour) = n THEN "probe" ELSE "expand"
  BY DEF Pop, Popped, TInv, Typed
<1> HIDE DEF tour
<1>3. Due(t)' = {}
  BY <1>2 DEF Due, Before
<1>4. Below(InHand(t)') = Below({tour})
  <2>1. CASE Len(tour) = n
    BY <1>2, <2>1 DEF InHand
  <2>2. CASE Len(tour) # n
    <3>1. Len(tour) < n
      BY <1>1, <2>2, TheCities
    <3>2. InHand(t)' = {Append(tour, c) : c \in Unvisited(tour, Next_nbr(tour, n) + 1)}
      BY <1>2, <2>2 DEF InHand
    <3>3. Unvisited(tour, Next_nbr(tour, n) + 1) = Unvisited(tour, n)
      <4>1. /\ Next_nbr(tour, n) \in Unvisited(tour, n)
            /\ \A c \in Unvisited(tour, n) : c <= Next_nbr(tour, n)
        BY <1>1, <3>1, NextNbr, SomewhereToGo, TheCities
      <4> QED
        BY <4>1, TheCities DEF Unvisited
    <3> QED
      BY <1>1, <3>1, <3>2, <3>3, BelowLonger
  <2> QED
    BY <2>1, <2>2
<1>5. Held(t)' = Range(Front(s)) \cup InHand(t)'
  BY <1>2, <1>3 DEF Held
<1>6. Below(Held(t)') = Below(Range(Front(s))) \cup Below(InHand(t)')
  BY <1>5, BelowUnion
<1>7. Below(Range(s)) = Below(Range(Front(s))) \cup Below({tour})
  BY <1>1, BelowUnion
<1> QED
  BY <1>4, <1>6, <1>7

(* The partition moves no tour: a thread's share is on its stack before it  *)
(* searches.                                                                *)
LEMMA PartitionSearches ==
  ASSUME IInv, Calm, InPhase, TInv, TInv', Searched, NEW t \in Threads, Partition(t)
  PROVE  Searched'
<1>1. \A u \in Threads : pc[u] \in Before => stack[u] = <<>>
  BY DEF TInv, Fitting, Fits, Resting
<1>2. /\ pc \in [Threads -> Labels] /\ pc[t] \in Before
      /\ UNCHANGED <<offered, best, misled, curr_tour, nbr>>
  BY DEF IInv, Partition, Measure, Barrier1, Barrier2, Barrier, Sized, Assign,
         Before, search, bound, term
<1>3. OnOffer' = OnOffer
  BY <1>2 DEF OnOffer
<1>4. ASSUME queue' = queue, \A u \in Threads : Held(u)' = Held(u) PROVE Searched'
  BY <1>2, <1>3, <1>4, GoalSame, LeftSame, NothingSearched
<1>5. CASE Measure(t)
  <2>1. queue' = queue /\ UNCHANGED stack /\ pc[t] = "measure" /\ pc' = [pc EXCEPT ![t] = "enter1"]
    BY <1>5, PhasesMeasure DEF Measure, Goto, search
  <2>2. \A u \in Threads : pc'[u] = pc[u] \/ {pc[u], pc'[u]} \subseteq Before
    BY <1>2, <2>1 DEF Before
  <2> QED
    BY <1>2, <1>4, <2>1, <2>2, HeldSame
<1>6. CASE Barrier1(t) \/ Barrier2(t)
  <2>1. queue' = queue /\ UNCHANGED stack
    BY <1>6 DEF Barrier1, Barrier2, Barrier, search
  <2>2. \A u \in Threads : pc'[u] = pc[u] \/ {pc[u], pc'[u]} \subseteq Before
    BY <1>2, <1>6 DEF Before, Barrier1, Barrier2, Barrier, Goto
  <2> QED
    BY <1>2, <1>4, <2>1, <2>2, HeldSame
<1>7. CASE Sized(t)
  <2>1. /\ pc[t] = "sized" /\ UNCHANGED <<queue_size, stack>>
        /\ pc' = [pc EXCEPT ![t] = IF queue_size = 0 THEN "gone" ELSE "enter2"]
    BY <1>7 DEF Sized, Goto, search
  <2>2. CASE queue' = queue
    <3>1. \A u \in Threads \ {t} : Held(u)' = Held(u)
      BY <1>2, <2>1, <2>2, HeldSame
    <3>2. CASE queue_size # 0
      <4>1. {pc[t], pc'[t]} \subseteq Before
        BY <1>2, <2>1, <3>2 DEF Before
      <4> QED
        BY <1>2, <1>4, <2>1, <2>2, <3>1, <4>1, HeldSame
    <3>3. CASE queue_size = 0
      <4>1. Share(t) = {}
        BY <3>3, InitTours DEF InPhase, TInv, Typed
      <4>2. pc'[t] = "gone"
        BY <1>2, <2>1, <3>3
      <4>3. Due(t) = {} /\ Due(t)' = {} /\ InHand(t) = {} /\ InHand(t)' = {}
        BY <2>1, <4>1, <4>2 DEF Due, InHand, Before
      <4>4. Held(t)' = Held(t)
        BY <2>1, <4>3 DEF Held
      <4> QED
        BY <1>4, <2>2, <3>1, <4>4
    <3> QED
      BY <3>2, <3>3
  <2>3. CASE queue' # queue
    <3>1. queue = <<>> /\ \A u \in Threads : pc[u] \in Before /\ pc'[u] \in Before
      BY <1>7, <2>3, PhasesSized
    <3>2. Goal = {}
      <4>1. \A u \in Threads : Share(u) = {}
        BY <3>1, InitTours DEF TInv, Typed
      <4> QED
        BY <4>1, BelowUnion DEF Goal
    <3>3. best' = <<>> /\ UNCHANGED <<best, misled>>
      BY <1>2, <3>2 DEF Searched, Sound
    <3>4. OnOffer' = {}
      <4>1. count < thread_count
        BY <1>2, CountBounded DEF Before, Idle
      <4>2. offered = NULL
        BY <3>1, <4>1 DEF Calm, OneIsWoken, Before
      <4> QED
        BY <1>3, <4>2 DEF OnOffer
    <3>5. \A u \in Threads : Held(u)' = Share(u)'
      <4> TAKE u \in Threads
      <4>1. stack'[u] = <<>>
        BY <1>1, <2>1, <3>1
      <4>2. Due(u)' = Share(u)' /\ InHand(u)' = {}
        BY <3>1 DEF Due, InHand, Before
      <4>3. Range(stack'[u]) = {}
        BY <4>1 DEF Range
      <4> QED
        BY <4>2, <4>3 DEF Held
    <3>6. Left' = Goal'
      BY <3>4, <3>5, BelowUnion DEF Left, Goal
    <3>7. Settled_cost' = Settled_cost
      BY <3>3 DEF Settled_cost, Best_cost, Open
    <3> QED
      BY <3>3, <3>6, <3>7 DEF Searched, Sound, Complete
  <2> QED
    BY <2>2, <2>3
<1>8. CASE Assign(t)
  <2>1. /\ pc[t] = "assign" /\ queue' = queue /\ pc' = [pc EXCEPT ![t] = "test"]
        /\ stack' = [stack EXCEPT ![t] = Set_init_tours(t)]
        /\ stack \in [Threads -> Seq(Partials)]
    BY <1>8 DEF Assign, Goto, partition, TInv, Typed
  <2>2. \A u \in Threads \ {t} : Held(u)' = Held(u)
    BY <1>2, <2>1, HeldSame
  <2>3. Range(stack[t]) = {} /\ Range(stack'[t]) = Share(t)
    <3>1. stack[t] = <<>>
      BY <1>1, <1>2
    <3>2. Range(Set_init_tours(t)) = Share(t)
      BY InitTours DEF TInv, Typed
    <3> QED
      BY <2>1, <3>1, <3>2 DEF Range
  <2>4. Due(t) = Share(t) /\ InHand(t) = {} /\ Due(t)' = {} /\ InHand(t)' = {}
    BY <1>2, <2>1 DEF Due, InHand, Before
  <2>5. Held(t)' = Held(t)
    BY <2>3, <2>4 DEF Held
  <2> QED
    BY <1>4, <2>1, <2>2, <2>5
<1> QED
  BY <1>5, <1>6, <1>7, <1>8 DEF Partition

(* Work that is shared is neither lost nor done twice.                      *)
LEMMA TerminatedSearches ==
  ASSUME IInv, Calm, TInv, TInv', Searched, NEW t \in Threads, Terminated(t)
  PROVE  Searched'
<1>1. /\ pc \in [Threads -> Labels] /\ stack \in [Threads -> Seq(Partials)]
      /\ curr_tour \in [Threads -> Partials \cup {<<>>}] /\ nbr \in [Threads -> Cities]
  BY DEF IInv, TInv, Typed
<1>2. UNCHANGED <<queue, best, misled>> /\ Goal' = Goal
  BY GoalSame DEF Terminated, Proceed, Offer, LastOne, Wait, TakeOffer, NoWorkAvail,
                  AllDone, partition, bound
<1>3. ASSUME Left' = Left PROVE Searched'
  BY <1>2, <1>3, NothingSearched
<1>4. ASSUME pc[t] \in {"test", "woken"}
      PROVE  Held(t) = Range(stack[t])
  BY <1>4 DEF Held, Due, InHand, Before
<1>5. ASSUME NEW s, Pop(t, s),
             \A u \in Threads \ {t} :
               pc'[u] = pc[u] \/ {pc[u], pc'[u]} \subseteq Idle \cup {"test", "gone"}
      PROVE  \A u \in Threads \ {t} : Held(u)' = Held(u)
  <2>1. \A u \in Threads \ {t} :
          stack'[u] = stack[u] /\ curr_tour'[u] = curr_tour[u] /\ nbr'[u] = nbr[u]
    BY <1>1, <1>5 DEF Pop
  <2> QED
    BY <1>2, <1>5, <2>1, HeldSame
<1>6. ASSUME UNCHANGED <<search, offered>>,
             \A u \in Threads : \/ pc'[u] = pc[u]
                                \/ {pc[u], pc'[u]} \subseteq Idle \cup {"test", "gone"}
      PROVE  Searched'
  <2>1. \A u \in Threads : Held(u)' = Held(u)
    BY <1>2, <1>6, HeldSame DEF search
  <2>2. OnOffer' = OnOffer
    BY <1>6 DEF OnOffer
  <2> QED
    BY <1>3, <2>1, <2>2, LeftSame
<1>7. CASE Proceed(t)
  <2>1. /\ pc[t] = "test" /\ stack[t] # <<>> /\ Pop(t, stack[t]) /\ UNCHANGED offered
        /\ pc' = [pc EXCEPT ![t] = Popped(stack[t])]
    BY <1>7 DEF Proceed, Goto, term
  <2>2. \A u \in Threads \ {t} : Held(u)' = Held(u)
    BY <1>1, <1>5, <2>1
  <2>3. Below(Held(t)') = Below(Held(t))
    BY <1>1, <1>4, <2>1, PopLeaves
  <2>4. OnOffer' = OnOffer
    BY <2>1 DEF OnOffer
  <2> QED
    BY <1>3, <2>2, <2>3, <2>4, LeftMoves
<1>8. CASE Offer(t)
  <2> DEFINE s == stack[t]
             kept == Split_stack(s, FALSE)
             given == Split_stack(s, TRUE)
             next == [pc EXCEPT ![t] = Popped(kept)]
  <2>1. /\ pc[t] = "test" /\ offered = NULL /\ offered' = <<given>> /\ Pop(t, kept)
        /\ \/ pc' = next
           \/ \E u \in Threads : pc[u] = "waiting" /\ pc' = [next EXCEPT ![u] = "woken"]
    BY <1>8 DEF Offer, CanSplit
  <2>2. s \in Seq(Partials) /\ Len(s) >= 2
    <3>1. Len(s) >= min_split_sz
      BY <1>8 DEF Offer, CanSplit
    <3> QED
      BY <1>1, <3>1, TourAssumption
  <2>3. /\ kept \in Seq(Partials) /\ kept # <<>> /\ Range(given) \cup Range(kept) = Range(s)
    BY <2>2, SplitStack
  <2> HIDE DEF s, kept, given
  <2>4. /\ pc'[t] = Popped(kept)
        /\ \A u \in Threads \ {t} :
             pc'[u] = pc[u] \/ {pc[u], pc'[u]} \subseteq Idle \cup {"test", "gone"}
    BY <1>1, <2>1 DEF Idle
  <2>5. \A u \in Threads \ {t} : Held(u)' = Held(u)
    BY <1>5, <2>1, <2>4
  <2>6. OnOffer = {} /\ OnOffer' = Range(given)
    BY <2>1 DEF OnOffer, NULL
  <2>7. Held(t) = Range(s) /\ Below(Held(t)') = Below(Range(kept))
    BY <1>4, <2>1, <2>3, <2>4, PopLeaves DEF s
  <2>8. Below(OnOffer') \cup Below(Held(t)') = Below(OnOffer) \cup Below(Held(t))
    BY <2>3, <2>6, <2>7, BelowUnion
  <2> QED
    BY <1>3, <2>5, <2>8, LeftMoves
<1>9. CASE LastOne(t)
  BY <1>1, <1>6, <1>9 DEF LastOne, Idle, search
<1>10. CASE Wait(t)
  BY <1>1, <1>6, <1>10 DEF Wait, Goto, Idle, search
<1>11. CASE TakeOffer(t)
  <2> DEFINE s == offered[1]
  <2>1. /\ pc[t] = "woken" /\ offered # NULL /\ offered' = NULL /\ Pop(t, s)
        /\ pc' = [pc EXCEPT ![t] = Popped(s)]
    BY <1>11 DEF TakeOffer, Goto
  <2>2. s \in Seq(Partials) /\ s # <<>>
    BY <2>1 DEF TInv, OfferedType
  <2> HIDE DEF s
  <2>3. \A u \in Threads \ {t} : Held(u)' = Held(u)
    BY <1>1, <1>5, <2>1
  <2>4. OnOffer = Range(s) /\ OnOffer' = {}
    BY <2>1 DEF OnOffer, s
  <2>5. Held(t) = {} /\ Below(Held(t)') = Below(Range(s))
    <3>1. stack[t] = <<>>
      BY <2>1 DEF TInv, Fitting, Fits, Resting, Idle
    <3>2. Range(stack[t]) = {}
      BY <3>1 DEF Range
    <3> QED
      BY <1>1, <1>4, <2>1, <2>2, <3>2, PopLeaves
  <2>6. Below(OnOffer') \cup Below(Held(t)') = Below(OnOffer) \cup Below(Held(t))
    BY <2>4, <2>5, BelowUnion
  <2> QED
    BY <1>3, <2>3, <2>6, LeftMoves
<1>12. CASE NoWorkAvail(t)
  BY <1>12 DEF NoWorkAvail, Calm, OneIsWoken
<1>13. CASE AllDone(t)
  BY <1>1, <1>6, <1>13 DEF AllDone, Goto, Idle, term
<1> QED
  BY <1>7, <1>8, <1>9, <1>10, <1>11, <1>12, <1>13 DEF Terminated

(* A turn of the loop over the cities: the longer tour goes on the stack or *)
(* is dropped, and so is every full tour below it.                          *)
LEMMA ExpandSearches ==
  ASSUME IInv, TInv, TInv', Searched, NEW t \in Threads, Expand(t)
  PROVE  Searched'
<1> DEFINE tour == curr_tour[t]
           longer == Append(tour, nbr[t])
           following == Next_nbr(tour, nbr[t])
           cheap == Tour_cost(longer) < Best_cost
           later == {Append(tour, c) : c \in Unvisited(tour, nbr[t])}
<1>1. /\ pc[t] = "expand" /\ Compare(Tour_cost(longer))
      /\ stack' = [stack EXCEPT ![t] = IF cheap THEN Append(@, longer) ELSE @]
      /\ UNCHANGED <<queue, best, offered>>
      /\ \/ following = 0 /\ Free_tour(t)
         \/ following # 0 /\ nbr' = [nbr EXCEPT ![t] = following] /\ UNCHANGED <<pc, curr_tour>>
  BY DEF Expand, partition, term
<1>2. /\ pc \in [Threads -> Labels] /\ stack \in [Threads -> Seq(Partials)]
      /\ curr_tour \in [Threads -> Partials \cup {<<>>}] /\ nbr \in [Threads -> Cities]
  BY DEF IInv, TInv, Typed
<1>3. /\ tour \in Partials /\ Len(tour) < n /\ nbr[t] \in Unvisited(tour, n)
      /\ nbr[t] \in 1 .. (n - 1) /\ longer \in Partials
  BY <1>1, Longer DEF TInv, Fitting, Fits, Unvisited
<1>4. Range(stack'[t]) = IF cheap THEN Range(stack[t]) \cup {longer} ELSE Range(stack[t])
  BY <1>1, <1>2, <1>3, PushStack
<1>5. Due(t) = {} /\ InHand(t) = later \cup {longer}
  <2>1. Unvisited(tour, nbr[t] + 1) = Unvisited(tour, nbr[t]) \cup {nbr[t]}
    BY <1>3, TheCities DEF Unvisited
  <2> QED
    BY <1>1, <2>1 DEF Due, InHand, Before
<1>6. Due(t)' = {} /\ InHand(t)' = later
  <2>1. nbr[t] \in 0 .. n
    BY <1>3, TheCities
  <2>2. CASE following = 0
    <3>1. Unvisited(tour, nbr[t]) = {}
      BY <2>1, <2>2, NextNbr
    <3>2. pc'[t] = "test"
      BY <1>1, <1>2, <2>2 DEF Free_tour, Goto
    <3> QED
      BY <3>1, <3>2 DEF Due, InHand, Before
  <2>3. CASE following # 0
    <3>1. /\ following \in Unvisited(tour, nbr[t])
          /\ \A c \in Unvisited(tour, nbr[t]) : c <= following
      BY <2>1, <2>3, NextNbr
    <3>2. Unvisited(tour, following + 1) = Unvisited(tour, nbr[t])
      BY <1>3, <3>1, TheCities DEF Unvisited
    <3>3. pc'[t] = "expand" /\ curr_tour'[t] = tour /\ nbr'[t] = following
      BY <1>1, <1>2, <2>3
    <3> QED
      BY <3>2, <3>3 DEF Due, InHand, Before
  <2> QED
    BY <2>2, <2>3
<1>7. \A u \in Threads \ {t} : Held(u)' = Held(u)
  <2>1. \A u \in Threads \ {t} :
          /\ stack'[u] = stack[u] /\ curr_tour'[u] = curr_tour[u]
          /\ nbr'[u] = nbr[u] /\ pc'[u] = pc[u]
    BY <1>1, <1>2 DEF Free_tour, Goto
  <2> QED
    BY <1>1, <2>1, HeldSame
<1> HIDE DEF later, cheap, longer, following, tour
<1>8. Held(t) = Range(stack[t]) \cup later \cup {longer}
  BY <1>5 DEF Held
<1>9. Held(t)' = IF cheap THEN Range(stack[t]) \cup later \cup {longer}
                          ELSE Range(stack[t]) \cup later
  BY <1>4, <1>6 DEF Held
<1>10. OnOffer' = OnOffer
  BY <1>1 DEF OnOffer
<1>11. Goal' = Goal /\ UNCHANGED best /\ Settled_cost' = Settled_cost
  BY <1>1, GoalSame DEF Settled_cost, Best_cost, Open
<1>12. Settled_cost \in Nat /\ Best_cost \in Nat /\ misled => misled'
  BY <1>1, Settled DEF Compare
<1>13. CASE cheap
  <2>1. Left' = Left
    BY <1>7, <1>8, <1>9, <1>10, <1>13, LeftMoves
  <2> QED
    BY <1>11, <1>12, <2>1, Settled, Progress DEF Searched, Sound
<1>14. CASE ~cheap
  <2>1. /\ Left' \subseteq Left
        /\ \A p \in Left : p \in Left' \/ p \in Below({longer})
    <3>1. Below(Held(t)) = Below(Held(t)') \cup Below({longer})
      BY <1>8, <1>9, <1>14, BelowUnion
    <3> QED
      BY <1>7, <1>10, <3>1, LeftMoves
  <2>2. ASSUME NEW p \in Below({longer}) PROVE misled' \/ Settled_cost <= Closed_cost(p)
    <3>1. Tour_cost(longer) <= Closed_cost(p)
      BY <1>3, BelowCosts
    <3>2. Closed_cost(p) \in Nat
      BY FullTour DEF Below
    <3>3. Tour_cost(longer) \in Nat
      BY <1>3, PartialIs, CostType
    <3>4. misled' \/ ~(Best_cost <= Tour_cost(longer) /\ Tour_cost(longer) < Settled_cost)
      BY <1>1 DEF Compare
    <3>5. Best_cost <= Tour_cost(longer)
      BY <1>14, <3>3, Settled DEF cheap
    <3> QED
      BY <3>1, <3>2, <3>3, <3>4, <3>5, Settled
  <2>3. Settled_cost' <= Settled_cost
    BY <1>11, Settled
  <2>4. misled => misled'
    BY <1>1 DEF Compare
  <2>5. best' # <<>> => \E p \in Goal : best' \in {p, Append(p, 0)}
    BY <1>11 DEF Searched, Sound
  <2>6. \A p \in Left : p \in Left' \/ misled' \/ Settled_cost' <= Closed_cost(p)
    BY <1>11, <2>1, <2>2
  <2> QED
    BY <1>11, <2>1, <2>3, <2>4, <2>5, <2>6, Progress
<1> QED
  BY <1>13, <1>14

(* The best tour is replaced by the tour that is compared with it, or that  *)
(* tour is dropped.                                                         *)
LEMMA BestTourSearches ==
  ASSUME IInv, TInv, TInv', Searched, NEW t \in Threads, BestTour(t)
  PROVE  Searched'
<1> DEFINE tour == curr_tour[t]
           better == Closed_cost(tour) < Best_cost
<1>1. pc[t] = "probe" /\ UNCHANGED <<queue, stack, offered>>
  BY DEF BestTour, partition, term
<1>2. /\ pc \in [Threads -> Labels] /\ curr_tour \in [Threads -> Partials \cup {<<>>}]
      /\ nbr \in [Threads -> Cities]
  BY DEF IInv, TInv, Typed
<1>3. tour \in Partials /\ Len(tour) = n /\ Closed_cost(tour) \in Nat
  BY <1>1, WholeTour
<1>4. \A u \in Threads \ {t} : Held(u)' = Held(u)
  <2>1. \A u \in Threads \ {t} :
          pc'[u] = pc[u] /\ curr_tour'[u] = curr_tour[u] /\ nbr'[u] = nbr[u]
    BY <1>2 DEF BestTour, Free_tour, Goto
  <2> QED
    BY <1>1, <2>1, HeldSame
<1>5. Held(t) = Range(stack[t]) \cup {tour}
  BY <1>1 DEF Held, Due, InHand, Before
<1>6. /\ OnOffer' = OnOffer /\ Goal' = Goal
      /\ Below(Held(t)) = Below(Range(stack[t])) \cup {tour}
  <2>1. Below(Held(t)) = Below(Range(stack[t])) \cup Below({tour})
    BY <1>5, BelowUnion
  <2>2. Below({tour}) = {tour}
    BY <1>3, BelowFull
  <2> QED
    BY <1>1, <2>1, <2>2, GoalSame DEF OnOffer
<1>7. Settled_cost' <= Settled_cost
  BY BestTourImproves, Settled
<1>8. misled => misled'
  BY DEF BestTour, Compare
<1>9. tour \in Left /\ tour \in Goal
  <2>1. tour \in Below(Held(t))
    BY <1>6
  <2> QED
    BY <2>1 DEF Left, Searched, Sound, Below
<1>10. best' # <<>> => \E p \in Goal : best' \in {p, Append(p, 0)}
  <2>1. best' = best \/ best' = tour
    BY DEF BestTour
  <2> QED
    BY <1>9, <2>1 DEF Searched, Sound
<1>11. CASE pc'[t] = "lock"
  <2>1. Held(t)' = Held(t)
    <3>1. curr_tour' = curr_tour
      BY <1>2, <1>11 DEF BestTour, Free_tour, Goto
    <3> QED
      BY <1>1, <1>5, <1>11, <3>1 DEF Held, Due, InHand, Before
  <2>2. Left' = Left
    BY <1>4, <1>6, <2>1, LeftMoves
  <2> QED
    BY <1>6, <1>7, <1>8, <1>10, <2>2, Progress
<1>12. CASE pc'[t] # "lock"
  <2>1. pc'[t] \in {"close", "test"}
    BY <1>2, <1>12 DEF BestTour, Free_tour, Goto
  <2>2. Held(t)' = Range(stack[t])
    BY <1>1, <2>1 DEF Held, Due, InHand, Before
  <2>3. /\ Left' \subseteq Left
        /\ \A p \in Left : p \in Left' \/ p = tour
    <3>1. Below(Held(t)) = Below(Held(t)') \cup {tour}
      BY <1>6, <2>2
    <3> QED
      BY <1>4, <1>6, <3>1, LeftMoves
  <2>4. misled' \/ Settled_cost' <= Closed_cost(tour)
    <3>1. Best_cost \in Nat /\ Settled_cost \in Nat /\ (~Open => Settled_cost = Best_cost)
      BY Settled
    <3>2. CASE best_mutex # t
      <4>1. ~better /\ Compare(Closed_cost(tour)) /\ best' = best
        BY <1>2, <1>12, <3>2 DEF BestTour, Goto
      <4>2. misled' \/ Settled_cost <= Closed_cost(tour)
        <5>1. misled' \/ ~(Best_cost <= Closed_cost(tour) /\ Closed_cost(tour) < Settled_cost)
          BY <4>1 DEF Compare
        <5>2. Best_cost <= Closed_cost(tour)
          BY <1>3, <3>1, <4>1
        <5> HIDE DEF tour
        <5> QED
          BY <1>3, <3>1, <5>1, <5>2
      <4>3. Settled_cost' = Settled_cost
        BY <4>1, BestTourImproves
      <4> QED
        BY <4>2, <4>3
    <3>3. CASE best_mutex = t /\ better
      <4>1. best' = tour
        BY <3>3 DEF BestTour
      <4>2. best' # best
        <5>1. best # tour
          <6> SUFFICES ASSUME best = tour PROVE FALSE
            OBVIOUS
          <6>1. Open
            BY <1>3 DEF Open
          <6>2. PICK u \in Threads : pc[u] = "close"
            BY <6>1 DEF TInv, Guarded
          <6>3. u = t
            BY <3>3, <6>2 DEF TInv, Guarded
          <6> QED
            BY <1>1, <6>2, <6>3
        <5> QED
          BY <4>1, <5>1
      <4>3. Settled_cost' = Closed_cost(tour)
        BY <4>2, BestTourImproves
      <4> QED
        BY <1>3, <4>3
    <3>4. CASE best_mutex = t /\ ~better
      <4>1. ~Open
        BY <1>1, <3>4 DEF TInv, Guarded
      <4>2. best' = best
        BY <3>4 DEF BestTour
      <4>3. Settled_cost' = Settled_cost
        BY <4>2, BestTourImproves
      <4>4. Best_cost <= Closed_cost(tour)
        BY <1>3, <3>1, <3>4
      <4> QED
        BY <3>1, <4>1, <4>3, <4>4
    <3> QED
      BY <3>2, <3>3, <3>4
  <2> QED
    BY <1>6, <1>7, <1>8, <1>10, <2>3, <2>4, Progress
<1> QED
  BY <1>11, <1>12

(* Costs of other processes do not change what is left.                     *)
LEMMA MessageSearches ==
  ASSUME IInv, TInv, TInv', Searched, NEW t \in Threads, Probe(t) \/ Receive(t) \/ Lock(t)
  PROVE  Searched'
<1>1. /\ UNCHANGED <<queue, stack, curr_tour, nbr, offered, best, misled>>
      /\ \E l \in {"probe", "receive", "lock"} :
           pc[t] \in {"probe", "receive", "lock"} /\ pc' = [pc EXCEPT ![t] = l]
  BY DEF Probe, Receive, Lock, Goto, partition, search, bound, term
<1>2. \A u \in Threads : \/ pc'[u] = pc[u]
                         \/ {pc[u], pc'[u]} \subseteq {"probe", "receive", "lock"}
  BY <1>1 DEF IInv
<1>3. \A u \in Threads : Held(u)' = Held(u)
  BY <1>1, <1>2, HeldSame
<1>4. OnOffer' = OnOffer
  BY <1>1 DEF OnOffer
<1> QED
  BY <1>1, <1>3, <1>4, GoalSame, LeftSame, NothingSearched

(* Closing the best tour changes neither its cost nor what is left.         *)
LEMMA CloseTourSearches ==
  ASSUME IInv, TInv, TInv', Searched, NEW t \in Threads, CloseTour(t)
  PROVE  Searched'
<1>1. /\ pc[t] = "close" /\ UNCHANGED <<queue, stack, offered, misled>>
      /\ pc' = [pc EXCEPT ![t] = "test"]
      /\ curr_tour' = [curr_tour EXCEPT ![t] = <<>>] /\ nbr' = [nbr EXCEPT ![t] = 0]
      /\ pc \in [Threads -> Labels] /\ curr_tour \in [Threads -> Partials \cup {<<>>}]
      /\ nbr \in [Threads -> Cities]
  BY DEF CloseTour, Free_tour, Goto, partition, term, IInv, TInv, Typed
<1>2. \A u \in Threads : Held(u)' = Held(u)
  <2>1. \A u \in Threads \ {t} : Held(u)' = Held(u)
    BY <1>1, HeldSame
  <2>2. Held(t)' = Held(t)
    BY <1>1 DEF Held, Due, InHand, Before
  <2> QED
    BY <2>1, <2>2
<1>3. Left' = Left /\ Goal' = Goal
  <2>1. OnOffer' = OnOffer
    BY <1>1 DEF OnOffer
  <2> QED
    BY <1>1, <1>2, <2>1, LeftSame, GoalSame
<1>4. /\ Settled_cost' = Settled_cost /\ Settled_cost \in Nat
      /\ best = curr_tour[t] /\ best' = Append(best, 0)
  BY CloseTourSettles, Settled
<1>5. \E tour \in Goal : best' \in {tour, Append(tour, 0)}
  <2>1. best \in Seq(Cities) /\ Len(best) = n /\ best # <<>>
    BY <1>1, <1>4, WholeTour, TheCities
  <2>2. PICK tour \in Goal : best \in {tour, Append(tour, 0)}
    BY <2>1 DEF Searched, Sound
  <2>3. Len(Append(tour, 0)) = n + 1
    BY GoalFull, FullTour, TheCities
  <2>4. best = tour
    BY <2>1, <2>2, <2>3, TheCities
  <2> QED
    BY <1>4, <2>4
<1> QED
  BY <1>1, <1>3, <1>4, <1>5, Progress

(* In the beginning there is no queue yet, and nothing to search.           *)
LEMMA InitSearches == Init => SInv
<1> SUFFICES ASSUME Init PROVE InPhase /\ Sound /\ Complete
  BY DEF SInv
<1>1. /\ \A t \in Threads : pc[t] \in {"measure", "enter1"}
      /\ queue = <<>> /\ best = <<>> /\ offered = NULL
      /\ \A t \in Threads : stack[t] = <<>> /\ 0 \in Threads
  BY ThreadsFinite DEF Init
<1>2. InPhase
  BY <1>1, ThreadsFinite DEF InPhase, Phase1
<1>3. TInv
  BY InitTypes
<1>4. \A t \in Threads : Share(t) = {}
  BY <1>1, <1>3, InitTours DEF TInv, Typed
<1>5. \A t \in Threads : Held(t) = {}
  <2> TAKE t \in Threads
  <2>1. Range(stack[t]) = {}
    BY <1>1 DEF Range
  <2>2. Due(t) = {} /\ InHand(t) = {}
    BY <1>1, <1>4 DEF Due, InHand
  <2> QED
    BY <2>1, <2>2 DEF Held
<1>6. Goal = {} /\ Left = {}
  BY <1>1, <1>4, <1>5, BelowUnion DEF Goal, Left, OnOffer
<1>7. Settled_cost <= INFINITY
  <2>1. ~Open
    BY <1>1, TheCities DEF Open
  <2>2. Settled_cost = INFINITY
    BY <1>1, <2>1 DEF Settled_cost, Best_cost
  <2> QED
    BY <2>2, TourAssumption
<1> QED
  BY <1>1, <1>2, <1>6, <1>7 DEF Sound, Complete

(* Every step keeps what is known of the search.                            *)
LEMMA StepSearches == IInv /\ TInv /\ TInv' /\ SInv /\ [Next]_vars => SInv'
<1> SUFFICES ASSUME IInv, TInv, TInv', SInv, [Next]_vars, spurious' = 0 PROVE SInv'
  BY DEF SInv
<1>1. spurious \in Nat
  BY DEF IInv
<1>2. ASSUME NEW t \in Threads, Par_tree_search(t) PROVE SInv'
  <2>1. spurious' = spurious
    BY <1>2 DEF Par_tree_search, Partition, Measure, Barrier1, Barrier2, Barrier, Sized,
         Assign, Terminated, Proceed, Offer, LastOne, Wait, TakeOffer, NoWorkAvail,
         AllDone, Search, Expand, BestTour, Probe, Receive, Lock, CloseTour
  <2>2. Calm /\ InPhase /\ Searched
    BY <2>1 DEF IInv, SInv, Searched
  <2>3. Searched'
    BY <1>2, <2>2, PartitionSearches, TerminatedSearches, ExpandSearches,
       BestTourSearches, MessageSearches, CloseTourSearches DEF Par_tree_search, Search
  <2>4. InPhase'
    BY <1>2, <2>2, PhasesKept
  <2> QED
    BY <2>3, <2>4 DEF SInv, Searched
<1>3. ASSUME NEW t \in Threads, SpuriousWakeup(t) PROVE SInv'
  BY <1>1, <1>3 DEF SpuriousWakeup
<1>4. ASSUME (\E p \in Peers : CostArrives(p)) \/ UNCHANGED vars PROVE SInv'
  <2>1. UNCHANGED <<queue_size, queue, pc, stack, curr_tour, nbr, best, misled, offered, spurious>>
    BY <1>4 DEF CostArrives, vars, partition, search, bound, term
  <2>2. InPhase /\ Searched
    BY <2>1 DEF SInv, Searched
  <2>3. \A u \in Threads : Held(u)' = Held(u)
    BY <2>1, HeldSame
  <2>4. OnOffer' = OnOffer
    BY <2>1 DEF OnOffer
  <2>5. Searched'
    BY <2>1, <2>2, <2>3, <2>4, GoalSame, LeftSame, NothingSearched
  <2>6. InPhase'
    BY <2>1, <2>2 DEF InPhase
  <2> QED
    BY <2>5, <2>6 DEF SInv, Searched
<1> QED
  BY <1>2, <1>3, <1>4 DEF Next

(* As long as no condition variable woke a thread that nobody signalled,    *)
(* every full tour that the process was given is still left to search, or   *)
(* the best tour is not dearer, unless a tour was dropped for the cost of   *)
(* an open one (main.c:403-660).                                            *)
THEOREM SearchInductive == Spec => [](IInv /\ TInv /\ SInv)
<1>1. Init => SInv
  BY InitSearches
<1>2. IInv /\ TInv /\ (IInv /\ TInv)' /\ SInv /\ [Next]_vars => SInv'
  BY StepSearches
<1> QED
  BY <1>1, <1>2, Inductive, PTL DEF Spec

-----------------------------------------------------------------------------
(* The threads' shares make up the share of the process.                    *)

(* The shares of the threads lie in a row, without a gap.                   *)
LEMMA SharesInARow ==
  ASSUME NEW total \in Nat
  PROVE  \A t \in Threads :
           /\ First_tour(Rank(t), total) \in Int /\ Last_tour(Rank(t), total) \in Int
           /\ t + 1 \in Threads
                => First_tour(Rank(t + 1), total) = Last_tour(Rank(t), total) + 1
           /\ First_tour(Rank(0), total) <= First_tour(Rank(t), total)
           /\ Last_tour(Rank(t), total) <= Last_tour(Rank(thread_count - 1), total)
<1> DEFINE first(t) == First_tour(Rank(t), total)
           final(t) == Last_tour(Rank(t), total)
           T == {k \in Nat : k \in Threads =>
                   \A j \in 0 .. k : first(j) <= first(k) /\ final(j) <= final(k)}
<1>1. \A t \in Threads : /\ first(t) \in Int /\ final(t) \in Int
                         /\ first(t) <= final(t) + 1
                         /\ t + 1 \in Threads => first(t + 1) = final(t) + 1
  BY RankType, TourRanges
<1>2. /\ Threads = 0 .. (thread_count - 1) /\ thread_count - 1 \in Threads
      /\ thread_count \in Nat /\ Threads \subseteq Nat
  BY TourAssumption DEF Threads
<1> HIDE DEF first, final
<1>3. 0 \in T
  BY <1>1, <1>2
<1>4. ASSUME NEW k \in Nat, k \in T PROVE k + 1 \in T
  <2> SUFFICES ASSUME k + 1 \in Threads, NEW j \in 0 .. (k + 1)
               PROVE  first(j) <= first(k + 1) /\ final(j) <= final(k + 1)
    OBVIOUS
  <2>1. k \in Threads /\ j \in Threads
    BY <1>2
  <2>2. first(k) <= first(k + 1) /\ final(k) <= final(k + 1)
    BY <1>1, <2>1
  <2>3. CASE j = k + 1
    BY <1>1, <2>1, <2>3
  <2>4. CASE j # k + 1
    <3>1. j \in 0 .. k
      BY <2>4
    <3>2. first(j) <= first(k) /\ final(j) <= final(k)
      BY <1>4, <2>1, <3>1
    <3> QED
      BY <1>1, <2>1, <2>2, <3>2
  <2> QED
    BY <2>3, <2>4
<1>5. Nat \subseteq T
  <2> HIDE DEF T
  <2> QED
    BY <1>3, <1>4, Induction
<1>6. \A t \in Threads : first(0) <= first(t) /\ final(t) <= final(thread_count - 1)
  <2> TAKE t \in Threads
  <2>1. 0 \in 0 .. t /\ t \in 0 .. (thread_count - 1) /\ thread_count - 1 \in Nat
    BY <1>2
  <2> QED
    BY <1>2, <1>5, <2>1
<1> QED
  BY <1>1, <1>6 DEF first, final

(* Together they are what the process was given.                            *)
LEMMA GoalIsAssigned ==
  ASSUME queue \in Seq(Partials)
  PROVE  Goal = Assigned
<1> DEFINE total == Len(queue)
           first(t) == First_tour(Rank(t), total)
           final(t) == Last_tour(Rank(t), total)
           row == first(0) .. final(thread_count - 1)
<1>1. total \in Nat
  OBVIOUS
<1>2. \A t \in Threads : /\ first(t) \in Int /\ final(t) \in Int
                         /\ t + 1 \in Threads => first(t + 1) = final(t) + 1
                         /\ first(0) <= first(t) /\ final(t) <= final(thread_count - 1)
  BY <1>1, SharesInARow
<1>3. /\ Threads = 0 .. (thread_count - 1) /\ thread_count - 1 \in Threads
      /\ thread_count \in Nat /\ Threads \subseteq Nat /\ 0 \in Threads
  BY TourAssumption DEF Threads
<1>4. Assigned = {tour \in Full_tours : \E i \in row : IsPrefix(queue[i + 1], tour)}
  BY RankType DEF Assigned
<1>5. Goal = {tour \in Full_tours :
                \E t \in Threads : \E i \in first(t) .. final(t) : IsPrefix(queue[i + 1], tour)}
  BY DEF Goal, Below, Share
<1> HIDE DEF first, final, total
<1>6. ASSUME NEW t \in Threads, NEW i \in first(t) .. final(t)
      PROVE  i \in row
  BY <1>2, <1>3
<1>7. ASSUME NEW i \in row
      PROVE  \E t \in Threads : i \in first(t) .. final(t)
  <2> DEFINE T == {t \in Threads : i <= final(t)}
  <2>1. T # {} /\ T \subseteq Nat
    <3>1. i <= final(thread_count - 1)
      BY <1>2, <1>3
    <3> QED
      BY <1>3, <3>1
  <2>2. PICK t \in T : \A u \in T : t <= u
    <3> HIDE DEF T
    <3> QED
      BY <2>1, LeastNatural
  <2>3. CASE t = 0
    BY <1>2, <1>3, <2>3
  <2>4. CASE t # 0
    <3>1. t - 1 \in Threads /\ (t - 1) + 1 = t
      BY <1>3, <2>4
    <3>2. ~(i <= final(t - 1))
      BY <1>3, <2>2, <3>1
    <3>3. first(t) = final(t - 1) + 1
      BY <1>2, <3>1
    <3> QED
      BY <1>2, <1>3, <3>1, <3>2, <3>3
  <2> QED
    BY <2>3, <2>4
<1> HIDE DEF row
<1> QED
  BY <1>4, <1>5, <1>6, <1>7

(* When every thread has ended through Terminated, no stack is left on      *)
(* offer and no tour was dropped for the cost of an open one, loc_best_tour *)
(* is a cheapest one of the full tours below the tours that the process was *)
(* given (main.c:403), however the threads shared and raced for them.       *)
THEOREM FindsBestTour == Spec => []FindsBest
<1>1. IInv /\ TInv /\ SInv => FindsBest
  <2> SUFFICES ASSUME IInv, TInv, SInv, \A t \in Threads : pc[t] = "done",
                      offered = NULL, ~misled, spurious = 0
               PROVE  Best_cost = Min({Closed_cost(tour) : tour \in Assigned} \cup {INFINITY})
    BY DEF FindsBest
  <2>1. Sound /\ Complete
    BY DEF SInv
  <2>2. Goal = Assigned
    BY GoalIsAssigned DEF TInv, Typed
  <2>3. Left = {}
    <3>1. \A t \in Threads : Held(t) = {}
      <4> TAKE t \in Threads
      <4>1. stack[t] = <<>>
        BY DEF TInv, Fitting, Fits, Resting, Idle
      <4>2. Range(stack[t]) = {}
        BY <4>1 DEF Range
      <4>3. Due(t) = {} /\ InHand(t) = {}
        BY DEF Due, InHand, Before
      <4> QED
        BY <4>2, <4>3 DEF Held
    <3> QED
      BY <3>1, BelowUnion DEF Left, OnOffer
  <2>4. ~Open
    BY DEF TInv, Guarded
  <2>5. Settled_cost = Best_cost /\ Best_cost \in Nat
    BY <2>4, Settled
  <2>6. \A tour \in Assigned : Closed_cost(tour) \in Nat /\ Best_cost <= Closed_cost(tour)
    BY <2>1, <2>2, <2>3, <2>5, GoalFull, FullTour DEF Complete
  <2>7. Best_cost <= INFINITY /\ INFINITY \in Nat
    BY <2>1, <2>5, TourAssumption DEF Sound
  <2>8. Best_cost = INFINITY \/ \E tour \in Assigned : Best_cost = Closed_cost(tour)
    <3>1. CASE best = <<>>
      BY <3>1 DEF Best_cost
    <3>2. CASE best # <<>>
      <4>1. PICK tour \in Assigned : best \in {tour, Append(tour, 0)}
        BY <2>1, <2>2, <3>2 DEF Sound
      <4>2. tour \in Seq(Cities) /\ Len(tour) = n
        BY <2>2, <4>1, GoalFull, FullTour
      <4>3. best = Append(tour, 0)
        BY <2>4, <4>1, <4>2 DEF Open
      <4>4. Tour_cost(best) = Closed_cost(tour)
        BY <4>2, <4>3, CostOfLonger, TheCities DEF Closed_cost
      <4> QED
        BY <3>2, <4>4 DEF Best_cost
    <3> QED
      BY <3>1, <3>2
  <2> DEFINE S == {Closed_cost(tour) : tour \in Assigned} \cup {INFINITY}
  <2>9. Best_cost \in S /\ \A y \in S : Best_cost <= y
    BY <2>6, <2>7, <2>8
  <2>10. S \subseteq Nat
    BY <2>6, <2>7
  <2> HIDE DEF S
  <2>11. \A x \in S : (\A y \in S : x <= y) => x = Best_cost
    BY <2>9, <2>10
  <2>12. Min(S) = Best_cost
    BY <2>9, <2>11 DEF Min
  <2> QED
    BY <2>12 DEF S
<1> QED
  BY <1>1, SearchInductive, PTL
=============================================================================
