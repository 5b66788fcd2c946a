---------------------------- MODULE SandersProofs ----------------------------
(***************************************************************************)
(* Mutual exclusion of Sanders, for any number of nodes whose districts    *)
(* pairwise intersect, until a node gives back a vote after it has left    *)
(* its critical section, and that the districts which the repository       *)
(* generates intersect from three columns on.                              *)
(*                                                                         *)
(* A node enters by a count of votes, which may be negative for a while.   *)
(* The invariant says which messages may be on their way for each of its   *)
(* arbiters, so that the count is the number of arbiters with the node for *)
(* a candidate, less the votes that are still on their way to it or        *)
(* already on their way back.  An inquiry whose receiver has left is in    *)
(* nobody's way: it is answered too late or not at all.                    *)
(***************************************************************************)
EXTENDS Sanders, Coteries, FiniteSetTheorems, FunctionTheorems, TLAPS

-----------------------------------------------------------------------------
(* The inductive invariant. *)

Sent == BagToSet(msgs)
Stale(m) == m.type = "INQ" /\ ~(Wants(m.to) /\ myTS[m.to] = m.ts)
InFlight == {m \in Sent : ~Stale(m)}
Copies(e, bag) == IF e \in BagToSet(bag) THEN bag[e] ELSE 0
Released(d) == Msg("RELEASE", cand[d], d, 0) \in InFlight
Holds(n, d) == hasVoted[d] /\ cand[d] = n

(* Whoever asks for the vote of d, gives it back or is asked for it.        *)
ArbiterOf(m) == IF m.type = "INQ" THEN m.from ELSE m.to
Backward == {m \in InFlight : m.type \in {"INQ", "RELINQUISH", "RELEASE"}}

(* Only votes may be on their way twice, and no request is queued twice.    *)
Once ==
  /\ \A m \in InFlight : m.type # "YES" => msgs[m] = 1
  /\ \A d \in Node : \A p \in BagToSet(deferredQ[d]) : deferredQ[d][p] = 1

(* A request on its way is the last one of its node, is not queued, and its *)
(* arbiter has no vote for it yet.                                          *)
Requests ==
  \A m \in InFlight : m.type = "REQ" =>
    /\ requestedCS[m.from] /\ m.ts = myTS[m.from] /\ m.to \in District[m.from]
    /\ <<m.ts, m.from>> \notin BagToSet(deferredQ[m.to])
    /\ Holds(m.from, m.to) => Released(m.to)

Queues ==
  \A d \in Node : \A p \in BagToSet(deferredQ[d]) :
    /\ requestedCS[p[2]] /\ p[1] = myTS[p[2]] /\ d \in District[p[2]]
    /\ Holds(p[2], d) => Released(d)

(* A candidate that has not released the vote still wants it.               *)
Candidates ==
  \A d \in Node : hasVoted[d] =>
    /\ cand[d] \in Node /\ d \in District[cand[d]]
    /\ ~Released(d) => Wants(cand[d]) /\ candTS[d] = myTS[cand[d]]

(* Per arbiter there is one inquiry, relinquishment or release on its way,  *)
(* from or to the candidate, who after a release wants the vote no more.    *)
Tokens ==
  /\ \A m \in InFlight : m.type = "YES" => m.from \in District[m.to]
  /\ \A m \in InFlight : m.type \notin {"REQ", "INQ"} => m.ts = 0
  /\ \A m \in Backward : hasVoted[ArbiterOf(m)]
  /\ \A m \in InFlight : m.type = "INQ" =>
       m.to = cand[m.from] /\ m.ts = candTS[m.from] /\ inquired[m.from]
  /\ \A m \in InFlight : m.type = "RELINQUISH" =>
       m.from = cand[m.to] /\ inquired[m.to]
  /\ \A m \in InFlight : m.type = "RELEASE" =>
       m.from = cand[m.to] /\ ~(Wants(m.from) /\ myTS[m.from] = candTS[m.to])
  /\ \A k, m \in Backward : ArbiterOf(k) = ArbiterOf(m) => k = m

(* What an arbiter has seen, or asks about, is of an earlier round.         *)
Past ==
  /\ \A m \in Sent : m.type = "INQ" => m.ts < curTS
  /\ \A d \in Node : hasVoted[d] => candTS[d] < curTS
  /\ \A d \in Node : \A p \in BagToSet(deferredQ[d]) : p[1] < curTS

(* The arbiters with n for a candidate, the votes on their way to n, each   *)
(* with a number, and the arbiters to which n is giving the vote back.      *)
Voters(n) == {d \in District[n] : Holds(n, d)}
Coming(n) == {x \in District[n] \X (Nat \ {0}) :
                x[2] <= Copies(Msg("YES", x[1], n, 0), msgs)}
Going(n) == {d \in District[n] : \/ Msg("RELINQUISH", n, d, 0) \in InFlight
                                 \/ Msg("RELEASE", n, d, 0) \in InFlight}

Votes ==
  \A n \in Node :
    /\ IsFiniteSet(Coming(n))
    /\ yesVotes[n] =
         Cardinality(Voters(n)) - Cardinality(Coming(n)) - Cardinality(Going(n))

Entrants ==
  \A n \in Node : inCS[n] =>
    /\ ~requestedCS[n] /\ yesVotes[n] >= Cardinality(District[n])
    /\ District[n] # {} => myTS[n] < curTS

IInv ==
  /\ TypeOK /\ Once /\ Requests /\ Queues /\ Candidates /\ Tokens
  /\ Past /\ Votes /\ Entrants

-----------------------------------------------------------------------------
(* Bags and the order of requests. *)

LEMMA Taken ==
  ASSUME NEW B, IsABag(B), NEW m \in BagToSet(B), NEW S,
         NEW C, C = (B (-) SetToBag({m})) (+) SetToBag(S)
  PROVE  /\ IsABag(C)
         /\ \A e : Copies(e, C) = Copies(e, B) - (IF e = m THEN 1 ELSE 0)
                                                  + (IF e \in S THEN 1 ELSE 0)
         /\ B[m] = 1 => BagToSet(C) = (BagToSet(B) \ {m}) \cup S
<1> DEFINE R == B (-) SetToBag({m})
<1>1. R = [e \in {x \in DOMAIN B : x = m => B[m] > 1} |->
             IF e = m THEN B[m] - 1 ELSE B[e]]
  <2> DEFINE F == [e \in DOMAIN B |-> IF e \in {m} THEN B[e] - 1 ELSE B[e]]
  <2>1. R = [e \in {x \in DOMAIN F : F[x] > 0} |-> F[e]]
    BY DEF (-), SetToBag
  <2>2. {x \in DOMAIN F : F[x] > 0} = {x \in DOMAIN B : x = m => B[m] > 1}
    BY DEF IsABag, BagToSet
  <2> QED
    BY <2>1, <2>2
<1>2. C = [e \in DOMAIN R \cup S |-> (IF e \in DOMAIN R THEN R[e] ELSE 0)
                                     + (IF e \in S THEN 1 ELSE 0)]
  BY DEF (+), SetToBag
<1>3. \A e \in DOMAIN R : R[e] \in Nat /\ R[e] > 0
  BY <1>1 DEF IsABag, BagToSet
<1> HIDE DEF R
<1>4. DOMAIN C = DOMAIN R \cup S
  BY <1>2
<1>5. \A e \in DOMAIN C : C[e] \in {n \in Nat : n > 0}
  BY <1>2, <1>3
<1>6. IsABag(C)
  BY <1>2, <1>4, <1>5 DEF IsABag
<1>7. ASSUME NEW e
      PROVE  Copies(e, C) = Copies(e, B) - (IF e = m THEN 1 ELSE 0)
                                           + (IF e \in S THEN 1 ELSE 0)
  <2>1. Copies(e, C) = (IF e \in DOMAIN R THEN R[e] ELSE 0)
                       + (IF e \in S THEN 1 ELSE 0)
    <3>1. e \in DOMAIN C => C[e] = (IF e \in DOMAIN R THEN R[e] ELSE 0)
                                  + (IF e \in S THEN 1 ELSE 0)
      BY <1>2, <1>4
    <3>2. Copies(e, C) = IF e \in DOMAIN C THEN C[e] ELSE 0
      BY DEF Copies, BagToSet
    <3> HIDE DEF R
    <3> QED
      BY <1>4, <3>1, <3>2
  <2>2. /\ e \in DOMAIN R <=> e \in DOMAIN B /\ (e = m => B[m] > 1)
        /\ e \in DOMAIN R => R[e] = IF e = m THEN B[m] - 1 ELSE B[e]
    BY <1>1
  <2>3. m \in DOMAIN B /\ B[m] \in Nat /\ B[m] > 0
    BY DEF IsABag, BagToSet
  <2>4. (IF e \in DOMAIN R THEN R[e] ELSE 0)
          = Copies(e, B) - (IF e = m THEN 1 ELSE 0)
    BY <2>2, <2>3 DEF Copies, BagToSet, IsABag
  <2> QED
    BY <2>1, <2>4
<1>8. B[m] = 1 => DOMAIN R = DOMAIN B \ {m}
  BY <1>1 DEF BagToSet
<1> QED
  BY <1>4, <1>6, <1>7, <1>8 DEF BagToSet

LEMMA Added ==
  ASSUME NEW B, IsABag(B), NEW S, NEW C, C = B (+) SetToBag(S)
  PROVE  /\ IsABag(C) /\ BagToSet(C) = BagToSet(B) \cup S
         /\ \A e : Copies(e, C) = Copies(e, B) + (IF e \in S THEN 1 ELSE 0)
<1>1. C = [e \in DOMAIN B \cup S |-> (IF e \in DOMAIN B THEN B[e] ELSE 0)
                                     + (IF e \in S THEN 1 ELSE 0)]
  BY DEF (+), SetToBag
<1>2. DOMAIN C = DOMAIN B \cup S
  BY <1>1
<1>3. \A e \in DOMAIN C : C[e] \in {n \in Nat : n > 0}
  BY <1>1 DEF IsABag
<1>4. IsABag(C)
  BY <1>1, <1>2, <1>3 DEF IsABag
<1>5. ASSUME NEW e
      PROVE  Copies(e, C) = Copies(e, B) + (IF e \in S THEN 1 ELSE 0)
  BY <1>1, <1>2 DEF Copies, BagToSet, IsABag
<1> QED
  BY <1>2, <1>4, <1>5 DEF BagToSet

LEMMA Removed ==
  ASSUME NEW B, IsABag(B), NEW m \in BagToSet(B), B[m] = 1,
         NEW C, C = B (-) SetToBag({m})
  PROVE  /\ IsABag(C) /\ BagToSet(C) = BagToSet(B) \ {m}
         /\ \A e \in BagToSet(C) : C[e] = B[e]
<1> DEFINE F == [e \in DOMAIN B |-> IF e \in {m} THEN B[e] - 1 ELSE B[e]]
<1>1. C = [e \in {x \in DOMAIN F : F[x] > 0} |-> F[e]]
  BY DEF (-), SetToBag
<1>2. {x \in DOMAIN F : F[x] > 0} = DOMAIN B \ {m}
  BY DEF IsABag, BagToSet
<1>3. C = [e \in DOMAIN B \ {m} |-> B[e]]
  BY <1>1, <1>2
<1> QED
  BY <1>3 DEF IsABag, BagToSet

LEMMA CopiesCount ==
  ASSUME NEW B, IsABag(B)
  PROVE  \A e : /\ Copies(e, B) \in Nat
                /\ e \in BagToSet(B) <=> Copies(e, B) > 0
                /\ e \in BagToSet(B) => Copies(e, B) = B[e]
BY DEF Copies, BagToSet, IsABag

(* A set of natural numbers that is not empty has a least element: if it    *)
(* had none, the numbers up to x that are not below all of it could be      *)
(* counted down into fewer pigeonholes.                                     *)
LEMMA Smallest ==
  ASSUME NEW S \in SUBSET Nat, S # {}
  PROVE  \E t \in S : \A s \in S : t <= s
<1>1. SUFFICES ASSUME \A t \in S : \E s \in S : ~(t <= s)
               PROVE  FALSE
  OBVIOUS
<1>2. PICK x \in S : TRUE
  OBVIOUS
<1> DEFINE U == {y \in 0 .. x : \E t \in S : t <= y}
           Holes == U \ {x}
           down == [y \in U |-> y - 1]
<1>3. IsFiniteSet(U) /\ x \in U
  <2>1. IsFiniteSet(0 .. x)
    BY FS_Interval
  <2> QED
    BY <2>1, FS_Subset
<1>4. IsFiniteSet(Holes) /\ Cardinality(Holes) < Cardinality(U)
  <2> HIDE DEF U
  <2>1. Cardinality(U) \in Nat
    BY <1>3, FS_CardinalityType
  <2>2. IsFiniteSet(U \ {x}) /\ Cardinality(U \ {x}) = Cardinality(U) - 1
    BY <1>3, FS_RemoveElement
  <2> QED
    BY <2>1, <2>2
<1>5. down \in [U -> Holes]
  <2>1. SUFFICES ASSUME NEW y \in U PROVE y - 1 \in U \ {x}
    OBVIOUS
  <2>2. PICK t \in S : t <= y
    OBVIOUS
  <2>3. PICK s \in S : ~(t <= s)
    BY <1>1
  <2> QED
    BY <2>2, <2>3
<1>6. PICK y \in U, z \in U : y # z /\ down[y] = down[z]
  <2> HIDE DEF U, Holes, down
  <2>1. \A A, B : \A f \in [A -> B] :
          IsFiniteSet(A) /\ IsFiniteSet(B) /\ Cardinality(B) < Cardinality(A) =>
            \E y, z \in A : y # z /\ f[y] = f[z]
    BY FS_PigeonHole
  <2>2. IsFiniteSet(U) /\ IsFiniteSet(Holes) /\ Cardinality(Holes) < Cardinality(U)
    BY <1>3, <1>4
  <2>3. \E y, z \in U : y # z /\ down[y] = down[z]
    BY <1>5, <2>1, <2>2, Zenon
  <2> QED
    BY <2>3
<1> QED
  BY <1>6

USE SandersAssumption

LEMMA SameMembers ==
  \A S, A, B :
    A \subseteq S /\ B \subseteq S /\ (\A e \in S : e \in A <=> e \in B) => A = B
OBVIOUS

LEMMA FirstQueued ==
  ASSUME NEW queue, BagToSet(queue) \subseteq Entries, BagToSet(queue) # {}
  PROVE  First(queue) \in BagToSet(queue)
<1> DEFINE S == BagToSet(queue)
           Times == {p[1] : p \in S}
<1>1. PICK t \in Times : \A s \in Times : t <= s
  <2>1. Times \subseteq Nat /\ Times # {}
    BY DEF Entries
  <2> HIDE DEF Times
  <2> QED
    BY <2>1, Smallest
<1> DEFINE Ids == {p[2] : p \in {q \in S : q[1] = t}}
<1>2. PICK i \in Ids : \A j \in Ids : i <= j
  <2>1. PICK s \in S : s[1] = t
    OBVIOUS
  <2>2. Ids # {}
    BY <2>1
  <2>3. ASSUME NEW q \in S PROVE q[2] \in Nat
    <3>1. q \in Entries
      OBVIOUS
    <3>2. q[2] \in Node
      BY <3>1 DEF Entries
    <3> QED
      BY <3>2
  <2>4. Ids \subseteq Nat
    <3> HIDE DEF S
    <3> QED
      BY <2>3
  <2> HIDE DEF Ids
  <2> QED
    BY <2>2, <2>4, Smallest
<1>3. PICK p \in S : p[1] = t /\ p[2] = i
  OBVIOUS
<1>4. ASSUME NEW q \in S \ {p} PROVE Precedes(p, q)
  <2>1. /\ p = <<p[1], p[2]>> /\ q = <<q[1], q[2]>>
        /\ p[1] \in Nat /\ q[1] \in Nat /\ p[2] \in Nat /\ q[2] \in Nat
    BY DEF Entries
  <2>2. p[1] <= q[1] /\ (q[1] = t => p[2] <= q[2])
    BY <1>1, <1>2, <1>3
  <2> QED
    BY <2>1, <2>2, <1>3 DEF Precedes
<1> QED
  BY <1>4 DEF First

-----------------------------------------------------------------------------
(* Counting votes. *)

LEMMA Districts ==
  ASSUME NEW n \in Node
  PROVE  /\ District[n] \subseteq Node /\ IsFiniteSet(District[n])
         /\ Voters(n) \subseteq District[n] /\ Going(n) \subseteq District[n]
         /\ IsFiniteSet(Voters(n)) /\ IsFiniteSet(Going(n))
         /\ Cardinality(District[n]) \in Nat
         /\ Cardinality(Voters(n)) \in Nat /\ Cardinality(Going(n)) \in Nat
         /\ Cardinality(Voters(n)) <= Cardinality(District[n])
<1>1. District[n] \subseteq Node /\ IsFiniteSet(District[n])
  BY FS_Subset
<1>2. Voters(n) \subseteq District[n] /\ Going(n) \subseteq District[n]
  BY DEF Voters, Going
<1>3. /\ IsFiniteSet(Voters(n)) /\ IsFiniteSet(Going(n))
      /\ Cardinality(Voters(n)) <= Cardinality(District[n])
  BY <1>1, <1>2, FS_Subset
<1> QED
  BY <1>1, <1>2, <1>3, FS_CardinalityType

(* The things that f counts, numbered: one more of d is one more of all.    *)
Numbers(D, f) == {x \in D \X (Nat \ {0}) : x[2] <= f[x[1]]}

LEMMA OneMore ==
  ASSUME NEW D, NEW f \in [D -> Nat], NEW g \in [D -> Nat], NEW d \in D,
         g[d] = f[d] + 1, \A e \in D \ {d} : g[e] = f[e],
         IsFiniteSet(Numbers(D, f)) \/ IsFiniteSet(Numbers(D, g))
  PROVE  /\ IsFiniteSet(Numbers(D, f)) /\ IsFiniteSet(Numbers(D, g))
         /\ Cardinality(Numbers(D, f)) \in Nat
         /\ Cardinality(Numbers(D, g)) = Cardinality(Numbers(D, f)) + 1
<1> DEFINE y == <<d, f[d] + 1>>
           F == Numbers(D, f)
           G == Numbers(D, g)
<1>1. y \notin F
  BY DEF Numbers
<1>2. G = F \cup {y}
  <2>1. ASSUME NEW x \in D \X (Nat \ {0})
        PROVE  x \in G <=> x \in F \/ x = y
    <3>1. x = <<x[1], x[2]>> /\ x[1] \in D /\ x[2] \in Nat
      OBVIOUS
    <3>2. CASE x[1] = d
      <4>1. x[2] <= g[d] <=> x[2] <= f[d] \/ x[2] = f[d] + 1
        BY <3>1
      <4> QED
        BY <3>1, <3>2, <4>1 DEF Numbers
    <3>3. CASE x[1] # d
      BY <3>1, <3>3 DEF Numbers
    <3> QED
      BY <3>2, <3>3
  <2>2. y \in D \X (Nat \ {0})
    OBVIOUS
  <2> QED
    BY <2>1, <2>2 DEF Numbers
<1> HIDE DEF y, F, G
<1>3. IsFiniteSet(F)
  <2>1. CASE IsFiniteSet(F)
    BY <2>1
  <2>2. CASE IsFiniteSet(G)
    BY <2>2, <1>2, FS_Subset
  <2> QED
    BY <2>1, <2>2 DEF F, G
<1>4. IsFiniteSet(G) /\ Cardinality(G) = Cardinality(F) + 1
  BY <1>1, <1>2, <1>3, FS_AddElement
<1>5. Cardinality(F) \in Nat
  BY <1>3, FS_CardinalityType
<1> QED
  BY <1>3, <1>4, <1>5 DEF F, G

VoteTo(d, n) == Msg("YES", d, n, 0)

(* A vote of d that is sent to n, or reaches it, is one more on its way, or *)
(* one less.                                                                *)
LEMMA ComingFollows ==
  ASSUME NEW n \in Node, NEW A, IsABag(A), NEW B, IsABag(B), NEW d \in District[n],
         Copies(VoteTo(d, n), B) = Copies(VoteTo(d, n), A) + 1,
         \A e \in District[n] \ {d} :
           Copies(VoteTo(e, n), B) = Copies(VoteTo(e, n), A),
         NEW F, F = {x \in District[n] \X (Nat \ {0}) :
                       x[2] <= Copies(VoteTo(x[1], n), A)},
         NEW G, G = {x \in District[n] \X (Nat \ {0}) :
                       x[2] <= Copies(VoteTo(x[1], n), B)},
         IsFiniteSet(F) \/ IsFiniteSet(G)
  PROVE  /\ IsFiniteSet(F) /\ IsFiniteSet(G)
         /\ Cardinality(F) \in Nat /\ Cardinality(G) = Cardinality(F) + 1
<1> DEFINE f == [e \in District[n] |-> Copies(VoteTo(e, n), A)]
           g == [e \in District[n] |-> Copies(VoteTo(e, n), B)]
<1>1. f \in [District[n] -> Nat] /\ g \in [District[n] -> Nat]
  BY CopiesCount
<1>2. g[d] = f[d] + 1 /\ \A e \in District[n] \ {d} : g[e] = f[e]
  OBVIOUS
<1>3. F = Numbers(District[n], f) /\ G = Numbers(District[n], g)
  BY DEF Numbers
<1> HIDE DEF f, g
<1>4. IsFiniteSet(Numbers(District[n], f)) \/ IsFiniteSet(Numbers(District[n], g))
  BY <1>3
<1>5. /\ IsFiniteSet(Numbers(District[n], f)) /\ IsFiniteSet(Numbers(District[n], g))
      /\ Cardinality(Numbers(District[n], f)) \in Nat
      /\ Cardinality(Numbers(District[n], g)) = Cardinality(Numbers(District[n], f)) + 1
  BY <1>1, <1>2, <1>4, OneMore
<1> QED
  BY <1>3, <1>5

(* A node whose count suffices has every vote of its district, and none is  *)
(* on its way in either direction.                                          *)
LEMMA AllVotes ==
  ASSUME TypeOK, Votes, NEW n \in Node, yesVotes[n] >= Cardinality(District[n])
  PROVE  /\ yesVotes[n] = Cardinality(District[n])
         /\ \A d \in District[n] :
              /\ Holds(n, d)
              /\ Msg("RELINQUISH", n, d, 0) \notin InFlight
              /\ Msg("RELEASE", n, d, 0) \notin InFlight
              /\ VoteTo(d, n) \notin InFlight
         /\ Voters(n) = District[n] /\ Coming(n) = {} /\ Going(n) = {}
<1>1. /\ IsFiniteSet(Coming(n)) /\ Cardinality(Coming(n)) \in Nat
      /\ yesVotes[n] =
           Cardinality(Voters(n)) - Cardinality(Coming(n)) - Cardinality(Going(n))
  BY FS_CardinalityType DEF Votes
<1>2. /\ Cardinality(Voters(n)) = Cardinality(District[n])
      /\ Cardinality(Coming(n)) = 0 /\ Cardinality(Going(n)) = 0
      /\ yesVotes[n] = Cardinality(District[n])
  BY <1>1, Districts
<1>3. Voters(n) = District[n]
  BY <1>2, Districts, FS_Subset
<1>4. Coming(n) = {} /\ Going(n) = {}
  BY <1>1, <1>2, Districts, FS_EmptySet
<1>5. ASSUME NEW d \in District[n], VoteTo(d, n) \in InFlight PROVE FALSE
  <2>1. Copies(Msg("YES", d, n, 0), msgs) \in Nat /\ Copies(Msg("YES", d, n, 0), msgs) >= 1
    BY <1>5, CopiesCount DEF TypeOK, InFlight, Sent, VoteTo
  <2>2. <<d, 1>> \in Coming(n)
    BY <2>1 DEF Coming
  <2> QED
    BY <2>2, <1>4
<1> QED
  BY <1>2, <1>3, <1>4, <1>5 DEF Voters, Going

(* The vote of d passes from c, which was giving it back, to w, to which it *)
(* is sent.  Either may be no node: the vote was free, or is free now.      *)
Passes(d, c, w) ==
  /\ IsABag(msgs') /\ UNCHANGED yesVotes
  /\ w \in Node => d \in District[w]
  /\ c \in Node => d \in Going(c)
  /\ \A n \in Node : (Holds(n, d) <=> n = c) /\ (Holds(n, d)' <=> n = w)
  /\ \A n \in Node, e \in Node \ {d} : Holds(n, e)' <=> Holds(n, e)
  /\ \A n \in Node : Going(n)' = IF n = c THEN Going(n) \ {d} ELSE Going(n)
  /\ \A n \in Node, e \in Node :
       Copies(VoteTo(e, n), msgs') = Copies(VoteTo(e, n), msgs)
                                     + (IF e = d /\ n = w THEN 1 ELSE 0)

LEMMA VotesPass ==
  ASSUME TypeOK, Votes, NEW d \in Node, NEW c, NEW w, Passes(d, c, w)
  PROVE  Votes'
<1> SUFFICES ASSUME NEW n \in Node
             PROVE  /\ IsFiniteSet(Coming(n))'
                    /\ yesVotes[n] = Cardinality(Voters(n)') - Cardinality(Coming(n)')
                                       - Cardinality(Going(n)')
  BY DEF Votes, Passes
<1>0. /\ IsABag(msgs') /\ UNCHANGED yesVotes
      /\ w \in Node => d \in District[w]
      /\ c \in Node => d \in Going(c)
      /\ \A o \in Node : (Holds(o, d) <=> o = c) /\ (Holds(o, d)' <=> o = w)
      /\ \A o \in Node, e \in Node \ {d} : Holds(o, e)' <=> Holds(o, e)
      /\ \A o \in Node : Going(o)' = IF o = c THEN Going(o) \ {d} ELSE Going(o)
      /\ \A o \in Node, e \in Node :
           Copies(VoteTo(e, o), msgs') = Copies(VoteTo(e, o), msgs)
                                         + (IF e = d /\ o = w THEN 1 ELSE 0)
  BY DEF Passes
<1> DEFINE lost == IF n = c THEN 1 ELSE 0
           won == IF n = w THEN 1 ELSE 0
<1>1. Cardinality(Voters(n)') = Cardinality(Voters(n)) - lost + won
  <2>1. /\ d \in Voters(n) <=> n = c
        /\ Voters(n)' = IF n = w THEN Voters(n) \cup {d} ELSE Voters(n) \ {d}
    <3>1. District[n] \subseteq Node /\ (n = c => d \in District[n])
      BY <1>0, Districts
    <3>2. Voters(n)' = {e \in District[n] : Holds(n, e)'}
      BY DEF Voters
    <3>3. \A e \in District[n] : Holds(n, e)' <=> IF e = d THEN n = w ELSE Holds(n, e)
      BY <1>0, <3>1
    <3>4. d \in Voters(n) <=> n = c
      BY <1>0, <3>1 DEF Voters
    <3>5. CASE n = w
      <4>1. d \in District[n]
        BY <1>0, <3>5
      <4>2. Voters(n)' = Voters(n) \cup {d}
        BY <3>2, <3>3, <3>5, <4>1 DEF Voters
      <4> QED
        BY <3>4, <3>5, <4>2
    <3>6. CASE n # w
      <4>1. Voters(n)' = Voters(n) \ {d}
        BY <3>2, <3>3, <3>6 DEF Voters
      <4> QED
        BY <3>4, <3>6, <4>1
    <3> QED
      BY <3>5, <3>6
  <2>2. IsFiniteSet(Voters(n)) /\ Cardinality(Voters(n)) \in Nat
    BY Districts
  <2>3. Cardinality(Voters(n) \cup {d}) =
          IF n = c THEN Cardinality(Voters(n)) ELSE Cardinality(Voters(n)) + 1
    BY <2>1, <2>2, FS_AddElement
  <2>4. Cardinality(Voters(n) \ {d}) =
          IF n = c THEN Cardinality(Voters(n)) - 1 ELSE Cardinality(Voters(n))
    BY <2>1, <2>2, FS_RemoveElement
  <2> QED
    BY <2>1, <2>2, <2>3, <2>4
<1>2. IsFiniteSet(Coming(n)) /\ Cardinality(Coming(n)) \in Nat
  BY FS_CardinalityType DEF Votes
<1>3. IsFiniteSet(Coming(n))' /\ Cardinality(Coming(n)') = Cardinality(Coming(n)) + won
  <2>1. CASE n = w
    <3>1. /\ Coming(n) = {x \in District[n] \X (Nat \ {0}) :
                            x[2] <= Copies(VoteTo(x[1], n), msgs)}
          /\ Coming(n)' = {x \in District[n] \X (Nat \ {0}) :
                             x[2] <= Copies(VoteTo(x[1], n), msgs')}
      BY DEF Coming, VoteTo
    <3>2. /\ d \in District[n] /\ District[n] \subseteq Node
          /\ IsABag(msgs) /\ IsABag(msgs')
      BY <1>0, <2>1, Districts DEF TypeOK
    <3>3. /\ Copies(VoteTo(d, n), msgs') = Copies(VoteTo(d, n), msgs) + 1
          /\ \A e \in District[n] \ {d} :
               Copies(VoteTo(e, n), msgs') = Copies(VoteTo(e, n), msgs) + 0
      BY <1>0, <2>1, <3>2
    <3>4. \A e \in District[n] \ {d} :
            Copies(VoteTo(e, n), msgs') = Copies(VoteTo(e, n), msgs)
      BY <3>2, <3>3, CopiesCount
    <3> HIDE DEF Coming
    <3> QED
      BY <1>2, <2>1, <3>1, <3>2, <3>3, <3>4, ComingFollows
  <2>2. CASE n # w
    <3>1. \A e \in District[n] : Copies(VoteTo(e, n), msgs') = Copies(VoteTo(e, n), msgs)
      BY <1>0, <2>2, CopiesCount, Districts DEF TypeOK
    <3>2. Coming(n)' = Coming(n)
      BY <3>1 DEF Coming, VoteTo
    <3> QED
      BY <1>2, <2>2, <3>2
  <2> QED
    BY <2>1, <2>2
<1>4. /\ Cardinality(Going(n)) \in Nat
      /\ Cardinality(Going(n)') = Cardinality(Going(n)) - lost
  <2>1. IsFiniteSet(Going(n)) /\ Cardinality(Going(n)) \in Nat
    BY Districts
  <2>2. d \in Going(n) => Cardinality(Going(n) \ {d}) = Cardinality(Going(n)) - 1
    BY <2>1, FS_RemoveElement
  <2>3. CASE n = c
    BY <1>0, <2>1, <2>2, <2>3
  <2>4. CASE n # c
    BY <1>0, <2>1, <2>4
  <2> QED
    BY <2>3, <2>4
<1>5. yesVotes[n] =
        Cardinality(Voters(n)) - Cardinality(Coming(n)) - Cardinality(Going(n))
  BY DEF Votes
<1> QED
  BY <1>1, <1>2, <1>3, <1>4, <1>5, Districts

(* Nothing happens to the votes. *)
LEMMA VotesStay ==
  ASSUME Votes, UNCHANGED <<yesVotes, hasVoted, cand>>, IsABag(msgs), IsABag(msgs'),
         \A n \in Node : Going(n)' = Going(n),
         \A n \in Node, e \in Node :
           Copies(VoteTo(e, n), msgs') = Copies(VoteTo(e, n), msgs)
  PROVE  Votes'
<1> SUFFICES ASSUME NEW n \in Node
             PROVE  Coming(n)' = Coming(n) /\ Voters(n)' = Voters(n)
  BY DEF Votes
<1>1. \A e \in District[n] : Copies(VoteTo(e, n), msgs') = Copies(VoteTo(e, n), msgs)
  BY Districts
<1> QED
  BY <1>1 DEF Coming, VoteTo, Voters, Holds

-----------------------------------------------------------------------------
(* The steps. *)

LEMMA SameMessage ==
  ASSUME NEW k \in Messages, NEW m \in Messages
  PROVE  /\ m = Msg(m.type, m.from, m.to, m.ts)
         /\ k.type = m.type /\ k.from = m.from /\ k.to = m.to /\ k.ts = m.ts => k = m
BY DEF Messages, Msg

LEMMA Fields ==
  ASSUME NEW type, NEW from, NEW to, NEW ts
  PROVE  LET m == Msg(type, from, to, ts)
         IN  m.type = type /\ m.from = from /\ m.to = to /\ m.ts = ts
BY DEF Msg

(* As long as nobody requests or leaves, inquiries are as stale as before.  *)
LEMMA StaleStays ==
  ASSUME UNCHANGED <<inCS, requestedCS, myTS>>
  PROVE  /\ \A m : Stale(m)' <=> Stale(m)
         /\ InFlight' = {m \in Sent' : ~Stale(m)}
         /\ \A n : Wants(n)' <=> Wants(n)
<1>1. \A n : Wants(n)' <=> Wants(n)
  BY DEF Wants
<1>2. \A m : Stale(m)' <=> Stale(m)
  BY <1>1 DEF Stale
<1> QED
  BY <1>1, <1>2 DEF InFlight

LEMMA InitHolds == Init => IInv
<1> SUFFICES ASSUME Init PROVE IInv
  OBVIOUS
<1>1. TypeOK
  <2>1. EmptyBag = [x \in {} |-> 1] /\ IsABag(EmptyBag) /\ BagToSet(EmptyBag) = {}
    BY DEF IsABag, BagToSet, EmptyBag, SetToBag
  <2>2. \A n \in Node : /\ IsABag(deferredQ[n]) /\ BagToSet(deferredQ[n]) \subseteq Entries
    BY <2>1 DEF Init
  <2>3. IsABag(msgs) /\ BagToSet(msgs) \subseteq Messages /\ DOMAIN deferredQ = Node
    BY <2>1 DEF Init
  <2>4. /\ curTS \in 0 .. MaxRound /\ myTS \in [Node -> 0 .. MaxRound]
        /\ candTS \in [Node -> 0 .. MaxRound] /\ yesVotes \in [Node -> Int]
        /\ requests \in [Node -> Nat]
    BY DEF Init
  <2> QED
    BY <2>2, <2>3, <2>4 DEF Init, TypeOK, NoNode
<1>2. /\ InFlight = {} /\ Sent = {}
      /\ \A d \in Node : BagToSet(deferredQ[d]) = {}
  BY DEF Init, InFlight, Sent, EmptyBag, SetToBag, BagToSet
<1>3. Once /\ Requests /\ Queues /\ Candidates /\ Tokens /\ Past /\ Entrants
  BY <1>2 DEF Once, Requests, Queues, Candidates, Tokens, Backward, Past, Entrants, Init
<1>4. Votes
  <2> SUFFICES ASSUME NEW n \in Node
               PROVE  Coming(n) = {} /\ Voters(n) = {} /\ Going(n) = {} /\ yesVotes[n] = 0
    BY FS_EmptySet DEF Votes
  <2>1. \A e : Copies(e, msgs) = 0
    BY <1>2 DEF Copies, Sent
  <2> QED
    BY <1>2, <2>1 DEF Coming, Voters, Going, Holds, Init
<1> QED
  BY <1>1, <1>3, <1>4 DEF IInv

LEMMA RoundStep == IInv /\ Round => IInv'
<1> SUFFICES ASSUME IInv, Round PROVE IInv'
  OBVIOUS
<1>1. /\ UNCHANGED <<inCS, requestedCS, myTS, yesVotes, hasVoted, cand, candTS,
                     inquired, deferredQ, msgs, requests>>
      /\ curTS' = curTS + 1 /\ curTS < MaxRound /\ late' = late
  BY DEF Round, requester, arbiter
<1>0. InFlight' = InFlight /\ Backward' = Backward /\ Sent' = Sent
  <2>1. InFlight' = InFlight /\ Sent' = Sent
    BY <1>1, StaleStays DEF InFlight, Sent
  <2> QED
    BY <2>1 DEF Backward
<1>2. TypeOK'
  BY <1>1 DEF IInv, TypeOK
<1>3. Once' /\ Requests' /\ Queues' /\ Candidates' /\ Votes'
  <2>1. Once' /\ Candidates'
    <3>2. \A d : (Released(d)' <=> Released(d)) /\ (Wants(d)' <=> Wants(d))
      BY <1>0, <1>1 DEF Released, Wants
    <3>3. Once'
      BY <1>0, <1>1 DEF IInv, Once
    <3>4. Candidates'
      BY <1>1, <3>2 DEF IInv, Candidates
    <3> QED
      BY <3>3, <3>4
  <2>2. Requests'
    BY <1>0, <1>1 DEF IInv, Requests, Holds, Released
  <2>3. Queues'
    <3>1. \A n, d : (Holds(n, d)' <=> Holds(n, d)) /\ (Released(d)' <=> Released(d))
      BY <1>0, <1>1 DEF Holds, Released
    <3> QED
      BY <1>1, <3>1 DEF IInv, Queues
  <2>4. Votes'
    <3>1. \A n \in Node : Coming(n)' = Coming(n) /\ Voters(n)' = Voters(n)
                            /\ Going(n)' = Going(n)
      BY <1>0, <1>1 DEF Coming, Voters, Going, Holds
    <3> QED
      BY <1>1, <3>1 DEF IInv, Votes
  <2> QED
    BY <2>1, <2>2, <2>3, <2>4
<1>4. Tokens' /\ Past'
  <2>1. Tokens'
    BY <1>0, <1>1, StaleStays DEF IInv, Tokens, ArbiterOf
  <2>2. /\ \A m \in Sent : m.ts \in Int
        /\ \A d \in Node : candTS[d] \in Int
        /\ \A d \in Node : \A p \in BagToSet(deferredQ[d]) : p[1] \in Int
        /\ curTS \in Int
    BY DEF IInv, TypeOK, Sent, Messages, Entries
  <2>3. Past'
    BY <1>0, <1>1, <2>2 DEF IInv, Past
  <2> QED
    BY <2>1, <2>3
<1>5. Entrants'
  BY <1>1 DEF IInv, Entrants, TypeOK
<1> QED
  BY <1>2, <1>3, <1>4, <1>5 DEF IInv

LEMMA EnterCSLoopStep == \A n \in Node : IInv /\ EnterCSLoop(n) => IInv'
<1> SUFFICES ASSUME NEW n \in Node, IInv, EnterCSLoop(n) PROVE IInv'
  OBVIOUS
<1>1. /\ UNCHANGED <<curTS, myTS, yesVotes, hasVoted, cand, candTS, inquired,
                     deferredQ, msgs, requests, late>>
      /\ inCS' = [inCS EXCEPT ![n] = TRUE]
      /\ requestedCS' = [requestedCS EXCEPT ![n] = FALSE]
      /\ requestedCS[n] /\ myTS[n] < curTS
      /\ yesVotes[n] >= Cardinality(District[n])
  BY DEF EnterCSLoop, arbiter
<1>2. \A d \in District[n] : Holds(n, d) /\ ~Released(d)
  BY <1>1, AllVotes DEF IInv, Holds, Released
<1>3. /\ InFlight' = InFlight /\ Backward' = Backward /\ Sent' = Sent
      /\ \A o \in Node : Wants(o)' <=> Wants(o)
  <2>1. \A o \in Node : Wants(o)' <=> Wants(o)
    BY <1>1 DEF Wants, IInv, TypeOK
  <2>2. Sent' = Sent /\ Sent \subseteq Messages
    BY <1>1 DEF Sent, IInv, TypeOK
  <2>3. \A m \in Sent : Stale(m)' <=> Stale(m)
    BY <1>1, <2>1, <2>2 DEF Stale, Messages
  <2>4. InFlight' = InFlight
    BY <2>2, <2>3 DEF InFlight
  <2> QED
    BY <2>1, <2>2, <2>4 DEF Backward
<1>4. TypeOK' /\ Once'
  BY <1>1, <1>3 DEF IInv, TypeOK, Once
<1>5. Requests'
  <2> SUFFICES ASSUME NEW m \in InFlight, m.type = "REQ", m.from = n PROVE FALSE
    BY <1>1, <1>3 DEF IInv, Requests, TypeOK, Holds, Released, InFlight, Sent, Messages
  <2> QED
    BY <1>2 DEF IInv, Requests
<1>6. Queues'
  <2> SUFFICES ASSUME NEW d \in Node, NEW p \in BagToSet(deferredQ[d]), p[2] = n
               PROVE  FALSE
    BY <1>1, <1>3 DEF IInv, Queues, TypeOK, Holds, Released, Entries
  <2> QED
    BY <1>2 DEF IInv, Queues
<1>7. Candidates' /\ Tokens' /\ Past'
  <2>1. Candidates'
    BY <1>1, <1>3 DEF IInv, Candidates, Released
  <2>2. InFlight \subseteq Messages
    BY DEF IInv, TypeOK, InFlight, Sent
  <2>3. Tokens'
    BY <1>1, <1>3, <2>2 DEF IInv, Tokens, ArbiterOf, Messages
  <2>4. Past'
    BY <1>1, <1>3 DEF IInv, Past
  <2> QED
    BY <2>1, <2>3, <2>4
<1>8. Votes'
  BY <1>1, <1>3 DEF IInv, Votes, Coming, Voters, Going, Holds
<1>9. Entrants'
  BY <1>1 DEF IInv, Entrants, TypeOK
<1> QED
  BY <1>4, <1>5, <1>6, <1>7, <1>8, <1>9 DEF IInv

LEMMA RequestCSStep == \A n \in Node : IInv /\ RequestCS(n) => IInv'
<1> SUFFICES ASSUME NEW n \in Node, IInv, RequestCS(n) PROVE IInv'
  OBVIOUS
<1> DEFINE S == {Msg("REQ", n, r, curTS) : r \in District[n]}
           enters == yesVotes[n] >= Cardinality(District[n])
<1>1. /\ UNCHANGED <<curTS, yesVotes, hasVoted, cand, candTS, inquired, deferredQ>>
      /\ requests' = [requests EXCEPT ![n] = @ + 1] /\ late' = late
      /\ myTS' = [myTS EXCEPT ![n] = curTS]
      /\ msgs' = msgs (+) SetToBag(S)
      /\ inCS' = [inCS EXCEPT ![n] = enters]
      /\ requestedCS' = [requestedCS EXCEPT ![n] = ~enters]
      /\ ~requestedCS[n] /\ ~inCS[n]
  BY DEF RequestCS, arbiter
<1>2. /\ TypeOK /\ Once /\ Requests /\ Queues /\ Candidates /\ Tokens
      /\ Past /\ Votes /\ Entrants
  BY DEF IInv
<1>3. /\ InFlight \subseteq Sent /\ Sent \subseteq Messages /\ InFlight \subseteq Messages
      /\ IsABag(msgs) /\ curTS \in 0 .. MaxRound
      /\ candTS \in [Node -> 0 .. MaxRound] /\ cand \in [Node -> Node \cup {NoNode}]
  BY <1>2 DEF TypeOK, InFlight, Sent
<1>4. /\ S \subseteq Messages
      /\ \A m \in S : m.type = "REQ" /\ m.from = n /\ m.to \in District[n] /\ m.ts = curTS
  BY <1>3, Districts DEF Messages, Msg
<1>5. S \cap Sent = {} /\ S \cap InFlight = {}
  <2>1. S \cap InFlight = {}
    BY <1>1, <1>2, <1>4 DEF Requests
  <2> QED
    BY <1>4, <2>1 DEF InFlight, Stale
<1>6. /\ IsABag(msgs') /\ Sent' = Sent \cup S /\ InFlight' = InFlight \cup S
      /\ \A e : Copies(e, msgs') = Copies(e, msgs) + (IF e \in S THEN 1 ELSE 0)
  <2>1. /\ IsABag(msgs') /\ Sent' = Sent \cup S
        /\ \A e : Copies(e, msgs') = Copies(e, msgs) + (IF e \in S THEN 1 ELSE 0)
    BY <1>1, <1>3, Added DEF Sent
  <2>2. \A o \in Node \ {n} : (Wants(o)' <=> Wants(o)) /\ myTS'[o] = myTS[o]
    BY <1>1, <1>2 DEF Wants, TypeOK
  <2>3. ~Wants(n) /\ myTS'[n] = curTS
    BY <1>1, <1>2 DEF Wants, TypeOK
  <2>4. ASSUME NEW x \in Sent PROVE Stale(x)' <=> Stale(x)
    <3>1. CASE x.type # "INQ"
      BY <3>1 DEF Stale
    <3>2. CASE x.type = "INQ" /\ x.to # n
      <4>1. x.to \in Node \ {n}
        BY <1>3, <3>2 DEF Messages
      <4> QED
        BY <2>2, <4>1 DEF Stale
    <3>3. CASE x.type = "INQ" /\ x.to = n
      <4>1. x.ts # curTS
        BY <1>2, <1>3, <3>3 DEF Past, Messages
      <4> QED
        BY <2>3, <3>3, <4>1 DEF Stale
    <3> QED
      BY <3>1, <3>2, <3>3
  <2>5. \A x \in S : ~Stale(x)'
    BY <1>4 DEF Stale
  <2>6. InFlight' = InFlight \cup S
    BY <2>1, <2>4, <2>5 DEF InFlight
  <2> QED
    BY <2>1, <2>6
<1>7. TypeOK'
  <2>1. BagToSet(msgs') \subseteq Messages
    BY <1>3, <1>4, <1>6 DEF Sent
  <2> QED
    BY <1>1, <1>2, <1>6, <2>1 DEF TypeOK
<1>8. Once'
  <2>1. \A m \in InFlight' : m.type # "YES" => msgs'[m] = 1
    <3> SUFFICES ASSUME NEW m \in InFlight', m.type # "YES"
                 PROVE  Copies(m, msgs') = 1
      BY <1>6, CopiesCount DEF InFlight, Sent
    <3>1. CASE m \in S
      BY <1>5, <1>6, <3>1 DEF Copies, Sent
    <3>2. CASE m \notin S
      BY <1>2, <1>6, <3>2 DEF Copies, InFlight, Sent, Once
    <3> QED
      BY <3>1, <3>2
  <2> QED
    BY <1>1, <1>2, <2>1 DEF Once
<1>9. enters => District[n] = {} /\ S = {}
  <2> SUFFICES ASSUME enters, NEW d \in District[n] PROVE FALSE
    OBVIOUS
  <2>1. Holds(n, d) /\ ~Released(d) /\ d \in Node
    BY <1>2, AllVotes, Districts DEF Holds, Released
  <2> QED
    BY <1>1, <1>2, <2>1 DEF Candidates, Holds, Wants
<1>10. \A d \in Node : Released(d)' <=> Released(d)
  <2> SUFFICES ASSUME NEW d \in Node
               PROVE  Msg("RELEASE", cand[d], d, 0) \notin S
    BY <1>1, <1>6 DEF Released
  <2> QED
    BY <1>4, Fields
<1>11. \A d \in Node : Holds(n, d) => Released(d)
  BY <1>1, <1>2 DEF Candidates, Holds, Wants
<1>12. Requests'
  <2> SUFFICES ASSUME NEW m \in InFlight \cup S, m.type = "REQ"
               PROVE  /\ requestedCS'[m.from] /\ m.ts = myTS'[m.from]
                      /\ m.to \in District[m.from]
                      /\ <<m.ts, m.from>> \notin BagToSet(deferredQ[m.to])
                      /\ Holds(m.from, m.to) => Released(m.to)
    <3>1. \A m \in InFlight \cup S : m.to \in Node
      BY <1>3, <1>4 DEF Messages
    <3> QED
      BY <1>1, <1>6, <1>10, <3>1 DEF Requests, Holds
  <2>1. m.from \in Node /\ m.to \in Node
    BY <1>3, <1>4 DEF Messages
  <2>2. CASE m \in S
    <3>1. m.from = n /\ m.ts = curTS /\ m.to \in District[n] /\ ~enters
      BY <1>4, <1>9, <2>2
    <3>2. <<m.ts, m.from>> \notin BagToSet(deferredQ[m.to])
      BY <1>1, <1>2, <2>1, <3>1 DEF Queues
    <3> QED
      BY <1>1, <1>2, <1>11, <2>1, <3>1, <3>2 DEF TypeOK
  <2>3. CASE m \in InFlight
    <3>1. m.from # n
      BY <1>1, <1>2, <2>3 DEF Requests
    <3> QED
      BY <1>1, <1>2, <2>1, <2>3, <3>1 DEF Requests, TypeOK
  <2> QED
    BY <2>2, <2>3
<1>13. Queues'
  <2> SUFFICES ASSUME NEW d \in Node, NEW p \in BagToSet(deferredQ[d])
               PROVE  /\ requestedCS'[p[2]] /\ p[1] = myTS'[p[2]]
                      /\ d \in District[p[2]] /\ (Holds(p[2], d) => Released(d))
    BY <1>1, <1>10 DEF Queues, Holds
  <2>1. p[2] # n /\ p[2] \in Node
    BY <1>1, <1>2 DEF Queues, TypeOK, Entries
  <2> QED
    BY <1>1, <1>2, <2>1 DEF Queues, TypeOK
<1>14. Candidates'
  <2> SUFFICES ASSUME NEW d \in Node, hasVoted[d]
               PROVE  /\ cand[d] \in Node /\ d \in District[cand[d]]
                      /\ ~Released(d) => Wants(cand[d])' /\ candTS[d] = myTS'[cand[d]]
    BY <1>1, <1>10 DEF Candidates, Wants
  <2>1. ~Released(d) => cand[d] # n
    BY <1>11 DEF Holds
  <2> QED
    BY <1>1, <1>2, <2>1 DEF Candidates, Wants, TypeOK
<1>15. Tokens'
  <2>1. Backward' = Backward
    BY <1>4, <1>6 DEF Backward
  <2>2. ASSUME NEW m \in InFlight, m.type = "RELEASE"
        PROVE  m.from = cand[m.to] /\ ~(Wants(m.from)' /\ myTS'[m.from] = candTS[m.to])
    <3>1. /\ m.from = cand[m.to] /\ ~(Wants(m.from) /\ myTS[m.from] = candTS[m.to])
          /\ m.from \in Node /\ m.to \in Node
      BY <1>2, <1>3, <2>2 DEF Tokens, Messages
    <3>2. CASE m.from = n
      <4>1. hasVoted[m.to]
        BY <1>2, <2>2 DEF Tokens, Backward, ArbiterOf
      <4>2. candTS[m.to] < curTS
        BY <1>2, <3>1, <4>1 DEF Past
      <4>3. myTS'[m.from] = curTS
        BY <1>1, <1>2, <3>2 DEF TypeOK
      <4>4. candTS[m.to] \in Int /\ curTS \in Int
        <5>1. candTS \in [Node -> 0 .. MaxRound] /\ curTS \in 0 .. MaxRound
          BY <1>3
        <5>2. candTS[m.to] \in 0 .. MaxRound
          BY <3>1, <5>1
        <5> QED
          BY <5>1, <5>2
      <4> QED
        BY <3>1, <4>2, <4>3, <4>4
    <3>3. CASE m.from # n
      BY <1>1, <1>2, <3>1, <3>3 DEF Wants, TypeOK
    <3> QED
      BY <3>2, <3>3
  <2>3. \A m \in InFlight' : m.type # "REQ" => m \in InFlight
    BY <1>4, <1>6
  <2>4. \A m \in InFlight' : m.type = "RELEASE" =>
          m.from = cand'[m.to] /\ ~(Wants(m.from)' /\ myTS'[m.from] = candTS'[m.to])
    BY <1>1, <2>2, <2>3
  <2> QED
    BY <1>1, <1>2, <2>1, <2>3, <2>4 DEF Tokens, ArbiterOf
<1>18. Past'
  BY <1>1, <1>2, <1>4, <1>6 DEF Past
<1>16. Votes'
  <2>1. \A o \in Node : Going(o)' = Going(o)
    <3> SUFFICES ASSUME NEW o \in Node, NEW d \in District[o]
                 PROVE  /\ Msg("RELINQUISH", o, d, 0) \notin S
                        /\ Msg("RELEASE", o, d, 0) \notin S
      BY <1>6 DEF Going
    <3> QED
      BY <1>4, Fields
  <2>2. \A o, e \in Node : Copies(VoteTo(e, o), msgs') = Copies(VoteTo(e, o), msgs)
    <3> SUFFICES ASSUME NEW o \in Node, NEW e \in Node PROVE VoteTo(e, o) \notin S
      BY <1>6, <1>3, CopiesCount
    <3> QED
      BY <1>4, Fields DEF VoteTo
  <2> QED
    BY <1>1, <1>2, <1>3, <1>6, <2>1, <2>2, VotesStay
<1>17. Entrants'
  BY <1>1, <1>2, <1>9 DEF Entrants, TypeOK
<1> QED
  BY <1>7, <1>8, <1>12, <1>13, <1>14, <1>15, <1>16, <1>17, <1>18 DEF IInv

(* The inquiries under way to the node that leaves are stale from now on.    *)
LEMMA LeaveCSStep == \A n \in Node : IInv /\ LeaveCS(n) => IInv'
<1> SUFFICES ASSUME NEW n \in Node, IInv, LeaveCS(n) PROVE IInv'
  OBVIOUS
<1> DEFINE S == {Msg("RELEASE", n, r, 0) : r \in District[n]}
<1>1. /\ UNCHANGED <<curTS, requestedCS, myTS, requests, hasVoted, cand, candTS,
                     inquired, deferredQ, late>>
      /\ inCS[n]
      /\ inCS' = [inCS EXCEPT ![n] = FALSE]
      /\ yesVotes' = [yesVotes EXCEPT ![n] = 0]
      /\ msgs' = msgs (+) SetToBag(S)
  BY DEF LeaveCS, arbiter
<1>2. /\ TypeOK /\ Once /\ Requests /\ Queues /\ Candidates /\ Tokens
      /\ Past /\ Votes /\ Entrants
  BY DEF IInv
<1>3. /\ InFlight \subseteq Sent /\ Sent \subseteq Messages /\ InFlight \subseteq Messages
      /\ IsABag(msgs)
      /\ candTS \in [Node -> 0 .. MaxRound] /\ cand \in [Node -> Node \cup {NoNode}]
  BY <1>2 DEF TypeOK, InFlight, Sent
<1>4. /\ Voters(n) = District[n] /\ Coming(n) = {} /\ Going(n) = {}
      /\ \A d \in District[n] : Holds(n, d) /\ ~Released(d)
      /\ \A d \in District[n] : Msg("RELEASE", n, d, 0) \notin InFlight
      /\ \A d \in District[n] : Msg("RELINQUISH", n, d, 0) \notin InFlight
  BY <1>1, <1>2, AllVotes DEF Entrants, Holds, Released
<1>5. /\ S \subseteq Messages /\ S \cap InFlight = {} /\ S \cap Sent = {}
      /\ \A m \in S : m.type = "RELEASE" /\ m.from = n /\ m.to \in District[n] /\ m.ts = 0
  <2>1. /\ S \subseteq Messages /\ S \cap InFlight = {}
        /\ \A m \in S : m.type = "RELEASE" /\ m.from = n /\ m.to \in District[n] /\ m.ts = 0
    BY <1>4, Districts DEF Messages, Msg
  <2> QED
    BY <2>1 DEF InFlight, Stale
<1> DEFINE Asking == {x \in InFlight : x.type = "INQ" /\ x.to = n}
<1>6. /\ IsABag(msgs') /\ Sent' = Sent \cup S
      /\ InFlight' = (InFlight \ Asking) \cup S
      /\ \A e : Copies(e, msgs') = Copies(e, msgs) + (IF e \in S THEN 1 ELSE 0)
  <2>1. /\ IsABag(msgs') /\ Sent' = Sent \cup S
        /\ \A e : Copies(e, msgs') = Copies(e, msgs) + (IF e \in S THEN 1 ELSE 0)
    BY <1>1, <1>3, Added DEF Sent
  <2>2. \A o \in Node \ {n} : Wants(o)' <=> Wants(o)
    BY <1>1, <1>2 DEF Wants, TypeOK
  <2>3. ~Wants(n)'
    <3>1. ~requestedCS[n]
      BY <1>1, <1>2 DEF Entrants
    <3> QED
      BY <1>1, <1>2, <3>1 DEF Wants, TypeOK
  <2>4. ASSUME NEW x \in Sent PROVE Stale(x)' <=> Stale(x) \/ (x.type = "INQ" /\ x.to = n)
    <3>1. x.to \in Node
      BY <1>3 DEF Messages
    <3>2. CASE x.to = n
      BY <1>1, <2>3, <3>2 DEF Stale
    <3>3. CASE x.to # n
      BY <1>1, <2>2, <3>1, <3>3 DEF Stale
    <3> QED
      BY <3>2, <3>3
  <2>5. \A x \in S : ~Stale(x)'
    BY <1>5 DEF Stale
  <2>6. InFlight' = (InFlight \ Asking) \cup S
    BY <2>1, <2>4, <2>5 DEF InFlight
  <2> QED
    BY <2>1, <2>6
<1>7. TypeOK'
  <2>1. BagToSet(msgs') \subseteq Messages
    BY <1>3, <1>5, <1>6 DEF Sent
  <2> QED
    BY <1>1, <1>2, <1>6, <2>1 DEF TypeOK
<1>8. Once'
  <2>1. \A m \in InFlight' : m.type # "YES" => msgs'[m] = 1
    <3> SUFFICES ASSUME NEW m \in InFlight', m.type # "YES"
                 PROVE  Copies(m, msgs') = 1
      BY <1>6, CopiesCount DEF InFlight, Sent
    <3>1. CASE m \in S
      BY <1>5, <1>6, <3>1 DEF Copies, Sent
    <3>2. CASE m \notin S
      BY <1>2, <1>6, <3>2 DEF Copies, InFlight, Sent, Once
    <3> QED
      BY <3>1, <3>2
  <2> QED
    BY <1>1, <1>2, <2>1 DEF Once
<1>9. \A d \in Node : Released(d) => Released(d)'
  BY <1>1, <1>6, Fields DEF Released
<1>10. \A d \in Node : hasVoted[d] /\ cand[d] = n => Released(d)'
  <2> SUFFICES ASSUME NEW d \in Node, hasVoted[d], cand[d] = n
               PROVE  Msg("RELEASE", n, d, 0) \in S
    BY <1>1, <1>6 DEF Released
  <2> QED
    BY <1>2 DEF Candidates
<1>11. Requests'
  <2> SUFFICES ASSUME NEW m \in InFlight, m.type = "REQ"
               PROVE  /\ requestedCS[m.from] /\ m.ts = myTS[m.from]
                      /\ m.to \in District[m.from]
                      /\ <<m.ts, m.from>> \notin BagToSet(deferredQ[m.to])
                      /\ Holds(m.from, m.to) => Released(m.to)
    <3>1. \A m \in InFlight : m.to \in Node
      BY <1>3 DEF Messages
    <3> QED
      BY <1>1, <1>5, <1>6, <1>9, <3>1 DEF Requests, Holds
  <2> QED
    BY <1>2 DEF Requests
<1>12. Queues'
  BY <1>1, <1>2, <1>9 DEF Queues, Holds
<1>13. Candidates'
  <2> SUFFICES ASSUME NEW d \in Node, hasVoted[d], ~Released(d)'
               PROVE  Wants(cand[d])' /\ candTS[d] = myTS[cand[d]]
    BY <1>1, <1>2 DEF Candidates
  <2>1. ~Released(d) /\ cand[d] # n
    BY <1>9, <1>10
  <2> QED
    BY <1>1, <1>2, <2>1 DEF Candidates, Wants, TypeOK
<1>14. Tokens'
  <2>1. Backward' = (Backward \ Asking) \cup S
    BY <1>5, <1>6 DEF Backward
  <2>2. ASSUME NEW m \in S
        PROVE  /\ hasVoted[m.to] /\ m.from = cand[m.to]
               /\ \A k \in Backward \ Asking : ArbiterOf(k) # m.to
    <3>1. m.to \in District[n] /\ m.from = n /\ m.to \in Node
      BY <1>5, Districts
    <3>2. hasVoted[m.to] /\ cand[m.to] = n
      BY <1>4, <3>1 DEF Holds
    <3>3. ASSUME NEW k \in Backward \ Asking, ArbiterOf(k) = m.to PROVE FALSE
      <4>1. k \in InFlight /\ k \in Messages
        BY <1>3 DEF Backward
      <4>2. CASE k.type = "INQ"
        <5>1. k.to = n
          BY <1>2, <3>2, <3>3, <4>1, <4>2 DEF Tokens, ArbiterOf
        <5> QED
          BY <3>3, <4>1, <4>2, <5>1
      <4>3. CASE k.type \in {"RELINQUISH", "RELEASE"}
        <5>1. k.to = m.to /\ k.from = n /\ k.ts = 0
          BY <1>2, <3>2, <3>3, <4>1, <4>3 DEF Tokens, ArbiterOf
        <5>2. k = Msg(k.type, n, m.to, 0)
          BY <4>1, <5>1, SameMessage
        <5> QED
          BY <1>4, <3>1, <4>1, <4>3, <5>2
      <4> QED
        BY <4>2, <4>3 DEF Backward
    <3> QED
      BY <3>1, <3>2, <3>3
  <2>3. \A x \in InFlight' : x \in InFlight \/ x \in S
    BY <1>6
  <2>4. \A k \in S : ArbiterOf(k) = k.to /\ k \in Messages
    BY <1>5 DEF ArbiterOf
  <2>5. \A k, m \in Backward' : ArbiterOf(k) = ArbiterOf(m) => k = m
    <3> SUFFICES ASSUME NEW k \in (Backward \ Asking) \cup S,
                        NEW m \in (Backward \ Asking) \cup S,
                        ArbiterOf(k) = ArbiterOf(m)
                 PROVE  k = m
      BY <2>1
    <3>1. CASE k \in S /\ m \in S
      BY <1>5, <2>4, <3>1, SameMessage
    <3>2. CASE k \in Backward /\ m \in Backward
      BY <1>2, <3>2 DEF Tokens
    <3> QED
      BY <2>2, <2>4, <3>1, <3>2
  <2>6. /\ \A m \in InFlight' : m.type = "YES" => m.from \in District[m.to]
        /\ \A m \in InFlight' : m.type \notin {"REQ", "INQ"} => m.ts = 0
        /\ \A m \in Backward' : hasVoted[ArbiterOf(m)]
    BY <1>2, <1>5, <2>1, <2>2, <2>3, <2>4 DEF Tokens
  <2>7. /\ \A m \in InFlight' : m.type = "INQ" =>
             m.to = cand[m.from] /\ m.ts = candTS[m.from] /\ inquired[m.from]
        /\ \A m \in InFlight' : m.type = "RELINQUISH" =>
             m.from = cand[m.to] /\ inquired[m.to]
    BY <1>2, <1>5, <2>3 DEF Tokens
  <2>8. \A m \in InFlight' : m.type = "RELEASE" =>
          m.from = cand[m.to] /\ ~(Wants(m.from)' /\ myTS[m.from] = candTS[m.to])
    <3>1. \A o \in Node : Wants(o)' => Wants(o) /\ o # n
      BY <1>1, <1>2 DEF Wants, TypeOK, Entrants
    <3>2. \A m \in InFlight' : m.from \in Node
      BY <1>3, <1>5, <2>3 DEF Messages
    <3> QED
      BY <1>2, <1>5, <2>2, <2>3, <3>1, <3>2 DEF Tokens
  <2> QED
    BY <1>1, <2>5, <2>6, <2>7, <2>8 DEF Tokens, ArbiterOf
<1>15. Votes'
  <2>1. /\ Voters(n)' = District[n] /\ Going(n)' = District[n]
        /\ Coming(n)' = {}
    <3>1. Voters(n)' = Voters(n)
      BY <1>1 DEF Voters, Holds
    <3>2. Going(n)' = District[n]
      BY <1>6 DEF Going
    <3>3. \A d \in District[n] : Copies(VoteTo(d, n), msgs') = Copies(VoteTo(d, n), msgs)
      <4> SUFFICES ASSUME NEW d \in District[n] PROVE VoteTo(d, n) \notin S
        BY <1>3, <1>6, CopiesCount
      <4> QED
        BY <1>5, Fields DEF VoteTo
    <3>4. Coming(n)' = Coming(n)
      BY <3>3 DEF Coming, VoteTo
    <3> QED
      BY <1>4, <3>1, <3>2, <3>4
  <2>2. ASSUME NEW o \in Node \ {n}
        PROVE  /\ Voters(o)' = Voters(o) /\ Going(o)' = Going(o)
               /\ Coming(o)' = Coming(o)
    <3>1. Voters(o)' = Voters(o)
      BY <1>1 DEF Voters, Holds
    <3>2. Going(o)' = Going(o)
      <4> SUFFICES ASSUME NEW d \in District[o]
                   PROVE  /\ Msg("RELINQUISH", o, d, 0) \notin S
                          /\ Msg("RELEASE", o, d, 0) \notin S
        BY <1>6, Fields DEF Going
      <4> QED
        BY <1>5, Fields
    <3>3. \A d \in District[o] : Copies(VoteTo(d, o), msgs') = Copies(VoteTo(d, o), msgs)
      <4> SUFFICES ASSUME NEW d \in District[o] PROVE VoteTo(d, o) \notin S
        BY <1>3, <1>6, CopiesCount
      <4> QED
        BY <1>5, Fields DEF VoteTo
    <3>4. Coming(o)' = Coming(o)
      BY <3>3 DEF Coming, VoteTo
    <3> QED
      BY <3>1, <3>2, <3>4
  <2>3. Cardinality({}) = 0 /\ IsFiniteSet({}) /\ Cardinality(District[n]) \in Nat
    BY FS_EmptySet, Districts
  <2>4. yesVotes'[n] = 0 /\ \A o \in Node \ {n} : yesVotes'[o] = yesVotes[o]
    BY <1>1, <1>2 DEF TypeOK
  <2>5. \A o \in Node \ {n} :
          /\ IsFiniteSet(Coming(o))'
          /\ yesVotes'[o] = Cardinality(Voters(o)') - Cardinality(Coming(o)')
                              - Cardinality(Going(o)')
    BY <1>2, <2>2, <2>4 DEF Votes
  <2>6. /\ IsFiniteSet(Coming(n))'
        /\ yesVotes'[n] = Cardinality(Voters(n)') - Cardinality(Coming(n)')
                            - Cardinality(Going(n)')
    BY <2>1, <2>3, <2>4
  <2> QED
    BY <2>5, <2>6 DEF Votes
<1>16. Entrants'
  BY <1>1, <1>2 DEF Entrants, TypeOK
<1>17. Past'
  BY <1>1, <1>2, <1>5, <1>6 DEF Past
<1> QED
  BY <1>7, <1>8, <1>11, <1>12, <1>13, <1>14, <1>15, <1>16, <1>17 DEF IInv

Live(S) == {x \in S : ~Stale(x)}

(* A message other than a vote is handled, and those of S are sent.         *)
LEMMA Handled ==
  ASSUME TypeOK, Once, inCS' = inCS, requestedCS' = requestedCS, myTS' = myTS,
         NEW m \in InFlight, m.type # "YES", NEW S, S \subseteq Messages,
         msgs' = (msgs (-) SetToBag({m})) (+) SetToBag(S),
         \A x \in Live(S) : x \notin InFlight \/ x.type = "YES"
  PROVE  /\ IsABag(msgs') /\ InFlight' = (InFlight \ {m}) \cup Live(S)
         /\ Sent' = (Sent \ {m}) \cup S
         /\ Sent' \subseteq Messages /\ InFlight' \subseteq Messages
         /\ \A x \in InFlight' : x.type # "YES" => msgs'[x] = 1
         /\ \A n, e \in Node :
              Copies(VoteTo(e, n), msgs') = Copies(VoteTo(e, n), msgs)
                                            + (IF VoteTo(e, n) \in S THEN 1 ELSE 0)
<1>1. IsABag(msgs) /\ Sent \subseteq Messages /\ m \in Sent /\ msgs[m] = 1
  BY DEF TypeOK, InFlight, Sent, Once
<1>2. /\ IsABag(msgs') /\ Sent' = (Sent \ {m}) \cup S
      /\ \A e : Copies(e, msgs') = Copies(e, msgs) - (IF e = m THEN 1 ELSE 0)
                                                 + (IF e \in S THEN 1 ELSE 0)
  <2>1. /\ IsABag(msgs) /\ m \in BagToSet(msgs) /\ msgs[m] = 1
        /\ msgs' = (msgs (-) SetToBag({m})) (+) SetToBag(S)
    BY <1>1 DEF Sent
  <2>2. /\ IsABag(msgs') /\ BagToSet(msgs') = (BagToSet(msgs) \ {m}) \cup S
        /\ \A e : Copies(e, msgs') = Copies(e, msgs) - (IF e = m THEN 1 ELSE 0)
                                                   + (IF e \in S THEN 1 ELSE 0)
    BY ONLY <2>1, Taken
  <2> QED
    BY <2>2 DEF Sent
<1>5. InFlight' = (InFlight \ {m}) \cup Live(S)
  <2>1. InFlight' = {x \in Sent' : ~Stale(x)}
    BY StaleStays
  <2> QED
    BY <1>2, <2>1 DEF InFlight, Live
<1>6. Sent' \subseteq Messages /\ InFlight' \subseteq Messages
  BY <1>1, <1>2 DEF InFlight
<1>3. ASSUME NEW x \in InFlight', x.type # "YES" PROVE msgs'[x] = 1
  <2>1. Copies(x, msgs') = msgs'[x]
    BY <1>2, CopiesCount DEF InFlight, Sent
  <2>2. CASE x \in Live(S)
    <3>1. x \in S /\ x \notin Sent /\ x # m
      BY <1>1, <1>3, <2>2 DEF InFlight, Live
    <3>2. Copies(x, msgs) = 0
      BY <3>1 DEF Copies, Sent
    <3>3. Copies(x, msgs') = 0 - 0 + 1
      BY <1>2, <3>1, <3>2
    <3> QED
      BY <2>1, <3>3
  <2>3. CASE x \notin Live(S)
    <3>1. x \in InFlight /\ x # m /\ x \notin S
      BY <1>3, <1>5, <2>3 DEF InFlight, Live
    <3>2. Copies(x, msgs) = 1
      BY <1>3, <3>1 DEF Copies, InFlight, Sent, Once
    <3>3. Copies(x, msgs') = 1 - 0 + 0
      BY <1>2, <3>1, <3>2
    <3> QED
      BY <2>1, <3>3
  <2> QED
    BY <2>2, <2>3
<1>4. ASSUME NEW n \in Node, NEW e \in Node
      PROVE  Copies(VoteTo(e, n), msgs') = Copies(VoteTo(e, n), msgs)
                                            + (IF VoteTo(e, n) \in S THEN 1 ELSE 0)
  <2>1. VoteTo(e, n) # m
    BY Fields DEF VoteTo
  <2>2. Copies(VoteTo(e, n), msgs) \in Nat
    BY <1>1, CopiesCount
  <2>3. Copies(VoteTo(e, n), msgs') = Copies(VoteTo(e, n), msgs) - 0
                                      + (IF VoteTo(e, n) \in S THEN 1 ELSE 0)
    BY <1>2, <2>1
  <2> QED
    BY <2>2, <2>3
<1> QED
  BY <1>2, <1>3, <1>4, <1>5, <1>6

(* A vote arrives: its receiver counts it. *)
LEMMA YesStep == \A m \in InFlight : IInv /\ handleYesMessage(m) => IInv'
<1> SUFFICES ASSUME NEW m \in InFlight, IInv, handleYesMessage(m) PROVE IInv'
  OBVIOUS
<1>0. PICK S : S = {}
  OBVIOUS
<1>1. /\ UNCHANGED <<curTS, requests, inCS, requestedCS, myTS, hasVoted, cand,
                     candTS, inquired, deferredQ, late>>
      /\ yesVotes' = [yesVotes EXCEPT ![m.to] = @ + 1]
      /\ m.type = "YES" /\ msgs' = (msgs (-) SetToBag({m})) (+) SetToBag(S)
  BY <1>0 DEF handleYesMessage, Handle, arbiter, EmptyBag
<1>2. /\ TypeOK /\ Once /\ Requests /\ Queues /\ Candidates /\ Tokens
      /\ Past /\ Votes /\ Entrants
  BY DEF IInv
<1>3. /\ Sent \subseteq Messages /\ InFlight \subseteq Messages /\ IsABag(msgs)
      /\ m.to \in Node /\ m.from \in District[m.to] /\ m = VoteTo(m.from, m.to)
  <2>1. Sent \subseteq Messages /\ InFlight \subseteq Messages /\ IsABag(msgs)
    BY <1>2 DEF TypeOK, InFlight, Sent
  <2>2. m.to \in Node /\ m.from \in District[m.to] /\ m.ts = 0
    BY <1>1, <1>2, <2>1 DEF Tokens, Messages
  <2> QED
    BY <1>1, <2>1, <2>2, SameMessage DEF VoteTo
<1>4. /\ IsABag(msgs')
      /\ \A e : Copies(e, msgs') = Copies(e, msgs) - (IF e = m THEN 1 ELSE 0)
  <2>1. /\ IsABag(msgs')
        /\ \A e : Copies(e, msgs') = Copies(e, msgs) - (IF e = m THEN 1 ELSE 0)
                                                   + (IF e \in S THEN 1 ELSE 0)
    <3>1. /\ IsABag(msgs) /\ m \in BagToSet(msgs)
          /\ msgs' = (msgs (-) SetToBag({m})) (+) SetToBag(S)
      BY <1>1, <1>3 DEF InFlight, Sent
    <3> QED
      BY ONLY <3>1, Taken
  <2> QED
    BY <2>1, <1>0, <1>3, CopiesCount
<1>5. /\ Sent' \subseteq Sent /\ InFlight' \subseteq InFlight
      /\ \A x \in Sent : x.type # "YES" => x \in Sent' /\ msgs'[x] = msgs[x]
      /\ \A x \in InFlight : x.type # "YES" => x \in InFlight' /\ msgs'[x] = msgs[x]
  <2>1. \A x : x \in Sent' <=> Copies(x, msgs') > 0
    BY <1>4, CopiesCount DEF Sent
  <2>2. \A x : x \in Sent <=> Copies(x, msgs) > 0
    BY <1>3, CopiesCount DEF Sent
  <2>3. \A x : Copies(x, msgs) \in Nat
    BY <1>3, CopiesCount
  <2>4. \A x : x # m => Copies(x, msgs') = Copies(x, msgs)
    BY <1>4, <2>3
  <2>5. Sent' \subseteq Sent
    BY <2>1, <2>2, <2>3, <1>4
  <2>6. ASSUME NEW x \in Sent, x.type # "YES"
        PROVE  x \in Sent' /\ msgs'[x] = msgs[x]
    <3>1. x \in Sent'
      BY <1>1, <2>1, <2>2, <2>4, <2>6
    <3> QED
      BY <1>1, <1>3, <1>4, <2>4, <2>6, <3>1, CopiesCount DEF Sent
  <2>7. InFlight' = {x \in Sent' : ~Stale(x)}
    BY <1>1, StaleStays
  <2> QED
    BY <2>5, <2>6, <2>7 DEF InFlight
<1>6. \A type, from, to, ts : type # "YES" =>
        (Msg(type, from, to, ts) \in InFlight' <=> Msg(type, from, to, ts) \in InFlight)
  BY <1>5, Fields
<1>7. /\ \A d \in Node : Released(d)' <=> Released(d)
      /\ \A n, d \in Node : Holds(n, d)' <=> Holds(n, d)
      /\ Backward' = Backward
  BY <1>1, <1>5, <1>6 DEF Released, Holds, Backward
<1>8. TypeOK'
  <2>1. BagToSet(msgs') \subseteq Messages
    BY <1>3, <1>5 DEF Sent
  <2>2. yesVotes' \in [Node -> Int]
    <3>1. yesVotes \in [Node -> Int]
      BY <1>2 DEF TypeOK
    <3>2. PICK n \in Node : n = m.to
      BY <1>3
    <3>3. yesVotes' = [yesVotes EXCEPT ![n] = yesVotes[n] + 1]
      BY <1>1, <3>2
    <3> QED
      BY <3>1, <3>3
  <2> QED
    BY <1>1, <1>2, <1>4, <2>1, <2>2 DEF TypeOK
<1>9. Once'
  BY <1>1, <1>2, <1>5 DEF Once
<1>10. Requests'
  <2>1. \A x \in InFlight : x.from \in Node /\ x.to \in Node
    BY <1>3 DEF Messages
  <2> QED
    BY <1>1, <1>2, <1>5, <1>7, <2>1 DEF Requests
<1>11. Queues'
  <2>1. \A d \in Node : \A p \in BagToSet(deferredQ[d]) : p[2] \in Node
    BY <1>2 DEF TypeOK, Entries
  <2> QED
    BY <1>1, <1>2, <1>7, <2>1 DEF Queues
<1>12. Candidates'
  BY <1>1, <1>2, <1>7 DEF Candidates, Wants
<1>13. Tokens' /\ Past'
  <2>1. Past'
    BY <1>1, <1>2, <1>5 DEF Past
  <2> QED
    BY <1>1, <1>2, <1>5, <1>7, <2>1 DEF Tokens, ArbiterOf, Wants
<1>14. Votes'
  <2>1. \A n \in Node : Voters(n)' = Voters(n) /\ Going(n)' = Going(n)
    BY <1>1, <1>6 DEF Voters, Going, Holds
  <2>2. ASSUME NEW n \in Node \ {m.to}
        PROVE  Coming(n)' = Coming(n) /\ yesVotes'[n] = yesVotes[n]
    <3>1. ASSUME NEW d \in Node
          PROVE  Copies(VoteTo(d, n), msgs') = Copies(VoteTo(d, n), msgs)
      <4>1. VoteTo(d, n) # m
        BY Fields DEF VoteTo
      <4> QED
        BY <1>3, <1>4, <4>1, CopiesCount
    <3> QED
      BY <1>1, <1>2, <3>1, Districts DEF Coming, VoteTo, TypeOK
  <2>3. /\ IsFiniteSet(Coming(m.to))' /\ IsFiniteSet(Coming(m.to))
        /\ Cardinality(Coming(m.to)') \in Nat
        /\ Cardinality(Coming(m.to)) = Cardinality(Coming(m.to)') + 1
    <3> DEFINE n == m.to
               d == m.from
    <3>1. /\ Coming(n) = {x \in District[n] \X (Nat \ {0}) :
                            x[2] <= Copies(VoteTo(x[1], n), msgs)}
          /\ Coming(n)' = {x \in District[n] \X (Nat \ {0}) :
                             x[2] <= Copies(VoteTo(x[1], n), msgs')}
      BY <1>1 DEF Coming, VoteTo
    <3>2. Copies(VoteTo(d, n), msgs) = Copies(VoteTo(d, n), msgs') + 1
      BY <1>3, <1>4, CopiesCount
    <3>3. ASSUME NEW e \in District[n] \ {d}
          PROVE  Copies(VoteTo(e, n), msgs) = Copies(VoteTo(e, n), msgs')
      <4>1. VoteTo(e, n) # m
        BY Fields DEF VoteTo
      <4> QED
        BY <1>3, <1>4, <4>1, CopiesCount
    <3>4. IsFiniteSet(Coming(n))
      BY <1>2, <1>3 DEF Votes
    <3>5. n \in Node /\ d \in District[n]
      BY <1>3
    <3> HIDE DEF Coming, n, d
    <3>6. IsABag(msgs) /\ IsABag(msgs')
      BY <1>3, <1>4
    <3>7. /\ IsFiniteSet(Coming(n)') /\ IsFiniteSet(Coming(n))
          /\ Cardinality(Coming(n)') \in Nat
          /\ Cardinality(Coming(n)) = Cardinality(Coming(n)') + 1
      BY <3>1, <3>2, <3>3, <3>4, <3>5, <3>6, ComingFollows
    <3> QED
      BY <3>7 DEF n
  <2>4. yesVotes'[m.to] = yesVotes[m.to] + 1
    BY <1>1, <1>2, <1>3 DEF TypeOK
  <2>5. ASSUME NEW n \in Node
        PROVE  /\ IsFiniteSet(Coming(n))'
               /\ yesVotes'[n] = Cardinality(Voters(n)') - Cardinality(Coming(n)')
                                   - Cardinality(Going(n)')
    <3>1. /\ IsFiniteSet(Coming(n)) /\ Cardinality(Voters(n)) \in Nat
          /\ Cardinality(Going(n)) \in Nat
          /\ yesVotes[n] = Cardinality(Voters(n)) - Cardinality(Coming(n))
                             - Cardinality(Going(n))
      BY <1>2, Districts DEF Votes
    <3>2. CASE n = m.to
      <4>1. /\ IsFiniteSet(Coming(n))' /\ Cardinality(Coming(n)') \in Nat
            /\ Cardinality(Coming(n)) = Cardinality(Coming(n)') + 1
            /\ yesVotes'[n] = yesVotes[n] + 1
        BY <2>3, <2>4, <3>2
      <4>2. Voters(n)' = Voters(n) /\ Going(n)' = Going(n)
        BY <2>1
      <4> QED
        BY <3>1, <4>1, <4>2
    <3>3. CASE n # m.to
      BY <2>1, <2>2, <3>1, <3>3
    <3> QED
      BY <3>2, <3>3
  <2> QED
    BY <2>5 DEF Votes
<1>15. Entrants'
  <2>1. \A n \in Node : yesVotes'[n] >= yesVotes[n] /\ yesVotes'[n] \in Int /\ yesVotes[n] \in Int
    BY <1>1, <1>2 DEF TypeOK
  <2>2. \A n \in Node : Cardinality(District[n]) \in Nat
    BY Districts
  <2> QED
    BY <1>1, <1>2, <2>1, <2>2 DEF Entrants
<1> QED
  BY <1>8, <1>9, <1>10, <1>11, <1>12, <1>13, <1>14, <1>15 DEF IInv

(* An inquiry that is not stale arrives: its receiver may give the vote back. *)
LEMMA InqStep == \A m \in InFlight : IInv /\ handleInqTsMessage(m) => IInv'
<1> SUFFICES ASSUME NEW m \in InFlight, IInv, handleInqTsMessage(m) PROVE IInv'
  OBVIOUS
<1>1. PICK n, d, yields, back :
        /\ n = m.to /\ d = m.from /\ yields = (~inCS[m.to] /\ myTS[m.to] = m.ts)
        /\ back = Msg("RELINQUISH", n, d, 0)
  OBVIOUS
<1>2. PICK S : S = IF yields THEN {back} ELSE {}
  OBVIOUS
<1>3. /\ UNCHANGED <<curTS, requests, inCS, requestedCS, myTS, hasVoted, cand,
                     candTS, inquired, deferredQ>>
      /\ yesVotes' = [yesVotes EXCEPT ![n] = IF yields THEN @ - 1 ELSE @]
      /\ m.type = "INQ" /\ msgs' = (msgs (-) SetToBag({m})) (+) SetToBag(S)
      /\ yields => ~inCS[n]
  BY <1>1, <1>2 DEF handleInqTsMessage, Handle, arbiter, EmptyBag
<1>4. /\ TypeOK /\ Once /\ Requests /\ Queues /\ Candidates /\ Tokens
      /\ Past /\ Votes /\ Entrants
  BY DEF IInv
<1>5. InFlight \subseteq Messages /\ IsABag(msgs) /\ n \in Node /\ d \in Node
  <2>1. InFlight \subseteq Messages /\ IsABag(msgs)
    BY <1>4 DEF TypeOK, InFlight, Sent
  <2> QED
    BY <1>1, <2>1 DEF Messages
<1>6. /\ m \in Backward /\ ArbiterOf(m) = d /\ hasVoted[d] /\ n = cand[d]
      /\ inquired[d] /\ d \in District[n]
  <2>1. m \in Backward /\ ArbiterOf(m) = d
    BY <1>1, <1>3 DEF Backward, ArbiterOf
  <2>2. hasVoted[d] /\ n = cand[d] /\ inquired[d]
    BY <1>1, <1>3, <1>4, <2>1 DEF Tokens
  <2> QED
    BY <1>4, <1>5, <2>1, <2>2 DEF Candidates
<1>7. /\ back.type = "RELINQUISH" /\ back.from = n /\ back.to = d /\ back.ts = 0
      /\ back \in Messages /\ ArbiterOf(back) = d
  BY <1>1, <1>5 DEF Msg, Messages, ArbiterOf
<1>8. \A k \in Backward : ArbiterOf(k) = d => k = m
  BY <1>4, <1>6 DEF Tokens
<1>9. S \subseteq {back} /\ S \subseteq Messages /\ back \notin InFlight
  BY <1>2, <1>3, <1>7, <1>8 DEF Backward
<1>10. /\ IsABag(msgs') /\ InFlight' = (InFlight \ {m}) \cup S
       /\ Sent' = (Sent \ {m}) \cup S /\ Sent' \subseteq Messages
       /\ \A x \in InFlight' : x.type # "YES" => msgs'[x] = 1
       /\ \A o, e \in Node :
            Copies(VoteTo(e, o), msgs') = Copies(VoteTo(e, o), msgs)
                                          + (IF VoteTo(e, o) \in S THEN 1 ELSE 0)
  <2>1. /\ TypeOK /\ Once /\ m.type # "YES" /\ S \subseteq Messages
        /\ inCS' = inCS /\ requestedCS' = requestedCS /\ myTS' = myTS
        /\ msgs' = (msgs (-) SetToBag({m})) (+) SetToBag(S)
        /\ Live(S) = S /\ \A x \in Live(S) : x \notin InFlight \/ x.type = "YES"
    <3>1. Live(S) = S
      BY <1>7, <1>9 DEF Stale, Live
    <3> QED
      BY <1>3, <1>4, <1>9, <3>1
  <2> QED
    BY ONLY <2>1, m \in InFlight, Handled
<1>11. /\ \A e \in Node : Released(e)' <=> Released(e)
       /\ \A o, e \in Node : Holds(o, e)' <=> Holds(o, e)
  <2>1. ASSUME NEW e \in Node PROVE Msg("RELEASE", cand[e], e, 0) \notin {m, back}
    BY <1>3, <1>7, Fields
  <2> QED
    BY <1>3, <1>9, <1>10, <2>1 DEF Released, Holds
<1>12. TypeOK'
  <2>3. late' \in BOOLEAN
    BY <1>4 DEF handleInqTsMessage, TypeOK
  <2>1. BagToSet(msgs') \subseteq Messages
    BY <1>10 DEF Sent
  <2>2. yesVotes' \in [Node -> Int]
    <3>1. yesVotes \in [Node -> Int]
      BY <1>4 DEF TypeOK
    <3>2. yesVotes' = [yesVotes EXCEPT ![n] = IF yields THEN yesVotes[n] - 1
                                                        ELSE yesVotes[n]]
      BY <1>3
    <3>3. (IF yields THEN yesVotes[n] - 1 ELSE yesVotes[n]) \in Int
      BY <3>1, <1>5
    <3> QED
      BY <3>1, <3>2, <3>3
  <2> QED
    BY <1>3, <1>4, <1>10, <2>1, <2>2, <2>3 DEF TypeOK
<1>13. Once'
  BY <1>3, <1>4, <1>10 DEF Once
<1>14. \A x \in InFlight' : x \in InFlight \/ x = back
  BY <1>9, <1>10
<1>15. Requests'
  <2>1. \A x \in InFlight : x.from \in Node /\ x.to \in Node
    BY <1>5 DEF Messages
  <2>2. \A x \in InFlight' : x.type = "REQ" => x \in InFlight
    BY <1>7, <1>14
  <2> QED
    BY <1>3, <1>4, <1>11, <2>1, <2>2 DEF Requests
<1>16. Queues'
  <2>1. \A e \in Node : \A p \in BagToSet(deferredQ[e]) : p[2] \in Node
    BY <1>4 DEF TypeOK, Entries
  <2> QED
    BY <1>3, <1>4, <1>11, <2>1 DEF Queues
<1>17. Candidates'
  BY <1>3, <1>4, <1>11 DEF Candidates, Wants
<1>18. Tokens'
  <2>1. \A x \in Backward' : x = back \/ (x \in Backward /\ ArbiterOf(x) # d)
    BY <1>8, <1>9, <1>10 DEF Backward
  <2>2. \A x \in InFlight' : x.type \in {"REQ", "YES"} => x \in InFlight
    BY <1>7, <1>14
  <2>3. /\ \A x \in InFlight' : x.type = "YES" => x.from \in District[x.to]
        /\ \A x \in InFlight' : x.type \notin {"REQ", "INQ"} => x.ts = 0
    BY <1>4, <1>7, <1>14 DEF Tokens
  <2>4. \A x \in Backward' : hasVoted[ArbiterOf(x)]
    BY <1>4, <1>6, <1>7, <2>1 DEF Tokens
  <2>5. /\ \A x \in InFlight' : x.type = "INQ" =>
             x.to = cand[x.from] /\ x.ts = candTS[x.from] /\ inquired[x.from]
        /\ \A x \in InFlight' : x.type = "RELINQUISH" =>
             x.from = cand[x.to] /\ inquired[x.to]
    BY <1>4, <1>6, <1>7, <1>14 DEF Tokens
  <2>6. \A x \in InFlight' : x.type = "RELEASE" =>
          x.from = cand[x.to] /\ ~(Wants(x.from)' /\ myTS[x.from] = candTS[x.to])
    BY <1>3, <1>4, <1>7, <1>14 DEF Tokens, Wants
  <2>7. \A k, x \in Backward' : ArbiterOf(k) = ArbiterOf(x) => k = x
    BY <1>4, <1>7, <2>1 DEF Tokens
  <2> QED
    BY <1>3, <2>3, <2>4, <2>5, <2>6, <2>7 DEF Tokens, ArbiterOf
<1>19. Votes'
  <2>1. \A o \in Node : Voters(o)' = Voters(o)
    BY <1>3 DEF Voters, Holds
  <2>2. ASSUME NEW o \in Node PROVE Coming(o)' = Coming(o)
    <3>1. \A e \in District[o] : Copies(VoteTo(e, o), msgs') = Copies(VoteTo(e, o), msgs)
      <4> SUFFICES ASSUME NEW e \in District[o] PROVE VoteTo(e, o) \notin S
        BY <1>5, <1>10, Districts, CopiesCount
      <4> QED
        BY <1>7, <1>9, Fields DEF VoteTo
    <3> QED
      BY <3>1 DEF Coming, VoteTo
  <2>3. ASSUME NEW o \in Node
        PROVE  Going(o)' = IF yields /\ o = n THEN Going(o) \cup {d} ELSE Going(o)
    <3>1. ASSUME NEW e \in District[o]
          PROVE  e \in Going(o)' <=> e \in Going(o) \/ (yields /\ o = n /\ e = d)
      <4>1. /\ Msg("RELINQUISH", o, e, 0) # m /\ Msg("RELEASE", o, e, 0) # m
            /\ Msg("RELEASE", o, e, 0) # back
            /\ Msg("RELINQUISH", o, e, 0) = back <=> o = n /\ e = d
        BY <1>1, <1>3, <1>7, Fields
      <4> QED
        BY <1>2, <1>10, <4>1 DEF Going
    <3>2. Going(o) \subseteq District[o] /\ Going(o)' \subseteq District[o]
      BY DEF Going
    <3>3. d \in District[n]
      BY <1>6
    <3> HIDE DEF Going
    <3>4. CASE yields /\ o = n
      BY <3>1, <3>2, <3>3, <3>4
    <3>5. CASE ~(yields /\ o = n)
      BY <3>1, <3>2, <3>5
    <3> QED
      BY <3>4, <3>5
  <2>4. d \notin Going(n)
    <3>1. /\ ArbiterOf(Msg("RELINQUISH", n, d, 0)) = d /\ ArbiterOf(Msg("RELEASE", n, d, 0)) = d
          /\ Msg("RELINQUISH", n, d, 0) # m /\ Msg("RELEASE", n, d, 0) # m
      BY <1>3, Fields DEF ArbiterOf
    <3>2. /\ Msg("RELINQUISH", n, d, 0) \notin Backward
          /\ Msg("RELEASE", n, d, 0) \notin Backward
      BY <1>8, <3>1
    <3> QED
      BY <3>2, Fields DEF Going, Backward
  <2>5. ASSUME NEW o \in Node
        PROVE  /\ IsFiniteSet(Coming(o))'
               /\ yesVotes'[o] = Cardinality(Voters(o)') - Cardinality(Coming(o)')
                                   - Cardinality(Going(o)')
    <3>1. /\ IsFiniteSet(Coming(o)) /\ Cardinality(Coming(o)) \in Nat
          /\ yesVotes[o] = Cardinality(Voters(o)) - Cardinality(Coming(o))
                             - Cardinality(Going(o))
          /\ yesVotes \in [Node -> Int]
      BY <1>4, FS_CardinalityType DEF Votes, TypeOK
    <3>2. /\ IsFiniteSet(Going(o)) /\ Cardinality(Going(o)) \in Nat
          /\ Cardinality(Voters(o)) \in Nat
      BY Districts
    <3>3. CASE yields /\ o = n
      <4>1. Cardinality(Going(o)') = Cardinality(Going(o)) + 1
        <5>1. Going(o)' = Going(o) \cup {d} /\ d \notin Going(o)
          BY <2>3, <2>4, <3>3
        <5>2. Cardinality(Going(o) \cup {d}) = Cardinality(Going(o)) + 1
          BY <3>2, <5>1, FS_AddElement
        <5> QED
          BY <5>1, <5>2
      <4>2. yesVotes'[o] = yesVotes[o] - 1
        BY <1>3, <3>1, <3>3
      <4> QED
        BY <2>1, <2>2, <3>1, <3>2, <4>1, <4>2
    <3>4. CASE ~(yields /\ o = n)
      <4>1. yesVotes'[o] = yesVotes[o]
        BY <1>3, <3>1, <3>4
      <4> QED
        BY <2>1, <2>2, <2>3, <3>1, <3>4, <4>1
    <3> QED
      BY <3>3, <3>4
  <2> QED
    BY <2>5 DEF Votes
<1>20. Entrants'
  <2>1. \A o \in Node : inCS[o] => yesVotes'[o] = yesVotes[o]
    BY <1>3, <1>4 DEF TypeOK
  <2> QED
    BY <1>3, <1>4, <2>1 DEF Entrants
<1>21. Past'
  <2>1. \A x \in Sent' : x.type = "INQ" => x \in Sent
    BY <1>7, <1>9, <1>10
  <2> QED
    BY <1>3, <1>4, <2>1 DEF Past
<1> QED
  BY <1>12, <1>13, <1>15, <1>16, <1>17, <1>18, <1>19, <1>20, <1>21 DEF IInv

(* A stale inquiry arrives and is not answered.  It may have been one of    *)
(* several copies.                                                          *)
LEMMA StaleStep ==
  \A m \in Sent \ InFlight :
    ~late' /\ IInv /\ handleInqTsMessage(m) => IInv'
<1> SUFFICES ASSUME NEW m \in Sent \ InFlight, ~late', IInv, handleInqTsMessage(m)
             PROVE  IInv'
  OBVIOUS
<1>0. PICK S : S = {}
  OBVIOUS
<1>1. /\ TypeOK /\ Once /\ Requests /\ Queues /\ Candidates /\ Tokens
      /\ Past /\ Votes /\ Entrants
  BY DEF IInv
<1>2. Sent \subseteq Messages /\ IsABag(msgs)
  BY <1>1 DEF TypeOK, Sent
<1>3. ~(~inCS[m.to] /\ myTS[m.to] = m.ts)
  <2>1. m.type = "INQ" /\ ~(Wants(m.to) /\ myTS[m.to] = m.ts)
    BY DEF InFlight, Stale
  <2>2. ASSUME ~inCS[m.to] /\ myTS[m.to] = m.ts PROVE late'
    BY <2>1, <2>2 DEF handleInqTsMessage
  <2> QED
    BY <2>2
<1>4. /\ UNCHANGED <<curTS, requests, inCS, requestedCS, myTS, hasVoted, cand,
                     candTS, inquired, deferredQ>>
      /\ yesVotes' = yesVotes /\ m.type = "INQ"
      /\ msgs' = (msgs (-) SetToBag({m})) (+) SetToBag(S)
  <2>1. yesVotes' = [yesVotes EXCEPT ![m.to] = yesVotes[m.to]]
    BY <1>3 DEF handleInqTsMessage
  <2>2. yesVotes' = yesVotes
    BY <1>1, <2>1 DEF TypeOK
  <2> QED
    BY <1>0, <1>3, <2>2 DEF handleInqTsMessage, Handle, arbiter, EmptyBag
<1>5. /\ IsABag(msgs')
      /\ \A e : Copies(e, msgs') = Copies(e, msgs) - (IF e = m THEN 1 ELSE 0)
  <2>1. /\ IsABag(msgs')
        /\ \A e : Copies(e, msgs') = Copies(e, msgs) - (IF e = m THEN 1 ELSE 0)
                                                   + (IF e \in S THEN 1 ELSE 0)
    <3>1. /\ IsABag(msgs) /\ m \in BagToSet(msgs)
          /\ msgs' = (msgs (-) SetToBag({m})) (+) SetToBag(S)
      BY <1>2, <1>4 DEF Sent
    <3> QED
      BY ONLY <3>1, Taken
  <2> QED
    BY <2>1, <1>0, <1>2, CopiesCount
<1>6. /\ Sent' \subseteq Sent /\ InFlight' = InFlight
      /\ \A x : x # m => Copies(x, msgs') = Copies(x, msgs)
      /\ \A x \in InFlight : msgs'[x] = msgs[x]
  <2>1. \A x : x \in Sent' <=> Copies(x, msgs') > 0
    BY <1>5, CopiesCount DEF Sent
  <2>2. \A x : x \in Sent <=> Copies(x, msgs) > 0
    BY <1>2, CopiesCount DEF Sent
  <2>3. \A x : Copies(x, msgs) \in Nat
    BY <1>2, CopiesCount
  <2>4. \A x : x # m => Copies(x, msgs') = Copies(x, msgs)
    BY <1>5, <2>3
  <2>5. Sent' \subseteq Sent /\ \A x \in Sent : x # m => x \in Sent'
    BY <2>1, <2>2, <2>3, <2>4, <1>5
  <2>6. Stale(m)
    BY DEF InFlight
  <2>7. InFlight' = {x \in Sent' : ~Stale(x)}
    BY <1>4, StaleStays
  <2>8. InFlight' = InFlight
    BY <2>5, <2>6, <2>7 DEF InFlight
  <2>9. ASSUME NEW x \in InFlight PROVE msgs'[x] = msgs[x]
    <3>1. x # m /\ x \in Sent /\ x \in Sent'
      BY <2>5 DEF InFlight
    <3> QED
      BY <2>4, <3>1 DEF Copies, Sent
  <2> QED
    BY <2>4, <2>5, <2>8, <2>9
<1>7. /\ Backward' = Backward
      /\ \A o : Wants(o)' <=> Wants(o)
      /\ \A d : Released(d)' <=> Released(d)
      /\ \A n, d : Holds(n, d)' <=> Holds(n, d)
  BY <1>4, <1>6 DEF Backward, Released, Holds, Wants
<1>8. TypeOK'
  <2>1. BagToSet(msgs') \subseteq Messages
    BY <1>2, <1>6 DEF Sent
  <2>2. late' \in BOOLEAN
    BY <1>1 DEF handleInqTsMessage, TypeOK
  <2> QED
    BY <1>1, <1>4, <1>5, <2>1, <2>2 DEF TypeOK
<1>9. Once' /\ Requests' /\ Queues' /\ Candidates'
  <2>1. Once'
    BY <1>1, <1>4, <1>6 DEF Once
  <2>2. Requests'
    BY <1>1, <1>4, <1>6, <1>7 DEF Requests
  <2>3. Queues'
    BY <1>1, <1>4, <1>7 DEF Queues
  <2>4. Candidates'
    BY <1>1, <1>4, <1>7 DEF Candidates
  <2> QED
    BY <2>1, <2>2, <2>3, <2>4
<1>10. Tokens' /\ Past' /\ Entrants'
  <2>1. Tokens'
    BY <1>1, <1>4, <1>6, <1>7 DEF Tokens, ArbiterOf
  <2>2. Past' /\ Entrants'
    BY <1>1, <1>4, <1>6 DEF Past, Entrants
  <2> QED
    BY <2>1, <2>2
<1>11. Votes'
  <2>1. \A n \in Node : Going(n)' = Going(n)
    BY <1>6 DEF Going
  <2>2. ASSUME NEW n \in Node, NEW e \in Node
        PROVE  Copies(VoteTo(e, n), msgs') = Copies(VoteTo(e, n), msgs)
    <3>1. VoteTo(e, n) # m
      BY <1>4, Fields DEF VoteTo
    <3> QED
      BY <1>6, <3>1
  <2> QED
    BY <1>1, <1>2, <1>4, <1>5, <2>1, <2>2, VotesStay
<1> QED
  BY <1>8, <1>9, <1>10, <1>11 DEF IInv

(* Arbiter d takes the vote from c, or had it free, and votes for the       *)
(* request <<t, w>>, where w is NoNode when nobody gets it.  No token of d  *)
(* is left, and neither its queue Q nor a message asks for w again.         *)
Goes(m, d, c, w, t, Q, S) ==
  /\ UNCHANGED <<curTS, requests, inCS, requestedCS, myTS, yesVotes, late>>
  /\ hasVoted' = [hasVoted EXCEPT ![d] = w # NoNode]
  /\ cand' \in [Node -> Node \cup {NoNode}] /\ candTS' = [candTS EXCEPT ![d] = t]
  /\ \A e \in Node : cand'[e] = IF e = d /\ w # NoNode THEN w ELSE cand[e]
  /\ inquired' \in [Node -> BOOLEAN]
  /\ \A e \in Node \ {d} : inquired'[e] = inquired[e]
  /\ DOMAIN deferredQ' = Node
  /\ \A e \in Node : deferredQ'[e] = IF e = d THEN Q ELSE deferredQ[e]
  /\ msgs' = (msgs (-) SetToBag({m})) (+) SetToBag(S)
  /\ S = IF w # NoNode THEN {VoteTo(d, w)} ELSE {}
  /\ m.type \in {"REQ", "RELINQUISH", "RELEASE"} /\ m.to = d
  /\ \A k \in Backward : ArbiterOf(k) = d => k = m
  /\ \A n \in Node : Holds(n, d) <=> n = c
  /\ c \in Node => d \in Going(c)
  /\ w # NoNode =>
       w \in Node /\ requestedCS[w] /\ t = myTS[w] /\ d \in District[w] /\ t < curTS
  /\ IsABag(Q) /\ BagToSet(Q) \subseteq Entries
  /\ \A q \in BagToSet(Q) :
       /\ Q[q] = 1 /\ q[2] # w /\ q[1] < curTS
       /\ requestedCS[q[2]] /\ q[1] = myTS[q[2]] /\ d \in District[q[2]]
  /\ \A x \in InFlight \ {m} : x.type = "REQ" /\ x.to = d =>
       x.from # w /\ <<x.ts, x.from>> \notin BagToSet(Q)

LEMMA VoteGoes ==
  ASSUME IInv, NEW m \in InFlight, NEW d \in Node, NEW c, NEW w,
         NEW t \in 0 .. MaxRound, NEW Q, NEW S,
         Goes(m, d, c, w, t, Q, S)
  PROVE  IInv'
<1> USE DEF Goes
<1>1. /\ TypeOK /\ Once /\ Requests /\ Queues /\ Candidates /\ Tokens
      /\ Past /\ Votes /\ Entrants
  BY DEF IInv
<1>2. InFlight \subseteq Messages /\ IsABag(msgs)
  BY <1>1 DEF TypeOK, InFlight, Sent
<1>3. /\ S \subseteq Messages
      /\ \A x \in S : x.type = "YES" /\ x.from = d /\ x.to = w /\ x.ts = 0
  <2>1. w # NoNode => VoteTo(d, w) \in Messages
    <3>1. 0 \in 0 .. MaxRound
      OBVIOUS
    <3> QED
      BY <3>1 DEF Messages, VoteTo, Msg
  <2> QED
    BY <2>1, Fields DEF VoteTo
<1>4. /\ IsABag(msgs') /\ InFlight' = (InFlight \ {m}) \cup S
      /\ Sent' = (Sent \ {m}) \cup S /\ Sent' \subseteq Messages
      /\ \A x \in InFlight' : x.type # "YES" => msgs'[x] = 1
      /\ \A o, e \in Node :
           Copies(VoteTo(e, o), msgs') = Copies(VoteTo(e, o), msgs)
                                         + (IF VoteTo(e, o) \in S THEN 1 ELSE 0)
  <2>1. /\ TypeOK /\ Once /\ m.type # "YES" /\ S \subseteq Messages
        /\ inCS' = inCS /\ requestedCS' = requestedCS /\ myTS' = myTS
        /\ msgs' = (msgs (-) SetToBag({m})) (+) SetToBag(S)
        /\ Live(S) = S /\ \A x \in Live(S) : x \notin InFlight \/ x.type = "YES"
    <3>1. Live(S) = S
      BY <1>3 DEF Stale, Live
    <3> QED
      BY <1>1, <1>3, <3>1
  <2> QED
    BY ONLY <2>1, m \in InFlight, Handled
<1>5. \A x \in InFlight' : x \in InFlight \ {m} \/ (x \in S /\ x.type = "YES")
  BY <1>3, <1>4
<1>6. /\ Backward' = Backward \ {m}
      /\ \A k \in Backward' : k \in Backward /\ ArbiterOf(k) # d
  BY <1>3, <1>4 DEF Backward
<1>7. /\ hasVoted'[d] <=> w # NoNode
      /\ w # NoNode => cand'[d] = w
      /\ candTS'[d] = t
      /\ deferredQ'[d] = Q
      /\ \A e \in Node \ {d} :
           /\ hasVoted'[e] = hasVoted[e] /\ cand'[e] = cand[e]
           /\ candTS'[e] = candTS[e] /\ inquired'[e] = inquired[e]
           /\ deferredQ'[e] = deferredQ[e]
  <2>1. /\ hasVoted \in [Node -> BOOLEAN] /\ cand \in [Node -> Node \cup {NoNode}]
        /\ candTS \in [Node -> 0 .. MaxRound] /\ inquired \in [Node -> BOOLEAN]
        /\ DOMAIN deferredQ = Node
    BY <1>1 DEF TypeOK
  <2>2. hasVoted'[d] <=> w # NoNode
    BY <2>1, Zenon
  <2>3. (w # NoNode => cand'[d] = w) /\ candTS'[d] = t /\ deferredQ'[d] = Q
    BY <2>1
  <2>4. ASSUME NEW e \in Node \ {d}
        PROVE  /\ hasVoted'[e] = hasVoted[e] /\ cand'[e] = cand[e]
               /\ candTS'[e] = candTS[e] /\ inquired'[e] = inquired[e]
               /\ deferredQ'[e] = deferredQ[e]
    BY <2>1
  <2> QED
    BY <2>2, <2>3, <2>4
<1>8. /\ \A n \in Node : Holds(n, d)' <=> n = w
      /\ \A n \in Node, e \in Node \ {d} : Holds(n, e)' <=> Holds(n, e)
  <2>1. \A n \in Node : n # NoNode
    BY DEF NoNode
  <2> QED
    BY <1>7, <2>1 DEF Holds
<1>9. \A e \in Node \ {d} : Released(e)' <=> Released(e)
  <2> SUFFICES ASSUME NEW e \in Node \ {d}
               PROVE  Msg("RELEASE", cand[e], e, 0) \notin {m} \cup S
    BY <1>4, <1>7 DEF Released
  <2> QED
    BY <1>3, Fields
<1>10. TypeOK'
  <2>1. BagToSet(msgs') \subseteq Messages
    BY <1>4 DEF Sent
  <2>2. \A n \in Node : IsABag(deferredQ'[n]) /\ BagToSet(deferredQ'[n]) \subseteq Entries
    BY <1>1, <1>7 DEF TypeOK
  <2>3. /\ hasVoted' \in [Node -> BOOLEAN] /\ cand' \in [Node -> Node \cup {NoNode}]
        /\ candTS' \in [Node -> 0 .. MaxRound] /\ inquired' \in [Node -> BOOLEAN]
    BY <1>1 DEF TypeOK
  <2> QED
    BY <1>1, <1>4, <2>1, <2>2, <2>3 DEF TypeOK
<1>11. Once'
  <2>1. ASSUME NEW e \in Node, NEW q \in BagToSet(deferredQ'[e])
        PROVE  deferredQ'[e][q] = 1
    <3>1. CASE e = d
      BY <1>7, <3>1
    <3>2. CASE e # d
      <4>1. deferredQ'[e] = deferredQ[e]
        BY <1>7, <3>2
      <4>2. q \in BagToSet(deferredQ[e])
        BY <4>1
      <4> QED
        BY ONLY <1>1, <4>1, <4>2, e \in Node DEF Once
    <3> QED
      BY <3>1, <3>2
  <2> QED
    BY <1>4, <2>1 DEF Once
<1>12. Requests'
  <2> SUFFICES ASSUME NEW x \in InFlight', x.type = "REQ"
               PROVE  /\ requestedCS[x.from] /\ x.ts = myTS[x.from]
                      /\ x.to \in District[x.from]
                      /\ <<x.ts, x.from>> \notin BagToSet(deferredQ'[x.to])
                      /\ Holds(x.from, x.to)' => Released(x.to)'
    BY DEF Requests
  <2>1. x \in InFlight \ {m} /\ x.from \in Node /\ x.to \in Node
    BY <1>2, <1>5 DEF Messages
  <2>2. /\ requestedCS[x.from] /\ x.ts = myTS[x.from] /\ x.to \in District[x.from]
        /\ <<x.ts, x.from>> \notin BagToSet(deferredQ[x.to])
        /\ Holds(x.from, x.to) => Released(x.to)
    BY <1>1, <2>1 DEF Requests
  <2>3. CASE x.to = d
    <3>1. x.from # w
      BY <2>1, <2>3
    <3>2. ~Holds(x.from, d)'
      BY <1>8, <2>1, <3>1
    <3>3. <<x.ts, x.from>> \notin BagToSet(Q)
      BY <2>1, <2>3
    <3> QED
      BY <1>7, <2>2, <2>3, <3>2, <3>3
  <2>4. CASE x.to # d
    <3>1. deferredQ'[x.to] = deferredQ[x.to]
      BY <1>7, <2>1, <2>4
    <3>2. (Holds(x.from, x.to)' <=> Holds(x.from, x.to))
          /\ (Released(x.to)' <=> Released(x.to))
      BY <1>8, <1>9, <2>1, <2>4
    <3> QED
      BY <2>2, <3>1, <3>2
  <2> QED
    BY <2>3, <2>4
<1>13. Queues'
  <2> SUFFICES ASSUME NEW e \in Node, NEW q \in BagToSet(deferredQ'[e])
               PROVE  /\ requestedCS[q[2]] /\ q[1] = myTS[q[2]] /\ e \in District[q[2]]
                      /\ Holds(q[2], e)' => Released(e)'
    BY DEF Queues
  <2>1. CASE e = d
    <3>1. q \in BagToSet(Q) /\ q[2] \in Node
      BY <1>7, <2>1 DEF Entries
    <3>2. /\ q[2] # w /\ requestedCS[q[2]] /\ q[1] = myTS[q[2]]
          /\ d \in District[q[2]]
      BY <3>1
    <3>3. ~Holds(q[2], d)'
      BY <1>8, <3>1, <3>2
    <3> QED
      BY <2>1, <3>2, <3>3
  <2>2. CASE e # d
    <3>1. q \in BagToSet(deferredQ[e])
      BY <1>7, <2>2
    <3>2. q[2] \in Node
      BY <1>1, <3>1 DEF TypeOK, Entries
    <3> QED
      BY <1>1, <1>8, <1>9, <2>2, <3>1, <3>2 DEF Queues
  <2> QED
    BY <2>1, <2>2
<1>14. Candidates'
  <2> SUFFICES ASSUME NEW e \in Node, hasVoted'[e]
               PROVE  /\ cand'[e] \in Node /\ e \in District[cand'[e]]
                      /\ ~Released(e)' => Wants(cand'[e]) /\ candTS'[e] = myTS[cand'[e]]
    BY DEF Candidates, Wants
  <2>1. CASE e = d
    BY <1>7, <2>1 DEF Wants
  <2>2. CASE e # d
    BY <1>1, <1>7, <1>9, <2>2 DEF Candidates
  <2> QED
    BY <2>1, <2>2
<1>15. Tokens'
  <2>1. \A k \in Backward' : /\ k \in Backward /\ ArbiterOf(k) \in Node \ {d}
                             /\ k.type = "INQ" => k.from = ArbiterOf(k)
                             /\ k.type # "INQ" => k.to = ArbiterOf(k)
    <3>1. \A k \in Backward : k.from \in Node /\ k.to \in Node
      BY <1>2 DEF Backward, Messages
    <3> QED
      BY <1>6, <3>1 DEF ArbiterOf
  <2>2. \A x \in InFlight' :
          /\ x.type \in {"INQ", "RELINQUISH", "RELEASE"} => x \in Backward'
          /\ x.type = "REQ" => x \in InFlight
    BY <1>5 DEF Backward
  <2>3. /\ \A x \in InFlight' : x.type = "YES" => x.from \in District[x.to]
        /\ \A x \in InFlight' : x.type \notin {"REQ", "INQ"} => x.ts = 0
    BY <1>1, <1>3, <1>5 DEF Tokens
  <2>4. \A k \in Backward' : hasVoted'[ArbiterOf(k)]
    BY <1>1, <1>7, <2>1 DEF Tokens
  <2>5. ASSUME NEW x \in InFlight', x.type = "INQ"
        PROVE  x.to = cand'[x.from] /\ x.ts = candTS'[x.from] /\ inquired'[x.from]
    <3>1. x \in Backward /\ x \in InFlight /\ x.from \in Node \ {d}
      BY <2>1, <2>2, <2>5 DEF Backward
    <3>2. x.to = cand[x.from] /\ x.ts = candTS[x.from] /\ inquired[x.from]
      BY <1>1, <2>5, <3>1 DEF Tokens
    <3> QED
      BY <1>7, <3>1, <3>2
  <2>6. ASSUME NEW x \in InFlight', x.type = "RELINQUISH"
        PROVE  x.from = cand'[x.to] /\ inquired'[x.to]
    <3>1. x \in Backward /\ x \in InFlight /\ x.to \in Node \ {d}
      BY <2>1, <2>2, <2>6 DEF Backward
    <3>2. x.from = cand[x.to] /\ inquired[x.to]
      BY <1>1, <2>6, <3>1 DEF Tokens
    <3> QED
      BY <1>7, <3>1, <3>2
  <2>7. ASSUME NEW x \in InFlight', x.type = "RELEASE"
        PROVE  x.from = cand'[x.to] /\ ~(Wants(x.from)' /\ myTS'[x.from] = candTS'[x.to])
    <3>1. x \in Backward /\ x \in InFlight /\ x.to \in Node \ {d}
      BY <2>1, <2>2, <2>7 DEF Backward
    <3>2. x.from = cand[x.to] /\ ~(Wants(x.from)' /\ myTS'[x.from] = candTS[x.to])
      BY <1>1, <2>7, <3>1 DEF Tokens, Wants
    <3>3. cand'[x.to] = cand[x.to] /\ candTS'[x.to] = candTS[x.to]
      BY <1>7, <3>1
    <3> QED
      BY <3>2, <3>3
  <2>8. \A k, x \in Backward' : ArbiterOf(k) = ArbiterOf(x) => k = x
    BY <1>1, <2>1 DEF Tokens
  <2> QED
    BY <2>3, <2>4, <2>5, <2>6, <2>7, <2>8 DEF Tokens, ArbiterOf
<1>16. Votes'
  <2>2. \A n \in Node : (Holds(n, d) <=> n = c) /\ (Holds(n, d)' <=> n = w)
    BY <1>8
  <2>3. ASSUME NEW n \in Node
        PROVE  Going(n)' = IF n = c THEN Going(n) \ {d} ELSE Going(n)
    <3>1. ASSUME NEW e \in District[n]
          PROVE  e \in Going(n)' <=> e \in Going(n) /\ ~(n = c /\ e = d)
      <4>1. \A type \in {"RELINQUISH", "RELEASE"} :
              Msg(type, n, e, 0) \in InFlight' <=>
                Msg(type, n, e, 0) \in InFlight /\ Msg(type, n, e, 0) # m
        BY <1>3, <1>4, Fields
      <4>2. CASE e # d
        <5>1. \A type : Msg(type, n, e, 0) # m
          BY <4>2, Fields
        <5> QED
          BY <4>1, <4>2, <5>1 DEF Going
      <4>3. CASE e = d /\ n = c
        <5>1. ASSUME NEW type \in {"RELINQUISH", "RELEASE"},
                     Msg(type, n, d, 0) \in InFlight
              PROVE  Msg(type, n, d, 0) = m
          <6>1. Msg(type, n, d, 0) \in Backward /\ ArbiterOf(Msg(type, n, d, 0)) = d
            BY <5>1, Fields DEF Backward, ArbiterOf
          <6> QED
            BY <6>1
        <5> QED
          BY <4>1, <4>3, <5>1 DEF Going
      <4>4. CASE e = d /\ n # c
        <5>1. ASSUME NEW type \in {"RELINQUISH", "RELEASE"},
                     Msg(type, n, d, 0) \in InFlight
              PROVE  FALSE
          <6>1. Msg(type, n, d, 0) \in Backward /\ ArbiterOf(Msg(type, n, d, 0)) = d
            BY <5>1, Fields DEF Backward, ArbiterOf
          <6>2. PICK k \in InFlight : k.type = type /\ k.from = n /\ k.to = d
            BY <5>1, Fields
          <6>3. hasVoted[d]
            BY <1>1, <6>1 DEF Tokens
          <6>4. n = cand[d]
            BY <1>1, <6>2 DEF Tokens
          <6> QED
            BY <4>4, <6>3, <6>4 DEF Holds
        <5> QED
          BY <4>1, <4>4, <5>1 DEF Going
      <4> QED
        BY <4>2, <4>3, <4>4
    <3>2. Going(n) \subseteq District[n] /\ Going(n)' \subseteq District[n]
      BY DEF Going
    <3>3. CASE n = c
      <4>1. \A e \in District[n] : e \in Going(n)' <=> e \in Going(n) \ {d}
        BY <3>1, <3>3
      <4>2. Going(n)' = Going(n) \ {d}
        <5> HIDE DEF Goes
        <5>1. Going(n) \ {d} \subseteq District[n]
          BY <3>2
        <5> QED
          BY <3>2, <4>1, <5>1, SameMembers, Zenon
      <4> QED
        BY <3>3, <4>2
    <3>4. CASE n # c
      <4>1. \A e \in District[n] : e \in Going(n)' <=> e \in Going(n)
        BY <3>1, <3>4
      <4>2. Going(n)' = Going(n)
        <5> HIDE DEF Goes
        <5> QED
          BY <3>2, <4>1, SameMembers, Zenon
      <4> QED
        BY <3>4, <4>2
    <3> QED
      BY <3>3, <3>4
  <2>4. ASSUME NEW n \in Node, NEW e \in Node
        PROVE  Copies(VoteTo(e, n), msgs') = Copies(VoteTo(e, n), msgs)
                                             + (IF e = d /\ n = w THEN 1 ELSE 0)
    <3>1. VoteTo(e, n) \in S <=> e = d /\ n = w
      <4>1. VoteTo(e, n) = VoteTo(d, w) <=> e = d /\ n = w
        BY Fields DEF VoteTo
      <4> QED
        BY <4>1 DEF NoNode
    <3>2. Copies(VoteTo(e, n), msgs') = Copies(VoteTo(e, n), msgs)
                                         + (IF VoteTo(e, n) \in S THEN 1 ELSE 0)
      BY <1>4
    <3> QED
      BY ONLY <3>1, <3>2
  <2>5. w \in Node => d \in District[w]
    BY DEF NoNode
  <2>6. \A n \in Node, e \in Node \ {d} : Holds(n, e)' <=> Holds(n, e)
    BY <1>8
  <2>7. /\ TypeOK /\ Votes /\ IsABag(msgs') /\ yesVotes' = yesVotes /\ d \in Node
        /\ c \in Node => d \in Going(c)
    BY <1>1, <1>4
  <2>8. Passes(d, c, w)
    BY <2>2, <2>3, <2>4, <2>5, <2>6, <2>7 DEF Passes
  <2> QED
    BY <2>7, <2>8, VotesPass
<1>17. Entrants'
  BY <1>1 DEF Entrants
<1>18. Past'
  <2>1. \A x \in Sent' : x.type = "INQ" => x \in Sent
    BY <1>3, <1>4
  <2>2. ASSUME NEW e \in Node
        PROVE  /\ hasVoted'[e] => candTS'[e] < curTS
               /\ \A q \in BagToSet(deferredQ'[e]) : q[1] < curTS
    <3>1. CASE e = d
      BY <1>7, <3>1
    <3>2. CASE e # d
      <4>1. hasVoted'[e] = hasVoted[e] /\ candTS'[e] = candTS[e] /\ deferredQ'[e] = deferredQ[e]
        BY <1>7, <3>2
      <4> QED
        BY <1>1, <4>1 DEF Past
    <3> QED
      BY <3>1, <3>2
  <2> QED
    BY <1>1, <2>1, <2>2 DEF Past
<1> QED
  BY <1>10, <1>11, <1>12, <1>13, <1>14, <1>15, <1>16, <1>17, <1>18 DEF IInv

(* A request arrives at an arbiter with a free vote. *)
LEMMA GrantStep ==
  \A m \in InFlight :
    IInv /\ handleReqTsMessage(m) /\ ~hasVoted[m.to] => IInv'
<1> SUFFICES ASSUME NEW m \in InFlight, IInv, handleReqTsMessage(m), ~hasVoted[m.to]
             PROVE  IInv'
  OBVIOUS
<1>1. PICK d, w, t, Q, S :
        /\ d = m.to /\ w = m.from /\ t = m.ts /\ Q = deferredQ[d]
        /\ S = {VoteTo(d, w)}
  OBVIOUS
<1>2. /\ TypeOK /\ Once /\ Requests /\ Queues /\ Candidates /\ Tokens /\ Past
  BY DEF IInv
<1>3. InFlight \subseteq Messages
  BY <1>2 DEF TypeOK, InFlight, Sent
<1>4. d \in Node /\ w \in Node /\ t \in 0 .. MaxRound
  BY <1>1, <1>3 DEF Messages
<1>5. /\ UNCHANGED <<curTS, requests, inCS, requestedCS, myTS, yesVotes, late>>
      /\ t < curTS
      /\ hasVoted' = [hasVoted EXCEPT ![d] = TRUE]
      /\ cand' = [cand EXCEPT ![d] = w] /\ candTS' = [candTS EXCEPT ![d] = t]
      /\ inquired' = inquired /\ deferredQ' = deferredQ
      /\ m.type = "REQ" /\ msgs' = (msgs (-) SetToBag({m})) (+) SetToBag(S)
  BY <1>1 DEF handleReqTsMessage, Handle, VoteFor, requester, Yes, VoteTo
<1>6. /\ inquired' \in [Node -> BOOLEAN] /\ cand' \in [Node -> Node \cup {NoNode}]
      /\ \A e \in Node : cand'[e] = IF e = d THEN w ELSE cand[e]
      /\ w # NoNode
  BY <1>1, <1>2, <1>4, <1>5 DEF TypeOK, NoNode
<1>7. /\ IsABag(Q) /\ BagToSet(Q) \subseteq Entries
      /\ DOMAIN deferredQ' = Node
      /\ \A e \in Node : deferredQ'[e] = IF e = d THEN Q ELSE deferredQ[e]
  BY <1>1, <1>2, <1>4, <1>5 DEF TypeOK
<1>8. \A k \in Backward : ArbiterOf(k) # d
  BY <1>1, <1>2 DEF Tokens
<1>9. \A n \in Node : ~Holds(n, d) /\ n # NoNode
  BY <1>1 DEF Holds, NoNode
<1>10. requestedCS[w] /\ t = myTS[w] /\ d \in District[w] /\ <<t, w>> \notin BagToSet(Q)
  BY <1>1, <1>2, <1>5 DEF Requests
<1>11. ASSUME NEW q \in BagToSet(Q)
       PROVE  /\ Q[q] = 1 /\ q[2] # w /\ q[1] < curTS
              /\ requestedCS[q[2]] /\ q[1] = myTS[q[2]] /\ d \in District[q[2]]
  <2>1. /\ Q[q] = 1 /\ requestedCS[q[2]] /\ q[1] = myTS[q[2]] /\ d \in District[q[2]]
        /\ q[1] < curTS
    <3>1. q \in BagToSet(deferredQ[d]) /\ Q[q] = deferredQ[d][q]
      BY <1>1
    <3>2. deferredQ[d][q] = 1
      BY <1>2, <1>4, <3>1 DEF Once
    <3>3. requestedCS[q[2]] /\ q[1] = myTS[q[2]] /\ d \in District[q[2]]
      BY <1>2, <1>4, <3>1 DEF Queues
    <3>4. q[1] < curTS
      BY <1>2, <1>4, <3>1 DEF Past
    <3> QED
      BY <3>1, <3>2, <3>3, <3>4
  <2>2. q \in Entries
    BY <1>7, Zenon
  <2>3. q = <<q[1], q[2]>>
    BY <2>2 DEF Entries
  <2> QED
    BY <1>10, <2>1, <2>3
<1>12. ASSUME NEW x \in InFlight \ {m}, x.type = "REQ", x.to = d
       PROVE  x.from # w /\ <<x.ts, x.from>> \notin BagToSet(Q)
  <2>1. x.ts = myTS[x.from] /\ <<x.ts, x.from>> \notin BagToSet(Q)
    BY <1>1, <1>2, <1>12 DEF Requests
  <2>2. ASSUME x.from = w PROVE FALSE
    <3>1. x.type = m.type /\ x.from = m.from /\ x.to = m.to /\ x.ts = m.ts
      BY <1>1, <1>5, <1>10, <1>12, <2>1, <2>2
    <3> QED
      BY <1>3, <3>1, SameMessage
  <2> QED
    BY <2>1, <2>2
<1>13. Goes(m, d, NoNode, w, t, Q, S)
  <2>1. hasVoted' = [hasVoted EXCEPT ![d] = w # NoNode]
    BY <1>5, <1>6, Zenon
  <2>2. /\ S = IF w # NoNode THEN {VoteTo(d, w)} ELSE {}
        /\ \A e \in Node : cand'[e] = IF e = d /\ w # NoNode THEN w ELSE cand[e]
        /\ \A e \in Node \ {d} : inquired'[e] = inquired[e]
        /\ \A k \in Backward : ArbiterOf(k) = d => k = m
        /\ \A n \in Node : Holds(n, d) <=> n = NoNode
        /\ NoNode \in Node => d \in Going(NoNode)
    BY <1>1, <1>4, <1>5, <1>6, <1>8, <1>9
  <2> QED
    BY <1>1, <1>4, <1>5, <1>6, <1>7, <1>10, <1>11, <1>12, <2>1, <2>2 DEF Goes
<1> QED
  BY <1>4, <1>13, VoteGoes

(* The vote is given back by the candidate, which is still waiting, or is   *)
(* released by it.                                                          *)
LEMMA GivenBack ==
  ASSUME IInv, NEW m \in InFlight, m.type \in {"RELINQUISH", "RELEASE"}
  PROVE  /\ m.to \in Node /\ hasVoted[m.to] /\ cand[m.to] = m.from /\ m.from \in Node
         /\ m.to \in Going(m.from)
         /\ \A k \in Backward : ArbiterOf(k) = m.to => k = m
         /\ \A n \in Node : Holds(n, m.to) <=> n = m.from
         /\ \A x \in InFlight : x.type = "REQ" /\ x.to = m.to => 
              /\ x.ts = myTS[x.from] /\ <<x.ts, x.from>> \notin BagToSet(deferredQ[m.to])
              /\ x.from = m.from => m.type = "RELEASE"
<1>1. /\ TypeOK /\ Once /\ Requests /\ Queues /\ Candidates /\ Tokens
  BY DEF IInv
<1>2. InFlight \subseteq Messages
  BY <1>1 DEF TypeOK, InFlight, Sent
<1>3. PICK d \in Node, c \in Node : d = m.to /\ c = m.from
  BY <1>2 DEF Messages
<1>4. m \in Backward /\ ArbiterOf(m) = d
  BY <1>3 DEF Backward, ArbiterOf
<1>5. /\ hasVoted[d] /\ cand[d] = c /\ m.ts = 0
      /\ \A k \in Backward : ArbiterOf(k) = d => k = m
  BY <1>1, <1>3, <1>4 DEF Tokens
<1>6. \A n \in Node : Holds(n, d) <=> n = c
  BY <1>5 DEF Holds
<1>7. m = Msg(m.type, c, d, 0) /\ d \in District[c]
  <2>1. m = Msg(m.type, c, d, 0)
    BY <1>2, <1>3, <1>5, SameMessage
  <2>2. d \in District[c]
    BY <1>1, <1>5 DEF Candidates
  <2> QED
    BY <2>1, <2>2
<1>8. d \in Going(c)
  BY <1>7 DEF Going
<1>9. ASSUME NEW x \in InFlight, x.type = "REQ", x.to = d
      PROVE  /\ x.ts = myTS[x.from] /\ <<x.ts, x.from>> \notin BagToSet(deferredQ[d])
             /\ x.from = c => m.type = "RELEASE"
  <2>1. /\ x.ts = myTS[x.from] /\ <<x.ts, x.from>> \notin BagToSet(deferredQ[d])
        /\ x.from = c => Released(d)
    BY <1>1, <1>6, <1>9 DEF Requests
  <2>2. ASSUME Released(d) PROVE m.type = "RELEASE"
    <3>1. /\ Msg("RELEASE", c, d, 0) \in Backward
          /\ ArbiterOf(Msg("RELEASE", c, d, 0)) = d
      BY <1>5, <2>2, Fields DEF Released, Backward, ArbiterOf
    <3>2. Msg("RELEASE", c, d, 0) = m
      BY <1>5, <3>1
    <3> QED
      BY <3>2, Fields
  <2> QED
    BY <2>1, <2>2
<1> QED
  BY <1>3, <1>5, <1>6, <1>8, <1>9

(* The candidate relinquishes: it queues again, and the first of the queue  *)
(* gets the vote.                                                           *)
LEMMA RelinquishStep ==
  \A m \in InFlight : IInv /\ handleRelinquishMessage(m) => IInv'
<1> SUFFICES ASSUME NEW m \in InFlight, IInv, handleRelinquishMessage(m) PROVE IInv'
  OBVIOUS
<1>1. PICK d, c, old, Q0, p, w, t, Q, S :
        /\ d = m.to /\ c = m.from /\ old = <<candTS[d], cand[d]>>
        /\ Q0 = deferredQ[d] (+) SetToBag({old}) /\ p = First(Q0)
        /\ w = p[2] /\ t = p[1] /\ Q = Q0 (-) SetToBag({p}) /\ S = {VoteTo(d, w)}
  OBVIOUS
<1>2. /\ TypeOK /\ Once /\ Requests /\ Queues /\ Candidates /\ Tokens /\ Past
      /\ Votes /\ Entrants
  BY DEF IInv
<1>3. /\ UNCHANGED <<curTS, requests, inCS, requestedCS, myTS, yesVotes, hasVoted, late>>
      /\ cand' = [cand EXCEPT ![d] = w] /\ candTS' = [candTS EXCEPT ![d] = t]
      /\ inquired' = [inquired EXCEPT ![d] = FALSE]
      /\ m.type = "RELINQUISH"
      /\ msgs' = (msgs (-) SetToBag({m})) (+) SetToBag(S)
  <2>1. d \in Node /\ DOMAIN deferredQ = Node
    BY <1>1, <1>2 DEF TypeOK, InFlight, Sent, Messages
  <2>2. Defer(d, old)[d] = Q0
    BY <1>1, <2>1 DEF Defer
  <2>3. /\ UNCHANGED <<curTS, requests, inCS, requestedCS, myTS, yesVotes, hasVoted, late>>
        /\ Handle(m, "RELINQUISH", Yes(d, p[2])) /\ VoteFor(d, p)
        /\ inquired' = [inquired EXCEPT ![d] = FALSE]
    BY <1>1, <2>2 DEF handleRelinquishMessage, requester, Handle
  <2> QED
    BY <1>1, <2>3 DEF Handle, VoteFor, Yes, VoteTo
<1>4. /\ d \in Node /\ hasVoted[d] /\ cand[d] = c /\ c \in Node /\ d \in Going(c)
      /\ \A k \in Backward : ArbiterOf(k) = d => k = m
      /\ \A n \in Node : Holds(n, d) <=> n = c
      /\ \A x \in InFlight : x.type = "REQ" /\ x.to = d =>
           /\ x.ts = myTS[x.from] /\ <<x.ts, x.from>> \notin BagToSet(deferredQ[d])
           /\ x.from # c
  BY <1>1, <1>3, GivenBack
<1>5. /\ requestedCS[c] /\ old = <<myTS[c], c>> /\ d \in District[c]
      /\ old \in Entries /\ old \notin BagToSet(deferredQ[d]) /\ ~Released(d)
  <2>1. ~Released(d)
    <3> SUFFICES ASSUME Released(d) PROVE FALSE
      OBVIOUS
    <3>1. /\ Msg("RELEASE", c, d, 0) \in Backward
          /\ ArbiterOf(Msg("RELEASE", c, d, 0)) = d
      BY <1>4, Fields DEF Released, Backward, ArbiterOf
    <3>2. Msg("RELEASE", c, d, 0) = m
      BY <1>4, <3>1
    <3> QED
      BY <1>3, <3>2, Fields
  <2>2. ~inCS[c]
    <3> SUFFICES ASSUME inCS[c] PROVE FALSE
      OBVIOUS
    <3>1. yesVotes[c] >= Cardinality(District[c])
      BY <1>2, <1>4 DEF Entrants
    <3>2. Going(c) = {}
      BY <1>2, <1>4, <3>1, AllVotes
    <3> QED
      BY <1>4, <3>2
  <2>3. requestedCS[c] /\ candTS[d] = myTS[c] /\ d \in District[c]
    BY <1>2, <1>4, <2>1, <2>2 DEF Candidates, Wants
  <2>4. old \in Entries
    BY <1>1, <1>2, <1>4 DEF TypeOK, Entries
  <2>5. old \notin BagToSet(deferredQ[d])
    <3> SUFFICES ASSUME old \in BagToSet(deferredQ[d]) PROVE FALSE
      OBVIOUS
    <3>1. Holds(old[2], d) => Released(d)
      BY <1>2, <1>4 DEF Queues
    <3> QED
      BY <1>1, <1>4, <2>1, <3>1
  <2> QED
    BY <1>1, <1>4, <2>1, <2>3, <2>4, <2>5
<1>6. /\ IsABag(Q0) /\ BagToSet(Q0) = BagToSet(deferredQ[d]) \cup {old}
      /\ BagToSet(Q0) \subseteq Entries
      /\ \A q \in BagToSet(Q0) :
           /\ Q0[q] = 1 /\ q[1] < curTS
           /\ requestedCS[q[2]] /\ q[1] = myTS[q[2]] /\ d \in District[q[2]]
  <2>1. IsABag(deferredQ[d]) /\ BagToSet(deferredQ[d]) \subseteq Entries
    BY <1>2, <1>4 DEF TypeOK
  <2>2. /\ IsABag(Q0) /\ BagToSet(Q0) = BagToSet(deferredQ[d]) \cup {old}
        /\ \A e : Copies(e, Q0) = Copies(e, deferredQ[d]) + (IF e \in {old} THEN 1 ELSE 0)
    BY <1>1, <2>1, Added
  <2>3. ASSUME NEW q \in BagToSet(Q0)
        PROVE  /\ Q0[q] = 1 /\ q[1] < curTS
               /\ requestedCS[q[2]] /\ q[1] = myTS[q[2]] /\ d \in District[q[2]]
    <3>1. Copies(q, Q0) = Q0[q]
      BY DEF Copies
    <3>2. CASE q = old
      <4>1. Copies(q, deferredQ[d]) = 0
        BY <1>5, <3>2 DEF Copies
      <4>2. candTS[d] < curTS
        BY <1>2, <1>4 DEF Past
      <4>3. Copies(q, Q0) = 0 + 1
        BY <2>2, <3>2, <4>1
      <4>4. q[1] = candTS[d]
        BY <1>1, <3>2
      <4>5. requestedCS[q[2]] /\ q[1] = myTS[q[2]] /\ d \in District[q[2]]
        BY <1>5, <3>2
      <4> QED
        BY <3>1, <4>2, <4>3, <4>4, <4>5
    <3>3. CASE q # old
      <4>1. q \in BagToSet(deferredQ[d])
        BY <2>2, <3>3
      <4>2. Copies(q, deferredQ[d]) = 1
        BY <1>2, <1>4, <4>1 DEF Once, Copies
      <4>3. requestedCS[q[2]] /\ q[1] = myTS[q[2]] /\ d \in District[q[2]]
        BY <1>2, <1>4, <4>1 DEF Queues
      <4>4. Copies(q, Q0) = 1 + 0
        BY <2>2, <3>3, <4>2
      <4>5. q[1] < curTS
        BY <1>2, <1>4, <4>1 DEF Past
      <4> QED
        BY <3>1, <4>3, <4>4, <4>5
    <3> QED
      BY <3>2, <3>3
  <2> QED
    BY <1>5, <2>1, <2>2, <2>3
<1>7. /\ p \in BagToSet(Q0) /\ p = <<t, w>> /\ w \in Node /\ t \in 0 .. MaxRound
      /\ requestedCS[w] /\ t = myTS[w] /\ d \in District[w] /\ t < curTS
  <2>1. p \in BagToSet(Q0)
    BY <1>1, <1>6, FirstQueued
  <2>2. p = <<t, w>> /\ w \in Node /\ t \in 0 .. MaxRound
    <3>1. p \in Entries
      BY ONLY <1>6, <2>1
    <3>2. p = <<p[1], p[2]>> /\ p[2] \in Node /\ p[1] \in 0 .. MaxRound
      BY ONLY <3>1 DEF Entries
    <3> QED
      BY <1>1, <3>2
  <2>3. requestedCS[p[2]] /\ p[1] = myTS[p[2]] /\ d \in District[p[2]] /\ p[1] < curTS
    BY ONLY <1>6, <2>1
  <2> QED
    BY <1>1, <2>1, <2>2, <2>3
<1>8. /\ IsABag(Q) /\ BagToSet(Q) = BagToSet(Q0) \ {p}
      /\ \A e \in BagToSet(Q) : Q[e] = Q0[e]
  <2>1. IsABag(Q0) /\ p \in BagToSet(Q0) /\ Q0[p] = 1 /\ Q = Q0 (-) SetToBag({p})
    BY <1>1, <1>6, <1>7
  <2> QED
    BY ONLY <2>1, Removed
<1>9. /\ DOMAIN deferredQ' = Node
      /\ \A e \in Node : deferredQ'[e] = IF e = d THEN Q ELSE deferredQ[e]
  <2>1. DOMAIN deferredQ = Node
    BY <1>2 DEF TypeOK
  <2>2. deferredQ' = [Defer(d, old) EXCEPT ![d] = @ (-) SetToBag({First(Defer(d, old)[d])})]
    BY <1>1 DEF handleRelinquishMessage
  <2>3. /\ DOMAIN Defer(d, old) = Node /\ Defer(d, old)[d] = Q0
        /\ \A e \in Node \ {d} : Defer(d, old)[e] = deferredQ[e]
    BY <1>1, <1>4, <2>1 DEF Defer
  <2> QED
    BY <1>1, <1>4, <2>2, <2>3
<1>10. ASSUME NEW q \in BagToSet(Q)
       PROVE  /\ Q[q] = 1 /\ q[2] # w /\ q[1] < curTS
              /\ requestedCS[q[2]] /\ q[1] = myTS[q[2]] /\ d \in District[q[2]]
  <2>1. /\ Q[q] = 1 /\ q # p /\ q[1] < curTS
        /\ requestedCS[q[2]] /\ q[1] = myTS[q[2]] /\ d \in District[q[2]]
    BY <1>6, <1>8
  <2>2. q = <<q[1], q[2]>>
    BY <1>6, <1>8 DEF Entries
  <2> QED
    BY <1>7, <2>1, <2>2
<1>11. ASSUME NEW x \in InFlight \ {m}, x.type = "REQ", x.to = d
       PROVE  x.from # w /\ <<x.ts, x.from>> \notin BagToSet(Q)
  <2>1. /\ x.ts = myTS[x.from] /\ <<x.ts, x.from>> \notin BagToSet(deferredQ[d])
        /\ x.from # c
    BY <1>4, <1>11
  <2>2. <<x.ts, x.from>> \notin BagToSet(Q0)
    BY <1>5, <1>6, <2>1
  <2> QED
    BY <1>7, <1>8, <2>1, <2>2
<1>12. Goes(m, d, c, w, t, Q, S)
  <2>1. w # NoNode
    BY <1>7 DEF NoNode
  <2>2. hasVoted' = [hasVoted EXCEPT ![d] = w # NoNode]
    <3>1. hasVoted \in [Node -> BOOLEAN] /\ (w # NoNode) = hasVoted[d]
      BY <1>2, <1>4, <2>1 DEF TypeOK
    <3> QED
      BY <1>3, <1>4, <3>1
  <2>3. /\ cand' \in [Node -> Node \cup {NoNode}] /\ inquired' \in [Node -> BOOLEAN]
        /\ \A e \in Node : cand'[e] = IF e = d /\ w # NoNode THEN w ELSE cand[e]
        /\ \A e \in Node \ {d} : inquired'[e] = inquired[e]
    BY <1>2, <1>3, <1>4, <1>7, <2>1 DEF TypeOK
  <2>4. S = IF w # NoNode THEN {VoteTo(d, w)} ELSE {}
    BY <1>1, <2>1
  <2>5. BagToSet(Q) \subseteq Entries
    BY <1>6, <1>8
  <2> QED
    BY <1>1, <1>3, <1>4, <1>7, <1>8, <1>9, <1>10, <1>11, <2>2, <2>3, <2>4, <2>5 DEF Goes
<1> QED
  BY <1>4, <1>7, <1>12, VoteGoes

(* The candidate releases the vote: the first of the queue gets it. *)
LEMMA ReleaseStep ==
  \A m \in InFlight :
    IInv /\ handleReleaseMessage(m) /\ deferredQ[m.to] # EmptyBag => IInv'
<1> SUFFICES ASSUME NEW m \in InFlight, IInv, handleReleaseMessage(m),
                    deferredQ[m.to] # EmptyBag
             PROVE  IInv'
  OBVIOUS
<1>1. PICK d, c, Q0, p, w, t, Q, S :
        /\ d = m.to /\ c = m.from /\ Q0 = deferredQ[d] /\ p = First(Q0)
        /\ w = p[2] /\ t = p[1] /\ Q = Q0 (-) SetToBag({p}) /\ S = {VoteTo(d, w)}
  OBVIOUS
<1>2. /\ TypeOK /\ Once /\ Requests /\ Queues /\ Candidates /\ Tokens /\ Past
      /\ Votes /\ Entrants
  BY DEF IInv
<1>3. /\ UNCHANGED <<curTS, requests, inCS, requestedCS, myTS, yesVotes, hasVoted, late>>
      /\ cand' = [cand EXCEPT ![d] = w] /\ candTS' = [candTS EXCEPT ![d] = t]
      /\ inquired' = [inquired EXCEPT ![d] = FALSE]
      /\ m.type = "RELEASE"
      /\ msgs' = (msgs (-) SetToBag({m})) (+) SetToBag(S)
      /\ deferredQ' = [deferredQ EXCEPT ![d] = Q]
  BY <1>1 DEF handleReleaseMessage, requester, Handle, VoteFor, Yes, VoteTo
<1>4. /\ d \in Node /\ hasVoted[d] /\ cand[d] = c /\ c \in Node /\ d \in Going(c)
      /\ \A k \in Backward : ArbiterOf(k) = d => k = m
      /\ \A n \in Node : Holds(n, d) <=> n = c
      /\ \A x \in InFlight : x.type = "REQ" /\ x.to = d =>
           x.ts = myTS[x.from] /\ <<x.ts, x.from>> \notin BagToSet(Q0)
  BY <1>1, <1>3, GivenBack
<1>5. /\ IsABag(Q0) /\ BagToSet(Q0) \subseteq Entries
      /\ \A q \in BagToSet(Q0) :
           /\ Q0[q] = 1 /\ q[1] < curTS
           /\ requestedCS[q[2]] /\ q[1] = myTS[q[2]] /\ d \in District[q[2]]
  <2>1. IsABag(deferredQ[d]) /\ BagToSet(deferredQ[d]) \subseteq Entries
    BY <1>2, <1>4 DEF TypeOK
  <2>2. ASSUME NEW q \in BagToSet(deferredQ[d])
        PROVE  /\ deferredQ[d][q] = 1 /\ q[1] < curTS
               /\ requestedCS[q[2]] /\ q[1] = myTS[q[2]] /\ d \in District[q[2]]
    BY <1>2, <1>4 DEF Once, Queues, Past
  <2> QED
    BY <1>1, <2>1, <2>2
<1>6. BagToSet(Q0) # {}
  <2> SUFFICES ASSUME BagToSet(Q0) = {} PROVE Q0 = EmptyBag
    BY <1>1
  <2>1. Q0 = [x \in {} |-> 1]
    BY <1>5 DEF IsABag, BagToSet
  <2> QED
    BY <2>1 DEF EmptyBag, SetToBag
<1>7. /\ p \in BagToSet(Q0) /\ p = <<t, w>> /\ w \in Node /\ t \in 0 .. MaxRound
      /\ requestedCS[w] /\ t = myTS[w] /\ d \in District[w] /\ t < curTS
  <2>1. p \in BagToSet(Q0)
    BY <1>1, <1>5, <1>6, FirstQueued
  <2>2. p = <<t, w>> /\ w \in Node /\ t \in 0 .. MaxRound
    BY <1>1, <1>5, <2>1 DEF Entries
  <2>3. requestedCS[p[2]] /\ p[1] = myTS[p[2]] /\ d \in District[p[2]] /\ p[1] < curTS
    BY ONLY <1>5, <2>1
  <2> QED
    BY <1>1, <2>1, <2>2, <2>3
<1>8. /\ IsABag(Q) /\ BagToSet(Q) = BagToSet(Q0) \ {p}
      /\ \A e \in BagToSet(Q) : Q[e] = Q0[e]
  <2>1. IsABag(Q0) /\ p \in BagToSet(Q0) /\ Q0[p] = 1 /\ Q = Q0 (-) SetToBag({p})
    BY <1>1, <1>5, <1>7
  <2> QED
    BY ONLY <2>1, Removed
<1>9. ASSUME NEW q \in BagToSet(Q)
      PROVE  /\ Q[q] = 1 /\ q[2] # w /\ q[1] < curTS
             /\ requestedCS[q[2]] /\ q[1] = myTS[q[2]] /\ d \in District[q[2]]
  <2>1. /\ Q[q] = 1 /\ q # p /\ q[1] < curTS
        /\ requestedCS[q[2]] /\ q[1] = myTS[q[2]] /\ d \in District[q[2]]
    BY <1>5, <1>8
  <2>2. q = <<q[1], q[2]>>
    BY <1>5, <1>8 DEF Entries
  <2> QED
    BY <1>7, <2>1, <2>2
<1>10. ASSUME NEW x \in InFlight \ {m}, x.type = "REQ", x.to = d
       PROVE  x.from # w /\ <<x.ts, x.from>> \notin BagToSet(Q)
  BY <1>4, <1>7, <1>8, <1>10
<1>11. Goes(m, d, c, w, t, Q, S)
  <2>1. w # NoNode
    BY <1>7 DEF NoNode
  <2>2. hasVoted' = [hasVoted EXCEPT ![d] = w # NoNode]
    <3>1. hasVoted \in [Node -> BOOLEAN] /\ (w # NoNode) = hasVoted[d]
      BY <1>2, <1>4, <2>1 DEF TypeOK
    <3> QED
      BY <1>3, <1>4, <3>1
  <2>3. /\ cand' \in [Node -> Node \cup {NoNode}] /\ inquired' \in [Node -> BOOLEAN]
        /\ \A e \in Node : cand'[e] = IF e = d /\ w # NoNode THEN w ELSE cand[e]
        /\ \A e \in Node \ {d} : inquired'[e] = inquired[e]
    BY <1>2, <1>3, <1>4, <1>7, <2>1 DEF TypeOK
  <2>4. S = IF w # NoNode THEN {VoteTo(d, w)} ELSE {}
    BY <1>1, <2>1
  <2>5. /\ BagToSet(Q) \subseteq Entries /\ DOMAIN deferredQ' = Node
        /\ \A e \in Node : deferredQ'[e] = IF e = d THEN Q ELSE deferredQ[e]
    BY <1>2, <1>3, <1>4, <1>5, <1>8 DEF TypeOK
  <2>6. /\ \A k \in Backward : ArbiterOf(k) = d => k = m
        /\ \A n \in Node : Holds(n, d) <=> n = c
        /\ c \in Node => d \in Going(c)
    BY <1>4
  <2>7. /\ UNCHANGED <<curTS, requests, inCS, requestedCS, myTS, yesVotes, late>>
        /\ candTS' = [candTS EXCEPT ![d] = t]
        /\ msgs' = (msgs (-) SetToBag({m})) (+) SetToBag(S)
        /\ m.type \in {"REQ", "RELINQUISH", "RELEASE"} /\ m.to = d
    BY <1>1, <1>3
  <2>8. /\ w # NoNode => w \in Node /\ requestedCS[w] /\ t = myTS[w] /\ d \in District[w]
                          /\ t < curTS
        /\ IsABag(Q)
    BY <1>7, <1>8
  <2> QED
    BY <1>9, <1>10, <2>2, <2>3, <2>4, <2>5, <2>6, <2>7, <2>8 DEF Goes
<1> QED
  BY <1>4, <1>7, <1>11, VoteGoes

(* The candidate releases the vote, and nobody waits for it. *)
LEMMA FreeStep ==
  \A m \in InFlight :
    IInv /\ handleReleaseMessage(m) /\ deferredQ[m.to] = EmptyBag => IInv'
<1> SUFFICES ASSUME NEW m \in InFlight, IInv, handleReleaseMessage(m),
                    deferredQ[m.to] = EmptyBag
             PROVE  IInv'
  OBVIOUS
<1>1. PICK d, c, t, Q, S :
        d = m.to /\ c = m.from /\ t = candTS[d] /\ Q = deferredQ[d] /\ S = {}
  OBVIOUS
<1>2. TypeOK
  BY DEF IInv
<1>3. /\ UNCHANGED <<curTS, requests, inCS, requestedCS, myTS, yesVotes, cand, candTS,
                     deferredQ, late>>
      /\ hasVoted' = [hasVoted EXCEPT ![d] = FALSE]
      /\ inquired' = [inquired EXCEPT ![d] = FALSE]
      /\ m.type = "RELEASE"
      /\ msgs' = (msgs (-) SetToBag({m})) (+) SetToBag(S)
  BY <1>1 DEF handleReleaseMessage, requester, Handle, EmptyBag
<1>4. /\ d \in Node /\ hasVoted[d] /\ cand[d] = c /\ c \in Node /\ d \in Going(c)
      /\ \A k \in Backward : ArbiterOf(k) = d => k = m
      /\ \A n \in Node : Holds(n, d) <=> n = c
  BY <1>1, <1>3, GivenBack
<1>5. IsABag(Q) /\ BagToSet(Q) = {} /\ t \in 0 .. MaxRound
  BY <1>1, <1>2, <1>4 DEF TypeOK, EmptyBag, SetToBag, BagToSet
<1>6. \A x \in InFlight : x.from # NoNode
  <2>1. InFlight \subseteq Messages
    BY <1>2 DEF TypeOK, InFlight, Sent
  <2> QED
    BY <2>1 DEF Messages, NoNode
<1>7. Goes(m, d, c, NoNode, t, Q, S)
  <2>1. hasVoted' = [hasVoted EXCEPT ![d] = NoNode # NoNode]
    BY <1>3, Zenon
  <2>2. /\ cand' \in [Node -> Node \cup {NoNode}] /\ inquired' \in [Node -> BOOLEAN]
        /\ candTS' = [candTS EXCEPT ![d] = t]
        /\ \A e \in Node : cand'[e] = IF e = d /\ NoNode # NoNode THEN NoNode ELSE cand[e]
        /\ \A e \in Node \ {d} : inquired'[e] = inquired[e]
        /\ DOMAIN deferredQ' = Node
        /\ \A e \in Node : deferredQ'[e] = IF e = d THEN Q ELSE deferredQ[e]
    BY <1>1, <1>2, <1>3, <1>4 DEF TypeOK
  <2>3. S = IF NoNode # NoNode THEN {VoteTo(d, NoNode)} ELSE {}
    BY <1>1
  <2> QED
    BY <1>1, <1>3, <1>4, <1>5, <1>6, <2>1, <2>2, <2>3 DEF Goes
<1> QED
  BY <1>4, <1>5, <1>7, VoteGoes

(* A request arrives at an arbiter whose vote is given: it is queued, and   *)
(* the candidate is asked once when the request precedes its own.           *)
LEMMA DeferStep ==
  \A m \in InFlight :
    IInv /\ handleReqTsMessage(m) /\ hasVoted[m.to] => IInv'
<1> SUFFICES ASSUME NEW m \in InFlight, IInv, handleReqTsMessage(m), hasVoted[m.to]
             PROVE  IInv'
  OBVIOUS
<1>1. PICK d, o, p, Q, asks, inq, S :
        /\ d = m.to /\ o = m.from /\ p = <<m.ts, m.from>>
        /\ Q = deferredQ[d] (+) SetToBag({p})
        /\ asks = (Precedes(p, <<candTS[d], cand[d]>>) /\ ~inquired[d])
        /\ inq = Msg("INQ", d, cand[d], candTS[d])
        /\ S = IF asks THEN {inq} ELSE {}
  OBVIOUS
<1>2. /\ TypeOK /\ Once /\ Requests /\ Queues /\ Candidates /\ Tokens /\ Past
      /\ Votes /\ Entrants
  BY DEF IInv
<1>3. /\ UNCHANGED <<curTS, requests, inCS, requestedCS, myTS, yesVotes, hasVoted, cand,
                     candTS, late>>
      /\ m.ts < curTS
      /\ m.type = "REQ" /\ msgs' = (msgs (-) SetToBag({m})) (+) SetToBag(S)
      /\ inquired' = IF asks THEN [inquired EXCEPT ![d] = TRUE] ELSE inquired
      /\ deferredQ' = [deferredQ EXCEPT ![d] = Q]
  BY <1>1 DEF handleReqTsMessage, requester, Handle, Defer, EmptyBag
<1>4. /\ InFlight \subseteq Messages /\ d \in Node /\ o \in Node /\ hasVoted[d]
      /\ cand[d] \in Node /\ candTS[d] \in 0 .. MaxRound
  <2>1. InFlight \subseteq Messages
    BY <1>2 DEF TypeOK, InFlight, Sent
  <2>2. d \in Node /\ o \in Node /\ hasVoted[d]
    BY <1>1, <2>1 DEF Messages
  <2> QED
    BY <1>2, <2>1, <2>2 DEF Candidates, TypeOK
<1>5. /\ p = <<myTS[o], o>> /\ p \in Entries /\ p \notin BagToSet(deferredQ[d])
      /\ requestedCS[o] /\ d \in District[o] /\ (Holds(o, d) => Released(d))
  <2>1. /\ requestedCS[o] /\ m.ts = myTS[o] /\ d \in District[o]
        /\ p \notin BagToSet(deferredQ[d]) /\ (Holds(o, d) => Released(d))
    BY <1>1, <1>2, <1>3 DEF Requests
  <2>2. myTS[o] \in 0 .. MaxRound
    BY <1>2, <1>4 DEF TypeOK
  <2> QED
    BY <1>1, <1>4, <2>1, <2>2 DEF Entries
<1>6. /\ inq.type = "INQ" /\ inq.from = d /\ inq.to = cand[d] /\ inq.ts = candTS[d]
      /\ inq \in Messages /\ ArbiterOf(inq) = d
  BY <1>1, <1>4 DEF Msg, Messages, ArbiterOf
<1> DEFINE live == asks /\ ~Stale(inq)
<1>7. live => \A k \in Backward : ArbiterOf(k) # d
  <2> SUFFICES ASSUME live, NEW k \in Backward, ArbiterOf(k) = d PROVE FALSE
    OBVIOUS
  <2>1. /\ k \in InFlight /\ ~inquired[d]
        /\ Wants(cand[d]) /\ myTS[cand[d]] = candTS[d]
    BY <1>1, <1>6 DEF Backward, Stale
  <2>2. CASE k.type \in {"INQ", "RELINQUISH"}
    BY <1>2, <2>1, <2>2 DEF Tokens, ArbiterOf
  <2>3. CASE k.type = "RELEASE"
    <3>1. k.to = d
      BY <2>3 DEF ArbiterOf
    <3>2. ~(Wants(cand[d]) /\ myTS[cand[d]] = candTS[d])
      BY <1>2, <2>1, <2>3, <3>1 DEF Tokens
    <3> QED
      BY <2>1, <3>2
  <2> QED
    BY <2>2, <2>3 DEF Backward
<1>8. /\ S \subseteq {inq} /\ S \subseteq Messages
      /\ Live(S) = IF live THEN {inq} ELSE {}
      /\ live => inq \notin InFlight
  <2>1. S \subseteq {inq} /\ (inq \in S <=> asks)
    BY <1>1
  <2>2. live => inq \notin InFlight
    BY <1>6, <1>7 DEF Backward
  <2>3. Live(S) = IF live THEN {inq} ELSE {}
    BY <1>1 DEF Live
  <2> QED
    BY <1>6, <2>1, <2>2, <2>3
<1> HIDE DEF live
<1>9. /\ IsABag(msgs') /\ InFlight' = (InFlight \ {m}) \cup Live(S)
      /\ Sent' = (Sent \ {m}) \cup S /\ Sent' \subseteq Messages
      /\ \A x \in InFlight' : x.type # "YES" => msgs'[x] = 1
      /\ \A n, e \in Node :
           Copies(VoteTo(e, n), msgs') = Copies(VoteTo(e, n), msgs)
                                         + (IF VoteTo(e, n) \in S THEN 1 ELSE 0)
  <2>1. /\ TypeOK /\ Once /\ m.type # "YES" /\ S \subseteq Messages
        /\ inCS' = inCS /\ requestedCS' = requestedCS /\ myTS' = myTS
        /\ msgs' = (msgs (-) SetToBag({m})) (+) SetToBag(S)
        /\ \A x \in Live(S) : x \notin InFlight \/ x.type = "YES"
    BY <1>2, <1>3, <1>8
  <2> QED
    BY ONLY <2>1, m \in InFlight, Handled
<1>10. \A x \in InFlight' : x \in InFlight \ {m} \/ (x = inq /\ live)
  BY <1>8, <1>9
<1>11. /\ \A e \in Node : Released(e)' <=> Released(e)
       /\ \A n, e \in Node : Holds(n, e)' <=> Holds(n, e)
  <2>1. ASSUME NEW e \in Node PROVE Msg("RELEASE", cand[e], e, 0) \notin {m, inq}
    BY <1>3, <1>6, Fields
  <2> QED
    BY <1>3, <1>8, <1>9, <2>1 DEF Released, Holds
<1>12. /\ IsABag(Q) /\ BagToSet(Q) = BagToSet(deferredQ[d]) \cup {p}
       /\ BagToSet(Q) \subseteq Entries /\ \A q \in BagToSet(Q) : Q[q] = 1
  <2>1. IsABag(deferredQ[d]) /\ BagToSet(deferredQ[d]) \subseteq Entries
    BY <1>2, <1>4 DEF TypeOK
  <2>2. /\ IsABag(Q) /\ BagToSet(Q) = BagToSet(deferredQ[d]) \cup {p}
        /\ \A e : Copies(e, Q) = Copies(e, deferredQ[d]) + (IF e \in {p} THEN 1 ELSE 0)
    BY <1>1, <2>1, Added
  <2>3. ASSUME NEW q \in BagToSet(Q) PROVE Q[q] = 1
    <3>1. Copies(q, Q) = Q[q]
      BY DEF Copies
    <3>2. CASE q = p
      <4>1. Copies(q, deferredQ[d]) = 0
        BY <1>5, <3>2 DEF Copies
      <4>2. Copies(q, Q) = 0 + 1
        BY <2>2, <3>2, <4>1
      <4> QED
        BY <3>1, <4>2
    <3>3. CASE q # p
      <4>1. q \in BagToSet(deferredQ[d])
        BY <2>2, <3>3
      <4>2. Copies(q, deferredQ[d]) = 1
        BY <1>2, <1>4, <4>1 DEF Once, Copies
      <4>3. Copies(q, Q) = 1 + 0
        BY <2>2, <3>3, <4>2
      <4> QED
        BY <3>1, <4>3
    <3> QED
      BY <3>2, <3>3
  <2> QED
    BY <1>5, <2>1, <2>2, <2>3
<1>13. /\ DOMAIN deferredQ' = Node /\ deferredQ'[d] = Q
       /\ \A e \in Node \ {d} : deferredQ'[e] = deferredQ[e]
  BY <1>2, <1>3, <1>4 DEF TypeOK
<1>14. /\ inquired' \in [Node -> BOOLEAN] /\ (asks => inquired'[d])
       /\ \A e \in Node : inquired[e] => inquired'[e]
  <2>1. inquired \in [Node -> BOOLEAN]
    BY <1>2 DEF TypeOK
  <2>2. CASE asks
    <3>1. inquired' = [inquired EXCEPT ![d] = TRUE]
      BY <1>3, <2>2
    <3> QED
      BY <1>4, <2>1, <2>2, <3>1
  <2>3. CASE ~asks
    BY <1>3, <2>1, <2>3
  <2> QED
    BY <2>2, <2>3
<1>15. TypeOK'
  <2>1. BagToSet(msgs') \subseteq Messages
    BY <1>9 DEF Sent
  <2>2. \A e \in Node : IsABag(deferredQ'[e]) /\ BagToSet(deferredQ'[e]) \subseteq Entries
    BY <1>2, <1>12, <1>13 DEF TypeOK
  <2> QED
    BY <1>2, <1>3, <1>9, <1>13, <1>14, <2>1, <2>2 DEF TypeOK
<1>16. Once'
  <2>1. ASSUME NEW e \in Node, NEW q \in BagToSet(deferredQ'[e])
        PROVE  deferredQ'[e][q] = 1
    <3>1. CASE e = d
      BY <1>12, <1>13, <3>1
    <3>2. CASE e # d
      <4>1. deferredQ'[e] = deferredQ[e]
        BY <1>13, <3>2
      <4> QED
        BY <1>2, <4>1 DEF Once
    <3> QED
      BY <3>1, <3>2
  <2> QED
    BY <1>9, <2>1 DEF Once
<1>17. Requests'
  <2> SUFFICES ASSUME NEW x \in InFlight', x.type = "REQ"
               PROVE  /\ requestedCS[x.from] /\ x.ts = myTS[x.from]
                      /\ x.to \in District[x.from]
                      /\ <<x.ts, x.from>> \notin BagToSet(deferredQ'[x.to])
                      /\ Holds(x.from, x.to)' => Released(x.to)'
    BY <1>3 DEF Requests
  <2>1. x \in InFlight \ {m}
    BY <1>6, <1>10
  <2>2. x.from \in Node /\ x.to \in Node
    BY <1>4, <2>1 DEF Messages
  <2>3. /\ requestedCS[x.from] /\ x.ts = myTS[x.from] /\ x.to \in District[x.from]
        /\ <<x.ts, x.from>> \notin BagToSet(deferredQ[x.to])
        /\ Holds(x.from, x.to) => Released(x.to)
    BY <1>2, <2>1 DEF Requests
  <2>4. Holds(x.from, x.to)' => Released(x.to)'
    BY <1>11, <2>2, <2>3
  <2>5. CASE x.to = d
    <3>1. ASSUME <<x.ts, x.from>> = p PROVE FALSE
      <4>1. x.type = m.type /\ x.from = m.from /\ x.to = m.to /\ x.ts = m.ts
        BY <1>1, <1>3, <2>5, <3>1
      <4>2. x \in Messages /\ m \in Messages
        BY <1>4, <2>1
      <4> QED
        BY <2>1, <4>1, <4>2, SameMessage
    <3>2. <<x.ts, x.from>> \notin BagToSet(Q)
      BY <1>12, <2>3, <2>5, <3>1
    <3> QED
      BY <1>13, <2>3, <2>4, <2>5, <3>2
  <2>6. CASE x.to # d
    <3>1. deferredQ'[x.to] = deferredQ[x.to]
      BY <1>13, <2>2, <2>6
    <3> QED
      BY <2>3, <2>4, <3>1
  <2> QED
    BY <2>5, <2>6
<1>18. Queues'
  <2> SUFFICES ASSUME NEW e \in Node, NEW q \in BagToSet(deferredQ'[e])
               PROVE  /\ requestedCS[q[2]] /\ q[1] = myTS[q[2]] /\ e \in District[q[2]]
                      /\ Holds(q[2], e)' => Released(e)'
    BY <1>3 DEF Queues
  <2>1. CASE e = d /\ q = p
    BY <1>4, <1>5, <1>11, <2>1
  <2>2. CASE ~(e = d /\ q = p)
    <3>1. q \in BagToSet(deferredQ[e])
      BY <1>12, <1>13, <2>2
    <3>2. q[2] \in Node
      BY <1>2, <3>1 DEF TypeOK, Entries
    <3> QED
      BY <1>2, <1>11, <3>1, <3>2 DEF Queues
  <2> QED
    BY <2>1, <2>2
<1>19. Candidates'
  BY <1>2, <1>3, <1>11 DEF Candidates, Wants
<1>20. Tokens'
  <2>1. \A x \in Backward' : \/ x = inq /\ live
                             \/ x \in Backward /\ (live => ArbiterOf(x) # d)
    BY <1>7, <1>10 DEF Backward
  <2>2. \A x \in InFlight' : x.type # "INQ" => x \in InFlight
    BY <1>6, <1>10
  <2>3. /\ \A x \in InFlight' : x.type = "YES" => x.from \in District[x.to]
        /\ \A x \in InFlight' : x.type \notin {"REQ", "INQ"} => x.ts = 0
    BY <1>2, <2>2 DEF Tokens
  <2>4. \A x \in Backward' : hasVoted[ArbiterOf(x)]
    BY <1>2, <1>4, <1>6, <2>1 DEF Tokens
  <2>5. ASSUME NEW x \in InFlight', x.type = "INQ"
        PROVE  x.to = cand[x.from] /\ x.ts = candTS[x.from] /\ inquired'[x.from]
    <3>1. CASE x = inq /\ live
      BY <1>6, <1>14, <3>1 DEF live
    <3>2. CASE x \in InFlight
      <4>1. x.from \in Node
        BY <1>4, <3>2 DEF Messages
      <4>2. x.to = cand[x.from] /\ x.ts = candTS[x.from] /\ inquired[x.from]
        BY <1>2, <2>5, <3>2 DEF Tokens
      <4> QED
        BY <1>14, <4>1, <4>2
    <3> QED
      BY <1>10, <3>1, <3>2
  <2>6. ASSUME NEW x \in InFlight', x.type = "RELINQUISH"
        PROVE  x.from = cand[x.to] /\ inquired'[x.to]
    <3>1. x \in InFlight
      BY <2>2, <2>6
    <3>2. x.to \in Node
      BY <1>4, <3>1 DEF Messages
    <3>3. x.from = cand[x.to] /\ inquired[x.to]
      BY <1>2, <2>6, <3>1 DEF Tokens
    <3> QED
      BY <1>14, <3>2, <3>3
  <2>7. \A x \in InFlight' : x.type = "RELEASE" =>
          x.from = cand[x.to] /\ ~(Wants(x.from)' /\ myTS'[x.from] = candTS[x.to])
    BY <1>2, <1>3, <2>2 DEF Tokens, Wants
  <2>8. \A k, x \in Backward' : ArbiterOf(k) = ArbiterOf(x) => k = x
    BY <1>2, <1>6, <2>1 DEF Tokens
  <2> QED
    BY <1>3, <2>3, <2>4, <2>5, <2>6, <2>7, <2>8 DEF Tokens, ArbiterOf
<1>21. Votes'
  <2>1. ASSUME NEW n \in Node PROVE Going(n)' = Going(n)
    <3>1. \A e \in District[n] : \A type \in {"RELINQUISH", "RELEASE"} :
            Msg(type, n, e, 0) \in InFlight' <=> Msg(type, n, e, 0) \in InFlight
      BY <1>3, <1>6, <1>8, <1>9, Fields
    <3> QED
      BY <3>1 DEF Going
  <2>2. ASSUME NEW n \in Node, NEW e \in Node
        PROVE  Copies(VoteTo(e, n), msgs') = Copies(VoteTo(e, n), msgs)
    <3>1. VoteTo(e, n) \notin S
      BY <1>6, <1>8, Fields DEF VoteTo
    <3>2. Copies(VoteTo(e, n), msgs) \in Nat
      BY <1>2, CopiesCount DEF TypeOK
    <3> QED
      BY <1>9, <3>1, <3>2
  <2>3. /\ UNCHANGED <<yesVotes, hasVoted, cand>> /\ IsABag(msgs) /\ IsABag(msgs')
    BY <1>2, <1>3, <1>9 DEF TypeOK
  <2> QED
    BY <1>2, <2>1, <2>2, <2>3, VotesStay
<1>22. Entrants'
  BY <1>2, <1>3 DEF Entrants
<1>23. Past'
  <2>1. \A x \in Sent' : x.type = "INQ" => x \in Sent \/ x = inq
    BY <1>8, <1>9
  <2>2. inq.ts < curTS
    BY <1>2, <1>4, <1>6 DEF Past
  <2>3. ASSUME NEW e \in Node, NEW q \in BagToSet(deferredQ'[e]) PROVE q[1] < curTS
    <3>1. CASE e = d /\ q = p
      BY <1>1, <1>3, <3>1
    <3>2. CASE ~(e = d /\ q = p)
      <4>1. q \in BagToSet(deferredQ[e])
        BY <1>12, <1>13, <3>2
      <4> QED
        BY <1>2, <4>1 DEF Past
    <3> QED
      BY <3>1, <3>2
  <2> QED
    BY <1>2, <1>3, <2>1, <2>2, <2>3 DEF Past
<1> QED
  BY <1>15, <1>16, <1>17, <1>18, <1>19, <1>20, <1>21, <1>22, <1>23 DEF IInv

-----------------------------------------------------------------------------
(* The theorems.                                                           *)

(* Next keeps the invariant unless a node gives back a vote that it has     *)
(* released before: its answer takes the vote of another.                   *)
LEMMA StepHolds == ~late' /\ IInv /\ [Next]_vars => IInv'
<1> SUFFICES ASSUME ~late', IInv, [Next]_vars PROVE IInv'
  OBVIOUS
<1>1. CASE UNCHANGED vars
  <2>1. UNCHANGED <<curTS, inCS, requestedCS, myTS, yesVotes, hasVoted, cand, candTS,
                    inquired, deferredQ, msgs, requests, late>>
    BY <1>1 DEF vars, requester, arbiter
  <2>2. InFlight' = InFlight /\ Backward' = Backward /\ Sent' = Sent
    BY <2>1, StaleStays DEF InFlight, Backward, Sent
  <2>3. TypeOK' /\ Once' /\ Entrants' /\ Past'
    BY <2>1, <2>2 DEF IInv, TypeOK, Once, Entrants, Past
  <2>4. Requests' /\ Queues' /\ Candidates'
    BY <2>1, <2>2 DEF IInv, Requests, Queues, Candidates, Holds, Released, Wants
  <2>5. Tokens'
    BY <2>1, <2>2 DEF IInv, Tokens, ArbiterOf, Wants
  <2>6. Votes'
    BY <2>1, <2>2 DEF IInv, Votes, Coming, Voters, Going, Holds
  <2> QED
    BY <2>3, <2>4, <2>5, <2>6 DEF IInv
<1>2. CASE Round
  BY <1>2, RoundStep
<1>3. CASE \E n \in Node : RequestCS(n) \/ EnterCSLoop(n) \/ LeaveCS(n)
  BY <1>3, RequestCSStep, EnterCSLoopStep, LeaveCSStep
<1>4. CASE handleMessages
  <2>1. PICK m \in Sent :
          \/ handleInqTsMessage(m) \/ handleReleaseMessage(m)
          \/ handleRelinquishMessage(m) \/ handleReqTsMessage(m) \/ handleYesMessage(m)
    BY <1>4 DEF handleMessages, Sent
  <2>2. CASE handleInqTsMessage(m)
    BY <2>2, InqStep, StaleStep
  <2>3. m \in InFlight \/ handleInqTsMessage(m)
    <3>1. m.type # "INQ" \/ handleInqTsMessage(m)
      BY <2>1 DEF handleReleaseMessage, handleRelinquishMessage, handleReqTsMessage,
                  handleYesMessage, Handle
    <3> QED
      BY <3>1 DEF InFlight, Stale
  <2>4. CASE m \in InFlight /\ handleReleaseMessage(m)
    BY <2>4, ReleaseStep, FreeStep
  <2>5. CASE m \in InFlight /\ handleRelinquishMessage(m)
    BY <2>5, RelinquishStep
  <2>6. CASE m \in InFlight /\ handleReqTsMessage(m)
    BY <2>6, GrantStep, DeferStep
  <2>7. CASE m \in InFlight /\ handleYesMessage(m)
    BY <2>7, YesStep
  <2> QED
    BY <2>1, <2>2, <2>3, <2>4, <2>5, <2>6, <2>7
<1> QED
  BY <1>1, <1>2, <1>3, <1>4 DEF Next

(* Once a vote was given back too late, it was. *)
LEMMA LateStays == late /\ [Next]_vars => late'
<1> SUFFICES ASSUME late, [Next]_vars PROVE late'
  OBVIOUS
<1>1. CASE UNCHANGED vars
  BY <1>1 DEF vars
<1>2. CASE Round \/ \E n \in Node : RequestCS(n) \/ EnterCSLoop(n) \/ LeaveCS(n)
  BY <1>2 DEF Round, RequestCS, EnterCSLoop, LeaveCS
<1>3. CASE handleMessages
  BY <1>3 DEF handleMessages, handleInqTsMessage, handleReleaseMessage,
              handleRelinquishMessage, handleReqTsMessage, handleYesMessage
<1> QED
  BY <1>1, <1>2, <1>3 DEF Next

LEMMA Invariant == Spec => [](late \/ IInv)
<1>1. Init => IInv
  BY InitHolds
<1>2. (late \/ IInv) /\ [Next]_vars => (late \/ IInv)'
  BY StepHolds, LateStays
<1> QED
  BY <1>1, <1>2, PTL DEF Spec

-----------------------------------------------------------------------------
(* The types, late answers or not: an arbiter that has voted once names a   *)
(* node from then on, and only such an arbiter inquires.                    *)

Named ==
  /\ \A d \in Node : hasVoted[d] => cand[d] \in Node
  /\ \A m \in Sent : m.type = "INQ" => cand[m.from] \in Node
  /\ \A m \in Sent : m.type = "RELINQUISH" => cand[m.to] \in Node

Typed == TypeOK /\ Named

LEMMA OneLess ==
  ASSUME NEW B, IsABag(B), NEW m, NEW C, C = B (-) SetToBag({m})
  PROVE  IsABag(C) /\ BagToSet(C) \subseteq BagToSet(B)
<1> DEFINE F == [e \in DOMAIN B |-> IF e \in {m} THEN B[e] - 1 ELSE B[e]]
<1>1. C = [e \in {x \in DOMAIN F : F[x] > 0} |-> F[e]]
  BY DEF (-), SetToBag
<1>2. \A e \in DOMAIN B : F[e] \in Int
  BY DEF IsABag
<1> HIDE DEF F
<1>3. DOMAIN F = DOMAIN B
  BY DEF F
<1>4. DOMAIN C = {x \in DOMAIN F : F[x] > 0} /\ \A e \in DOMAIN C : C[e] = F[e]
  BY <1>1
<1>5. \A e \in DOMAIN C : C[e] \in {n \in Nat : n > 0}
  BY <1>2, <1>3, <1>4
<1>6. C = [e \in DOMAIN C |-> C[e]]
  BY <1>1
<1> QED
  BY <1>3, <1>4, <1>5, <1>6 DEF IsABag, BagToSet

(* A message is taken, and those of S are sent. *)
LEMMA Moved ==
  ASSUME TypeOK, NEW m, NEW S, S \subseteq Messages,
         msgs' = (msgs (-) SetToBag({m})) (+) SetToBag(S)
  PROVE  /\ IsABag(msgs') /\ BagToSet(msgs') \subseteq Messages
         /\ Sent' \subseteq Sent \cup S
<1>1. PICK R : R = msgs (-) SetToBag({m})
  OBVIOUS
<1>2. IsABag(R) /\ BagToSet(R) \subseteq BagToSet(msgs)
  BY <1>1, OneLess DEF TypeOK
<1>3. IsABag(msgs') /\ BagToSet(msgs') = BagToSet(R) \cup S
  <2>1. IsABag(R) /\ msgs' = R (+) SetToBag(S)
    BY <1>1, <1>2
  <2> QED
    BY ONLY <2>1, Added
<1> QED
  BY <1>2, <1>3 DEF TypeOK, Sent

LEMMA Sending ==
  ASSUME TypeOK, NEW S, S \subseteq Messages, msgs' = msgs (+) SetToBag(S)
  PROVE  /\ IsABag(msgs') /\ BagToSet(msgs') \subseteq Messages
         /\ Sent' = Sent \cup S
<1>1. IsABag(msgs') /\ BagToSet(msgs') = BagToSet(msgs) \cup S
  BY Added DEF TypeOK
<1> QED
  BY <1>1 DEF TypeOK, Sent

(* The requester's steps. *)
LEMMA TypedRequester ==
  ASSUME Typed, NEW n \in Node, RequestCS(n) \/ EnterCSLoop(n) \/ LeaveCS(n)
  PROVE  Typed'
<1>1. TypeOK /\ Named /\ curTS \in 0 .. MaxRound
  BY DEF Typed, TypeOK
<1>2. CASE RequestCS(n)
  <2>1. PICK S : S = {Msg("REQ", n, r, curTS) : r \in District[n]}
    OBVIOUS
  <2>2. S \subseteq Messages /\ \A m \in S : m.type = "REQ"
    BY <1>1, <2>1, Districts DEF Messages, Msg
  <2>3. IsABag(msgs') /\ BagToSet(msgs') \subseteq Messages /\ Sent' = Sent \cup S
    BY <1>1, <1>2, <2>1, <2>2, Sending DEF RequestCS
  <2>4. TypeOK'
    BY <1>1, <1>2, <2>3 DEF RequestCS, arbiter, TypeOK
  <2>5. Named'
    BY <1>1, <1>2, <2>2, <2>3 DEF RequestCS, arbiter, Named
  <2> QED
    BY <2>4, <2>5 DEF Typed
<1>3. CASE EnterCSLoop(n)
  BY <1>1, <1>3 DEF EnterCSLoop, arbiter, Typed, TypeOK, Named, Sent
<1>4. CASE LeaveCS(n)
  <2>1. PICK S : S = {Msg("RELEASE", n, r, 0) : r \in District[n]}
    OBVIOUS
  <2>2. S \subseteq Messages /\ \A m \in S : m.type = "RELEASE"
    BY <1>1, <2>1, Districts DEF Messages, Msg
  <2>3. IsABag(msgs') /\ BagToSet(msgs') \subseteq Messages /\ Sent' = Sent \cup S
    BY <1>1, <1>4, <2>1, <2>2, Sending DEF LeaveCS
  <2>4. TypeOK'
    BY <1>1, <1>4, <2>3 DEF LeaveCS, arbiter, TypeOK
  <2>5. Named'
    BY <1>1, <1>4, <2>2, <2>3 DEF LeaveCS, arbiter, Named
  <2> QED
    BY <2>4, <2>5 DEF Typed
<1> QED
  BY <1>2, <1>3, <1>4

(* A vote or an inquiry arrives. *)
LEMMA TypedAnswers ==
  ASSUME Typed, NEW m \in Sent, handleYesMessage(m) \/ handleInqTsMessage(m)
  PROVE  Typed'
<1>1. TypeOK /\ Named /\ Sent \subseteq Messages
  BY DEF Typed, TypeOK, Sent
<1>2. m.to \in Node /\ m.from \in Node
  BY <1>1 DEF Messages
<1>3. /\ UNCHANGED <<curTS, requests, inCS, requestedCS, myTS, hasVoted, cand, candTS,
                     inquired, deferredQ>>
      /\ late' \in BOOLEAN
  BY <1>1 DEF handleYesMessage, handleInqTsMessage, Handle, arbiter, TypeOK
<1>4. yesVotes' \in [Node -> Int]
  <2>1. yesVotes \in [Node -> Int]
    BY <1>1 DEF TypeOK
  <2>2. PICK i \in Int : yesVotes' = [yesVotes EXCEPT ![m.to] = i]
    <3>1. yesVotes[m.to] \in Int
      BY <1>2, <2>1
    <3> QED
      BY <3>1 DEF handleYesMessage, handleInqTsMessage
  <2> QED
    BY <2>1, <2>2
<1>5. PICK S : /\ msgs' = (msgs (-) SetToBag({m})) (+) SetToBag(S)
               /\ S = {} \/ (m.type = "INQ" /\ S = {Msg("RELINQUISH", m.to, m.from, 0)})
  BY DEF handleYesMessage, handleInqTsMessage, Handle, EmptyBag
<1>6. S \subseteq Messages
  BY <1>2, <1>5 DEF Messages, Msg
<1>7. IsABag(msgs') /\ BagToSet(msgs') \subseteq Messages /\ Sent' \subseteq Sent \cup S
  BY <1>1, <1>5, <1>6, Moved
<1>8. TypeOK'
  BY <1>1, <1>3, <1>4, <1>7 DEF TypeOK
<1>9. \A x \in S : x.type = "RELINQUISH" /\ m.type = "INQ" /\ x.to = m.from
  BY <1>5, Fields
<1>10. Named'
  BY <1>1, <1>3, <1>7, <1>9 DEF Named
<1> QED
  BY <1>8, <1>10 DEF Typed

(* An arbiter changes its state: cand names a node whenever it is written. *)
Decides(m, S) ==
  LET d == m.to IN
  /\ UNCHANGED <<curTS, requests, inCS, requestedCS, myTS, yesVotes, late>>
  /\ hasVoted' \in [Node -> BOOLEAN] /\ cand' \in [Node -> Node \cup {NoNode}]
  /\ candTS' \in [Node -> 0 .. MaxRound] /\ inquired' \in [Node -> BOOLEAN]
  /\ DOMAIN deferredQ' = Node
  /\ \A e \in Node : IsABag(deferredQ'[e]) /\ BagToSet(deferredQ'[e]) \subseteq Entries
  /\ \A e \in Node : (cand[e] \in Node => cand'[e] \in Node)
  /\ \A e \in Node : hasVoted'[e] => hasVoted[e] \/ cand'[e] \in Node
  /\ msgs' = (msgs (-) SetToBag({m})) (+) SetToBag(S) /\ S \subseteq Messages
  /\ \A x \in S : x.type \in {"YES", "INQ"} /\ (x.type = "INQ" => cand'[x.from] \in Node)

LEMMA TypedDecision ==
  ASSUME Typed, NEW m \in Sent, NEW S, Decides(m, S)
  PROVE  Typed'
<1>1. TypeOK /\ Named /\ Sent \subseteq Messages
  BY DEF Typed, TypeOK, Sent
<1>2. IsABag(msgs') /\ BagToSet(msgs') \subseteq Messages /\ Sent' \subseteq Sent \cup S
  BY <1>1, Moved DEF Decides
<1>3. TypeOK'
  BY <1>1, <1>2 DEF Decides, TypeOK
<1>4. Named'
  <2>1. \A x \in Sent : x.from \in Node /\ x.to \in Node
    BY <1>1 DEF Messages
  <2>2. \A d \in Node : hasVoted'[d] => cand'[d] \in Node
    BY <1>1 DEF Decides, Named
  <2>3. \A x \in Sent' : x.type = "INQ" => cand'[x.from] \in Node
    BY <1>1, <1>2, <2>1 DEF Decides, Named
  <2>4. \A x \in Sent' : x.type = "RELINQUISH" => cand'[x.to] \in Node
    BY <1>1, <1>2, <2>1 DEF Decides, Named
  <2> QED
    BY <2>2, <2>3, <2>4 DEF Named
<1> QED
  BY <1>3, <1>4 DEF Typed

(* A request arrives. *)
LEMMA TypedRequest ==
  ASSUME Typed, NEW m \in Sent, handleReqTsMessage(m)
  PROVE  Typed'
<1>1. TypeOK /\ Named /\ Sent \subseteq Messages
  BY DEF Typed, TypeOK, Sent
<1>2. PICK n, p : n = m.to /\ p = <<m.ts, m.from>>
  OBVIOUS
<1>3. n \in Node /\ m.from \in Node /\ m.ts \in 0 .. MaxRound /\ p \in Entries
  BY <1>1, <1>2 DEF Messages, Entries
<1>4. CASE ~hasVoted[n]
  <2>1. PICK S : S = {VoteTo(n, m.from)}
    OBVIOUS
  <2>2. S \subseteq Messages /\ \A x \in S : x.type = "YES"
    <3>1. 0 \in 0 .. MaxRound
      OBVIOUS
    <3> QED
      BY <1>3, <2>1, <3>1 DEF Messages, VoteTo, Msg
  <2>3. /\ UNCHANGED <<curTS, requests, inCS, requestedCS, myTS, yesVotes, late, inquired,
                       deferredQ>>
        /\ msgs' = (msgs (-) SetToBag({m})) (+) SetToBag(S)
        /\ cand' = [cand EXCEPT ![n] = m.from] /\ candTS' = [candTS EXCEPT ![n] = m.ts]
        /\ hasVoted' = [hasVoted EXCEPT ![n] = TRUE]
    BY <1>2, <1>4, <2>1 DEF handleReqTsMessage, Handle, VoteFor, requester, Yes, VoteTo
  <2>4. /\ hasVoted' \in [Node -> BOOLEAN] /\ cand' \in [Node -> Node \cup {NoNode}]
        /\ candTS' \in [Node -> 0 .. MaxRound] /\ inquired' \in [Node -> BOOLEAN]
        /\ \A e \in Node : cand[e] \in Node => cand'[e] \in Node
        /\ \A e \in Node : hasVoted'[e] => hasVoted[e] \/ cand'[e] \in Node
    BY <1>1, <1>3, <2>3 DEF TypeOK
  <2>5. /\ DOMAIN deferredQ' = Node
        /\ \A e \in Node : IsABag(deferredQ'[e]) /\ BagToSet(deferredQ'[e]) \subseteq Entries
    BY <1>1, <2>3 DEF TypeOK
  <2> QED
    BY <2>2, <2>3, <2>4, <2>5, TypedDecision DEF Decides
<1>5. CASE hasVoted[n]
  <2>0. PICK asks, S :
          /\ asks = (Precedes(p, <<candTS[n], cand[n]>>) /\ ~inquired[n])
          /\ S = IF asks THEN {Msg("INQ", n, cand[n], candTS[n])} ELSE {}
    OBVIOUS
  <2>1. /\ asks \in BOOLEAN
        /\ msgs' = (msgs (-) SetToBag({m})) (+) SetToBag(S)
        /\ inquired' = IF asks THEN [inquired EXCEPT ![n] = TRUE] ELSE inquired
    BY <1>2, <1>5, <2>0 DEF handleReqTsMessage, Handle, EmptyBag
  <2>2. /\ UNCHANGED <<curTS, requests, inCS, requestedCS, myTS, yesVotes, late, hasVoted,
                       cand, candTS>>
        /\ deferredQ' = Defer(n, p)
    BY <1>2, <1>5 DEF handleReqTsMessage, Handle, requester
  <2>3. cand[n] \in Node /\ candTS[n] \in 0 .. MaxRound
    BY <1>1, <1>3, <1>5 DEF Named, TypeOK
  <2>4. /\ S \subseteq Messages
        /\ \A x \in S : x.type = "INQ" /\ x.from = n
    BY <1>3, <2>0, <2>3 DEF Messages, Msg
  <2>5. inquired' \in [Node -> BOOLEAN]
    BY <1>1, <2>1 DEF TypeOK
  <2>6. /\ DOMAIN deferredQ' = Node
        /\ \A e \in Node : IsABag(deferredQ'[e]) /\ BagToSet(deferredQ'[e]) \subseteq Entries
    <3>1. PICK Q : Q = deferredQ[n] (+) SetToBag({p})
      OBVIOUS
    <3>2. /\ IsABag(deferredQ[n]) /\ BagToSet(deferredQ[n]) \subseteq Entries
          /\ DOMAIN deferredQ = Node
      BY <1>1, <1>3 DEF TypeOK
    <3>3. IsABag(Q) /\ BagToSet(Q) = BagToSet(deferredQ[n]) \cup {p}
      BY <3>1, <3>2, Added
    <3>4. deferredQ' = [deferredQ EXCEPT ![n] = Q]
      BY <2>2, <3>1 DEF Defer
    <3> QED
      BY <1>1, <1>3, <3>2, <3>3, <3>4 DEF TypeOK
  <2>7. /\ hasVoted' \in [Node -> BOOLEAN] /\ cand' \in [Node -> Node \cup {NoNode}]
        /\ candTS' \in [Node -> 0 .. MaxRound]
    BY <1>1, <2>2 DEF TypeOK
  <2> QED
    BY <2>1, <2>2, <2>3, <2>4, <2>5, <2>6, <2>7, TypedDecision DEF Decides
<1> QED
  BY <1>4, <1>5

(* The first request of a queue gets the vote of n. *)
LEMMA TypedNext ==
  ASSUME Typed, NEW m \in Sent, NEW n, n = m.to, NEW Q0, IsABag(Q0),
         BagToSet(Q0) \subseteq Entries, BagToSet(Q0) # {}, NEW p, p = First(Q0),
         UNCHANGED <<curTS, requests, inCS, requestedCS, myTS, yesVotes, late, hasVoted>>,
         VoteFor(n, p), inquired' = [inquired EXCEPT ![n] = FALSE],
         DOMAIN deferredQ' = Node, deferredQ'[n] = Q0 (-) SetToBag({p}),
         \A e \in Node \ {n} : deferredQ'[e] = deferredQ[e],
         msgs' = (msgs (-) SetToBag({m})) (+) SetToBag({VoteTo(n, p[2])})
  PROVE  Typed'
<1>1. TypeOK /\ Named /\ Sent \subseteq Messages
  BY DEF Typed, TypeOK, Sent
<1>2. n \in Node
  BY <1>1 DEF Messages
<1>3. p[1] \in 0 .. MaxRound /\ p[2] \in Node
  <2>1. p \in Entries
    BY FirstQueued
  <2> QED
    BY <2>1 DEF Entries
<1>4. PICK S : S = {VoteTo(n, p[2])}
  OBVIOUS
<1>5. S \subseteq Messages /\ \A x \in S : x.type = "YES"
  <2>1. 0 \in 0 .. MaxRound
    OBVIOUS
  <2> QED
    BY <1>2, <1>3, <1>4, <2>1 DEF Messages, VoteTo, Msg
<1>6. cand' = [cand EXCEPT ![n] = p[2]] /\ candTS' = [candTS EXCEPT ![n] = p[1]]
  BY DEF VoteFor
<1>7. /\ hasVoted' \in [Node -> BOOLEAN] /\ cand' \in [Node -> Node \cup {NoNode}]
      /\ candTS' \in [Node -> 0 .. MaxRound] /\ inquired' \in [Node -> BOOLEAN]
      /\ \A e \in Node : cand[e] \in Node => cand'[e] \in Node
      /\ \A e \in Node : hasVoted'[e] => hasVoted[e]
  BY <1>1, <1>2, <1>3, <1>6 DEF TypeOK
<1>8. \A e \in Node : IsABag(deferredQ'[e]) /\ BagToSet(deferredQ'[e]) \subseteq Entries
  <2>1. IsABag(deferredQ'[n]) /\ BagToSet(deferredQ'[n]) \subseteq BagToSet(Q0)
    BY OneLess
  <2> QED
    BY <1>1, <2>1 DEF TypeOK
<1>9. Decides(m, S)
  BY <1>4, <1>5, <1>7, <1>8 DEF Decides
<1> QED
  BY <1>9, TypedDecision

(* A vote is given back. *)
LEMMA TypedReturn ==
  ASSUME Typed, NEW m \in Sent, handleRelinquishMessage(m) \/ handleReleaseMessage(m)
  PROVE  Typed'
<1>1. TypeOK /\ Named /\ Sent \subseteq Messages
  BY DEF Typed, TypeOK, Sent
<1>2. PICK n \in Node : n = m.to
  BY <1>1 DEF Messages
<1>3. /\ IsABag(deferredQ[n]) /\ BagToSet(deferredQ[n]) \subseteq Entries
      /\ DOMAIN deferredQ = Node
  BY <1>1 DEF TypeOK
<1>4. CASE handleRelinquishMessage(m)
  <2>1. PICK old, Q0, p :
          /\ old = <<candTS[n], cand[n]>> /\ Q0 = deferredQ[n] (+) SetToBag({old})
          /\ p = First(Q0)
    OBVIOUS
  <2>2. m.type = "RELINQUISH"
    BY <1>4 DEF handleRelinquishMessage, Handle
  <2>3. old \in Entries
    BY <1>1, <1>2, <2>1, <2>2 DEF Named, TypeOK, Entries
  <2>4. IsABag(Q0) /\ BagToSet(Q0) = BagToSet(deferredQ[n]) \cup {old}
    BY <1>3, <2>1, Added
  <2>5. /\ DOMAIN Defer(n, old) = Node /\ Defer(n, old)[n] = Q0
        /\ \A e \in Node \ {n} : Defer(n, old)[e] = deferredQ[e]
    BY <1>3, <2>1 DEF Defer
  <2>6. /\ UNCHANGED <<curTS, requests, inCS, requestedCS, myTS, yesVotes, late, hasVoted>>
        /\ VoteFor(n, p) /\ inquired' = [inquired EXCEPT ![n] = FALSE]
        /\ msgs' = (msgs (-) SetToBag({m})) (+) SetToBag({VoteTo(n, p[2])})
    BY <1>2, <1>4, <2>1, <2>5 DEF handleRelinquishMessage, Handle, requester, Yes, VoteTo
  <2>7. /\ DOMAIN deferredQ' = Node /\ deferredQ'[n] = Q0 (-) SetToBag({p})
        /\ \A e \in Node \ {n} : deferredQ'[e] = deferredQ[e]
    <3>1. deferredQ' = [Defer(n, old) EXCEPT ![n] = @ (-) SetToBag({First(Defer(n, old)[n])})]
      BY <1>2, <1>4, <2>1 DEF handleRelinquishMessage
    <3> QED
      BY <2>1, <2>5, <3>1
  <2>8. BagToSet(Q0) \subseteq Entries /\ BagToSet(Q0) # {}
    BY <1>3, <2>3, <2>4
  <2> QED
    BY <1>2, <2>1, <2>4, <2>6, <2>7, <2>8, TypedNext
<1>5. CASE handleReleaseMessage(m) /\ deferredQ[n] # EmptyBag
  <2>1. PICK Q0, p : Q0 = deferredQ[n] /\ p = First(Q0)
    OBVIOUS
  <2>2. /\ UNCHANGED <<curTS, requests, inCS, requestedCS, myTS, yesVotes, late, hasVoted>>
        /\ VoteFor(n, p) /\ inquired' = [inquired EXCEPT ![n] = FALSE]
        /\ msgs' = (msgs (-) SetToBag({m})) (+) SetToBag({VoteTo(n, p[2])})
        /\ deferredQ' = [deferredQ EXCEPT ![n] = Q0 (-) SetToBag({p})]
    BY <1>2, <1>5, <2>1 DEF handleReleaseMessage, Handle, requester, Yes, VoteTo
  <2>3. BagToSet(Q0) # {}
    <3> SUFFICES ASSUME BagToSet(Q0) = {} PROVE Q0 = EmptyBag
      BY <1>5, <2>1
    <3>1. Q0 = [x \in {} |-> 1]
      BY <1>3, <2>1 DEF IsABag, BagToSet
    <3> QED
      BY <3>1 DEF EmptyBag, SetToBag
  <2>4. /\ DOMAIN deferredQ' = Node /\ deferredQ'[n] = Q0 (-) SetToBag({p})
        /\ \A e \in Node \ {n} : deferredQ'[e] = deferredQ[e]
    BY <1>3, <2>2
  <2>5. IsABag(Q0) /\ BagToSet(Q0) \subseteq Entries
    BY <1>3, <2>1
  <2> QED
    BY <1>2, <2>1, <2>2, <2>3, <2>4, <2>5, TypedNext
<1>6. CASE handleReleaseMessage(m) /\ deferredQ[n] = EmptyBag
  <2>1. PICK S : S = {}
    OBVIOUS
  <2>2. /\ UNCHANGED <<curTS, requests, inCS, requestedCS, myTS, yesVotes, late, cand,
                       candTS, deferredQ>>
        /\ hasVoted' = [hasVoted EXCEPT ![n] = FALSE]
        /\ inquired' = [inquired EXCEPT ![n] = FALSE]
        /\ msgs' = (msgs (-) SetToBag({m})) (+) SetToBag(S)
    BY <1>2, <1>6, <2>1 DEF handleReleaseMessage, Handle, requester, EmptyBag
  <2>3. /\ hasVoted' \in [Node -> BOOLEAN] /\ inquired' \in [Node -> BOOLEAN]
        /\ \A e \in Node : hasVoted'[e] => hasVoted[e]
    BY <1>1, <2>2 DEF TypeOK
  <2>4. /\ cand' \in [Node -> Node \cup {NoNode}] /\ candTS' \in [Node -> 0 .. MaxRound]
        /\ DOMAIN deferredQ' = Node
        /\ \A e \in Node : IsABag(deferredQ'[e]) /\ BagToSet(deferredQ'[e]) \subseteq Entries
    BY <1>1, <2>2 DEF TypeOK
  <2>5. Decides(m, S)
    BY <2>1, <2>2, <2>3, <2>4 DEF Decides
  <2> QED
    BY <2>5, TypedDecision
<1> QED
  BY <1>4, <1>5, <1>6

(* The fields of SandersNode keep their types, and every message names      *)
(* nodes, whenever the nodes leave.                                         *)
THEOREM TypeCorrect == Spec => []TypeOK
<1>1. Init => Typed
  <2>1. Init => TypeOK
    BY InitHolds DEF IInv
  <2>2. Init => Named
    BY DEF Init, Named, Sent, BagToSet, EmptyBag, SetToBag
  <2> QED
    BY <2>1, <2>2 DEF Typed
<1>2. Typed /\ [Next]_vars => Typed'
  <2> SUFFICES ASSUME Typed, [Next]_vars PROVE Typed'
    OBVIOUS
  <2>1. CASE UNCHANGED vars
    BY <2>1 DEF vars, requester, arbiter, Typed, TypeOK, Named, Sent
  <2>2. CASE Round
    BY <2>2 DEF Round, requester, arbiter, Typed, TypeOK, Named, Sent
  <2>3. CASE \E n \in Node : RequestCS(n) \/ EnterCSLoop(n) \/ LeaveCS(n)
    BY <2>3, TypedRequester
  <2>4. CASE handleMessages
    <3>1. PICK m \in Sent :
            \/ handleInqTsMessage(m) \/ handleReleaseMessage(m)
            \/ handleRelinquishMessage(m) \/ handleReqTsMessage(m) \/ handleYesMessage(m)
      BY <2>4 DEF handleMessages, Sent
    <3> QED
      BY <3>1, TypedAnswers, TypedRequest, TypedReturn
  <2> QED
    BY <2>1, <2>2, <2>3, <2>4 DEF Next
<1>3. Typed => TypeOK
  BY DEF Typed
<1> QED
  BY <1>1, <1>2, <1>3, PTL DEF Spec

-----------------------------------------------------------------------------
(* The votes. *)

(* A node counts |Si| votes only when it has the vote of every arbiter of   *)
(* its district, for the request that it made, until it leaves (and until   *)
(* some node that left gives a vote back late).                             *)
THEOREM EntrantsHoldVotes ==
  Spec => []EntrantHoldsVotes
<1>1. late \/ IInv => EntrantHoldsVotes
  <2> SUFFICES ASSUME late \/ IInv, NEW n \in Node, inCS[n], ~late, NEW d \in District[n]
               PROVE  hasVoted[d] /\ cand[d] = n /\ candTS[d] = myTS[n]
    BY DEF EntrantHoldsVotes
  <2>1. Holds(n, d) /\ ~Released(d) /\ d \in Node
    BY AllVotes, Districts DEF IInv, Entrants, Holds, Released
  <2> QED
    BY <2>1 DEF IInv, Candidates, Holds
<1> QED
  BY <1>1, Invariant, PTL

-----------------------------------------------------------------------------
(* Counting the votes that are on their way. *)

(* The copies of the messages in M that Flying(M) counts.                   *)
Aloft(M) == UNION {{m} \X (1 .. msgs[m]) : m \in M \cap Sent}

LEMMA AloftPairs ==
  ASSUME NEW M
  PROVE  /\ Flying(M) = Cardinality(Aloft(M))
         /\ \A y : y \in Aloft(M) <=>
              \E m \in M \cap Sent : \E i \in 1 .. msgs[m] : y = <<m, i>>
<1>1. Flying(M) = Cardinality(Aloft(M))
  BY DEF Flying, Aloft, Sent
<1>2. \A y : y \in Aloft(M) <=> \E m \in M \cap Sent : y \in {m} \X (1 .. msgs[m])
  BY DEF Aloft
<1>3. \A m : \A y : y \in {m} \X (1 .. msgs[m]) <=> \E i \in 1 .. msgs[m] : y = <<m, i>>
  OBVIOUS
<1> QED
  BY <1>1, <1>2, <1>3

(* The votes on their way to n are numbered per arbiter.                    *)
LEMMA ComingCounted ==
  ASSUME TypeOK, Votes, NEW n \in Node
  PROVE  Flying({Msg("YES", d, n, 0) : d \in District[n]}) = Cardinality(Coming(n))
<1> DEFINE M == {Msg("YES", d, n, 0) : d \in District[n]}
           S == Coming(n)
           f == [x \in S |-> <<VoteTo(x[1], n), x[2]>>]
<1>1. \A e \in Sent : msgs[e] \in Nat /\ Copies(e, msgs) = msgs[e]
  BY DEF TypeOK, IsABag, Sent, BagToSet, Copies
<1>2. \A e : e \notin Sent => Copies(e, msgs) = 0
  BY DEF Sent, Copies
<1>3. \A x : x \in S <=> \E d \in District[n], i \in Nat \ {0} :
                           x = <<d, i>> /\ i <= Copies(VoteTo(d, n), msgs)
  <2>1. \A d \in District[n], i \in Nat \ {0} :
          <<d, i>> \in S <=> i <= Copies(VoteTo(d, n), msgs)
    BY DEF Coming, VoteTo
  <2>2. \A x \in S : \E d \in District[n], i \in Nat \ {0} : x = <<d, i>>
    <3>1. S \subseteq District[n] \X (Nat \ {0})
      BY DEF Coming
    <3>2. \A x \in District[n] \X (Nat \ {0}) :
            x[1] \in District[n] /\ x[2] \in Nat \ {0} /\ x = <<x[1], x[2]>>
      OBVIOUS
    <3> HIDE DEF S
    <3> QED
      BY <3>1, <3>2
  <2> QED
    BY <2>1, <2>2
<1>4. \A y : y \in Aloft(M) <=>
        \E m \in M \cap Sent : \E i \in 1 .. msgs[m] : y = <<m, i>>
  BY AloftPairs
<1>5. \A d \in District[n], e \in District[n] : VoteTo(d, n) = VoteTo(e, n) => d = e
  BY Fields DEF VoteTo
<1>6. M = {VoteTo(d, n) : d \in District[n]}
  BY DEF VoteTo
<1> HIDE DEF M, S
<1>7. ASSUME NEW x \in S PROVE f[x] \in Aloft(M)
  <2>1. PICK d \in District[n], i \in Nat \ {0} :
          x = <<d, i>> /\ i <= Copies(VoteTo(d, n), msgs)
    BY <1>3
  <2>2. VoteTo(d, n) \in M \cap Sent
    BY <1>2, <1>6, <2>1
  <2>3. i \in 1 .. msgs[VoteTo(d, n)]
    BY <1>1, <2>1, <2>2
  <2>4. f[x] = <<VoteTo(d, n), i>>
    BY <2>1
  <2> QED
    BY <1>4, <2>2, <2>3, <2>4
<1>8. ASSUME NEW x \in S, NEW y \in S, f[x] = f[y] PROVE x = y
  <2>1. PICK d \in District[n], i \in Nat \ {0} : x = <<d, i>>
    BY <1>3
  <2>2. PICK e \in District[n], j \in Nat \ {0} : y = <<e, j>>
    BY <1>3
  <2>3. VoteTo(d, n) = VoteTo(e, n) /\ i = j
    BY <1>8, <2>1, <2>2
  <2> QED
    BY <1>5, <2>1, <2>2, <2>3
<1>9. ASSUME NEW y \in Aloft(M) PROVE \E x \in S : f[x] = y
  <2>1. PICK m \in M \cap Sent : \E i \in 1 .. msgs[m] : y = <<m, i>>
    BY <1>4
  <2>2. PICK i \in 1 .. msgs[m] : y = <<m, i>>
    BY <2>1
  <2>3. PICK d \in District[n] : m = VoteTo(d, n)
    BY <1>6
  <2>4. i \in Nat \ {0} /\ i <= Copies(VoteTo(d, n), msgs)
    BY <1>1, <2>2, <2>3
  <2>5. <<d, i>> \in S
    BY <1>3, <2>4
  <2>6. f[<<d, i>>] = y
    BY <2>2, <2>3, <2>5
  <2> QED
    BY <2>5, <2>6
<1>10. f \in Bijection(S, Aloft(M))
  <2>1. f \in [S -> Aloft(M)]
    BY <1>7
  <2> HIDE DEF f
  <2> QED
    BY <1>8, <1>9, <2>1 DEF Bijection, Injection, Surjection, IsInjective
<1>11. ExistsBijection(S, Aloft(M))
  BY <1>10 DEF ExistsBijection
<1>12. IsFiniteSet(S)
  BY DEF S, Votes
<1>13. Cardinality(Aloft(M)) = Cardinality(S)
  BY <1>11, <1>12, FS_Bijection
<1> QED
  BY <1>13, AloftPairs DEF M, S

(* An arbiter to which n gives its vote back is sent one message.           *)
LEMMA GoingCounted ==
  ASSUME TypeOK, Once, Tokens, NEW n \in Node
  PROVE  Flying({Msg(t, n, d, 0) : t \in {"RELINQUISH", "RELEASE"}, d \in District[n]})
           = Cardinality(Going(n))
<1> DEFINE T == {"RELINQUISH", "RELEASE"}
           M == {Msg(t, n, d, 0) : t \in T, d \in District[n]}
           S == Aloft(M)
           f == [y \in S |-> y[1].to]
<1>1. \A m : m \in M <=> \E t \in T, d \in District[n] : m = Msg(t, n, d, 0)
  OBVIOUS
<1>2. \A m \in M : m.type \in T /\ m.to \in District[n]
  BY <1>1, Fields
<1>3. M \cap Sent = M \cap InFlight
  BY <1>2 DEF InFlight, Stale
<1>12. ASSUME NEW m \in M \cap InFlight
       PROVE  msgs[m] = 1 /\ m \in Backward /\ ArbiterOf(m) = m.to
  <2>1. m \in InFlight /\ m.type \in T
    BY <1>2
  <2> QED
    BY <2>1 DEF Once, Backward, ArbiterOf
<1>4. \A y : y \in S <=> \E m \in M \cap InFlight : y = <<m, 1>>
  <2>1. \A y : y \in S <=> \E m \in M \cap InFlight : \E i \in 1 .. msgs[m] : y = <<m, i>>
    BY AloftPairs, <1>3
  <2>2. \A m \in M \cap InFlight : 1 .. msgs[m] = {1}
    BY <1>12
  <2> QED
    BY <2>1, <2>2
<1>5. \A d : d \in Going(n) <=> \E m \in M \cap InFlight : m.to = d
  <2>1. \A d \in Going(n) : \E m \in M \cap InFlight : m.to = d
    BY <1>1, Fields DEF Going
  <2>2. ASSUME NEW m \in M \cap InFlight PROVE m.to \in Going(n)
    <3>1. PICK t \in T, d \in District[n] : m = Msg(t, n, d, 0)
      BY <1>1
    <3>2. m.to = d
      BY <3>1, Fields
    <3> QED
      BY <3>1, <3>2 DEF Going
  <2> QED
    BY <2>1, <2>2
<1> HIDE DEF M, S
<1>6. f \in [S -> Going(n)]
  <2>1. ASSUME NEW y \in S PROVE y[1].to \in Going(n)
    <3>1. PICK m \in M \cap InFlight : y = <<m, 1>>
      BY <1>4
    <3> QED
      BY <1>5, <3>1
  <2> QED
    BY <2>1
<1>7. ASSUME NEW x \in S, NEW y \in S, f[x] = f[y] PROVE x = y
  <2>1. PICK k \in M \cap InFlight : x = <<k, 1>>
    BY <1>4
  <2>2. PICK m \in M \cap InFlight : y = <<m, 1>>
    BY <1>4
  <2>3. k.to = m.to
    BY <1>7, <2>1, <2>2
  <2>4. k = m
    BY <1>12, <2>3 DEF Tokens
  <2> QED
    BY <2>1, <2>2, <2>4
<1>8. ASSUME NEW d \in Going(n) PROVE \E y \in S : f[y] = d
  <2>1. PICK m \in M \cap InFlight : m.to = d
    BY <1>5
  <2>2. <<m, 1>> \in S
    BY <1>4
  <2>3. f[<<m, 1>>] = d
    BY <2>1, <2>2
  <2> QED
    BY <2>2, <2>3
<1>9. f \in Bijection(S, Going(n))
  <2> HIDE DEF f
  <2> QED
    BY <1>6, <1>7, <1>8 DEF Bijection, Injection, Surjection, IsInjective
<1>10. ExistsBijection(Going(n), S)
  BY <1>9, Fun_ExistsBijSymmetric DEF ExistsBijection
<1>11. Cardinality(S) = Cardinality(Going(n))
  BY <1>10, Districts, FS_Bijection
<1> QED
  BY <1>11, AloftPairs DEF M, S

(* No vote is lost or doubled, whatever overtakes what: the count of a node *)
(* is the number of arbiters that name it, less the answers on their way    *)
(* and the votes on their way back, until a vote is given back late.        *)
THEOREM VotesAreConserved ==
  Spec => []VotesConserved
<1>1. late \/ IInv => VotesConserved
  <2> SUFFICES ASSUME IInv, NEW n \in Node
               PROVE  yesVotes[n]
                      = Cardinality({d \in District[n] : hasVoted[d] /\ cand[d] = n})
                        - Flying({Msg("YES", d, n, 0) : d \in District[n]})
                        - Flying({Msg(t, n, d, 0) : t \in {"RELINQUISH", "RELEASE"},
                                                    d \in District[n]})
    BY DEF VotesConserved
  <2>1. Voters(n) = {d \in District[n] : hasVoted[d] /\ cand[d] = n}
    BY DEF Voters, Holds
  <2>2. yesVotes[n] =
          Cardinality(Voters(n)) - Cardinality(Coming(n)) - Cardinality(Going(n))
    BY DEF IInv, Votes
  <2>3. /\ Flying({Msg("YES", d, n, 0) : d \in District[n]}) = Cardinality(Coming(n))
        /\ Flying({Msg(t, n, d, 0) : t \in {"RELINQUISH", "RELEASE"}, d \in District[n]})
             = Cardinality(Going(n))
    BY ComingCounted, GoingCounted DEF IInv
  <2> QED
    BY <2>1, <2>2, <2>3
<1> QED
  BY <1>1, Invariant, PTL

-----------------------------------------------------------------------------
(* Mutual exclusion. *)

(* Any two districts have an arbiter in common, as in k9.txt and k15.txt. *)
DistrictsIntersect ==
  \A n, o \in Node : n # o => District[n] \cap District[o] # {}

(* An arbiter has one vote (cand): where every node in its critical section has
   those of its district, intersecting districts make the sections exclusive. *)
LEMMA VotesExclude ==
  ASSUME DistrictsIntersect, EntrantHoldsVotes
  PROVE  MutualExclusion
<1> SUFFICES ASSUME NEW n \in Node, NEW o \in Node, inCS[n], inCS[o], n # o, ~late
             PROVE  FALSE
  BY DEF MutualExclusion
<1>1. PICK d \in District[n] \cap District[o] : TRUE
  BY DEF DistrictsIntersect
<1>2. cand[d] = n /\ cand[d] = o
  BY <1>1 DEF EntrantHoldsVotes
<1> QED
  BY <1>2

(* Two nodes are never in their critical sections at once, until a node     *)
(* that has left its own gives a vote back.                                 *)
THEOREM Exclusion ==
  ASSUME DistrictsIntersect
  PROVE  Spec => []MutualExclusion
<1>1. DistrictsIntersect /\ EntrantHoldsVotes => MutualExclusion
  BY VotesExclude
<1> QED
  BY <1>1, EntrantsHoldVotes, PTL

-----------------------------------------------------------------------------
(* The generated districts. *)

(* A number of the square has one row and one column. *)
LEMMA DataInjective ==
  ASSUME NEW c \in Nat \ {0},
         NEW i \in Indices(c), NEW j \in Indices(c),
         NEW k \in Indices(c), NEW l \in Indices(c),
         data(c, i, j) = data(c, k, l)
  PROVE  i = k /\ j = l
<1>1. (i - k) * c = l - j /\ l - j < c /\ j - l < c
  BY DEF data, Indices
<1>2. ASSUME i - k >= 1 PROVE FALSE
  <2>1. (i - k) * c >= c
    BY <1>2 DEF Indices
  <2> QED
    BY <1>1, <2>1 DEF Indices
<1>3. ASSUME k - i >= 1 PROVE FALSE
  <2>1. (k - i) * c >= c /\ (k - i) * c = j - l
    BY <1>1, <1>3 DEF Indices
  <2> QED
    BY <1>1, <2>1 DEF Indices
<1>4. i = k
  BY <1>2, <1>3 DEF Indices
<1> QED
  BY <1>1, <1>4 DEF Indices

(* The row and the column of a number, as the comment of genCoteries        *)
(* computes them.                                                           *)
LEMMA RowAndColumn ==
  ASSUME NEW c \in Nat \ {0}, NEW n \in Squared(c)
  PROVE  /\ (n - 1) \div c \in Indices(c) /\ (n - 1) % c \in Indices(c)
         /\ n = data(c, (n - 1) \div c, (n - 1) % c)
<1> DEFINE q == (n - 1) \div c
           r == (n - 1) % c
<1>1. /\ n \in Nat /\ n - 1 >= 0 /\ n - 1 < c * c
      /\ q \in Int /\ r \in 0 .. (c - 1) /\ n - 1 = q * c + r
  BY DEF Squared
<1>2. q \in 0 .. (c - 1)
  <2> HIDE DEF q, r
  <2>1. ASSUME q >= c PROVE FALSE
    <3>1. q * c >= c * c
      BY <1>1, <2>1
    <3> QED
      BY <1>1, <3>1
  <2>2. ASSUME q <= -1 PROVE FALSE
    <3>1. q * c <= (-1) * c
      BY <1>1, <2>2
    <3> QED
      BY <1>1, <3>1
  <2> QED
    BY <1>1, <2>1, <2>2
<1> QED
  BY <1>1, <1>2 DEF data, Indices

(* Two nodes share the corners that their rows and columns form; two nodes  *)
(* of one row or column share its other nodes, of which there is one when   *)
(* there are three columns.                                                 *)
LEMMA CoteriesIntersect ==
  ASSUME NEW c \in Nat, c >= 3,
         NEW i \in Indices(c), NEW j \in Indices(c),
         NEW k \in Indices(c), NEW l \in Indices(c),
         i # k \/ j # l
  PROVE  Coterie(c, i, j) \cap Coterie(c, k, l) # {}
<1>1. \A a, b \in Indices(c) :
        (a = i \/ b = j) /\ (a # i \/ b # j) => data(c, a, b) \in Coterie(c, i, j)
  BY DataInjective DEF Coterie
<1>2. \A a, b \in Indices(c) :
        (a = k \/ b = l) /\ (a # k \/ b # l) => data(c, a, b) \in Coterie(c, k, l)
  BY DataInjective DEF Coterie
<1>3. \A a, b \in Indices(c) : \E d \in Indices(c) : d # a /\ d # b
  <2> SUFFICES ASSUME NEW a \in Indices(c), NEW b \in Indices(c)
               PROVE  \E d \in {0, 1, 2} : d # a /\ d # b
    BY DEF Indices
  <2> QED
    OBVIOUS
<1>4. CASE i = k
  <2>1. PICK d \in Indices(c) : d # j /\ d # l
    BY <1>3
  <2> QED
    BY <1>1, <1>2, <1>4, <2>1
<1>5. CASE j = l
  <2>1. PICK d \in Indices(c) : d # i /\ d # k
    BY <1>3
  <2> QED
    BY <1>1, <1>2, <1>5, <2>1
<1>6. CASE i # k /\ j # l
  BY <1>1, <1>2, <1>6
<1> QED
  BY <1>4, <1>5, <1>6

LEMMA GeneratedDistrictsIntersect ==
  ASSUME NEW columns \in Nat, columns >= 3,
         Node = Squared(columns), District = genCoteries(columns)
  PROVE  DistrictsIntersect
<1> SUFFICES ASSUME NEW n \in Squared(columns), NEW o \in Squared(columns), n # o
             PROVE  District[n] \cap District[o] # {}
  BY DEF DistrictsIntersect
<1>1. /\ District[n] = Coterie(columns, (n - 1) \div columns, (n - 1) % columns)
      /\ District[o] = Coterie(columns, (o - 1) \div columns, (o - 1) % columns)
  BY DEF genCoteries
<1>2. /\ (n - 1) \div columns \in Indices(columns)
      /\ (n - 1) % columns \in Indices(columns)
      /\ n = data(columns, (n - 1) \div columns, (n - 1) % columns)
  BY RowAndColumn
<1>3. /\ (o - 1) \div columns \in Indices(columns)
      /\ (o - 1) % columns \in Indices(columns)
      /\ o = data(columns, (o - 1) \div columns, (o - 1) % columns)
  BY RowAndColumn
<1> QED
  BY <1>1, <1>2, <1>3, CoteriesIntersect

(* With districts from genCoteries for three columns or more, as in k9.txt  *)
(* (5) and k15.txt (8), sections exclude, until a vote is given back late.  *)
(* With two columns the nodes of one row, or of one column, share no        *)
(* arbiter.                                                                 *)
THEOREM GeneratedDistrictsExclude ==
  ASSUME NEW columns \in Nat, columns >= 3,
         Node = Squared(columns), District = genCoteries(columns)
  PROVE  Spec => []MutualExclusion
BY GeneratedDistrictsIntersect, Exclusion
=============================================================================
