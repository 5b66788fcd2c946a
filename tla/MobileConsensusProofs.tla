------------------------ MODULE MobileConsensusProofs -----------------------
(* What the consensus of Badache, Hurfin and Macedo guarantees for every    *)
(* number of stations and hosts, whatever is delayed and whoever moves: a   *)
(* round has one proposal, its acknowledgements are unanimous and from      *)
(* different stations; and until a station that has decided is started      *)
(* again, one set is adopted and decided, and it has enough values.         *)
EXTENDS MobileConsensus, FiniteSetTheorems, TLAPS

-----------------------------------------------------------------------------
(* The types of the stations and of the messages. *)

Logs == UNION {[S -> Nat \ {0}] : S \in SUBSET [mssNode : MSSs, v : SUBSET MHs,
                                                ts : Rounds]}
Stations ==
  [roundR : Rounds, roundPhase : 0 .. 4, decidedState : BOOLEAN, ts : Rounds,
   p : SUBSET MHs, newV : SUBSET MHs, v : SUBSET MHs, endCollect : BOOLEAN,
   log : [Rounds -> Logs],
   nbPositiveAck : [Rounds -> Nat], nbNegativeAck : [Rounds -> Nat]]

Decides == [type : {"DECIDE"}, from : MSSs, to : MSSs, v : SUBSET MHs]
Estimates == [type : {"ESTIMATE"}, from : MSSs, to : MSSs, r : Rounds,
              newV : SUBSET MHs, p : SUBSET MHs, ts : Rounds]
NewEstimates == [type : {"NEW_EST"}, from : MSSs, to : MSSs, r : Rounds,
                 v : SUBSET MHs, p : SUBSET MHs, endCollect : BOOLEAN]
Acks == [type : {"ACK"}, from : MSSs, to : MSSs, r : Rounds, positive : BOOLEAN]
Quiet == [type : {"INIT_1"}, to : MSSs]
           \cup [type : {"INIT_2"}, from : MSSs, to : MSSs]
           \cup [type : {"INIT_3"}, from : MSSs, to : MHs]
           \cup [type : {"PROPOSE"}, from : MHs, to : MSSs]
Messages == Decides \cup Estimates \cup NewEstimates \cup Acks \cup Quiet

Typed(F, M) == F \in [MSSs -> Stations] /\ M \subseteq Messages

-----------------------------------------------------------------------------
(* The messages of the sequence q and of the bag b.  For every round and    *)
(* station at most one message is on its way that gives the proposal to the *)
(* station or its answer back.                                              *)
Flying(q, b) == Range(q) \cup BagToSet(b)
Copies(m, b) == IF m \in BagToSet(b) THEN b[m] ELSE 0
Token(m) == m.type \in {"NEW_EST", "ACK"}
Slot(m) == <<m.r, IF m.type = "ACK" THEN m.from ELSE m.to>>
Same(l, m) == Token(l) /\ Token(m) /\ Slot(l) = Slot(m)

Unique(q, b) ==
  /\ \A k, l \in DOMAIN q : Same(q[k], q[l]) => k = l
  /\ \A k \in DOMAIN q : \A m \in BagToSet(b) : ~Same(q[k], m)
  /\ \A l, m \in BagToSet(b) : Same(l, m) => l = m
  /\ \A m \in BagToSet(b) : Token(m) => Copies(m, b) = 1

-----------------------------------------------------------------------------
(* The rounds.  F are the fields of the stations, M the messages on their   *)
(* way.  A round is past when its coordinator cannot propose in it (again). *)
Past(F, r) ==
  LET s == F[findCoordinator(r)]
  IN  s.roundR > r \/ (s.roundR = r /\ s.roundPhase # 2)

Turned(i, s) ==
  /\ s.roundPhase = 2 => s.roundR > 0 /\ findCoordinator(s.roundR) = i
  /\ s.roundPhase \in {0, 1, 4} => s.roundR <= MaxRound

Proposals(F, M) ==
  /\ \A m \in M : m.type = "NEW_EST" =>
       m.from = findCoordinator(m.r) /\ m.r > 0 /\ Past(F, m.r)
  /\ \A l, m \in M : l.type = "NEW_EST" /\ m.type = "NEW_EST" /\ l.r = m.r =>
       l.v = m.v /\ l.p = m.p /\ l.endCollect = m.endCollect

(* The other stations whose answer of round r is not on its way, nor the    *)
(* proposal that they are to answer.                                        *)
Answered(M, i, r) ==
  {j \in MSSs \ {i} : \A m \in M : Token(m) => Slot(m) # <<r, j>>}

Counted(F, M) ==
  /\ \A m \in M : m.type = "ACK" =>
       /\ m.to = findCoordinator(m.r) /\ m.from # m.to
       /\ m.r > 0 /\ Past(F, m.r)
  /\ \A i \in MSSs, r \in Rounds :
       LET k == F[i].nbPositiveAck[r] + F[i].nbNegativeAck[r]
       IN  /\ k <= Cardinality(Answered(M, i, r))
           /\ k > 0 => i = findCoordinator(r) /\ Past(F, r)

(* What shows that the proposal of round r had endCollect, or had not.      *)
Positive(F, M, r) ==
  \/ \E m \in M : m.type = "NEW_EST" /\ m.r = r /\ m.endCollect
  \/ \E m \in M : m.type = "ACK" /\ m.r = r /\ m.positive
  \/ \E i \in MSSs : F[i].nbPositiveAck[r] > 0
Negative(F, M, r) ==
  \/ \E m \in M : m.type = "NEW_EST" /\ m.r = r /\ ~m.endCollect
  \/ \E m \in M : m.type = "ACK" /\ m.r = r /\ ~m.positive
  \/ \E i \in MSSs : F[i].nbNegativeAck[r] > 0

Unanimous(F, M) == \A r \in Rounds : ~(Positive(F, M, r) /\ Negative(F, M, r))

HasMajority(F) == \E i \in MSSs, r \in Rounds : Majority(F[i].nbPositiveAck[r])
Grounded(F, M) ==
  /\ (\E i \in MSSs : F[i].decidedState) => HasMajority(F)
  /\ (\E m \in M : m.type = "DECIDE") => HasMajority(F)

Good(F, M) ==
  /\ Typed(F, M) /\ \A i \in MSSs : Turned(i, F[i])
  /\ Proposals(F, M) /\ Counted(F, M) /\ Unanimous(F, M) /\ Grounded(F, M)

-----------------------------------------------------------------------------
(* The lock, as long as no station that has decided is started again.       *)
(* Rounds 1 .. K have been proposed, 1 .. L of them without endCollect, the *)
(* others all with the set V.                                               *)

(* The rounds up to k whose proposal is not on its way to station j.        *)
Free(M, j, k) ==
  {r \in 1 .. k : \A m \in M : m.type = "NEW_EST" => ~(m.r = r /\ m.to = j)}

(* A station takes one proposal for each round that it leaves: there are    *)
(* so many that it has taken.  Phase 1 is that of a station that is about   *)
(* to enter a round.                                                        *)
Turns(s) == s.roundR + (IF s.roundPhase \in {1, 4} THEN 1 ELSE 0)

(* As long as no set may be adopted, p says no more than the sets.          *)
LockedMessage(m, K, L, V) ==
  /\ m.type = "NEW_EST" =>
       /\ m.r \in 1 .. K /\ (m.endCollect <=> m.r > L)
       /\ m.endCollect => m.v = V
       /\ K = L => m.p \subseteq m.v
  /\ m.type = "ACK" => m.r <= K /\ (m.positive => m.r > L)
  /\ m.type = "DECIDE" => m.v = V /\ L < K
  /\ m.type = "ESTIMATE" =>
       /\ IF m.ts = 0 THEN m.r <= L + 1 ELSE m.newV = V /\ L < K
       /\ K = L => m.p \subseteq m.newV

LockedStation(i, s, M, K, L, V) ==
  /\ Turns(s) <= 1 + Cardinality(Free(M, i, K))
  /\ s.ts = 0 => Turns(s) <= 1 + Cardinality(Free(M, i, L))
  /\ s.ts > 0 => s.v = V /\ L < K /\ s.endCollect
  /\ s.decidedState => s.v = V /\ L < K /\ s.roundPhase = 0
  /\ s.roundPhase = 0 /\ ~s.decidedState => s.roundR = 0
  /\ \A r \in Rounds : s.nbPositiveAck[r] > 0 => L < r /\ r <= K
  /\ \A r \in Rounds : \A e \in BagToSet(s.log[r]) :
       IF e.ts = 0 THEN r <= L + 1 ELSE e.v = V /\ L < K
  /\ K = L => /\ s.p \subseteq s.newV
              /\ s.endCollect => Cardinality(s.p) >= alpha

LockedBy(F, M, K, L, V) ==
  /\ L <= K /\ (L < K => Cardinality(V) >= alpha)
  /\ \A r \in 1 .. K : Past(F, r)
  /\ \A m \in M : LockedMessage(m, K, L, V)
  /\ \A i \in MSSs : LockedStation(i, F[i], M, K, L, V)

Locked(F, M) == \E K, L \in Rounds, V \in SUBSET MHs : LockedBy(F, M, K, L, V)

IInv ==
  /\ IsABag(late) /\ network \in Seq(Messages)
  /\ connectedMSS \in [MHs -> MSSs] /\ restarted \in BOOLEAN
  /\ Good(mss, InFlight) /\ Unique(network, late)
  /\ \A i \in MSSs : mss[i].roundR <= MaxRound
  /\ restarted \/ Locked(mss, InFlight)

-----------------------------------------------------------------------------
(* Messages on their way. *)

Put(b, m) == b (+) SetToBag({m})
Taken(b, m) == b (-) SetToBag({m})

LEMMA BagPut ==
  ASSUME NEW b, IsABag(b), NEW m
  PROVE  /\ IsABag(Put(b, m))
         /\ \A e : e \in BagToSet(Put(b, m)) <=> e \in BagToSet(b) \/ e = m
         /\ \A e \in BagToSet(b) : e # m => Copies(e, Put(b, m)) = Copies(e, b)
         /\ m \notin BagToSet(b) => Copies(m, Put(b, m)) = 1
<1> PICK c : c = Put(b, m)
  OBVIOUS
<1>1. c = [e \in DOMAIN b \cup {m} |-> (IF e \in DOMAIN b THEN b[e] ELSE 0)
                                       + (IF e \in {m} THEN 1 ELSE 0)]
  BY DEF Put, (+), SetToBag
<1>2. \A e \in DOMAIN b : b[e] \in Nat /\ b[e] > 0
  BY DEF IsABag
<1>3. DOMAIN c = DOMAIN b \cup {m}
  BY <1>1
<1>4. IsABag(c)
  <2>1. \A e \in DOMAIN c : c[e] \in {k \in Nat : k > 0}
    BY <1>1, <1>2
  <2> QED
    BY <1>1, <1>3, <2>1 DEF IsABag
<1>5. \A e \in DOMAIN b : e # m => c[e] = b[e]
  BY <1>1, <1>2
<1>6. m \notin DOMAIN b => c[m] = 1
  BY <1>1
<1> QED
  BY <1>3, <1>4, <1>5, <1>6 DEF BagToSet, Copies

LEMMA BagTake ==
  ASSUME NEW b, IsABag(b), NEW m \in BagToSet(b)
  PROVE  /\ IsABag(Taken(b, m))
         /\ \A e : e \in BagToSet(b) <=> e \in BagToSet(Taken(b, m)) \/ e = m
         /\ \A e \in BagToSet(Taken(b, m)) :
              e # m => Copies(e, Taken(b, m)) = Copies(e, b)
         /\ Copies(m, b) = 1 => m \notin BagToSet(Taken(b, m))
<1> PICK c : c = Taken(b, m)
  OBVIOUS
<1> DEFINE f == [e \in DOMAIN b |-> IF e \in {m} THEN b[e] - 1 ELSE b[e]]
<1>1. c = [e \in {x \in DOMAIN f : f[x] > 0} |-> f[e]]
  BY DEF Taken, (-), SetToBag
<1>2. \A e \in DOMAIN b : b[e] \in Nat /\ b[e] > 0
  BY DEF IsABag
<1>3. \A e \in DOMAIN b : e # m => f[e] = b[e] /\ e \in DOMAIN f
  OBVIOUS
<1>4. \A e \in DOMAIN f : f[e] \in Nat
  BY <1>2
<1>5. f[m] = b[m] - 1
  BY DEF BagToSet
<1> HIDE DEF f
<1>6. IsABag(c)
  BY <1>1, <1>4 DEF IsABag
<1>7. DOMAIN f = DOMAIN b /\ m \in DOMAIN b
  BY DEF f, BagToSet
<1>8. DOMAIN b = DOMAIN c \cup {m}
  BY <1>1, <1>2, <1>3, <1>7
<1>9. b[m] = 1 => m \notin DOMAIN c
  BY <1>1, <1>5
<1> QED
  BY <1>1, <1>3, <1>6, <1>7, <1>8, <1>9 DEF BagToSet, Copies

(* The message m is taken out: the rest q, b of the messages on their way.  *)
Removed(m, q, b, M) ==
  /\ q \in Seq(Messages) /\ IsABag(b) /\ Unique(q, b)
  /\ M = Flying(q, b) \cup {m}
  /\ \A l \in Flying(q, b) : ~Same(l, m)

LEMMA HeadArrives ==
  ASSUME NEW q \in Seq(Messages), NEW b, IsABag(b), Unique(q, b), q # <<>>
  PROVE  Removed(Head(q), Tail(q), b, Flying(q, b))
<1>1. /\ Tail(q) \in Seq(Messages) /\ Head(q) = q[1] /\ 1 \in DOMAIN q
      /\ \A k \in DOMAIN Tail(q) : k + 1 \in DOMAIN q /\ Tail(q)[k] = q[k + 1]
      /\ \A k \in DOMAIN q : k # 1 => k - 1 \in DOMAIN Tail(q) /\ Tail(q)[k - 1] = q[k]
      /\ \A k \in DOMAIN Tail(q) : k \in Nat /\ k > 0
  OBVIOUS
<1>2. Unique(Tail(q), b)
  BY <1>1 DEF Unique
<1>3. Range(q) = Range(Tail(q)) \cup {Head(q)}
  BY <1>1 DEF Range
<1>4. \A l \in Range(Tail(q)) : ~Same(l, Head(q))
  BY <1>1 DEF Range, Unique
<1>5. \A l \in BagToSet(b) : ~Same(l, Head(q))
  BY <1>1 DEF Unique, Same
<1> QED
  BY <1>1, <1>2, <1>3, <1>4, <1>5 DEF Removed, Flying

LEMMA LateArrives ==
  ASSUME NEW q \in Seq(Messages), NEW b, IsABag(b), Unique(q, b),
         NEW m \in BagToSet(b)
  PROVE  Removed(m, q, Taken(b, m), Flying(q, b))
<1>1. PICK c : c = Taken(b, m)
  OBVIOUS
<1>2. /\ IsABag(c) /\ \A e : e \in BagToSet(b) <=> e \in BagToSet(c) \/ e = m
      /\ \A e \in BagToSet(c) : e # m => Copies(e, c) = Copies(e, b)
      /\ Copies(m, b) = 1 => m \notin BagToSet(c)
  BY <1>1, BagTake
<1>3. Token(m) => m \notin BagToSet(c)
  BY <1>2 DEF Unique
<1>4. \A l \in BagToSet(c) : ~Same(l, m)
  BY <1>2, <1>3 DEF Unique, Same
<1>5. \A l \in Range(q) : ~Same(l, m)
  BY DEF Unique, Range
<1>6. Unique(q, c)
  BY <1>2, <1>3 DEF Unique
<1> QED
  BY <1>1, <1>2, <1>4, <1>5, <1>6 DEF Removed, Flying

LEMMA Delayed ==
  ASSUME NEW q \in Seq(Messages), NEW b, IsABag(b), Unique(q, b), q # <<>>
  PROVE  LET c == Put(b, Head(q))
         IN  /\ Tail(q) \in Seq(Messages) /\ IsABag(c) /\ Unique(Tail(q), c)
             /\ Flying(Tail(q), c) = Flying(q, b)
<1>1. PICK m, c : m = Head(q) /\ c = Put(b, Head(q))
  OBVIOUS
<1>2. Removed(m, Tail(q), b, Flying(q, b))
  BY <1>1, HeadArrives
<1>3. /\ IsABag(c) /\ \A e : e \in BagToSet(c) <=> e \in BagToSet(b) \/ e = m
      /\ \A e \in BagToSet(b) : e # m => Copies(e, c) = Copies(e, b)
      /\ m \notin BagToSet(b) => Copies(m, c) = 1
  BY <1>1, BagPut
<1>4. /\ Tail(q) \in Seq(Messages) /\ Unique(Tail(q), b)
      /\ Flying(q, b) = Range(Tail(q)) \cup BagToSet(b) \cup {m}
      /\ \A l \in Range(Tail(q)) : ~Same(l, m)
      /\ \A l \in BagToSet(b) : ~Same(l, m)
  BY <1>2 DEF Removed, Flying
<1>5. Token(m) => m \notin BagToSet(b)
  BY <1>4 DEF Same
<1>6. Unique(Tail(q), c)
  <2>1. \A k \in DOMAIN Tail(q) : \A l \in BagToSet(c) : ~Same(Tail(q)[k], l)
    BY <1>3, <1>4 DEF Unique, Range
  <2>2. \A k, l \in BagToSet(c) : Same(k, l) => k = l
    BY <1>3, <1>4 DEF Unique, Same
  <2>3. \A l \in BagToSet(c) : Token(l) => Copies(l, c) = 1
    BY <1>3, <1>4, <1>5 DEF Unique
  <2> QED
    BY <1>4, <2>1, <2>2, <2>3 DEF Unique
<1> QED
  BY <1>1, <1>3, <1>4, <1>6 DEF Flying

LEMMA Sent ==
  ASSUME NEW q \in Seq(Messages), NEW b, Unique(q, b), NEW x \in Seq(Messages),
         \A k, l \in DOMAIN x : Same(x[k], x[l]) => k = l,
         \A l \in Range(x), m \in Flying(q, b) : ~Same(l, m)
  PROVE  /\ q \o x \in Seq(Messages) /\ Unique(q \o x, b)
         /\ Flying(q \o x, b) = Flying(q, b) \cup Range(x)
<1>1. /\ q \o x \in Seq(Messages)
      /\ DOMAIN q = 1 .. Len(q) /\ DOMAIN x = 1 .. Len(x)
      /\ DOMAIN (q \o x) = 1 .. (Len(q) + Len(x))
      /\ Len(q) \in Nat /\ Len(x) \in Nat
      /\ \A k \in 1 .. Len(q) : (q \o x)[k] = q[k]
      /\ \A k \in 1 .. Len(x) : (q \o x)[Len(q) + k] = x[k]
  OBVIOUS
<1>2. PICK z : z = q \o x
  OBVIOUS
<1>3. \A k \in DOMAIN z : \/ k \in DOMAIN q /\ z[k] = q[k]
                          \/ k - Len(q) \in DOMAIN x /\ z[k] = x[k - Len(q)]
  <2> SUFFICES ASSUME NEW k \in 1 .. (Len(q) + Len(x)), k \notin 1 .. Len(q)
               PROVE  k - Len(q) \in 1 .. Len(x) /\ z[k] = x[k - Len(q)]
    BY <1>1, <1>2
  <2>1. k - Len(q) \in 1 .. Len(x)
    BY <1>1
  <2>2. z[Len(q) + (k - Len(q))] = x[k - Len(q)]
    BY <1>1, <1>2, <2>1
  <2> QED
    BY <1>1, <2>1, <2>2
<1>4. Range(z) = Range(q) \cup Range(x)
  <2>1. Range(z) \subseteq Range(q) \cup Range(x)
    BY <1>3 DEF Range
  <2>2. \A k \in DOMAIN q : k \in DOMAIN z /\ z[k] = q[k]
    BY <1>1, <1>2
  <2>3. \A k \in DOMAIN x : Len(q) + k \in DOMAIN z /\ z[Len(q) + k] = x[k]
    BY <1>1, <1>2
  <2> QED
    BY <2>1, <2>2, <2>3 DEF Range
<1>5. \A k \in DOMAIN q : q[k] \in Flying(q, b)
  BY DEF Flying, Range
<1>6. \A k \in DOMAIN x : x[k] \in Range(x)
  BY DEF Range
<1>7. \A l, m : Same(l, m) => Same(m, l)
  BY DEF Same
<1>8. ASSUME NEW k \in DOMAIN z, NEW l \in DOMAIN z, Same(z[k], z[l]) PROVE k = l
  <2>1. CASE k \in DOMAIN q /\ l \in DOMAIN q /\ z[k] = q[k] /\ z[l] = q[l]
    BY <1>8, <2>1 DEF Unique
  <2>2. CASE /\ k \in DOMAIN q /\ z[k] = q[k]
             /\ l - Len(q) \in DOMAIN x /\ z[l] = x[l - Len(q)]
    BY <1>5, <1>6, <1>7, <1>8, <2>2
  <2>3. CASE /\ l \in DOMAIN q /\ z[l] = q[l]
             /\ k - Len(q) \in DOMAIN x /\ z[k] = x[k - Len(q)]
    BY <1>5, <1>6, <1>7, <1>8, <2>3
  <2>4. CASE /\ l - Len(q) \in DOMAIN x /\ z[l] = x[l - Len(q)]
             /\ k - Len(q) \in DOMAIN x /\ z[k] = x[k - Len(q)]
    <3>1. k - Len(q) = l - Len(q)
      BY <1>8, <2>4
    <3> QED
      BY <1>1, <1>2, <3>1
  <2> QED
    BY <1>3, <2>1, <2>2, <2>3, <2>4
<1>9. \A k \in DOMAIN z : \A m \in BagToSet(b) : ~Same(z[k], m)
  BY <1>3, <1>6 DEF Unique, Flying
<1>10. Unique(z, b)
  BY <1>8, <1>9 DEF Unique
<1> QED
  BY <1>1, <1>2, <1>4, <1>10 DEF Flying

LEMMA SetSent ==
  ASSUME NEW S \in SUBSET Messages, IsFiniteSet(S)
  PROVE  /\ SetToSeq(S) \in Seq(Messages) /\ Range(SetToSeq(S)) = S
         /\ \A k, l \in DOMAIN SetToSeq(S) :
              SetToSeq(S)[k] = SetToSeq(S)[l] => k = l
<1>1. PICK k : k = Cardinality(S) /\ k \in Nat /\ ExistsBijection(1 .. k, S)
  BY FS_CardinalityType
<1>2. PICK f \in [1 .. k -> S] : IsInjective(f)
  BY <1>1 DEF ExistsBijection, Bijection, Injection, IsInjective
<1>3. PICK g : g = SetToSeq(S)
  OBVIOUS
<1>4. g \in [1 .. k -> S] /\ IsInjective(g)
  BY <1>1, <1>2, <1>3 DEF SetToSeq
<1>5. g \in Seq(Messages)
  BY <1>1, <1>4
<1>6. Range(g) = S
  <2>1. Range(g) \subseteq S
    BY <1>4 DEF Range
  <2>2. IsFiniteSet(1 .. k) /\ Cardinality(1 .. k) = k
    BY <1>1, FS_Interval
  <2>3. IsFiniteSet(Range(g)) /\ Cardinality(Range(g)) = k
    <3>1. ExistsBijection(1 .. k, Range(g))
      <4>1. g \in [1 .. k -> Range(g)]
        BY <1>4 DEF Range
      <4>2. g \in Bijection(1 .. k, Range(g))
        BY <1>4, <4>1 DEF Bijection, Injection, Surjection, IsInjective, Range
      <4> QED
        BY <4>2 DEF ExistsBijection
    <3> QED
      BY <2>2, <3>1, FS_Bijection
  <2> QED
    BY <1>1, <2>1, <2>3, FS_Subset
<1> QED
  BY <1>3, <1>4, <1>5, <1>6 DEF IsInjective


-----------------------------------------------------------------------------
(* What one station and its messages may do, seen from all stations. *)

LEMMA Larger ==
  ASSUME NEW T, IsFiniteSet(T), NEW S \in SUBSET T
  PROVE  /\ IsFiniteSet(S) /\ Cardinality(S) \in Nat
         /\ Cardinality(T) \in Nat /\ Cardinality(S) <= Cardinality(T)
BY FS_Subset, FS_CardinalityType

LEMMA LargerByOne ==
  ASSUME NEW T, IsFiniteSet(T), NEW S \in SUBSET T, NEW x \in T, x \notin S
  PROVE  /\ Cardinality(S) \in Nat /\ Cardinality(T) \in Nat
         /\ Cardinality(S) + 1 <= Cardinality(T)
<1>1. IsFiniteSet(T \ {x}) /\ Cardinality(T \ {x}) = Cardinality(T) - 1
  BY FS_RemoveElement
<1>2. S \in SUBSET (T \ {x})
  OBVIOUS
<1>3. Cardinality(S) \in Nat /\ Cardinality(S) <= Cardinality(T \ {x})
  BY ONLY <1>1, <1>2, Larger
<1>4. Cardinality(T) \in Nat
  BY Larger
<1> QED
  BY <1>1, <1>3, <1>4

LEMMA StationsFinite ==
  /\ IsFiniteSet(MSSs) /\ Cardinality(MSSs) = n
  /\ \A i \in MSSs : IsFiniteSet(MSSs \ {i}) /\ Cardinality(MSSs \ {i}) = n - 1
<1>1. IsFiniteSet(1 .. n) /\ Cardinality(1 .. n) = n
  BY FS_Interval, ConsensusAssumption
<1>2. IsFiniteSet(MSSs) /\ Cardinality(MSSs) = n
  BY <1>1 DEF MSSs
<1> QED
  BY <1>2, FS_RemoveElement

LEMMA HostsFinite == IsFiniteSet(MHs)
BY FS_Interval, ConsensusAssumption DEF MHs

LEMMA CoordinatorType == \A r \in Rounds : r \in Nat /\ findCoordinator(r) \in MSSs
<1> SUFFICES ASSUME NEW r \in Rounds PROVE r \in Nat /\ (r % n) + 1 \in 1 .. n
  BY DEF findCoordinator, MSSs
<1>1. r \in Nat /\ n \in Nat \ {0}
  BY ConsensusAssumption DEF Rounds
<1> QED
  BY <1>1

LEMMA FewerAnswers ==
  ASSUME NEW M, NEW N, NEW i \in MSSs, NEW r,
         \A m \in N : Token(m) => \E l \in M : Token(l) /\ Slot(l) = Slot(m)
  PROVE  /\ Cardinality(Answered(M, i, r)) \in Nat
         /\ Cardinality(Answered(N, i, r)) \in Nat
         /\ Cardinality(Answered(M, i, r)) <= Cardinality(Answered(N, i, r))
<1>1. Answered(M, i, r) \in SUBSET Answered(N, i, r)
  BY DEF Answered
<1>2. Answered(N, i, r) \in SUBSET (MSSs \ {i})
  BY DEF Answered
<1>3. IsFiniteSet(Answered(N, i, r))
  BY <1>2, StationsFinite, Larger
<1> QED
  BY <1>1, <1>3, Larger

LEMMA MoreFree ==
  ASSUME NEW M, NEW N, NEW j, NEW k \in Nat,
         \A m \in N : m.type = "NEW_EST" => m \in M
  PROVE  /\ Cardinality(Free(M, j, k)) \in Nat /\ Cardinality(Free(N, j, k)) \in Nat
         /\ Cardinality(Free(M, j, k)) <= Cardinality(Free(N, j, k))
         /\ Cardinality(Free(N, j, k)) <= k
<1>1. Free(M, j, k) \in SUBSET Free(N, j, k)
  BY DEF Free
<1>2. Free(N, j, k) \in SUBSET (1 .. k)
  BY DEF Free
<1>3. IsFiniteSet(1 .. k) /\ Cardinality(1 .. k) = k
  BY FS_Interval
<1>4. IsFiniteSet(Free(N, j, k)) /\ Cardinality(Free(N, j, k)) <= k
  BY <1>2, <1>3, Larger
<1> QED
  BY <1>1, <1>4, Larger

LEMMA FreeBound ==
  ASSUME NEW M, NEW j, NEW k \in Nat
  PROVE  Cardinality(Free(M, j, k)) \in Nat /\ Cardinality(Free(M, j, k)) <= k
BY MoreFree

(* A station goes on: it does not fall back to where it can propose. *)
Onward(t, s) ==
  s.roundR > t.roundR \/ (s.roundR = t.roundR /\ (s.roundPhase = 2 => t.roundPhase = 2))

LEMMA PastStays ==
  ASSUME NEW F \in [MSSs -> Stations], NEW i \in MSSs, NEW s \in Stations,
         Onward(F[i], s)
  PROVE  \A r \in Rounds : Past(F, r) => Past([F EXCEPT ![i] = s], r)
<1> SUFFICES ASSUME NEW r \in Rounds, Past(F, r)
             PROVE  Past([F EXCEPT ![i] = s], r)
  OBVIOUS
<1>1. PICK j \in MSSs : j = findCoordinator(r)
  BY CoordinatorType
<1>2. CASE j # i
  BY <1>1, <1>2 DEF Past
<1>3. CASE j = i
  <2>1. r \in Int /\ s.roundR \in Int /\ F[i].roundR \in Int
    BY CoordinatorType DEF Stations, Rounds
  <2>2. F[i].roundR > r \/ (F[i].roundR = r /\ F[i].roundPhase # 2)
    BY <1>1, <1>3 DEF Past
  <2>3. s.roundR > r \/ (s.roundR = r /\ s.roundPhase # 2)
    BY <2>1, <2>2 DEF Onward
  <2> QED
    BY <1>1, <1>3, <2>3 DEF Past
<1> QED
  BY <1>2, <1>3

LEMMA GoodStays ==
  ASSUME NEW F, NEW M, Good(F, M), NEW i \in MSSs, NEW s \in Stations,
         NEW N \in SUBSET Messages, Onward(F[i], s), Turned(i, s),
         \A m \in N : Token(m) => m \in M,
         s.nbPositiveAck = F[i].nbPositiveAck, s.nbNegativeAck = F[i].nbNegativeAck,
         s.decidedState \/ (\E m \in N : m.type = "DECIDE") => HasMajority(F)
  PROVE  Good([F EXCEPT ![i] = s], N)
<1>1. PICK G : G = [F EXCEPT ![i] = s]
  OBVIOUS
<1>2. F \in [MSSs -> Stations]
  BY DEF Good, Typed
<1>3. /\ G \in [MSSs -> Stations] /\ G[i] = s
      /\ \A j \in MSSs : j # i => G[j] = F[j]
  BY <1>1, <1>2
<1>4. Typed(G, N) /\ \A j \in MSSs : Turned(j, G[j])
  BY <1>3 DEF Typed, Good
<1>5. \A r \in Rounds : Past(F, r) => Past(G, r)
  BY <1>1, <1>2, PastStays
<1>6. \A m \in N : m.type \in {"NEW_EST", "ACK"} => m \in M /\ m.r \in Rounds
  BY DEF Token, Messages, Decides, Estimates, NewEstimates, Acks, Quiet
<1>7. Proposals(G, N)
  <2>1. Proposals(F, M)
    BY DEF Good
  <2> QED
    BY <1>5, <1>6, <2>1 DEF Proposals
<1>8. \A j \in MSSs : /\ G[j].nbPositiveAck = F[j].nbPositiveAck
                      /\ G[j].nbNegativeAck = F[j].nbNegativeAck
  BY <1>3
<1>9. Counted(G, N)
  <2>1. Counted(F, M)
    BY DEF Good
  <2>2. ASSUME NEW m \in N, m.type = "ACK"
        PROVE  /\ m.to = findCoordinator(m.r) /\ m.from # m.to
               /\ m.r > 0 /\ Past(G, m.r)
    BY <1>5, <1>6, <2>1, <2>2 DEF Counted
  <2>3. ASSUME NEW j \in MSSs, NEW r \in Rounds,
               NEW k, k = F[j].nbPositiveAck[r] + F[j].nbNegativeAck[r]
        PROVE  /\ k <= Cardinality(Answered(N, j, r))
               /\ k > 0 => j = findCoordinator(r) /\ Past(G, r)
    <3>1. /\ k <= Cardinality(Answered(M, j, r))
          /\ k > 0 => j = findCoordinator(r) /\ Past(G, r)
      BY <1>5, <2>1, <2>3 DEF Counted
    <3>2. k \in Nat
      BY <1>2, <2>3 DEF Stations
    <3>3. /\ Cardinality(Answered(M, j, r)) \in Nat
          /\ Cardinality(Answered(N, j, r)) \in Nat
          /\ Cardinality(Answered(M, j, r)) <= Cardinality(Answered(N, j, r))
      BY FewerAnswers
    <3> QED
      BY <3>1, <3>2, <3>3
  <2> QED
    BY <1>8, <2>2, <2>3 DEF Counted
<1>10. Unanimous(G, N)
  <2>1. Unanimous(F, M)
    BY DEF Good
  <2>2. \A r \in Rounds : /\ Positive(G, N, r) => Positive(F, M, r)
                          /\ Negative(G, N, r) => Negative(F, M, r)
    BY <1>6, <1>8 DEF Positive, Negative
  <2> QED
    BY <2>1, <2>2 DEF Unanimous
<1>11. Grounded(G, N)
  <2>1. Grounded(F, M)
    BY DEF Good
  <2>2. HasMajority(F) => HasMajority(G)
    BY <1>8 DEF HasMajority
  <2>3. (\E j \in MSSs : G[j].decidedState) => HasMajority(F)
    BY <1>3, <2>1 DEF Grounded
  <2> QED
    BY <2>2, <2>3 DEF Grounded
<1> QED
  BY <1>1, <1>4, <1>7, <1>9, <1>10, <1>11 DEF Good

LEMMA FreedStation ==
  ASSUME NEW M, NEW N, \A m \in N : m.type = "NEW_EST" => m \in M,
         NEW K \in Rounds, NEW L \in Rounds, NEW V, NEW j \in MSSs,
         NEW s \in Stations, LockedStation(j, s, M, K, L, V)
  PROVE  LockedStation(j, s, N, K, L, V)
<1>1. K \in Nat /\ L \in Nat /\ Turns(s) \in Nat
  BY CoordinatorType DEF Turns, Stations
<1>2. /\ Cardinality(Free(M, j, K)) \in Nat /\ Cardinality(Free(N, j, K)) \in Nat
      /\ Cardinality(Free(M, j, K)) <= Cardinality(Free(N, j, K))
      /\ Cardinality(Free(M, j, L)) \in Nat /\ Cardinality(Free(N, j, L)) \in Nat
      /\ Cardinality(Free(M, j, L)) <= Cardinality(Free(N, j, L))
  BY <1>1, MoreFree
<1>3. Turns(s) <= 1 + Cardinality(Free(N, j, K))
  BY <1>1, <1>2 DEF LockedStation
<1>4. s.ts = 0 => Turns(s) <= 1 + Cardinality(Free(N, j, L))
  BY <1>1, <1>2 DEF LockedStation
<1> QED
  BY <1>3, <1>4 DEF LockedStation

LEMMA LockedStays ==
  ASSUME NEW F \in [MSSs -> Stations], NEW M, NEW i \in MSSs, NEW s \in Stations,
         NEW N, Onward(F[i], s),
         \A m \in N : m.type = "NEW_EST" => m \in M,
         NEW K \in Rounds, NEW L \in Rounds, NEW V, LockedBy(F, M, K, L, V),
         LockedStation(i, s, M, K, L, V),
         \A m \in N : m \in M \/ LockedMessage(m, K, L, V)
  PROVE  LockedBy([F EXCEPT ![i] = s], N, K, L, V)
<1>1. PICK G : G = [F EXCEPT ![i] = s]
  OBVIOUS
<1>2. \A r \in 1 .. K : r \in Rounds
  BY CoordinatorType, ConsensusAssumption DEF Rounds
<1>3. \A r \in 1 .. K : Past(G, r)
  BY <1>1, <1>2, PastStays DEF LockedBy
<1>4. \A m \in N : LockedMessage(m, K, L, V)
  BY DEF LockedBy
<1>5. ASSUME NEW j \in MSSs PROVE LockedStation(j, G[j], N, K, L, V)
  <2>1. G[j] \in Stations /\ LockedStation(j, G[j], M, K, L, V)
    BY <1>1 DEF LockedBy
  <2> QED
    BY <2>1, FreedStation
<1> QED
  BY <1>1, <1>3, <1>4, <1>5 DEF LockedBy

-----------------------------------------------------------------------------
(* A handler of station i, which starts from the fields F of the stations   *)
(* and the rest q, b of the messages.  c is what it has done so far, and M  *)
(* holds the messages, with the one that is handled at first.  free means   *)
(* that a station that had decided was started again.                       *)
Joined(q, x) == q \o x
Contexts == [st : Stations, out : Seq(Messages)]
Moved(F, i, c) == [F EXCEPT ![i] = c.st]

Ok(F, q, b, i, free, c, M) ==
  /\ c \in Contexts
  /\ Unique(Joined(q, c.out), b) /\ Flying(Joined(q, c.out), b) \subseteq M
  /\ Good(Moved(F, i, c), M)
  /\ free \/ Locked(Moved(F, i, c), M)

Done(F, q, b, i, free, c) == Ok(F, q, b, i, free, c, Flying(Joined(q, c.out), b))

LEMMA Outbox ==
  ASSUME NEW q \in Seq(Messages), NEW b, NEW o \in Seq(Messages), Unique(Joined(q, o), b),
         NEW x \in Seq(Messages),
         \A k, l \in DOMAIN x : Same(x[k], x[l]) => k = l,
         \A l \in Range(x), m \in Flying(Joined(q, o), b) : ~Same(l, m)
  PROVE  /\ Joined(o, x) \in Seq(Messages) /\ Unique(Joined(q, Joined(o, x)), b)
         /\ Flying(Joined(q, Joined(o, x)), b) = Flying(Joined(q, o), b) \cup Range(x)
<1>1. /\ Joined(Joined(q, o), x) = Joined(q, Joined(o, x))
      /\ Joined(o, x) \in Seq(Messages)
  BY DEF Joined
<1>2. Joined(q, o) \in Seq(Messages)
  BY DEF Joined
<1>3. /\ Unique(Joined(Joined(q, o), x), b)
      /\ Flying(Joined(Joined(q, o), x), b) = Flying(Joined(q, o), b) \cup Range(x)
  BY <1>2, Sent DEF Joined
<1> QED
  BY <1>1, <1>3

(* Most of what a handler does: the fields of the station become s, and S   *)
(* is sent, where nothing is a proposal or the answer to one.               *)
Allowed(F, i, free, c, M, s, S) ==
  /\ s \in Stations /\ S \subseteq Messages /\ \A m \in S : ~Token(m)
  /\ Onward(c.st, s) /\ Turned(i, s)
  /\ s.nbPositiveAck = c.st.nbPositiveAck /\ s.nbNegativeAck = c.st.nbNegativeAck
  /\ s.decidedState \/ (\E m \in S : m.type = "DECIDE")
       => HasMajority(Moved(F, i, c))
  /\ \A K, L \in Rounds, V \in SUBSET MHs :
       ~free /\ LockedBy(Moved(F, i, c), M, K, L, V) =>
         /\ LockedStation(i, s, M, K, L, V)
         /\ \A m \in S : LockedMessage(m, K, L, V)

LEMMA Handled ==
  ASSUME NEW F \in [MSSs -> Stations], NEW q \in Seq(Messages), NEW b,
         NEW i \in MSSs, NEW free, NEW c, NEW M,
         Ok(F, q, b, i, free, c, M), NEW s, NEW x \in Seq(Messages),
         Allowed(F, i, free, c, M, s, Range(x))
  PROVE  Done(F, q, b, i, free, [st |-> s, out |-> Joined(c.out, x)])
<1> PICK d : d = [st |-> s, out |-> Joined(c.out, x)]
  OBVIOUS
<1> USE DEF Allowed
<1>1. PICK E, N : E = Moved(F, i, c) /\ N = Flying(Joined(q, c.out), b) \cup Range(x)
  OBVIOUS
<1>2. c \in Contexts /\ Unique(Joined(q, c.out), b) /\ Flying(Joined(q, c.out), b) \subseteq M
  BY DEF Ok
<1>3. E \in [MSSs -> Stations] /\ E[i] = c.st
  BY <1>1, <1>2 DEF Moved, Contexts
<1>4. [E EXCEPT ![i] = s] = Moved(F, i, d)
  BY <1>1 DEF Moved
<1>5. /\ d.out \in Seq(Messages) /\ Unique(Joined(q, d.out), b)
      /\ Flying(Joined(q, d.out), b) = N
  <2> PICK o \in Seq(Messages) : o = c.out
    BY <1>2 DEF Contexts
  <2>1. \A k \in DOMAIN x : x[k] \in Range(x)
    BY DEF Range
  <2>2. \A k, l \in DOMAIN x : Same(x[k], x[l]) => k = l
    BY <2>1 DEF Same
  <2>3. \A l \in Range(x), m \in Flying(Joined(q, o), b) : ~Same(l, m)
    BY DEF Same
  <2>4. /\ Joined(o, x) \in Seq(Messages) /\ Unique(Joined(q, Joined(o, x)), b)
        /\ Flying(Joined(q, Joined(o, x)), b) = Flying(Joined(q, o), b) \cup Range(x)
    BY <1>2, <2>2, <2>3, Outbox
  <2> QED
    BY <1>1, <2>4
<1>6. Good(E, M)
  BY <1>1 DEF Ok
<1>7. /\ N \in SUBSET Messages /\ \A m \in N : Token(m) => m \in M
      /\ \A m \in N : m.type = "NEW_EST" => m \in M
      /\ \A m \in N : m \in M \/ m \in Range(x)
  <2>1. M \subseteq Messages
    BY <1>6 DEF Good, Typed
  <2>2. Range(x) \subseteq Messages
    BY DEF Range
  <2> QED
    BY <1>1, <1>2, <2>1, <2>2 DEF Token
<1>8. Good([E EXCEPT ![i] = s], N)
  <2>1. (\E m \in M : m.type = "DECIDE") => HasMajority(E)
    BY <1>6 DEF Good, Grounded
  <2>2. s.decidedState \/ (\E m \in N : m.type = "DECIDE") => HasMajority(E)
    BY <1>1, <1>7, <2>1
  <2> QED
    BY <1>3, <1>6, <1>7, <2>2, GoodStays
<1>9. free \/ Locked([E EXCEPT ![i] = s], N)
  <2> SUFFICES ASSUME ~free PROVE Locked([E EXCEPT ![i] = s], N)
    OBVIOUS
  <2>1. PICK K \in Rounds, L \in Rounds, V \in SUBSET MHs : LockedBy(E, M, K, L, V)
    BY <1>1 DEF Ok, Locked
  <2>2. /\ LockedStation(i, s, M, K, L, V)
        /\ \A m \in Range(x) : LockedMessage(m, K, L, V)
    BY <1>1, <2>1
  <2>3. LockedBy([E EXCEPT ![i] = s], N, K, L, V)
    BY <1>3, <1>7, <2>1, <2>2, LockedStays
  <2> QED
    BY <2>3 DEF Locked
<1> QED
  BY <1>4, <1>5, <1>8, <1>9 DEF Done, Ok, Contexts

LEMMA HandledNone ==
  ASSUME NEW F \in [MSSs -> Stations], NEW q \in Seq(Messages), NEW b,
         NEW i \in MSSs, NEW free, NEW c, NEW M,
         Ok(F, q, b, i, free, c, M), NEW s, Allowed(F, i, free, c, M, s, {})
  PROVE  Done(F, q, b, i, free, [c EXCEPT !.st = s])
<1>1. <<>> \in Seq(Messages) /\ Range(<<>>) = {}
  BY DEF Range
<1>2. c \in Contexts
  BY DEF Ok
<1>3. [c EXCEPT !.st = s] = [st |-> s, out |-> c.out]
  BY <1>2 DEF Contexts
<1>4. c.out = Joined(c.out, <<>>)
  <2>1. c.out \in Seq(Messages)
    BY <1>2 DEF Contexts
  <2> QED
    BY <2>1 DEF Joined
<1>5. Done(F, q, b, i, free, [st |-> s, out |-> Joined(c.out, <<>>)])
  BY <1>1, Handled
<1> QED
  BY <1>3, <1>4, <1>5

LEMMA SendIs ==
  ASSUME NEW c \in Contexts, NEW s, NEW m \in Messages
  PROVE  Send([c EXCEPT !.st = s], m) = [st |-> s, out |-> Joined(c.out, <<m>>)]
<1>1. PICK e : e = [c EXCEPT !.st = s]
  OBVIOUS
<1>2. e = [st |-> s, out |-> c.out]
  BY <1>1 DEF Contexts
<1>3. Send(e, m) = [st |-> s, out |-> Append(c.out, m)]
  BY <1>2 DEF Send
<1>4. Append(c.out, m) = Joined(c.out, <<m>>)
  <2>1. c.out \in Seq(Messages)
    BY DEF Contexts
  <2> QED
    BY <2>1 DEF Joined
<1> QED
  BY <1>1, <1>3, <1>4

LEMMA SendAllIs ==
  ASSUME NEW c \in Contexts, NEW s, NEW S
  PROVE  SendAll([c EXCEPT !.st = s], S)
           = [st |-> s, out |-> Joined(c.out, SetToSeq(S))]
<1>1. PICK e, z : e = [c EXCEPT !.st = s] /\ z = Joined(c.out, SetToSeq(S))
  OBVIOUS
<1>2. e = [st |-> s, out |-> c.out]
  BY <1>1 DEF Contexts
<1>3. SendAll(e, S) = [e EXCEPT !.out = z]
  <2>1. e.out \o SetToSeq(S) = z
    <3>1. e.out = c.out
      BY <1>2
    <3> QED
      BY <1>1, <3>1 DEF Joined
  <2> QED
    BY <2>1 DEF SendAll
<1>4. [e EXCEPT !.out = z] = [st |-> s, out |-> z]
  BY <1>2
<1> QED
  BY <1>1, <1>3, <1>4

LEMMA HandledOne ==
  ASSUME NEW F \in [MSSs -> Stations], NEW q \in Seq(Messages), NEW b,
         NEW i \in MSSs, NEW free, NEW c, NEW M,
         Ok(F, q, b, i, free, c, M), NEW s, NEW m \in Messages,
         Allowed(F, i, free, c, M, s, {m})
  PROVE  Done(F, q, b, i, free, Send([c EXCEPT !.st = s], m))
<1>1. <<m>> \in Seq(Messages) /\ Range(<<m>>) = {m}
  BY DEF Range
<1>2. Send([c EXCEPT !.st = s], m) = [st |-> s, out |-> Joined(c.out, <<m>>)]
  BY SendIs DEF Ok
<1>3. Done(F, q, b, i, free, [st |-> s, out |-> Joined(c.out, <<m>>)])
  BY <1>1, Handled
<1> QED
  BY <1>2, <1>3

LEMMA HandledAll ==
  ASSUME NEW F \in [MSSs -> Stations], NEW q \in Seq(Messages), NEW b,
         NEW i \in MSSs, NEW free, NEW c, NEW M,
         Ok(F, q, b, i, free, c, M), NEW s, NEW S \in SUBSET Messages,
         IsFiniteSet(S), Allowed(F, i, free, c, M, s, S)
  PROVE  Done(F, q, b, i, free, SendAll([c EXCEPT !.st = s], S))
<1>1. SetToSeq(S) \in Seq(Messages) /\ Range(SetToSeq(S)) = S
  BY SetSent
<1>2. SendAll([c EXCEPT !.st = s], S)
        = [st |-> s, out |-> Joined(c.out, SetToSeq(S))]
  BY SendAllIs DEF Ok
<1> QED
  BY <1>1, <1>2, Handled

-----------------------------------------------------------------------------
(* The phases. *)

LEMMA HasStation ==
  ASSUME NEW F \in [MSSs -> Stations], NEW q \in Seq(Messages), NEW b,
         NEW i \in MSSs, NEW free, NEW c, NEW M,
         Ok(F, q, b, i, free, c, M)
  PROVE  /\ c.st \in Stations /\ c.out \in Seq(Messages) /\ Turned(i, c.st)
         /\ Moved(F, i, c) \in [MSSs -> Stations] /\ M \subseteq Messages
         /\ c.st.decidedState => HasMajority(Moved(F, i, c))
         /\ \A K, L \in Rounds, V \in SUBSET MHs :
              LockedBy(Moved(F, i, c), M, K, L, V) =>
                LockedStation(i, c.st, M, K, L, V)
<1>1. c.st \in Stations /\ c.out \in Seq(Messages)
  BY DEF Ok, Contexts
<1>2. Moved(F, i, c) \in [MSSs -> Stations] /\ Moved(F, i, c)[i] = c.st
  BY <1>1 DEF Moved
<1>3. Good(Moved(F, i, c), M)
  BY DEF Ok
<1> QED
  BY <1>1, <1>2, <1>3 DEF Good, Typed, Grounded, LockedBy

LEMMA MessageTypes ==
  ASSUME NEW i \in MSSs, NEW s \in Stations
  PROVE  /\ \A vals \in SUBSET MHs : EstimateMessage(i, s, vals) \in Messages
         /\ \A j \in MSSs : NewEstimateMessage(i, s, j) \in Messages
         /\ \A j \in MSSs : DecideMessage(i, s, j) \in Messages
         /\ \A j \in MSSs, r \in Rounds, positive \in BOOLEAN :
              AckMessage(i, positive, r, j) \in Messages
<1>1. s.roundR \in Rounds /\ findCoordinator(s.roundR) \in MSSs
  BY CoordinatorType DEF Stations
<1>2. \A vals \in SUBSET MHs : EstimateMessage(i, s, vals) \in Messages
  BY <1>1 DEF EstimateMessage, Messages, Estimates, Stations
<1>3. \A j \in MSSs : NewEstimateMessage(i, s, j) \in Messages
  BY <1>1 DEF NewEstimateMessage, Messages, NewEstimates, Stations
<1>4. \A j \in MSSs : DecideMessage(i, s, j) \in Messages
  BY DEF DecideMessage, Messages, Decides, Stations
<1>5. \A j \in MSSs, r \in Rounds, positive \in BOOLEAN :
        AckMessage(i, positive, r, j) \in Messages
  BY DEF AckMessage, Messages, Acks
<1> QED
  BY <1>2, <1>3, <1>4, <1>5

(* The first part of StartRound: the station enters the next round. *)
Entered(i, s) ==
  [s EXCEPT !.roundR = s.roundR + 1,
            !.v = IF s.ts = 0 THEN s.newV ELSE @,
            !.roundPhase = IF i = findCoordinator(s.roundR + 1) THEN 2 ELSE 3]

LEMMA EnteredFields ==
  ASSUME NEW i \in MSSs, NEW t \in Stations, t.roundR <= MaxRound,
         NEW s, s = Entered(i, t)
  PROVE  /\ s \in Stations /\ s.roundR = t.roundR + 1 /\ s.roundPhase \in {2, 3}
         /\ s.roundPhase = 2 => i = findCoordinator(s.roundR)
         /\ s.v = (IF t.ts = 0 THEN t.newV ELSE t.v)
         /\ s.decidedState = t.decidedState /\ s.ts = t.ts /\ s.p = t.p
         /\ s.newV = t.newV /\ s.endCollect = t.endCollect /\ s.log = t.log
         /\ s.nbPositiveAck = t.nbPositiveAck /\ s.nbNegativeAck = t.nbNegativeAck
<1>1. t.roundR + 1 \in Rounds
  <2>1. t.roundR \in Rounds
    BY DEF Stations
  <2> QED
    BY <2>1, ConsensusAssumption DEF Rounds
<1>2. PICK v, phase : /\ v = IF t.ts = 0 THEN t.newV ELSE t.v
                     /\ phase = IF i = findCoordinator(t.roundR + 1) THEN 2 ELSE 3
  OBVIOUS
<1>3. s = [t EXCEPT !.roundR = t.roundR + 1, !.v = v, !.roundPhase = phase]
  BY <1>2 DEF Entered, Stations
<1>4. v \in SUBSET MHs /\ phase \in {2, 3}
  BY <1>2 DEF Stations
<1>5. s \in Stations
  <2>1. phase \in 0 .. 4
    BY <1>4
  <2>2. PICK a : a = [t EXCEPT !.roundR = t.roundR + 1]
    OBVIOUS
  <2>3. PICK d : d = [a EXCEPT !.v = v]
    OBVIOUS
  <2>4. a \in Stations
    BY <1>1, <2>2 DEF Stations
  <2>5. d \in Stations
    BY <1>4, <2>3, <2>4 DEF Stations
  <2>6. [d EXCEPT !.roundPhase = phase] \in Stations
    BY <2>1, <2>5 DEF Stations
  <2> QED
    BY <1>3, <2>2, <2>3, <2>6 DEF Stations
<1>6. /\ s.roundR = t.roundR + 1 /\ s.roundPhase = phase /\ s.v = v
      /\ s.decidedState = t.decidedState /\ s.ts = t.ts /\ s.p = t.p
      /\ s.newV = t.newV /\ s.endCollect = t.endCollect /\ s.log = t.log
      /\ s.nbPositiveAck = t.nbPositiveAck /\ s.nbNegativeAck = t.nbNegativeAck
  BY <1>3 DEF Stations
<1> QED
  BY <1>2, <1>4, <1>5, <1>6

LEMMA Enters ==
  ASSUME NEW F \in [MSSs -> Stations], NEW q \in Seq(Messages), NEW b,
         NEW i \in MSSs, NEW free, NEW c, NEW M,
         Ok(F, q, b, i, free, c, M), c.st.roundPhase = 1,
         NEW s, s = Entered(i, c.st)
  PROVE  Done(F, q, b, i, free,
              Send([c EXCEPT !.st = s], EstimateMessage(i, s, s.v)))
<1>1. PICK t, m : t = c.st /\ m = EstimateMessage(i, s, s.v)
  OBVIOUS
<1>2. /\ t \in Stations /\ Turned(i, t) /\ M \subseteq Messages
      /\ t.decidedState => HasMajority(Moved(F, i, c))
      /\ \A K, L \in Rounds, V \in SUBSET MHs :
           LockedBy(Moved(F, i, c), M, K, L, V) =>
             LockedStation(i, t, M, K, L, V)
  BY <1>1, HasStation
<1>3. t.roundR <= MaxRound /\ t.roundPhase = 1
  BY <1>1, <1>2 DEF Turned
<1>4. /\ s \in Stations /\ s.roundR = t.roundR + 1 /\ s.roundPhase \in {2, 3}
      /\ s.roundPhase = 2 => i = findCoordinator(s.roundR)
      /\ s.v = (IF t.ts = 0 THEN t.newV ELSE t.v)
      /\ s.decidedState = t.decidedState /\ s.ts = t.ts /\ s.p = t.p
      /\ s.newV = t.newV /\ s.endCollect = t.endCollect /\ s.log = t.log
      /\ s.nbPositiveAck = t.nbPositiveAck /\ s.nbNegativeAck = t.nbNegativeAck
  BY <1>1, <1>2, <1>3, EnteredFields
<1>5. /\ m \in Messages /\ m.type = "ESTIMATE" /\ m.ts = s.ts /\ m.newV = s.v
      /\ m.p = s.p /\ m.r = s.roundR
  <2>1. s.v \in SUBSET MHs
    BY <1>4 DEF Stations
  <2> QED
    BY <1>1, <1>4, <2>1, MessageTypes DEF EstimateMessage
<1>6. t.roundR \in Nat /\ t.ts \in Nat
  BY <1>2 DEF Stations, Rounds
<1>7. ASSUME NEW K \in Rounds, NEW L \in Rounds, NEW V \in SUBSET MHs,
             LockedBy(Moved(F, i, c), M, K, L, V)
      PROVE  LockedStation(i, s, M, K, L, V) /\ LockedMessage(m, K, L, V)
  <2>1. LockedStation(i, t, M, K, L, V)
    BY <1>2, <1>7
  <2>2. ~t.decidedState /\ Turns(s) = Turns(t) /\ s.roundR = Turns(t)
    BY <1>3, <1>4, <1>6, <2>1 DEF LockedStation, Turns
  <2>3. LockedStation(i, s, M, K, L, V)
    BY <1>4, <1>6, <2>1, <2>2 DEF LockedStation
  <2>4. L \in Nat /\ Cardinality(Free(M, i, L)) \in Nat
        /\ Cardinality(Free(M, i, L)) <= L
    BY FreeBound, CoordinatorType
  <2>5. m.ts = 0 => m.r <= L + 1
    BY <1>4, <1>5, <1>6, <2>1, <2>2, <2>4 DEF LockedStation
  <2>6. m.ts # 0 => m.newV = V /\ L < K
    BY <1>4, <1>5, <1>6, <2>1 DEF LockedStation
  <2>7. K = L => m.p \subseteq m.newV
    <3>1. K = L => t.ts = 0
      BY <1>6, <2>1, <2>4 DEF LockedStation
    <3> QED
      BY <1>4, <1>5, <2>1, <3>1 DEF LockedStation
  <2> QED
    BY <1>5, <2>3, <2>5, <2>6, <2>7 DEF LockedMessage
<1>8. Onward(t, s)
  BY <1>4, <1>6 DEF Onward
<1>9. Turned(i, s)
  BY <1>4, <1>6 DEF Turned
<1>10. Allowed(F, i, free, c, M, s, {m})
  <2>1. ~Token(m) /\ m.type # "DECIDE"
    BY <1>5 DEF Token
  <2> QED
    BY <1>1, <1>2, <1>4, <1>5, <1>7, <1>8, <1>9, <2>1 DEF Allowed
<1> QED
  BY <1>1, <1>5, <1>10, HandledOne

(* Nothing of the round that a coordinator is in is on its way, or counted, *)
(* before it proposes.                                                      *)
LEMMA Unproposed ==
  ASSUME NEW F, NEW M, Good(F, M), NEW i \in MSSs, F[i].roundPhase = 2,
         NEW R, R = F[i].roundR
  PROVE  /\ R \in Rounds /\ R > 0 /\ i = findCoordinator(R) /\ ~Past(F, R)
         /\ \A m \in M : Token(m) => m.r # R
         /\ \A j \in MSSs : F[j].nbPositiveAck[R] = 0 /\ F[j].nbNegativeAck[R] = 0
<1>1. F[i] \in Stations /\ Turned(i, F[i])
  BY DEF Good, Typed
<1>2. R \in Rounds /\ R \in Int /\ R > 0 /\ i = findCoordinator(R)
  BY <1>1, CoordinatorType DEF Turned, Stations
<1>3. ~Past(F, R)
  BY <1>2 DEF Past
<1>4. \A m \in M : Token(m) => m.r # R
  BY <1>3 DEF Good, Proposals, Counted, Token
<1>5. ASSUME NEW j \in MSSs
      PROVE  F[j].nbPositiveAck[R] = 0 /\ F[j].nbNegativeAck[R] = 0
  <2>1. ~(F[j].nbPositiveAck[R] + F[j].nbNegativeAck[R] > 0)
    BY <1>2, <1>3 DEF Good, Counted
  <2>2. F[j].nbPositiveAck[R] \in Nat /\ F[j].nbNegativeAck[R] \in Nat
    BY <1>2 DEF Good, Typed, Stations
  <2> QED
    BY <2>1, <2>2
<1> QED
  BY <1>2, <1>3, <1>4, <1>5

(* The coordinator enters phase 3 with the set that it proposes. *)
Proposed(t, best) == [t EXCEPT !.v = best, !.roundPhase = 3]
ToAll(i, s) == {NewEstimateMessage(i, s, j) : j \in MSSs}

LEMMA Proposal ==
  ASSUME NEW i \in MSSs, NEW t \in Stations, t.roundPhase = 2,
         NEW best \in SUBSET MHs,
         NEW s, s = Proposed(t, best)
  PROVE  /\ s \in Stations /\ s.roundPhase = 3 /\ s.v = best /\ s.roundR = t.roundR
         /\ s.decidedState = t.decidedState /\ s.ts = t.ts /\ s.p = t.p
         /\ s.newV = t.newV /\ s.endCollect = t.endCollect /\ s.log = t.log
         /\ s.nbPositiveAck = t.nbPositiveAck /\ s.nbNegativeAck = t.nbNegativeAck
         /\ \A j \in MSSs : NewEstimateMessage(i, s, j) \in Messages
         /\ \A j, m : m = NewEstimateMessage(i, s, j) =>
              /\ m.type = "NEW_EST" /\ m.from = i /\ m.to = j
              /\ m.r = t.roundR /\ m.v = best /\ m.p = t.p
              /\ m.endCollect = t.endCollect
<1>1. s \in Stations
  <2>1. PICK a : a = [t EXCEPT !.v = best]
    OBVIOUS
  <2>2. a \in Stations
    BY <2>1 DEF Stations
  <2>3. [a EXCEPT !.roundPhase = 3] \in Stations
    BY <2>2 DEF Stations
  <2> QED
    BY <2>1, <2>3 DEF Stations, Proposed
<1>2. /\ s.roundPhase = 3 /\ s.v = best /\ s.roundR = t.roundR
      /\ s.decidedState = t.decidedState /\ s.ts = t.ts /\ s.p = t.p
      /\ s.newV = t.newV /\ s.endCollect = t.endCollect /\ s.log = t.log
      /\ s.nbPositiveAck = t.nbPositiveAck /\ s.nbNegativeAck = t.nbNegativeAck
  BY DEF Stations, Proposed
<1>3. \A j \in MSSs : NewEstimateMessage(i, s, j) \in Messages
  BY <1>1, MessageTypes
<1> QED
  BY <1>1, <1>2, <1>3 DEF NewEstimateMessage

LEMMA ProposedGood ==
  ASSUME NEW F, NEW M, Good(F, M), NEW i \in MSSs, F[i].roundPhase = 2,
         NEW best \in SUBSET MHs,
         NEW s, s = Proposed(F[i], best),
         NEW N, N = M \cup ToAll(i, s)
  PROVE  Good([F EXCEPT ![i] = s], N)
<1>1. PICK t, R, G : t = F[i] /\ R = F[i].roundR /\ G = [F EXCEPT ![i] = s]
  OBVIOUS
<1>2. /\ R \in Rounds /\ R > 0 /\ i = findCoordinator(R) /\ ~Past(F, R)
      /\ \A m \in M : Token(m) => m.r # R
      /\ \A j \in MSSs : F[j].nbPositiveAck[R] = 0 /\ F[j].nbNegativeAck[R] = 0
  BY <1>1, Unproposed
<1>3. F \in [MSSs -> Stations] /\ M \subseteq Messages /\ t \in Stations
  BY <1>1 DEF Good, Typed
<1>4. /\ s \in Stations /\ s.roundPhase = 3 /\ s.v = best /\ s.roundR = R
      /\ s.decidedState = t.decidedState
      /\ s.nbPositiveAck = t.nbPositiveAck /\ s.nbNegativeAck = t.nbNegativeAck
      /\ \A j \in MSSs : NewEstimateMessage(i, s, j) \in Messages
      /\ \A j, m : m = NewEstimateMessage(i, s, j) =>
           /\ m.type = "NEW_EST" /\ m.from = i /\ m.to = j
           /\ m.r = R /\ m.v = best /\ m.p = t.p /\ m.endCollect = t.endCollect
  <2>1. t.roundPhase = 2 /\ s = Proposed(t, best) /\ t.roundR = R
    BY <1>1
  <2> QED
    BY <1>3, <2>1, Proposal
<1>5. \A m \in N : \/ m \in M
                   \/ /\ m \in Messages /\ m.type = "NEW_EST" /\ m.from = i
                      /\ m.r = R /\ m.v = best /\ m.p = t.p
                      /\ m.endCollect = t.endCollect
  BY <1>4 DEF ToAll
<1>6. G[i] = s /\ G \in [MSSs -> Stations] /\ \A j \in MSSs : j # i => G[j] = F[j]
  BY <1>1, <1>3, <1>4
<1>7. Typed(G, N)
  BY <1>3, <1>5, <1>6 DEF Typed
<1>8. \A j \in MSSs : Turned(j, G[j])
  <2>1. Turned(i, s)
    BY <1>4 DEF Turned
  <2> QED
    BY <1>6, <2>1 DEF Good
<1>9. \A r \in Rounds : Past(F, r) => Past(G, r)
  <2>1. Onward(F[i], s)
    BY <1>1, <1>4 DEF Onward
  <2> QED
    BY <1>1, <1>3, <1>4, <2>1, PastStays
<1>10. Past(G, R)
  BY <1>2, <1>4, <1>6 DEF Past
<1>11. \A m \in M : Token(m) => m.r \in Rounds /\ m.r # R
  <2>1. \A m \in M : Token(m) => m.r \in Rounds
    BY <1>3 DEF Token, Messages, Decides, Estimates, NewEstimates, Acks, Quiet
  <2> QED
    BY <1>2, <2>1
<1>12. Proposals(G, N)
  <2>1. Proposals(F, M)
    BY DEF Good
  <2>2. ASSUME NEW m \in N, m.type = "NEW_EST"
        PROVE  m.from = findCoordinator(m.r) /\ m.r > 0 /\ Past(G, m.r)
    BY <1>2, <1>5, <1>9, <1>10, <1>11, <2>1, <2>2 DEF Proposals, Token
  <2>3. ASSUME NEW l \in N, NEW m \in N, l.type = "NEW_EST", m.type = "NEW_EST",
               l.r = m.r
        PROVE  l.v = m.v /\ l.p = m.p /\ l.endCollect = m.endCollect
    BY <1>5, <1>11, <2>1, <2>3 DEF Proposals, Token
  <2> QED
    BY <2>2, <2>3 DEF Proposals
<1>13. \A j \in MSSs : /\ G[j].nbPositiveAck = F[j].nbPositiveAck
                       /\ G[j].nbNegativeAck = F[j].nbNegativeAck
  BY <1>1, <1>4, <1>6
<1>14. Counted(G, N)
  <2>1. Counted(F, M)
    BY DEF Good
  <2>2. ASSUME NEW m \in N, m.type = "ACK"
        PROVE  /\ m.to = findCoordinator(m.r) /\ m.from # m.to
               /\ m.r > 0 /\ Past(G, m.r)
    BY <1>5, <1>9, <1>11, <2>1, <2>2 DEF Counted, Token
  <2>3. ASSUME NEW j \in MSSs, NEW r \in Rounds,
               NEW k, k = F[j].nbPositiveAck[r] + F[j].nbNegativeAck[r]
        PROVE  /\ k <= Cardinality(Answered(N, j, r))
               /\ k > 0 => j = findCoordinator(r) /\ Past(G, r)
    <3>1. CASE r = R
      <4>1. k = 0
        BY <1>2, <2>3, <3>1
      <4>2. Cardinality(Answered(N, j, r)) \in Nat
        BY FewerAnswers
      <4> QED
        BY <4>1, <4>2
    <3>2. CASE r # R
      <4>1. Answered(N, j, r) = Answered(M, j, r)
        <5>1. M \subseteq N
          OBVIOUS
        <5>2. \A m \in N : m \in M \/ (m.type = "NEW_EST" /\ m.r = R)
          BY <1>5
        <5>3. \A m \in N, h \in MSSs : m \in M \/ Slot(m) # <<r, h>>
          BY <3>2, <5>2 DEF Slot
        <5> QED
          BY <5>1, <5>3 DEF Answered
      <4>2. /\ k <= Cardinality(Answered(M, j, r))
            /\ k > 0 => j = findCoordinator(r) /\ Past(F, r)
        BY <2>1, <2>3 DEF Counted
      <4> QED
        BY <1>9, <4>1, <4>2
    <3> QED
      BY <3>1, <3>2
  <2> QED
    BY <1>13, <2>2, <2>3 DEF Counted
<1>15. Unanimous(G, N)
  <2>1. Unanimous(F, M)
    BY DEF Good
  <2>2. ASSUME NEW r \in Rounds PROVE ~(Positive(G, N, r) /\ Negative(G, N, r))
    <3>1. CASE r = R
      <4>1. Positive(G, N, R) => t.endCollect
        BY <1>2, <1>5, <1>11, <1>13 DEF Positive, Token
      <4>2. Negative(G, N, R) => ~t.endCollect
        BY <1>2, <1>5, <1>11, <1>13 DEF Negative, Token
      <4> QED
        BY <3>1, <4>1, <4>2
    <3>2. CASE r # R
      <4>1. /\ Positive(G, N, r) => Positive(F, M, r)
            /\ Negative(G, N, r) => Negative(F, M, r)
        BY <1>5, <1>13, <3>2 DEF Positive, Negative
      <4> QED
        BY <2>1, <4>1 DEF Unanimous
    <3> QED
      BY <3>1, <3>2
  <2> QED
    BY <2>2 DEF Unanimous
<1>16. Grounded(G, N)
  <2>1. Grounded(F, M)
    BY DEF Good
  <2>2. HasMajority(F) => HasMajority(G)
    BY <1>13 DEF HasMajority
  <2>3. \A m \in N : m.type = "DECIDE" => m \in M
    BY <1>5
  <2>4. (\E j \in MSSs : G[j].decidedState) => (\E j \in MSSs : F[j].decidedState)
    BY <1>1, <1>4, <1>6
  <2> QED
    BY <2>1, <2>2, <2>3, <2>4 DEF Grounded
<1> QED
  BY <1>1, <1>7, <1>8, <1>12, <1>14, <1>15, <1>16 DEF Good

LEMMA Largest ==
  ASSUME NEW k \in Nat, NEW S \in SUBSET (0 .. k), S # {}
  PROVE  \E t \in S : \A u \in S : t >= u
<1>1. PICK F : F = {t .. k : t \in S}
  OBVIOUS
<1>2. PICK A : A = 0 .. k
  OBVIOUS
<1>3. F \subseteq SUBSET A /\ F # {} /\ IsFiniteSet(A)
  <2>1. \A t \in S : t .. k \subseteq A
    BY <1>2
  <2>2. IsFiniteSet(0 .. k)
    BY FS_Interval
  <2> QED
    BY <1>1, <1>2, <2>1, <2>2
<1>4. IsWellFoundedOn(StrictSubsetOrdering(A), SUBSET A)
  BY <1>3, FS_StrictSubsetOrderingWellFounded, FS_FiniteSubsetsOfFinite
<1>5. PICK I \in F : \A J \in F : <<J, I>> \notin StrictSubsetOrdering(A)
  BY <1>3, <1>4, WFMin
<1>6. \A J \in F : J \subseteq I => J = I
  BY <1>3, <1>5 DEF StrictSubsetOrdering
<1>7. PICK t \in S : I = t .. k
  BY <1>1
<1>8. ASSUME NEW u \in S, ~(t >= u) PROVE FALSE
  <2>1. u \in 0 .. k /\ t \in 0 .. k /\ u .. k \in F
    BY <1>1
  <2>2. u .. k \subseteq I
    BY <1>7, <1>8, <2>1
  <2>3. u .. k = t .. k
    BY <1>6, <1>7, <2>1, <2>2
  <2>4. t \in t .. k /\ t \notin u .. k
    BY <1>8, <2>1
  <2> QED
    BY <2>3, <2>4
<1> QED
  BY <1>8

(* What a coordinator proposes, when its log has entries. *)
LEMMA BestChosen ==
  ASSUME NEW t \in Stations, Majority(Size(t.log[t.roundR])),
         NEW best \in BestEstimates(t),
         NEW entries, entries = BagToSet(t.log[t.roundR])
  PROVE  /\ best \in SUBSET MHs
         /\ (\A e \in entries : e.ts = 0) => best = t.newV
         /\ (\A e \in entries : e.ts > 0) => \E e \in entries : best = e.v
<1>1. entries \subseteq [mssNode : MSSs, v : SUBSET MHs, ts : Rounds]
  <2>1. t.roundR \in Rounds /\ t.log \in [Rounds -> Logs]
    BY DEF Stations
  <2>2. t.log[t.roundR] \in Logs
    BY <2>1
  <2> QED
    BY <2>2 DEF Logs, BagToSet
<1>2. entries # {}
  <2>1. SUFFICES ASSUME entries = {} PROVE FALSE
    OBVIOUS
  <2>2. UNION {{e} \X (1 .. t.log[t.roundR][e]) : e \in BagToSet(t.log[t.roundR])} = {}
    BY <2>1
  <2>3. Size(t.log[t.roundR]) = 0
    BY <2>2, FS_EmptySet DEF Size
  <2> QED
    BY <2>3, ConsensusAssumption DEF Majority
<1>3. PICK T : T = {e.ts : e \in entries}
  OBVIOUS
<1>4. T # {} /\ T \subseteq 0 .. (MaxRound + 1) /\ MaxRound + 1 \in Nat
  BY <1>1, <1>2, <1>3, ConsensusAssumption DEF Rounds
<1>5. PICK top \in T : \A u \in T : top >= u
  BY <1>4, Largest
<1>6. Max(T) \in T
  BY <1>5 DEF Max
<1>7. best \in (IF Max(T) > 0 THEN {e.v : e \in {f \in entries : f.ts = Max(T)}}
                              ELSE {t.newV})
  BY <1>3 DEF BestEstimates
<1>8. PICK e \in entries : Max(T) = e.ts
  BY <1>3, <1>6
<1>9. CASE e.ts > 0
  BY <1>1, <1>7, <1>8, <1>9
<1>10. CASE ~(e.ts > 0)
  <2>1. best = t.newV
    BY <1>7, <1>8, <1>10
  <2>2. ~(\A f \in entries : f.ts > 0)
    BY <1>10
  <2> QED
    BY <2>1, <2>2 DEF Stations
<1> QED
  BY <1>9, <1>10

(* The next round has been proposed: the lock K, L, V becomes K1, L1, V1. *)
Lifts(K, L, V, K1, L1, V1) ==
  /\ K \in Nat /\ L \in Nat /\ L <= K /\ K1 = K + 1
  /\ L1 = L \/ (L = K /\ L1 = K1)
  /\ L < K => V1 = V

LEMMA LiftedMessage ==
  ASSUME NEW K, NEW L, NEW V, NEW K1, NEW L1, NEW V1, Lifts(K, L, V, K1, L1, V1),
         NEW m \in Messages, LockedMessage(m, K, L, V)
  PROVE  LockedMessage(m, K1, L1, V1)
<1>1. /\ K \in Nat /\ L \in Nat /\ L <= K /\ K1 = K + 1
      /\ L1 = L \/ (L = K /\ L1 = K1)
      /\ L < K => V1 = V /\ L1 = L
      /\ K1 = L1 => K = L
  BY DEF Lifts
<1>2. CASE m.type = "NEW_EST"
  <2>1. m.r \in 1 .. K /\ (m.endCollect <=> m.r > L) /\ (m.endCollect => m.v = V)
    BY <1>2 DEF LockedMessage
  <2>2. m.endCollect => L < K
    BY <1>1, <2>1
  <2>3. m.r \in 1 .. K1 /\ (m.r > L <=> m.r > L1)
    BY <1>1, <2>1
  <2> QED
    BY <1>1, <1>2, <2>1, <2>2, <2>3 DEF LockedMessage
<1>3. CASE m.type = "ACK"
  <2>1. m.r \in Nat
    BY <1>3, CoordinatorType
       DEF Messages, Decides, Estimates, NewEstimates, Acks, Quiet
  <2>2. m.r <= K /\ (m.positive => m.r > L)
    BY <1>3 DEF LockedMessage
  <2>3. m.r <= K1 /\ (m.positive => m.r > L1)
    BY <1>1, <2>1, <2>2
  <2> QED
    BY <1>3, <2>3 DEF LockedMessage
<1>4. CASE m.type = "ESTIMATE"
  <2>1. m.r \in Nat
    BY <1>4, CoordinatorType
       DEF Messages, Decides, Estimates, NewEstimates, Acks, Quiet
  <2>2. /\ m.ts = 0 => m.r <= L + 1
        /\ m.ts # 0 => m.newV = V /\ L < K
        /\ K = L => m.p \subseteq m.newV
    BY <1>4 DEF LockedMessage
  <2>3. m.ts = 0 => m.r <= L1 + 1
    BY <1>1, <2>1, <2>2
  <2>4. m.ts # 0 => m.newV = V1 /\ L1 < K1
    BY <1>1, <2>2
  <2> QED
    BY <1>1, <1>4, <2>2, <2>3, <2>4 DEF LockedMessage
<1>5. CASE m.type = "DECIDE"
  BY <1>1, <1>5 DEF LockedMessage
<1>6. CASE m.type \notin {"NEW_EST", "ACK", "ESTIMATE", "DECIDE"}
  BY <1>6 DEF LockedMessage
<1> QED
  BY <1>2, <1>3, <1>4, <1>5, <1>6

LEMMA LiftedStation ==
  ASSUME NEW K, NEW L, NEW V, NEW K1, NEW L1, NEW V1, Lifts(K, L, V, K1, L1, V1),
         NEW M, NEW N, NEW j, Free(N, j, K1) = Free(M, j, K),
         Free(N, j, L) = Free(M, j, L),
         NEW s \in Stations, LockedStation(j, s, M, K, L, V)
  PROVE  LockedStation(j, s, N, K1, L1, V1)
<1>1. /\ K \in Nat /\ L \in Nat /\ L <= K /\ K1 = K + 1
      /\ L1 = L \/ (L = K /\ L1 = K1)
      /\ L < K => V1 = V /\ L1 = L
      /\ K1 = L1 => K = L
      /\ L < K => L1 < K1
  BY DEF Lifts
<1>2. Turns(s) <= 1 + Cardinality(Free(N, j, K1))
  BY DEF LockedStation
<1>3. s.ts = 0 => Turns(s) <= 1 + Cardinality(Free(N, j, L1))
  BY <1>1 DEF LockedStation
<1>4. ASSUME NEW r \in Rounds, s.nbPositiveAck[r] > 0 PROVE L1 < r /\ r <= K1
  <2>1. L < r /\ r <= K /\ r \in Nat
    BY <1>4, CoordinatorType DEF LockedStation
  <2> QED
    BY <1>1, <2>1
<1>5. ASSUME NEW r \in Rounds, NEW e \in BagToSet(s.log[r])
      PROVE  IF e.ts = 0 THEN r <= L1 + 1 ELSE e.v = V1 /\ L1 < K1
  <2>1. r \in Nat /\ IF e.ts = 0 THEN r <= L + 1 ELSE e.v = V /\ L < K
    BY CoordinatorType DEF LockedStation
  <2> QED
    BY <1>1, <2>1
<1>6. /\ s.ts > 0 => s.v = V1 /\ L1 < K1 /\ s.endCollect
      /\ s.decidedState => s.v = V1 /\ L1 < K1 /\ s.roundPhase = 0
      /\ s.roundPhase = 0 /\ ~s.decidedState => s.roundR = 0
      /\ K1 = L1 => /\ s.p \subseteq s.newV
                    /\ s.endCollect => Cardinality(s.p) >= alpha
  BY <1>1 DEF LockedStation
<1> QED
  BY <1>2, <1>3, <1>4, <1>5, <1>6 DEF LockedStation

LEMMA ProposedLocked ==
  ASSUME NEW F, NEW M, Good(F, M), NEW i \in MSSs, NEW t, t = F[i],
         t.roundPhase = 2, Majority(Size(t.log[t.roundR])),
         NEW best \in BestEstimates(t), NEW s, s = Proposed(t, best),
         NEW N, N = M \cup ToAll(i, s),
         Locked(F, M)
  PROVE  Locked([F EXCEPT ![i] = s], N)
<1>1. PICK K \in Rounds, L \in Rounds, V \in SUBSET MHs : LockedBy(F, M, K, L, V)
  BY DEF Locked
<1>2. PICK R, G, entries : /\ R = t.roundR /\ G = [F EXCEPT ![i] = s]
                           /\ entries = BagToSet(t.log[t.roundR])
  OBVIOUS
<1>3. /\ R \in Rounds /\ R > 0 /\ i = findCoordinator(R) /\ ~Past(F, R)
      /\ \A m \in M : Token(m) => m.r # R
  BY <1>2, Unproposed
<1>4. F \in [MSSs -> Stations] /\ M \subseteq Messages /\ t \in Stations
  BY DEF Good, Typed
<1>5. K \in Nat /\ L \in Nat /\ R \in Nat /\ t.ts \in Nat
  BY <1>3, <1>4, CoordinatorType DEF Stations
<1>6. /\ best \in SUBSET MHs
      /\ (\A e \in entries : e.ts = 0) => best = t.newV
      /\ (\A e \in entries : e.ts > 0) => \E e \in entries : best = e.v
  BY <1>2, <1>4, BestChosen
<1>7. /\ s \in Stations /\ s.roundPhase = 3 /\ s.v = best /\ s.roundR = t.roundR
      /\ s.decidedState = t.decidedState /\ s.ts = t.ts /\ s.p = t.p
      /\ s.newV = t.newV /\ s.endCollect = t.endCollect /\ s.log = t.log
      /\ s.nbPositiveAck = t.nbPositiveAck /\ s.nbNegativeAck = t.nbNegativeAck
      /\ \A j \in MSSs : NewEstimateMessage(i, s, j) \in Messages
      /\ \A j, m : m = NewEstimateMessage(i, s, j) =>
           /\ m.type = "NEW_EST" /\ m.from = i /\ m.to = j
           /\ m.r = t.roundR /\ m.v = best /\ m.p = t.p
           /\ m.endCollect = t.endCollect
  BY <1>4, <1>6, Proposal
<1>8. LockedStation(i, t, M, K, L, V) /\ L <= K
  BY <1>1 DEF LockedBy
<1>9. /\ Cardinality(Free(M, i, K)) \in Nat /\ Cardinality(Free(M, i, K)) <= K
      /\ Cardinality(Free(M, i, L)) \in Nat /\ Cardinality(Free(M, i, L)) <= L
  BY <1>5, FreeBound
<1>10. R = K + 1
  <2>1. R \notin 1 .. K
    BY <1>1, <1>3 DEF LockedBy
  <2>2. R <= 1 + Cardinality(Free(M, i, K))
    BY <1>2, <1>5, <1>8 DEF LockedStation, Turns
  <2> QED
    BY <1>3, <1>5, <1>9, <2>1, <2>2
<1>11. ~t.decidedState
  BY <1>8 DEF LockedStation
<1>12. L < K => t.ts > 0 /\ t.v = V /\ t.endCollect
  <2>1. t.ts = 0 => R <= 1 + Cardinality(Free(M, i, L))
    BY <1>2, <1>5, <1>8 DEF LockedStation, Turns
  <2>2. t.ts = 0 => K <= L
    BY <1>5, <1>9, <1>10, <2>1
  <2> QED
    BY <1>5, <1>8, <2>2 DEF LockedStation
<1>13. \A e \in entries : e.ts \in Nat
                          /\ IF e.ts = 0 THEN R <= L + 1 ELSE e.v = V /\ L < K
  <2>1. ASSUME NEW e \in entries PROVE e.ts \in Nat
    <3>1. t.log[R] \in Logs
      BY <1>3, <1>4 DEF Stations
    <3>2. entries \subseteq [mssNode : MSSs, v : SUBSET MHs, ts : Rounds]
      BY <1>2, <3>1 DEF Logs, BagToSet
    <3> QED
      BY <3>2, CoordinatorType
  <2> QED
    BY <1>2, <1>3, <1>8, <2>1 DEF LockedStation
<1>14. L < K => best = V
  <2>1. L < K => \A e \in entries : e.ts > 0 /\ e.v = V
    BY <1>5, <1>10, <1>13
  <2> QED
    BY <1>6, <2>1
<1>15. L = K => best = t.newV /\ t.ts = 0
  <2>1. L = K => \A e \in entries : e.ts = 0
    BY <1>5, <1>13
  <2>2. L = K => t.ts = 0
    BY <1>5, <1>8 DEF LockedStation
  <2> QED
    BY <1>6, <2>1, <2>2
<1>16. LockedStation(i, s, M, K, L, V)
  <2>1. Turns(s) = Turns(t)
    BY <1>7 DEF Turns
  <2> QED
    BY <1>5, <1>7, <1>8, <1>11, <1>14, <1>15, <2>1 DEF LockedStation
<1>17. PICK K1, L1, V1 : /\ K1 = K + 1 /\ L1 = (IF t.endCollect THEN L ELSE K + 1)
                         /\ V1 = IF L < K THEN V ELSE best
  OBVIOUS
<1>18. /\ Lifts(K, L, V, K1, L1, V1) /\ L1 <= K1
       /\ K1 \in Rounds /\ L1 \in Rounds /\ V1 \in SUBSET MHs
  BY <1>1, <1>3, <1>5, <1>6, <1>8, <1>10, <1>12, <1>17 DEF Lifts
<1>19. L1 < K1 => Cardinality(V1) >= alpha
  <2>1. CASE L < K
    BY <1>1, <1>17, <2>1 DEF LockedBy
  <2>2. CASE L = K
    <3>1. L1 < K1 => t.endCollect
      BY <1>5, <1>17
    <3>2. t.p \in SUBSET t.newV /\ (t.endCollect => Cardinality(t.p) >= alpha)
      BY <1>8, <2>2 DEF LockedStation
    <3>3. IsFiniteSet(t.newV)
      BY <1>4, HostsFinite, FS_Subset DEF Stations
    <3>4. /\ Cardinality(t.p) \in Nat /\ Cardinality(t.newV) \in Nat
          /\ Cardinality(t.p) <= Cardinality(t.newV)
      BY <3>2, <3>3, Larger
    <3>5. V1 = t.newV
      BY <1>5, <1>15, <1>17, <2>2
    <3> QED
      BY <3>1, <3>2, <3>4, <3>5, ConsensusAssumption
  <2> QED
    BY <1>5, <1>8, <2>1, <2>2
<1>20. \A m \in N : \/ m \in M
                    \/ /\ m.type = "NEW_EST" /\ m.from = i /\ m.r = K1 /\ m.v = best
                       /\ m.p = t.p /\ m.endCollect = t.endCollect
  BY <1>2, <1>7, <1>10, <1>17 DEF ToAll
<1>21. \A r \in 1 .. K1 : Past(G, r)
  <2>1. Onward(F[i], s)
    BY <1>7 DEF Onward
  <2>2. \A r \in Rounds : Past(F, r) => Past(G, r)
    BY <1>2, <1>4, <1>7, <2>1, PastStays
  <2>3. Past(G, R)
    <3>1. G[i] = s
      BY <1>2, <1>4
    <3>2. s.roundR = R /\ s.roundPhase = 3 /\ findCoordinator(R) = i
      BY <1>2, <1>3, <1>7
    <3> QED
      BY <3>1, <3>2 DEF Past
  <2>4. \A r \in 1 .. K : r \in Rounds /\ Past(F, r)
    <3>1. \A r \in 1 .. K : r \in Rounds
      BY <1>1, ConsensusAssumption DEF Rounds
    <3> QED
      BY <1>1, <3>1 DEF LockedBy
  <2>5. \A r \in 1 .. K1 : r \in 1 .. K \/ r = R
    BY <1>5, <1>10, <1>17
  <2> QED
    BY <2>2, <2>3, <2>4, <2>5
<1>22. ASSUME NEW m \in N PROVE LockedMessage(m, K1, L1, V1)
  <2>1. CASE m \in M
    BY <1>1, <1>4, <1>18, <2>1, LiftedMessage DEF LockedBy
  <2>2. CASE m \notin M
    <3>1. /\ m.type = "NEW_EST" /\ m.r = K1 /\ m.v = best /\ m.p = t.p
          /\ m.endCollect = t.endCollect
      BY <1>20, <2>2
    <3>2. m.r \in 1 .. K1 /\ (t.endCollect <=> m.r > L1)
      BY <1>5, <1>8, <1>17, <3>1
    <3>3. best = V1
      BY <1>14, <1>17
    <3>4. K1 = L1 => t.p \subseteq best
      <4>1. K1 = L1 => L = K
        BY <1>18 DEF Lifts
      <4> QED
        BY <1>8, <1>15, <4>1 DEF LockedStation
    <3> QED
      BY <3>1, <3>2, <3>3, <3>4 DEF LockedMessage
  <2> QED
    BY <2>1, <2>2
<1>23. ASSUME NEW j \in MSSs PROVE LockedStation(j, G[j], N, K1, L1, V1)
  <2>1. G[j] \in Stations /\ LockedStation(j, G[j], M, K, L, V)
    BY <1>1, <1>2, <1>4, <1>7, <1>16 DEF LockedBy
  <2>2. M \subseteq N
    OBVIOUS
  <2>3. Free(N, j, K1) = Free(M, j, K)
    <3>1. PICK m \in N : m.type = "NEW_EST" /\ m.r = K1 /\ m.to = j
      BY <1>2, <1>7, <1>10, <1>17 DEF ToAll
    <3>2. 1 .. K1 = (1 .. K) \cup {K1} /\ K1 \notin 1 .. K
      BY <1>5, <1>17
    <3> QED
      BY <1>20, <2>2, <3>1, <3>2 DEF Free
  <2>4. Free(N, j, L) = Free(M, j, L)
    <3>1. K1 \notin 1 .. L
      BY <1>5, <1>8, <1>17
    <3> QED
      BY <1>20, <2>2, <3>1 DEF Free
  <2> QED
    BY <1>18, <2>1, <2>3, <2>4, LiftedStation
<1>24. LockedBy(G, N, K1, L1, V1)
  BY <1>18, <1>19, <1>21, <1>22, <1>23 DEF LockedBy
<1> QED
  BY <1>2, <1>18, <1>24 DEF Locked

(* The messages of a set that is sent to all other stations. *)
LEMMA ImageFinite ==
  ASSUME NEW S, IsFiniteSet(S), NEW f, DOMAIN f = S, NEW T, T = {f[x] : x \in S},
         f = [x \in S |-> f[x]]
  PROVE  IsFiniteSet(T)
<1>1. f \in Surjection(S, T)
  <2>1. f \in [S -> T]
    OBVIOUS
  <2> QED
    BY <2>1 DEF Surjection
<1> QED
  BY <1>1, FS_Surjection

LEMMA OthersFinite ==
  ASSUME NEW i \in MSSs
  PROVE  /\ Others(i) \subseteq MSSs /\ IsFiniteSet(Others(i))
         /\ \A s : IsFiniteSet({NewEstimateMessage(i, s, j) : j \in Others(i)})
         /\ \A s : IsFiniteSet({DecideMessage(i, s, j) : j \in Others(i)})
         /\ IsFiniteSet({Init2Message(i, j) : j \in Others(i)})
<1>1. Others(i) \subseteq MSSs /\ IsFiniteSet(Others(i))
  BY StationsFinite DEF Others
<1>2. ASSUME NEW s PROVE IsFiniteSet({NewEstimateMessage(i, s, j) : j \in Others(i)})
  <2>1. PICK f : f = [j \in Others(i) |-> NewEstimateMessage(i, s, j)]
    OBVIOUS
  <2>2. {NewEstimateMessage(i, s, j) : j \in Others(i)} = {f[j] : j \in Others(i)}
    BY <2>1
  <2> QED
    BY <1>1, <2>1, <2>2, ImageFinite
<1>3. ASSUME NEW s PROVE IsFiniteSet({DecideMessage(i, s, j) : j \in Others(i)})
  <2>1. PICK f : f = [j \in Others(i) |-> DecideMessage(i, s, j)]
    OBVIOUS
  <2>2. {DecideMessage(i, s, j) : j \in Others(i)} = {f[j] : j \in Others(i)}
    BY <2>1
  <2> QED
    BY <1>1, <2>1, <2>2, ImageFinite
<1>4. IsFiniteSet({Init2Message(i, j) : j \in Others(i)})
  <2>1. PICK f : f = [j \in Others(i) |-> Init2Message(i, j)]
    OBVIOUS
  <2>2. {Init2Message(i, j) : j \in Others(i)} = {f[j] : j \in Others(i)}
    BY <2>1
  <2> QED
    BY <1>1, <2>1, <2>2, ImageFinite
<1> QED
  BY <1>1, <1>2, <1>3, <1>4

LEMMA Proposes ==
  ASSUME NEW F \in [MSSs -> Stations], NEW q \in Seq(Messages), NEW b,
         NEW i \in MSSs, NEW free, NEW c, Done(F, q, b, i, free, c),
         NEW d \in ProposeEstimate(i, c)
  PROVE  Done(F, q, b, i, free, d)
<1>1. CASE ~(c.st.roundPhase = 2 /\ Majority(Size(c.st.log[c.st.roundR])))
  BY <1>1 DEF ProposeEstimate
<1>2. CASE c.st.roundPhase = 2 /\ Majority(Size(c.st.log[c.st.roundR]))
  <2>1. PICK best, s :
          /\ best \in BestEstimates(c.st) /\ s = Proposed(c.st, best)
          /\ d = SendAll(Send([c EXCEPT !.st = s], NewEstimateMessage(i, s, i)),
                         {NewEstimateMessage(i, s, j) : j \in Others(i)})
    BY <1>2 DEF ProposeEstimate, Proposed
  <2>2. PICK M, E, R, own, S, x :
          /\ M = Flying(Joined(q, c.out), b) /\ E = Moved(F, i, c)
          /\ R = c.st.roundR
          /\ own = NewEstimateMessage(i, s, i)
          /\ S = {NewEstimateMessage(i, s, j) : j \in Others(i)}
          /\ x = SetToSeq(S)
    OBVIOUS
  <2>3. Ok(F, q, b, i, free, c, M)
    BY <2>2 DEF Done
  <2>4. /\ c.st \in Stations /\ c.out \in Seq(Messages)
        /\ E \in [MSSs -> Stations] /\ E[i] = c.st /\ M \subseteq Messages
    <3>1. /\ c.st \in Stations /\ c.out \in Seq(Messages)
          /\ Moved(F, i, c) \in [MSSs -> Stations] /\ M \subseteq Messages
      BY <2>3, HasStation
    <3>2. Moved(F, i, c)[i] = c.st
      BY DEF Moved
    <3> QED
      BY <2>2, <3>1, <3>2
  <2>5. Good(E, M) /\ (free \/ Locked(E, M)) /\ c \in Contexts
        /\ Unique(Joined(q, c.out), b)
    BY <2>2, <2>3 DEF Ok
  <2>6. /\ R \in Rounds /\ \A m \in M : Token(m) => m.r # R
    BY <1>2, <2>2, <2>4, <2>5, Unproposed
  <2>7. best \in SUBSET MHs
    <3>1. best \in BestEstimates(c.st)
      BY <2>1
    <3> QED
      BY <1>2, <2>4, <3>1, BestChosen
  <2>8. /\ s \in Stations /\ s.roundPhase = 3 /\ s.v = best /\ s.roundR = R
        /\ \A j \in MSSs : NewEstimateMessage(i, s, j) \in Messages
        /\ \A j, m : m = NewEstimateMessage(i, s, j) =>
             m.type = "NEW_EST" /\ m.to = j /\ m.r = R
    <3>1. /\ s \in Stations /\ s.roundPhase = 3 /\ s.v = best /\ s.roundR = c.st.roundR
          /\ \A j \in MSSs : NewEstimateMessage(i, s, j) \in Messages
          /\ \A j, m : m = NewEstimateMessage(i, s, j) =>
               m.type = "NEW_EST" /\ m.to = j /\ m.r = c.st.roundR
      BY <1>2, <2>1, <2>4, <2>7, Proposal
    <3> QED
      BY <2>2, <3>1
  <2>9. /\ own \in Messages /\ own.to = i /\ Token(own) /\ own.r = R
        /\ own.type = "NEW_EST"
        /\ S \in SUBSET Messages /\ IsFiniteSet(S)
        /\ \A m \in S : /\ Token(m) /\ m.r = R /\ m.type = "NEW_EST" /\ m.to # i
                        /\ m = NewEstimateMessage(i, s, m.to)
    <3>1. own \in Messages /\ own.to = i /\ own.r = R /\ own.type = "NEW_EST"
      BY <2>2, <2>8
    <3>2. S \in SUBSET Messages /\ IsFiniteSet(S)
      BY <2>2, <2>8, OthersFinite
    <3>3. ASSUME NEW m \in S
          PROVE  /\ m.r = R /\ m.type = "NEW_EST" /\ m.to # i
                 /\ m = NewEstimateMessage(i, s, m.to)
      <4>1. PICK j \in Others(i) : m = NewEstimateMessage(i, s, j)
        BY <2>2
      <4>2. j # i
        BY DEF Others
      <4> QED
        BY <2>8, <4>1, <4>2
    <3> QED
      BY <3>1, <3>2, <3>3 DEF Token
  <2>10. /\ x \in Seq(Messages) /\ Range(x) = S
         /\ \A k, l \in DOMAIN x : x[k] = x[l] => k = l
    BY <2>2, <2>9, SetSent
  <2>11. PICK o, p : o = Joined(c.out, <<own>>) /\ p = Joined(o, x)
    OBVIOUS
  <2>12. d = [st |-> s, out |-> p]
    <3>1. PICK e : e = Send([c EXCEPT !.st = s], own)
      OBVIOUS
    <3>2. e = [st |-> s, out |-> o]
      BY <2>5, <2>9, <2>11, <3>1, SendIs
    <3>3. o \in Seq(Messages)
      BY <2>4, <2>9, <2>11 DEF Joined
    <3>4. e \in Contexts /\ e = [e EXCEPT !.st = s] /\ e.out = o
      BY <2>8, <3>2, <3>3 DEF Contexts
    <3>5. d = SendAll(e, S)
      BY <2>1, <2>2, <3>1
    <3>6. SendAll([e EXCEPT !.st = s], S) = [st |-> s, out |-> Joined(e.out, x)]
      BY <2>2, <3>4, SendAllIs
    <3> QED
      BY <2>11, <3>4, <3>5, <3>6
  <2>13. /\ o \in Seq(Messages) /\ Unique(Joined(q, o), b)
         /\ Flying(Joined(q, o), b) = M \cup {own}
    <3>1. PICK w : w = <<own>>
      OBVIOUS
    <3>2. w \in Seq(Messages) /\ Range(w) = {own} /\ \A k, l \in DOMAIN w : k = l
      BY <2>9, <3>1 DEF Range
    <3>3. \A m \in M : ~Same(own, m)
      BY <2>6, <2>9 DEF Same, Slot
    <3>4. \A k, l \in DOMAIN w : Same(w[k], w[l]) => k = l
      BY <3>2
    <3>5. \A l \in Range(w), m \in Flying(Joined(q, c.out), b) : ~Same(l, m)
      BY <2>2, <3>2, <3>3
    <3>6. /\ Joined(c.out, w) \in Seq(Messages) /\ Unique(Joined(q, Joined(c.out, w)), b)
          /\ Flying(Joined(q, Joined(c.out, w)), b)
               = Flying(Joined(q, c.out), b) \cup Range(w)
      BY <2>4, <2>5, <3>2, <3>4, <3>5, Outbox
    <3> QED
      BY <2>2, <2>11, <3>1, <3>2, <3>6
  <2>14. /\ p \in Seq(Messages) /\ Unique(Joined(q, p), b)
         /\ Flying(Joined(q, p), b) = M \cup {own} \cup S
    <3>1. \A l \in S, m \in S : Same(l, m) => l = m
      BY <2>9 DEF Same, Slot
    <3>2. \A l \in S, m \in M \cup {own} : ~Same(l, m)
      BY <2>6, <2>9 DEF Same, Slot
    <3>3. \A k, l \in DOMAIN x : Same(x[k], x[l]) => k = l
      <4>1. \A k \in DOMAIN x : x[k] \in S
        BY <2>10 DEF Range
      <4> QED
        BY <2>10, <3>1, <4>1
    <3>4. \A l \in Range(x), m \in Flying(Joined(q, o), b) : ~Same(l, m)
      BY <2>10, <2>13, <3>2
    <3>5. /\ Joined(o, x) \in Seq(Messages) /\ Unique(Joined(q, Joined(o, x)), b)
          /\ Flying(Joined(q, Joined(o, x)), b) = Flying(Joined(q, o), b) \cup Range(x)
      BY <2>10, <2>13, <3>3, <3>4, Outbox
    <3> QED
      BY <2>10, <2>11, <2>13, <3>5
  <2>15. PICK N : N = M \cup ToAll(i, s)
    OBVIOUS
  <2>16. Flying(Joined(q, p), b) = N
    BY <2>2, <2>14, <2>15 DEF Others, ToAll
  <2>17. Good([E EXCEPT ![i] = s], N)
    <3>1. s = Proposed(E[i], best) /\ E[i].roundPhase = 2
      BY <1>2, <2>1, <2>4
    <3> QED
      BY <2>5, <2>7, <2>15, <3>1, ProposedGood
  <2>18. free \/ Locked([E EXCEPT ![i] = s], N)
    <3>1. PICK t : t = c.st
      OBVIOUS
    <3>2. /\ t = E[i] /\ t.roundPhase = 2 /\ Majority(Size(t.log[t.roundR]))
          /\ s = Proposed(t, best) /\ best \in BestEstimates(t)
      BY <1>2, <2>1, <2>4, <3>1
    <3> QED
      BY <2>5, <2>15, <3>2, ProposedLocked
  <2>19. Moved(F, i, d) = [E EXCEPT ![i] = s]
    BY <2>2, <2>12 DEF Moved
  <2> QED
    BY <2>8, <2>12, <2>14, <2>16, <2>17, <2>18, <2>19 DEF Done, Ok, Contexts
<1> QED
  BY <1>1, <1>2

(* A station is about to enter a round; it decides the set v. *)
Ready(t) == [t EXCEPT !.roundPhase = 1]
Decided(t, v) == [t EXCEPT !.decidedState = TRUE, !.v = v, !.roundPhase = 0]

LEMMA ReadyFields ==
  ASSUME NEW t \in Stations, NEW s, s = Ready(t)
  PROVE  /\ s \in Stations /\ s.roundPhase = 1 /\ s.v = t.v /\ s.roundR = t.roundR
         /\ s.decidedState = t.decidedState /\ s.ts = t.ts /\ s.p = t.p
         /\ s.newV = t.newV /\ s.endCollect = t.endCollect /\ s.log = t.log
         /\ s.nbPositiveAck = t.nbPositiveAck /\ s.nbNegativeAck = t.nbNegativeAck
<1>1. s \in Stations
  BY DEF Stations, Ready
<1>2. /\ s.roundPhase = 1 /\ s.v = t.v /\ s.roundR = t.roundR
      /\ s.decidedState = t.decidedState /\ s.ts = t.ts /\ s.p = t.p
      /\ s.newV = t.newV /\ s.endCollect = t.endCollect /\ s.log = t.log
      /\ s.nbPositiveAck = t.nbPositiveAck /\ s.nbNegativeAck = t.nbNegativeAck
  BY DEF Stations, Ready
<1> QED
  BY <1>1, <1>2

LEMMA DecidedFields ==
  ASSUME NEW t \in Stations, NEW v \in SUBSET MHs, NEW s, s = Decided(t, v)
  PROVE  /\ s \in Stations /\ s.roundPhase = 0 /\ s.v = v /\ s.roundR = t.roundR
         /\ s.ts = t.ts /\ s.p = t.p
         /\ s.newV = t.newV /\ s.endCollect = t.endCollect /\ s.log = t.log
         /\ s.nbPositiveAck = t.nbPositiveAck /\ s.nbNegativeAck = t.nbNegativeAck
<1>1. PICK a : a = [t EXCEPT !.decidedState = TRUE]
  OBVIOUS
<1>2. PICK d : d = [a EXCEPT !.v = v]
  OBVIOUS
<1>3. a \in Stations
  BY <1>1 DEF Stations
<1>4. d \in Stations
  BY <1>2, <1>3 DEF Stations
<1>5. s \in Stations
  <2>1. [d EXCEPT !.roundPhase = 0] \in Stations
    BY <1>4 DEF Stations
  <2> QED
    BY <1>1, <1>2, <2>1 DEF Stations, Decided
<1>6. /\ s.roundPhase = 0 /\ s.v = v /\ s.roundR = t.roundR
      /\ s.ts = t.ts /\ s.p = t.p
      /\ s.newV = t.newV /\ s.endCollect = t.endCollect /\ s.log = t.log
      /\ s.nbPositiveAck = t.nbPositiveAck /\ s.nbNegativeAck = t.nbNegativeAck
  BY DEF Stations, Decided
<1> QED
  BY <1>5, <1>6

LEMMA Starts ==
  ASSUME NEW F \in [MSSs -> Stations], NEW q \in Seq(Messages), NEW b,
         NEW i \in MSSs, NEW free, NEW c \in Contexts, NEW M,
         NEW t, t = Ready(c.st),
         NEW e, e = [c EXCEPT !.st = t],
         Ok(F, q, b, i, free, e, M),
         NEW d \in StartRound(i, c)
  PROVE  Done(F, q, b, i, free, d)
<1>1. c.st \in Stations
  BY DEF Contexts
<1>2. t \in Stations /\ t.roundPhase = 1 /\ e.st = t
  <2>1. t \in Stations /\ t.roundPhase = 1
    BY <1>1, ReadyFields
  <2>2. e.st = t
    BY DEF Contexts
  <2> QED
    BY <2>1, <2>2
<1>3. PICK s : s = [c.st EXCEPT !.roundR = c.st.roundR + 1,
                      !.v = IF c.st.ts = 0 THEN c.st.newV ELSE @,
                      !.roundPhase =
                        IF i = findCoordinator(c.st.roundR + 1) THEN 2 ELSE 3]
  OBVIOUS
<1>4. d \in ProposeEstimate(i, Send([c EXCEPT !.st = s], EstimateMessage(i, s, s.v)))
  BY <1>3 DEF StartRound
<1>5. s = Entered(i, t)
  <2>1. t.roundR = c.st.roundR /\ t.ts = c.st.ts /\ t.newV = c.st.newV /\ t.v = c.st.v
    BY <1>1, ReadyFields
  <2>2. PICK v, k : /\ v = IF c.st.ts = 0 THEN c.st.newV ELSE c.st.v
                    /\ k = IF i = findCoordinator(c.st.roundR + 1) THEN 2 ELSE 3
    OBVIOUS
  <2>3. s = [c.st EXCEPT !.roundR = c.st.roundR + 1, !.v = v, !.roundPhase = k]
    BY <1>1, <1>3, <2>2 DEF Stations
  <2>4. Entered(i, t) = [t EXCEPT !.roundR = c.st.roundR + 1, !.v = v, !.roundPhase = k]
    BY <1>2, <2>1, <2>2 DEF Stations, Entered
  <2> QED
    BY <1>1, <2>3, <2>4 DEF Stations, Ready
<1>6. [c EXCEPT !.st = s] = [e EXCEPT !.st = s]
  BY DEF Contexts
<1>7. Done(F, q, b, i, free, Send([e EXCEPT !.st = s], EstimateMessage(i, s, s.v)))
  BY <1>2, <1>5, Enters
<1> QED
  BY <1>4, <1>6, <1>7, Proposes

(* To phase 1: from phase 4, or from phase 0 when it is the first time. *)
LEMMA Leaves ==
  ASSUME NEW F \in [MSSs -> Stations], NEW q \in Seq(Messages), NEW b,
         NEW i \in MSSs, NEW free, NEW c, Done(F, q, b, i, free, c),
         c.st.roundPhase = 4
           \/ (c.st.roundPhase = 0 /\ (free \/ ~c.st.decidedState)),
         NEW d \in StartRound(i, c)
  PROVE  Done(F, q, b, i, free, d)
<1>1. PICK t, s, M : /\ t = c.st /\ s = Ready(c.st)
                     /\ M = Flying(Joined(q, c.out), b)
  OBVIOUS
<1>2. Ok(F, q, b, i, free, c, M)
  BY <1>1 DEF Done
<1>3. /\ t \in Stations /\ Turned(i, t) /\ M \subseteq Messages
      /\ t.decidedState => HasMajority(Moved(F, i, c))
      /\ \A K, L \in Rounds, V \in SUBSET MHs :
           LockedBy(Moved(F, i, c), M, K, L, V) =>
             LockedStation(i, t, M, K, L, V)
  BY <1>1, <1>2, HasStation
<1>5. t.roundR \in Nat
  BY <1>3, CoordinatorType DEF Stations
<1>6. /\ s \in Stations /\ s.roundPhase = 1 /\ s.v = t.v /\ s.roundR = t.roundR
      /\ s.decidedState = t.decidedState /\ s.ts = t.ts /\ s.p = t.p
      /\ s.newV = t.newV /\ s.endCollect = t.endCollect /\ s.log = t.log
      /\ s.nbPositiveAck = t.nbPositiveAck /\ s.nbNegativeAck = t.nbNegativeAck
  BY <1>1, <1>3, ReadyFields
<1>7. Turned(i, s) /\ Onward(t, s)
  BY <1>1, <1>3, <1>6 DEF Turned, Onward
<1>8. ASSUME NEW K \in Rounds, NEW L \in Rounds, NEW V \in SUBSET MHs, ~free,
             LockedBy(Moved(F, i, c), M, K, L, V)
      PROVE  LockedStation(i, s, M, K, L, V)
  <2>1. LockedStation(i, t, M, K, L, V)
    BY <1>3, <1>8
  <2>2. ~t.decidedState
    BY <1>1, <1>8, <2>1 DEF LockedStation
  <2>3. K \in Nat /\ L \in Nat
    BY CoordinatorType
  <2>4. /\ Cardinality(Free(M, i, K)) \in Nat /\ Cardinality(Free(M, i, L)) \in Nat
    BY <2>3, FreeBound
  <2>5. /\ Turns(s) <= 1 + Cardinality(Free(M, i, K))
        /\ s.ts = 0 => Turns(s) <= 1 + Cardinality(Free(M, i, L))
    <3>1. CASE t.roundPhase = 4
      BY <1>6, <2>1, <3>1 DEF LockedStation, Turns
    <3>2. CASE t.roundPhase = 0
      <4>1. Turns(s) = 1
        BY <1>6, <2>1, <2>2, <3>2 DEF LockedStation, Turns
      <4> QED
        BY <2>4, <4>1
    <3> QED
      BY <1>1, <3>1, <3>2
  <2> QED
    BY <1>6, <2>1, <2>2, <2>5 DEF LockedStation
<1>9. Allowed(F, i, free, c, M, s, {})
  BY <1>1, <1>3, <1>6, <1>7, <1>8 DEF Allowed
<1>10. Done(F, q, b, i, free, [c EXCEPT !.st = s])
  BY <1>2, <1>9, HandledNone
<1>11. PICK e, N : e = [c EXCEPT !.st = s] /\ N = Flying(Joined(q, e.out), b)
  OBVIOUS
<1>12. Ok(F, q, b, i, free, e, N) /\ c \in Contexts
  BY <1>2, <1>10, <1>11 DEF Done, Ok
<1> QED
  BY <1>1, <1>11, <1>12, Starts

ToldDecision(i, s) == {DecideMessage(i, s, j) : j \in Others(i)}

(* A station decides v, which is held by a majority or by who told it. *)
LEMMA Deciding ==
  ASSUME NEW F \in [MSSs -> Stations], NEW q \in Seq(Messages), NEW b,
         NEW i \in MSSs, NEW free, NEW c, NEW M, Ok(F, q, b, i, free, c, M),
         NEW v \in SUBSET MHs, HasMajority(Moved(F, i, c)),
         c.st.roundR <= MaxRound,
         \A K, L \in Rounds, V \in SUBSET MHs :
           ~free /\ LockedBy(Moved(F, i, c), M, K, L, V) => v = V /\ L < K,
         NEW s, s = Decided(c.st, v),
         NEW S, S = ToldDecision(i, s)
  PROVE  Done(F, q, b, i, free, SendAll([c EXCEPT !.st = s], S))
<1>1. PICK t : t = c.st
  OBVIOUS
<1>2. /\ t \in Stations /\ Turned(i, t) /\ M \subseteq Messages
      /\ \A K, L \in Rounds, V \in SUBSET MHs :
           LockedBy(Moved(F, i, c), M, K, L, V) =>
             LockedStation(i, t, M, K, L, V)
  BY <1>1, HasStation
<1>3. /\ s \in Stations /\ s.roundPhase = 0 /\ s.v = v /\ s.roundR = t.roundR
      /\ s.decidedState = TRUE /\ s.ts = t.ts /\ s.p = t.p
      /\ s.newV = t.newV /\ s.endCollect = t.endCollect /\ s.log = t.log
      /\ s.nbPositiveAck = t.nbPositiveAck /\ s.nbNegativeAck = t.nbNegativeAck
  <2>1. s = Decided(t, v)
    BY <1>1
  <2>2. s.decidedState = TRUE
    BY <1>2, <2>1 DEF Decided, Stations
  <2> QED
    BY <1>2, <2>1, <2>2, DecidedFields
<1>4. Turned(i, s) /\ Onward(t, s)
  BY <1>1, <1>3 DEF Turned, Onward
<1>5. /\ S \in SUBSET Messages /\ IsFiniteSet(S)
      /\ \A m \in S : m.type = "DECIDE" /\ m.v = v
  <2>1. \A m \in S : m \in Messages
    BY <1>3, OthersFinite, MessageTypes DEF ToldDecision
  <2>2. IsFiniteSet(S)
    BY OthersFinite DEF ToldDecision
  <2>3. \A m \in S : m.type = "DECIDE" /\ m.v = v
    BY <1>3 DEF DecideMessage, ToldDecision
  <2> QED
    BY <2>1, <2>2, <2>3
<1>6. ASSUME NEW K \in Rounds, NEW L \in Rounds, NEW V \in SUBSET MHs, ~free,
             LockedBy(Moved(F, i, c), M, K, L, V)
      PROVE  /\ LockedStation(i, s, M, K, L, V)
             /\ \A m \in S : LockedMessage(m, K, L, V)
  <2>1. LockedStation(i, t, M, K, L, V) /\ v = V /\ L < K
    BY <1>2, <1>6
  <2>2. K \in Nat /\ L \in Nat /\ t.roundR \in Nat /\ t.ts \in Nat
    BY <1>2, CoordinatorType DEF Stations
  <2>3. /\ Cardinality(Free(M, i, K)) \in Nat /\ Cardinality(Free(M, i, L)) \in Nat
    BY <2>2, FreeBound
  <2>4. Turns(s) \in Nat /\ Turns(t) \in Nat /\ Turns(s) <= Turns(t)
    BY <1>3, <2>2 DEF Turns
  <2>5. /\ Turns(s) <= 1 + Cardinality(Free(M, i, K))
        /\ s.ts = 0 => Turns(s) <= 1 + Cardinality(Free(M, i, L))
    BY <1>3, <2>1, <2>3, <2>4 DEF LockedStation
  <2>6. LockedStation(i, s, M, K, L, V)
    BY <1>3, <2>1, <2>2, <2>5 DEF LockedStation
  <2>7. \A m \in S : LockedMessage(m, K, L, V)
    BY <1>5, <2>1 DEF LockedMessage
  <2> QED
    BY <2>6, <2>7
<1>7. Allowed(F, i, free, c, M, s, S)
  <2>1. \A m \in S : ~Token(m)
    BY <1>5 DEF Token
  <2> QED
    BY <1>1, <1>2, <1>3, <1>4, <1>5, <1>6, <2>1 DEF Allowed
<1> QED
  BY <1>5, <1>7, HandledAll

LEMMA Concludes ==
  ASSUME NEW F \in [MSSs -> Stations], NEW q \in Seq(Messages), NEW b,
         NEW i \in MSSs, NEW free, NEW c, Done(F, q, b, i, free, c),
         NEW d \in Conclude(i, c)
  PROVE  Done(F, q, b, i, free, d)
<1>1. PICK t, M : t = c.st /\ M = Flying(Joined(q, c.out), b)
  OBVIOUS
<1>2. Ok(F, q, b, i, free, c, M) /\ c \in Contexts
  BY <1>1 DEF Done, Ok
<1>3. /\ t \in Stations /\ Turned(i, t)
      /\ Moved(F, i, c) \in [MSSs -> Stations]
      /\ \A K, L \in Rounds, V \in SUBSET MHs :
           LockedBy(Moved(F, i, c), M, K, L, V) =>
             LockedStation(i, t, M, K, L, V)
  BY <1>1, <1>2, HasStation
<1>4. CASE d = c
  BY <1>4
<1>5. CASE t.roundPhase = 4 /\ d \in StartRound(i, c)
  BY <1>1, <1>5, Leaves
<1>6. CASE /\ t.roundPhase = 4 /\ Majority(t.nbPositiveAck[t.roundR])
           /\ d = SendAll(
                    [c EXCEPT !.st.decidedState = TRUE, !.st.roundPhase = 0],
                    {DecideMessage(i, t, j) : j \in Others(i)})
  <2>1. t.roundR \in Rounds /\ t.roundR \in Nat /\ t.v \in SUBSET MHs
        /\ t.roundR <= MaxRound /\ t.ts \in Nat
    BY <1>3, <1>6, CoordinatorType DEF Stations, Turned
  <2>2. HasMajority(Moved(F, i, c))
    <3>1. Moved(F, i, c)[i] = t
      BY <1>1 DEF Moved
    <3> QED
      BY <1>6, <2>1, <3>1 DEF HasMajority
  <2>3. ASSUME NEW K \in Rounds, NEW L \in Rounds, NEW V \in SUBSET MHs, ~free,
               LockedBy(Moved(F, i, c), M, K, L, V)
        PROVE  t.v = V /\ L < K
    <3>1. LockedStation(i, t, M, K, L, V)
      BY <1>3, <2>3
    <3>2. t.nbPositiveAck[t.roundR] \in Nat /\ t.nbPositiveAck[t.roundR] > 0
      <4>1. t.nbPositiveAck[t.roundR] \in Nat
        BY <1>3, <2>1 DEF Stations
      <4> QED
        BY <1>6, <4>1, ConsensusAssumption DEF Majority
    <3>3. L \in Nat /\ L < t.roundR
      BY <2>1, <3>1, <3>2, CoordinatorType DEF LockedStation
    <3>4. Cardinality(Free(M, i, L)) \in Nat /\ Cardinality(Free(M, i, L)) <= L
      BY <3>3, FreeBound
    <3>5. Turns(t) = t.roundR + 1
      BY <1>6 DEF Turns
    <3>6. t.ts # 0
      BY <2>1, <3>1, <3>3, <3>4, <3>5 DEF LockedStation
    <3> QED
      BY <2>1, <3>1, <3>6 DEF LockedStation
  <2>4. PICK s, S : /\ s = Decided(t, t.v)
                    /\ S = ToldDecision(i, s)
    OBVIOUS
  <2>5. Done(F, q, b, i, free, SendAll([c EXCEPT !.st = s], S))
    <3>1. /\ c.st.roundR <= MaxRound /\ s = Decided(c.st, c.st.v)
          /\ c.st.v \in SUBSET MHs
          /\ \A K, L \in Rounds, V \in SUBSET MHs :
               ~free /\ LockedBy(Moved(F, i, c), M, K, L, V) => c.st.v = V /\ L < K
      BY <1>1, <2>1, <2>3, <2>4
    <3> QED
      BY <1>2, <2>2, <2>4, <3>1, Deciding
  <2>6. [c EXCEPT !.st.decidedState = TRUE, !.st.roundPhase = 0]
          = [c EXCEPT !.st = s]
    <3>1. [t EXCEPT !.decidedState = TRUE, !.roundPhase = 0] = s
      BY <1>3, <2>4 DEF Decided, Stations
    <3> QED
      BY <1>1, <1>2, <3>1 DEF Contexts
  <2>7. \A j : DecideMessage(i, t, j) = DecideMessage(i, s, j)
    <3>1. s.v = t.v
      BY <1>3, <2>1, <2>4, DecidedFields
    <3> QED
      BY <3>1 DEF DecideMessage
  <2>8. {DecideMessage(i, t, j) : j \in Others(i)} = S
    BY <2>4, <2>7 DEF ToldDecision
  <2> QED
    BY <1>6, <2>5, <2>6, <2>8
<1> QED
  BY <1>1, <1>4, <1>5, <1>6 DEF Conclude

-----------------------------------------------------------------------------
(* The handlers. *)

LEMMA Ignored ==
  ASSUME NEW F \in [MSSs -> Stations], NEW q \in Seq(Messages), NEW b,
         NEW i \in MSSs, NEW free, NEW c, NEW M, Ok(F, q, b, i, free, c, M)
  PROVE  Done(F, q, b, i, free, c)
<1>1. PICK t : t = c.st
  OBVIOUS
<1>2. /\ t \in Stations /\ Turned(i, t)
      /\ t.decidedState => HasMajority(Moved(F, i, c))
      /\ \A K, L \in Rounds, V \in SUBSET MHs :
           LockedBy(Moved(F, i, c), M, K, L, V) =>
             LockedStation(i, t, M, K, L, V)
  BY <1>1, HasStation
<1>3. Onward(t, t)
  BY DEF Onward
<1>4. Allowed(F, i, free, c, M, t, {})
  BY <1>1, <1>2, <1>3 DEF Allowed
<1>5. Done(F, q, b, i, free, [c EXCEPT !.st = t])
  BY <1>4, HandledNone
<1>6. [c EXCEPT !.st = t] = c
  BY <1>1 DEF Ok, Contexts
<1> QED
  BY <1>5, <1>6

(* A station collects the values newV of the hosts p. *)
Widened(t, p, newV) == [t EXCEPT !.p = @ \cup p, !.newV = @ \cup newV]
Gathered(t, p, newV) ==
  [Widened(t, p, newV) EXCEPT !.endCollect = Collected(Widened(t, p, newV))]

Enough(t, p) == t.endCollect \/ Cardinality(t.p \cup p) >= alpha

HasGathered(t, p, newV, s) ==
  /\ s.roundPhase = t.roundPhase /\ s.v = t.v
  /\ s.roundR = t.roundR /\ s.decidedState = t.decidedState /\ s.ts = t.ts
  /\ s.p = t.p \cup p /\ s.newV = t.newV \cup newV /\ s.log = t.log
  /\ s.nbPositiveAck = t.nbPositiveAck /\ s.nbNegativeAck = t.nbNegativeAck
  /\ s.endCollect = Enough(t, p)

LEMMA GatheredFields ==
  ASSUME NEW t \in Stations, NEW p \in SUBSET MHs, NEW newV \in SUBSET MHs,
         NEW s, s = Gathered(t, p, newV)
  PROVE  s \in Stations /\ HasGathered(t, p, newV, s)
<1>1. PICK a : a = [t EXCEPT !.p = @ \cup p]
  OBVIOUS
<1>2. PICK w : w = Widened(t, p, newV)
  OBVIOUS
<1>3. a \in Stations
  BY <1>1 DEF Stations
<1>4. w = [a EXCEPT !.newV = @ \cup newV]
  BY <1>1, <1>2 DEF Widened, Stations
<1>5. w \in Stations
  BY <1>3, <1>4 DEF Stations
<1>6. /\ w.roundPhase = t.roundPhase /\ w.v = t.v
      /\ w.roundR = t.roundR /\ w.decidedState = t.decidedState /\ w.ts = t.ts
      /\ w.p = t.p \cup p /\ w.newV = t.newV \cup newV /\ w.log = t.log
      /\ w.nbPositiveAck = t.nbPositiveAck /\ w.nbNegativeAck = t.nbNegativeAck
      /\ w.endCollect = t.endCollect
  BY <1>2 DEF Widened, Stations
<1>7. PICK e \in BOOLEAN : e = Collected(w)
  BY DEF Collected
<1>8. s = [w EXCEPT !.endCollect = e]
  BY <1>2, <1>7 DEF Gathered
<1>9. s \in Stations
  BY <1>5, <1>7, <1>8 DEF Stations
<1>10. /\ s.roundPhase = w.roundPhase /\ s.v = w.v
       /\ s.roundR = w.roundR /\ s.decidedState = w.decidedState /\ s.ts = w.ts
       /\ s.p = w.p /\ s.newV = w.newV /\ s.log = w.log
       /\ s.nbPositiveAck = w.nbPositiveAck /\ s.nbNegativeAck = w.nbNegativeAck
  BY <1>5, <1>8 DEF Stations
<1>11. s.endCollect = Enough(t, p)
  <2>1. s.endCollect = e
    BY <1>5, <1>8 DEF Stations
  <2>2. Collected(w) = Enough(t, p)
    BY <1>6 DEF Collected, Enough
  <2> QED
    BY <1>7, <2>1, <2>2
<1> QED
  BY <1>6, <1>9, <1>10, <1>11 DEF HasGathered

LEMMA GatheredLocked ==
  ASSUME NEW i \in MSSs, NEW t \in Stations, NEW p \in SUBSET MHs,
         NEW newV \in SUBSET MHs, NEW s, s = Gathered(t, p, newV), NEW M,
         NEW K \in Rounds, NEW L \in Rounds, NEW V, LockedStation(i, t, M, K, L, V),
         K = L => p \subseteq newV
  PROVE  LockedStation(i, s, M, K, L, V)
<1>1. /\ s \in Stations /\ s.roundPhase = t.roundPhase /\ s.v = t.v
      /\ s.roundR = t.roundR /\ s.decidedState = t.decidedState /\ s.ts = t.ts
      /\ s.p = t.p \cup p /\ s.newV = t.newV \cup newV /\ s.log = t.log
      /\ s.nbPositiveAck = t.nbPositiveAck /\ s.nbNegativeAck = t.nbNegativeAck
      /\ s.endCollect = Enough(t, p)
  <2>1. s \in Stations /\ HasGathered(t, p, newV, s)
    BY GatheredFields
  <2> QED
    BY <2>1 DEF HasGathered
<1>2. Turns(s) = Turns(t)
  BY <1>1 DEF Turns
<1>3. ASSUME K = L
      PROVE  s.p \subseteq s.newV /\ (s.endCollect => Cardinality(s.p) >= alpha)
  <2>1. t.p \subseteq t.newV /\ (t.endCollect => Cardinality(t.p) >= alpha)
    BY <1>3 DEF LockedStation
  <2>2. s.p \in SUBSET MHs /\ t.p \in SUBSET s.p
    BY <1>1 DEF Stations
  <2>3. IsFiniteSet(s.p)
    BY <2>2, HostsFinite, FS_Subset
  <2>4. /\ Cardinality(t.p) \in Nat /\ Cardinality(s.p) \in Nat
        /\ Cardinality(t.p) <= Cardinality(s.p)
    BY <2>2, <2>3, Larger
  <2>5. s.endCollect => t.endCollect \/ Cardinality(s.p) >= alpha
    BY <1>1 DEF Enough
  <2>6. s.p \subseteq s.newV
    BY <1>1, <1>3, <2>1
  <2> QED
    BY <2>1, <2>4, <2>5, <2>6, ConsensusAssumption
<1>4. s.ts > 0 => s.v = V /\ L < K /\ s.endCollect
  BY <1>1 DEF LockedStation, Enough
<1> QED
  BY <1>1, <1>2, <1>3, <1>4 DEF LockedStation

LEMMA Proposing ==
  ASSUME NEW F \in [MSSs -> Stations], NEW q \in Seq(Messages), NEW b,
         NEW i \in MSSs, NEW free, NEW c, NEW M, Ok(F, q, b, i, free, c, M),
         NEW m \in Messages, m.type = "PROPOSE", NEW d \in onPropose(i, c, m)
  PROVE  Done(F, q, b, i, free, d)
<1>1. CASE c.st.endCollect
  BY <1>1, Ignored DEF onPropose
<1>2. CASE ~c.st.endCollect
  <2>1. PICK t, z, s, x : /\ t = c.st /\ z = {m.from} /\ s = Gathered(t, z, z)
                          /\ x = EstimateMessage(i, s, s.newV)
    OBVIOUS
  <2>2. /\ t \in Stations /\ Turned(i, t)
        /\ t.decidedState => HasMajority(Moved(F, i, c))
        /\ \A K, L \in Rounds, V \in SUBSET MHs :
             LockedBy(Moved(F, i, c), M, K, L, V) =>
               LockedStation(i, t, M, K, L, V)
    BY <2>1, HasStation
  <2>3. z \in SUBSET MHs
    BY <2>1 DEF Messages, Decides, Estimates, NewEstimates, Acks, Quiet
  <2>4. /\ s \in Stations /\ s.roundPhase = t.roundPhase /\ s.v = t.v
        /\ s.roundR = t.roundR /\ s.decidedState = t.decidedState /\ s.ts = t.ts
        /\ s.p = t.p \cup z /\ s.newV = t.newV \cup z /\ s.log = t.log
        /\ s.nbPositiveAck = t.nbPositiveAck /\ s.nbNegativeAck = t.nbNegativeAck
        /\ s.endCollect = Enough(t, z)
    <3>1. t \in Stations /\ s = Gathered(t, z, z)
      BY <2>1, <2>2
    <3>2. s \in Stations /\ HasGathered(t, z, z, s)
      BY <2>3, <3>1, GatheredFields
    <3> QED
      BY <3>2 DEF HasGathered
  <2>5. Turned(i, s) /\ Onward(t, s)
    BY <2>2, <2>4 DEF Turned, Onward
  <2>6. ASSUME NEW K \in Rounds, NEW L \in Rounds, NEW V \in SUBSET MHs,
               LockedBy(Moved(F, i, c), M, K, L, V)
        PROVE  LockedStation(i, s, M, K, L, V)
    BY <2>1, <2>2, <2>3, <2>6, GatheredLocked
  <2>7. CASE s.roundPhase > 1
    <3>1. d = Send([c EXCEPT !.st = s], x)
      BY <1>2, <2>1, <2>7 DEF onPropose, Gathered, Widened
    <3>2. /\ x \in Messages /\ x.type = "ESTIMATE" /\ x.ts = s.ts /\ x.newV = s.newV
          /\ x.p = s.p /\ x.r = s.roundR
      <4>1. s.newV \in SUBSET MHs
        BY <2>4 DEF Stations
      <4> QED
        BY <2>1, <2>4, <4>1, MessageTypes DEF EstimateMessage
    <3>3. ASSUME NEW K \in Rounds, NEW L \in Rounds, NEW V \in SUBSET MHs,
                 LockedBy(Moved(F, i, c), M, K, L, V)
          PROVE  LockedMessage(x, K, L, V)
      <4>1. LockedStation(i, t, M, K, L, V)
        BY <2>2, <3>3
      <4>2. t.ts = 0 /\ t.roundR \in Nat
        <5>1. t.ts \in Nat /\ t.roundR \in Nat
          BY <2>2, CoordinatorType DEF Stations
        <5> QED
          BY <1>2, <2>1, <4>1, <5>1 DEF LockedStation
      <4>3. L \in Nat /\ Cardinality(Free(M, i, L)) \in Nat
            /\ Cardinality(Free(M, i, L)) <= L
        BY FreeBound, CoordinatorType
      <4>4. Turns(t) \in Nat /\ t.roundR <= Turns(t)
        BY <4>2 DEF Turns
      <4>5. x.ts = 0 /\ x.r <= L + 1
        BY <2>4, <3>2, <4>1, <4>2, <4>3, <4>4 DEF LockedStation
      <4>6. K = L => x.p \subseteq x.newV
        BY <2>4, <3>2, <4>1 DEF LockedStation
      <4> QED
        BY <3>2, <4>5, <4>6 DEF LockedMessage
    <3>4. Allowed(F, i, free, c, M, s, {x})
      <4>1. ~Token(x) /\ x.type # "DECIDE"
        BY <3>2 DEF Token
      <4>2. \A K, L \in Rounds, V \in SUBSET MHs :
              ~free /\ LockedBy(Moved(F, i, c), M, K, L, V) =>
                /\ LockedStation(i, s, M, K, L, V)
                /\ \A l \in {x} : LockedMessage(l, K, L, V)
        BY <2>6, <3>3
      <4>3. s.decidedState \/ (\E l \in {x} : l.type = "DECIDE")
              => HasMajority(Moved(F, i, c))
        BY <2>2, <2>4, <4>1
      <4>4. {x} \subseteq Messages /\ \A l \in {x} : ~Token(l)
        BY <3>2, <4>1
      <4> QED
        BY <2>1, <2>4, <2>5, <4>2, <4>3, <4>4 DEF Allowed
    <3> QED
      BY <3>1, <3>2, <3>4, HandledOne
  <2>8. CASE ~(s.roundPhase > 1)
    <3>1. d = [c EXCEPT !.st = s]
      BY <1>2, <2>1, <2>8 DEF onPropose, Gathered, Widened
    <3>2. Allowed(F, i, free, c, M, s, {})
      BY <2>1, <2>2, <2>4, <2>5, <2>6 DEF Allowed
    <3> QED
      BY <3>1, <3>2, HandledNone
  <2> QED
    BY <2>7, <2>8
<1> QED
  BY <1>1, <1>2

(* Messages without content, at any time. *)
LEMMA Spreads ==
  ASSUME NEW F \in [MSSs -> Stations], NEW q \in Seq(Messages), NEW b,
         NEW i \in MSSs, NEW free, NEW c, NEW M, Ok(F, q, b, i, free, c, M),
         NEW S \in SUBSET Quiet, IsFiniteSet(S)
  PROVE  Done(F, q, b, i, free, SendAll(c, S))
<1>1. PICK t : t = c.st
  OBVIOUS
<1>2. /\ t \in Stations /\ Turned(i, t)
      /\ t.decidedState => HasMajority(Moved(F, i, c))
      /\ \A K, L \in Rounds, V \in SUBSET MHs :
           LockedBy(Moved(F, i, c), M, K, L, V) =>
             LockedStation(i, t, M, K, L, V)
  BY <1>1, HasStation
<1>3. Onward(t, t)
  BY DEF Onward
<1>4. /\ S \in SUBSET Messages
      /\ \A m \in S : m.type \notin {"NEW_EST", "ACK", "DECIDE", "ESTIMATE"}
  BY DEF Messages, Quiet
<1>5. /\ \A m \in S : ~Token(m) /\ m.type # "DECIDE"
      /\ \A m \in S : \A K, L, V : LockedMessage(m, K, L, V)
  BY <1>4 DEF Token, LockedMessage
<1>6. Allowed(F, i, free, c, M, t, S)
  BY <1>1, <1>2, <1>3, <1>4, <1>5 DEF Allowed
<1>7. Done(F, q, b, i, free, SendAll([c EXCEPT !.st = t], S))
  BY <1>4, <1>6, HandledAll
<1>8. c \in Contexts /\ [c EXCEPT !.st = t] = c
  BY <1>1 DEF Ok, Contexts
<1> QED
  BY <1>7, <1>8

MayStart(c, free) == c.st.roundPhase = 0 => free \/ ~c.st.decidedState

LEMMA Initiating ==
  ASSUME NEW F \in [MSSs -> Stations], NEW q \in Seq(Messages), NEW b,
         NEW i \in MSSs, NEW free, NEW c, NEW M, Ok(F, q, b, i, free, c, M),
         MayStart(c, free),
         connectedMSS \in [MHs -> MSSs],
         NEW d \in onInit(i, c)
  PROVE  Done(F, q, b, i, free, d)
<1>1. CASE c.st.roundPhase # 0
  BY <1>1, Ignored DEF onInit
<1>2. CASE c.st.roundPhase = 0
  <2>1. PICK S, e : S = {Init2Message(i, j) : j \in Others(i)} /\ e = SendAll(c, S)
    OBVIOUS
  <2>2. S \in SUBSET Quiet /\ IsFiniteSet(S)
    <3>1. Others(i) \subseteq MSSs
      BY DEF Others
    <3>2. S \subseteq Quiet
      BY <2>1, <3>1 DEF Init2Message, Quiet
    <3>3. IsFiniteSet(S)
      BY <2>1, OthersFinite
    <3> QED
      BY <3>2, <3>3
  <2>3. Done(F, q, b, i, free, e) /\ e.st = c.st
    <3>1. e = SendAll(c, S)
      BY <2>1
    <3>2. Done(F, q, b, i, free, e)
      BY <2>2, <3>1, Spreads
    <3>3. c \in Contexts
      BY DEF Ok
    <3>4. e.st = c.st
      BY <3>1, <3>3 DEF SendAll, Contexts
    <3> QED
      BY <3>2, <3>4
  <2>4. PICK g \in StartRound(i, e) :
          d = IF g.st.endCollect THEN g ELSE BroadcastInit3(i, g)
    BY <1>2, <2>1 DEF onInit
  <2>5. Done(F, q, b, i, free, g)
    <3>1. e.st.roundPhase = 0 /\ (free \/ ~e.st.decidedState)
      BY <1>2, <2>3 DEF MayStart
    <3> QED
      BY <2>3, <3>1, Leaves
  <2>6. PICK T : T = {Init3Message(i, h) : h \in {k \in MHs : connectedMSS[k] = i}}
    OBVIOUS
  <2>7. T \in SUBSET Quiet /\ IsFiniteSet(T)
    <3>1. PICK H \in SUBSET MHs : H = {k \in MHs : connectedMSS[k] = i}
      OBVIOUS
    <3>2. T = {Init3Message(i, h) : h \in H}
      BY <2>6, <3>1
    <3>3. T \subseteq Quiet
      BY <3>1, <3>2 DEF Init3Message, Quiet
    <3>4. IsFiniteSet(H)
      BY <3>1, HostsFinite, FS_Subset
    <3>5. PICK f : f = [h \in H |-> Init3Message(i, h)]
      OBVIOUS
    <3>6. T = {f[h] : h \in H} /\ f = [h \in H |-> f[h]]
      BY <3>2, <3>5
    <3> QED
      BY <3>3, <3>4, <3>6, ImageFinite
  <2>8. PICK N : Ok(F, q, b, i, free, g, N)
    BY <2>5 DEF Done
  <2>9. Done(F, q, b, i, free, BroadcastInit3(i, g))
    BY <2>6, <2>7, <2>8, Spreads DEF BroadcastInit3
  <2> QED
    BY <2>4, <2>5, <2>9
<1> QED
  BY <1>1, <1>2

LEMMA Informed ==
  ASSUME NEW F \in [MSSs -> Stations], NEW q \in Seq(Messages), NEW b,
         NEW i \in MSSs, NEW free, NEW c, NEW M, Ok(F, q, b, i, free, c, M),
         NEW m \in M, m.type = "DECIDE", c.st.roundR <= MaxRound,
         NEW d \in onDecide(i, c, m)
  PROVE  Done(F, q, b, i, free, d)
<1>1. CASE c.st.decidedState
  BY <1>1, Ignored DEF onDecide
<1>2. CASE ~c.st.decidedState
  <2>1. PICK t, v, s, S : /\ t = c.st /\ v = m.v /\ s = Decided(t, v)
                          /\ S = ToldDecision(i, s)
    OBVIOUS
  <2>2. t \in Stations /\ M \subseteq Messages
    BY <2>1, HasStation
  <2>3. v \in SUBSET MHs
    BY <2>1, <2>2 DEF Messages, Decides, Estimates, NewEstimates, Acks, Quiet
  <2>4. HasMajority(Moved(F, i, c))
    BY DEF Ok, Good, Grounded
  <2>5. \A K, L \in Rounds, V \in SUBSET MHs :
          ~free /\ LockedBy(Moved(F, i, c), M, K, L, V) => v = V /\ L < K
    BY <2>1 DEF LockedBy, LockedMessage
  <2>6. Done(F, q, b, i, free, SendAll([c EXCEPT !.st = s], S))
    <3>1. s = Decided(c.st, v)
      BY <2>1
    <3>2. S = ToldDecision(i, s)
      BY <2>1
    <3> QED
      BY <2>3, <2>4, <2>5, <3>1, <3>2, Deciding
  <2>7. d = SendAll([c EXCEPT !.st = s], S)
    BY <1>2, <2>1 DEF onDecide, Decided, ToldDecision
  <2> QED
    BY <2>6, <2>7
<1> QED
  BY <1>1, <1>2

(* An estimate in the log of the coordinator. *)
Entries == [mssNode : MSSs, v : SUBSET MHs, ts : Rounds]

LEMMA LoggedIs ==
  ASSUME NEW entries \in Logs, NEW e \in Entries
  PROVE  /\ Logged(entries, e) \in Logs
         /\ \A f \in BagToSet(Logged(entries, e)) : f \in BagToSet(entries) \/ f = e
<1>1. PICK A \in SUBSET Entries : entries \in [A -> Nat \ {0}]
  BY DEF Logs, Entries
<1>2. IsABag(entries) /\ BagToSet(entries) = A
  BY <1>1 DEF IsABag, BagToSet
<1>3. PICK all : all = Put(entries, e)
  OBVIOUS
<1>4. IsABag(all) /\ \A f : f \in BagToSet(all) <=> f \in BagToSet(entries) \/ f = e
  BY <1>2, <1>3, BagPut
<1>5. BagToSet(all) \subseteq Entries /\ all \in [BagToSet(all) -> Nat \ {0}]
  BY <1>1, <1>2, <1>4 DEF IsABag, BagToSet
<1>6. PICK D \in SUBSET BagToSet(all) : Logged(entries, e) = [f \in D |-> all[f]]
  <2>1. PICK R, l : /\ R = {f \in BagToSet(all) : f.mssNode = e.mssNode /\ f.ts = e.ts}
                    /\ l = Max({Cardinality(f.v) : f \in R})
    OBVIOUS
  <2>2. Logged(entries, e)
          = [f \in {g \in BagToSet(all) : g \in R => Cardinality(g.v) = l} |-> all[f]]
    BY <1>3, <2>1 DEF Logged, Put
  <2> QED
    BY <2>2
<1>7. PICK z : z = Logged(entries, e)
  OBVIOUS
<1>8. z \in [D -> Nat \ {0}] /\ D \in SUBSET Entries
  BY <1>5, <1>6, <1>7
<1>9. z \in Logs /\ BagToSet(z) = D
  BY <1>8 DEF Logs, Entries, BagToSet
<1> QED
  BY <1>4, <1>6, <1>7, <1>9

Noted(t, r, z) == [t EXCEPT !.log[r] = z]

LEMMA NotedFields ==
  ASSUME NEW t \in Stations, NEW r \in Rounds, NEW z \in Logs,
         NEW s, s = Noted(t, r, z)
  PROVE  /\ s \in Stations /\ s.roundPhase = t.roundPhase /\ s.v = t.v
         /\ s.roundR = t.roundR /\ s.decidedState = t.decidedState /\ s.ts = t.ts
         /\ s.p = t.p /\ s.newV = t.newV /\ s.endCollect = t.endCollect
         /\ s.nbPositiveAck = t.nbPositiveAck /\ s.nbNegativeAck = t.nbNegativeAck
         /\ \A k \in Rounds : s.log[k] = IF k = r THEN z ELSE t.log[k]
<1>1. PICK g : g = [t.log EXCEPT ![r] = z]
  OBVIOUS
<1>2. g \in [Rounds -> Logs] /\ \A k \in Rounds : g[k] = IF k = r THEN z ELSE t.log[k]
  <2>1. t.log \in [Rounds -> Logs]
    BY DEF Stations
  <2> QED
    BY <1>1, <2>1
<1>3. s = [t EXCEPT !.log = g]
  BY <1>1 DEF Noted, Stations
<1>4. s \in Stations
  BY <1>2, <1>3 DEF Stations
<1>5. /\ s.roundPhase = t.roundPhase /\ s.v = t.v
      /\ s.roundR = t.roundR /\ s.decidedState = t.decidedState /\ s.ts = t.ts
      /\ s.p = t.p /\ s.newV = t.newV /\ s.endCollect = t.endCollect
      /\ s.nbPositiveAck = t.nbPositiveAck /\ s.nbNegativeAck = t.nbNegativeAck
      /\ s.log = g
  BY <1>3 DEF Stations
<1> QED
  BY <1>2, <1>4, <1>5

LEMMA NotedLocked ==
  ASSUME NEW i \in MSSs, NEW t \in Stations, NEW r \in Rounds, NEW z \in Logs,
         NEW s, s = Noted(t, r, z), NEW M, NEW K, NEW L, NEW V,
         LockedStation(i, t, M, K, L, V),
         \A f \in BagToSet(z) : \/ f \in BagToSet(t.log[r])
                                \/ IF f.ts = 0 THEN r <= L + 1 ELSE f.v = V /\ L < K
  PROVE  LockedStation(i, s, M, K, L, V)
<1>1. /\ s \in Stations /\ s.roundPhase = t.roundPhase /\ s.v = t.v
      /\ s.roundR = t.roundR /\ s.decidedState = t.decidedState /\ s.ts = t.ts
      /\ s.p = t.p /\ s.newV = t.newV /\ s.endCollect = t.endCollect
      /\ s.nbPositiveAck = t.nbPositiveAck /\ s.nbNegativeAck = t.nbNegativeAck
      /\ \A k \in Rounds : s.log[k] = IF k = r THEN z ELSE t.log[k]
  BY NotedFields
<1>2. Turns(s) = Turns(t)
  BY <1>1 DEF Turns
<1>3. \A k \in Rounds : \A f \in BagToSet(s.log[k]) :
        IF f.ts = 0 THEN k <= L + 1 ELSE f.v = V /\ L < K
  BY <1>1 DEF LockedStation
<1> QED
  BY <1>1, <1>2, <1>3 DEF LockedStation

LEMMA Estimating ==
  ASSUME NEW F \in [MSSs -> Stations], NEW q \in Seq(Messages), NEW b,
         NEW i \in MSSs, NEW free, NEW c, NEW M, Ok(F, q, b, i, free, c, M),
         NEW m \in M, m.type = "ESTIMATE", NEW d \in onEstimate(i, c, m)
  PROVE  Done(F, q, b, i, free, d)
<1>1. PICK t, r, e, z, s, p, newV, u :
        /\ t = c.st /\ r = m.r /\ e = [mssNode |-> m.from, v |-> m.newV, ts |-> m.ts]
        /\ z = Logged(t.log[r], e) /\ s = Noted(t, r, z)
        /\ p = m.p /\ newV = m.newV /\ u = Gathered(s, p, newV)
  OBVIOUS
<1>2. /\ t \in Stations /\ Turned(i, t) /\ M \subseteq Messages
      /\ t.decidedState => HasMajority(Moved(F, i, c))
      /\ \A K, L \in Rounds, V \in SUBSET MHs :
           LockedBy(Moved(F, i, c), M, K, L, V) =>
             LockedStation(i, t, M, K, L, V)
  BY <1>1, HasStation
<1>3. /\ r \in Rounds /\ e \in Entries /\ e.ts = m.ts /\ e.v = m.newV
      /\ p \in SUBSET MHs /\ newV \in SUBSET MHs
  <2>1. m \in Estimates
    BY <1>2 DEF Messages, Decides, Estimates, NewEstimates, Acks, Quiet
  <2> QED
    BY <1>1, <2>1 DEF Estimates, Entries
<1>4. z \in Logs /\ \A f \in BagToSet(z) : f \in BagToSet(t.log[r]) \/ f = e
  <2>1. t.log[r] \in Logs
    BY <1>2, <1>3 DEF Stations
  <2> QED
    BY <1>1, <1>3, <2>1, LoggedIs
<1>5. /\ s \in Stations /\ s.roundPhase = t.roundPhase /\ s.v = t.v
      /\ s.roundR = t.roundR /\ s.decidedState = t.decidedState /\ s.ts = t.ts
      /\ s.p = t.p /\ s.newV = t.newV /\ s.endCollect = t.endCollect
      /\ s.nbPositiveAck = t.nbPositiveAck /\ s.nbNegativeAck = t.nbNegativeAck
  <2>1. s = Noted(t, r, z)
    BY <1>1
  <2> QED
    BY <1>2, <1>3, <1>4, <2>1, NotedFields
<1>6. ASSUME NEW K \in Rounds, NEW L \in Rounds, NEW V \in SUBSET MHs,
             LockedBy(Moved(F, i, c), M, K, L, V)
      PROVE  LockedStation(i, s, M, K, L, V) /\ (K = L => p \subseteq newV)
  <2>1. LockedStation(i, t, M, K, L, V)
    BY <1>2, <1>6
  <2>2. LockedMessage(m, K, L, V)
    BY <1>6 DEF LockedBy
  <2>3. /\ IF e.ts = 0 THEN r <= L + 1 ELSE e.v = V /\ L < K
        /\ K = L => p \subseteq newV
    BY <1>1, <1>3, <2>2 DEF LockedMessage
  <2>4. s = Noted(t, r, z)
    BY <1>1
  <2> QED
    BY <1>2, <1>3, <1>4, <2>1, <2>3, <2>4, NotedLocked
<1>7. CASE t.endCollect
  <2>1. d = [c EXCEPT !.st = s]
    <3>1. d = [c EXCEPT !.st =
                 IF [c.st EXCEPT !.log[m.r] = Logged(@, e)].endCollect
                 THEN [c.st EXCEPT !.log[m.r] = Logged(@, e)] ELSE u]
      BY <1>1 DEF onEstimate, Gathered, Widened, Noted
    <3>2. [c.st EXCEPT !.log[m.r] = Logged(@, e)] = s
      BY <1>1 DEF Noted
    <3> QED
      BY <1>5, <1>7, <3>1, <3>2
  <2>2. Turned(i, s) /\ Onward(t, s)
    BY <1>2, <1>5 DEF Turned, Onward
  <2>3. Allowed(F, i, free, c, M, s, {})
    BY <1>1, <1>2, <1>5, <1>6, <2>2 DEF Allowed
  <2> QED
    BY <2>1, <2>3, HandledNone
<1>8. CASE ~t.endCollect
  <2>1. /\ u \in Stations /\ u.roundPhase = s.roundPhase /\ u.roundR = s.roundR
        /\ u.decidedState = s.decidedState
        /\ u.nbPositiveAck = s.nbPositiveAck /\ u.nbNegativeAck = s.nbNegativeAck
    <3>1. s \in Stations /\ u = Gathered(s, p, newV)
      BY <1>1, <1>5
    <3>2. u \in Stations /\ HasGathered(s, p, newV, u)
      BY <1>3, <3>1, GatheredFields
    <3> QED
      BY <3>2 DEF HasGathered
  <2>2. d = [c EXCEPT !.st = u]
    <3>1. [c.st EXCEPT !.log[m.r] = Logged(@, e)] = s
      BY <1>1 DEF Noted
    <3>2. d = [c EXCEPT !.st = IF s.endCollect THEN s ELSE u]
      BY <1>1, <3>1 DEF onEstimate, Gathered, Widened
    <3> QED
      BY <1>5, <1>8, <3>2
  <2>3. Turned(i, u) /\ Onward(t, u)
    BY <1>2, <1>5, <2>1 DEF Turned, Onward
  <2>4. \A K, L \in Rounds, V \in SUBSET MHs :
          LockedBy(Moved(F, i, c), M, K, L, V) => LockedStation(i, u, M, K, L, V)
    <3>1. u = Gathered(s, p, newV)
      BY <1>1
    <3> QED
      BY <1>3, <1>5, <1>6, <3>1, GatheredLocked
  <2>5. Allowed(F, i, free, c, M, u, {})
    BY <1>1, <1>2, <1>5, <2>1, <2>3, <2>4 DEF Allowed
  <2> QED
    BY <2>2, <2>5, HandledNone
<1> QED
  BY <1>7, <1>8

(* A handler begins: the message m has left the network. *)
Begun(F, i) == [st |-> F[i], out |-> <<>>]

LEMMA Begins ==
  ASSUME NEW F, NEW M, Good(F, M), NEW q, NEW b, NEW m, Removed(m, q, b, M),
         NEW free, free \/ Locked(F, M), NEW i \in MSSs, NEW c, c = Begun(F, i)
  PROVE  Ok(F, q, b, i, free, c, M) /\ Flying(Joined(q, c.out), b) = Flying(q, b)
<1>1. F \in [MSSs -> Stations] /\ q \in Seq(Messages)
  BY DEF Good, Typed, Removed
<1>2. c.st = F[i] /\ c.out = <<>> /\ c \in Contexts
  BY <1>1 DEF Begun, Contexts
<1>3. Moved(F, i, c) = F
  BY <1>1, <1>2 DEF Moved
<1>4. Joined(q, c.out) = q
  BY <1>1, <1>2 DEF Joined
<1>5. Unique(q, b) /\ Flying(q, b) \subseteq M
  BY DEF Removed
<1> QED
  BY <1>2, <1>3, <1>4, <1>5 DEF Ok

(* The coordinator counts an acknowledgement. *)
Counts(t, m) ==
  IF m.positive THEN [t EXCEPT !.nbPositiveAck[m.r] = @ + 1]
                ELSE [t EXCEPT !.nbNegativeAck[m.r] = @ + 1]

HasCounted(t, m, s) ==
  /\ s.roundPhase = t.roundPhase /\ s.v = t.v
  /\ s.roundR = t.roundR /\ s.decidedState = t.decidedState /\ s.ts = t.ts
  /\ s.p = t.p /\ s.newV = t.newV /\ s.endCollect = t.endCollect /\ s.log = t.log
  /\ \A k \in Rounds :
       /\ s.nbPositiveAck[k]
            = IF k = m.r /\ m.positive THEN t.nbPositiveAck[k] + 1 ELSE t.nbPositiveAck[k]
       /\ s.nbNegativeAck[k]
            = IF k = m.r /\ ~m.positive THEN t.nbNegativeAck[k] + 1 ELSE t.nbNegativeAck[k]

LEMMA CountsFields ==
  ASSUME NEW t \in Stations, NEW m, m.r \in Rounds, NEW s, s = Counts(t, m)
  PROVE  s \in Stations /\ HasCounted(t, m, s)
<1>1. /\ t.nbPositiveAck \in [Rounds -> Nat] /\ t.nbNegativeAck \in [Rounds -> Nat]
  BY DEF Stations
<1>2. CASE m.positive
  <2>1. PICK g : g = [t.nbPositiveAck EXCEPT ![m.r] = @ + 1]
    OBVIOUS
  <2>2. g \in [Rounds -> Nat]
        /\ \A k \in Rounds : g[k] = IF k = m.r THEN t.nbPositiveAck[k] + 1
                                               ELSE t.nbPositiveAck[k]
    BY <1>1, <2>1
  <2>3. s = [t EXCEPT !.nbPositiveAck = g]
    BY <1>2, <2>1 DEF Counts, Stations
  <2>4. s \in Stations
    BY <2>2, <2>3 DEF Stations
  <2>5. /\ s.roundPhase = t.roundPhase /\ s.v = t.v
        /\ s.roundR = t.roundR /\ s.decidedState = t.decidedState /\ s.ts = t.ts
        /\ s.p = t.p /\ s.newV = t.newV /\ s.endCollect = t.endCollect
        /\ s.log = t.log /\ s.nbPositiveAck = g /\ s.nbNegativeAck = t.nbNegativeAck
    BY <2>3 DEF Stations
  <2> QED
    BY <1>2, <2>2, <2>4, <2>5 DEF HasCounted
<1>3. CASE ~m.positive
  <2>1. PICK g : g = [t.nbNegativeAck EXCEPT ![m.r] = @ + 1]
    OBVIOUS
  <2>2. g \in [Rounds -> Nat]
        /\ \A k \in Rounds : g[k] = IF k = m.r THEN t.nbNegativeAck[k] + 1
                                               ELSE t.nbNegativeAck[k]
    BY <1>1, <2>1
  <2>3. s = [t EXCEPT !.nbNegativeAck = g]
    BY <1>3, <2>1 DEF Counts, Stations
  <2>4. s \in Stations
    BY <2>2, <2>3 DEF Stations
  <2>5. /\ s.roundPhase = t.roundPhase /\ s.v = t.v
        /\ s.roundR = t.roundR /\ s.decidedState = t.decidedState /\ s.ts = t.ts
        /\ s.p = t.p /\ s.newV = t.newV /\ s.endCollect = t.endCollect
        /\ s.log = t.log /\ s.nbPositiveAck = t.nbPositiveAck /\ s.nbNegativeAck = g
    BY <2>3 DEF Stations
  <2> QED
    BY <1>3, <2>2, <2>4, <2>5 DEF HasCounted
<1> QED
  BY <1>2, <1>3

LEMMA CountedGood ==
  ASSUME NEW F, NEW M, Good(F, M), NEW i \in MSSs, NEW m \in M, m.type = "ACK",
         m.to = i, NEW N \in SUBSET M, \A l \in N : ~Same(l, m),
         NEW s, s = Counts(F[i], m)
  PROVE  /\ Good([F EXCEPT ![i] = s], N)
         /\ Locked(F, M) => Locked([F EXCEPT ![i] = s], N)
<1>1. PICK t, R, G : t = F[i] /\ R = m.r /\ G = [F EXCEPT ![i] = s]
  OBVIOUS
<1>2. F \in [MSSs -> Stations] /\ M \subseteq Messages /\ t \in Stations
  BY <1>1 DEF Good, Typed
<1>3. R \in Rounds /\ R \in Nat /\ m.from \in MSSs /\ m \in Messages
  BY <1>1, <1>2, CoordinatorType
     DEF Messages, Decides, Estimates, NewEstimates, Acks, Quiet
<1>4. s \in Stations /\ HasCounted(t, m, s)
  BY <1>1, <1>2, <1>3, CountsFields
<1>5. /\ s.roundPhase = t.roundPhase /\ s.v = t.v
      /\ s.roundR = t.roundR /\ s.decidedState = t.decidedState /\ s.ts = t.ts
      /\ s.p = t.p /\ s.newV = t.newV /\ s.endCollect = t.endCollect
      /\ s.log = t.log
  BY <1>4 DEF HasCounted
<1>6. \A k \in Rounds :
        /\ t.nbPositiveAck[k] \in Nat /\ t.nbNegativeAck[k] \in Nat
        /\ s.nbPositiveAck[k] \in Nat /\ s.nbNegativeAck[k] \in Nat
        /\ s.nbPositiveAck[k]
             = IF k = R /\ m.positive THEN t.nbPositiveAck[k] + 1 ELSE t.nbPositiveAck[k]
        /\ s.nbNegativeAck[k]
             = IF k = R /\ ~m.positive THEN t.nbNegativeAck[k] + 1
                                       ELSE t.nbNegativeAck[k]
  BY <1>1, <1>2, <1>4 DEF HasCounted, Stations
<1>7. G[i] = s /\ G \in [MSSs -> Stations] /\ \A j \in MSSs : j # i => G[j] = F[j]
  BY <1>1, <1>2, <1>4
<1>8. Onward(t, s)
  BY <1>5 DEF Onward
<1>9. \A r \in Rounds : Past(F, r) => Past(G, r)
  BY <1>1, <1>2, <1>4, <1>8, PastStays
<1>10. Typed(G, N) /\ \A j \in MSSs : Turned(j, G[j])
  <2>1. Turned(i, t)
    BY <1>1 DEF Good
  <2>2. Turned(i, s)
    BY <1>5, <2>1 DEF Turned
  <2> QED
    BY <1>2, <1>7, <2>2 DEF Good, Typed
<1>11. \A l \in N : l.type \in {"NEW_EST", "ACK"} => l \in M /\ l.r \in Rounds
  BY <1>2 DEF Messages, Decides, Estimates, NewEstimates, Acks, Quiet
<1>12. Proposals(G, N)
  <2>1. Proposals(F, M)
    BY DEF Good
  <2> QED
    BY <1>9, <1>11, <2>1 DEF Proposals
<1>13. Counted(F, M)
  BY DEF Good
<1>14. Counted(G, N)
  <2>1. ASSUME NEW l \in N, l.type = "ACK"
        PROVE  /\ l.to = findCoordinator(l.r) /\ l.from # l.to
               /\ l.r > 0 /\ Past(G, l.r)
    BY <1>9, <1>11, <1>13, <2>1 DEF Counted
  <2>2. ASSUME NEW j \in MSSs, NEW r \in Rounds,
               NEW k, k = G[j].nbPositiveAck[r] + G[j].nbNegativeAck[r]
        PROVE  /\ k <= Cardinality(Answered(N, j, r))
               /\ k > 0 => j = findCoordinator(r) /\ Past(G, r)
    <3>1. PICK h : h = F[j].nbPositiveAck[r] + F[j].nbNegativeAck[r]
      OBVIOUS
    <3>2. /\ h <= Cardinality(Answered(M, j, r))
          /\ h > 0 => j = findCoordinator(r) /\ Past(F, r)
      BY <1>13, <3>1 DEF Counted
    <3>3. /\ Cardinality(Answered(M, j, r)) \in Nat
          /\ Cardinality(Answered(N, j, r)) \in Nat
          /\ Cardinality(Answered(M, j, r)) <= Cardinality(Answered(N, j, r))
      BY FewerAnswers
    <3>4. h \in Nat
      <4>1. F[j].nbPositiveAck[r] \in Nat /\ F[j].nbNegativeAck[r] \in Nat
        BY <1>2 DEF Stations
      <4> QED
        BY <3>1, <4>1
    <3>5. CASE j = i /\ r = R
      <4>1. k = h + 1
        BY <1>1, <1>6, <1>7, <2>2, <3>1, <3>5
      <4>2. /\ m.to = findCoordinator(m.r) /\ m.from # m.to /\ Past(F, m.r)
        BY <1>13 DEF Counted
      <4>3. Answered(M, j, r) \in SUBSET Answered(N, j, r)
        BY DEF Answered
      <4>4. m.from \in Answered(N, j, r) /\ m.from \notin Answered(M, j, r)
        <5>1. Token(m) /\ Slot(m) = <<r, m.from>>
          BY <1>1, <3>5 DEF Token, Slot
        <5>2. \A l \in N : Token(l) => Slot(l) # <<r, m.from>>
          BY <5>1 DEF Same
        <5> QED
          BY <1>3, <3>5, <4>2, <5>1, <5>2 DEF Answered
      <4>5. IsFiniteSet(Answered(N, j, r))
        <5>1. Answered(N, j, r) \in SUBSET MSSs
          BY DEF Answered
        <5> QED
          BY <5>1, StationsFinite, FS_Subset
      <4>6. Cardinality(Answered(M, j, r)) + 1 <= Cardinality(Answered(N, j, r))
        BY <4>3, <4>4, <4>5, LargerByOne
      <4>7. k <= Cardinality(Answered(N, j, r))
        BY <3>2, <3>3, <3>4, <4>1, <4>6
      <4>8. j = findCoordinator(r) /\ Past(G, r)
        BY <1>1, <1>9, <3>5, <4>2
      <4> QED
        BY <4>7, <4>8
    <3>6. CASE ~(j = i /\ r = R)
      <4>1. k = h
        BY <1>1, <1>6, <1>7, <2>2, <3>1, <3>6
      <4> QED
        BY <1>9, <3>2, <3>3, <3>4, <4>1
    <3> QED
      BY <3>5, <3>6
  <2> QED
    BY <2>1, <2>2 DEF Counted
<1>15. Unanimous(G, N)
  <2>1. ASSUME NEW r \in Rounds
        PROVE  /\ Positive(G, N, r) => Positive(F, M, r)
               /\ Negative(G, N, r) => Negative(F, M, r)
    <3>1. ASSUME NEW j \in MSSs, G[j].nbPositiveAck[r] > 0 PROVE Positive(F, M, r)
      <4>1. F[j].nbPositiveAck[r] > 0 \/ (r = m.r /\ m.positive)
        BY <1>1, <1>6, <1>7, <3>1
      <4> QED
        BY <4>1 DEF Positive
    <3>2. ASSUME NEW j \in MSSs, G[j].nbNegativeAck[r] > 0 PROVE Negative(F, M, r)
      <4>1. F[j].nbNegativeAck[r] > 0 \/ (r = m.r /\ ~m.positive)
        BY <1>1, <1>6, <1>7, <3>2
      <4> QED
        BY <4>1 DEF Negative
    <3>3. Positive(G, N, r) => Positive(F, M, r)
      BY <3>1 DEF Positive
    <3>4. Negative(G, N, r) => Negative(F, M, r)
      BY <3>2 DEF Negative
    <3> QED
      BY <3>3, <3>4
  <2>2. Unanimous(F, M)
    BY DEF Good
  <2> QED
    BY <2>1, <2>2 DEF Unanimous
<1>16. Grounded(G, N)
  <2>1. ASSUME HasMajority(F) PROVE HasMajority(G)
    <3>1. PICK j \in MSSs, r \in Rounds : Majority(F[j].nbPositiveAck[r])
      BY <2>1 DEF HasMajority
    <3>2. /\ F[j].nbPositiveAck[r] \in Nat /\ G[j].nbPositiveAck[r] \in Nat
          /\ F[j].nbPositiveAck[r] <= G[j].nbPositiveAck[r]
      <4>1. F[j].nbPositiveAck[r] \in Nat
        BY <1>2 DEF Stations
      <4>2. CASE j = i
        BY <1>1, <1>6, <1>7, <4>2
      <4>3. CASE j # i
        BY <1>7, <4>1, <4>3
      <4> QED
        BY <4>2, <4>3
    <3>3. Majority(G[j].nbPositiveAck[r])
      BY <3>1, <3>2, ConsensusAssumption DEF Majority
    <3> QED
      BY <3>3 DEF HasMajority
  <2>2. Grounded(F, M)
    BY DEF Good
  <2>3. \A j \in MSSs : G[j].decidedState => F[j].decidedState
    BY <1>1, <1>5, <1>7
  <2> QED
    BY <2>1, <2>2, <2>3 DEF Grounded
<1>17. ASSUME Locked(F, M) PROVE Locked(G, N)
  <2>1. PICK K \in Rounds, L \in Rounds, V \in SUBSET MHs : LockedBy(F, M, K, L, V)
    BY <1>17 DEF Locked
  <2>2. LockedStation(i, t, M, K, L, V) /\ LockedMessage(m, K, L, V)
    BY <1>1, <2>1 DEF LockedBy
  <2>3. Turns(s) = Turns(t)
    BY <1>5 DEF Turns
  <2>4. \A r \in Rounds : s.nbPositiveAck[r] > 0 => L < r /\ r <= K
    BY <1>1, <1>6, <2>2 DEF LockedStation, LockedMessage
  <2>5. LockedStation(i, s, M, K, L, V)
    BY <1>5, <2>2, <2>3, <2>4 DEF LockedStation
  <2>6. LockedBy(G, N, K, L, V)
    BY <1>1, <1>2, <1>4, <1>8, <2>1, <2>5, LockedStays
  <2> QED
    BY <2>6 DEF Locked
<1> QED
  BY <1>1, <1>10, <1>12, <1>14, <1>15, <1>16, <1>17 DEF Good

LEMMA Counting ==
  ASSUME NEW F, NEW M, Good(F, M), NEW q, NEW b, NEW m, Removed(m, q, b, M),
         NEW free, free \/ Locked(F, M), NEW i \in MSSs, NEW c, c = Begun(F, i),
         m.type = "ACK", m.to = i, NEW d \in onAck(c, m)
  PROVE  Done(F, q, b, i, free, d)
<1>1. PICK s, N : s = Counts(F[i], m) /\ N = Flying(q, b)
  OBVIOUS
<1>2. F \in [MSSs -> Stations] /\ M \subseteq Messages
  BY DEF Good, Typed
<1>3. m \in M /\ N \in SUBSET M /\ \A l \in N : ~Same(l, m)
  BY <1>1 DEF Removed
<1>4. Good([F EXCEPT ![i] = s], N) /\ (Locked(F, M) => Locked([F EXCEPT ![i] = s], N))
  BY <1>1, <1>3, CountedGood
<1>5. d = [c EXCEPT !.st = s]
  BY <1>1 DEF onAck, Counts, Begun
<1>6. d.st = s /\ d.out = <<>>
  BY <1>5 DEF Begun
<1>7. s \in Stations
  <2>1. m.r \in Rounds
    BY <1>2, <1>3 DEF Messages, Decides, Estimates, NewEstimates, Acks, Quiet
  <2> QED
    BY <1>1, <1>2, <2>1, CountsFields
<1>8. Unique(q, b) /\ Joined(q, d.out) = q
  BY <1>6 DEF Removed, Joined
<1>9. Moved(F, i, d) = [F EXCEPT ![i] = s]
  BY <1>6 DEF Moved
<1>10. d \in Contexts
  <2>1. d = [st |-> s, out |-> <<>>]
    BY <1>5 DEF Begun
  <2>2. <<>> \in Seq(Messages)
    OBVIOUS
  <2> QED
    BY <1>7, <2>1, <2>2 DEF Contexts
<1> QED
  BY <1>1, <1>4, <1>8, <1>9, <1>10 DEF Done, Ok

(* A station takes a proposal. *)
Adopted(t, m) == [t EXCEPT !.v = m.v, !.ts = m.r, !.endCollect = TRUE]
Took(t, m) == IF m.endCollect THEN Adopted(t, m) ELSE Gathered(t, m.p, m.v)
AtPhase(t, k) == [t EXCEPT !.roundPhase = k]

HasTaken(t, m, s) ==
  /\ s.roundPhase = t.roundPhase /\ s.roundR = t.roundR
  /\ s.decidedState = t.decidedState /\ s.log = t.log
  /\ s.nbPositiveAck = t.nbPositiveAck /\ s.nbNegativeAck = t.nbNegativeAck

LEMMA TookFields ==
  ASSUME NEW t \in Stations, NEW m \in NewEstimates, NEW s, s = Took(t, m)
  PROVE  s \in Stations /\ HasTaken(t, m, s) /\ (s.ts = 0 => ~m.endCollect \/ m.r = 0)
<1>1. m.v \in SUBSET MHs /\ m.p \in SUBSET MHs /\ m.r \in Rounds
  BY DEF NewEstimates
<1>2. CASE m.endCollect
  <2>1. PICK a : a = [t EXCEPT !.v = m.v]
    OBVIOUS
  <2>2. PICK e : e = [a EXCEPT !.ts = m.r]
    OBVIOUS
  <2>3. a \in Stations
    BY <1>1, <2>1 DEF Stations
  <2>4. e \in Stations
    BY <1>1, <2>2, <2>3 DEF Stations
  <2>5. s = Adopted(t, m)
    BY <1>2 DEF Took
  <2>6. s = [e EXCEPT !.endCollect = TRUE]
    BY <2>1, <2>2, <2>5 DEF Adopted, Stations
  <2>7. s \in Stations
    BY <2>4, <2>6 DEF Stations
  <2>8. /\ s.roundPhase = t.roundPhase /\ s.roundR = t.roundR
        /\ s.decidedState = t.decidedState /\ s.log = t.log
        /\ s.nbPositiveAck = t.nbPositiveAck /\ s.nbNegativeAck = t.nbNegativeAck
        /\ s.ts = m.r
    BY <2>5 DEF Adopted, Stations
  <2> QED
    BY <2>7, <2>8 DEF HasTaken
<1>3. CASE ~m.endCollect
  <2>1. PICK p, v : p = m.p /\ v = m.v /\ s = Gathered(t, p, v)
    BY <1>3 DEF Took
  <2>2. p \in SUBSET MHs /\ v \in SUBSET MHs /\ s = Gathered(t, p, v)
    BY <1>1, <2>1
  <2>3. s \in Stations /\ HasGathered(t, p, v, s)
    BY <2>2, GatheredFields
  <2> QED
    BY <1>3, <2>3 DEF HasGathered, HasTaken
<1> QED
  BY <1>2, <1>3

LEMMA TookLocked ==
  ASSUME NEW i \in MSSs, NEW t \in Stations, t.roundPhase = 3,
         NEW m \in NewEstimates, m.type = "NEW_EST",
         NEW s, s = Took(t, m), NEW M,
         NEW K \in Rounds, NEW L \in Rounds, NEW V \in SUBSET MHs,
         LockedStation(i, t, M, K, L, V), LockedMessage(m, K, L, V)
  PROVE  /\ LockedStation(i, s, M, K, L, V)
         /\ m.r \in 1 .. K /\ (s.ts = 0 => m.r \in 1 .. L)
<1>1. s \in Stations /\ HasTaken(t, m, s) /\ (s.ts = 0 => ~m.endCollect \/ m.r = 0)
  BY TookFields
<1>2. K \in Nat /\ L \in Nat /\ m.r \in Nat
  BY CoordinatorType DEF NewEstimates
<1>3. /\ m.r \in 1 .. K /\ (m.endCollect <=> m.r > L)
      /\ m.endCollect => m.v = V
      /\ K = L => m.p \subseteq m.v
  BY DEF LockedMessage
<1>4. s.ts = 0 => m.r \in 1 .. L
  BY <1>1, <1>2, <1>3
<1>5. CASE m.endCollect
  <2>1. /\ s.v = m.v /\ s.ts = m.r /\ s.endCollect
    BY <1>5 DEF Took, Adopted, Stations
  <2>2. Turns(s) = Turns(t)
    BY <1>1 DEF HasTaken, Turns
  <2>3. L < K /\ s.v = V /\ s.ts > 0
    BY <1>2, <1>3, <1>5, <2>1
  <2> QED
    BY <1>1, <1>2, <1>3, <1>4, <2>1, <2>2, <2>3 DEF LockedStation, HasTaken
<1>6. CASE ~m.endCollect
  <2>1. PICK p, v : p = m.p /\ v = m.v
    OBVIOUS
  <2>2. p \in SUBSET MHs /\ v \in SUBSET MHs /\ (K = L => p \subseteq v)
    BY <1>3, <2>1 DEF NewEstimates
  <2>3. s = Gathered(t, p, v)
    BY <1>6, <2>1 DEF Took
  <2>4. LockedStation(i, s, M, K, L, V)
    BY <2>2, <2>3, GatheredLocked
  <2> QED
    BY <1>3, <1>4, <2>4
<1> QED
  BY <1>5, <1>6

LEMMA AtPhaseFields ==
  ASSUME NEW s \in Stations, NEW k \in {1, 4}, NEW u, u = AtPhase(s, k)
  PROVE  /\ u \in Stations /\ u.roundPhase = k /\ u.v = s.v /\ u.roundR = s.roundR
         /\ u.decidedState = s.decidedState /\ u.ts = s.ts /\ u.p = s.p
         /\ u.newV = s.newV /\ u.endCollect = s.endCollect /\ u.log = s.log
         /\ u.nbPositiveAck = s.nbPositiveAck /\ u.nbNegativeAck = s.nbNegativeAck
<1>1. u \in Stations
  <2>1. k \in 0 .. 4
    OBVIOUS
  <2> QED
    BY <2>1 DEF Stations, AtPhase
<1>2. /\ u.roundPhase = k /\ u.v = s.v /\ u.roundR = s.roundR
      /\ u.decidedState = s.decidedState /\ u.ts = s.ts /\ u.p = s.p
      /\ u.newV = s.newV /\ u.endCollect = s.endCollect /\ u.log = s.log
      /\ u.nbPositiveAck = s.nbPositiveAck /\ u.nbNegativeAck = s.nbNegativeAck
  BY DEF Stations, AtPhase
<1> QED
  BY <1>1, <1>2

(* One slot is free, so the station may have one turn more. *)
LEMMA FreeByOne ==
  ASSUME NEW M, NEW N, NEW i \in MSSs, NEW m \in M, m.type = "NEW_EST", m.to = i,
         \A l \in N : l.type = "NEW_EST" => l \in M /\ ~(l.r = m.r /\ l.to = i),
         NEW k \in Nat, m.r \in 1 .. k
  PROVE  /\ Cardinality(Free(M, i, k)) \in Nat /\ Cardinality(Free(N, i, k)) \in Nat
         /\ Cardinality(Free(M, i, k)) + 1 <= Cardinality(Free(N, i, k))
<1>1. Free(M, i, k) \in SUBSET Free(N, i, k)
  BY DEF Free
<1>2. m.r \in Free(N, i, k) /\ m.r \notin Free(M, i, k)
  BY DEF Free
<1>3. IsFiniteSet(Free(N, i, k))
  <2>1. Free(N, i, k) \in SUBSET (1 .. k)
    BY DEF Free
  <2>2. IsFiniteSet(1 .. k)
    BY FS_Interval
  <2> QED
    BY <2>1, <2>2, Larger
<1> QED
  BY <1>1, <1>2, <1>3, LargerByOne

LEMMA LeftLocked ==
  ASSUME NEW M, NEW N, NEW i \in MSSs, NEW m \in M, m.type = "NEW_EST", m.to = i,
         \A l \in N : l.type = "NEW_EST" => l \in M /\ ~(l.r = m.r /\ l.to = i),
         NEW s \in Stations, s.roundPhase = 3,
         NEW K \in Rounds, NEW L \in Rounds, NEW V, LockedStation(i, s, M, K, L, V),
         m.r \in 1 .. K, s.ts = 0 => m.r \in 1 .. L,
         NEW k \in {1, 4}, NEW u, u = AtPhase(s, k)
  PROVE  LockedStation(i, u, N, K, L, V)
<1>1. /\ u \in Stations /\ u.roundPhase = k /\ u.v = s.v /\ u.roundR = s.roundR
      /\ u.decidedState = s.decidedState /\ u.ts = s.ts /\ u.p = s.p
      /\ u.newV = s.newV /\ u.endCollect = s.endCollect /\ u.log = s.log
      /\ u.nbPositiveAck = s.nbPositiveAck /\ u.nbNegativeAck = s.nbNegativeAck
  BY AtPhaseFields
<1>2. K \in Nat /\ L \in Nat /\ s.roundR \in Nat
  BY CoordinatorType DEF Stations
<1>3. Turns(s) = s.roundR /\ Turns(u) = s.roundR + 1
  BY <1>1, <1>2 DEF Turns
<1>4. Turns(u) <= 1 + Cardinality(Free(N, i, K))
  <2>1. /\ Cardinality(Free(M, i, K)) \in Nat /\ Cardinality(Free(N, i, K)) \in Nat
        /\ Cardinality(Free(M, i, K)) + 1 <= Cardinality(Free(N, i, K))
    BY <1>2, FreeByOne
  <2> QED
    BY <1>2, <1>3, <2>1 DEF LockedStation
<1>5. ASSUME s.ts = 0 PROVE Turns(u) <= 1 + Cardinality(Free(N, i, L))
  <2>1. m.r \in 1 .. L
    BY <1>5
  <2>2. /\ Cardinality(Free(M, i, L)) \in Nat /\ Cardinality(Free(N, i, L)) \in Nat
        /\ Cardinality(Free(M, i, L)) + 1 <= Cardinality(Free(N, i, L))
    BY <1>2, <2>1, FreeByOne
  <2> QED
    BY <1>2, <1>3, <1>5, <2>2 DEF LockedStation
<1> QED
  BY <1>1, <1>4, <1>5 DEF LockedStation

(* Its answer joins the messages R. *)
Answer(i, m) == AckMessage(i, m.endCollect, m.r, m.from)
With(R, a) == R \cup {a}

LEMMA AckGood ==
  ASSUME NEW F, NEW M, Good(F, M), NEW i \in MSSs, NEW m \in M, m.type = "NEW_EST",
         m.to = i, m.from # i, NEW R \in SUBSET M,
         NEW a, a = Answer(i, m), NEW N, N = With(R, a)
  PROVE  Good(F, N) /\ a \in Messages /\ a.type = "ACK" /\ Same(a, m)
<1>1. F \in [MSSs -> Stations] /\ M \subseteq Messages
  BY DEF Good, Typed
<1>2. m.r \in Rounds /\ m.from \in MSSs /\ m.endCollect \in BOOLEAN
  BY <1>1 DEF Messages, Decides, Estimates, NewEstimates, Acks, Quiet
<1>3. /\ a.type = "ACK" /\ a.from = i /\ a.to = m.from /\ a.r = m.r
      /\ a.positive = m.endCollect
  BY DEF Answer, AckMessage
<1>4. a \in Acks
  BY <1>2 DEF Answer, AckMessage, Acks
<1>5. a \in Messages /\ N \in SUBSET Messages /\ N = R \cup {a}
  BY <1>1, <1>4 DEF Messages, With
<1>6. Token(a) /\ Token(m) /\ Slot(a) = Slot(m)
  BY <1>3 DEF Token, Slot
<1>7. Typed(F, N) /\ \A j \in MSSs : Turned(j, F[j])
  BY <1>1, <1>5 DEF Good, Typed
<1>8. \A l \in N : l.type = "NEW_EST" => l \in M
  BY <1>3, <1>5
<1>9. Proposals(F, N)
  <2>1. Proposals(F, M)
    BY DEF Good
  <2> QED
    BY <1>8, <2>1 DEF Proposals
<1>10. Counted(F, N)
  <2>1. Counted(F, M) /\ Proposals(F, M)
    BY DEF Good
  <2>2. a.to = findCoordinator(a.r) /\ a.from # a.to /\ a.r > 0 /\ Past(F, a.r)
    BY <1>3, <2>1 DEF Proposals
  <2>3. ASSUME NEW l \in N, l.type = "ACK"
        PROVE  /\ l.to = findCoordinator(l.r) /\ l.from # l.to
               /\ l.r > 0 /\ Past(F, l.r)
    BY <1>5, <2>1, <2>2, <2>3 DEF Counted
  <2>4. ASSUME NEW j \in MSSs, NEW r \in Rounds,
               NEW k, k = F[j].nbPositiveAck[r] + F[j].nbNegativeAck[r]
        PROVE  /\ k <= Cardinality(Answered(N, j, r))
               /\ k > 0 => j = findCoordinator(r) /\ Past(F, r)
    <3>1. /\ k <= Cardinality(Answered(M, j, r))
          /\ k > 0 => j = findCoordinator(r) /\ Past(F, r)
      BY <2>1, <2>4 DEF Counted
    <3>2. \A l \in N : Token(l) => \E x \in M : Token(x) /\ Slot(x) = Slot(l)
      BY <1>5, <1>6
    <3>3. /\ Cardinality(Answered(M, j, r)) \in Nat
          /\ Cardinality(Answered(N, j, r)) \in Nat
          /\ Cardinality(Answered(M, j, r)) <= Cardinality(Answered(N, j, r))
      BY <3>2, FewerAnswers
    <3>4. k \in Nat
      <4>1. F[j].nbPositiveAck[r] \in Nat /\ F[j].nbNegativeAck[r] \in Nat
        BY <1>1 DEF Stations
      <4> QED
        BY <2>4, <4>1
    <3> QED
      BY <3>1, <3>3, <3>4
  <2> QED
    BY <2>3, <2>4 DEF Counted
<1>11. Unanimous(F, N)
  <2>1. ASSUME NEW r \in Rounds
        PROVE  /\ Positive(F, N, r) => Positive(F, M, r)
               /\ Negative(F, N, r) => Negative(F, M, r)
    <3>1. Positive(F, N, r) => Positive(F, M, r)
      BY <1>3, <1>5 DEF Positive
    <3>2. Negative(F, N, r) => Negative(F, M, r)
      BY <1>3, <1>5 DEF Negative
    <3> QED
      BY <3>1, <3>2
  <2>2. Unanimous(F, M)
    BY DEF Good
  <2> QED
    BY <2>1, <2>2 DEF Unanimous
<1>12. Grounded(F, N)
  <2>1. Grounded(F, M)
    BY DEF Good
  <2> QED
    BY <1>3, <1>5, <2>1 DEF Grounded
<1> QED
  BY <1>3, <1>5, <1>6, <1>7, <1>9, <1>10, <1>11, <1>12 DEF Good, Same

LEMMA TakenLocked ==
  ASSUME NEW F, NEW M, Good(F, M), NEW i \in MSSs, NEW m \in M, m.type = "NEW_EST",
         m.to = i, F[i].roundPhase = 3,
         NEW K \in Rounds, NEW L \in Rounds, NEW V \in SUBSET MHs,
         LockedBy(F, M, K, L, V), NEW N,
         \A l \in N : \/ l \in M /\ ~Same(l, m)
                      \/ l.type # "NEW_EST" /\ LockedMessage(l, K, L, V),
         NEW k \in {1, 4}, NEW s, s = Took(F[i], m), NEW u, u = AtPhase(s, k)
  PROVE  LockedBy([F EXCEPT ![i] = u], N, K, L, V)
<1>1. PICK t : t = F[i]
  OBVIOUS
<1>2. F \in [MSSs -> Stations] /\ M \subseteq Messages /\ t \in Stations
  BY <1>1 DEF Good, Typed
<1>3. m \in NewEstimates
  BY <1>2 DEF Messages, Decides, Estimates, NewEstimates, Acks, Quiet
<1>4. \A l \in N : l.type = "NEW_EST" => l \in M /\ ~(l.r = m.r /\ l.to = i)
  BY DEF Same, Token, Slot
<1>5. LockedBy(F, N, K, L, V)
  <2>1. LockedStation(i, t, M, K, L, V)
    BY <1>1 DEF LockedBy
  <2>2. Onward(F[i], t)
    BY <1>1 DEF Onward
  <2>3. \A l \in N : l \in M \/ LockedMessage(l, K, L, V)
    OBVIOUS
  <2>4. LockedBy([F EXCEPT ![i] = t], N, K, L, V)
    BY <1>2, <1>4, <2>1, <2>2, <2>3, LockedStays
  <2>5. [F EXCEPT ![i] = t] = F
    BY <1>1, <1>2
  <2> QED
    BY <2>4, <2>5
<1>6. s \in Stations /\ HasTaken(t, m, s)
  <2>1. s = Took(t, m)
    BY <1>1
  <2> QED
    BY <1>2, <1>3, <2>1, TookFields
<1>7. /\ LockedStation(i, s, M, K, L, V)
      /\ m.r \in 1 .. K /\ (s.ts = 0 => m.r \in 1 .. L)
  <2>1. s = Took(t, m) /\ t.roundPhase = 3
    BY <1>1
  <2>2. LockedStation(i, t, M, K, L, V) /\ LockedMessage(m, K, L, V)
    BY <1>1 DEF LockedBy
  <2> QED
    BY <1>2, <1>3, <2>1, <2>2, TookLocked
<1>8. s.roundPhase = 3
  BY <1>1, <1>6 DEF HasTaken
<1>9. LockedStation(i, u, N, K, L, V)
  BY <1>4, <1>6, <1>7, <1>8, LeftLocked
<1>10. u \in Stations /\ Onward(t, u)
  <2>1. u \in Stations /\ u.roundPhase = k /\ u.roundR = s.roundR
    BY <1>6, AtPhaseFields
  <2> QED
    BY <1>6, <2>1 DEF HasTaken, Onward
<1>11. \A l \in N : l \in N \/ LockedMessage(l, K, L, V)
  OBVIOUS
<1>12. \A l \in N : l.type = "NEW_EST" => l \in N
  OBVIOUS
<1> QED
  BY <1>1, <1>2, <1>5, <1>9, <1>10, <1>11, <1>12, LockedStays

(* What the messages become: only tokens of other slots stay, and what      *)
(* answers the proposal.                                                    *)
LEMMA TakenGood ==
  ASSUME NEW F, NEW M, Good(F, M), NEW i \in MSSs, NEW m \in M, m.type = "NEW_EST",
         m.to = i, F[i].roundR <= MaxRound, NEW N, Good(F, N),
         NEW k \in {1, 4}, NEW s, s = Took(F[i], m), NEW u, u = AtPhase(s, k)
  PROVE  u \in Stations /\ Good([F EXCEPT ![i] = u], N)
<1>1. PICK t : t = F[i]
  OBVIOUS
<1>2. F \in [MSSs -> Stations] /\ M \subseteq Messages /\ t \in Stations
  BY <1>1 DEF Good, Typed
<1>3. m \in NewEstimates
  BY <1>2 DEF Messages, Decides, Estimates, NewEstimates, Acks, Quiet
<1>4. s \in Stations /\ HasTaken(t, m, s)
  <2>1. s = Took(t, m)
    BY <1>1
  <2> QED
    BY <1>2, <1>3, <2>1, TookFields
<1>5. /\ u \in Stations /\ u.roundPhase = k /\ u.roundR = t.roundR
      /\ u.decidedState = t.decidedState
      /\ u.nbPositiveAck = t.nbPositiveAck /\ u.nbNegativeAck = t.nbNegativeAck
  <2>1. /\ u \in Stations /\ u.roundPhase = k /\ u.v = s.v /\ u.roundR = s.roundR
        /\ u.decidedState = s.decidedState
        /\ u.nbPositiveAck = s.nbPositiveAck /\ u.nbNegativeAck = s.nbNegativeAck
    BY <1>4, AtPhaseFields
  <2> QED
    BY <1>4, <2>1 DEF HasTaken
<1>6. Onward(t, u) /\ Turned(i, u)
  BY <1>1, <1>5 DEF Onward, Turned
<1>7. N \in SUBSET Messages
  BY DEF Good, Typed
<1>8. u.decidedState \/ (\E l \in N : l.type = "DECIDE") => HasMajority(F)
  <2>1. Grounded(F, N)
    BY DEF Good
  <2> QED
    BY <1>1, <1>5, <2>1 DEF Grounded
<1>9. \A l \in N : Token(l) => l \in N
  OBVIOUS
<1>10. Good([F EXCEPT ![i] = u], N)
  BY <1>1, <1>5, <1>6, <1>7, <1>8, <1>9, GoodStays
<1> QED
  BY <1>5, <1>10

LEMMA FewerGood ==
  ASSUME NEW F, NEW M, Good(F, M), NEW i \in MSSs, NEW N \in SUBSET M
  PROVE  Good(F, N)
<1>1. PICK t : t = F[i]
  OBVIOUS
<1>2. F \in [MSSs -> Stations] /\ M \subseteq Messages /\ t \in Stations /\ Turned(i, t)
  BY <1>1 DEF Good, Typed
<1>3. Onward(F[i], t)
  BY <1>1 DEF Onward
<1>4. t.decidedState \/ (\E m \in N : m.type = "DECIDE") => HasMajority(F)
  BY <1>1 DEF Good, Grounded
<1>5. N \in SUBSET Messages /\ \A m \in N : Token(m) => m \in M
  BY <1>2
<1>6. Good([F EXCEPT ![i] = t], N)
  BY <1>1, <1>2, <1>3, <1>4, <1>5, GoodStays
<1>7. [F EXCEPT ![i] = t] = F
  BY <1>1, <1>2
<1> QED
  BY <1>6, <1>7

LEMMA Taking ==
  ASSUME NEW F, NEW M, Good(F, M), NEW q, NEW b, NEW m, Removed(m, q, b, M),
         NEW free, free \/ Locked(F, M), NEW i \in MSSs, NEW c, c = Begun(F, i),
         m.type = "NEW_EST", m.to = i, F[i].roundR <= MaxRound,
         NEW d \in onNewEstimate(i, c, m)
  PROVE  Done(F, q, b, i, free, d)
<1>1. PICK t, s, R : t = F[i] /\ s = Took(t, m) /\ R = Flying(q, b)
  OBVIOUS
<1>2. F \in [MSSs -> Stations] /\ M \subseteq Messages /\ t \in Stations /\ c.st = t
  BY <1>1 DEF Good, Typed, Begun
<1>3. /\ m \in M /\ R \in SUBSET M /\ \A l \in R : ~Same(l, m)
      /\ Unique(q, b) /\ q \in Seq(Messages)
  BY <1>1 DEF Removed
<1>4. m \in NewEstimates
  BY <1>2, <1>3 DEF Messages, Decides, Estimates, NewEstimates, Acks, Quiet
<1>5. s \in Stations
  <2>1. s = Took(t, m)
    BY <1>1
  <2> QED
    BY <1>2, <1>4, <2>1, TookFields
<1>6. CASE t.roundPhase # 3
  <2>1. Ok(F, q, b, i, free, c, M)
    BY Begins
  <2>2. d = c
    BY <1>2, <1>6 DEF onNewEstimate
  <2> QED
    BY <1>2, <1>3, <2>1, <2>2, Ignored
<1>7. CASE t.roundPhase = 3 /\ m.from = i
  <2>1. PICK u : u = AtPhase(s, 4)
    OBVIOUS
  <2>2. d = [c EXCEPT !.st = u]
    <3>1. PICK e : e = [c EXCEPT !.st = s]
      OBVIOUS
    <3>2. d = [e EXCEPT !.st.roundPhase = 4]
      BY <1>1, <1>2, <1>7, <3>1 DEF onNewEstimate, Took, Adopted, Gathered, Widened
    <3> QED
      BY <2>1, <3>1, <3>2 DEF Begun, AtPhase
  <2>3. Good(F, R)
    BY <1>3, FewerGood
  <2>4. u \in Stations /\ Good([F EXCEPT ![i] = u], R)
    <3>1. s = Took(F[i], m) /\ 4 \in {1, 4}
      BY <1>1
    <3> QED
      BY <1>3, <2>1, <2>3, <3>1, TakenGood
  <2>5. free \/ Locked([F EXCEPT ![i] = u], R)
    <3> SUFFICES ASSUME ~free PROVE Locked([F EXCEPT ![i] = u], R)
      OBVIOUS
    <3>1. PICK K \in Rounds, L \in Rounds, V \in SUBSET MHs : LockedBy(F, M, K, L, V)
      BY DEF Locked
    <3>2. s = Took(F[i], m) /\ 4 \in {1, 4} /\ F[i].roundPhase = 3
      BY <1>1, <1>7
    <3>3. \A l \in R : \/ l \in M /\ ~Same(l, m)
                       \/ l.type # "NEW_EST" /\ LockedMessage(l, K, L, V)
      BY <1>3
    <3>4. LockedBy([F EXCEPT ![i] = u], R, K, L, V)
      BY <1>3, <2>1, <3>1, <3>2, <3>3, TakenLocked
    <3> QED
      BY <3>4 DEF Locked
  <2>6. d = [st |-> u, out |-> <<>>]
    BY <2>2 DEF Begun
  <2>7. Moved(F, i, d) = [F EXCEPT ![i] = u] /\ Joined(q, d.out) = q
    BY <1>3, <2>6 DEF Moved, Joined
  <2>8. d \in Contexts
    <3>1. <<>> \in Seq(Messages)
      OBVIOUS
    <3> QED
      BY <2>4, <2>6, <3>1 DEF Contexts
  <2> QED
    BY <1>1, <1>3, <2>4, <2>5, <2>7, <2>8 DEF Done, Ok
<1>8. CASE t.roundPhase = 3 /\ m.from # i
  <2>1. PICK a, g, u, e, N : /\ a = AckMessage(i, m.endCollect, m.r, m.from)
                             /\ g = [st |-> s, out |-> <<a>>]
                             /\ u = AtPhase(s, 1) /\ e = [st |-> u, out |-> <<a>>]
                             /\ N = R \cup {a}
    OBVIOUS
  <2>2. Good(F, N) /\ a \in Messages /\ a.type = "ACK" /\ Same(a, m)
    <3>1. a = Answer(i, m)
      BY <2>1 DEF Answer
    <3>2. N = With(R, a)
      BY <2>1 DEF With
    <3>3. m.from # i
      BY <1>8
    <3> QED
      BY <1>3, <3>1, <3>2, <3>3, AckGood
  <2>3. d \in StartRound(i, g)
    <3>1. g = Send([c EXCEPT !.st = s], a)
      <4>1. PICK f : f = [c EXCEPT !.st = s]
        OBVIOUS
      <4>2. f = [st |-> s, out |-> <<>>]
        BY <4>1 DEF Begun
      <4>3. PICK z : z = Append(f.out, a)
        OBVIOUS
      <4>4. z = <<a>>
        BY <4>2, <4>3
      <4>5. Send(f, a) = [f EXCEPT !.out = z]
        BY <4>3 DEF Send
      <4> QED
        BY <2>1, <4>1, <4>2, <4>4, <4>5
    <3> QED
      BY <1>1, <1>2, <1>8, <2>1, <3>1
         DEF onNewEstimate, Took, Adopted, Gathered, Widened
  <2>4. u \in Stations /\ Good([F EXCEPT ![i] = u], N)
    <3>1. s = Took(F[i], m) /\ 1 \in {1, 4}
      BY <1>1
    <3> QED
      BY <1>3, <2>1, <2>2, <3>1, TakenGood
  <2>5. free \/ Locked([F EXCEPT ![i] = u], N)
    <3> SUFFICES ASSUME ~free PROVE Locked([F EXCEPT ![i] = u], N)
      OBVIOUS
    <3>1. PICK K \in Rounds, L \in Rounds, V \in SUBSET MHs : LockedBy(F, M, K, L, V)
      BY DEF Locked
    <3>2. s = Took(F[i], m) /\ 1 \in {1, 4} /\ F[i].roundPhase = 3
      BY <1>1, <1>8
    <3>3. LockedMessage(a, K, L, V)
      <4>1. LockedMessage(m, K, L, V)
        BY <1>3, <3>1 DEF LockedBy
      <4>2. a.type = "ACK" /\ a.r = m.r /\ a.positive = m.endCollect
        BY <2>1 DEF AckMessage
      <4>3. m.r \in 1 .. K /\ (m.endCollect <=> m.r > L)
        BY <4>1 DEF LockedMessage
      <4> QED
        BY <4>2, <4>3 DEF LockedMessage
    <3>4. \A l \in N : \/ l \in M /\ ~Same(l, m)
                       \/ l.type # "NEW_EST" /\ LockedMessage(l, K, L, V)
      BY <1>3, <2>1, <2>2, <3>3
    <3>5. LockedBy([F EXCEPT ![i] = u], N, K, L, V)
      BY <1>3, <2>1, <3>1, <3>2, <3>4, TakenLocked
    <3> QED
      BY <3>5 DEF Locked
  <2>6. PICK x : x = <<a>>
    OBVIOUS
  <2>7. x \in Seq(Messages) /\ Range(x) = {a} /\ DOMAIN x = {1}
    BY <2>2, <2>6 DEF Range
  <2>8. Unique(Joined(q, x), b) /\ Flying(Joined(q, x), b) = N
    <3>1. \A k, l \in DOMAIN x : Same(x[k], x[l]) => k = l
      BY <2>7
    <3>2. \A l \in Range(x), y \in Flying(q, b) : ~Same(l, y)
      BY <1>1, <1>3, <2>2, <2>7 DEF Same
    <3>3. Unique(q \o x, b) /\ Flying(q \o x, b) = Flying(q, b) \cup Range(x)
      BY <1>3, <2>7, <3>1, <3>2, Sent
    <3> QED
      BY <1>1, <2>1, <2>7, <3>3 DEF Joined
  <2>9. e \in Contexts /\ g \in Contexts
    BY <1>5, <2>1, <2>4, <2>6, <2>7 DEF Contexts
  <2>10. Moved(F, i, e) = [F EXCEPT ![i] = u] /\ e.out = x
    BY <2>1, <2>6 DEF Moved
  <2>11. Ok(F, q, b, i, free, e, N)
    BY <2>4, <2>5, <2>8, <2>9, <2>10 DEF Ok
  <2>12. u = Ready(g.st) /\ e = [g EXCEPT !.st = u]
    BY <2>1 DEF Ready, AtPhase
  <2> QED
    BY <1>2, <1>3, <2>3, <2>9, <2>11, <2>12, Starts
<1> QED
  BY <1>6, <1>7, <1>8

(* A message is handled to the end. *)
LEMMA Handles ==
  ASSUME NEW F, NEW M, Good(F, M), NEW q, NEW b, NEW m, Removed(m, q, b, M),
         NEW free, free \/ Locked(F, M), NEW i \in MSSs, NEW c, c = Begun(F, i),
         m.to = i, F[i].roundR <= MaxRound, connectedMSS \in [MHs -> MSSs],
         m.type \in {"INIT_1", "INIT_2"} => MayStart(c, free),
         NEW d \in handleMessage(i, c, m), NEW e \in onPhaseChanged(i, d)
  PROVE  Done(F, q, b, i, free, e)
<1>1. /\ F \in [MSSs -> Stations] /\ M \subseteq Messages /\ q \in Seq(Messages)
      /\ m \in M /\ m \in Messages
  BY DEF Good, Typed, Removed
<1>2. Ok(F, q, b, i, free, c, M) /\ c.st = F[i]
  BY Begins DEF Begun
<1>3. Done(F, q, b, i, free, d)
  <2>1. CASE m.type \in {"INIT_1", "INIT_2"}
    <3>1. d \in onInit(i, c)
      BY <2>1 DEF handleMessage
    <3>2. MayStart(c, free)
      BY <2>1
    <3> QED
      BY <1>1, <1>2, <3>1, <3>2, Initiating
  <2>2. CASE m.type = "PROPOSE"
    <3>1. d \in onPropose(i, c, m)
      BY <2>2 DEF handleMessage
    <3> QED
      BY <1>1, <1>2, <2>2, <3>1, Proposing
  <2>3. CASE m.type = "DECIDE"
    <3>1. d \in onDecide(i, c, m)
      BY <2>3 DEF handleMessage
    <3>2. c.st.roundR <= MaxRound
      BY <1>2
    <3> QED
      BY <1>1, <1>2, <2>3, <3>1, <3>2, Informed
  <2>4. CASE m.type = "ESTIMATE"
    <3>1. d \in onEstimate(i, c, m)
      BY <2>4 DEF handleMessage
    <3> QED
      BY <1>1, <1>2, <2>4, <3>1, Estimating
  <2>5. CASE m.type = "ACK"
    <3>1. d \in onAck(c, m)
      BY <2>5 DEF handleMessage
    <3> QED
      BY <2>5, <3>1, Counting
  <2>6. CASE m.type = "NEW_EST"
    <3>1. d \in onNewEstimate(i, c, m)
      BY <2>6 DEF handleMessage
    <3> QED
      BY <2>6, <3>1, Taking
  <2>7. m.type # "INIT_3"
    BY <1>1, ConsensusAssumption
       DEF Messages, Decides, Estimates, NewEstimates, Acks, Quiet, MSSs, MHs
  <2>8. m.type \in {"INIT_1", "INIT_2", "INIT_3", "PROPOSE", "DECIDE", "ESTIMATE",
                    "ACK", "NEW_EST"}
    BY <1>1 DEF Messages, Decides, Estimates, NewEstimates, Acks, Quiet
  <2> QED
    BY <2>1, <2>2, <2>3, <2>4, <2>5, <2>6, <2>7, <2>8
<1>4. PICK x \in ProposeEstimate(i, d) : e \in Conclude(i, x)
  BY DEF onPhaseChanged
<1>5. Done(F, q, b, i, free, x)
  BY <1>1, <1>3, <1>4, Proposes
<1> QED
  BY <1>1, <1>4, <1>5, Concludes

(* A message without content joins the others, or none does. *)
LEMMA FewerLocked ==
  ASSUME NEW F \in [MSSs -> Stations], NEW M, NEW i \in MSSs, NEW N,
         \A m \in N : m \in M \/ m \in Quiet, Locked(F, M)
  PROVE  Locked(F, N)
<1>1. PICK K \in Rounds, L \in Rounds, V \in SUBSET MHs : LockedBy(F, M, K, L, V)
  BY DEF Locked
<1>2. PICK t : t = F[i]
  OBVIOUS
<1>3. t \in Stations /\ [F EXCEPT ![i] = t] = F /\ Onward(F[i], t)
  BY <1>2 DEF Onward
<1>4. LockedStation(i, t, M, K, L, V)
  BY <1>1, <1>2 DEF LockedBy
<1>5. \A m \in N : m.type = "NEW_EST" => m \in M
  BY DEF Quiet
<1>6. \A m \in N : m \in M \/ LockedMessage(m, K, L, V)
  BY DEF Quiet, LockedMessage
<1>7. LockedBy([F EXCEPT ![i] = t], N, K, L, V)
  BY <1>1, <1>3, <1>4, <1>5, <1>6, LockedStays
<1> QED
  BY <1>3, <1>7 DEF Locked

LEMMA Appended ==
  ASSUME NEW F, NEW M, Good(F, M), NEW q \in Seq(Messages), NEW b, Unique(q, b),
         Flying(q, b) \subseteq M, NEW x \in Quiet,
         NEW z, z = Append(q, x), NEW N, N = Flying(z, b)
  PROVE  /\ z \in Seq(Messages) /\ Unique(z, b) /\ Good(F, N)
         /\ Locked(F, M) => Locked(F, N)
<1>1. /\ F \in [MSSs -> Stations] /\ M \subseteq Messages
      /\ \A j \in MSSs : Turned(j, F[j])
  BY DEF Good, Typed
<1>2. 1 \in MSSs
  BY ConsensusAssumption DEF MSSs
<1>3. x \in Messages /\ ~Token(x) /\ x.type # "DECIDE"
  BY DEF Messages, Quiet, Token
<1>4. /\ z \in Seq(Messages) /\ Unique(z, b) /\ Flying(z, b) = Flying(q, b) \cup {x}
  <2>1. PICK y : y = <<x>>
    OBVIOUS
  <2>2. y \in Seq(Messages) /\ Range(y) = {x} /\ DOMAIN y = {1} /\ z = q \o y
    BY <1>3, <2>1 DEF Range
  <2>3. \A k, l \in DOMAIN y : Same(y[k], y[l]) => k = l
    BY <2>2
  <2>4. \A l \in Range(y), m \in Flying(q, b) : ~Same(l, m)
    BY <1>3, <2>2 DEF Same
  <2>5. /\ q \o y \in Seq(Messages) /\ Unique(q \o y, b)
        /\ Flying(q \o y, b) = Flying(q, b) \cup Range(y)
    BY <2>2, <2>3, <2>4, Sent
  <2> QED
    BY <2>2, <2>5
<1>5. PICK t : t = F[1]
  OBVIOUS
<1>6. t \in Stations /\ [F EXCEPT ![1] = t] = F /\ Onward(F[1], t) /\ Turned(1, t)
  BY <1>1, <1>2, <1>5 DEF Onward
<1>7. Good(F, N)
  <2>1. N \in SUBSET Messages /\ \A m \in N : Token(m) => m \in M
    BY <1>1, <1>3, <1>4
  <2>2. t.decidedState \/ (\E m \in N : m.type = "DECIDE") => HasMajority(F)
    BY <1>2, <1>3, <1>4, <1>5 DEF Good, Grounded
  <2>3. Good([F EXCEPT ![1] = t], N)
    BY <1>2, <1>5, <1>6, <2>1, <2>2, GoodStays
  <2> QED
    BY <1>6, <2>3
<1>8. ASSUME Locked(F, M) PROVE Locked(F, N)
  <2>1. \A m \in N : m \in M \/ m \in Quiet
    BY <1>4
  <2> QED
    BY <1>1, <1>2, <1>8, <2>1, FewerLocked
<1> QED
  BY <1>4, <1>7, <1>8

-----------------------------------------------------------------------------
(* The steps. *)

LEMMA Initial == Init => IInv
<1> SUFFICES ASSUME Init PROVE IInv
  OBVIOUS
<1> USE DEF Init
<1>1. PICK M : M = InFlight
  OBVIOUS
<1>2. network \in Seq(Messages) /\ Range(network) \subseteq Quiet
  <2>1. n \in Nat \ {0} /\ hosts \in Nat
    BY ConsensusAssumption
  <2>2. \A k \in 1 .. hosts : n + k \in MHs
    BY <2>1 DEF MHs
  <2>3. \A k \in 1 .. hosts : ProposeMessage(n + k, connectedMSS[n + k]) \in Quiet
    BY <2>2 DEF ProposeMessage, Quiet
  <2>4. network \in [1 .. hosts -> Quiet]
    BY <2>3
  <2>5. network \in Seq(Messages)
    BY <2>1, <2>4 DEF Messages
  <2> QED
    BY <2>4, <2>5 DEF Range
<1>3. IsABag(late) /\ BagToSet(late) = {} /\ EmptyBag \in Logs /\ BagToSet(EmptyBag) = {}
  <2>1. PICK E, D : E = EmptyBag /\ D = [mssNode : MSSs, v : SUBSET MHs, ts : Rounds]
    OBVIOUS
  <2>2. E \in [{} -> Nat \ {0}] /\ DOMAIN E = {}
    BY <2>1 DEF EmptyBag, SetToBag
  <2>3. IsABag(E) /\ BagToSet(E) = {}
    BY <2>2 DEF IsABag, BagToSet
  <2>4. {} \in SUBSET D
    OBVIOUS
  <2>5. E \in Logs
    BY <2>1, <2>2, <2>4 DEF Logs
  <2> QED
    BY <2>1, <2>3, <2>5
<1>4. /\ M \subseteq Quiet /\ M \subseteq Messages
      /\ \A m \in M : ~Token(m)
      /\ \A m \in M : m.type \notin {"NEW_EST", "ACK", "DECIDE", "ESTIMATE"}
  BY <1>1, <1>2, <1>3 DEF InFlight, Quiet, Messages, Token
<1>5. Unique(network, late)
  <2>1. \A k \in DOMAIN network : ~Token(network[k])
    BY <1>1, <1>4 DEF InFlight, Range
  <2> QED
    BY <1>3, <2>1 DEF Unique, Same
<1>6. PICK s : s = NewStation
  OBVIOUS
<1>7. s \in Stations
  <2>1. 0 \in Rounds
    BY ConsensusAssumption DEF Rounds
  <2>2. [r \in Rounds |-> EmptyBag] \in [Rounds -> Logs]
    BY <1>3
  <2>3. [r \in Rounds |-> 0] \in [Rounds -> Nat]
    OBVIOUS
  <2> QED
    BY <1>6, <2>1, <2>2, <2>3 DEF NewStation, Stations
<1>8. /\ s.roundR = 0 /\ s.roundPhase = 0 /\ s.decidedState = FALSE /\ s.ts = 0
      /\ s.p = {} /\ s.newV = {} /\ s.endCollect = FALSE
      /\ \A r \in Rounds : /\ s.nbPositiveAck[r] = 0 /\ s.nbNegativeAck[r] = 0
                           /\ s.log[r] = EmptyBag
  BY <1>6 DEF NewStation
<1>9. mss \in [MSSs -> Stations] /\ \A i \in MSSs : mss[i] = s
  BY <1>6, <1>7
<1>10. Good(mss, M)
  <2>1. Typed(mss, M) /\ \A i \in MSSs : Turned(i, mss[i])
    BY <1>4, <1>8, <1>9, ConsensusAssumption DEF Typed, Turned
  <2>2. Proposals(mss, M)
    BY <1>4 DEF Proposals
  <2>3. Counted(mss, M)
    <3>1. ASSUME NEW i \in MSSs, NEW r \in Rounds
          PROVE  Cardinality(Answered(M, i, r)) \in Nat
      <4>1. \A m \in M : Token(m) => \E l \in M : Token(l) /\ Slot(l) = Slot(m)
        OBVIOUS
      <4> QED
        BY <4>1, FewerAnswers
    <3>2. \A i \in MSSs, r \in Rounds :
            mss[i].nbPositiveAck[r] + mss[i].nbNegativeAck[r] = 0
      BY <1>8, <1>9
    <3> QED
      BY <1>4, <3>1, <3>2 DEF Counted
  <2>4. Unanimous(mss, M)
    <3>1. \A i \in MSSs, r \in Rounds : ~(mss[i].nbPositiveAck[r] > 0)
      BY <1>8, <1>9
    <3> QED
      BY <1>4, <3>1 DEF Unanimous, Positive
  <2>5. Grounded(mss, M)
    BY <1>4, <1>8, <1>9 DEF Grounded
  <2> QED
    BY <2>1, <2>2, <2>3, <2>4, <2>5 DEF Good
<1>11. Locked(mss, M)
  <2>1. PICK K, V : K = 0 /\ V = {}
    OBVIOUS
  <2>2. K \in Rounds /\ V \in SUBSET MHs /\ K \in Nat
    BY <2>1, ConsensusAssumption DEF Rounds
  <2>3. \A m \in M : LockedMessage(m, K, K, V)
    BY <1>4 DEF LockedMessage
  <2>4. ASSUME NEW i \in MSSs PROVE LockedStation(i, mss[i], M, K, K, V)
    <3>1. Cardinality(Free(M, i, K)) \in Nat
      BY <2>2, FreeBound
    <3>2. Turns(s) = 0 /\ mss[i] = s
      BY <1>8, <1>9 DEF Turns
    <3>3. \A r \in Rounds : BagToSet(s.log[r]) = {} /\ ~(s.nbPositiveAck[r] > 0)
      BY <1>3, <1>8
    <3>4. Turns(s) <= 1 + Cardinality(Free(M, i, K))
      BY <3>1, <3>2
    <3> QED
      BY <1>8, <3>2, <3>3, <3>4 DEF LockedStation
  <2>5. LockedBy(mss, M, K, K, V)
    BY <2>1, <2>3, <2>4 DEF LockedBy
  <2> QED
    BY <2>2, <2>5 DEF Locked
<1>12. \A i \in MSSs : mss[i].roundR <= MaxRound
  BY <1>8, <1>9, ConsensusAssumption
<1> QED
  BY <1>1, <1>2, <1>3, <1>5, <1>10, <1>11, <1>12 DEF IInv

(* A message that has left the network is handled, and q, b stay. *)
LEMMA StationHandles ==
  ASSUME IInv, NEW m, NEW q, NEW b, Removed(m, q, b, InFlight),
         handleMessages(m, q)
  PROVE  /\ network' \in Seq(Messages) /\ restarted' \in BOOLEAN
         /\ Good(mss', Flying(network', b)) /\ Unique(network', b)
         /\ \A i \in MSSs : mss'[i].roundR <= MaxRound
         /\ restarted' \/ Locked(mss', Flying(network', b))
<1>1. PICK i, c, M, free : /\ i = m.to /\ c = Begun(mss, i) /\ M = InFlight
                           /\ free = restarted'
  OBVIOUS
<1>2. i \in MSSs /\ Good(mss, M) /\ mss \in [MSSs -> Stations] /\ q \in Seq(Messages)
  BY <1>1 DEF handleMessages, IInv, Good, Typed, Removed
<1>3. PICK d, e :
        /\ d \in handleMessage(i, c, m) /\ e \in onPhaseChanged(i, d)
        /\ e.st.roundR <= MaxRound
        /\ mss' = [mss EXCEPT ![i] = e.st]
        /\ network' = Joined(q, e.out)
  BY <1>1 DEF handleMessages, Begun, Joined
<1>4. /\ restarted' \in BOOLEAN /\ (restarted => restarted')
      /\ m.type \in {"INIT_1", "INIT_2"} /\ mss[i].decidedState
           /\ mss[i].roundPhase = 0 => restarted'
  BY <1>1 DEF handleMessages, IInv
<1>5. free \/ Locked(mss, M)
  BY <1>1, <1>4 DEF IInv
<1>6. m.type \in {"INIT_1", "INIT_2"} => MayStart(c, free)
  BY <1>1, <1>4 DEF MayStart, Begun
<1>7. Removed(m, q, b, M) /\ mss[i].roundR <= MaxRound /\ m.to = i
      /\ connectedMSS \in [MHs -> MSSs]
  BY <1>1, <1>2 DEF IInv
<1>8. Done(mss, q, b, i, free, e)
  BY <1>1, <1>2, <1>3, <1>5, <1>6, <1>7, Handles
<1>9. e \in Contexts /\ Moved(mss, i, e) = mss'
  BY <1>3, <1>8 DEF Done, Ok, Moved
<1>10. /\ Good(mss', Flying(network', b)) /\ Unique(network', b)
       /\ free \/ Locked(mss', Flying(network', b))
  BY <1>3, <1>8, <1>9 DEF Done, Ok
<1>11. network' \in Seq(Messages)
  <2>1. e.out \in Seq(Messages)
    BY <1>9 DEF Contexts
  <2> QED
    BY <1>2, <1>3, <2>1 DEF Joined
<1>12. \A j \in MSSs : mss'[j].roundR <= MaxRound
  BY <1>2, <1>3 DEF IInv
<1> QED
  BY <1>1, <1>4, <1>10, <1>11, <1>12

LEMMA HostHandles ==
  ASSUME IInv, NEW m, NEW q, NEW b, Removed(m, q, b, InFlight),
         handleInit3(m, q)
  PROVE  /\ network' \in Seq(Messages) /\ restarted' \in BOOLEAN
         /\ Good(mss', Flying(network', b)) /\ Unique(network', b)
         /\ \A i \in MSSs : mss'[i].roundR <= MaxRound
         /\ restarted' \/ Locked(mss', Flying(network', b))
<1>1. PICK M, F : M = InFlight /\ F = mss
  OBVIOUS
<1>2. /\ Good(F, M) /\ F \in [MSSs -> Stations] /\ q \in Seq(Messages)
      /\ Unique(q, b) /\ Flying(q, b) \subseteq M /\ m \in M /\ M \subseteq Messages
      /\ restarted \/ Locked(F, M)
  BY <1>1 DEF IInv, Good, Typed, Removed
<1>3. mss' = F /\ restarted' = restarted /\ restarted \in BOOLEAN
      /\ \A i \in MSSs : mss'[i].roundR <= MaxRound
  BY <1>1 DEF handleInit3, IInv
<1>4. 1 \in MSSs
  BY ConsensusAssumption DEF MSSs
<1>5. CASE m.from = connectedMSS[m.to]
  <2>1. PICK x : x = ProposeMessage(m.to, m.from)
    OBVIOUS
  <2>2. network' = Append(q, x)
    BY <1>5, <2>1 DEF handleInit3
  <2>3. x \in Quiet
    <3>1. m.to \in MHs /\ m.from \in MSSs
      BY <1>5 DEF handleInit3, IInv
    <3> QED
      BY <2>1, <3>1 DEF ProposeMessage, Quiet
  <2>4. /\ network' \in Seq(Messages) /\ Unique(network', b)
        /\ Good(F, Flying(network', b))
        /\ Locked(F, M) => Locked(F, Flying(network', b))
    BY <1>2, <2>2, <2>3, Appended
  <2> QED
    BY <1>2, <1>3, <2>4
<1>6. CASE m.from # connectedMSS[m.to]
  <2>1. network' = q
    BY <1>6 DEF handleInit3
  <2>2. Good(F, Flying(q, b))
    BY <1>2, <1>4, FewerGood
  <2>3. restarted \/ Locked(F, Flying(q, b))
    BY <1>2, <1>4, FewerLocked
  <2> QED
    BY <1>2, <1>3, <2>1, <2>2, <2>3
<1> QED
  BY <1>5, <1>6

LEMMA HostMoves ==
  ASSUME IInv, NEW x \in Quiet, network' = Append(network, x),
         UNCHANGED <<mss, late, restarted>>, connectedMSS' \in [MHs -> MSSs]
  PROVE  IInv'
<1>1. PICK M, F, N, z : M = InFlight /\ F = mss /\ z = network' /\ N = Flying(z, late)
  OBVIOUS
<1>2. /\ Good(F, M) /\ Unique(network, late) /\ Flying(network, late) \subseteq M
      /\ network \in Seq(Messages) /\ z = Append(network, x)
      /\ restarted \/ Locked(F, M)
  BY <1>1 DEF IInv, InFlight, Flying
<1>3. /\ z \in Seq(Messages) /\ Unique(z, late) /\ Good(F, N)
      /\ Locked(F, M) => Locked(F, N)
  BY <1>1, <1>2, Appended
<1>4. InFlight' = N /\ mss' = F /\ late' = late /\ restarted' = restarted
      /\ network' = z
  BY <1>1 DEF InFlight, Flying
<1> QED
  BY <1>1, <1>2, <1>3, <1>4 DEF IInv

LEMMA MessageArrives == IInv /\ Arrive => IInv'
<1> SUFFICES ASSUME IInv, Arrive PROVE IInv'
  OBVIOUS
<1>1. InFlight = Flying(network, late) /\ InFlight' = Flying(network', late')
  BY DEF InFlight, Flying
<1>2. /\ network \in Seq(Messages) /\ IsABag(late) /\ Unique(network, late)
  BY DEF IInv
<1>3. connectedMSS' \in [MHs -> MSSs]
  BY DEF Arrive, IInv
<1>4. ASSUME NEW m, NEW q, NEW b, Removed(m, q, b, InFlight), late' = b,
             handleMessages(m, q) \/ handleInit3(m, q)
      PROVE  IInv'
  <2>1. /\ network' \in Seq(Messages) /\ restarted' \in BOOLEAN
        /\ Good(mss', Flying(network', b)) /\ Unique(network', b)
        /\ \A i \in MSSs : mss'[i].roundR <= MaxRound
        /\ restarted' \/ Locked(mss', Flying(network', b))
    BY <1>4, StationHandles, HostHandles
  <2>2. IsABag(b)
    BY <1>4 DEF Removed
  <2> QED
    BY <1>1, <1>3, <1>4, <2>1, <2>2 DEF IInv
<1>5. CASE /\ network # <<>> /\ UNCHANGED late
           /\ \/ handleMessages(Head(network), Tail(network))
              \/ handleInit3(Head(network), Tail(network))
  <2>1. PICK m, q, b : m = Head(network) /\ q = Tail(network) /\ b = late
    OBVIOUS
  <2>2. Removed(m, q, b, InFlight)
    BY <1>1, <1>2, <1>5, <2>1, HeadArrives
  <2> QED
    BY <1>4, <1>5, <2>1, <2>2
<1>6. ASSUME NEW m \in BagToSet(late), late' = Taken(late, m),
             handleMessages(m, network) \/ handleInit3(m, network)
      PROVE  IInv'
  <2>1. PICK b : b = Taken(late, m)
    OBVIOUS
  <2>2. Removed(m, network, b, InFlight)
    BY <1>1, <1>2, <2>1, LateArrives
  <2> QED
    BY <1>4, <1>6, <2>1, <2>2
<1> QED
  BY <1>5, <1>6 DEF Arrive, Taken

LEMMA MessageDelayed == IInv /\ Delay => IInv'
<1> SUFFICES ASSUME IInv, Delay PROVE IInv'
  OBVIOUS
<1>1. PICK q, b : q = Tail(network) /\ b = Put(late, Head(network))
  OBVIOUS
<1>2. network' = q /\ late' = b
  BY <1>1 DEF Delay, Put
<1>3. q \in Seq(Messages) /\ IsABag(b) /\ Unique(q, b)
      /\ Flying(q, b) = Flying(network, late)
  BY <1>1, Delayed DEF Delay, IInv
<1>4. InFlight' = InFlight
  BY <1>2, <1>3 DEF InFlight, Flying
<1> QED
  BY <1>2, <1>3, <1>4 DEF Delay, IInv

LEMMA Inductive == IInv /\ [Next]_vars => IInv'
<1> SUFFICES ASSUME IInv, [Next]_vars PROVE IInv'
  OBVIOUS
<1>1. connectedMSS \in [MHs -> MSSs]
  BY DEF IInv
<1>2. CASE Arrive
  BY <1>2, MessageArrives
<1>3. CASE Delay
  BY <1>3, MessageDelayed
<1>4. ASSUME NEW h \in MHs, startConsensus(h) PROVE IInv'
  <2>1. PICK x : x = Init1Message(connectedMSS[h])
    OBVIOUS
  <2>2. x \in Quiet
    BY <1>1, <2>1 DEF Init1Message, Quiet
  <2>3. /\ network' = Append(network, x) /\ UNCHANGED <<mss, late, restarted>>
        /\ connectedMSS' \in [MHs -> MSSs]
    BY <1>1, <1>4, <2>1 DEF startConsensus
  <2> QED
    BY <2>2, <2>3, HostMoves
<1>5. ASSUME NEW h \in MHs, setConnectedMSS(h) PROVE IInv'
  <2>1. PICK i \in MSSs : /\ connectedMSS' = [connectedMSS EXCEPT ![h] = i]
                          /\ network' = Append(network, ProposeMessage(h, i))
    BY <1>5 DEF setConnectedMSS
  <2>2. PICK x : x = ProposeMessage(h, i)
    OBVIOUS
  <2>3. x \in Quiet
    BY <2>2 DEF ProposeMessage, Quiet
  <2>4. /\ network' = Append(network, x) /\ UNCHANGED <<mss, late, restarted>>
        /\ connectedMSS' \in [MHs -> MSSs]
    BY <1>1, <1>5, <2>1, <2>2 DEF setConnectedMSS
  <2> QED
    BY <2>3, <2>4, HostMoves
<1>6. CASE UNCHANGED vars
  BY <1>6 DEF vars, IInv, InFlight
<1> QED
  BY <1>2, <1>3, <1>4, <1>5, <1>6 DEF Next

(* The strengthening of what follows, which every step preserves.           *)
THEOREM Inductively == Spec => []IInv
BY Initial, Inductive, PTL DEF Spec

-----------------------------------------------------------------------------
(* What the program promises. *)

(* Fields and messages have their types.                                    *)
THEOREM TypeCorrect == Spec => []TypeOK
<1>1. IInv => TypeOK
  <2> SUFFICES ASSUME IInv PROVE TypeOK
    OBVIOUS
  <2>1. mss \in [MSSs -> Stations] /\ InFlight \subseteq Messages
    BY DEF IInv, Good, Typed
  <2>2. ASSUME NEW i \in MSSs
        PROVE  /\ mss[i].roundR \in Rounds /\ mss[i].roundPhase \in 0 .. 4
               /\ mss[i].decidedState \in BOOLEAN /\ mss[i].ts \in Rounds
               /\ mss[i].p \subseteq MHs /\ mss[i].newV \subseteq MHs
               /\ mss[i].v \subseteq MHs /\ mss[i].endCollect \in BOOLEAN
               /\ mss[i].log \in [Rounds -> Logs]
    BY <2>1 DEF Stations
  <2>3. ASSUME NEW i \in MSSs, NEW r \in Rounds PROVE IsABag(mss[i].log[r])
    <3>1. mss[i].log[r] \in Logs
      BY <2>2
    <3> QED
      BY <3>1 DEF Logs, IsABag
  <2>4. ASSUME NEW m \in InFlight
        PROVE  m.to \in IF m.type = "INIT_3" THEN MHs ELSE MSSs
    BY <2>1 DEF Messages, Decides, Estimates, NewEstimates, Acks, Quiet
  <2> QED
    BY <2>2, <2>3, <2>4 DEF TypeOK, IInv
<1> QED
  BY <1>1, Inductively, PTL

(* A round has one proposal, however the messages are delayed and whoever   *)
(* starts again: its coordinator is past it once it has proposed.           *)
THEOREM ProposesOnce == Spec => []OneProposal
<1>1. IInv => OneProposal
  BY DEF IInv, Good, Proposals, OneProposal
<1> QED
  BY <1>1, Inductively, PTL

(* The acknowledgements that a coordinator counts come from different       *)
(* stations, and agree.                                                     *)
THEOREM CountsStations == Spec => []AcksFromDifferent
<1>1. IInv => AcksFromDifferent
  <2> SUFFICES ASSUME IInv, NEW i \in MSSs, NEW r \in Rounds,
                      NEW positive, positive = mss[i].nbPositiveAck[r],
                      NEW negative, negative = mss[i].nbNegativeAck[r]
               PROVE  positive + negative < n /\ (positive = 0 \/ negative = 0)
    BY DEF AcksFromDifferent
  <2>1. mss \in [MSSs -> Stations]
    BY DEF IInv, Good, Typed
  <2>2. positive \in Nat /\ negative \in Nat
    BY <2>1 DEF Stations
  <2>3. positive + negative <= Cardinality(Answered(InFlight, i, r))
    BY DEF IInv, Good, Counted
  <2>4. /\ Cardinality(Answered(InFlight, i, r)) \in Nat
        /\ Cardinality(Answered(InFlight, i, r)) <= n - 1
    <3>1. Answered(InFlight, i, r) \in SUBSET (MSSs \ {i})
      BY DEF Answered
    <3>2. IsFiniteSet(MSSs \ {i}) /\ Cardinality(MSSs \ {i}) = n - 1
      BY StationsFinite
    <3> QED
      BY <3>1, <3>2, Larger
  <2>5. positive = 0 \/ negative = 0
    BY <2>2 DEF IInv, Good, Unanimous, Positive, Negative
  <2> QED
    BY <2>2, <2>3, <2>4, <2>5, ConsensusAssumption
<1> QED
  BY <1>1, Inductively, PTL

(* Whoever has decided, a coordinator had a majority of one round.          *)
THEOREM MajorityDecides == Spec => []DecidedByMajority
<1>1. IInv => DecidedByMajority
  BY DEF IInv, Good, Grounded, HasMajority, DecidedByMajority
<1> QED
  BY <1>1, Inductively, PTL

(* All stations that have decided hold the same set, unless one of them was *)
(* started again.                                                           *)
THEOREM Agrees == Spec => []AgreedUntilRestart
<1>1. IInv => AgreedUntilRestart
  BY DEF IInv, Locked, LockedBy, LockedStation, AgreedUntilRestart, Agreement
<1> QED
  BY <1>1, Inductively, PTL

(* All stations that have adopted a set hold the same, in whichever rounds. *)
THEOREM AdoptsOne == Spec => []EstimatesLocked
<1>1. IInv => EstimatesLocked
  BY DEF IInv, Locked, LockedBy, LockedStation, EstimatesLocked
<1> QED
  BY <1>1, Inductively, PTL

(* What is decided has the values of alpha hosts.                           *)
THEOREM DecidesAlpha == Spec => []DecidesEnough
<1>1. IInv => DecidesEnough
  BY DEF IInv, Locked, LockedBy, LockedStation, DecidesEnough
<1> QED
  BY <1>1, Inductively, PTL
=============================================================================
