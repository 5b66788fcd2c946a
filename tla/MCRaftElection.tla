--------------------------- MODULE MCRaftElection ---------------------------
(* RaftElection for TLC: the servers are interchangeable. *)
EXTENDS RaftElection, TLC

CONSTANTS s1, s2, s3   \* three of the servers, by name

Symmetry == Permutations(Server)

(* The state test.sh has reached when it starts to stop and resume servers, which
   is long before the first timer can expire: all of them are initialised. *)
TestedInit ==
  /\ initialized = [s \in Server |-> TRUE]
  /\ stopped = [s \in Server |-> FALSE]
  /\ pc = [s \in Server |-> "timers"]
  /\ exited = {} /\ elected = {}
  /\ currentTerm = [s \in Server |-> 0]
  /\ votedFor = [s \in Server |-> Nil]
  /\ votes = [s \in Server |-> 0]
  /\ state = [s \in Server |-> "candidate"]
  /\ taskQueue = [s \in Server |-> <<>>]
  /\ toProcess = [s \in Server |-> <<>>]
  /\ outbox = [s \in Server |-> {}]
  /\ granters = [s \in Server |-> {}]
  /\ elections = 0 /\ calls = 0 /\ beats = 0

(* To find a long counterexample soon, a search may be narrowed to the behaviours
   in which the servers keep to these parts: s1 and s3 are the ones that are
   stopped, no term goes above 2, s3 stands only in term 1, s2 only in term 2. *)
Parts ==
  /\ ~stopped[s2]
  /\ \A s \in Server : currentTerm[s] <= 2
  /\ currentTerm[s3] = 2 => votedFor[s3] # s3
  /\ currentTerm[s2] = 1 => votedFor[s2] # s2

TestedSpec == TestedInit /\ [][Next]_vars
=============================================================================
