----------------------------- MODULE MCSanders -----------------------------
(* Sanders for TLC: districts of a few nodes, without the node itself as in the
   files k9.txt and k15.txt. *)
EXTENDS Sanders, Coteries

(* Three nodes: two of them have the third as their common arbiter. *)
Everyone == 1 .. 3
TheOthers == [n \in Everyone |-> Everyone \ {n}]

(* The node in the middle requests once, the others twice. *)
Twice == <<2, 1, 2>>

(* No property says anything after a late answer. *)
UntilLate == ~late

(* The districts that genCoteries makes for three columns or more intersect, *)
(* so that the assumption of Exclusion is met.                            *)
ASSUME GeneratedDistrictsIntersect ==
  \A columns \in 3 .. 5 : \A n, o \in Squared(columns) :
    n # o => genCoteries(columns)[n] \cap genCoteries(columns)[o] # {}
=============================================================================
