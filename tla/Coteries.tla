------------------------------ MODULE Coteries ------------------------------
(* DistrictRepository.genCoteries, from which the districts in k9.txt (5     *)
(* columns) and k15.txt (8 columns) come: the nodes stand in a square, and   *)
(* the arbiters of a node are the others of its row and of its column.       *)
EXTENDS Integers

Indices(columns) == 0 .. (columns - 1)

(* The number in row i and column j of the square. *)
data(columns, i, j) == i * columns + j + 1

Squared(columns) == 1 .. (columns * columns)

(* The arbiters of the node in row i and column j; coterie.remove(node)      *)
(* leaves the node itself out.                                               *)
Coterie(columns, i, j) ==
  ({data(columns, i, k) : k \in Indices(columns)}
     \cup {data(columns, k, j) : k \in Indices(columns)}) \ {data(columns, i, j)}

genCoteries(columns) ==
  [node \in Squared(columns) |->
     Coterie(columns, (node - 1) \div columns, (node - 1) % columns)]
=============================================================================
