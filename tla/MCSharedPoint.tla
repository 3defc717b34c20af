--------------------------- MODULE MCSharedPoint ---------------------------
(* Instances of SharedPoint for TLC.                                       *)
EXTENDS SharedPoint, TLC

CONSTANTS c1, c2

(* Threads run the same code, and new objects have no order.               *)
Symmetry == Permutations(Threads) \cup Permutations({c1, c2} \cap Objects)
=============================================================================
