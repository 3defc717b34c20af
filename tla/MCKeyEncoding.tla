--------------------------- MODULE MCKeyEncoding ---------------------------
(* The instance of KeyEncoding for TLC.                                    *)
EXTENDS KeyEncoding

(* The curve is one the theorems are about, and the product by the order   *)
(* that Public_key tests adds no two Twins, whatever point it is of.       *)
ASSUME MCAssumption ==
    /\ Smooth /\ (Cofactor = 1 => Annihilates(Order))
    /\ \A q \in CurvePoints : ~ Mul(Jacobi(q[1], q[2], 1, 0), Order, FALSE).twin
=============================================================================
