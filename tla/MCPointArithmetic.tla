------------------------- MODULE MCPointArithmetic -------------------------
(* Instances of PointArithmetic for TLC.                                   *)
EXTENDS PointArithmetic, TLC

CONSTANTS BaseX, BaseY,  \* the point callers start from
          Order          \* the order they give it

(* The base point in each class, with that order.                          *)
MCInputs == {Jacobi(BaseX, BaseY, 1, Order), Affine(BaseX, BaseY, Order)}

(* The curve of these instances is one the theorems are about.             *)
ASSUME MCAssumption ==
    NoFlatTangent /\ Annihilates(Order)

Symmetry == Permutations(Registers)
=============================================================================
