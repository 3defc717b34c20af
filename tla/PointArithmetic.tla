-------------------------- MODULE PointArithmetic --------------------------
(***************************************************************************)
(* Long computations with points: a few variables of a program hold points *)
(* of any class and representation, and each step stores the result of one *)
(* method of PointJacobi or Point.  Beside each variable runs the point of *)
(* the group it stands for, computed by the group law alone, so that a     *)
(* wrong result shows up wherever the representation it needs can arise:   *)
(* the triples met here are those the methods leave behind, with any Z and *)
(* with the negative Y of __neg__.                                         *)
(***************************************************************************)
EXTENDS Jacobian

CONSTANTS Registers,  \* the variables of the program
          Inputs,     \* the points callers try to construct
          CurveCofactor, \* the cofactor the curve was made with, 0 for None
          Scalars,    \* the multipliers callers use
          Twins       \* whether computations that add a Twin are followed

(* Callers give coordinates in the field and an order or none.             *)
ASSUME InputsAssumption ==
    \A pt \in Inputs : /\ pt \in Objects /\ pt.class # "infinity" /\ pt.z = 1 /\ ~ pt.twin
                       /\ pt.x \in Field /\ pt.y \in Field

ASSUME ScalarsAssumption == Scalars \subseteq Nat /\ Twins \in BOOLEAN

(* The multiples by Scalars, as a table.                                   *)
Multiple == [m \in Scalars \X Group |-> RMul(m[1], m[2])]

(* Negating a Point and a PointJacobi in turn lets Y grow without end; the *)
(* model stops there.                                                      *)
YBound == - P .. P

VARIABLES reg,  \* the object in each variable
          val   \* the point of the group it stands for

program == <<reg, val>>

OfClass(class, s) == reg[s].class = class

(* The assertions of Point.__init__; PointJacobi.__init__ has none, and    *)
(* callers give it points of the curve.                                    *)
OrderAsserted(pt) ==
    pt.class = "affine" /\ CurveCofactor # 1 /\ pt.n # 0 => AMul(pt, pt.n) = INFINITY

Accepted(pt) == ContainsPoint(pt.x, pt.y) /\ OrderAsserted(pt)

ProgramInit ==
    \E pt \in Inputs :
      /\ Accepted(pt)
      /\ reg = [r \in Registers |-> pt]
      /\ val = [r \in Registers |-> <<pt.x, pt.y>>]

Store(d, pt, v) ==
    /\ pt.twin => Twins
    /\ reg' = [reg EXCEPT ![d] = Flagged(pt, FALSE)]
    /\ val' = [val EXCEPT ![d] = v]

Construct(d) == \E pt \in Inputs : Accepted(pt) /\ Store(d, pt, <<pt.x, pt.y>>)

Doubling(d, s) ==
    Store(d, IF OfClass("jacobi", s) THEN Double(reg[s]) ELSE ADouble[reg[s]],
          RAdd(val[s], val[s]))

Negation(d, s) ==
    /\ ~ OfClass("infinity", s) /\ reg[s].y \in YBound
    /\ Store(d, IF OfClass("jacobi", s) THEN Neg(reg[s]) ELSE ANeg(reg[s]), RNeg(val[s]))

(* self + other; a Point hands a PointJacobi over to its __radd__.         *)
Addition(d, s, o) ==
    Store(d, IF OfClass("jacobi", s) THEN Add(reg[s], reg[o])
             ELSE IF OfClass("jacobi", o) THEN Add(reg[o], reg[s])
             ELSE AAdd(reg[s], reg[o]),
          RAdd(val[s], val[o]))

Scaling(s) == OfClass("jacobi", s) /\ Store(s, Scale(reg[s]), val[s])

(* to_affine() scales the point it is called on as well.                   *)
ConversionToAffine(d, s) ==
    /\ OfClass("jacobi", s)
    /\ reg' = [reg EXCEPT ![s] = Scale(@), ![d] = ToAffine(reg[s])]
    /\ val' = [val EXCEPT ![d] = val[s]]

ConversionFromAffine(d, s) == OfClass("affine", s) /\ Store(d, FromAffine(reg[s]), val[s])

Product(pt, k, generator) ==
    IF pt.class = "jacobi" THEN Mul(pt, k, generator) ELSE AMul(pt, k)

Multiplication(d, s) ==
    \E k \in Scalars, generator \in BOOLEAN :
      /\ generator => OfClass("jacobi", s) /\ reg[s].n # 0
      /\ Store(d, Product(reg[s], k, generator), Multiple[<<k, val[s]>>])

DoubleMultiplication(d, s, o) ==
    /\ OfClass("jacobi", s)
    /\ \E k, m \in Scalars :
         Store(d, MulAdd(reg[s], k, reg[o], m),
               RAdd(Multiple[<<k, val[s]>>], Multiple[<<m, val[o]>>]))

ProgramNext ==
    \E d \in Registers :
      \/ Construct(d)
      \/ Scaling(d)
      \/ \E s \in Registers :
           \/ Doubling(d, s)
           \/ Negation(d, s)
           \/ ConversionToAffine(d, s)
           \/ ConversionFromAffine(d, s)
           \/ Multiplication(d, s)
           \/ \E o \in Registers : Addition(d, s, o) \/ DoubleMultiplication(d, s, o)

ProgramSpec == ProgramInit /\ [][ProgramNext]_program

----------------------------------------------------------------------------
(* The classes and the ranges of the coordinates; Y may be negative after  *)
(* __neg__, Z is never 0 modulo P.                                         *)
ProgramTypeOK ==
    \A r \in Registers :
      LET pt == reg[r] IN
      \/ pt = INFINITY
      \/ /\ pt.class = "jacobi" /\ pt.z \in 1 .. P - 1
         /\ pt.x \in Field /\ pt.y \in - 2 * P .. 2 * P
      \/ /\ pt.class = "affine" /\ pt.z = 1
         /\ pt.x \in Field /\ pt.y \in - P .. 2 * P

(* Every object stands for the point the group law yields, however it was  *)
(* computed and in whatever representation its operands were.              *)
Represents == \A r \in Registers : Residues(reg[r]) = val[r]

(* == of two points tells whether they are the same point of the curve,    *)
(* whatever their denominators and signs.                                  *)
EqualityIsExact ==
    \A r, s \in Registers :
      OfClass("jacobi", r) => (Eq(reg[r], reg[s]) <=> val[r] = val[s])
=============================================================================
