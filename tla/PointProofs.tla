---------------------------- MODULE PointProofs ----------------------------
(***************************************************************************)
(* Proofs about what programs do with points and keys.  Every sum, double, *)
(* negation, multiple and conversion of points yields what the group law   *)
(* says, on every curve on which no tangent is flat, for any number of     *)
(* variables and computations of any length.  Keys and their encodings, on *)
(* every curve: the types of what the arithmetic returns, that a checked   *)
(* key has one spelling and is read back, and that it is on the curve.     *)
(***************************************************************************)
EXTENDS PointArithmetic, KeyEncoding, JacobianProofs

----------------------------------------------------------------------------
(* Programs that compute with points.                                      *)

(* The orders that callers give are right.                                 *)
OrdersRight == \A pt \in Inputs : pt.n # 0 => Annihilates(pt.n)

(* Every variable holds a well-formed object that stands for its point, and*)
(* an order that is right, if any.                                         *)
Sound(pt, q) == Good(pt, q) /\ (pt.n # 0 => Annihilates(pt.n))

PInv ==
    /\ reg \in [Registers -> Objects] /\ val \in [Registers -> Group]
    /\ \A r \in Registers : Sound(reg[r], val[r])

LEMMA InputGood ==
  ASSUME NEW pt \in Inputs, Accepted(pt)
  PROVE  Good(pt, <<pt.x, pt.y>>)
  <1> DEFINE q == <<pt.x, pt.y>>
  <1>1. /\ pt \in Objects /\ pt.class # "infinity" /\ pt.z = 1 /\ pt.twin = FALSE
        /\ pt.x \in Field /\ pt.y \in Field /\ ContainsPoint(pt.x, pt.y)
    <2>1. pt \in Objects /\ pt.class # "infinity" /\ pt.z = 1 /\ ~ pt.twin
          /\ pt.x \in Field /\ pt.y \in Field
      BY InputsAssumption
    <2> QED BY <2>1, ObjectIs DEF Accepted
  <1>2. /\ pt.class \in {"jacobi", "affine"} /\ pt.n \in Nat
        /\ pt = [class |-> pt.class, x |-> pt.x, y |-> pt.y, z |-> pt.z, n |-> pt.n,
                 twin |-> pt.twin]
    BY <1>1, ObjectIs
  <1>3. q \in CurvePoints /\ q[1] = pt.x /\ q[2] = pt.y
    BY <1>1 DEF CurvePoints
  <1>4. pt = Object(pt.class, q[1], q[2], 1, pt.n)
    BY <1>1, <1>2, <1>3 DEF Object
  <1> HIDE DEF q
  <1>5. Good(Object(pt.class, q[1], q[2], 1, pt.n), q)
    BY <1>2, <1>3, ReducedGood
  <1> QED BY <1>4, <1>5 DEF q

LEMMA InitGood == OrdersRight /\ ProgramInit => PInv
  <1> SUFFICES ASSUME OrdersRight, ProgramInit PROVE PInv
    OBVIOUS
  <1>1. PICK pt \in Inputs : /\ Accepted(pt) /\ reg = [r \in Registers |-> pt]
                             /\ val = [r \in Registers |-> <<pt.x, pt.y>>]
    BY DEF ProgramInit
  <1>2. Good(pt, <<pt.x, pt.y>>)
    BY <1>1, InputGood
  <1>3. pt \in Objects /\ <<pt.x, pt.y>> \in Group
    BY <1>2, InfinityTold
  <1>4. pt.n # 0 => Annihilates(pt.n)
    BY DEF OrdersRight
  <1> QED BY <1>1, <1>2, <1>3, <1>4 DEF PInv, Sound

(* The result of a method that stands for its point is stored.             *)
LEMMA StoreKeeps ==
  ASSUME PInv, Twins = FALSE, NEW d \in Registers, NEW pt, NEW v, Store(d, pt, v),
         ~ pt.twin => Good(pt, v), pt.n # 0 => Annihilates(pt.n)
  PROVE  PInv'
  <1>1. Good(pt, v)
    BY DEF Store
  <1>2. pt \in Objects /\ v \in Group /\ Flagged(pt, FALSE) = pt
    BY <1>1, InfinityTold, ObjectIs
  <1>3. reg' = [reg EXCEPT ![d] = pt] /\ val' = [val EXCEPT ![d] = v]
    BY <1>2 DEF Store
  <1>4. reg' \in [Registers -> Objects] /\ val' \in [Registers -> Group]
    BY <1>2, <1>3 DEF PInv
  <1>5. ASSUME NEW r \in Registers PROVE Sound(reg'[r], val'[r])
    BY <1>1, <1>3 DEF PInv, Sound
  <1> QED BY <1>4, <1>5 DEF PInv

(* The table of the multiples.                                             *)
LEMMA MultipleIs ==
  ASSUME NEW k \in Scalars, NEW q \in Group
  PROVE  k \in Nat /\ Multiple[<<k, q>>] = ZMul(k, q)
  <1>1. k \in Nat
    BY ScalarsAssumption
  <1>2. Multiple[<<k, q>>] = RMul(k, q)
    BY DEF Multiple
  <1> QED BY <1>1, <1>2, ZMulIs

(* As is one that carries an order of its operands, or none.               *)
Carried(pt, s, o) == pt.n \in {0, reg[s].n, reg[o].n}

LEMMA ResultKeeps ==
  ASSUME PInv, Twins = FALSE, NEW d \in Registers, NEW s \in Registers, NEW o \in Registers,
         NEW pt, NEW v, Store(d, pt, v), ~ pt.twin => Good(pt, v), Carried(pt, s, o)
  PROVE  PInv'
  <1>1. pt.n # 0 => Annihilates(pt.n)
    BY DEF PInv, Sound, Carried
  <1> QED BY <1>1, StoreKeeps

LEMMA OrdersKept ==
  ASSUME NEW pt \in Objects
  PROVE  /\ Double(pt).n \in {0, pt.n} /\ ADouble[pt].n = 0
         /\ Neg(pt).n = pt.n /\ ANeg(pt).n = 0 /\ Scale(pt).n = pt.n
         /\ ToAffine(pt).n \in {0, pt.n} /\ FromAffine(pt).n = pt.n
         /\ \A o : AAdd(pt, o).n \in {0, pt.n, o.n}
  <1>1. INFINITY.n = 0
    BY DEF INFINITY, Object
  <1>2. \A X, Y, Z, n : Jacobi(X, Y, Z, n).n = n /\ Affine(X, Y, n).n = n
    BY DEF Jacobi, Affine, Object
  <1>3. Double(pt).n \in {0, pt.n}
    BY <1>1, FromTripleOrder DEF Double
  <1>4. ADouble[pt].n = 0
    BY <1>1, <1>2 DEF ADouble
  <1>5. /\ Neg(pt).n = pt.n /\ ANeg(pt).n = 0 /\ FromAffine(pt).n = pt.n
        /\ Scale(pt).n = pt.n /\ ToAffine(pt).n \in {0, pt.n}
    BY <1>1, <1>2 DEF Neg, ANeg, FromAffine, Scale, ToAffine
  <1>6. \A o : AAdd(pt, o).n \in {0, pt.n, o.n}
    BY <1>1, <1>2, <1>4 DEF AAdd
  <1> QED BY <1>3, <1>4, <1>5, <1>6

LEMMA StepGood ==
  ASSUME NoFlatTangent, OrdersRight, Twins = FALSE, PInv, [ProgramNext]_program
  PROVE  PInv'
  <1>1. \A r \in Registers :
          /\ Good(reg[r], val[r]) /\ reg[r] \in Objects
          /\ reg[r].n # 0 => Annihilates(reg[r].n)
    BY DEF PInv, Sound
  <1>2. ASSUME NEW d \in Registers, Construct(d) PROVE PInv'
    <2>1. PICK pt \in Inputs : Accepted(pt) /\ Store(d, pt, <<pt.x, pt.y>>)
      BY <1>2 DEF Construct
    <2>2. Good(pt, <<pt.x, pt.y>>)
      BY <2>1, InputGood
    <2>3. pt.n # 0 => Annihilates(pt.n)
      BY DEF OrdersRight
    <2> QED BY <2>1, <2>2, <2>3, StoreKeeps
  <1>3. ASSUME NEW d \in Registers, NEW s \in Registers, Doubling(d, s) PROVE PInv'
    <2>1. CASE reg[s].class = "jacobi"
      <3>1. Store(d, Double(reg[s]), RAdd(val[s], val[s]))
        BY <1>3, <2>1 DEF Doubling, OfClass
      <3>2. Good(Double(reg[s]), RAdd(val[s], val[s]))
        BY <1>1, <2>1, DoubleGood
      <3>3. Carried(Double(reg[s]), s, s)
        BY <1>1, OrdersKept DEF Carried
      <3> QED BY <1>1, <3>1, <3>2, <3>3, ResultKeeps
    <2>2. CASE reg[s].class # "jacobi"
      <3>1. Store(d, ADouble[reg[s]], RAdd(val[s], val[s]))
        BY <1>3, <2>2 DEF Doubling, OfClass
      <3>2. Good(ADouble[reg[s]], RAdd(val[s], val[s]))
        BY <1>1, <2>2, ADoubleGood
      <3>3. Carried(ADouble[reg[s]], s, s)
        BY <1>1, OrdersKept DEF Carried
      <3> QED BY <1>1, <3>1, <3>2, <3>3, ResultKeeps
    <2> QED BY <2>1, <2>2
  <1>4. ASSUME NEW d \in Registers, NEW s \in Registers, Negation(d, s) PROVE PInv'
    <2> DEFINE pt == reg[s]  q == val[s]
    <2>1. Good(pt, q) /\ pt # INFINITY /\ pt.y \in - P .. P
      BY <1>1, <1>4, InfinityTold DEF Negation, OfClass, YBound
    <2>2. /\ pt.class \in {"jacobi", "affine"} /\ pt.n \in Nat /\ pt.y \in Int
      BY <2>1, FiniteIs
    <2>3. CASE pt.class = "jacobi"
      <3>1. Store(d, Neg(pt), RNeg(q))
        BY <1>4, <2>3 DEF Negation, OfClass
      <3>2. - pt.y \in - P .. 2 * P
        BY <2>1, <2>2, PFacts
      <3>3. Neg(pt) = Object(pt.class, pt.x, - pt.y, pt.z, pt.n)
        BY <2>3 DEF Neg, Jacobi
      <3>4. Good(Neg(pt), RNeg(q))
        BY <2>1, <2>2, <3>2, <3>3, OppositeGood
      <3>5. Carried(Neg(pt), s, s)
        BY <1>1, OrdersKept DEF Carried
      <3> QED BY <1>1, <3>1, <3>4, <3>5, ResultKeeps
    <2>4. CASE pt.class = "affine"
      <3>1. Store(d, ANeg(pt), RNeg(q))
        BY <1>4, <2>4 DEF Negation, OfClass
      <3>2. P - pt.y \in - P .. 2 * P
        BY <2>1, <2>2, PFacts
      <3>3. ANeg(pt) = Object(pt.class, pt.x, P - pt.y, pt.z, 0)
        BY <2>1, <2>4, AffineIs DEF ANeg, Affine
      <3>4. Good(ANeg(pt), RNeg(q))
        BY <2>1, <2>2, <3>2, <3>3, OppositeGood
      <3>5. Carried(ANeg(pt), s, s)
        BY <1>1, OrdersKept DEF Carried
      <3> QED BY <1>1, <3>1, <3>4, <3>5, ResultKeeps
    <2> QED BY <2>2, <2>3, <2>4
  <1>5. ASSUME NEW d \in Registers, NEW s \in Registers, NEW o \in Registers, Addition(d, s, o)
        PROVE  PInv'
    <2> DEFINE v == RAdd(val[s], val[o])
    <2>1. CASE reg[s].class = "jacobi"
      <3>1. Store(d, Add(reg[s], reg[o]), v)
        BY <1>5, <2>1 DEF Addition, OfClass
      <3>2. ~ Add(reg[s], reg[o]).twin => Good(Add(reg[s], reg[o]), v)
        BY <1>1, <2>1, AddGood
      <3>3. Carried(Add(reg[s], reg[o]), s, o)
        BY <1>1, AddOrder DEF Carried
      <3> QED BY <1>1, <3>1, <3>2, <3>3, ResultKeeps
    <2>2. CASE reg[s].class # "jacobi" /\ reg[o].class = "jacobi"
      <3>1. Store(d, Add(reg[o], reg[s]), v)
        BY <1>5, <2>2 DEF Addition, OfClass
      <3>2. ~ Add(reg[o], reg[s]).twin => Good(Add(reg[o], reg[s]), v)
        BY <1>1, <2>2, AddGood
      <3>3. Carried(Add(reg[o], reg[s]), s, o)
        BY <1>1, AddOrder DEF Carried
      <3> QED BY <1>1, <3>1, <3>2, <3>3, ResultKeeps
    <2>3. CASE reg[s].class # "jacobi" /\ reg[o].class # "jacobi"
      <3>1. Store(d, AAdd(reg[s], reg[o]), v)
        BY <1>5, <2>3 DEF Addition, OfClass
      <3>2. Good(AAdd(reg[s], reg[o]), v)
        BY <1>1, <2>3, AAddGood
      <3>3. Carried(AAdd(reg[s], reg[o]), s, o)
        BY <1>1, OrdersKept DEF Carried
      <3> QED BY <1>1, <3>1, <3>2, <3>3, ResultKeeps
    <2> QED BY <2>1, <2>2, <2>3
  <1>6. ASSUME NEW s \in Registers, Scaling(s) PROVE PInv'
    <2>1. reg[s].class = "jacobi" /\ Store(s, Scale(reg[s]), val[s])
      BY <1>6 DEF Scaling, OfClass
    <2>2. Good(Scale(reg[s]), val[s])
      BY <1>1, <2>1, ScaleGood
    <2>3. Carried(Scale(reg[s]), s, s)
      BY <1>1, OrdersKept DEF Carried
    <2> QED BY <1>1, <2>1, <2>2, <2>3, ResultKeeps
  <1>7. ASSUME NEW d \in Registers, NEW s \in Registers, ConversionToAffine(d, s) PROVE PInv'
    <2> DEFINE a == Scale(reg[s])  b == ToAffine(reg[s])
    <2>1. /\ reg[s].class = "jacobi" /\ val' = [val EXCEPT ![d] = val[s]]
          /\ reg' = [reg EXCEPT ![s] = a, ![d] = b]
      BY <1>7 DEF ConversionToAffine, OfClass, PInv
    <2>2. Sound(a, val[s]) /\ Sound(b, val[s])
      BY <1>1, <2>1, ScaleGood, ToAffineGood, OrdersKept DEF Sound
    <2>3. a \in Objects /\ b \in Objects /\ val[s] \in Group
      BY <2>2, InfinityTold DEF Sound
    <2> HIDE DEF a, b
    <2>4. reg' \in [Registers -> Objects] /\ val' \in [Registers -> Group]
      BY <2>1, <2>3 DEF PInv
    <2>5. ASSUME NEW r \in Registers PROVE Sound(reg'[r], val'[r])
      <3>1. CASE r = d
        BY <2>1, <2>2, <3>1 DEF PInv
      <3>2. CASE r = s /\ r # d
        BY <2>1, <2>2, <3>2 DEF PInv
      <3>3. CASE r # s /\ r # d
        BY <2>1, <3>3 DEF PInv
      <3> QED BY <3>1, <3>2, <3>3
    <2> QED BY <2>4, <2>5 DEF PInv
  <1>8. ASSUME NEW d \in Registers, NEW s \in Registers, ConversionFromAffine(d, s) PROVE PInv'
    <2> DEFINE pt == reg[s]
    <2>1. pt.class = "affine" /\ Store(d, FromAffine(pt), val[s])
      BY <1>8 DEF ConversionFromAffine, OfClass
    <2>2. Good(pt, val[s]) /\ pt # INFINITY /\ pt.z = 1
      BY <1>1, <2>1, AffineIs
    <2>3. FromAffine(pt) = Object("jacobi", pt.x, pt.y, 1, pt.n) /\ pt.n \in Nat
      BY <2>2, FiniteIs DEF FromAffine, Jacobi
    <2>4. Good(FromAffine(pt), val[s])
      BY <2>2, <2>3, CopyGood
    <2>5. Carried(FromAffine(pt), s, s)
      BY <1>1, OrdersKept DEF Carried
    <2> QED BY <1>1, <2>1, <2>4, <2>5, ResultKeeps
  <1>9. ASSUME NEW d \in Registers, NEW s \in Registers, Multiplication(d, s) PROVE PInv'
    <2>1. PICK k \in Scalars, generator \in BOOLEAN :
            /\ generator => OfClass("jacobi", s) /\ reg[s].n # 0
            /\ Store(d, Product(reg[s], k, generator), Multiple[<<k, val[s]>>])
      BY <1>9 DEF Multiplication
    <2> DEFINE pt == Product(reg[s], k, generator)
    <2>2. k \in Nat /\ val[s] \in Group /\ Multiple[<<k, val[s]>>] = ZMul(k, val[s])
      BY MultipleIs DEF PInv
    <2>3. ~ pt.twin => Good(pt, ZMul(k, val[s]))
      <3>1. CASE reg[s].class = "jacobi"
        BY <1>1, <2>1, <2>2, <3>1, MultiplicationIsGroupLaw DEF Product, OfClass, NoFlatTangent
      <3>2. CASE reg[s].class # "jacobi"
        BY <1>1, <2>2, <3>2, AffineMultiplicationIsGroupLaw DEF Product
      <3> QED BY <3>1, <3>2
    <2>4. Carried(pt, s, s)
      <3>1. CASE reg[s].class = "jacobi"
        <4>1. "n" \in DOMAIN reg[s]
          BY <1>1 DEF Objects
        <4> QED BY <3>1, <4>1, MulOrder DEF Product, Carried
      <3>2. CASE reg[s].class # "jacobi"
        BY <1>1, <2>2, <3>2, AffineMultiplicationIsGroupLaw DEF Product, Plain, Carried
      <3> QED BY <3>1, <3>2
    <2> HIDE DEF pt
    <2> QED BY <2>1, <2>2, <2>3, <2>4, ResultKeeps DEF pt
  <1>10. ASSUME NEW d \in Registers, NEW s \in Registers, NEW o \in Registers,
                DoubleMultiplication(d, s, o)
         PROVE  PInv'
    <2>1. PICK k \in Scalars, m \in Scalars :
            Store(d, MulAdd(reg[s], k, reg[o], m),
                  RAdd(Multiple[<<k, val[s]>>], Multiple[<<m, val[o]>>]))
      BY <1>10 DEF DoubleMultiplication
    <2> DEFINE pt == MulAdd(reg[s], k, reg[o], m)
               v == RAdd(ZMul(k, val[s]), ZMul(m, val[o]))
    <2>2. /\ k \in Nat /\ m \in Nat /\ reg[s].class = "jacobi"
          /\ Multiple[<<k, val[s]>>] = ZMul(k, val[s])
          /\ Multiple[<<m, val[o]>>] = ZMul(m, val[o])
      BY <1>10, MultipleIs DEF PInv, DoubleMultiplication, OfClass
    <2>3. ~ pt.twin => Good(pt, v)
      BY <1>1, <2>2, DoubleMultiplicationIsGroupLaw DEF NoFlatTangent
    <2>4. Carried(pt, s, o)
      BY <1>1, <2>2, MulAddOrder DEF Carried, NoFlatTangent
    <2>5. Store(d, pt, v)
      BY <2>1, <2>2
    <2> HIDE DEF pt, v
    <2> QED BY <2>3, <2>4, <2>5, ResultKeeps
  <1>11. CASE UNCHANGED program
    BY <1>11 DEF program, PInv
  <1>12. CASE ProgramNext
    BY <1>2, <1>3, <1>4, <1>5, <1>6, <1>7, <1>8, <1>9, <1>10, <1>12 DEF ProgramNext
  <1> QED BY <1>11, <1>12

(* Whatever callers compute by adding, doubling, negating, multiplying,    *)
(* scaling and converting the points they construct, in either class and   *)
(* over any number of steps, every object is well-formed and stands for    *)
(* the point the group law yields: the methods keep each other's           *)
(* assumptions.  Not followed are the steps that add two triples that are  *)
(* a Twin.                                                                 *)
THEOREM ComputationsInvariant ==
  ASSUME NoFlatTangent, OrdersRight, Twins = FALSE
  PROVE  ProgramSpec => []PInv
  <1>1. PInv /\ [ProgramNext]_program => PInv'
    BY StepGood
  <1>2. ProgramInit => PInv
    BY InitGood
  <1> QED BY <1>1, <1>2, PTL DEF ProgramSpec

(* The coordinates stay in their ranges.                                   *)
THEOREM CoordinatesInRange ==
  ASSUME NoFlatTangent, OrdersRight, Twins = FALSE
  PROVE  ProgramSpec => []ProgramTypeOK
  <1>1. PInv => ProgramTypeOK
    <2> SUFFICES ASSUME PInv, NEW r \in Registers
                 PROVE  LET pt == reg[r] IN
                        \/ pt = INFINITY
                        \/ /\ pt.class = "jacobi" /\ pt.z \in 1 .. P - 1
                           /\ pt.x \in Field /\ pt.y \in - 2 * P .. 2 * P
                        \/ /\ pt.class = "affine" /\ pt.z = 1
                           /\ pt.x \in Field /\ pt.y \in - P .. 2 * P
      BY DEF ProgramTypeOK
    <2> DEFINE pt == reg[r]
    <2>1. Good(pt, val[r])
      BY DEF PInv, Sound
    <2>2. CASE pt # INFINITY
      <3>1. /\ pt.class \in {"jacobi", "affine"} /\ pt.x \in Field /\ pt.z \in 1 .. P - 1
            /\ pt.y \in - P .. 2 * P /\ pt.y \in Int /\ (pt.class = "affine" => pt.z = 1)
        BY <2>1, <2>2, FiniteIs, AffineIs
      <3>2. pt.y \in - 2 * P .. 2 * P
        BY <3>1, PFacts
      <3> QED BY <3>1, <3>2
    <2> QED BY <2>2
  <1> QED BY <1>1, ComputationsInvariant, PTL

(* Every object computed stands for what the group law yields.             *)
THEOREM ComputationsRepresent ==
  ASSUME NoFlatTangent, OrdersRight, Twins = FALSE
  PROVE  ProgramSpec => []Represents
  <1>1. PInv => Represents
    BY ReadsBack DEF PInv, Sound, Represents
  <1> QED BY <1>1, ComputationsInvariant, PTL

(* == tells exactly whether two of them are the same point, whatever their *)
(* denominators, signs and classes.                                        *)
THEOREM EqualityExact ==
  ASSUME NoFlatTangent, OrdersRight, Twins = FALSE
  PROVE  ProgramSpec => []EqualityIsExact
  <1>1. PInv => EqualityIsExact
    <2> SUFFICES ASSUME PInv, NEW r \in Registers, NEW s \in Registers, reg[r].class = "jacobi"
                 PROVE  Eq(reg[r], reg[s]) <=> val[r] = val[s]
      BY DEF EqualityIsExact, OfClass
    <2>1. Good(reg[r], val[r]) /\ Good(reg[s], val[s])
      BY DEF PInv, Sound
    <2>2. Eq(reg[r], reg[s]) = (val[r] = val[s])
      BY <2>1, EqGood
    <2> QED BY <2>2
  <1> QED BY <1>1, ComputationsInvariant, PTL

----------------------------------------------------------------------------
(* A point as the program holds it: no twin, an order it was given, a      *)
(* reduced Z, a Y that is at most negated when Z is not 1.                 *)
PointOK(pt) ==
    /\ pt \in Objects /\ pt.twin = FALSE /\ pt.n \in {0, Order}
    /\ pt.z \in Field /\ (pt.z = 0 <=> pt = INFINITY)
    /\ pt.z # 1 => - P < pt.y /\ pt.y < P

LEMMA PointFacts ==
  ASSUME NEW pt, PointOK(pt)
  PROVE  /\ pt.x \in Int /\ pt.y \in Int /\ pt.z \in Int /\ pt.n \in Nat
         /\ pt.z \in 0 .. P - 1 /\ pt.twin = FALSE /\ Triple(pt) \in Triples
  <1>1. Order \in Nat
    BY BaseAssumption
  <1>2. pt \in Objects /\ pt.twin = FALSE /\ pt.n \in {0, Order} /\ pt.z \in Field
    BY DEF PointOK
  <1>3. /\ pt.x \in Int /\ pt.y \in Int /\ pt.z \in Int /\ pt.n \in Nat
        /\ pt.twin \in BOOLEAN
    BY <1>2 DEF Objects
  <1> QED BY <1>2, <1>3 DEF Triple, Triples, Field

LEMMA FiniteFacts ==
  ASSUME NEW pt, PointOK(pt), pt # INFINITY
  PROVE  /\ pt.x \in Int /\ pt.y \in Int /\ pt.z \in Int /\ pt.z \in 1 .. P - 1
         /\ pt.n \in {0, Order}
  <1>1. pt.z # 0 /\ pt.n \in {0, Order}
    BY DEF PointOK
  <1>2. /\ pt.x \in Int /\ pt.y \in Int /\ pt.z \in Int /\ pt.z \in 0 .. P - 1
    BY PointFacts
  <1>3. pt.z \in 1 .. P - 1
    BY <1>1, <1>2, PFacts
  <1> QED BY <1>1, <1>2, <1>3

LEMMA InfinityOK == PointOK(INFINITY) /\ INFINITY.class = "infinity" /\ INFINITY.z = 0
  <1>1. 0 \in Field
    BY PFacts DEF Field
  <1> QED BY <1>1, PFacts DEF PointOK, INFINITY, Object, Objects

LEMMA JacobiOK ==
  ASSUME NEW x \in Int, NEW y \in Int, NEW z \in Field \ {0}, NEW n \in {0, Order},
         z # 1 => - P < y /\ y < P
  PROVE  /\ PointOK(Jacobi(x, y, z, n)) /\ Jacobi(x, y, z, n) # INFINITY
         /\ Jacobi(x, y, z, n).x = x /\ Jacobi(x, y, z, n).y = y
         /\ Jacobi(x, y, z, n).z = z /\ Jacobi(x, y, z, n).n = n
  <1>1. n \in Nat /\ z \in Int /\ z # 0
    BY BaseAssumption, PFacts DEF Field
  <1> DEFINE pt == Jacobi(x, y, z, n)
  <1>2. pt = [class |-> "jacobi", x |-> x, y |-> y, z |-> z, n |-> n, twin |-> FALSE]
    BY DEF Jacobi, Object
  <1> HIDE DEF pt
  <1>3. /\ pt \in Objects /\ pt.x = x /\ pt.y = y /\ pt.z = z /\ pt.n = n
        /\ pt.twin = FALSE
    BY <1>1, <1>2 DEF Objects
  <1>4. pt # INFINITY
    BY <1>1, <1>3, InfinityOK
  <1>5. PointOK(pt)
    BY <1>1, <1>3, <1>4 DEF PointOK
  <1> QED BY <1>3, <1>4, <1>5 DEF pt

LEMMA KeepOK ==
  ASSUME NEW pt, PointOK(pt)
  PROVE  Flagged(pt, FALSE) = pt
  BY DEF PointOK, Flagged, Objects

(* The ghost is put back.                                                  *)
LEMMA FlagTwice ==
  ASSUME NEW pt \in Objects, NEW b \in BOOLEAN
  PROVE  Flagged(Flagged(pt, b), FALSE) = Flagged(pt, FALSE)
  BY DEF Flagged, Objects

(* What double and add make of a triple of reduced coordinates.            *)
LEMMA FromTripleOK ==
  ASSUME NEW t, NEW c \in Coordinates, NEW b \in BOOLEAN, t = WithGhost(c, b),
         NEW n \in {0, Order}
  PROVE  PointOK(Flagged(FromTriple(t, n), FALSE))
  <1>1. /\ c[1] \in Field /\ c[2] \in Field /\ c[3] \in Field
        /\ t[1] = c[1] /\ t[2] = c[2] /\ t[3] = c[3] /\ t[4] = b
    BY DEF Coordinates, WithGhost
  <1>2. c[1] \in Int /\ c[2] \in Int /\ - P < c[2] /\ c[2] < P
    BY <1>1, PFacts DEF Field
  <1>3. CASE c[3] = 0
    <2>1. FromTriple(t, n) = Flagged(INFINITY, b)
      BY <1>1, <1>3 DEF FromTriple
    <2>2. Flagged(Flagged(INFINITY, b), FALSE) = INFINITY
      BY FlagTwice, KeepOK, InfinityOK DEF PointOK
    <2> QED BY <2>1, <2>2, InfinityOK
  <1>4. CASE c[3] # 0
    <2> DEFINE pt == Jacobi(c[1], c[2], c[3], n)
    <2>1. FromTriple(t, n) = Flagged(pt, b)
      BY <1>1, <1>4 DEF FromTriple
    <2>2. PointOK(pt)
      BY <1>1, <1>2, <1>4, JacobiOK
    <2> HIDE DEF pt
    <2>3. Flagged(Flagged(pt, b), FALSE) = pt
      BY <2>2, FlagTwice, KeepOK DEF PointOK
    <2> QED BY <2>1, <2>2, <2>3
  <1> QED BY <1>3, <1>4

LEMMA DoubleOK ==
  ASSUME NEW pt, PointOK(pt)
  PROVE  PointOK(Flagged(Double(pt), FALSE))
  <1>1. CASE pt.z = 0
    BY <1>1, InfinityOK, KeepOK DEF Double
  <1>2. CASE pt.z # 0
    <2> DEFINE c == DoubleTriple(pt.x, pt.y, pt.z)
    <2>1. c \in Coordinates
      BY PointFacts, DoubleTripleType
    <2> HIDE DEF c
    <2>2. DoubleT[Triple(pt)] = WithGhost(DoubleTriple(Triple(pt)[1], Triple(pt)[2], Triple(pt)[3]),
                                       Triple(pt)[4])
      BY PointFacts DEF DoubleT
    <2>3. DoubleT[Triple(pt)] = WithGhost(c, pt.twin)
      BY <2>2 DEF Triple, c
    <2>4. pt.n \in {0, Order} /\ pt.twin \in BOOLEAN
      BY DEF PointOK
    <2>5. PointOK(Flagged(FromTriple(DoubleT[Triple(pt)], pt.n), FALSE))
      BY <2>1, <2>3, <2>4, FromTripleOK
    <2> QED BY <1>2, <2>5 DEF Double
  <1> QED BY <1>1, <1>2

LEMMA NegOK ==
  ASSUME NEW pt, PointOK(pt), pt # INFINITY
  PROVE  PointOK(Flagged(Neg(pt), FALSE))
  <1>1. /\ pt.x \in Int /\ pt.y \in Int /\ pt.z \in Field \ {0} /\ pt.n \in {0, Order}
        /\ pt.z # 1 => - P < pt.y /\ pt.y < P
    <2>1. pt.x \in Int /\ pt.y \in Int
      BY PointFacts
    <2> QED BY <2>1 DEF PointOK
  <1> DEFINE y == - pt.y
  <1>2. y \in Int /\ (pt.z # 1 => - P < y /\ y < P)
    BY <1>1, PFacts
  <1> HIDE DEF y
  <1>3. PointOK(Jacobi(pt.x, y, pt.z, pt.n))
    BY <1>1, <1>2, JacobiOK
  <1>4. PointOK(Neg(pt))
    BY <1>3 DEF Neg, y
  <1> QED BY <1>4, KeepOK

LEMMA AddOK ==
  ASSUME NEW s, NEW o, PointOK(s), PointOK(o)
  PROVE  PointOK(Flagged(Add(s, o), FALSE))
  <1>1. s \in Objects /\ o \in Objects /\ s.n \in {0, Order}
    BY DEF PointOK
  <1>2. Add(s, o) = IF s.z = 0 THEN o
                    ELSE IF o.z = 0 THEN s
                    ELSE FromTriple(AddT(Triple(s), Triple(o)), s.n)
    BY <1>1 DEF Add
  <1> DEFINE c == AddTriples(s.x, s.y, s.z, o.x, o.y, o.z)
             b == s.twin \/ o.twin \/ Twin(Triple(s), Triple(o))
  <1>3. c \in Coordinates
    BY PointFacts, AddTriplesType
  <1>4. b \in BOOLEAN
    BY PointFacts DEF Twin
  <1> DEFINE t == Triple(s)  u == Triple(o)
  <1>5. /\ t \in Triples /\ u \in Triples
        /\ t[1] = s.x /\ t[2] = s.y /\ t[3] = s.z /\ t[4] = s.twin
        /\ u[1] = o.x /\ u[2] = o.y /\ u[3] = o.z /\ u[4] = o.twin
    BY PointFacts DEF Triple
  <1> HIDE DEF t, u
  <1>6. AddT(t, u) = WithGhost(AddTriples(t[1], t[2], t[3], u[1], u[2], u[3]),
                            t[4] \/ u[4] \/ Twin(t, u))
    BY <1>5 DEF AddT
  <1>7. AddT(Triple(s), Triple(o)) = WithGhost(c, b)
    BY <1>5, <1>6 DEF t, u
  <1> HIDE DEF c, b
  <1>8. PointOK(Flagged(FromTriple(AddT(Triple(s), Triple(o)), s.n), FALSE))
    BY <1>1, <1>3, <1>4, <1>7, FromTripleOK
  <1> QED BY <1>2, <1>8, KeepOK

----------------------------------------------------------------------------
(* scale(): the same point with Z = 1.                                     *)
LEMMA ScaleFacts ==
  ASSUME NEW pt, PointOK(pt), pt # INFINITY
  PROVE  /\ PointOK(Scale(pt)) /\ Scale(pt) # INFINITY
         /\ Scale(pt).z = 1 /\ Scale(pt).n = pt.n
         /\ Scale(pt).x \in Int /\ Scale(pt).y \in Int
         /\ Scale(Scale(pt)) = Scale(pt)
  <1>1. CASE pt.z = 1
    <2>1. Scale(pt) = pt
      BY <1>1 DEF Scale
    <2> QED BY <1>1, <2>1, PointFacts
  <1>2. CASE pt.z # 1
    <2> DEFINE i == InverseMod(pt.z)
               x == (pt.x * i * i) % P
               w == (i * i) % P
               y == (pt.y * w * i) % P
    <2>1. pt.z \in 1 .. P - 1 /\ pt.x \in Int /\ pt.y \in Int /\ pt.n \in {0, Order}
      BY FiniteFacts
    <2>2. i \in Int
      BY <2>1, InverseInField
    <2> HIDE DEF i
    <2>3. x \in Int /\ w \in Int
      BY <2>1, <2>2, Reduced
    <2> HIDE DEF x, w
    <2>4. y \in Int
      BY <2>1, <2>2, <2>3, Reduced
    <2> HIDE DEF y
    <2>5. Scale(pt) = Jacobi(x, y, 1, pt.n)
      BY <1>2 DEF Scale, i, x, w, y
    <2>6. 1 \in Field \ {0}
      BY PFacts DEF Field
    <2> DEFINE q == Jacobi(x, y, 1, pt.n)
    <2>7. /\ PointOK(q) /\ q # INFINITY /\ q.z = 1 /\ q.n = pt.n
          /\ q.x = x /\ q.y = y
      BY <2>1, <2>3, <2>4, <2>6, JacobiOK
    <2> HIDE DEF q
    <2>8. Scale(pt) = q
      BY <2>5 DEF q
    <2>9. Scale(q) = q
      BY <2>7 DEF Scale
    <2> QED BY <2>3, <2>4, <2>7, <2>8, <2>9
  <1> QED BY <1>1, <1>2

(* What scale() divides is reduced.                                        *)
LEMMA ScaleReduces ==
  ASSUME NEW pt, PointOK(pt), pt # INFINITY, pt.z # 1
  PROVE  LET i == InverseMod(pt.z) IN
         /\ pt.z \in 1 .. P - 1 /\ pt.x \in Int /\ pt.y \in Int
         /\ i \in Int /\ (i * pt.z) % P = 1
         /\ Scale(pt).x = (pt.x * i * i) % P
         /\ Scale(pt).y = (pt.y * i * i * i) % P
  <1> DEFINE i == InverseMod(pt.z)
             x == (pt.x * i * i) % P
             w == (i * i) % P
             y == (pt.y * w * i) % P
  <1>1. pt.z \in 1 .. P - 1 /\ pt.x \in Int /\ pt.y \in Int /\ pt.z \in Int
    BY FiniteFacts
  <1>2. pt.z % P # 0
    BY <1>1, PFacts, RemainderOfSmall
  <1>3. i \in Int /\ (i * pt.z) % P = 1
    BY <1>1, <1>2, InverseModType
  <1>4. Scale(pt) = Jacobi(x, y, 1, pt.n)
    BY DEF Scale
  <1>5. Scale(pt).x = x /\ Scale(pt).y = y
    BY <1>4 DEF Jacobi, Object
  <1>6. y = (pt.y * i * i * i) % P
    <2> HIDE DEF i
    <2> DEFINE v == i * i  u == pt.y * i
    <2>1. v \in Int /\ u \in Int /\ w = v % P /\ v % P \in Int
      BY <1>1, <1>3, Reduced
    <2>2. ((v % P) * u) % P = (v * u) % P
      BY <2>1, PFacts, ReduceFactor
    <2>3. pt.y * (v % P) * i = (v % P) * u
      <3> DEFINE e == v % P
      <3>1. e \in Int
        BY <2>1
      <3> HIDE DEF e
      <3>2. pt.y * e * i = e * (pt.y * i)
        BY <1>1, <1>3, <3>1
      <3> QED BY <3>2 DEF e, u
    <2>4. pt.y * i * i * i = v * u
      BY <1>1, <1>3
    <2> QED BY <2>1, <2>2, <2>3, <2>4
  <1> HIDE DEF i
  <1>7. /\ pt.z \in 1 .. P - 1 /\ pt.x \in Int /\ pt.y \in Int
        /\ i \in Int /\ (i * pt.z) % P = 1
        /\ Scale(pt).x = (pt.x * i * i) % P
        /\ Scale(pt).y = (pt.y * i * i * i) % P
    BY <1>1, <1>3, <1>5, <1>6
  <1> QED BY <1>7 DEF i

(* The residues of a point are the coordinates of the scaled one.          *)
LEMMA ResiduesOfScale ==
  ASSUME NEW pt, PointOK(pt), pt # INFINITY
  PROVE  Residues(pt) = <<Scale(pt).x % P, Scale(pt).y % P>>
  <1>1. pt.z \in 1 .. P - 1 /\ pt.x \in Int /\ pt.y \in Int /\ pt.z \in Int /\ pt.z # 0
    BY FiniteFacts, PFacts
  <1>2. pt.z % P = pt.z
    BY <1>1, PFacts, RemainderOfSmall
  <1> DEFINE i == InverseMod(pt.z)
  <1>3. Residues(pt) = <<(pt.x * i * i) % P, (pt.y * i * i * i) % P>>
    BY <1>1, <1>2 DEF Residues
  <1>4. CASE pt.z = 1
    <2>1. 1 % P = 1
      BY PFacts, RemainderOfSmall
    <2>2. i \in Field /\ (i * 1) % P = 1
      BY <1>4, <2>1, InverseModType
    <2>3. i \in Nat /\ i < P /\ i * 1 = i
      BY <2>2, PFacts DEF Field
    <2> HIDE DEF i
    <2>4. i = 1
      BY <2>2, <2>3, PFacts, RemainderOfSmall
    <2>5. pt.x * i * i = pt.x /\ pt.y * i * i * i = pt.y
      BY <1>1, <2>4
    <2>6. Scale(pt) = pt
      BY <1>4 DEF Scale
    <2> QED BY <1>3, <2>5, <2>6
  <1>5. CASE pt.z # 1
    <2>1. Scale(pt).x = (pt.x * i * i) % P /\ Scale(pt).y = (pt.y * i * i * i) % P
      BY <1>5, ScaleReduces
    <2>2. i \in Int
      BY <1>5, ScaleReduces
    <2> HIDE DEF i
    <2> DEFINE u == pt.x * i * i  v == pt.y * i * i * i
    <2>3. u \in Int /\ v \in Int
      BY <1>1, <2>2
    <2> HIDE DEF u, v
    <2>4. (u % P) % P = u % P /\ (v % P) % P = v % P
      <3>1. u % P \in 0 .. P - 1 /\ v % P \in 0 .. P - 1
        BY <2>3, Reduced DEF Field
      <3>2. \A a \in 0 .. P - 1 : a % P = a
        BY PFacts, RemainderOfSmall
      <3> QED BY <3>1, <3>2
    <2> QED BY <1>3, <2>1, <2>4 DEF u, v
  <1> QED BY <1>4, <1>5

(* The Y of a point is 0 when that of the scaled one is.                   *)
LEMMA ZeroY ==
  ASSUME NEW pt, PointOK(pt), pt # INFINITY
  PROVE  pt.y = 0 <=> Scale(pt).y = 0
  <1>1. CASE pt.z = 1
    BY <1>1 DEF Scale
  <1>2. CASE pt.z # 1
    <2> DEFINE i == InverseMod(pt.z)  y == pt.y
    <2>1. /\ y \in Int /\ i \in Int /\ pt.z \in Int /\ (i * pt.z) % P = 1
          /\ Scale(pt).y = (y * i * i * i) % P
      BY <1>2, ScaleReduces, FiniteFacts
    <2>2. - P < y /\ y < P
      BY <1>2 DEF PointOK
    <2> HIDE DEF i, y
    <2>3. i % P # 0
      <3> SUFFICES ASSUME i % P = 0 PROVE FALSE
        OBVIOUS
      <3>1. ((i % P) * pt.z) % P = (i * pt.z) % P
        BY <2>1, PFacts, ReduceFactor
      <3>2. (i % P) * pt.z = 0
        BY <2>1
      <3>3. 0 % P = 0
        BY PFacts, RemainderOfSmall
      <3> QED BY <2>1, <3>1, <3>2, <3>3
    <2>4. ASSUME y = 0 PROVE Scale(pt).y = 0
      <3>1. y * i * i * i = 0
        BY <2>1, <2>4
      <3> QED BY <2>1, <3>1, PFacts, RemainderOfSmall
    <2>5. ASSUME Scale(pt).y = 0 PROVE y = 0
      <3> DEFINE u == y * i  v == u * i
      <3>1. u \in Int /\ v \in Int /\ (v * i) % P = 0
        BY <2>1, <2>5
      <3> HIDE DEF v
      <3>2. v % P = 0
        BY <2>1, <2>3, <3>1, PFacts, PrimeDivides, Zenon
      <3>3. (u * i) % P = 0
        BY <3>2 DEF v
      <3> HIDE DEF u
      <3>4. u % P = 0
        BY <2>1, <2>3, <3>1, <3>3, PFacts, PrimeDivides, Zenon
      <3>5. (y * i) % P = 0
        BY <3>4 DEF u
      <3>6. y % P = 0
        BY <2>1, <2>3, <3>5, PFacts, PrimeDivides, Zenon
      <3>7. y >= 0 => y = 0
        BY <2>1, <2>2, <3>6, PFacts, RemainderOfSmall
      <3>8. CASE y < 0
        <4> DEFINE q == y \div P
        <4>1. q \in Int /\ y = P * q + (y % P)
          BY <2>1, PFacts, DivMod
        <4> HIDE DEF q
        <4>2. y = P * q
          BY <3>6, <4>1, PFacts
        <4>3. q <= -1 => P * q <= - P
          BY <4>1, PFacts
        <4>4. q >= 0 => P * q >= 0
          BY <4>1, PFacts
        <4> QED BY <2>1, <2>2, <3>8, <4>1, <4>2, <4>3, <4>4, PFacts
      <3> QED BY <2>1, <3>7, <3>8
    <2> QED BY <2>4, <2>5 DEF y
  <1> QED BY <1>1, <1>2

LEMMA FromTripleZ ==
  ASSUME NEW t, NEW n
  PROVE  /\ FromTriple(t, n).z = IF t[3] = 0 THEN 0 ELSE t[3]
         /\ FromTriple(t, n).twin = t[4]
  BY DEF FromTriple, Flagged, INFINITY, Jacobi, Object

(* Whether the order of a point divides the order of the generator does    *)
(* not depend on its Z, nor on the order that it carries.                  *)
LEMMA MulOfScale ==
  ASSUME NEW pt, PointOK(pt), pt # INFINITY, NEW q, PointOK(q), q # INFINITY, q.z = 1,
         q.x = Scale(pt).x, q.y = Scale(pt).y
  PROVE  /\ Mul(q, Order, FALSE).z = 0 <=> Mul(pt, Order, FALSE).z = 0
         /\ Mul(q, Order, FALSE).twin = Mul(pt, Order, FALSE).twin
  <1> DEFINE t == Triple(Scale(pt))
             r == MulTriple(t, Order)
             z == IF r[3] = 0 THEN 0 ELSE r[3]
             twin == r[4]
             Multiplied(p, o) ==
               /\ o.z = IF p.y = 0 THEN 0 ELSE IF Order = 1 THEN p.z ELSE z
               /\ o.twin = IF p.y = 0 \/ Order = 1 THEN FALSE ELSE twin
  <1>1. Order \in Nat \ {0}
    BY BaseAssumption
  <1>2. Order % (2 * Order) = Order
    <2> DEFINE d == 2 * Order
    <2>1. d \in Nat \ {0} /\ Order \in Nat /\ Order < d
      BY <1>1
    <2> HIDE DEF d
    <2>2. Order % d = Order
      BY <2>1, RemainderOfSmall
    <2> QED BY <2>2 DEF d
  <1>3. ASSUME NEW p, PointOK(p), p # INFINITY, Triple(Scale(p)) = t
        PROVE  Multiplied(p, Mul(p, Order, FALSE))
    <2>1. (IF p.n = 0 THEN Order ELSE Order % (2 * p.n)) = Order /\ p.twin = FALSE
      BY <1>2, <1>3 DEF PointOK
    <2>2. MulLoop(p, Order) = FromTriple(r, p.n)
      BY <1>3 DEF MulLoop
    <2>3. MulLoop(p, Order).z = z /\ MulLoop(p, Order).twin = twin
      BY <2>2, FromTripleZ
    <2>4. INFINITY.z = 0 /\ INFINITY.twin = FALSE
      BY InfinityOK DEF PointOK
    <2>5. Mul(p, Order, FALSE) = IF p.y = 0 THEN INFINITY ELSE IF Order = 1 THEN p
                                 ELSE MulLoop(p, Order)
      BY <1>1, <2>1 DEF Mul
    <2> HIDE DEF z, twin
    <2> QED BY <2>1, <2>3, <2>4, <2>5
  <1>4. Triple(Scale(q)) = t
    <2>1. Scale(q) = q
      BY DEF Scale
    <2>2. Scale(pt).z = 1 /\ Scale(pt).twin = FALSE /\ q.twin = FALSE
      BY ScaleFacts DEF PointOK
    <2> QED BY <2>1, <2>2 DEF Triple
  <1> HIDE DEF t, z, twin
  <1>5. Multiplied(pt, Mul(pt, Order, FALSE))
    BY <1>3 DEF t
  <1>6. Multiplied(q, Mul(q, Order, FALSE))
    BY <1>3, <1>4
  <1>7. pt.y = 0 <=> q.y = 0
    BY ZeroY
  <1>8. pt.z # 0 /\ q.z # 0
    BY DEF PointOK
  <1> QED BY <1>5, <1>6, <1>7, <1>8

(* So Public_key accepts a point when it accepts the scaled one.           *)
LEMMA PublicKeyOfScale ==
  ASSUME NEW pt, PointOK(pt), pt # INFINITY, NEW q, PointOK(q), q # INFINITY, q.z = 1,
         q.x = Scale(pt).x, q.y = Scale(pt).y, NEW verify
  PROVE  PublicKey(q, verify) <=> PublicKey(pt, verify)
  <1>1. Scale(q) = q
    BY DEF Scale
  <1>2. Mul(q, Order, FALSE).z = 0 <=> Mul(pt, Order, FALSE).z = 0
    BY MulOfScale
  <1> QED BY <1>1, <1>2 DEF PublicKey

----------------------------------------------------------------------------
(* Byte strings.                                                           *)
LEMMA WordFacts ==
  /\ Field \subseteq Word /\ 0 \in Word /\ \A w \in Word : w \in Int
  BY PFacts, LimitAssumption DEF Field, Word

LEMMA DataFacts ==
  ASSUME NEW d \in Data
  PROVE  /\ d = Bytes(d.len, d.lead, d.x, d.y) /\ d.x \in Word /\ d.y \in Word
         /\ d # Unencodable
         /\ \/ d.len = "twice" /\ d.lead = 0
            \/ d.len = "twice + 1" /\ d.lead \in {4, 5, 6, 7}
            \/ d.len = "once + 1" /\ d.lead \in {2, 3, 4} /\ d.y = 0
            \/ d.len = "other"
  <1>5. Unencodable.len = "none"
    BY DEF Unencodable, Bytes
  <1>1. CASE d \in [len : {"twice"}, lead : {0}, x : Word, y : Word]
    <2>1. /\ d.len = "twice" /\ d.lead \in {0} /\ d.x \in Word /\ d.y \in Word
          /\ d = [len |-> d.len, lead |-> d.lead, x |-> d.x, y |-> d.y]
      BY <1>1
    <2> QED BY <1>5, <2>1 DEF Bytes
  <1>2. CASE d \in [len : {"twice + 1"}, lead : {4, 5, 6, 7}, x : Word, y : Word]
    <2>1. /\ d.len = "twice + 1" /\ d.lead \in {4, 5, 6, 7} /\ d.x \in Word /\ d.y \in Word
          /\ d = [len |-> d.len, lead |-> d.lead, x |-> d.x, y |-> d.y]
      BY <1>2
    <2> QED BY <1>5, <2>1 DEF Bytes
  <1>3. CASE d \in [len : {"once + 1"}, lead : {2, 3, 4}, x : Word, y : {0}]
    <2>1. /\ d.len = "once + 1" /\ d.lead \in {2, 3, 4} /\ d.x \in Word /\ d.y \in {0}
          /\ d = [len |-> d.len, lead |-> d.lead, x |-> d.x, y |-> d.y]
      BY <1>3
    <2> QED BY <1>5, <2>1, WordFacts DEF Bytes
  <1>4. CASE d = Bytes("other", 0, 0, 0)
    BY <1>4, <1>5, WordFacts DEF Bytes
  <1> QED BY <1>1, <1>2, <1>3, <1>4 DEF Data

LEMMA Parity ==
  ASSUME NEW y \in Int
  PROVE  y % 2 \in {0, 1}
  BY DivMod

(* to_bytes writes bytes, or raises.                                       *)
LEMMA ToBytesType ==
  ASSUME NEW pt, PointOK(pt), pt # INFINITY, NEW encoding
  PROVE  ToBytes(pt, encoding) \in Data \cup {Unencodable}
  <1> DEFINE x == Scale(pt).x  y == Scale(pt).y  d == ToBytes(pt, encoding)
  <1>1. x \in Int /\ y \in Int /\ y % 2 \in {0, 1}
    BY ScaleFacts, Parity
  <1>2. 2 + (y % 2) \in {2, 3, 4} /\ 6 + (y % 2) \in {4, 5, 6, 7}
    <2> DEFINE e == y % 2
    <2>1. e \in {0, 1}
      BY <1>1
    <2> HIDE DEF e
    <2>2. 2 + e \in {2, 3, 4} /\ 6 + e \in {4, 5, 6, 7}
      BY <2>1
    <2> QED BY <2>2 DEF e
  <1>3. \/ x \in Word /\ d = Bytes("once + 1", 2 + (y % 2), x, 0)
        \/ {x, y} \subseteq Word /\ d = Bytes("twice", 0, x, y)
        \/ {x, y} \subseteq Word /\ d = Bytes("twice + 1", 4, x, y)
        \/ {x, y} \subseteq Word /\ d = Bytes("twice + 1", 6 + (y % 2), x, y)
        \/ d = Unencodable
    BY DEF ToBytes
  <1> HIDE DEF x, y, d
  <1>4. ASSUME x \in Word, y \in Word, NEW e \in {4, 5, 6, 7}
        PROVE  Bytes("twice", 0, x, y) \in Data /\ Bytes("twice + 1", e, x, y) \in Data
    BY <1>4 DEF Data, Bytes
  <1>5. ASSUME x \in Word, NEW e \in {2, 3, 4}
        PROVE  Bytes("once + 1", e, x, 0) \in Data
    BY <1>5 DEF Data, Bytes
  <1>6. d \in Data \cup {Unencodable}
    BY <1>2, <1>3, <1>4, <1>5
  <1> QED BY <1>6 DEF d

Enabled(valid) == IF valid = {} THEN Encodings ELSE valid

LEMMA FromBytesIs ==
  ASSUME NEW d, NEW valid, NEW validate
  PROVE  LET s == FromBytes(d, valid, validate) IN
         /\ d.len = "twice" /\ "raw" \in Enabled(valid) => s = <<d.x, d.y>>
         /\ d.len = "twice + 1" /\ d.lead \in {6, 7} /\ "hybrid" \in Enabled(valid) =>
              s = FromHybrid(d, validate)
         /\ d.len = "twice + 1" /\ d.lead = 4 /\ "uncompressed" \in Enabled(valid) =>
              s = <<d.x, d.y>>
         /\ d.len = "once + 1" /\ "compressed" \in Enabled(valid) => s = FromCompressed(d)
  <1> DEFINE s == FromBytes(d, valid, validate)
             g1 == d.len = "twice" /\ "raw" \in Enabled(valid)
             g2 == d.len = "twice + 1" /\ d.lead \in {6, 7} /\ "hybrid" \in Enabled(valid)
             g3 == d.len = "twice + 1" /\ d.lead = 4 /\ "uncompressed" \in Enabled(valid)
             g4 == d.len = "once + 1" /\ "compressed" \in Enabled(valid)
             h  == FromHybrid(d, validate)
             c  == FromCompressed(d)
  <1>1. s = CASE g1 -> <<d.x, d.y>> [] g2 -> h [] g3 -> <<d.x, d.y>> [] g4 -> c
              [] OTHER -> Malformed
    BY Zenon DEF FromBytes, Enabled
  <1>2. /\ g1 => ~ g2 /\ ~ g3 /\ ~ g4
        /\ g2 => ~ g3 /\ ~ g4
        /\ g3 => ~ g4
    <2>1. d.lead = 4 => d.lead \notin {6, 7}
      OBVIOUS
    <2> QED BY <2>1
  <1> HIDE DEF s, h, c
  <1>3. /\ g1 => s = <<d.x, d.y>>
        /\ g2 => s = h
        /\ g3 => s = <<d.x, d.y>>
        /\ g4 => s = c
    <2> HIDE DEF g1, g2, g3, g4
    <2> QED BY <1>1, <1>2
  <1> QED BY <1>3 DEF s, h, c

LEMMA FromBytesCases ==
  ASSUME NEW d \in Data, NEW valid, NEW validate
  PROVE  \/ FromBytes(d, valid, validate) = Malformed
         \/ d.len = "twice" /\ FromBytes(d, valid, validate) = <<d.x, d.y>>
         \/ /\ d.len = "twice + 1" /\ d.lead \in {6, 7}
            /\ FromBytes(d, valid, validate) = FromHybrid(d, validate)
         \/ /\ d.len = "twice + 1" /\ d.lead = 4
            /\ FromBytes(d, valid, validate) = <<d.x, d.y>>
         \/ d.len = "once + 1" /\ FromBytes(d, valid, validate) = FromCompressed(d)
  <1> DEFINE s == FromBytes(d, valid, validate)
             g1 == d.len = "twice" /\ "raw" \in Enabled(valid)
             g2 == d.len = "twice + 1" /\ d.lead \in {6, 7} /\ "hybrid" \in Enabled(valid)
             g3 == d.len = "twice + 1" /\ d.lead = 4 /\ "uncompressed" \in Enabled(valid)
             g4 == d.len = "once + 1" /\ "compressed" \in Enabled(valid)
             h  == FromHybrid(d, validate)
             c  == FromCompressed(d)
  <1>1. s = CASE g1 -> <<d.x, d.y>> [] g2 -> h [] g3 -> <<d.x, d.y>> [] g4 -> c
              [] OTHER -> Malformed
    BY Zenon DEF FromBytes, Enabled
  <1>2. /\ g1 => ~ g2 /\ ~ g3 /\ ~ g4
        /\ g2 => ~ g3 /\ ~ g4
        /\ g3 => ~ g4
    <2>1. d.lead = 4 => d.lead \notin {6, 7}
      OBVIOUS
    <2> QED BY <2>1
  <1>3. /\ g1 => d.len = "twice"
        /\ g2 => d.len = "twice + 1" /\ d.lead \in {6, 7}
        /\ g3 => d.len = "twice + 1" /\ d.lead = 4
        /\ g4 => d.len = "once + 1"
    OBVIOUS
  <1> HIDE DEF s, g1, g2, g3, g4, h, c
  <1>4. \/ g1 /\ s = <<d.x, d.y>>
        \/ g2 /\ s = h
        \/ g3 /\ s = <<d.x, d.y>>
        \/ g4 /\ s = c
        \/ s = Malformed
    BY <1>1, <1>2
  <1> QED BY <1>3, <1>4 DEF s, h, c

(* from_bytes finds two numbers, or raises.                                *)
LEMMA FromBytesType ==
  ASSUME NEW d \in Data, NEW valid, NEW validate
  PROVE  \/ FromBytes(d, valid, validate) = Malformed
         \/ \E x, y \in Int : FromBytes(d, valid, validate) = <<x, y>>
  <1> DEFINE alpha == (d.x * d.x * d.x + A * d.x + B) % P
             beta  == CHOOSE r \in Field : (r * r) % P = alpha
             xy    == FromBytes(d, valid, validate)
  <1>1. d.x \in Int /\ d.y \in Int
    BY DataFacts, WordFacts
  <1>2. \/ FromCompressed(d) = Malformed
        \/ /\ \E r \in Field : (r * r) % P = alpha
           /\ FromCompressed(d) = <<d.x, P - beta>> \/ FromCompressed(d) = <<d.x, beta>>
    BY DEF FromCompressed
  <1>3. (\E r \in Field : (r * r) % P = alpha) => beta \in Int /\ P - beta \in Int
    <2> SUFFICES ASSUME \E r \in Field : (r * r) % P = alpha
                 PROVE  beta \in Int /\ P - beta \in Int
      OBVIOUS
    <2> HIDE DEF alpha
    <2>1. beta \in Field
      BY Zenon
    <2> HIDE DEF beta
    <2> QED BY <2>1, PFacts DEF Field
  <1> HIDE DEF alpha, beta
  <1>4. \/ FromCompressed(d) = Malformed
        \/ \E x, y \in Int : FromCompressed(d) = <<x, y>>
    BY <1>1, <1>2, <1>3
  <1>5. \/ xy = <<d.x, d.y>> \/ xy = FromHybrid(d, validate)
        \/ xy = FromCompressed(d) \/ xy = Malformed
    BY FromBytesCases
  <1>6. FromHybrid(d, validate) = Malformed \/ FromHybrid(d, validate) = <<d.x, d.y>>
    BY DEF FromHybrid
  <1> HIDE DEF xy
  <1>7. xy = Malformed \/ \E x, y \in Int : xy = <<x, y>>
    BY <1>1, <1>4, <1>5, <1>6
  <1> QED BY <1>7 DEF xy

(* A square has two roots, and their parities differ.                      *)
LEMMA Roots ==
  ASSUME NEW r \in Field, NEW y \in Field, (r * r) % P = (y * y) % P
  PROVE  r = y \/ r + y = P
  <1>1. r \in Int /\ y \in Int /\ 0 <= r /\ r < P /\ 0 <= y /\ y < P
    BY PFacts DEF Field
  <1> DEFINE a == r - y  b == r + y  u == r * r  v == y * y
  <1>2. a \in Int /\ b \in Int /\ u \in Int /\ v \in Int /\ a * b = u - v
    BY <1>1
  <1>3. u % P = v % P /\ P \in Nat \ {0}
    BY PFacts
  <1> HIDE DEF a, b, u, v
  <1>4. (a * b) % P = 0
    <2>1. (u - v) % P = 0
      BY <1>2, <1>3, DifferenceZero, Zenon
    <2> QED BY <1>2, <2>1
  <1>5. a % P = 0 \/ b % P = 0
    BY <1>2, <1>4, PFacts, PrimeDivides, Zenon
  <1>6. CASE a % P = 0
    <2>1. (r - y) % P = 0
      BY <1>6 DEF a
    <2>2. r % P = y % P
      BY <1>1, <2>1, PFacts, DifferenceZero
    <2> QED BY <1>1, <2>2, PFacts, RemainderOfSmall
  <1>7. CASE b % P = 0
    <2> DEFINE q == b \div P
    <2>1. q \in Int /\ b = P * q + (b % P)
      BY <1>2, PFacts, DivMod
    <2> HIDE DEF q
    <2>2. b = P * q /\ 0 <= b /\ b < 2 * P
      BY <1>1, <1>7, <2>1, PFacts DEF b
    <2>3. q >= 2 => P * q >= 2 * P
      BY <2>1, PFacts
    <2>4. q <= -1 => P * q < 0
      BY <2>1, PFacts
    <2>5. q = 0 \/ q = 1
      BY <2>1, <2>2, <2>3, <2>4, PFacts
    <2>6. b = 0 \/ b = P
      BY <2>2, <2>5, PFacts
    <2> QED BY <1>1, <2>6 DEF b
  <1> QED BY <1>5, <1>6, <1>7

(* The four spellings of a point of the field.                             *)
LEMMA Spellings ==
  ASSUME NEW pt, NEW x \in Field, NEW y \in Field, Scale(pt).x = x, Scale(pt).y = y
  PROVE  /\ ToBytes(pt, "raw") = Bytes("twice", 0, x, y)
         /\ ToBytes(pt, "uncompressed") = Bytes("twice + 1", 4, x, y)
         /\ ToBytes(pt, "hybrid") = Bytes("twice + 1", 6 + (y % 2), x, y)
         /\ ToBytes(pt, "compressed") = Bytes("once + 1", 2 + (y % 2), x, 0)
  <1>1. x \in Word /\ y \in Word /\ {x, y} \subseteq Word
    BY WordFacts
  <1>2. LET q == Scale(pt) IN q.x = x /\ q.y = y
    OBVIOUS
  <1> QED BY <1>1, <1>2 DEF ToBytes

(* The root whose parity the first byte of a compressed point tells.       *)
RootOf(beta, lead) == IF (lead = 2) <=> (beta % 2 = 1) THEN P - beta ELSE beta

LEMMA RootParity ==
  ASSUME NEW beta \in Field, NEW lead \in {2, 3}
  PROVE  2 + (RootOf(beta, lead) % 2) = lead
  <1>1. beta \in Int /\ P \in Int /\ P % 2 = 1
    BY PFacts DEF Field
  <1>2. (beta % 2 = 0 /\ (P - beta) % 2 = 1) \/ (beta % 2 = 1 /\ (P - beta) % 2 = 0)
    BY <1>1
  <1> QED BY <1>2 DEF RootOf

Cubic(x) == (x * x * x + A * x + B) % P

LEMMA CompressedIs ==
  ASSUME NEW d
  PROVE  LET beta == CHOOSE r \in Field : (r * r) % P = Cubic(d.x) IN
         FromCompressed(d) =
           IF d.lead \notin {2, 3} \/ \A r \in Field : (r * r) % P # Cubic(d.x) THEN Malformed
           ELSE <<d.x, RootOf(beta, d.lead)>>
  BY Zenon DEF FromCompressed, RootOf, Cubic

LEMMA CompressedRoot ==
  ASSUME NEW d, d.lead \in {2, 3}, NEW y \in Field, (y * y) % P = Cubic(d.x)
  PROVE  \E beta \in Field :
           (beta * beta) % P = Cubic(d.x) /\ FromCompressed(d) = <<d.x, RootOf(beta, d.lead)>>
  <1> DEFINE beta == CHOOSE r \in Field : (r * r) % P = Cubic(d.x)
  <1>1. beta \in Field /\ (beta * beta) % P = Cubic(d.x)
    BY Zenon
  <1>2. FromCompressed(d) = <<d.x, RootOf(beta, d.lead)>>
    BY CompressedIs, Zenon
  <1> QED BY <1>1, <1>2, Zenon

LEMMA CompressedCases ==
  ASSUME NEW d
  PROVE  \/ FromCompressed(d) = Malformed
         \/ /\ d.lead \in {2, 3}
            /\ \E beta \in Field : FromCompressed(d) = <<d.x, RootOf(beta, d.lead)>>
  <1>1. CASE d.lead \notin {2, 3} \/ \A r \in Field : (r * r) % P # Cubic(d.x)
    BY <1>1, CompressedIs, Zenon
  <1>2. CASE d.lead \in {2, 3} /\ \E r \in Field : (r * r) % P = Cubic(d.x)
    <2>1. PICK y \in Field : (y * y) % P = Cubic(d.x)
      BY <1>2
    <2>2. \E beta \in Field :
            (beta * beta) % P = Cubic(d.x) /\ FromCompressed(d) = <<d.x, RootOf(beta, d.lead)>>
      BY <1>2, <2>1, CompressedRoot
    <2> QED BY <1>2, <2>2, Zenon
  <1> QED BY <1>1, <1>2

(* from_bytes, with the parity compared, reads this point of the field.    *)
ReadsAs(d, valid, pt) ==
    /\ Scale(pt).x \in Field /\ Scale(pt).y \in Field
    /\ FromBytes(d, valid, TRUE) = <<Scale(pt).x, Scale(pt).y>>

(* What from_bytes reads in the field, with the parity compared, to_bytes  *)
(* writes in the same bytes.                                               *)
LEMMA OneSpelling ==
  ASSUME NEW d \in Data, NEW valid, NEW pt, ReadsAs(d, valid, pt)
  PROVE  \E encoding \in Encodings : ToBytes(pt, encoding) = d
  <1> DEFINE s == FromBytes(d, valid, TRUE)  x == Scale(pt).x  y == Scale(pt).y
  <1>1. x \in Field /\ y \in Field /\ s = <<x, y>>
    BY DEF ReadsAs
  <1>2. /\ ToBytes(pt, "raw") = Bytes("twice", 0, x, y)
        /\ ToBytes(pt, "uncompressed") = Bytes("twice + 1", 4, x, y)
        /\ ToBytes(pt, "hybrid") = Bytes("twice + 1", 6 + (y % 2), x, y)
        /\ ToBytes(pt, "compressed") = Bytes("once + 1", 2 + (y % 2), x, 0)
    BY <1>1, Spellings
  <1>3. \/ s = Malformed
        \/ d.len = "twice" /\ s = <<d.x, d.y>>
        \/ d.len = "twice + 1" /\ d.lead \in {6, 7} /\ s = FromHybrid(d, TRUE)
        \/ d.len = "twice + 1" /\ d.lead = 4 /\ s = <<d.x, d.y>>
        \/ d.len = "once + 1" /\ s = FromCompressed(d)
    BY FromBytesCases
  <1>4. d = Bytes(d.len, d.lead, d.x, d.y)
    BY DataFacts
  <1>5. s = <<x, y>> /\ <<x, y>> # Malformed
    BY <1>1 DEF Malformed
  <1> HIDE DEF s, x, y
  <1>6. CASE d.len = "twice" /\ s = <<d.x, d.y>>
    <2>1. d.lead = 0
      BY <1>6, DataFacts
    <2>2. d.x = x /\ d.y = y
      BY <1>5, <1>6
    <2>3. d = Bytes("twice", 0, x, y)
      BY <1>4, <1>6, <2>1, <2>2, Zenon
    <2> QED BY <2>3, <1>2 DEF Encodings
  <1>7. CASE d.len = "twice + 1" /\ d.lead \in {6, 7} /\ s = FromHybrid(d, TRUE)
    <2>1. d.lead = 6 + (d.y % 2) /\ s = <<d.x, d.y>>
      BY <1>5, <1>7 DEF FromHybrid
    <2>2. d.x = x /\ d.y = y
      BY <1>5, <2>1
    <2>3. d = Bytes("twice + 1", 6 + (y % 2), x, y)
      BY <1>4, <1>7, <2>1, <2>2, Zenon
    <2> QED BY <2>3, <1>2 DEF Encodings
  <1>8. CASE d.len = "twice + 1" /\ d.lead = 4 /\ s = <<d.x, d.y>>
    <2>1. d.x = x /\ d.y = y
      <3>1. <<d.x, d.y>> = <<x, y>>
        BY <1>5, <1>8, Zenon
      <3> QED BY <3>1
    <2>2. d = Bytes("twice + 1", 4, x, y)
      BY <1>4, <1>8, <2>1, Zenon
    <2> QED BY <2>2, <1>2 DEF Encodings
  <1>9. CASE d.len = "once + 1" /\ s = FromCompressed(d)
    <2>1. d.lead \in {2, 3} /\ \E beta \in Field : <<x, y>> = <<d.x, RootOf(beta, d.lead)>>
      BY <1>5, <1>9, CompressedCases
    <2>2. PICK beta \in Field : <<x, y>> = <<d.x, RootOf(beta, d.lead)>>
      BY <2>1
    <2>3. d.x = x /\ y = RootOf(beta, d.lead)
      BY <2>2
    <2>4. d.lead = 2 + (y % 2)
      BY <2>1, <2>3, RootParity
    <2>5. d.y = 0
      BY <1>9, DataFacts
    <2>6. d = Bytes("once + 1", 2 + (y % 2), x, 0)
      BY <1>4, <1>9, <2>3, <2>4, <2>5, Zenon
    <2> QED BY <2>6, <1>2 DEF Encodings
  <1> QED BY <1>5, <1>6, <1>7, <1>8, <1>9, <1>3

(* What to_bytes writes of a point of the curve, from_bytes reads.         *)
LEMMA ReadBackSpelling ==
  ASSUME NEW pt, NEW x \in Field, NEW y \in Field, Scale(pt).x = x, Scale(pt).y = y,
         ContainsPoint(x, y), NEW encoding \in Encodings, NEW valid \in SUBSET Encodings,
         valid = {} \/ encoding \in valid
  PROVE  FromBytes(ToBytes(pt, encoding), valid, TRUE) = <<x, y>>
  <1>1. encoding \in Enabled(valid)
    BY DEF Enabled
  <1>2. CASE encoding = "raw"
    <2> DEFINE d == Bytes("twice", 0, x, y)
    <2>1. d.len = "twice" /\ d.x = x /\ d.y = y
      BY DEF Bytes
    <2> HIDE DEF d
    <2>2. FromBytes(d, valid, TRUE) = <<x, y>>
      BY <1>1, <1>2, <2>1, FromBytesIs
    <2> QED BY <1>2, <2>2, Spellings DEF d
  <1>3. CASE encoding = "uncompressed"
    <2> DEFINE d == Bytes("twice + 1", 4, x, y)
    <2>1. d.len = "twice + 1" /\ d.x = x /\ d.y = y /\ d.lead = 4
      BY DEF Bytes
    <2> HIDE DEF d
    <2>2. FromBytes(d, valid, TRUE) = <<x, y>>
      BY <1>1, <1>3, <2>1, FromBytesIs
    <2> QED BY <1>3, <2>2, Spellings DEF d
  <1>4. CASE encoding = "hybrid"
    <2> DEFINE d == Bytes("twice + 1", 6 + (y % 2), x, y)
    <2>1. d.len = "twice + 1" /\ d.x = x /\ d.y = y /\ d.lead = 6 + (y % 2)
      BY DEF Bytes
    <2>2. y % 2 \in {0, 1}
      BY WordFacts, Parity
    <2>3. d.lead \in {6, 7}
      <3> DEFINE e == y % 2
      <3>1. e \in {0, 1} /\ d.lead = 6 + e
        BY <2>1, <2>2
      <3> HIDE DEF e, d
      <3> QED BY <3>1
    <2> HIDE DEF d
    <2>4. FromHybrid(d, TRUE) = <<x, y>>
      BY <2>1 DEF FromHybrid
    <2>5. FromBytes(d, valid, TRUE) = FromHybrid(d, TRUE)
      BY <1>1, <1>4, <2>1, <2>3, FromBytesIs
    <2>6. FromBytes(d, valid, TRUE) = <<x, y>>
      BY <2>4, <2>5
    <2>7. ToBytes(pt, "hybrid") = d
      BY Spellings DEF d
    <2> QED BY <1>4, <2>6, <2>7
  <1>5. CASE encoding = "compressed"
    <2> DEFINE d == Bytes("once + 1", 2 + (y % 2), x, 0)
               alpha == Cubic(x)
    <2>1. d.len = "once + 1" /\ d.x = x /\ d.lead = 2 + (y % 2) /\ d.y = 0
      BY DEF Bytes
    <2>2. x \in Int /\ y \in Int /\ y % 2 \in {0, 1}
      BY WordFacts, Parity
    <2>3. d.lead \in {2, 3} /\ (d.lead = 2 <=> y % 2 = 0)
      <3> DEFINE e == y % 2
      <3>1. e \in {0, 1} /\ d.lead = 2 + e
        BY <2>1, <2>2
      <3> HIDE DEF e, d
      <3>2. d.lead \in {2, 3} /\ (d.lead = 2 <=> e = 0)
        BY <3>1
      <3> QED BY <3>2 DEF e
    <2>4. (y * y) % P = alpha
      <3> DEFINE u == y * y  v == (x * x + A) * x + B
      <3>1. u \in Int /\ v \in Int /\ v = x * x * x + A * x + B
        BY <2>2, PFacts
      <3>2. (u - v) % P = 0
        BY DEF ContainsPoint
      <3> HIDE DEF u, v
      <3>3. u % P = v % P
        BY <3>1, <3>2, PFacts, DifferenceZero
      <3> QED BY <3>1, <3>3 DEF u, Cubic
    <2> HIDE DEF d
    <2>5. Cubic(d.x) = alpha
      BY <2>1
    <2> HIDE DEF alpha
    <2>6. PICK beta \in Field :
            (beta * beta) % P = alpha /\ FromCompressed(d) = <<d.x, RootOf(beta, d.lead)>>
      BY <2>3, <2>4, <2>5, CompressedRoot
    <2>7. FromCompressed(d) = <<x, RootOf(beta, d.lead)>>
      BY <2>1, <2>6
    <2>9. beta = y \/ beta + y = P
      BY <2>4, <2>6, Roots
    <2>10. RootOf(beta, d.lead) = y
      <3>1. beta \in Int /\ P \in Int /\ P % 2 = 1
        BY <2>6, PFacts DEF Field
      <3>2. beta = y \/ (beta = P - y /\ P - beta = y)
        BY <2>2, <2>9, <3>1
      <3>3. (y % 2 = 0 /\ (P - y) % 2 = 1) \/ (y % 2 = 1 /\ (P - y) % 2 = 0)
        BY <2>2, <3>1
      <3>4. CASE beta = y
        <4>2. ~ ((d.lead = 2) <=> (beta % 2 = 1))
          BY <2>2, <2>3, <3>4
        <4> QED BY <3>4, <4>2 DEF RootOf
      <3>5. CASE beta = P - y /\ P - beta = y
        <4>2. beta % 2 = 1 <=> y % 2 = 0
          BY <3>3, <3>5
        <4> QED BY <2>3, <3>5, <4>2 DEF RootOf
      <3> QED BY <3>2, <3>4, <3>5
    <2>11. FromBytes(d, valid, TRUE) = FromCompressed(d)
      BY <1>1, <1>5, <2>1, FromBytesIs
    <2>12. FromBytes(d, valid, TRUE) = <<x, y>>
      BY <2>7, <2>10, <2>11
    <2> QED BY <1>5, <2>12, Spellings DEF d
  <1> QED BY <1>2, <1>3, <1>4, <1>5 DEF Encodings

----------------------------------------------------------------------------
KInv ==
    /\ form \in {"point", "bytes", "key", "error"}
    /\ bytes \in Data \cup {Unencodable} /\ checked \in BOOLEAN
    /\ form = "bytes" => bytes \in Data
    /\ PointOK(point)
    /\ form = "key" =>
         /\ point # INFINITY /\ PublicKey(point, checked)
         /\ bytes # Unencodable =>
              /\ point.z = 1
              /\ checked => \E encoding \in Encodings : ToBytes(point, encoding) = bytes

(* What from_string makes of bytes.                                        *)
LEMMA KeyPointFacts ==
  ASSUME NEW d \in Data, NEW valid, NEW validate \in BOOLEAN,
         KeyPoint(d, valid, validate) # INFINITY
  PROVE  LET pt == KeyPoint(d, valid, validate) IN
         /\ PointOK(pt) /\ pt.z = 1 /\ PublicKey(pt, validate)
         /\ validate => \E encoding \in Encodings : ToBytes(pt, encoding) = d
  <1> DEFINE xy == FromBytes(d, valid, validate)
             q  == Jacobi(xy[1], xy[2], 1, 0)
             pt == KeyPoint(d, valid, validate)
  <1>1. xy # Malformed /\ PublicKey(q, validate) /\ pt = q
    BY DEF KeyPoint
  <1>2. \E x, y \in Int : xy = <<x, y>>
    BY <1>1, FromBytesType
  <1>3. xy[1] \in Int /\ xy[2] \in Int /\ xy = <<xy[1], xy[2]>>
    <2> HIDE DEF xy
    <2> QED BY <1>2
  <1>4. 1 \in Field \ {0}
    BY PFacts DEF Field
  <1>5. PointOK(q) /\ q # INFINITY /\ q.z = 1 /\ q.x = xy[1] /\ q.y = xy[2]
    <2> HIDE DEF xy
    <2> QED BY <1>3, <1>4, JacobiOK
  <1> HIDE DEF q, pt
  <1>6. Scale(q) = q
    BY <1>5 DEF Scale
  <1>7. ASSUME validate PROVE \E encoding \in Encodings : ToBytes(q, encoding) = d
    <2>1. xy[1] \in Field /\ xy[2] \in Field
      BY <1>1, <1>5, <1>6 DEF PublicKey
    <2>2. Scale(q).x = xy[1] /\ Scale(q).y = xy[2]
      BY <1>5, <1>6
    <2>3. FromBytes(d, valid, TRUE) = <<xy[1], xy[2]>>
      BY <1>3, <1>7
    <2> HIDE DEF xy
    <2>4. ReadsAs(d, valid, q)
      BY <2>1, <2>2, <2>3 DEF ReadsAs
    <2> QED BY <2>4, OneSpelling
  <1>8. /\ PointOK(pt) /\ pt.z = 1 /\ PublicKey(pt, validate)
        /\ validate => \E encoding \in Encodings : ToBytes(pt, encoding) = d
    BY <1>1, <1>5, <1>7
  <1> QED BY <1>8 DEF pt

LEMMA BecomesPointInv ==
  ASSUME NEW pt, PointOK(Flagged(pt, FALSE)), BecomesPoint(pt)
  PROVE  KInv'
  BY DEF BecomesPoint, Is, KInv

LEMMA ErrorInv == ASSUME Error PROVE KInv'
  BY InfinityOK DEF Error, Is, KInv

LEMMA InitInv == ASSUME Init PROVE KInv
  <1>1. BaseX \in Int /\ BaseY \in Int /\ 1 \in Field \ {0} /\ Order \in {0, Order}
    BY BaseAssumption, PFacts DEF Field
  <1>2. PointOK(Generator)
    BY <1>1, JacobiOK DEF Generator
  <1> QED BY <1>2 DEF Init, KInv

LEMMA ComputeInv == ASSUME KInv, Compute PROVE KInv'
  <1>1. PointOK(point) /\ point # INFINITY
    BY DEF KInv, Compute
  <1>2. PointOK(Generator)
    <2>1. BaseX \in Int /\ BaseY \in Int /\ 1 \in Field \ {0} /\ Order \in {0, Order}
      BY BaseAssumption, PFacts DEF Field
    <2> QED BY <2>1, JacobiOK DEF Generator
  <1>3. \E pt \in {Double(point), Neg(point), Add(point, Generator)} : BecomesPoint(pt)
    BY DEF Compute
  <1>4. \A pt \in {Double(point), Neg(point), Add(point, Generator)} : PointOK(Flagged(pt, FALSE))
    BY <1>1, <1>2, DoubleOK, NegOK, AddOK
  <1> QED BY <1>3, <1>4, BecomesPointInv

LEMMA RescaleInv == ASSUME KInv, Rescale PROVE KInv'
  <1>1. /\ form \in {"point", "key"} /\ point # INFINITY /\ point' = Scale(point)
        /\ form' = form /\ bytes' = bytes /\ checked' = checked /\ PointOK(point)
    BY DEF Rescale, KInv
  <1> DEFINE q == Scale(point)
  <1>2. PointOK(q) /\ q # INFINITY /\ q.z = 1
    BY <1>1, ScaleFacts
  <1>3. PublicKey(q, checked) <=> PublicKey(point, checked)
    BY <1>1, <1>2, PublicKeyOfScale
  <1>4. point.z = 1 => q = point
    BY DEF Scale
  <1> HIDE DEF q
  <1>5. point' = q
    BY <1>1 DEF q
  <1> QED BY <1>1, <1>2, <1>3, <1>4, <1>5 DEF KInv

LEMMA FromPublicPointInv == ASSUME KInv, FromPublicPoint PROVE KInv'
  <1>1. PointOK(point) /\ point # INFINITY
    BY DEF KInv, FromPublicPoint
  <1>2. PICK validate \in BOOLEAN :
          IF PublicKey(point, validate) THEN Is("key", point, Unencodable, validate) ELSE Error
    BY DEF FromPublicPoint
  <1>3. CASE PublicKey(point, validate)
    <2>1. Is("key", point, Unencodable, validate)
      BY <1>2, <1>3
    <2>2. /\ form' = "key" /\ point' = point /\ bytes' = Unencodable /\ checked' = validate
      BY <2>1 DEF Is
    <2> QED BY <1>1, <1>3, <2>2 DEF KInv
  <1>4. CASE ~ PublicKey(point, validate)
    BY <1>2, <1>4, ErrorInv
  <1> QED BY <1>3, <1>4

LEMMA FromStringInv == ASSUME KInv, FromString PROVE KInv'
  <1>1. bytes \in Data
    BY DEF KInv, FromString
  <1>2. PICK valid \in SUBSET Encodings, validate \in BOOLEAN :
          LET pt == KeyPoint(bytes, valid, validate) IN
          IF pt = INFINITY THEN Error ELSE Is("key", pt, bytes, validate)
    BY DEF FromString
  <1> DEFINE pt == KeyPoint(bytes, valid, validate)
  <1>3. CASE pt = INFINITY
    BY <1>2, <1>3, ErrorInv
  <1>4. CASE pt # INFINITY
    <2>1. /\ PointOK(pt) /\ pt.z = 1 /\ PublicKey(pt, validate)
          /\ validate => \E encoding \in Encodings : ToBytes(pt, encoding) = bytes
      BY <1>1, <1>4, KeyPointFacts
    <2> HIDE DEF pt
    <2>2. form' = "key" /\ point' = pt /\ bytes' = bytes /\ checked' = validate
      BY <1>2, <1>4 DEF pt, Is
    <2> QED BY <1>1, <1>4, <2>1, <2>2 DEF KInv
  <1> QED BY <1>3, <1>4

LEMMA PointFromBytesInv == ASSUME KInv, PointFromBytes PROVE KInv'
  <1>1. bytes \in Data
    BY DEF KInv, PointFromBytes
  <1>2. PICK valid \in SUBSET Encodings, validate \in BOOLEAN :
          LET xy == FromBytes(bytes, valid, validate) IN
          IF xy = Malformed THEN Error ELSE BecomesPoint(Jacobi(xy[1], xy[2], 1, 0))
    BY DEF PointFromBytes
  <1> DEFINE xy == FromBytes(bytes, valid, validate)
  <1>3. CASE xy = Malformed
    BY <1>2, <1>3, ErrorInv
  <1>4. CASE xy # Malformed
    <2>1. \E x, y \in Int : xy = <<x, y>>
      BY <1>1, <1>4, FromBytesType
    <2>2. BecomesPoint(Jacobi(xy[1], xy[2], 1, 0))
      BY <1>2, <1>4
    <2> HIDE DEF xy
    <2>3. xy[1] \in Int /\ xy[2] \in Int /\ 1 \in Field \ {0}
      BY <2>1, PFacts DEF Field
    <2>4. PointOK(Jacobi(xy[1], xy[2], 1, 0))
      BY <2>3, JacobiOK
    <2>5. PointOK(Flagged(Jacobi(xy[1], xy[2], 1, 0), FALSE))
      BY <2>4, KeepOK
    <2> QED BY <2>2, <2>5, BecomesPointInv
  <1> QED BY <1>3, <1>4

LEMMA EncodeKeyInv == ASSUME KInv, EncodeKey PROVE KInv'
  <1>1. PointOK(point) /\ point # INFINITY
    BY DEF KInv, EncodeKey
  <1>2. PICK encoding \in Encodings :
          LET d == ToBytes(point, encoding) IN
          IF d = Unencodable THEN Error ELSE Is("bytes", INFINITY, d, FALSE)
    BY DEF EncodeKey
  <1> DEFINE d == ToBytes(point, encoding)
  <1>3. d \in Data \cup {Unencodable}
    BY <1>1, ToBytesType
  <1>4. CASE d = Unencodable
    BY <1>2, <1>4, ErrorInv
  <1>5. CASE d # Unencodable
    <2>1. Is("bytes", INFINITY, d, FALSE)
      BY <1>2, <1>5
    <2> HIDE DEF d
    <2> QED BY <1>3, <1>5, <2>1, InfinityOK DEF Is, KInv
  <1> QED BY <1>4, <1>5

(* What each step of the key's travels keeps: from_bytes, to_bytes, the    *)
(* constructors of Public_key and VerifyingKey, scale() and the arithmetic *)
(* leave well-formed points, and a key read with validate_point spells the *)
(* bytes it was read from.                                                 *)
THEOREM KeysInvariant == Spec => []KInv
  <1>1. Init => KInv
    BY InitInv
  <1>2. KInv /\ [Next]_vars => KInv'
    <2> SUFFICES ASSUME KInv, [Next]_vars PROVE KInv'
      OBVIOUS
    <2>1. CASE Receive
      BY <2>1, InfinityOK DEF Receive, Is, KInv
    <2>2. CASE Take
      <3>1. PointOK(Flagged(point, FALSE)) /\ BecomesPoint(point)
        BY <2>2, KeepOK DEF Take, KInv
      <3> QED BY <3>1, BecomesPointInv
    <2>3. CASE UNCHANGED vars
      BY <2>3 DEF vars, KInv
    <2> QED BY <2>1, <2>2, <2>3, ComputeInv, RescaleInv, FromPublicPointInv, FromStringInv,
               PointFromBytesInv, EncodeKeyInv DEF Next
  <1> QED BY <1>1, <1>2, PTL DEF Spec

(* A byte string is one from_bytes may meet, and a key's coordinates are   *)
(* below the prime, which Public_key checks of the scaled point and the    *)
(* caller's scale() keeps.                                                 *)
THEOREM KeyTypes == Spec => []TypeOK
  <1>1. KInv => TypeOK
    BY DEF KInv, TypeOK, PublicKey
  <1> QED BY <1>1, KeysInvariant, PTL

(* The key that from_string made with validate_point, written by to_string *)
(* in the encoding it came in, yields the bytes it was read from.          *)
THEOREM KeysHaveOneSpelling == Spec => []Canonical
  <1>1. KInv => Canonical
    BY DEF KInv, Canonical
  <1> QED BY <1>1, KeysInvariant, PTL

(* Whatever to_string writes of a checked key, from_string reads as the    *)
(* same point, also when the key's point is not scaled or carries another  *)
(* order than the one from_string gives it.                                *)
THEOREM KeysReadBack == Spec => []RoundTrip
  <1>1. KInv => RoundTrip
    <2> SUFFICES ASSUME KInv, form = "key", checked, NEW encoding \in Encodings,
                        NEW valid \in SUBSET Encodings, valid = {} \/ encoding \in valid
                 PROVE  Residues(KeyPoint(ToBytes(point, encoding), valid, TRUE))
                          = Residues(point)
      BY DEF RoundTrip
    <2> DEFINE x == Scale(point).x  y == Scale(point).y  q == Jacobi(x, y, 1, 0)
    <2>1. PointOK(point) /\ point # INFINITY /\ PublicKey(point, TRUE)
      BY DEF KInv
    <2>2. x \in Field /\ y \in Field /\ ContainsPoint(x, y)
      BY <2>1 DEF PublicKey
    <2>3. x \in Int /\ y \in Int
      BY <2>1, ScaleFacts
    <2> HIDE DEF x, y
    <2>4. FromBytes(ToBytes(point, encoding), valid, TRUE) = <<x, y>>
      BY <2>2, ReadBackSpelling DEF x, y
    <2>5. 1 \in Field \ {0} /\ <<x, y>> # Malformed
      BY PFacts DEF Field, Malformed
    <2>6. PointOK(q) /\ q # INFINITY /\ q.z = 1 /\ q.x = x /\ q.y = y
      BY <2>3, <2>5, JacobiOK
    <2> HIDE DEF q
    <2>7. PublicKey(q, TRUE)
      BY <2>1, <2>6, PublicKeyOfScale DEF x, y
    <2>8. KeyPoint(ToBytes(point, encoding), valid, TRUE) = q
      <3> DEFINE d == ToBytes(point, encoding)  xy == FromBytes(d, valid, TRUE)
      <3>1. xy # Malformed /\ xy[1] = x /\ xy[2] = y
        <4>1. xy = <<x, y>>
          BY <2>4, Zenon
        <4> HIDE DEF xy
        <4> QED BY <2>5, <4>1
      <3> HIDE DEF d
      <3>2. Jacobi(xy[1], xy[2], 1, 0) = q
        BY <3>1 DEF q
      <3>3. KeyPoint(d, valid, TRUE) = q
        BY <2>7, <3>1, <3>2 DEF KeyPoint
      <3> QED BY <3>3 DEF d
    <2>9. Scale(q) = q
      BY <2>6 DEF Scale
    <2>10. Residues(q) = <<x % P, y % P>>
      BY <2>6, <2>9, ResiduesOfScale
    <2>11. Residues(point) = <<x % P, y % P>>
      BY <2>1, ResiduesOfScale DEF x, y
    <2> QED BY <2>8, <2>10, <2>11
  <1> QED BY <1>1, KeysInvariant, PTL

(* The coordinates that Public_key compares with the prime are those of    *)
(* the point's residues.                                                   *)
LEMMA CheckedOnTheCurve ==
  ASSUME KInv, form = "key", checked
  PROVE  /\ PointOK(point) /\ point # INFINITY /\ PublicKey(point, TRUE)
         /\ Residues(point) = <<Scale(point).x, Scale(point).y>>
         /\ Residues(point) \in CurvePoints
  <1> DEFINE x == Scale(point).x  y == Scale(point).y
  <1>1. PointOK(point) /\ point # INFINITY /\ PublicKey(point, TRUE)
    BY DEF KInv
  <1>2. x \in Field /\ y \in Field /\ ContainsPoint(x, y)
    BY <1>1 DEF PublicKey
  <1>3. Residues(point) = <<x % P, y % P>>
    BY <1>1, ResiduesOfScale
  <1> HIDE DEF x, y
  <1>4. x % P = x /\ y % P = y
    <2>1. \A a \in Field : a % P = a
      BY PFacts, RemainderOfSmall DEF Field
    <2> QED BY <1>2, <2>1
  <1>5. Residues(point) = <<x, y>> /\ <<x, y>> \in CurvePoints
    BY <1>2, <1>3, <1>4 DEF CurvePoints
  <1> QED BY <1>1, <1>5 DEF x, y

(* The first half of KeyValid: the point of a checked key is on the curve. *)
THEOREM KeysOnTheCurve ==
  Spec => [](form = "key" /\ checked => Residues(point) \in CurvePoints)
  <1>1. KInv => (form = "key" /\ checked => Residues(point) \in CurvePoints)
    BY CheckedOnTheCurve
  <1> QED BY <1>1, KeysInvariant, PTL

(* What the product by the order tells of a point that is not its own      *)
(* opposite, whatever group it lies in, when the loop adds no Twin.        *)
LEMMA ProductTells ==
  ASSUME Smooth, NEW pt, NEW q, Good(pt, q), pt.class = "jacobi", pt.n = 0, pt.y # 0,
         NEW k \in Nat \ {0}, Mul(pt, k, FALSE).z = 0, ~ Mul(pt, k, FALSE).twin
  PROVE  RMul(k, q) = O
  <1>1. q \in Group
    BY InfinityTold
  <1>2. pt.z # 0
    BY InfinityTold, InfinityIs
  <1>3. k # 1 /\ Mul(pt, k, FALSE) = MulLoop(pt, k)
    BY <1>2 DEF Mul
  <1>4. Good(MulLoop(pt, k), ZMul(k, q))
    BY <1>3, MulLoopGood
  <1>5. ZMul(k, q) = O
    BY <1>3, <1>4, InfinityTold
  <1> QED BY <1>1, <1>5, ZMulIs

(* A key that was made with validate_point is a multiple of the generator, *)
(* however its point was computed, scaled or read, except for points of    *)
(* order two, and if the product by the order that Public_key tests adds   *)
(* no two Twins. With cofactor 1 no product is made, and nothing needed    *)
(* but that, as the comment says, every point of the curve is a multiple.  *)
THEOREM KeysAreMultiples ==
  ASSUME Smooth, Cofactor = 1 => Annihilates(Order)
  PROVE  Spec => []((Cofactor # 1 => ~ Mul(point, Order, FALSE).twin) => KeyValid)
  <1>1. KInv => ((Cofactor # 1 => ~ Mul(point, Order, FALSE).twin) => KeyValid)
    <2> SUFFICES ASSUME KInv, Cofactor # 1 => ~ Mul(point, Order, FALSE).twin,
                        form = "key", checked
                 PROVE  LET q == Residues(point) IN
                        q \in CurvePoints /\ (q[2] # 0 => RMul(Order, q) = O)
      BY DEF KeyValid
    <2> DEFINE q == Residues(point)  x == Scale(point).x  y == Scale(point).y
    <2>1. /\ PointOK(point) /\ point # INFINITY /\ PublicKey(point, TRUE)
          /\ q = <<x, y>> /\ q \in CurvePoints
      BY CheckedOnTheCurve
    <2>2. x \in Field /\ y \in Field /\ x \in Int /\ y \in Int
      BY <2>1, ScaleFacts DEF PublicKey
    <2>3. Cofactor # 1 => Mul(point, Order, FALSE).z = 0
      BY <2>1 DEF PublicKey
    <2>4. q \in Group /\ Order \in Nat \ {0}
      BY <2>1, BaseAssumption DEF Group
    <2>5. CASE Cofactor = 1
      BY <2>1, <2>4, <2>5 DEF Annihilates
    <2>6. CASE Cofactor # 1
      <3> SUFFICES ASSUME q[2] # 0 PROVE RMul(Order, q) = O
        BY <2>1
      <3> DEFINE s == Jacobi(x, y, 1, 0)
      <3>1. /\ PointOK(s) /\ s # INFINITY /\ s.z = 1 /\ s.x = x /\ s.y = y
            /\ s.class = "jacobi" /\ s.n = 0
        <4>1. 1 \in Field \ {0}
          BY PFacts DEF Field
        <4> HIDE DEF x, y
        <4>2. PointOK(s) /\ s # INFINITY /\ s.z = 1 /\ s.x = x /\ s.y = y
          BY <2>2, <4>1, JacobiOK
        <4> QED BY <4>2 DEF Jacobi, Object
      <3>2. Good(s, q)
        <4>1. s = Object("jacobi", q[1], q[2], 1, 0)
          BY <2>1 DEF Jacobi
        <4> QED BY <2>1, <4>1, ReducedGood
      <3> HIDE DEF s
      <3>3. Mul(s, Order, FALSE).z = 0 /\ ~ Mul(s, Order, FALSE).twin
        BY <2>1, <2>3, <2>6, <3>1, MulOfScale
      <3>4. s.y # 0
        BY <2>1, <3>1
      <3> HIDE DEF q
      <3> QED BY <2>4, <3>1, <3>2, <3>3, <3>4, ProductTells
    <2> QED BY <2>5, <2>6
  <1> QED BY <1>1, KeysInvariant, PTL
=============================================================================
