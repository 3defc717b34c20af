--------------------------- MODULE JacobianProofs ---------------------------
(***************************************************************************)
(* The arithmetic of points, over every prime: the types of what the       *)
(* formulas return, that doubling, addition and comparison of Jacobian and *)
(* affine coordinates compute the group law of the curve, that this law is *)
(* associative, and that the multiplications compute its multiples.        *)
(***************************************************************************)
EXTENDS Jacobian, ProofBasics

LEMMA PFacts ==
  /\ P \in Nat \ {0} /\ P > 3 /\ P % 2 = 1 /\ NoDivisor(P) /\ A \in Int /\ B \in Int
  <1>1. P \in Nat /\ P > 3 /\ (\A d \in 2 .. P - 1 : P % d # 0) /\ A \in Int /\ B \in Int
    BY CurveAssumption
  <1>2. 2 \in 2 .. P - 1
    BY <1>1
  <1>3. P % 2 # 0
    BY <1>1, <1>2
  <1> QED BY <1>1, <1>3 DEF NoDivisor

LEMMA Reduced == ASSUME NEW a \in Int PROVE a % P \in Field /\ a % P \in Int
  BY PFacts, DivMod DEF Field

LEMMA InverseModType ==
  ASSUME NEW a \in Int, a % P # 0
  PROVE  InverseMod(a) \in Field /\ InverseMod(a) \in Int /\ (InverseMod(a) * a) % P = 1
  <1>1. a # 0
    <2>1. 0 % P = 0
      BY PFacts, RemainderOfSmall
    <2> QED BY <2>1
  <1>2. \E i \in Field : (i * a) % P = 1
    BY PFacts, InverseExists DEF Field
  <1>3. InverseMod(a) = CHOOSE i \in Field : (i * a) % P = 1
    BY <1>1 DEF InverseMod
  <1>4. InverseMod(a) \in Field /\ (InverseMod(a) * a) % P = 1
    BY <1>2, <1>3, Zenon
  <1>5. \A i \in Field : i \in Int
    BY PFacts DEF Field
  <1> QED BY <1>4, <1>5

(* A number of the field but 0 has an inverse.                             *)
LEMMA InverseInField ==
  ASSUME NEW a \in 1 .. P - 1
  PROVE  InverseMod(a) \in Int
  <1>1. a \in Int /\ a % P # 0
    BY PFacts, RemainderOfSmall
  <1> QED BY <1>1, InverseModType

----------------------------------------------------------------------------
(* What the formulas yield is reduced.                                     *)
Coordinates == Field \X Field \X Field

LEMMA TripleOf ==
  ASSUME NEW x \in Int, NEW y \in Int, NEW z \in Int
  PROVE  <<x % P, y % P, z % P>> \in Coordinates
  BY Reduced DEF Coordinates

LEMMA ZeroCoordinates == <<0, 0, 0>> \in Coordinates
  BY PFacts DEF Coordinates, Field

LEMMA DoubleWithZ1Type ==
  ASSUME NEW X1 \in Int, NEW Y1 \in Int
  PROVE  DoubleWithZ1(X1, Y1) \in Coordinates
  <1> DEFINE XX   == (X1 * X1) % P
             YY   == (Y1 * Y1) % P
             YYYY == (YY * YY) % P
             S    == (2 * ((X1 + YY) * (X1 + YY) - XX - YYYY)) % P
             M    == 3 * XX + A
             t    == M * M - 2 * S
             T    == t % P
             Y3   == M * (S - T) - 8 * YYYY
  <1>1. XX \in Int /\ YY \in Int
    BY Reduced
  <1> HIDE DEF XX, YY
  <1>2. YYYY \in Int
    BY <1>1, Reduced
  <1> HIDE DEF YYYY
  <1>3. S \in Int /\ M \in Int
    BY <1>1, <1>2, Reduced, PFacts
  <1> HIDE DEF S, M
  <1>4. t \in Int
    BY <1>3
  <1> HIDE DEF t
  <1>5. T \in Int
    BY <1>4, Reduced
  <1> HIDE DEF T
  <1>6. Y3 \in Int /\ 2 * Y1 \in Int
    BY <1>2, <1>3, <1>5
  <1> HIDE DEF Y3
  <1>7. DoubleWithZ1(X1, Y1) = IF YY = 0 THEN <<0, 0, 0>> ELSE <<t % P, Y3 % P, (2 * Y1) % P>>
    BY DEF DoubleWithZ1, XX, YY, YYYY, S, M, T, Y3, t
  <1> QED BY <1>4, <1>6, <1>7, TripleOf, ZeroCoordinates

LEMMA DoubleTripleType ==
  ASSUME NEW X1 \in Int, NEW Y1 \in Int, NEW Z1 \in Int
  PROVE  DoubleTriple(X1, Y1, Z1) \in Coordinates
  <1> DEFINE XX   == (X1 * X1) % P
             YY   == (Y1 * Y1) % P
             YYYY == (YY * YY) % P
             ZZ   == (Z1 * Z1) % P
             S    == (2 * ((X1 + YY) * (X1 + YY) - XX - YYYY)) % P
             M    == (3 * XX + A * ZZ * ZZ) % P
             t    == M * M - 2 * S
             T    == t % P
             Y3   == M * (S - T) - 8 * YYYY
             Zs   == (Y1 + Z1) * (Y1 + Z1) - YY - ZZ
  <1>1. XX \in Int /\ YY \in Int /\ ZZ \in Int
    BY Reduced
  <1> HIDE DEF XX, YY, ZZ
  <1>2. YYYY \in Int /\ Zs \in Int
    BY <1>1, Reduced
  <1> HIDE DEF YYYY, Zs
  <1>3. S \in Int /\ M \in Int
    <2>1. 3 * XX + A * ZZ * ZZ \in Int
      BY <1>1, PFacts
    <2>2. 2 * ((X1 + YY) * (X1 + YY) - XX - YYYY) \in Int
      BY <1>1, <1>2
    <2> QED BY <2>1, <2>2, Reduced
  <1> HIDE DEF S, M
  <1>4. t \in Int
    BY <1>3
  <1> HIDE DEF t
  <1>5. T \in Int
    BY <1>4, Reduced
  <1> HIDE DEF T
  <1>6. Y3 \in Int
    BY <1>2, <1>3, <1>5
  <1> HIDE DEF Y3
  <1>7. \/ DoubleTriple(X1, Y1, Z1) = DoubleWithZ1(X1, Y1)
        \/ DoubleTriple(X1, Y1, Z1) = <<0, 0, 0>>
        \/ DoubleTriple(X1, Y1, Z1) = <<t % P, Y3 % P, Zs % P>>
    BY DEF DoubleTriple, XX, YY, YYYY, ZZ, S, M, T, Y3, Zs, t
  <1> QED BY <1>2, <1>4, <1>6, <1>7, TripleOf, ZeroCoordinates, DoubleWithZ1Type

LEMMA AddWithZ1Type ==
  ASSUME NEW X1 \in Int, NEW Y1 \in Int, NEW X2 \in Int, NEW Y2 \in Int
  PROVE  AddWithZ1(X1, Y1, X2, Y2) \in Coordinates
  <1> DEFINE H  == X2 - X1
             I  == (4 * H * H) % P
             J  == H * I
             r  == 2 * (Y2 - Y1)
             V  == X1 * I
             t  == r * r - J - 2 * V
             X3 == t % P
             Y3 == r * (V - X3) - 2 * Y1 * J
  <1>1. H \in Int /\ r \in Int
    OBVIOUS
  <1> HIDE DEF H, r
  <1>2. I \in Int
    BY <1>1, Reduced
  <1> HIDE DEF I
  <1>3. J \in Int /\ V \in Int
    BY <1>1, <1>2
  <1> HIDE DEF J, V
  <1>4. t \in Int
    BY <1>1, <1>3
  <1> HIDE DEF t
  <1>5. X3 \in Int
    BY <1>4, Reduced
  <1> HIDE DEF X3
  <1>6. Y3 \in Int /\ 2 * H \in Int
    BY <1>1, <1>3, <1>5
  <1> HIDE DEF Y3
  <1>7. \/ AddWithZ1(X1, Y1, X2, Y2) = DoubleWithZ1(X1, Y1)
        \/ AddWithZ1(X1, Y1, X2, Y2) = <<t % P, Y3 % P, (2 * H) % P>>
    BY DEF AddWithZ1, H, I, J, r, V, t, X3, Y3
  <1> QED BY <1>4, <1>6, <1>7, TripleOf, DoubleWithZ1Type

LEMMA AddWithZEqType ==
  ASSUME NEW X1 \in Int, NEW Y1 \in Int, NEW Z1 \in Int, NEW X2 \in Int, NEW Y2 \in Int
  PROVE  AddWithZEq(X1, Y1, Z1, X2, Y2) \in Coordinates
  <1> DEFINE E  == ((X2 - X1) * (X2 - X1)) % P
             F  == (X1 * E) % P
             C  == X2 * E
             D  == ((Y2 - Y1) * (Y2 - Y1)) % P
             t  == D - F - C
             X3 == t % P
             Y3 == (Y2 - Y1) * (F - X3) - Y1 * (C - F)
             Zs == Z1 * (X2 - X1)
  <1>1. E \in Int /\ D \in Int
    BY Reduced
  <1> HIDE DEF E, D
  <1>2. F \in Int /\ C \in Int /\ Zs \in Int
    BY <1>1, Reduced
  <1> HIDE DEF F, C, Zs
  <1>3. t \in Int
    BY <1>1, <1>2
  <1> HIDE DEF t
  <1>4. X3 \in Int
    BY <1>3, Reduced
  <1> HIDE DEF X3
  <1>5. Y3 \in Int
    BY <1>2, <1>4
  <1> HIDE DEF Y3
  <1>6. \/ AddWithZEq(X1, Y1, Z1, X2, Y2) = DoubleTriple(X1, Y1, Z1)
        \/ AddWithZEq(X1, Y1, Z1, X2, Y2) = <<t % P, Y3 % P, Zs % P>>
    BY DEF AddWithZEq, E, F, C, D, t, X3, Y3, Zs
  <1> QED BY <1>2, <1>3, <1>5, <1>6, TripleOf, DoubleTripleType

LEMMA AddWithZ21Type ==
  ASSUME NEW X1 \in Int, NEW Y1 \in Int, NEW Z1 \in Int, NEW X2 \in Int, NEW Y2 \in Int
  PROVE  AddWithZ21(X1, Y1, Z1, X2, Y2) \in Coordinates
  <1> DEFINE Z1Z1 == (Z1 * Z1) % P
             U2   == (X2 * Z1Z1) % P
             S2   == (Y2 * Z1 * Z1Z1) % P
             H    == (U2 - X1) % P
             HH   == (H * H) % P
             I    == (4 * HH) % P
             J    == H * I
             r    == (2 * (S2 - Y1)) % P
             V    == X1 * I
             t    == r * r - J - 2 * V
             X3   == t % P
             Y3   == r * (V - X3) - 2 * Y1 * J
             Zs   == (Z1 + H) * (Z1 + H) - Z1Z1 - HH
  <1>1. Z1Z1 \in Int
    BY Reduced
  <1> HIDE DEF Z1Z1
  <1>2. U2 \in Int /\ S2 \in Int
    BY <1>1, Reduced
  <1> HIDE DEF U2, S2
  <1>3. H \in Int /\ r \in Int
    BY <1>2, Reduced
  <1> HIDE DEF H, r
  <1>4. HH \in Int
    BY <1>3, Reduced
  <1> HIDE DEF HH
  <1>5. I \in Int
    BY <1>4, Reduced
  <1> HIDE DEF I
  <1>6. J \in Int /\ V \in Int /\ Zs \in Int
    BY <1>1, <1>3, <1>4, <1>5
  <1> HIDE DEF J, V, Zs
  <1>7. t \in Int
    BY <1>3, <1>6
  <1> HIDE DEF t
  <1>8. X3 \in Int
    BY <1>7, Reduced
  <1> HIDE DEF X3
  <1>9. Y3 \in Int
    BY <1>3, <1>6, <1>8
  <1> HIDE DEF Y3
  <1>10. \/ AddWithZ21(X1, Y1, Z1, X2, Y2) = DoubleWithZ1(X2, Y2)
         \/ AddWithZ21(X1, Y1, Z1, X2, Y2) = <<t % P, Y3 % P, Zs % P>>
    BY DEF AddWithZ21, Z1Z1, U2, S2, H, HH, I, J, r, V, t, X3, Y3, Zs
  <1> QED BY <1>6, <1>7, <1>9, <1>10, TripleOf, DoubleWithZ1Type

LEMMA AddWithZNeType ==
  ASSUME NEW X1 \in Int, NEW Y1 \in Int, NEW Z1 \in Int,
         NEW X2 \in Int, NEW Y2 \in Int, NEW Z2 \in Int
  PROVE  AddWithZNe(X1, Y1, Z1, X2, Y2, Z2) \in Coordinates
  <1> DEFINE Z1Z1 == (Z1 * Z1) % P
             Z2Z2 == (Z2 * Z2) % P
             U1   == (X1 * Z2Z2) % P
             U2   == (X2 * Z1Z1) % P
             S1   == (Y1 * Z2 * Z2Z2) % P
             S2   == (Y2 * Z1 * Z1Z1) % P
             H    == U2 - U1
             I    == (4 * H * H) % P
             J    == (H * I) % P
             r    == (2 * (S2 - S1)) % P
             V    == U1 * I
             t    == r * r - J - 2 * V
             X3   == t % P
             Y3   == r * (V - X3) - 2 * S1 * J
             Zs   == ((Z1 + Z2) * (Z1 + Z2) - Z1Z1 - Z2Z2) * H
  <1>1. Z1Z1 \in Int /\ Z2Z2 \in Int
    BY Reduced
  <1> HIDE DEF Z1Z1, Z2Z2
  <1>2. U1 \in Int /\ U2 \in Int /\ S1 \in Int /\ S2 \in Int
    BY <1>1, Reduced
  <1> HIDE DEF U1, U2, S1, S2
  <1>3. H \in Int /\ r \in Int
    BY <1>2, Reduced
  <1> HIDE DEF H, r
  <1>4. I \in Int
    BY <1>3, Reduced
  <1> HIDE DEF I
  <1>5. J \in Int /\ V \in Int /\ Zs \in Int
    BY <1>1, <1>2, <1>3, <1>4, Reduced
  <1> HIDE DEF J, V, Zs
  <1>6. t \in Int
    BY <1>3, <1>5
  <1> HIDE DEF t
  <1>7. X3 \in Int
    BY <1>6, Reduced
  <1> HIDE DEF X3
  <1>8. Y3 \in Int
    BY <1>2, <1>3, <1>5, <1>7
  <1> HIDE DEF Y3
  <1>9. \/ AddWithZNe(X1, Y1, Z1, X2, Y2, Z2) = DoubleTriple(X1, Y1, Z1)
        \/ AddWithZNe(X1, Y1, Z1, X2, Y2, Z2) = <<t % P, Y3 % P, Zs % P>>
    BY DEF AddWithZNe, Z1Z1, Z2Z2, U1, U2, S1, S2, H, I, J, r, V, t, X3, Y3, Zs
  <1> QED BY <1>5, <1>6, <1>8, <1>9, TripleOf, DoubleTripleType

LEMMA AddTriplesType ==
  ASSUME NEW X1 \in Int, NEW Y1 \in Int, NEW Z1 \in Int,
         NEW X2 \in Int, NEW Y2 \in Int, NEW Z2 \in Int
  PROVE  AddTriples(X1, Y1, Z1, X2, Y2, Z2) \in Coordinates
  <1> DEFINE s == AddTriples(X1, Y1, Z1, X2, Y2, Z2)
  <1>1. \/ s = <<X2 % P, Y2 % P, Z2 % P>>
        \/ s = <<X1 % P, Y1 % P, Z1 % P>>
        \/ s = AddWithZ1(X1, Y1, X2, Y2)
        \/ s = AddWithZEq(X1, Y1, Z1, X2, Y2)
        \/ s = AddWithZ21(X2, Y2, Z2, X1, Y1)
        \/ s = AddWithZ21(X1, Y1, Z1, X2, Y2)
        \/ s = AddWithZNe(X1, Y1, Z1, X2, Y2, Z2)
    BY DEF AddTriples
  <1> HIDE DEF s
  <1>2. /\ <<X2 % P, Y2 % P, Z2 % P>> \in Coordinates
        /\ <<X1 % P, Y1 % P, Z1 % P>> \in Coordinates
    BY TripleOf
  <1>3. /\ AddWithZ1(X1, Y1, X2, Y2) \in Coordinates
        /\ AddWithZEq(X1, Y1, Z1, X2, Y2) \in Coordinates
    BY AddWithZ1Type, AddWithZEqType
  <1>4. /\ AddWithZ21(X2, Y2, Z2, X1, Y1) \in Coordinates
        /\ AddWithZ21(X1, Y1, Z1, X2, Y2) \in Coordinates
        /\ AddWithZNe(X1, Y1, Z1, X2, Y2, Z2) \in Coordinates
    BY AddWithZ21Type, AddWithZNeType
  <1>5. s \in Coordinates
    BY <1>1, <1>2, <1>3, <1>4
  <1> QED BY <1>5 DEF s


----------------------------------------------------------------------------
(* Numbers that are the same modulo P.                                     *)
Congruent(a, b) == \E k \in Int : a = b + k * P

LEMMA CongruentIs ==
  ASSUME NEW a \in Int, NEW b \in Int
  PROVE  Congruent(a, b) <=> a % P = b % P
  <1>1. ASSUME Congruent(a, b) PROVE a % P = b % P
    <2>1. PICK k \in Int : a = b + k * P
      BY <1>1 DEF Congruent
    <2> QED BY <2>1, PFacts, SameRemainder
  <1>2. ASSUME a % P = b % P PROVE Congruent(a, b)
    <2> DEFINE q == a \div P  q2 == b \div P
    <2>1. a = P * q + (a % P) /\ b = P * q2 + (b % P) /\ q \in Int /\ q2 \in Int /\ a % P \in Int
      BY PFacts, DivMod
    <2> HIDE DEF q, q2
    <2>2. a = b + (q - q2) * P
      <3>1. (q - q2) * P = P * q - P * q2
        BY <2>1, PFacts
      <3>2. P * q \in Int /\ P * q2 \in Int
        BY <2>1, PFacts
      <3> QED BY <1>2, <2>1, <3>1, <3>2
    <2>3. q - q2 \in Int
      BY <2>1
    <2> QED BY <2>2, <2>3 DEF Congruent
  <1> QED BY <1>1, <1>2

LEMMA CongruentMod ==
  ASSUME NEW a \in Int
  PROVE  a % P \in Int /\ Congruent(a % P, a) /\ Congruent(a, a % P) /\ Congruent(a, a)
  <1>1. a % P \in Int /\ a % P \in 0 .. P - 1
    BY Reduced DEF Field
  <1>2. (a % P) % P = a % P
    <2>1. \A r \in 0 .. P - 1 : r % P = r
      BY PFacts, RemainderOfSmall
    <2> QED BY <1>1, <2>1
  <1> QED BY <1>1, <1>2, CongruentIs

LEMMA CongruentTrans ==
  ASSUME NEW a \in Int, NEW b \in Int, NEW c \in Int, Congruent(a, b), Congruent(b, c)
  PROVE  Congruent(a, c)
  BY CongruentIs

LEMMA CongruentSym ==
  ASSUME NEW a \in Int, NEW b \in Int, Congruent(a, b)
  PROVE  Congruent(b, a)
  BY CongruentIs

LEMMA CongruentAdd ==
  ASSUME NEW a \in Int, NEW b \in Int, NEW c \in Int, NEW d \in Int,
         Congruent(a, b), Congruent(c, d)
  PROVE  Congruent(a + c, b + d) /\ Congruent(a - c, b - d)
  <1>1. PICK k \in Int : a = b + k * P
    BY DEF Congruent
  <1>2. PICK m \in Int : c = d + m * P
    BY DEF Congruent
  <1>3. a + c = b + d + (k + m) * P /\ a - c = b - d + (k - m) * P
    BY <1>1, <1>2, PFacts
  <1>4. k + m \in Int /\ k - m \in Int
    OBVIOUS
  <1> QED BY <1>3, <1>4 DEF Congruent

LEMMA CongruentMul ==
  ASSUME NEW a \in Int, NEW b \in Int, NEW c \in Int, NEW d \in Int,
         Congruent(a, b), Congruent(c, d)
  PROVE  Congruent(a * c, b * d)
  <1>1. PICK k \in Int : a = b + k * P
    BY DEF Congruent
  <1>2. PICK m \in Int : c = d + m * P
    BY DEF Congruent
  <1> DEFINE e == b * m + k * d + k * m * P
  <1>3. e \in Int
    BY PFacts
  <1>4. a * c = b * d + e * P
    BY <1>1, <1>2, PFacts
  <1> QED BY <1>3, <1>4 DEF Congruent

LEMMA CongruentZero ==
  ASSUME NEW a \in Int
  PROVE  Congruent(a, 0) <=> a % P = 0
  <1>1. 0 % P = 0
    BY PFacts, RemainderOfSmall
  <1> QED BY <1>1, CongruentIs

(* A factor that is not 0 may be cancelled.                                *)
LEMMA CongruentCancel ==
  ASSUME NEW a \in Int, NEW b \in Int, NEW c \in Int, c % P # 0, Congruent(a * c, b * c)
  PROVE  Congruent(a, b)
  <1> DEFINE d == a - b  u == a * c  v == b * c
  <1>1. d \in Int /\ u \in Int /\ v \in Int /\ u - v = d * c
    OBVIOUS
  <1>2. u % P = v % P
    BY <1>1, CongruentIs
  <1>3. (u - v) % P = 0
    BY <1>1, <1>2, PFacts, DifferenceZero
  <1>4. (d * c) % P = 0
    BY <1>1, <1>3
  <1> HIDE DEF d
  <1>5. d % P = 0
    BY <1>1, <1>4, PFacts, PrimeDivides, Zenon
  <1>6. (a - b) % P = 0
    BY <1>5 DEF d
  <1>7. a % P = b % P
    BY <1>6, PFacts, DifferenceZero
  <1> QED BY <1>7, CongruentIs

LEMMA CongruentField ==
  ASSUME NEW a \in Field, NEW b \in Field, Congruent(a, b)
  PROVE  a = b
  <1>1. a \in Int /\ b \in Int /\ a % P = a /\ b % P = b
    BY PFacts, RemainderOfSmall DEF Field
  <1> QED BY <1>1, CongruentIs

----------------------------------------------------------------------------
(* Jacobian coordinates of the point <<x, y>>, whatever Z is.              *)
At(X, Y, Z, x, y) == Congruent(X, x * Z * Z) /\ Congruent(Y, y * Z * Z * Z)

(* Steps of such computations.                                             *)
LEMMA CongruentTimes ==
  ASSUME NEW a \in Int, NEW b \in Int, NEW c \in Int, Congruent(a, b)
  PROVE  Congruent(a * c, b * c) /\ Congruent(b * c, a * c)
  BY CongruentMod, CongruentSym, CongruentMul

(* Coordinates computed with a Z that is congruent to z.                   *)
LEMMA AtOf ==
  ASSUME NEW X \in Int, NEW Y \in Int, NEW Z \in Int, NEW x \in Int, NEW y \in Int,
         NEW z \in Int, Congruent(Z, z), Congruent(X, x * (z * z)), Congruent(Y, y * (z * z * z))
  PROVE  At(X, Y, Z, x, y)
  <1>1. z * z \in Int /\ Z * Z \in Int /\ z * z * z \in Int /\ Z * Z * Z \in Int
    OBVIOUS
  <1>2. Congruent(z * z, Z * Z)
    BY CongruentSym, CongruentMul
  <1>3. Congruent(z * z * z, Z * Z * Z)
    BY <1>1, <1>2, CongruentSym, CongruentMul
  <1> DEFINE z2 == z * z  Z2 == Z * Z  z3 == z * z * z  ZC == Z * Z * Z
  <1>4. x * Z * Z = Z2 * x /\ y * Z * Z * Z = ZC * y /\ x * z2 = z2 * x /\ y * z3 = z3 * y
    OBVIOUS
  <1> HIDE DEF z2, Z2, z3, ZC
  <1>5. Congruent(z2 * x, Z2 * x) /\ Congruent(z3 * y, ZC * y)
    BY <1>1, <1>2, <1>3, CongruentTimes DEF z2, Z2, z3, ZC
  <1>6. Congruent(X, z2 * x) /\ Congruent(Y, z3 * y)
    BY <1>4 DEF z2, z3
  <1>7. z2 * x \in Int /\ Z2 * x \in Int /\ z3 * y \in Int /\ ZC * y \in Int
    BY <1>1 DEF z2, Z2, z3, ZC
  <1>8. Congruent(X, Z2 * x) /\ Congruent(Y, ZC * y)
    BY <1>5, <1>6, <1>7, CongruentTrans
  <1> QED BY <1>4, <1>8 DEF At

(* Doubling: with the slope l of the tangent at <<x, y>> the coordinates   *)
(* are those of the third point of the curve on it, reflected.             *)
LEMMA TangentFormula ==
  ASSUME NEW x \in Int, NEW y \in Int, NEW l \in Int, NEW X \in Int, NEW Y \in Int,
         NEW Z \in Int, At(X, Y, Z, x, y), Congruent(2 * y * l, 3 * x * x + A),
         NEW S \in Int, NEW M \in Int, NEW X3 \in Int, NEW Y3 \in Int, NEW ZN \in Int,
         Congruent(S, 4 * X * Y * Y), Congruent(M, 3 * X * X + A * Z * Z * Z * Z),
         Congruent(X3, M * M - 2 * S), Congruent(Y3, M * (S - X3) - 8 * Y * Y * Y * Y),
         Congruent(ZN, 2 * Y * Z)
  PROVE  At(X3, Y3, ZN, l * l - 2 * x, l * (x - (l * l - 2 * x)) - y)
  <1> DEFINE z  == 2 * Y * Z
             x3 == l * l - 2 * x
  <1>0. A \in Int /\ P \in Int /\ z \in Int /\ x3 \in Int
    BY PFacts
  <1>1. Congruent(X, x * Z * Z) /\ Congruent(Y, y * Z * Z * Z)
    BY DEF At
  <1>2. Congruent(M, l * z)
    <2> DEFINE a == X * X  b == (x * Z * Z) * (x * Z * Z)  w == Z * Z * Z * Z
               u == 2 * y * l  v == 3 * x * x + A  c == y * Z * Z * Z  d == 2 * l * Z
    <2>0. /\ a \in Int /\ b \in Int /\ w \in Int /\ u \in Int /\ v \in Int /\ c \in Int
          /\ d \in Int /\ A * w \in Int
      BY <1>0
    <2>1. Congruent(a, b)
      BY <1>1, CongruentMul
    <2>2. 3 * X * X + A * Z * Z * Z * Z = 3 * a + A * w /\ 3 * b + A * w = v * w
      BY <1>0
    <2>3. u * w = c * d /\ Y * d = l * z
      OBVIOUS
    <2>4. Congruent(u, v) /\ Congruent(Y, c)
      BY <1>1
    <2> HIDE DEF a, b, c, d, u, v, w, z
    <2>5. Congruent(3 * a + A * w, 3 * b + A * w)
      <3>1. Congruent(a * 3, b * 3)
        BY <2>0, <2>1, CongruentTimes
      <3>2. a * 3 = 3 * a /\ b * 3 = 3 * b /\ Congruent(A * w, A * w)
        BY <2>0, CongruentMod
      <3> QED BY <2>0, <3>1, <3>2, CongruentAdd, 3 * a \in Int, 3 * b \in Int
    <2>6. Congruent(v * w, u * w) /\ Congruent(c * d, Y * d)
      BY <2>0, <2>4, CongruentTimes
    <2>7. /\ 3 * a + A * w \in Int /\ v * w \in Int /\ c * d \in Int /\ l * z \in Int
      BY <1>0, <2>0
    <2>8. Congruent(M, 3 * a + A * w) /\ Congruent(3 * a + A * w, v * w)
      BY <2>2, <2>5
    <2>9. Congruent(v * w, c * d) /\ Congruent(c * d, l * z)
      BY <2>3, <2>6
    <2> QED BY <2>7, <2>8, <2>9, CongruentTrans
  <1>3. Congruent(S, x * (z * z))
    <2> DEFINE a == x * Z * Z  b == 4 * Y * Y
    <2>1. a \in Int /\ b \in Int /\ X * b \in Int /\ a * b \in Int /\ Congruent(X, a)
      BY <1>1
    <2>2. 4 * X * Y * Y = X * b /\ a * b = x * (z * z)
      OBVIOUS
    <2> HIDE DEF a, b, z
    <2>3. Congruent(X * b, a * b)
      BY <2>1, CongruentTimes
    <2>4. Congruent(S, X * b)
      BY <2>2
    <2>5. Congruent(S, a * b)
      BY <2>1, <2>3, <2>4, CongruentTrans
    <2> QED BY <2>2, <2>5
  <1>4. Congruent(X3, x3 * (z * z))
    <2> DEFINE a == l * z  b == x * (z * z)  u == M * M  v == a * a
    <2>1. /\ a \in Int /\ b \in Int /\ u \in Int /\ v \in Int /\ Congruent(M, a)
          /\ Congruent(S, b)
      BY <1>0, <1>2, <1>3
    <2>2. v - 2 * b = x3 * (z * z)
      <3> HIDE DEF z
      <3> QED BY <1>0
    <2>3. Congruent(u, v)
      BY <2>1, CongruentMul
    <2> HIDE DEF a, b, z, x3
    <2>4. Congruent(2 * S, 2 * b)
      <3>1. Congruent(S * 2, b * 2)
        BY <2>1, CongruentTimes
      <3>2. S * 2 = 2 * S /\ b * 2 = 2 * b
        BY <2>1
      <3> QED BY <3>1, <3>2
    <2> HIDE DEF u, v
    <2>5. Congruent(u - 2 * S, v - 2 * b)
      BY <2>1, <2>3, <2>4, CongruentAdd, 2 * S \in Int, 2 * b \in Int
    <2>6. Congruent(X3, u - 2 * S)
      BY DEF u
    <2>7. Congruent(X3, v - 2 * b)
      BY <2>1, <2>5, <2>6, CongruentTrans, u - 2 * S \in Int, v - 2 * b \in Int
    <2> QED BY <2>2, <2>7
  <1>5. Congruent(Y3, (l * (x - x3) - y) * (z * z * z))
    <2> DEFINE a == l * z  b == x * (z * z)  c == x3 * (z * z)  d == 8 * Y * Y * Y
               e == y * Z * Z * Z  u == S - X3  v == b - c
    <2>1. /\ a \in Int /\ b \in Int /\ c \in Int /\ d \in Int /\ e \in Int /\ u \in Int
          /\ v \in Int
      BY <1>0
    <2>2. /\ 8 * Y * Y * Y * Y = Y * d /\ e * d = y * (z * z * z)
      OBVIOUS
    <2>3. a * v - y * (z * z * z) = (l * (x - x3) - y) * (z * z * z)
      <3> HIDE DEF z, x3
      <3> QED BY <1>0
    <2>4. Congruent(Y, e)
      BY <1>1
    <2>5. Congruent(u, v)
      BY <1>3, <1>4, <2>1, CongruentAdd
    <2> HIDE DEF a, b, c, d, e, u, v, z, x3
    <2>6. Congruent(Y * d, e * d)
      BY <2>1, <2>4, CongruentTimes
    <2>7. Congruent(M * u, a * v)
      BY <1>2, <2>1, <2>5, CongruentMul DEF a
    <2>8. Congruent(M * u - Y * d, a * v - e * d)
      BY <2>1, <2>6, <2>7, CongruentAdd, M * u \in Int, a * v \in Int, Y * d \in Int, e * d \in Int
    <2>9. Congruent(Y3, M * u - Y * d)
      BY <2>2 DEF u
    <2>10. Congruent(Y3, a * v - e * d)
      BY <2>1, <2>8, <2>9, CongruentTrans, M * u - Y * d \in Int, a * v - e * d \in Int
    <2> QED BY <2>2, <2>3, <2>10
  <1>6. Congruent(ZN, z) /\ l * (x - x3) - y \in Int
    <2> HIDE DEF x3
    <2> QED BY <1>0
  <1> DEFINE y3 == l * (x - x3) - y
  <1>7. Congruent(Y3, y3 * (z * z * z)) /\ y3 \in Int
    BY <1>5, <1>6
  <1>8. At(X3, Y3, ZN, x3, y3)
    <2> HIDE DEF x3, y3, z
    <2> QED BY <1>0, <1>4, <1>6, <1>7, AtOf
  <1> QED BY <1>8

(* Addition: with the slope l of the chord through <<x1, y1>> and          *)
(* <<x2, y2>>.  W is the product of the denominators; c is 2 where the     *)
(* formula doubles Z, and 1 in _add_with_z_eq.                             *)
LEMMA ChordFormula ==
  ASSUME NEW x1 \in Int, NEW y1 \in Int, NEW x2 \in Int, NEW y2 \in Int, NEW l \in Int,
         NEW U \in Int, NEW S \in Int, NEW W \in Int, NEW H \in Int, NEW R \in Int,
         NEW c \in Int, NEW X3 \in Int, NEW Y3 \in Int, NEW ZN \in Int,
         Congruent(l * (x2 - x1), y2 - y1), At(U, S, W, x1, y1),
         At(H, R, W, x2 - x1, y2 - y1),
         Congruent(X3, c * c * (R * R - H * H * H - 2 * U * H * H)),
         Congruent(Y3, c * R * (c * c * U * H * H - X3) - c * c * c * S * H * H * H),
         Congruent(ZN, c * W * H)
  PROVE  At(X3, Y3, ZN, l * l - x1 - x2, l * (x1 - (l * l - x1 - x2)) - y1)
  <1> DEFINE z  == c * W * H
             x3 == l * l - x1 - x2
             y3 == l * (x1 - x3) - y1
             dx == x2 - x1
             dy == y2 - y1
  <1>0. z \in Int /\ x3 \in Int /\ dx \in Int /\ dy \in Int
    OBVIOUS
  <1>1. /\ Congruent(U, x1 * W * W) /\ Congruent(S, y1 * W * W * W)
        /\ Congruent(H, dx * W * W) /\ Congruent(R, dy * W * W * W)
    BY DEF At
  <1>2. Congruent(R, l * H * W)
    <2> DEFINE a == l * dx  w == W * W * W  e == dx * W * W  d == l * W
    <2>1. a \in Int /\ w \in Int /\ e \in Int /\ d \in Int /\ Congruent(dy, a) /\ Congruent(e, H)
      BY <1>0, <1>1, CongruentSym
    <2>2. dy * W * W * W = dy * w /\ a * w = e * d /\ H * d = l * H * W
      <3> HIDE DEF dx, dy
      <3> QED BY <1>0
    <2>3. Congruent(R, dy * w)
      BY <1>1, <2>2
    <2> HIDE DEF a, w, e, d, dx, dy
    <2>4. Congruent(dy * w, a * w) /\ Congruent(e * d, H * d)
      BY <1>0, <2>1, CongruentTimes
    <2>5. dy * w \in Int /\ a * w \in Int /\ H * d \in Int
      BY <1>0, <2>1
    <2>6. Congruent(R, a * w) /\ Congruent(a * w, H * d)
      BY <2>2, <2>3, <2>4, <2>5, CongruentTrans
    <2> QED BY <2>2, <2>5, <2>6, CongruentTrans
  <1>3. Congruent(X3, x3 * (z * z))
    <2> DEFINE a == l * H * W  b == x1 * W * W  e == dx * W * W  h == H * H
               t1 == R * R - H * h - 2 * (U * h)  t2 == a * a - e * h - 2 * (b * h)  k == c * c
    <2>1. /\ a \in Int /\ b \in Int /\ e \in Int /\ h \in Int /\ k \in Int
      BY <1>0
    <2>2. c * c * (R * R - H * H * H - 2 * U * H * H) = t1 * k /\ t2 * k = x3 * (z * z)
      OBVIOUS
    <2>3. Congruent(U, b) /\ Congruent(H, e) /\ Congruent(R, a)
      BY <1>1, <1>2
    <2> HIDE DEF a, b, e, h, x3, z, k
    <2>4. /\ Congruent(R * R, a * a) /\ Congruent(H * h, e * h) /\ Congruent(U * h, b * h)
          /\ R * R \in Int /\ a * a \in Int /\ H * h \in Int /\ e * h \in Int /\ U * h \in Int
          /\ b * h \in Int
      <3>1. Congruent(R * R, a * a)
        BY <2>1, <2>3, CongruentMul
      <3>2. Congruent(H * h, e * h) /\ Congruent(U * h, b * h)
        BY <2>1, <2>3, CongruentTimes
      <3> QED BY <2>1, <3>1, <3>2
    <2>5. Congruent(R * R - H * h, a * a - e * h) /\ Congruent((U * h) * 2, (b * h) * 2)
      <3>1. Congruent(R * R - H * h, a * a - e * h)
        BY <2>4, CongruentAdd
      <3>2. Congruent((U * h) * 2, (b * h) * 2)
        BY <2>4, CongruentTimes
      <3> QED BY <3>1, <3>2
    <2>6. Congruent(R * R - H * h - (U * h) * 2, a * a - e * h - (b * h) * 2)
      <3>1. /\ R * R - H * h \in Int /\ a * a - e * h \in Int /\ (U * h) * 2 \in Int
            /\ (b * h) * 2 \in Int
        BY <2>4
      <3> QED BY <2>5, <3>1, CongruentAdd
    <2>7. Congruent(t1, t2) /\ t1 \in Int /\ t2 \in Int
      <3>1. (U * h) * 2 = 2 * (U * h) /\ (b * h) * 2 = 2 * (b * h)
        BY <2>4
      <3> QED BY <2>4, <2>6, <3>1
    <2> HIDE DEF t1, t2
    <2>8. Congruent(t1 * k, t2 * k)
      BY <2>1, <2>7, CongruentTimes
    <2>9. Congruent(X3, t1 * k)
      BY <2>2
    <2>10. Congruent(X3, t2 * k)
      BY <2>1, <2>7, <2>8, <2>9, CongruentTrans, t1 * k \in Int, t2 * k \in Int
    <2> QED BY <2>2, <2>10
  <1>4. Congruent(Y3, y3 * (z * z * z))
    <2> DEFINE a == l * H * W  b == x1 * W * W  e == y1 * W * W * W  h == c * c * H * H
               g == c * c * c * H * H * H  q == x3 * (z * z)
               u == U * h - X3  v == b * h - q
    <2>1. /\ a \in Int /\ b \in Int /\ e \in Int /\ h \in Int /\ g \in Int /\ q \in Int
      BY <1>0
    <2>2. /\ c * R * (c * c * U * H * H - X3) - c * c * c * S * H * H * H = (R * u) * c - S * g
          /\ (a * v) * c - e * g = y3 * (z * z * z)
      <3>1. c * R * (c * c * U * H * H - X3) - c * c * c * S * H * H * H = (R * u) * c - S * g
        OBVIOUS
      <3>2. (a * v) * c - e * g = y3 * (z * z * z)
        <4> HIDE DEF x3
        <4> QED BY <1>0
      <3> QED BY <3>1, <3>2
    <2>3. Congruent(U, b) /\ Congruent(S, e) /\ Congruent(R, a) /\ Congruent(X3, q)
      BY <1>1, <1>2, <1>3
    <2> HIDE DEF a, b, e, h, g, q, y3, z
    <2>4. Congruent(U * h, b * h) /\ Congruent(S * g, e * g)
      BY <2>1, <2>3, CongruentTimes
    <2>5. U * h \in Int /\ b * h \in Int /\ S * g \in Int /\ e * g \in Int
      BY <2>1
    <2>6. Congruent(u, v) /\ u \in Int /\ v \in Int
      BY <2>1, <2>3, <2>4, <2>5, CongruentAdd
    <2> HIDE DEF u, v
    <2>7. Congruent(R * u, a * v) /\ R * u \in Int /\ a * v \in Int
      BY <2>1, <2>3, <2>6, CongruentMul
    <2>8. Congruent((R * u) * c, (a * v) * c) /\ (R * u) * c \in Int /\ (a * v) * c \in Int
      BY <2>7, CongruentTimes
    <2>9. Congruent((R * u) * c - S * g, (a * v) * c - e * g)
      BY <2>4, <2>5, <2>8, CongruentAdd
    <2>10. Congruent(Y3, (R * u) * c - S * g)
      BY <2>2
    <2>11. Congruent(Y3, (a * v) * c - e * g)
      BY <2>5, <2>8, <2>9, <2>10, CongruentTrans, (R * u) * c - S * g \in Int,
         (a * v) * c - e * g \in Int
    <2> QED BY <2>2, <2>11
  <1>5. y3 \in Int /\ Congruent(ZN, z)
    BY <1>0
  <1>6. At(X3, Y3, ZN, x3, y3)
    <2> HIDE DEF x3, y3, z
    <2> QED BY <1>0, <1>3, <1>4, <1>5, AtOf
  <1> QED BY <1>6

----------------------------------------------------------------------------
(* The formulas of the code are these, whatever they reduce.               *)
TangentOf(t, X, Y, Z) ==
    /\ t \in Coordinates
    /\ \E S, M \in Int :
         /\ Congruent(S, 4 * X * Y * Y) /\ Congruent(M, 3 * X * X + A * Z * Z * Z * Z)
         /\ Congruent(t[1], M * M - 2 * S)
         /\ Congruent(t[2], M * (S - t[1]) - 8 * Y * Y * Y * Y)
         /\ Congruent(t[3], 2 * Y * Z)

ChordOf(t, U, S, W, H, R, c) ==
    /\ t \in Coordinates
    /\ Congruent(t[1], c * c * (R * R - H * H * H - 2 * U * H * H))
    /\ Congruent(t[2], c * R * (c * c * U * H * H - t[1]) - c * c * c * S * H * H * H)
    /\ Congruent(t[3], c * W * H)

LEMMA CoordinatesAre ==
  ASSUME NEW t \in Coordinates
  PROVE  /\ t = <<t[1], t[2], t[3]>>
         /\ t[1] \in Field /\ t[2] \in Field /\ t[3] \in Field
         /\ t[1] \in Int /\ t[2] \in Int /\ t[3] \in Int
  BY PFacts DEF Coordinates, Field

(* What doubling calls S.                                                  *)
LEMMA DoubleS ==
  ASSUME NEW X \in Int, NEW Y \in Int, NEW XX \in Int, NEW YY \in Int, NEW YYYY \in Int,
         NEW S \in Int, Congruent(XX, X * X), Congruent(YY, Y * Y), Congruent(YYYY, YY * YY),
         Congruent(S, 2 * ((X + YY) * (X + YY) - XX - YYYY))
  PROVE  Congruent(S, 4 * X * Y * Y) /\ Congruent(8 * YYYY, 8 * Y * Y * Y * Y)
  <1> DEFINE a == X * X  b == Y * Y  d == YY * YY  e == b * b
  <1>0. a \in Int /\ b \in Int /\ d \in Int /\ e \in Int
    OBVIOUS
  <1>1. Congruent(XX + YYYY, a + d)
    BY <1>0, CongruentAdd
  <1>2. Congruent((XX + YYYY) * 2, (a + d) * 2)
    <2> DEFINE p == XX + YYYY  q == a + d
    <2>1. p \in Int /\ q \in Int /\ Congruent(p, q)
      BY <1>0, <1>1
    <2> HIDE DEF p, q
    <2>2. Congruent(p * 2, q * 2)
      BY <2>1, CongruentTimes
    <2> QED BY <2>2 DEF p, q
  <1> DEFINE u == (X + YY) * (X + YY) * 2  v == (XX + YYYY) * 2  w == (a + d) * 2
  <1>3. u \in Int /\ v \in Int /\ w \in Int /\ Congruent(u, u)
    BY <1>0, CongruentMod
  <1>4. Congruent(u - v, u - w)
    <2> HIDE DEF u, v, w
    <2>1. Congruent(v, w)
      BY <1>2 DEF v, w
    <2> QED BY <1>3, <2>1, CongruentAdd
  <1>5. 2 * ((X + YY) * (X + YY) - XX - YYYY) = u - v /\ u - w = YY * (4 * X)
    OBVIOUS
  <1>6. b * (4 * X) = 4 * X * Y * Y /\ e * 8 = 8 * Y * Y * Y * Y /\ 8 * YYYY = YYYY * 8
    OBVIOUS
  <1>7. 4 * X \in Int /\ u - v \in Int /\ u - w \in Int /\ Congruent(YY, b)
    BY <1>3
  <1>8. Congruent(S, u - v)
    BY <1>5
  <1> HIDE DEF u, v, w, b
  <1>9. Congruent(YY * (4 * X), b * (4 * X))
    <2> DEFINE m == 4 * X
    <2> HIDE DEF m
    <2>1. m \in Int
      BY <1>7 DEF m
    <2> QED BY <1>0, <1>7, <2>1, CongruentTimes DEF m
  <1>10. Congruent(S, u - w)
    BY <1>4, <1>7, <1>8, CongruentTrans
  <1>11. b * (4 * X) \in Int
    BY <1>0
  <1>12. Congruent(S, b * (4 * X))
    <2>1. Congruent(u - w, b * (4 * X))
      BY <1>5, <1>9
    <2> QED BY <1>7, <1>10, <1>11, <2>1, CongruentTrans
  <1>13. Congruent(d, e)
    BY <1>0, <1>7, CongruentMul
  <1> HIDE DEF d, e
  <1>14. Congruent(YYYY, e)
    <2>1. Congruent(YYYY, d)
      BY DEF d
    <2> QED BY <1>0, <1>13, <2>1, CongruentTrans
  <1>15. Congruent(YYYY * 8, e * 8)
    BY <1>0, <1>14, CongruentTimes
  <1> QED BY <1>6, <1>12, <1>15

LEMMA DoubleWithZ1Is ==
  ASSUME NEW X1 \in Int, NEW Y1 \in Int
  PROVE  IF Y1 % P = 0 THEN DoubleWithZ1(X1, Y1) = <<0, 0, 0>>
         ELSE TangentOf(DoubleWithZ1(X1, Y1), X1, Y1, 1)
  <1> DEFINE xx == X1 * X1
             yy == Y1 * Y1
             XX == xx % P
             YY == yy % P
             yyyy == YY * YY
             YYYY == yyyy % P
             s == 2 * ((X1 + YY) * (X1 + YY) - XX - YYYY)
             S == s % P
             M == 3 * XX + A
             t == M * M - 2 * S
             T == t % P
             Y3 == M * (S - T) - 8 * YYYY
             r == DoubleWithZ1(X1, Y1)
  <1>1. /\ XX \in Int /\ YY \in Int /\ xx \in Int /\ yy \in Int
        /\ Congruent(XX, xx) /\ Congruent(YY, yy)
    BY CongruentMod
  <1>2. r = IF YY = 0 THEN <<0, 0, 0>> ELSE <<t % P, Y3 % P, (2 * Y1) % P>>
    BY DEF DoubleWithZ1
  <1>3. YY = 0 <=> Y1 % P = 0
    <2>1. ASSUME YY = 0 PROVE Y1 % P = 0
      BY <2>1, PFacts, PrimeDivides
    <2>2. ASSUME Y1 % P = 0 PROVE YY = 0
      <3>1. Congruent(Y1, 0)
        BY <2>2, CongruentZero
      <3>2. Congruent(yy, 0)
        BY <3>1, CongruentMul, 0 * 0 = 0, 0 \in Int
      <3> QED BY <1>1, <3>2, CongruentZero
    <2> QED BY <2>1, <2>2
  <1>4. CASE YY = 0
    BY <1>2, <1>3, <1>4
  <1>5. CASE YY # 0
    <2>1. r \in Coordinates
      BY DoubleWithZ1Type
    <2>2. r[1] = T /\ r[2] = Y3 % P /\ r[3] = (2 * Y1) % P
      BY <1>2, <1>5
    <2> HIDE DEF XX, YY, r
    <2>3. yyyy \in Int /\ YYYY \in Int /\ Congruent(YYYY, yyyy)
      BY <1>1, CongruentMod
    <2> HIDE DEF YYYY
    <2>4. s \in Int /\ S \in Int /\ Congruent(S, s)
      BY <1>1, <2>3, CongruentMod
    <2>5. Congruent(S, 4 * X1 * Y1 * Y1) /\ Congruent(8 * YYYY, 8 * Y1 * Y1 * Y1 * Y1)
      <3> HIDE DEF S
      <3> QED BY <1>1, <2>3, <2>4, DoubleS
    <2> HIDE DEF s, S, yyyy
    <2>6. Congruent(M, 3 * X1 * X1 + A * 1 * 1 * 1 * 1) /\ M \in Int
      <3>1. Congruent(XX * 3, xx * 3)
        BY <1>1, CongruentTimes
      <3> HIDE DEF xx
      <3>2. Congruent(XX * 3 + A, xx * 3 + A)
        BY <1>1, <3>1, PFacts, CongruentAdd, CongruentMod, XX * 3 \in Int, xx * 3 \in Int
      <3>3. XX * 3 + A = M /\ xx * 3 + A = 3 * X1 * X1 + A * 1 * 1 * 1 * 1 /\ M \in Int
        BY <1>1, PFacts DEF xx
      <3> QED BY <3>2, <3>3
    <2> HIDE DEF M
    <2>7. t \in Int /\ T \in Int /\ Congruent(T, t)
      BY <2>4, <2>6, CongruentMod
    <2> HIDE DEF T
    <2>8. Y3 \in Int /\ Congruent(Y3 % P, Y3)
      BY <2>3, <2>4, <2>6, <2>7, CongruentMod
    <2>9. Congruent(Y3 % P, M * (S - T) - 8 * Y1 * Y1 * Y1 * Y1)
      <3> DEFINE a == M * (S - T)  b == 8 * YYYY  d == 8 * Y1 * Y1 * Y1 * Y1  y == Y3 % P
      <3>1. a \in Int /\ b \in Int /\ d \in Int /\ Congruent(b, d) /\ Congruent(a, a) /\ y \in Int
        BY <2>3, <2>4, <2>5, <2>6, <2>7, <2>8, CongruentMod
      <3>2. Congruent(y, a - b)
        BY <2>8
      <3> HIDE DEF a, b, d, y
      <3>3. Congruent(a - b, a - d)
        BY <3>1, CongruentAdd
      <3>4. Congruent(y, a - d)
        BY <3>1, <3>2, <3>3, CongruentTrans, a - b \in Int, a - d \in Int
      <3> QED BY <3>4 DEF a, d, y
    <2>10. Congruent((2 * Y1) % P, 2 * Y1 * 1)
      <3>1. Congruent((2 * Y1) % P, 2 * Y1)
        BY CongruentMod
      <3> QED BY <3>1, 2 * Y1 * 1 = 2 * Y1
    <2>11. /\ Congruent(r[1], M * M - 2 * S)
           /\ Congruent(r[2], M * (S - r[1]) - 8 * Y1 * Y1 * Y1 * Y1)
           /\ Congruent(r[3], 2 * Y1 * 1)
      BY <2>2, <2>7, <2>9, <2>10
    <2>12. TangentOf(r, X1, Y1, 1)
      BY <2>1, <2>4, <2>5, <2>6, <2>11, Zenon DEF TangentOf
    <2> QED BY <1>3, <1>5, <2>12 DEF r
  <1> QED BY <1>4, <1>5

LEMMA DoubleTripleIs ==
  ASSUME NEW X1 \in Int, NEW Y1 \in Int, NEW Z1 \in Int, Z1 # 0
  PROVE  IF Y1 % P = 0 THEN DoubleTriple(X1, Y1, Z1) = <<0, 0, 0>>
         ELSE TangentOf(DoubleTriple(X1, Y1, Z1), X1, Y1, Z1)
  <1> DEFINE xx == X1 * X1
             yy == Y1 * Y1
             zz == Z1 * Z1
             XX == xx % P
             YY == yy % P
             ZZ == zz % P
             yyyy == YY * YY
             YYYY == yyyy % P
             s == 2 * ((X1 + YY) * (X1 + YY) - XX - YYYY)
             S == s % P
             m == 3 * XX + A * ZZ * ZZ
             M == m % P
             t == M * M - 2 * S
             T == t % P
             Y3 == M * (S - T) - 8 * YYYY
             Zs == (Y1 + Z1) * (Y1 + Z1) - YY - ZZ
             r == DoubleTriple(X1, Y1, Z1)
  <1>1. CASE Z1 = 1
    <2>1. r = DoubleWithZ1(X1, Y1)
      BY <1>1 DEF DoubleTriple
    <2> QED BY <1>1, <2>1, DoubleWithZ1Is
  <1> SUFFICES ASSUME Z1 # 1
               PROVE  IF Y1 % P = 0 THEN r = <<0, 0, 0>> ELSE TangentOf(r, X1, Y1, Z1)
    BY <1>1
  <1>2. /\ XX \in Int /\ YY \in Int /\ ZZ \in Int /\ xx \in Int /\ yy \in Int /\ zz \in Int
        /\ Congruent(XX, xx) /\ Congruent(YY, yy) /\ Congruent(ZZ, zz)
    BY CongruentMod
  <1>3. r = IF YY = 0 THEN <<0, 0, 0>> ELSE <<t % P, Y3 % P, Zs % P>>
    BY DEF DoubleTriple
  <1>4. YY = 0 <=> Y1 % P = 0
    <2>1. ASSUME YY = 0 PROVE Y1 % P = 0
      BY <2>1, PFacts, PrimeDivides
    <2>2. ASSUME Y1 % P = 0 PROVE YY = 0
      <3>1. Congruent(Y1, 0)
        BY <2>2, CongruentZero
      <3>2. Congruent(yy, 0)
        BY <3>1, CongruentMul, 0 * 0 = 0, 0 \in Int
      <3> QED BY <1>2, <3>2, CongruentZero
    <2> QED BY <2>1, <2>2
  <1>5. CASE YY = 0
    BY <1>3, <1>4, <1>5
  <1>6. CASE YY # 0
    <2>1. r \in Coordinates
      BY DoubleTripleType
    <2>2. r[1] = T /\ r[2] = Y3 % P /\ r[3] = Zs % P
      BY <1>3, <1>6
    <2> HIDE DEF XX, YY, ZZ, r
    <2>3. yyyy \in Int /\ YYYY \in Int /\ Congruent(YYYY, yyyy)
      BY <1>2, CongruentMod
    <2> HIDE DEF YYYY
    <2>4. s \in Int /\ S \in Int /\ Congruent(S, s)
      BY <1>2, <2>3, CongruentMod
    <2>5. Congruent(S, 4 * X1 * Y1 * Y1) /\ Congruent(8 * YYYY, 8 * Y1 * Y1 * Y1 * Y1)
      <3> HIDE DEF S
      <3> QED BY <1>2, <2>3, <2>4, DoubleS
    <2> HIDE DEF s, S, yyyy
    <2>6. Congruent(m, 3 * X1 * X1 + A * Z1 * Z1 * Z1 * Z1) /\ m \in Int
      <3> DEFINE z4 == zz * zz  Z4 == ZZ * ZZ
      <3>1. /\ z4 \in Int /\ Z4 \in Int /\ m = XX * 3 + Z4 * A /\ m \in Int
            /\ 3 * X1 * X1 + A * Z1 * Z1 * Z1 * Z1 = xx * 3 + z4 * A
        BY <1>2, PFacts
      <3>2. Congruent(Z4, z4)
        BY <1>2, CongruentMul
      <3> HIDE DEF xx, zz, z4, Z4, m
      <3>3. Congruent(XX * 3, xx * 3)
        BY <1>2, CongruentTimes
      <3>4. Congruent(Z4 * A, z4 * A)
        BY <3>1, <3>2, PFacts, CongruentTimes
      <3>5. XX * 3 \in Int /\ xx * 3 \in Int /\ Z4 * A \in Int /\ z4 * A \in Int
        BY <1>2, <3>1, PFacts
      <3>6. Congruent(XX * 3 + Z4 * A, xx * 3 + z4 * A)
        BY <3>3, <3>4, <3>5, CongruentAdd
      <3> QED BY <3>1, <3>6
    <2>7. M \in Int /\ Congruent(M, 3 * X1 * X1 + A * Z1 * Z1 * Z1 * Z1)
      <3> DEFINE b == 3 * X1 * X1 + A * Z1 * Z1 * Z1 * Z1
      <3>1. b \in Int /\ Congruent(m, b) /\ m \in Int /\ Congruent(M, m) /\ M \in Int
        BY <2>6, PFacts, CongruentMod
      <3> HIDE DEF b, m, M
      <3>2. Congruent(M, b)
        BY <3>1, CongruentTrans
      <3> QED BY <3>1, <3>2 DEF b
    <2> HIDE DEF m, M
    <2>8. t \in Int /\ T \in Int /\ Congruent(T, t)
      BY <2>4, <2>7, CongruentMod
    <2> HIDE DEF T
    <2>9. Y3 \in Int /\ Congruent(Y3 % P, Y3)
      BY <2>3, <2>4, <2>7, <2>8, CongruentMod
    <2>10. Congruent(Y3 % P, M * (S - T) - 8 * Y1 * Y1 * Y1 * Y1)
      <3> DEFINE a == M * (S - T)  b == 8 * YYYY  d == 8 * Y1 * Y1 * Y1 * Y1  y == Y3 % P
      <3>1. a \in Int /\ b \in Int /\ d \in Int /\ Congruent(b, d) /\ Congruent(a, a) /\ y \in Int
        BY <2>3, <2>4, <2>5, <2>7, <2>8, <2>9, CongruentMod
      <3>2. Congruent(y, a - b)
        BY <2>9
      <3> HIDE DEF a, b, d, y
      <3>3. Congruent(a - b, a - d)
        BY <3>1, CongruentAdd
      <3>4. Congruent(y, a - d)
        BY <3>1, <3>2, <3>3, CongruentTrans, a - b \in Int, a - d \in Int
      <3> QED BY <3>4 DEF a, d, y
    <2>11. Congruent(Zs % P, 2 * Y1 * Z1)
      <3> DEFINE a == (Y1 + Z1) * (Y1 + Z1)
      <3>1. a \in Int /\ Zs \in Int /\ Zs = a - (YY + ZZ) /\ 2 * Y1 * Z1 = a - (yy + zz)
        BY <1>2
      <3> HIDE DEF a, yy, zz, Zs
      <3>2. Congruent(YY + ZZ, yy + zz) /\ Congruent(a, a)
        BY <1>2, <3>1, CongruentAdd, CongruentMod
      <3>3. Congruent(a - (YY + ZZ), a - (yy + zz))
        BY <1>2, <3>1, <3>2, CongruentAdd, YY + ZZ \in Int, yy + zz \in Int
      <3>4. Congruent(Zs, 2 * Y1 * Z1)
        BY <3>1, <3>3
      <3>5. Congruent(Zs % P, Zs) /\ Zs % P \in Int /\ 2 * Y1 * Z1 \in Int
        BY <3>1, CongruentMod
      <3> QED BY <3>1, <3>4, <3>5, CongruentTrans
    <2>12. /\ Congruent(r[1], M * M - 2 * S)
           /\ Congruent(r[2], M * (S - r[1]) - 8 * Y1 * Y1 * Y1 * Y1)
           /\ Congruent(r[3], 2 * Y1 * Z1)
      BY <2>2, <2>8, <2>10, <2>11
    <2>13. TangentOf(r, X1, Y1, Z1)
      BY <2>1, <2>4, <2>5, <2>7, <2>12, Zenon DEF TangentOf
    <2> QED BY <1>4, <1>6, <2>13
  <1> QED BY <1>5, <1>6

(* The formulas that work with 4 * H * H and 2 * R.                        *)
LEMMA ChordDoubled ==
  ASSUME NEW t \in Coordinates, NEW U \in Int, NEW S \in Int, NEW W \in Int, NEW H \in Int,
         NEW R \in Int, NEW I \in Int, NEW J \in Int, NEW r \in Int, NEW V \in Int,
         Congruent(I, 4 * H * H), Congruent(J, H * I), Congruent(r, 2 * R), Congruent(V, U * I),
         Congruent(t[1], r * r - J - 2 * V), Congruent(t[2], r * (V - t[1]) - 2 * S * J),
         Congruent(t[3], 2 * W * H)
  PROVE  ChordOf(t, U, S, W, H, R, 2)
  <1> DEFINE i == 4 * H * H  j == H * i  q == 2 * R  v == U * i  X3 == t[1]  Y3 == t[2]
  <1>0. /\ i \in Int /\ j \in Int /\ q \in Int /\ v \in Int /\ X3 \in Int /\ Y3 \in Int
        /\ Congruent(I, i) /\ Congruent(r, q)
    BY CoordinatesAre
  <1>1. /\ 2 * 2 * (R * R - H * H * H - 2 * U * H * H) = q * q - j - v * 2
        /\ 2 * R * (2 * 2 * U * H * H - X3) - 2 * 2 * 2 * S * H * H * H
             = q * (v - X3) - j * (2 * S)
        /\ H * I = I * H /\ U * I = I * U /\ H * i = i * H /\ U * i = i * U
    <2> HIDE DEF X3
    <2> QED BY <1>0
  <1> HIDE DEF i, X3, Y3
  <1>2. Congruent(I * H, i * H) /\ Congruent(I * U, i * U)
    BY <1>0, CongruentTimes
  <1>3. Congruent(H * I, j) /\ Congruent(U * I, v)
    BY <1>1, <1>2
  <1>4. Congruent(J, j) /\ Congruent(V, v)
    BY <1>0, <1>3, CongruentTrans, H * I \in Int, U * I \in Int
  <1> HIDE DEF j, v, q
  <1>5. Congruent(X3, q * q - j - v * 2)
    <2>1. Congruent(r * r, q * q) /\ r * r \in Int /\ q * q \in Int
      BY <1>0, CongruentMul
    <2>2. Congruent(V * 2, v * 2) /\ V * 2 \in Int /\ v * 2 \in Int
      BY <1>0, <1>4, CongruentTimes
    <2>3. Congruent(r * r - J, q * q - j) /\ r * r - J \in Int /\ q * q - j \in Int
      BY <1>0, <1>4, <2>1, CongruentAdd
    <2>4. Congruent(r * r - J - V * 2, q * q - j - v * 2)
      BY <2>2, <2>3, CongruentAdd
    <2>5. Congruent(X3, r * r - J - V * 2)
      <3>1. V * 2 = 2 * V
        OBVIOUS
      <3> QED BY <3>1 DEF X3
    <2> QED BY <1>0, <2>2, <2>3, <2>4, <2>5, CongruentTrans, r * r - J - V * 2 \in Int,
               q * q - j - v * 2 \in Int
  <1>6. Congruent(Y3, q * (v - X3) - j * (2 * S))
    <2> DEFINE a == V - X3  b == v - X3  s == 2 * S
    <2>1. a \in Int /\ b \in Int /\ s \in Int /\ Congruent(X3, X3)
      BY <1>0, CongruentMod
    <2>2. Congruent(a, b)
      BY <1>0, <1>4, <2>1, CongruentAdd
    <2>3. 2 * S * J = J * s
      OBVIOUS
    <2> HIDE DEF a, b, s
    <2>4. Congruent(r * a, q * b) /\ r * a \in Int /\ q * b \in Int
      BY <1>0, <2>1, <2>2, CongruentMul
    <2>5. Congruent(J * s, j * s) /\ J * s \in Int /\ j * s \in Int
      BY <1>0, <1>4, <2>1, CongruentTimes
    <2>6. Congruent(r * a - J * s, q * b - j * s)
      BY <2>4, <2>5, CongruentAdd
    <2>7. Congruent(Y3, r * a - J * s)
      BY <2>3 DEF a, X3, Y3
    <2>8. Congruent(Y3, q * b - j * s)
      BY <1>0, <2>4, <2>5, <2>6, <2>7, CongruentTrans, r * a - J * s \in Int, q * b - j * s \in Int
    <2> QED BY <2>8 DEF b, s
  <1>7. /\ Congruent(X3, 2 * 2 * (R * R - H * H * H - 2 * U * H * H))
        /\ Congruent(Y3, 2 * R * (2 * 2 * U * H * H - X3) - 2 * 2 * 2 * S * H * H * H)
    BY <1>1, <1>5, <1>6
  <1> QED BY <1>7 DEF ChordOf, X3, Y3

(* What a remainder is congruent to.                                       *)
LEMMA ModTo ==
  ASSUME NEW a \in Int, NEW b \in Int, Congruent(a, b)
  PROVE  Congruent(a % P, b) /\ a % P \in Int
  BY CongruentMod, CongruentTrans

LEMMA AddWithZ1Is ==
  ASSUME NEW X1 \in Int, NEW Y1 \in Int, NEW X2 \in Int, NEW Y2 \in Int
  PROVE  IF X1 = X2 /\ Y1 = Y2 THEN AddWithZ1(X1, Y1, X2, Y2) = DoubleTriple(X1, Y1, 1)
         ELSE ChordOf(AddWithZ1(X1, Y1, X2, Y2), X1, Y1, 1, X2 - X1, Y2 - Y1, 2)
  <1> DEFINE H == X2 - X1
             R == Y2 - Y1
             i == 4 * H * H
             I == i % P
             J == H * I
             r == 2 * R
             V == X1 * I
             t == r * r - J - 2 * V
             X3 == t % P
             y == r * (V - X3) - 2 * Y1 * J
             a == AddWithZ1(X1, Y1, X2, Y2)
  <1>1. a = IF H = 0 /\ r = 0 THEN DoubleWithZ1(X1, Y1) ELSE <<X3, y % P, (2 * H) % P>>
    BY DEF AddWithZ1
  <1>2. H = 0 /\ r = 0 <=> X1 = X2 /\ Y1 = Y2
    OBVIOUS
  <1>3. a \in Coordinates
    BY AddWithZ1Type
  <1>4. CASE H = 0 /\ r = 0
    <2>1. DoubleTriple(X1, Y1, 1) = DoubleWithZ1(X1, Y1)
      BY DEF DoubleTriple
    <2> QED BY <1>1, <1>2, <1>4, <2>1
  <1>5. CASE ~ (H = 0 /\ r = 0)
    <2>1. a[1] = X3 /\ a[2] = y % P /\ a[3] = (2 * H) % P
      BY <1>1, <1>5
    <2>2. H \in Int /\ R \in Int /\ i \in Int /\ r \in Int /\ Congruent(r, r)
      BY CongruentMod
    <2> HIDE DEF a, H, R
    <2>3. I \in Int /\ Congruent(I, i)
      BY <2>2, CongruentMod
    <2> HIDE DEF I
    <2>4. J \in Int /\ V \in Int /\ Congruent(J, J) /\ Congruent(V, V)
      BY <2>2, <2>3, CongruentMod
    <2>5. t \in Int /\ Congruent(X3, t) /\ X3 \in Int
      BY <2>2, <2>4, CongruentMod
    <2> HIDE DEF X3
    <2>6. y \in Int /\ Congruent(y % P, y) /\ 2 * H \in Int /\ Congruent((2 * H) % P, 2 * H)
      BY <2>2, <2>4, <2>5, CongruentMod
    <2>7. 2 * 1 * H = 2 * H
      BY <2>2
    <2>8. Congruent(a[1], t) /\ Congruent(a[2], r * (V - a[1]) - 2 * Y1 * J)
          /\ Congruent(a[3], 2 * 1 * H)
      BY <2>1, <2>5, <2>6, <2>7
    <2>9. ChordOf(a, X1, Y1, 1, H, R, 2)
      BY <1>3, <2>2, <2>3, <2>4, <2>8, ChordDoubled, 1 \in Int
    <2> QED BY <1>2, <1>5, <2>9 DEF a, H, R
  <1> QED BY <1>4, <1>5

LEMMA SquareZero ==
  ASSUME NEW a \in Int
  PROVE  (a * a) % P = 0 <=> a % P = 0
  <1>1. ASSUME (a * a) % P = 0 PROVE a % P = 0
    BY <1>1, PFacts, PrimeDivides
  <1>2. ASSUME a % P = 0 PROVE (a * a) % P = 0
    <2>1. Congruent(a, 0)
      BY <1>2, CongruentZero
    <2>2. Congruent(a * a, 0)
      BY <2>1, CongruentMul, 0 * 0 = 0, 0 \in Int
    <2> QED BY <2>2, CongruentZero, a * a \in Int
  <1> QED BY <1>1, <1>2

LEMMA AddWithZEqIs ==
  ASSUME NEW X1 \in Int, NEW Y1 \in Int, NEW Z1 \in Int, NEW X2 \in Int, NEW Y2 \in Int
  PROVE  IF (X2 - X1) % P = 0 /\ (Y2 - Y1) % P = 0
         THEN AddWithZEq(X1, Y1, Z1, X2, Y2) = DoubleTriple(X1, Y1, Z1)
         ELSE ChordOf(AddWithZEq(X1, Y1, Z1, X2, Y2), X1, Y1, Z1, X2 - X1, Y2 - Y1, 1)
  <1> DEFINE H == X2 - X1
             R == Y2 - Y1
             h == H * H
             d == R * R
             E == h % P
             D == d % P
             f == X1 * E
             F == f % P
             C == X2 * E
             t == D - F - C
             X3 == t % P
             y == R * (F - X3) - Y1 * (C - F)
             z == Z1 * H
             a == AddWithZEq(X1, Y1, Z1, X2, Y2)
  <1>1. a = IF E = 0 /\ D = 0 THEN DoubleTriple(X1, Y1, Z1) ELSE <<X3, y % P, z % P>>
    BY DEF AddWithZEq
  <1>2. a \in Coordinates
    BY AddWithZEqType
  <1>3. H \in Int /\ R \in Int
    OBVIOUS
  <1>4. E = 0 <=> H % P = 0
    BY <1>3, SquareZero
  <1>5. D = 0 <=> R % P = 0
    BY <1>3, SquareZero
  <1>6. CASE E = 0 /\ D = 0
    BY <1>1, <1>4, <1>5, <1>6
  <1>7. CASE ~ (E = 0 /\ D = 0)
    <2>1. a[1] = X3 /\ a[2] = y % P /\ a[3] = z % P
      BY <1>1, <1>7
    <2>2. X2 = X1 + H
      OBVIOUS
    <2> HIDE DEF a, H, R
    <2>3. h \in Int /\ d \in Int /\ z \in Int /\ E \in Int /\ D \in Int
          /\ Congruent(E, h) /\ Congruent(D, d) /\ Congruent(z % P, z)
      BY <1>3, CongruentMod
    <2> HIDE DEF E, D
    <2>4. f \in Int /\ F \in Int /\ Congruent(F, f) /\ C \in Int
      BY <2>3, CongruentMod
    <2> DEFINE xh == X1 * h  ch == X2 * h
    <2>5. xh \in Int /\ ch \in Int
      BY <2>3
    <2>6. Congruent(F, xh)
      <3>1. E * X1 = f /\ h * X1 = xh
        BY <2>3
      <3>2. Congruent(E * X1, h * X1)
        <4> HIDE DEF h
        <4> QED BY <2>3, CongruentTimes
      <3> HIDE DEF f, xh
      <3>3. Congruent(f, xh)
        BY <3>1, <3>2
      <3> QED BY <2>4, <2>5, <3>3, CongruentTrans
    <2>7. Congruent(C, ch)
      <3>1. E * X2 = C /\ h * X2 = ch
        BY <2>3
      <3>2. Congruent(E * X2, h * X2)
        <4> HIDE DEF h
        <4> QED BY <2>3, CongruentTimes
      <3> QED BY <3>1, <3>2
    <2> HIDE DEF F, C
    <2>8. Congruent(t, d - xh - ch) /\ t \in Int
      <3> HIDE DEF d, xh, ch
      <3>1. Congruent(D - F, d - xh) /\ D - F \in Int /\ d - xh \in Int
        BY <2>3, <2>4, <2>5, <2>6, CongruentAdd
      <3> DEFINE p == D - F  q == d - xh
      <3>2. t = p - C /\ p \in Int /\ q \in Int /\ Congruent(p, q)
        BY <3>1
      <3> HIDE DEF p, q, t
      <3>3. Congruent(p - C, q - ch)
        BY <2>4, <2>5, <2>7, <3>2, CongruentAdd
      <3> QED BY <2>4, <3>2, <3>3 DEF q
    <2>9. Congruent(X3, d - xh - ch) /\ X3 \in Int
      <3>1. d - xh - ch \in Int
        BY <2>3, <2>5
      <3> HIDE DEF t, d, xh, ch
      <3> QED BY <2>8, <3>1, ModTo
    <2> HIDE DEF X3
    <2>10. y \in Int /\ Congruent(y, R * (xh - X3) - Y1 * (ch - xh))
      <3> DEFINE p == F - X3  p2 == xh - X3  q == C - F  q2 == ch - xh
      <3>1. p \in Int /\ p2 \in Int /\ q \in Int /\ q2 \in Int
        BY <2>4, <2>5, <2>9
      <3>2. Congruent(p, p2)
        <4> HIDE DEF xh
        <4> QED BY <2>4, <2>5, <2>6, <2>9, CongruentAdd, CongruentMod
      <3>3. Congruent(q, q2)
        <4> HIDE DEF xh, ch
        <4> QED BY <2>4, <2>5, <2>6, <2>7, CongruentAdd
      <3>4. y = p * R - q * Y1 /\ R * (xh - X3) - Y1 * (ch - xh) = p2 * R - q2 * Y1
        BY <1>3, <2>4, <2>5, <2>9
      <3> HIDE DEF p, p2, q, q2, y
      <3>5. Congruent(p * R, p2 * R)
        BY <1>3, <3>1, <3>2, CongruentTimes
      <3>6. Congruent(q * Y1, q2 * Y1)
        BY <3>1, <3>3, CongruentTimes
      <3>7. p * R \in Int /\ p2 * R \in Int /\ q * Y1 \in Int /\ q2 * Y1 \in Int
        BY <1>3, <3>1
      <3>8. Congruent(p * R - q * Y1, p2 * R - q2 * Y1)
        BY <3>5, <3>6, <3>7, CongruentAdd
      <3> QED BY <3>4, <3>7, <3>8
    <2>11. Congruent(y % P, R * (xh - X3) - Y1 * (ch - xh))
      <3>1. R * (xh - X3) - Y1 * (ch - xh) \in Int
        BY <1>3, <2>5, <2>9
      <3> HIDE DEF y, xh, ch
      <3> QED BY <2>10, <3>1, ModTo
    <2>12. /\ d - xh - ch = 1 * 1 * (R * R - H * H * H - 2 * X1 * H * H)
           /\ R * (xh - X3) - Y1 * (ch - xh)
                = 1 * R * (1 * 1 * X1 * H * H - X3) - 1 * 1 * 1 * Y1 * H * H * H
           /\ z = 1 * Z1 * H
      BY <1>3, <2>2, <2>9
    <2>13. /\ Congruent(a[1], 1 * 1 * (R * R - H * H * H - 2 * X1 * H * H))
           /\ Congruent(a[2], 1 * R * (1 * 1 * X1 * H * H - a[1]) - 1 * 1 * 1 * Y1 * H * H * H)
           /\ Congruent(a[3], 1 * Z1 * H)
      BY <2>1, <2>3, <2>9, <2>11, <2>12
    <2>14. ChordOf(a, X1, Y1, Z1, H, R, 1)
      BY <1>2, <2>13 DEF ChordOf
    <2> QED BY <1>4, <1>5, <1>7, <2>14 DEF a, H, R
  <1> QED BY <1>6, <1>7

(* Twice a number is 0 modulo P when the number is.                        *)
LEMMA TwiceZero ==
  ASSUME NEW a \in Int
  PROVE  (2 * a) % P = 0 <=> a % P = 0
  <1>1. 2 % P = 2
    BY PFacts, RemainderOfSmall
  <1>2. ASSUME (2 * a) % P = 0 PROVE a % P = 0
    <2> DEFINE two == 2
    <2>1. two \in Int /\ two % P # 0 /\ (two * a) % P = 0
      BY <1>1, <1>2
    <2> HIDE DEF two
    <2> QED BY <2>1, PFacts, PrimeDivides
  <1>3. ASSUME a % P = 0 PROVE (2 * a) % P = 0
    <2>1. Congruent(a * 2, 0 * 2)
      BY <1>3, CongruentZero, CongruentTimes, 0 \in Int, 2 \in Int
    <2>2. Congruent(2 * a, 0) /\ 2 * a \in Int
      BY <2>1
    <2> QED BY <2>2, CongruentZero
  <1> QED BY <1>2, <1>3

LEMMA AddWithZ21Is ==
  ASSUME NEW X1 \in Int, NEW Y1 \in Int, NEW Z1 \in Int, NEW X2 \in Int, NEW Y2 \in Int
  PROVE  LET H == X2 * Z1 * Z1 - X1
             R == Y2 * Z1 * Z1 * Z1 - Y1
         IN IF H % P = 0 /\ R % P = 0
            THEN AddWithZ21(X1, Y1, Z1, X2, Y2) = DoubleTriple(X2, Y2, 1)
            ELSE \E h \in Int : /\ Congruent(h, H)
                                /\ ChordOf(AddWithZ21(X1, Y1, Z1, X2, Y2), X1, Y1, Z1, h, R, 2)
  <1> DEFINE HH0 == X2 * Z1 * Z1 - X1
             R == Y2 * Z1 * Z1 * Z1 - Y1
             zz == Z1 * Z1
             Z1Z1 == zz % P
             u2 == X2 * Z1Z1
             U2 == u2 % P
             s2 == Y2 * Z1 * Z1Z1
             S2 == s2 % P
             h0 == U2 - X1
             H == h0 % P
             hh == H * H
             HH == hh % P
             i == 4 * HH
             I == i % P
             J == H * I
             r0 == 2 * (S2 - Y1)
             r == r0 % P
             V == X1 * I
             t == r * r - J - 2 * V
             X3 == t % P
             y == r * (V - X3) - 2 * Y1 * J
             z == (Z1 + H) * (Z1 + H) - Z1Z1 - HH
             a == AddWithZ21(X1, Y1, Z1, X2, Y2)
  <1>1. a = IF r = 0 /\ H = 0 THEN DoubleWithZ1(X2, Y2) ELSE <<X3, y % P, z % P>>
    BY DEF AddWithZ21
  <1>2. a \in Coordinates
    BY AddWithZ21Type
  <1>3. /\ HH0 \in Int /\ R \in Int /\ zz \in Int /\ Z1Z1 \in Int /\ Congruent(Z1Z1, zz)
        /\ u2 \in Int /\ s2 \in Int
    BY CongruentMod
  <1>4. Congruent(u2, X2 * Z1 * Z1) /\ Congruent(s2, Y2 * Z1 * Z1 * Z1)
    <2>1. u2 = Z1Z1 * X2 /\ zz * X2 = X2 * Z1 * Z1
      BY <1>3
    <2>2. s2 = Z1Z1 * (Y2 * Z1) /\ zz * (Y2 * Z1) = Y2 * Z1 * Z1 * Z1 /\ Y2 * Z1 \in Int
      BY <1>3
    <2> HIDE DEF zz, Z1Z1, u2, s2
    <2> QED BY <1>3, <2>1, <2>2, CongruentTimes
  <1>5. /\ Congruent(U2, X2 * Z1 * Z1) /\ U2 \in Int /\ X2 * Z1 * Z1 \in Int
        /\ Congruent(S2, Y2 * Z1 * Z1 * Z1) /\ S2 \in Int /\ Y2 * Z1 * Z1 * Z1 \in Int
    BY <1>3, <1>4, ModTo
  <1> HIDE DEF U2, S2, Z1Z1, zz
  <1>6. Congruent(h0, HH0) /\ h0 \in Int
    BY <1>5, CongruentAdd, CongruentMod
  <1>7. Congruent(H, HH0) /\ H \in Int
    <2> HIDE DEF h0, HH0
    <2> QED BY <1>3, <1>6, ModTo
  <1>8. Congruent(r, 2 * R) /\ r \in Int
    <2> DEFINE e == S2 - Y1  f == 2 * R
    <2>1. Congruent(e, R) /\ e \in Int /\ r0 = e * 2 /\ f = R * 2 /\ r0 \in Int /\ f \in Int
      <3>1. e \in Int /\ r0 = e * 2 /\ f = R * 2 /\ r0 \in Int /\ f \in Int
        BY <1>3, <1>5
      <3> DEFINE w == Y2 * Z1 * Z1 * Z1
      <3>2. w \in Int /\ Congruent(S2, w) /\ Congruent(Y1, Y1)
        BY <1>5, CongruentMod
      <3> HIDE DEF w
      <3>3. Congruent(S2 - Y1, w - Y1)
        BY <1>5, <3>2, CongruentAdd
      <3> QED BY <3>1, <3>3 DEF w
    <2> HIDE DEF e, R, r0, f
    <2>2. Congruent(r0, f)
      BY <1>3, <2>1, CongruentTimes
    <2>3. Congruent(r, f) /\ r \in Int
      BY <2>1, <2>2, ModTo
    <2> QED BY <2>3 DEF f
  <1>9. H = 0 <=> HH0 % P = 0
    <2>1. H % P = H
      <3>1. H \in 0 .. P - 1
        <4> HIDE DEF h0
        <4> QED BY <1>6, Reduced DEF Field
      <3>2. \A q \in 0 .. P - 1 : q % P = q
        BY PFacts, RemainderOfSmall
      <3> QED BY <3>1, <3>2
    <2> HIDE DEF H, HH0
    <2> QED BY <1>3, <1>7, <2>1, CongruentIs
  <1>10. r = 0 <=> R % P = 0
    <2>1. r % P = r
      <3>1. r \in 0 .. P - 1
        <4>1. r0 \in Int
          BY <1>5
        <4> HIDE DEF r0
        <4> QED BY <4>1, Reduced DEF Field
      <3>2. \A q \in 0 .. P - 1 : q % P = q
        BY PFacts, RemainderOfSmall
      <3> QED BY <3>1, <3>2
    <2>2. 2 * R \in Int
      BY <1>3
    <2> HIDE DEF r, R
    <2>3. r % P = (2 * R) % P
      BY <1>8, <2>2, CongruentIs
    <2> QED BY <1>3, <2>1, <2>3, TwiceZero
  <1>11. CASE r = 0 /\ H = 0
    <2>1. DoubleTriple(X2, Y2, 1) = DoubleWithZ1(X2, Y2)
      BY DEF DoubleTriple
    <2> HIDE DEF r, H, a
    <2> QED BY <1>1, <1>9, <1>10, <1>11, <2>1 DEF a
  <1>12. CASE ~ (r = 0 /\ H = 0)
    <2>1. a[1] = X3 /\ a[2] = y % P /\ a[3] = z % P
      BY <1>1, <1>12
    <2> HIDE DEF a, H, r
    <2>2. /\ hh \in Int /\ HH \in Int /\ Congruent(HH, hh) /\ i \in Int /\ I \in Int
      BY <1>7, CongruentMod
    <2>3. Congruent(I, 4 * H * H)
      <3> DEFINE f == 4 * H * H
      <3>1. f \in Int /\ f = hh * 4 /\ i = HH * 4
        BY <1>7, <2>2
      <3> HIDE DEF f, hh, HH, i
      <3>2. Congruent(i, f)
        BY <2>2, <3>1, CongruentTimes
      <3>3. Congruent(I, f)
        BY <2>2, <3>1, <3>2, ModTo
      <3> QED BY <3>3 DEF f
    <2> HIDE DEF I, HH
    <2>4. J \in Int /\ V \in Int /\ Congruent(J, J) /\ Congruent(V, V)
      BY <1>7, <2>2, CongruentMod
    <2>5. t \in Int /\ Congruent(X3, t) /\ X3 \in Int
      BY <1>8, <2>4, CongruentMod
    <2> HIDE DEF X3
    <2>6. y \in Int /\ Congruent(y % P, y)
      BY <1>8, <2>4, <2>5, CongruentMod
    <2>7. Congruent(z % P, 2 * Z1 * H)
      <3> DEFINE f == 2 * Z1 * H  g == (Z1 + H) * (Z1 + H)
      <3>1. f \in Int /\ g \in Int /\ z = g - (Z1Z1 + HH) /\ f = g - (zz + hh) /\ z \in Int
        BY <1>3, <1>7, <2>2 DEF zz
      <3> HIDE DEF f, g, hh, z
      <3>2. Congruent(Z1Z1 + HH, zz + hh) /\ Congruent(g, g)
        BY <1>3, <2>2, <3>1, CongruentAdd, CongruentMod
      <3>3. Congruent(z, f)
        BY <1>3, <2>2, <3>1, <3>2, CongruentAdd, Z1Z1 + HH \in Int, zz + hh \in Int
      <3>4. Congruent(z % P, f)
        BY <3>1, <3>3, ModTo
      <3> QED BY <3>4 DEF f
    <2>8. /\ Congruent(a[1], r * r - J - 2 * V) /\ Congruent(a[2], r * (V - a[1]) - 2 * Y1 * J)
          /\ Congruent(a[3], 2 * Z1 * H)
      BY <2>1, <2>5, <2>6, <2>7
    <2>9. ChordOf(a, X1, Y1, Z1, H, R, 2)
      <3> HIDE DEF R, J, V
      <3> QED BY <1>2, <1>3, <1>7, <1>8, <2>2, <2>3, <2>4, <2>8, ChordDoubled DEF J, V
    <2>10. \E h \in Int : Congruent(h, HH0) /\ ChordOf(a, X1, Y1, Z1, h, R, 2)
      <3> HIDE DEF HH0, R
      <3> QED BY <1>7, <2>9, Zenon
    <2> HIDE DEF HH0, R
    <2> QED BY <1>9, <1>10, <1>12, <2>10 DEF a, HH0, R
  <1> QED BY <1>11, <1>12

LEMMA AddWithZNeIs ==
  ASSUME NEW X1 \in Int, NEW Y1 \in Int, NEW Z1 \in Int, Z1 # 0,
         NEW X2 \in Int, NEW Y2 \in Int, NEW Z2 \in Int
  PROVE  LET U0 == X1 * Z2 * Z2
             S0 == Y1 * Z2 * Z2 * Z2
             H0 == X2 * Z1 * Z1 - U0
             R0 == Y2 * Z1 * Z1 * Z1 - S0
             a  == AddWithZNe(X1, Y1, Z1, X2, Y2, Z2)
         IN IF H0 % P = 0 /\ R0 % P = 0
            THEN a = DoubleTriple(X1, Y1, Z1)
            ELSE \E U, S, H, R \in Int :
                   /\ Congruent(U, U0) /\ Congruent(S, S0) /\ Congruent(H, H0) /\ Congruent(R, R0)
                   /\ ChordOf(a, U, S, Z1 * Z2, H, R, 2)
  <1> DEFINE U0 == X1 * Z2 * Z2
             S0 == Y1 * Z2 * Z2 * Z2
             V0 == X2 * Z1 * Z1
             T0 == Y2 * Z1 * Z1 * Z1
             H0 == V0 - U0
             R0 == T0 - S0
             zz1 == Z1 * Z1
             zz2 == Z2 * Z2
             Z1Z1 == zz1 % P
             Z2Z2 == zz2 % P
             u1 == X1 * Z2Z2
             u2 == X2 * Z1Z1
             s1 == Y1 * Z2 * Z2Z2
             s2 == Y2 * Z1 * Z1Z1
             U1 == u1 % P
             U2 == u2 % P
             S1 == s1 % P
             S2 == s2 % P
             H == U2 - U1
             i == 4 * H * H
             I == i % P
             j == H * I
             J == j % P
             R == S2 - S1
             r0 == 2 * R
             r == r0 % P
             V == U1 * I
             t == r * r - J - 2 * V
             X3 == t % P
             y == r * (V - X3) - 2 * S1 * J
             w == (Z1 + Z2) * (Z1 + Z2) - Z1Z1 - Z2Z2
             z == w * H
             a == AddWithZNe(X1, Y1, Z1, X2, Y2, Z2)
  <1>1. a = IF H = 0 /\ r = 0 THEN DoubleTriple(X1, Y1, Z1) ELSE <<X3, y % P, z % P>>
    BY DEF AddWithZNe
  <1>2. a \in Coordinates
    BY AddWithZNeType
  <1>3. /\ U0 \in Int /\ S0 \in Int /\ V0 \in Int /\ T0 \in Int /\ zz1 \in Int /\ zz2 \in Int
        /\ Z1Z1 \in Int /\ Z2Z2 \in Int /\ Congruent(Z1Z1, zz1) /\ Congruent(Z2Z2, zz2)
        /\ u1 \in Int /\ u2 \in Int /\ s1 \in Int /\ s2 \in Int
    BY CongruentMod
  <1>4. /\ Congruent(u1, U0) /\ Congruent(u2, V0) /\ Congruent(s1, S0) /\ Congruent(s2, T0)
    <2>1. u1 = Z2Z2 * X1 /\ zz2 * X1 = U0 /\ u2 = Z1Z1 * X2 /\ zz1 * X2 = V0
      BY <1>3
    <2>2. /\ s2 = Z1Z1 * (Y2 * Z1) /\ zz1 * (Y2 * Z1) = T0 /\ Y2 * Z1 \in Int
          /\ s1 = Z2Z2 * (Y1 * Z2) /\ zz2 * (Y1 * Z2) = S0 /\ Y1 * Z2 \in Int
      BY <1>3
    <2> HIDE DEF zz1, zz2, Z1Z1, Z2Z2, u1, u2, s1, s2, U0, V0, S0, T0
    <2>3. Congruent(Z2Z2 * X1, zz2 * X1) /\ Congruent(Z1Z1 * X2, zz1 * X2)
      BY <1>3, CongruentTimes
    <2>4. /\ Congruent(Z1Z1 * (Y2 * Z1), zz1 * (Y2 * Z1))
          /\ Congruent(Z2Z2 * (Y1 * Z2), zz2 * (Y1 * Z2))
      BY <1>3, <2>2, CongruentTimes
    <2> QED BY <2>1, <2>2, <2>3, <2>4
  <1> HIDE DEF U0, S0, V0, T0, u1, u2, s1, s2
  <1>5. /\ Congruent(U1, U0) /\ Congruent(U2, V0) /\ Congruent(S1, S0) /\ Congruent(S2, T0)
        /\ U1 \in Int /\ U2 \in Int /\ S1 \in Int /\ S2 \in Int
        /\ U1 \in Field /\ U2 \in Field /\ S1 \in Field /\ S2 \in Field
    BY <1>3, <1>4, ModTo, Reduced
  <1> HIDE DEF U1, U2, S1, S2, Z1Z1, Z2Z2, zz1, zz2
  <1>6. /\ Congruent(H, H0) /\ Congruent(R, R0) /\ H \in Int /\ R \in Int
        /\ H0 \in Int /\ R0 \in Int
    BY <1>3, <1>5, CongruentAdd
  <1>7. H = 0 <=> H0 % P = 0
    <2>1. H = 0 => H0 % P = 0
      <3> SUFFICES ASSUME H = 0 PROVE H0 % P = 0
        OBVIOUS
      <3> HIDE DEF H, H0
      <3> QED BY <1>6, CongruentSym, CongruentZero
    <2>2. ASSUME H0 % P = 0 PROVE H = 0
      <3>1. H % P = 0
        <4> HIDE DEF H, H0
        <4>1. H % P = H0 % P
          BY <1>6, CongruentIs
        <4> QED BY <2>2, <4>1
      <3>2. U2 % P = U1 % P
        BY <1>5, <3>1, PFacts, DifferenceZero
      <3>3. Congruent(U2, U1)
        BY <1>5, <3>2, CongruentIs
      <3>4. U2 = U1
        BY <1>5, <3>3, CongruentField
      <3> QED BY <1>5, <3>4
    <2> QED BY <2>1, <2>2
  <1> HIDE DEF H, H0, R, R0
  <1>8. Congruent(r, 2 * R) /\ r \in Int
    <2>1. r0 \in Int
      BY <1>6
    <2> QED BY <2>1, CongruentMod
  <1>9. r = 0 <=> R0 % P = 0
    <2>1. R % P = R0 % P
      BY <1>6, CongruentIs
    <2> QED BY <1>6, <2>1, TwiceZero
  <1> HIDE DEF r
  <1>10. CASE r = 0 /\ H = 0
    <2> HIDE DEF a
    <2> QED BY <1>1, <1>7, <1>9, <1>10 DEF a, H0, R0, U0, V0, S0, T0
  <1>11. CASE ~ (r = 0 /\ H = 0)
    <2>1. a[1] = X3 /\ a[2] = y % P /\ a[3] = z % P
      BY <1>1, <1>11
    <2> HIDE DEF a
    <2>2. i \in Int /\ I \in Int /\ Congruent(I, i)
      BY <1>6, CongruentMod
    <2> HIDE DEF I
    <2>3. j \in Int /\ J \in Int /\ Congruent(J, j) /\ V \in Int /\ Congruent(V, V)
      BY <1>5, <1>6, <2>2, CongruentMod
    <2> HIDE DEF J
    <2>4. t \in Int /\ Congruent(X3, t) /\ X3 \in Int
      BY <1>8, <2>3, CongruentMod
    <2> HIDE DEF X3
    <2>5. y \in Int /\ Congruent(y % P, y)
      BY <1>5, <1>8, <2>3, <2>4, CongruentMod
    <2>6. Congruent(z % P, 2 * (Z1 * Z2) * H)
      <3> DEFINE f == 2 * (Z1 * Z2)  g == (Z1 + Z2) * (Z1 + Z2)  q == Z1Z1 + Z2Z2  q2 == zz1 + zz2
      <3>1. /\ f \in Int /\ g \in Int /\ q \in Int /\ q2 \in Int /\ w = g - q /\ f = g - q2
            /\ w \in Int /\ z \in Int
        BY <1>3, <1>6 DEF zz1, zz2
      <3>2. Congruent(q, q2) /\ Congruent(g, g)
        BY <1>3, <3>1, CongruentAdd, CongruentMod
      <3> HIDE DEF f, g, q, q2, w
      <3>3. Congruent(w, f)
        BY <3>1, <3>2, CongruentAdd
      <3>4. Congruent(z, f * H)
        BY <1>6, <3>1, <3>3, CongruentTimes
      <3> HIDE DEF z
      <3>5. Congruent(z % P, f * H)
        BY <1>6, <3>1, <3>4, ModTo, f * H \in Int
      <3> QED BY <3>5 DEF f
    <2>7. /\ Congruent(a[1], r * r - J - 2 * V) /\ Congruent(a[2], r * (V - a[1]) - 2 * S1 * J)
          /\ Congruent(a[3], 2 * (Z1 * Z2) * H)
      BY <2>1, <2>4, <2>5, <2>6
    <2>8. ChordOf(a, U1, S1, Z1 * Z2, H, R, 2)
      <3> DEFINE W == Z1 * Z2
      <3>1. W \in Int
        OBVIOUS
      <3> HIDE DEF V, W
      <3>2. ChordOf(a, U1, S1, W, H, R, 2)
        BY <1>2, <1>5, <1>6, <1>8, <2>2, <2>3, <2>7, <3>1, ChordDoubled DEF V, W
      <3> QED BY <3>2 DEF W
    <2> HIDE DEF U0, S0
    <2>9. \E U, S, h, q \in Int :
            /\ Congruent(U, U0) /\ Congruent(S, S0) /\ Congruent(h, H0) /\ Congruent(q, R0)
            /\ ChordOf(a, U, S, Z1 * Z2, h, q, 2)
      BY <1>5, <1>6, <2>8
    <2> QED BY <1>7, <1>9, <1>11, <2>9 DEF a, H0, R0, U0, S0, V0, T0
  <1> QED BY <1>10, <1>11

----------------------------------------------------------------------------
(* Points in Jacobian coordinates.                                         *)
LEMMA AtCongruent ==
  ASSUME NEW X \in Int, NEW Y \in Int, NEW Z \in Int, NEW x \in Int, NEW y \in Int,
         NEW X2 \in Int, NEW Y2 \in Int, At(X, Y, Z, x, y), Congruent(X2, X), Congruent(Y2, Y)
  PROVE  At(X2, Y2, Z, x, y)
  <1> DEFINE a == x * Z * Z  b == y * Z * Z * Z
  <1>1. a \in Int /\ b \in Int /\ Congruent(X, a) /\ Congruent(Y, b)
    BY DEF At
  <1> HIDE DEF a, b
  <1>2. Congruent(X2, a) /\ Congruent(Y2, b)
    BY <1>1, CongruentTrans
  <1> QED BY <1>2 DEF At, a, b

LEMMA AtDifference ==
  ASSUME NEW X1 \in Int, NEW Y1 \in Int, NEW Z \in Int, NEW x1 \in Int, NEW y1 \in Int,
         NEW X2 \in Int, NEW Y2 \in Int, NEW x2 \in Int, NEW y2 \in Int,
         At(X1, Y1, Z, x1, y1), At(X2, Y2, Z, x2, y2)
  PROVE  At(X2 - X1, Y2 - Y1, Z, x2 - x1, y2 - y1)
  <1> DEFINE a1 == x1 * Z * Z  b1 == y1 * Z * Z * Z  a2 == x2 * Z * Z  b2 == y2 * Z * Z * Z
  <1>1. /\ a1 \in Int /\ b1 \in Int /\ Congruent(X1, a1) /\ Congruent(Y1, b1)
        /\ a2 \in Int /\ b2 \in Int /\ Congruent(X2, a2) /\ Congruent(Y2, b2)
    BY DEF At
  <1>2. /\ a2 - a1 = (x2 - x1) * Z * Z /\ b2 - b1 = (y2 - y1) * Z * Z * Z
    OBVIOUS
  <1> HIDE DEF a1, b1, a2, b2
  <1>3. Congruent(X2 - X1, a2 - a1) /\ Congruent(Y2 - Y1, b2 - b1)
    BY <1>1, CongruentAdd
  <1> QED BY <1>2, <1>3 DEF At

LEMMA AtScaled ==
  ASSUME NEW X \in Int, NEW Y \in Int, NEW Z \in Int, NEW x \in Int, NEW y \in Int,
         NEW k \in Int, At(X, Y, Z, x, y)
  PROVE  At(X * k * k, Y * k * k * k, Z * k, x, y)
  <1> DEFINE a == x * Z * Z  b == y * Z * Z * Z  k2 == k * k  k3 == k * k * k
  <1>1. /\ a \in Int /\ b \in Int /\ Congruent(X, a) /\ Congruent(Y, b)
        /\ k2 \in Int /\ k3 \in Int
    BY DEF At
  <1>2. /\ X * k * k = X * k2 /\ Y * k * k * k = Y * k3
        /\ x * (Z * k) * (Z * k) = a * k2 /\ y * (Z * k) * (Z * k) * (Z * k) = b * k3
    OBVIOUS
  <1> HIDE DEF a, b, k2, k3
  <1>3. Congruent(X * k2, a * k2) /\ Congruent(Y * k3, b * k3)
    BY <1>1, CongruentTimes
  <1> QED BY <1>2, <1>3 DEF At

LEMMA ProductZero ==
  ASSUME NEW a \in Int, NEW b \in Int
  PROVE  (a * b) % P = 0 <=> a % P = 0 \/ b % P = 0
  <1>1. ASSUME (a * b) % P = 0 PROVE a % P = 0 \/ b % P = 0
    BY <1>1, PFacts, PrimeDivides
  <1>2. ASSUME NEW c \in Int, NEW d \in Int, c % P = 0 PROVE (c * d) % P = 0
    <2>1. Congruent(c * d, 0 * d)
      BY <1>2, CongruentZero, CongruentTimes, 0 \in Int
    <2>2. 0 * d = 0 /\ c * d \in Int
      OBVIOUS
    <2> QED BY <2>1, <2>2, CongruentZero
  <1>3. a * b = b * a
    OBVIOUS
  <1> QED BY <1>1, <1>2, <1>3

ZeroTogether(a, b) == a % P = 0 <=> b % P = 0

LEMMA AtZero ==
  ASSUME NEW X \in Int, NEW Y \in Int, NEW Z \in Int, NEW x \in Int, NEW y \in Int,
         At(X, Y, Z, x, y), Z % P # 0
  PROVE  ZeroTogether(X, x) /\ ZeroTogether(Y, y)
  <1> DEFINE a == x * Z  b == a * Z  c == y * Z  d == c * Z  e == d * Z
  <1>1. /\ a \in Int /\ b \in Int /\ c \in Int /\ d \in Int /\ e \in Int
        /\ Congruent(X, b) /\ Congruent(Y, e)
    BY DEF At
  <1>2. /\ a % P = 0 <=> x % P = 0
        /\ c % P = 0 <=> y % P = 0
    BY ProductZero
  <1> HIDE DEF a, c
  <1>3. /\ b % P = 0 <=> a % P = 0
        /\ d % P = 0 <=> c % P = 0
    BY <1>1, ProductZero
  <1> HIDE DEF d
  <1>4. e % P = 0 <=> d % P = 0
    BY <1>1, ProductZero
  <1>5. X % P = b % P /\ Y % P = e % P
    BY <1>1, CongruentIs
  <1> QED BY <1>2, <1>3, <1>4, <1>5 DEF ZeroTogether

(* What the formulas for different points compute, in either order.        *)
ChordBetween(t, x1, y1, x2, y2) ==
    \E U, S, W, H, R \in Int, c \in {1, 2} :
      /\ W % P # 0 /\ At(U, S, W, x1, y1) /\ At(H, R, W, x2 - x1, y2 - y1)
      /\ ChordOf(t, U, S, W, H, R, c)

(* And for equal ones.                                                     *)
DoubleOf(t, x, y) ==
    \E X, Y, Z \in Int : Z % P # 0 /\ At(X, Y, Z, x, y) /\ t = DoubleTriple(X, Y, Z)

SumOf(t, x1, y1, x2, y2) ==
    IF (x2 - x1) % P = 0 /\ (y2 - y1) % P = 0 THEN DoubleOf(t, x1, y1)
    ELSE ChordBetween(t, x1, y1, x2, y2)

LEMMA AddWithZ1Sum ==
  ASSUME NEW X1 \in Int, NEW Y1 \in Int, NEW X2 \in Int, NEW Y2 \in Int,
         NEW x1 \in Int, NEW y1 \in Int, NEW x2 \in Int, NEW y2 \in Int,
         At(X1, Y1, 1, x1, y1), At(X2, Y2, 1, x2, y2),
         (X2 - X1) % P = 0 /\ (Y2 - Y1) % P = 0 => X1 = X2 /\ Y1 = Y2
  PROVE  SumOf(AddWithZ1(X1, Y1, X2, Y2), x1, y1, x2, y2)
  <1> DEFINE H == X2 - X1  R == Y2 - Y1  dx == x2 - x1  dy == y2 - y1
             a == AddWithZ1(X1, Y1, X2, Y2)
  <1>1. At(H, R, 1, dx, dy) /\ 1 % P # 0 /\ 1 \in Int
    <2>1. 1 % P = 1 /\ 1 \in Int
      BY PFacts, RemainderOfSmall
    <2>2. At(H, R, 1, dx, dy)
      BY <2>1, AtDifference
    <2> QED BY <2>1, <2>2
  <1>2. /\ H \in Int /\ R \in Int /\ dx \in Int /\ dy \in Int
    OBVIOUS
  <1>3. ZeroTogether(H, dx) /\ ZeroTogether(R, dy)
    <2> HIDE DEF H, R, dx, dy
    <2> QED BY <1>1, <1>2, AtZero, Zenon
  <1>4. CASE X1 = X2 /\ Y1 = Y2
    <2>1. H % P = 0 /\ R % P = 0
      <3>1. H = 0 /\ R = 0
        BY <1>4
      <3> QED BY <3>1, PFacts, RemainderOfSmall
    <2>2. a = DoubleTriple(X1, Y1, 1)
      BY <1>4, AddWithZ1Is
    <2> HIDE DEF a
    <2>3. DoubleOf(a, x1, y1)
      BY <1>1, <2>2, Zenon DEF DoubleOf
    <2> QED BY <1>3, <2>1, <2>3 DEF SumOf, ZeroTogether, a
  <1>5. CASE ~ (X1 = X2 /\ Y1 = Y2)
    <2>1. ~ (H % P = 0 /\ R % P = 0)
      BY <1>5
    <2>2. ChordOf(a, X1, Y1, 1, H, R, 2)
      BY <1>5, AddWithZ1Is
    <2> HIDE DEF a, H, R
    <2>3. ChordBetween(a, x1, y1, x2, y2)
      BY <1>1, <1>2, <2>2, Zenon DEF ChordBetween
    <2> QED BY <1>3, <2>1, <2>3 DEF SumOf, ZeroTogether, a
  <1> QED BY <1>4, <1>5

LEMMA AddWithZEqSum ==
  ASSUME NEW X1 \in Int, NEW Y1 \in Int, NEW Z1 \in Int, NEW X2 \in Int, NEW Y2 \in Int,
         NEW x1 \in Int, NEW y1 \in Int, NEW x2 \in Int, NEW y2 \in Int,
         At(X1, Y1, Z1, x1, y1), At(X2, Y2, Z1, x2, y2), Z1 % P # 0
  PROVE  SumOf(AddWithZEq(X1, Y1, Z1, X2, Y2), x1, y1, x2, y2)
  <1> DEFINE H == X2 - X1  R == Y2 - Y1  dx == x2 - x1  dy == y2 - y1
             a == AddWithZEq(X1, Y1, Z1, X2, Y2)
  <1>1. At(H, R, Z1, dx, dy)
    BY AtDifference
  <1>2. /\ H \in Int /\ R \in Int /\ dx \in Int /\ dy \in Int
    OBVIOUS
  <1>3. ZeroTogether(H, dx) /\ ZeroTogether(R, dy)
    <2> HIDE DEF H, R, dx, dy
    <2> QED BY <1>1, <1>2, AtZero, Zenon
  <1>4. CASE H % P = 0 /\ R % P = 0
    <2>1. a = DoubleTriple(X1, Y1, Z1)
      BY <1>4, AddWithZEqIs
    <2> HIDE DEF a
    <2>2. DoubleOf(a, x1, y1)
      BY <2>1, Zenon DEF DoubleOf
    <2> QED BY <1>3, <1>4, <2>2 DEF SumOf, ZeroTogether, a
  <1>5. CASE ~ (H % P = 0 /\ R % P = 0)
    <2>1. ChordOf(a, X1, Y1, Z1, H, R, 1)
      BY <1>5, AddWithZEqIs
    <2> HIDE DEF a, H, R
    <2>2. ChordBetween(a, x1, y1, x2, y2)
      BY <1>1, <1>2, <2>1, Zenon DEF ChordBetween
    <2> QED BY <1>3, <1>5, <2>2 DEF SumOf, ZeroTogether, a
  <1> QED BY <1>4, <1>5

LEMMA AddWithZ21Sum ==
  ASSUME NEW X1 \in Int, NEW Y1 \in Int, NEW Z1 \in Int, NEW X2 \in Int, NEW Y2 \in Int,
         NEW x1 \in Int, NEW y1 \in Int, NEW x2 \in Int, NEW y2 \in Int,
         At(X1, Y1, Z1, x1, y1), At(X2, Y2, 1, x2, y2), Z1 % P # 0
  PROVE  IF (x2 - x1) % P = 0 /\ (y2 - y1) % P = 0
         THEN DoubleOf(AddWithZ21(X1, Y1, Z1, X2, Y2), x2, y2)
         ELSE ChordBetween(AddWithZ21(X1, Y1, Z1, X2, Y2), x1, y1, x2, y2)
  <1> DEFINE V == X2 * Z1 * Z1  T == Y2 * Z1 * Z1 * Z1
             H == V - X1  R == T - Y1  dx == x2 - x1  dy == y2 - y1
             a == AddWithZ21(X1, Y1, Z1, X2, Y2)
  <1>1. /\ V \in Int /\ T \in Int /\ H \in Int /\ R \in Int /\ dx \in Int /\ dy \in Int
    OBVIOUS
  <1>2. At(V, T, Z1, x2, y2)
    <2>1. At(V, T, 1 * Z1, x2, y2)
      BY AtScaled, 1 \in Int
    <2> QED BY <2>1, 1 * Z1 = Z1
  <1>3. IF H % P = 0 /\ R % P = 0 THEN a = DoubleTriple(X2, Y2, 1)
        ELSE \E h \in Int : Congruent(h, H) /\ ChordOf(a, X1, Y1, Z1, h, R, 2)
    BY AddWithZ21Is
  <1> HIDE DEF V, T, a
  <1>4. At(H, R, Z1, dx, dy)
    BY <1>1, <1>2, AtDifference
  <1> HIDE DEF H, R, dx, dy
  <1>5. ZeroTogether(H, dx) /\ ZeroTogether(R, dy)
    BY <1>1, <1>4, AtZero, Zenon
  <1>6. CASE H % P = 0 /\ R % P = 0
    <2>1. 1 % P # 0 /\ 1 \in Int
      BY PFacts, RemainderOfSmall
    <2>2. DoubleOf(a, x2, y2)
      BY <1>3, <1>6, <2>1, Zenon DEF DoubleOf
    <2> QED BY <1>5, <1>6, <2>2 DEF ZeroTogether, a, dx, dy
  <1>7. CASE ~ (H % P = 0 /\ R % P = 0)
    <2>1. PICK h \in Int : Congruent(h, H) /\ ChordOf(a, X1, Y1, Z1, h, R, 2)
      BY <1>3, <1>7
    <2>2. At(h, R, Z1, dx, dy)
      BY <1>1, <1>4, <2>1, AtCongruent, CongruentMod
    <2>3. ChordBetween(a, x1, y1, x2, y2)
      BY <1>1, <2>1, <2>2, Zenon DEF ChordBetween, dx, dy
    <2> QED BY <1>5, <1>7, <2>3 DEF ZeroTogether, a, dx, dy
  <1> QED BY <1>6, <1>7

LEMMA AddWithZNeSum ==
  ASSUME NEW X1 \in Int, NEW Y1 \in Int, NEW Z1 \in Int,
         NEW X2 \in Int, NEW Y2 \in Int, NEW Z2 \in Int,
         NEW x1 \in Int, NEW y1 \in Int, NEW x2 \in Int, NEW y2 \in Int,
         At(X1, Y1, Z1, x1, y1), At(X2, Y2, Z2, x2, y2), Z1 % P # 0, Z2 % P # 0
  PROVE  SumOf(AddWithZNe(X1, Y1, Z1, X2, Y2, Z2), x1, y1, x2, y2)
  <1> DEFINE U0 == X1 * Z2 * Z2  S0 == Y1 * Z2 * Z2 * Z2
             V == X2 * Z1 * Z1  T == Y2 * Z1 * Z1 * Z1  W == Z1 * Z2
             H0 == V - U0  R0 == T - S0  dx == x2 - x1  dy == y2 - y1
             a == AddWithZNe(X1, Y1, Z1, X2, Y2, Z2)
  <1>1. /\ U0 \in Int /\ S0 \in Int /\ V \in Int /\ T \in Int /\ W \in Int
        /\ H0 \in Int /\ R0 \in Int /\ dx \in Int /\ dy \in Int
    OBVIOUS
  <1>2. At(U0, S0, W, x1, y1)
    BY AtScaled
  <1>3. At(V, T, W, x2, y2)
    <2>1. At(V, T, Z2 * Z1, x2, y2)
      BY AtScaled
    <2> QED BY <2>1, Z2 * Z1 = W
  <1>4. W % P # 0
    BY ProductZero
  <1>5. Z1 # 0
    BY PFacts, RemainderOfSmall
  <1>6. IF H0 % P = 0 /\ R0 % P = 0 THEN a = DoubleTriple(X1, Y1, Z1)
        ELSE \E U, S, H, R \in Int :
               /\ Congruent(U, U0) /\ Congruent(S, S0) /\ Congruent(H, H0) /\ Congruent(R, R0)
               /\ ChordOf(a, U, S, W, H, R, 2)
    BY <1>5, AddWithZNeIs
  <1> HIDE DEF U0, S0, V, T, W, a
  <1>7. At(H0, R0, W, dx, dy)
    BY <1>1, <1>2, <1>3, AtDifference
  <1> HIDE DEF H0, R0, dx, dy
  <1>8. ZeroTogether(H0, dx) /\ ZeroTogether(R0, dy)
    BY <1>1, <1>4, <1>7, AtZero, Zenon
  <1>9. CASE H0 % P = 0 /\ R0 % P = 0
    <2>1. DoubleOf(a, x1, y1)
      BY <1>6, <1>9, Zenon DEF DoubleOf
    <2> QED BY <1>8, <1>9, <2>1 DEF ZeroTogether, a, dx, dy, SumOf
  <1>10. CASE ~ (H0 % P = 0 /\ R0 % P = 0)
    <2>1. PICK U, S, H, R \in Int :
            /\ Congruent(U, U0) /\ Congruent(S, S0) /\ Congruent(H, H0) /\ Congruent(R, R0)
            /\ ChordOf(a, U, S, W, H, R, 2)
      BY <1>6, <1>10
    <2>2. At(U, S, W, x1, y1)
      BY <1>1, <1>2, <2>1, AtCongruent
    <2>3. At(H, R, W, dx, dy)
      BY <1>1, <1>7, <2>1, AtCongruent
    <2>4. ChordBetween(a, x1, y1, x2, y2)
      BY <1>1, <1>4, <2>1, <2>2, <2>3, Zenon DEF ChordBetween, dx, dy
    <2> QED BY <1>8, <1>10, <2>4 DEF ZeroTogether, a, dx, dy, SumOf
  <1> QED BY <1>9, <1>10

LEMMA FieldDifference ==
  ASSUME NEW a \in Field, NEW b \in Field
  PROVE  (b - a) % P = 0 <=> a = b
  <1>1. a \in Int /\ b \in Int
    BY PFacts DEF Field
  <1>2. (b - a) % P = 0 <=> b % P = a % P
    BY <1>1, PFacts, DifferenceZero
  <1>3. b % P = a % P <=> a = b
    BY <1>1, PFacts, RemainderOfSmall DEF Field
  <1> QED BY <1>2, <1>3

(* Two triples with Z = 1 whose Y differ by a multiple of P are not told   *)
(* to be equal; any other two are added.                                   *)
LEMMA AddTriplesSum ==
  ASSUME NEW X1 \in Int, NEW Y1 \in Int, NEW Z1 \in 1 .. P - 1,
         NEW X2 \in Int, NEW Y2 \in Int, NEW Z2 \in 1 .. P - 1,
         NEW x1 \in Field, NEW y1 \in Field, NEW x2 \in Field, NEW y2 \in Field,
         At(X1, Y1, Z1, x1, y1), At(X2, Y2, Z2, x2, y2),
         Z1 = 1 /\ Z2 = 1 =>
           ((X2 - X1) % P = 0 /\ (Y2 - Y1) % P = 0 => X1 = X2 /\ Y1 = Y2)
  PROVE  LET t == AddTriples(X1, Y1, Z1, X2, Y2, Z2)
         IN IF x1 = x2 /\ y1 = y2 THEN DoubleOf(t, x1, y1)
            ELSE ChordBetween(t, x1, y1, x2, y2) \/ ChordBetween(t, x2, y2, x1, y1)
  <1> DEFINE t == AddTriples(X1, Y1, Z1, X2, Y2, Z2)
  <1>1. /\ Z1 \in Int /\ Z2 \in Int /\ Z1 # 0 /\ Z2 # 0 /\ Z1 % P # 0 /\ Z2 % P # 0
        /\ x1 \in Int /\ y1 \in Int /\ x2 \in Int /\ y2 \in Int
    BY PFacts, RemainderOfSmall DEF Field
  <1>2. /\ (x2 - x1) % P = 0 <=> x1 = x2
        /\ (y2 - y1) % P = 0 <=> y1 = y2
        /\ (x1 - x2) % P = 0 <=> x1 = x2
        /\ (y1 - y2) % P = 0 <=> y1 = y2
    BY FieldDifference
  <1>3. CASE Z1 = 1 /\ Z2 = 1
    <2>1. t = AddWithZ1(X1, Y1, X2, Y2)
      BY <1>3 DEF AddTriples
    <2> HIDE DEF t
    <2>2. SumOf(t, x1, y1, x2, y2)
      BY <1>1, <1>3, <2>1, AddWithZ1Sum
    <2> QED BY <1>2, <2>2 DEF SumOf, t
  <1>4. CASE Z1 = Z2 /\ Z1 # 1
    <2>1. t = AddWithZEq(X1, Y1, Z1, X2, Y2)
      BY <1>1, <1>4 DEF AddTriples
    <2> HIDE DEF t
    <2>2. SumOf(t, x1, y1, x2, y2)
      BY <1>1, <1>4, <2>1, AddWithZEqSum
    <2> QED BY <1>2, <2>2 DEF SumOf, t
  <1>5. CASE Z1 # Z2 /\ Z1 = 1
    <2>1. t = AddWithZ21(X2, Y2, Z2, X1, Y1)
      BY <1>1, <1>5 DEF AddTriples
    <2> HIDE DEF t
    <2>2. IF (x1 - x2) % P = 0 /\ (y1 - y2) % P = 0 THEN DoubleOf(t, x1, y1)
          ELSE ChordBetween(t, x2, y2, x1, y1)
      BY <1>1, <1>5, <2>1, AddWithZ21Sum
    <2> QED BY <1>2, <2>2 DEF t
  <1>6. CASE Z1 # Z2 /\ Z2 = 1
    <2>1. t = AddWithZ21(X1, Y1, Z1, X2, Y2)
      BY <1>1, <1>6 DEF AddTriples
    <2> HIDE DEF t
    <2>2. IF (x2 - x1) % P = 0 /\ (y2 - y1) % P = 0 THEN DoubleOf(t, x2, y2)
          ELSE ChordBetween(t, x1, y1, x2, y2)
      BY <1>1, <1>6, <2>1, AddWithZ21Sum
    <2> QED BY <1>2, <2>2 DEF t
  <1>7. CASE Z1 # Z2 /\ Z1 # 1 /\ Z2 # 1
    <2>1. t = AddWithZNe(X1, Y1, Z1, X2, Y2, Z2)
      BY <1>1, <1>7 DEF AddTriples
    <2> HIDE DEF t
    <2>2. SumOf(t, x1, y1, x2, y2)
      BY <1>1, <1>7, <2>1, AddWithZNeSum
    <2> QED BY <1>2, <2>2 DEF SumOf, t
  <1> QED BY <1>3, <1>4, <1>5, <1>6, <1>7

----------------------------------------------------------------------------
(* The third point of the chord or tangent with slope l, reflected.        *)
ThirdX(x1, x2, l)     == l * l - x1 - x2
ThirdY(x1, y1, x2, l) == l * (x1 - ThirdX(x1, x2, l)) - y1
Third(x1, y1, x2, l)  == <<ThirdX(x1, x2, l) % P, ThirdY(x1, y1, x2, l) % P>>

ThirdAt(t, x1, y1, x2, l) ==
    t[3] # 0 /\ At(t[1], t[2], t[3], ThirdX(x1, x2, l), ThirdY(x1, y1, x2, l))

LEMMA ThirdTypes ==
  ASSUME NEW x1 \in Int, NEW y1 \in Int, NEW x2 \in Int, NEW l \in Int
  PROVE  ThirdX(x1, x2, l) \in Int /\ ThirdY(x1, y1, x2, l) \in Int
  <1>1. ThirdX(x1, x2, l) \in Int
    BY DEF ThirdX
  <1> QED BY <1>1 DEF ThirdY

(* Either point of a chord yields it.                                      *)
LEMMA ThirdOfOther ==
  ASSUME NEW x1 \in Int, NEW y1 \in Int, NEW x2 \in Int, NEW y2 \in Int, NEW l \in Int,
         Congruent(l * (x2 - x1), y2 - y1)
  PROVE  /\ ThirdX(x2, x1, l) = ThirdX(x1, x2, l)
         /\ Congruent(ThirdY(x2, y2, x1, l), ThirdY(x1, y1, x2, l))
         /\ Congruent(l * (x1 - x2), y1 - y2)
  <1> DEFINE x == ThirdX(x1, x2, l)  a == l * (x2 - x1)  b == y2 - y1
  <1>1. ThirdX(x2, x1, l) = x /\ x \in Int
    BY DEF ThirdX
  <1> HIDE DEF x
  <1>2. PICK k \in Int : a = b + k * P
    BY DEF Congruent
  <1>3. l * (x2 - x) - y2 = l * (x1 - x) - y1 + k * P
    <2>1. l * (x2 - x) - y2 = l * (x1 - x) - y1 + (a - b)
      BY <1>1
    <2>2. a - b = k * P /\ a \in Int /\ b \in Int
      BY <1>2, PFacts
    <2> QED BY <2>1, <2>2
  <1>4. l * (x1 - x2) = (y1 - y2) + (- k) * P /\ - k \in Int
    <2>1. l * (x1 - x2) = - a /\ y1 - y2 = - b /\ (- k) * P = - (k * P)
      BY PFacts
    <2>2. a \in Int /\ b \in Int /\ k * P \in Int
      BY PFacts
    <2> HIDE DEF a, b
    <2> QED BY <1>2, <2>1, <2>2
  <1> QED BY <1>1, <1>3, <1>4 DEF Congruent, ThirdY, x

LEMMA ChordThird ==
  ASSUME NEW t, NEW x1 \in Field, NEW y1 \in Field, NEW x2 \in Field, NEW y2 \in Field,
         NEW l \in Int, ChordBetween(t, x1, y1, x2, y2), Congruent(l * (x2 - x1), y2 - y1)
  PROVE  IF x1 = x2 THEN t[3] = 0 ELSE ThirdAt(t, x1, y1, x2, l)
  <1>0. x1 \in Int /\ x2 \in Int /\ y1 \in Int /\ y2 \in Int
    BY PFacts DEF Field
  <1>1. PICK U, S, W, H, R \in Int, c \in {1, 2} :
          /\ W % P # 0 /\ At(U, S, W, x1, y1) /\ At(H, R, W, x2 - x1, y2 - y1)
          /\ ChordOf(t, U, S, W, H, R, c)
    BY DEF ChordBetween
  <1>2. t \in Coordinates /\ Congruent(t[3], c * W * H) /\ c \in Int
    BY <1>1 DEF ChordOf
  <1>3. t[1] \in Int /\ t[2] \in Int /\ t[3] \in Int /\ t[3] \in Field
    BY <1>2, CoordinatesAre
  <1>4. c % P # 0
    <2>1. 1 % P = 1 /\ 2 % P = 2
      BY PFacts, RemainderOfSmall
    <2> QED BY <2>1
  <1>5. ZeroTogether(H, x2 - x1)
    <2> DEFINE dx == x2 - x1  dy == y2 - y1
    <2>1. dx \in Int /\ dy \in Int /\ At(H, R, W, dx, dy)
      BY <1>0, <1>1
    <2> HIDE DEF dx, dy
    <2>2. ZeroTogether(H, dx)
      BY <1>1, <2>1, AtZero
    <2> QED BY <2>2 DEF dx
  <1>6. H % P = 0 <=> x1 = x2
    BY <1>5, FieldDifference DEF ZeroTogether
  <1>7. t[3] = 0 <=> H % P = 0
    <2>1. (c * W) % P # 0 /\ c * W \in Int
      BY <1>1, <1>2, <1>4, ProductZero
    <2> DEFINE d == c * W
    <2>2. d * H \in Int
      BY <2>1
    <2> HIDE DEF d
    <2>3. (d * H) % P = 0 <=> H % P = 0
      BY <2>1, ProductZero DEF d
    <2>4. t[3] % P = (d * H) % P
      BY <1>2, <1>3, <2>2, CongruentIs DEF d
    <2>5. t[3] % P = t[3]
      <3>1. \A a \in Field : a % P = a
        BY PFacts, RemainderOfSmall DEF Field
      <3> QED BY <1>3, <3>1
    <2> QED BY <2>3, <2>4, <2>5
  <1>8. At(t[1], t[2], t[3], l * l - x1 - x2, l * (x1 - (l * l - x1 - x2)) - y1)
    <2> DEFINE X3 == t[1]  Y3 == t[2]  ZN == t[3]
    <2>1. /\ X3 \in Int /\ Y3 \in Int /\ ZN \in Int
          /\ Congruent(X3, c * c * (R * R - H * H * H - 2 * U * H * H))
          /\ Congruent(Y3, c * R * (c * c * U * H * H - X3) - c * c * c * S * H * H * H)
          /\ Congruent(ZN, c * W * H)
      BY <1>1, <1>3 DEF ChordOf
    <2> HIDE DEF X3, Y3, ZN
    <2>2. At(X3, Y3, ZN, l * l - x1 - x2, l * (x1 - (l * l - x1 - x2)) - y1)
      BY <1>0, <1>1, <1>2, <2>1, ChordFormula
    <2> QED BY <2>2 DEF X3, Y3, ZN
  <1> QED BY <1>6, <1>7, <1>8 DEF ThirdAt, ThirdX, ThirdY

LEMMA TangentThird ==
  ASSUME NEW t, NEW x \in Field, NEW y \in Field, DoubleOf(t, x, y)
  PROVE  /\ t \in Coordinates
         /\ IF y = 0 THEN t[3] = 0
            ELSE \A l \in Int : Congruent(2 * y * l, 3 * x * x + A) => ThirdAt(t, x, y, x, l)
  <1>0. x \in Int /\ y \in Int /\ y % P = y
    BY PFacts, RemainderOfSmall DEF Field
  <1>1. PICK X, Y, Z \in Int : Z % P # 0 /\ At(X, Y, Z, x, y) /\ t = DoubleTriple(X, Y, Z)
    BY DEF DoubleOf
  <1>2. Z # 0
    BY <1>1, PFacts, RemainderOfSmall
  <1>3. IF Y % P = 0 THEN t = <<0, 0, 0>> ELSE TangentOf(t, X, Y, Z)
    BY <1>1, <1>2, DoubleTripleIs
  <1>4. Y % P = 0 <=> y = 0
    BY <1>0, <1>1, AtZero DEF ZeroTogether
  <1>5. t \in Coordinates
    BY <1>1, DoubleTripleType
  <1>6. CASE y = 0
    BY <1>3, <1>4, <1>5, <1>6
  <1>7. CASE y # 0
    <2>1. PICK S, M \in Int :
            /\ Congruent(S, 4 * X * Y * Y) /\ Congruent(M, 3 * X * X + A * Z * Z * Z * Z)
            /\ Congruent(t[1], M * M - 2 * S)
            /\ Congruent(t[2], M * (S - t[1]) - 8 * Y * Y * Y * Y)
            /\ Congruent(t[3], 2 * Y * Z)
      BY <1>3, <1>4, <1>7 DEF TangentOf
    <2>2. t[1] \in Int /\ t[2] \in Int /\ t[3] \in Int /\ t[3] \in Field
      BY <1>5, CoordinatesAre
    <2>3. t[3] # 0
      <3> DEFINE d == 2 * Y
      <3>1. d \in Int /\ d % P # 0
        BY <1>4, <1>7, TwiceZero
      <3>2. d * Z \in Int
        BY <3>1
      <3> HIDE DEF d
      <3>3. (d * Z) % P # 0
        BY <1>1, <3>1, ProductZero
      <3>4. t[3] % P = (d * Z) % P
        BY <2>1, <2>2, <3>2, CongruentIs DEF d
      <3> QED BY <2>2, <3>3, <3>4, PFacts, RemainderOfSmall
    <2>4. ASSUME NEW l \in Int, Congruent(2 * y * l, 3 * x * x + A)
          PROVE  ThirdAt(t, x, y, x, l)
      <3> DEFINE X3 == t[1]  Y3 == t[2]  ZN == t[3]
      <3>1. /\ X3 \in Int /\ Y3 \in Int /\ ZN \in Int
            /\ Congruent(X3, M * M - 2 * S)
            /\ Congruent(Y3, M * (S - X3) - 8 * Y * Y * Y * Y)
            /\ Congruent(ZN, 2 * Y * Z)
        BY <2>1, <2>2
      <3> HIDE DEF X3, Y3, ZN
      <3>2. At(X3, Y3, ZN, l * l - 2 * x, l * (x - (l * l - 2 * x)) - y)
        BY <1>0, <1>1, <2>1, <2>4, <3>1, TangentFormula
      <3>3. l * l - 2 * x = l * l - x - x
        BY <1>0
      <3> QED BY <2>3, <3>2, <3>3 DEF ThirdAt, ThirdX, ThirdY, X3, Y3, ZN
    <2> QED BY <1>5, <1>7, <2>4
  <1> QED BY <1>6, <1>7

----------------------------------------------------------------------------
(* The group law.                                                          *)
LEMMA CurvePointFacts ==
  ASSUME NEW q \in CurvePoints
  PROVE  /\ q = <<q[1], q[2]>> /\ q[1] \in Field /\ q[2] \in Field
         /\ q[1] \in Int /\ q[2] \in Int /\ q # O
         /\ Congruent(q[2] * q[2], (q[1] * q[1] + A) * q[1] + B)
  <1>1. q \in Field \X Field /\ ContainsPoint(q[1], q[2])
    BY DEF CurvePoints
  <1> DEFINE x == q[1]  y == q[2]
  <1>2. q = <<x, y>> /\ x \in Field /\ y \in Field
    BY <1>1
  <1>3. x \in Int /\ y \in Int
    BY <1>2, PFacts DEF Field
  <1>4. q # O
    BY <1>2 DEF O
  <1> DEFINE a == y * y  b == (x * x + A) * x + B
  <1>5. a \in Int /\ b \in Int /\ (a - b) % P = 0
    <2>1. a \in Int /\ b \in Int
      <3> HIDE DEF x, y
      <3> QED BY <1>3, PFacts
    <2> QED BY <1>1, <2>1 DEF ContainsPoint
  <1> HIDE DEF a, b
  <1>6. a % P = b % P
    BY <1>5, PFacts, DifferenceZero
  <1>7. Congruent(a, b)
    BY <1>5, <1>6, CongruentIs
  <1> QED BY <1>2, <1>3, <1>4, <1>7 DEF a, b

(* Two points of the curve with the same x are the same or opposite.       *)
LEMMA SameX ==
  ASSUME NEW q \in CurvePoints, NEW s \in CurvePoints, q[1] = s[1], q[2] # s[2]
  PROVE  (q[2] + s[2]) % P = 0
  <1> DEFINE x == q[1]  y == q[2]  z == s[2]  b == (x * x + A) * x + B
  <1>1. /\ x \in Int /\ y \in Field /\ z \in Field /\ y \in Int /\ z \in Int
        /\ Congruent(y * y, b) /\ Congruent(z * z, b) /\ y # z
    BY CurvePointFacts
  <1> HIDE DEF x, y, z
  <1>2. b \in Int
    BY <1>1, PFacts
  <1> HIDE DEF b
  <1>3. Congruent(y * y, z * z)
    BY <1>1, <1>2, CongruentSym, CongruentTrans, y * y \in Int, z * z \in Int
  <1> DEFINE d == z - y  e == y + z
  <1>4. (d * e) % P = 0
    <2>1. d * e = z * z - y * y
      BY <1>1
    <2> DEFINE f == y * y  g == z * z
    <2>2. f \in Int /\ g \in Int /\ g % P = f % P
      BY <1>1, <1>3, CongruentIs
    <2> HIDE DEF f, g, d, e
    <2>3. (g - f) % P = 0
      BY <2>2, PFacts, DifferenceZero
    <2> QED BY <2>1, <2>3 DEF f, g
  <1>5. d % P # 0
    BY <1>1, FieldDifference
  <1>6. e % P = 0
    <2>1. d \in Int /\ e \in Int
      BY <1>1
    <2> HIDE DEF d, e
    <2> QED BY <1>4, <1>5, <2>1, ProductZero
  <1> QED BY <1>6 DEF e, y, z

(* A point is the opposite of another one when the sum of their y is 0.    *)
LEMMA OppositeIs ==
  ASSUME NEW q \in CurvePoints, NEW s \in CurvePoints
  PROVE  q = RNeg(s) <=> q[1] = s[1] /\ (q[2] + s[2]) % P = 0
  <1> DEFINE y == q[2]  z == s[2]  m == - z
  <1>1. /\ q = <<q[1], y>> /\ s = <<s[1], z>> /\ y \in Field /\ y \in Int /\ z \in Int /\ s # O
        /\ m \in Int /\ y - m = y + z
    BY CurvePointFacts
  <1>2. RNeg(s) = <<s[1], m % P>>
    BY <1>1 DEF RNeg
  <1>3. y % P = y
    BY <1>1, PFacts, RemainderOfSmall DEF Field
  <1>4. (y + z) % P = 0 <=> y % P = m % P
    <2>1. (y - m) % P = 0 <=> y % P = m % P
      <3> HIDE DEF y, m
      <3> QED BY <1>1, PFacts, DifferenceZero
    <2> QED BY <1>1, <2>1
  <1> HIDE DEF y, m
  <1>5. q = <<s[1], m % P>> <=> q[1] = s[1] /\ y = m % P
    BY <1>1
  <1> QED BY <1>2, <1>3, <1>4, <1>5 DEF y

(* A linear equation modulo P that has a solution.                         *)
LEMMA SlopeExists ==
  ASSUME NEW a \in Int, a % P # 0, NEW b \in Int
  PROVE  \E m \in Field : (m * a - b) % P = 0
  <1>1. PICK i \in 0 .. P - 1 : (i * a) % P = 1
    BY PFacts, InverseExists
  <1>2. i \in Int /\ i * a \in Int /\ b * i \in Int
    BY PFacts
  <1> DEFINE m == (b * i) % P
  <1>3. m \in Field /\ m \in Int /\ Congruent(m, b * i)
    BY <1>2, Reduced, CongruentMod
  <1>4. Congruent(i * a, 1)
    <2>1. 1 % P = 1 /\ 1 \in Int
      BY PFacts, RemainderOfSmall
    <2> QED BY <1>1, <1>2, <2>1, CongruentIs
  <1> HIDE DEF m
  <1>5. Congruent(m * a, (b * i) * a)
    BY <1>2, <1>3, CongruentTimes
  <1>6. Congruent((i * a) * b, 1 * b)
    BY <1>2, <1>4, CongruentTimes, 1 \in Int
  <1>7. (b * i) * a = (i * a) * b /\ 1 * b = b /\ m * a \in Int /\ (i * a) * b \in Int
    BY <1>2, <1>3
  <1>8. Congruent(m * a, b)
    BY <1>5, <1>6, <1>7, CongruentTrans
  <1>9. (m * a - b) % P = 0
    <2> DEFINE c == m * a
    <2>1. c \in Int /\ c % P = b % P
      BY <1>7, <1>8, CongruentIs
    <2> HIDE DEF c
    <2>2. (c - b) % P = 0
      BY <2>1, PFacts, DifferenceZero
    <2> QED BY <2>2 DEF c
  <1> QED BY <1>3, <1>9

Slope(q, s, l) ==
    IF q = s THEN Congruent(2 * q[2] * l, 3 * q[1] * q[1] + A)
    ELSE Congruent(l * (s[1] - q[1]), s[2] - q[2])

(* Every line through two points that are not opposite has a slope; what   *)
(* RAdd chooses is the only one, but that does not matter here.            *)
LEMMA RAddIs ==
  ASSUME NEW q \in CurvePoints, NEW s \in CurvePoints, q # RNeg(s)
  PROVE  /\ q # s => q[1] # s[1]
         /\ q = s => q[2] # 0
         /\ \E l \in Field : Slope(q, s, l) /\ RAdd(q, s) = Third(q[1], q[2], s[1], l)
  <1> DEFINE x1 == q[1]  y1 == q[2]  x2 == s[1]  y2 == s[2]
             tangent(m) == (2 * y1 * m - 3 * x1 * x1 - A) % P = 0
             chord(m) == (m * (x2 - x1) - (y2 - y1)) % P = 0
             l == IF q = s THEN CHOOSE m \in Field : tangent(m) ELSE CHOOSE m \in Field : chord(m)
  <1>1. /\ q = <<x1, y1>> /\ s = <<x2, y2>> /\ q # O /\ s # O
        /\ x1 \in Field /\ y1 \in Field /\ x2 \in Field /\ y2 \in Field
        /\ x1 \in Int /\ y1 \in Int /\ x2 \in Int /\ y2 \in Int
    BY CurvePointFacts
  <1>2. x1 = x2 => (y1 + y2) % P # 0
    BY OppositeIs
  <1>3. ASSUME q # s PROVE x1 # x2
    BY <1>1, <1>2, <1>3, SameX
  <1>4. ASSUME q = s PROVE y1 # 0
    <2> SUFFICES ASSUME y1 = 0 PROVE FALSE
      OBVIOUS
    <2>1. y1 + y2 = 0
      BY <1>4
    <2> QED BY <1>2, <1>4, <2>1, PFacts, RemainderOfSmall
  <1>5. RAdd(q, s) = <<(l * l - x1 - x2) % P,
                       (l * (x1 - ((l * l - x1 - x2) % P)) - y1) % P>>
    BY <1>1 DEF RAdd
  <1>6. l \in Field /\ Slope(q, s, l)
    <2>1. CASE q = s
      <3>1. \E m \in Field : tangent(m)
        <4> DEFINE a == 2 * y1  b == 3 * x1 * x1 + A
        <4>1. a \in Int /\ b \in Int
          BY <1>1, PFacts
        <4>2. a % P # 0
          <5>1. y1 % P = y1
            BY <1>1, PFacts, RemainderOfSmall DEF Field
          <5> QED BY <1>1, <1>4, <2>1, <5>1, TwiceZero
        <4>3. \E m \in Field : (m * a - b) % P = 0
          <5> HIDE DEF a, b
          <5> QED BY <4>1, <4>2, SlopeExists
        <4>4. ASSUME NEW m \in Field PROVE m * a - b = 2 * y1 * m - 3 * x1 * x1 - A
          <5>1. m \in Int
            BY PFacts DEF Field
          <5> HIDE DEF x1, y1
          <5> QED BY <1>1, <5>1, PFacts
        <4> HIDE DEF a, b, x1, y1
        <4> QED BY <4>3, <4>4
      <3>2. l = CHOOSE m \in Field : tangent(m)
        BY <2>1
      <3> HIDE DEF l
      <3>3. l \in Field /\ tangent(l)
        <4> HIDE DEF tangent
        <4> QED BY <3>1, <3>2, Zenon
      <3>4. l \in Int
        BY <3>3, PFacts DEF Field
      <3> DEFINE a == 2 * y1 * l  b == 3 * x1 * x1 + A
      <3>5. a \in Int /\ b \in Int /\ a - b = 2 * y1 * l - 3 * x1 * x1 - A
        <4> HIDE DEF x1, y1
        <4> QED BY <1>1, <3>4, PFacts
      <3>6. (a - b) % P = 0
        BY <3>3, <3>5
      <3>7. Congruent(a, b)
        <4> HIDE DEF a, b
        <4>1. a % P = b % P
          BY <3>5, <3>6, PFacts, DifferenceZero
        <4> QED BY <3>5, <4>1, CongruentIs
      <3> QED BY <2>1, <3>3, <3>7 DEF Slope
    <2>2. CASE q # s
      <3> DEFINE a == x2 - x1  b == y2 - y1
      <3>1. a \in Int /\ b \in Int /\ a % P # 0
        BY <1>1, <1>3, <2>2, FieldDifference
      <3>2. l = CHOOSE m \in Field : chord(m)
        BY <2>2
      <3>3. \E m \in Field : chord(m)
        <4>1. \E m \in Field : (m * a - b) % P = 0
          <5> HIDE DEF a, b
          <5> QED BY <3>1, SlopeExists
        <4> QED BY <4>1
      <3> HIDE DEF l
      <3>4. l \in Field /\ chord(l)
        <4> HIDE DEF chord
        <4> QED BY <3>2, <3>3, Zenon
      <3>5. l \in Int
        BY <3>4, PFacts DEF Field
      <3>6. Congruent(l * a, b)
        <4> DEFINE c == l * a
        <4>1. c \in Int /\ (c - b) % P = 0
          BY <3>1, <3>4, <3>5
        <4> HIDE DEF c, b
        <4>2. c % P = b % P
          BY <3>1, <4>1, PFacts, DifferenceZero
        <4> QED BY <3>1, <4>1, <4>2, CongruentIs DEF c
      <3> QED BY <2>2, <3>4, <3>6 DEF Slope
    <2> QED BY <2>1, <2>2
  <1>7. RAdd(q, s) = Third(x1, y1, x2, l)
    <2> HIDE DEF l, x1, y1, x2, y2
    <2> DEFINE a == l * l - x1 - x2  r == a % P
    <2>1. l \in Int
      BY <1>6, PFacts DEF Field
    <2>2. a \in Int /\ r \in Int /\ Congruent(r, a)
      BY <1>1, <2>1, CongruentMod
    <2>3. (l * (x1 - r) - y1) % P = (l * (x1 - a) - y1) % P
      <3> HIDE DEF a, r
      <3>1. PICK k \in Int : r = a + k * P
        BY <2>2 DEF Congruent
      <3> DEFINE u == l * (x1 - r) - y1  v == l * (x1 - a) - y1  e == - (l * k)
      <3>2. u \in Int /\ v \in Int /\ e \in Int
        BY <1>1, <2>1, <2>2
      <3>3. u = v + e * P
        BY <1>1, <2>1, <2>2, <3>1, PFacts
      <3> HIDE DEF u, v, e
      <3>4. u % P = v % P
        BY <3>2, <3>3, PFacts, SameRemainder
      <3> QED BY <3>4 DEF u, v
    <2> QED BY <1>5, <2>3 DEF Third, ThirdX, ThirdY
  <1> HIDE DEF l
  <1> QED BY <1>3, <1>4, <1>6, <1>7

----------------------------------------------------------------------------
(* What a triple says of a point of the group.                             *)
Yields(t, q) ==
    /\ t \in Coordinates
    /\ IF q = O THEN t[3] = 0 ELSE t[3] # 0 /\ At(t[1], t[2], t[3], q[1], q[2])

LEMMA AtReduced ==
  ASSUME NEW X \in Int, NEW Y \in Int, NEW Z \in Int, NEW x \in Int, NEW y \in Int,
         NEW u \in Int, NEW v \in Int, At(X, Y, Z, x, y), Congruent(x, u), Congruent(y, v)
  PROVE  At(X, Y, Z, u, v)
  <1> DEFINE z2 == Z * Z  z3 == Z * Z * Z
  <1>1. /\ z2 \in Int /\ z3 \in Int
        /\ x * Z * Z = x * z2 /\ u * Z * Z = u * z2
        /\ y * Z * Z * Z = y * z3 /\ v * Z * Z * Z = v * z3
    OBVIOUS
  <1> HIDE DEF z2, z3
  <1>2. Congruent(x * z2, u * z2) /\ Congruent(y * z3, v * z3)
    BY <1>1, CongruentTimes
  <1>3. Congruent(X, x * z2) /\ Congruent(Y, y * z3)
    BY <1>1 DEF At
  <1>4. x * z2 \in Int /\ u * z2 \in Int /\ y * z3 \in Int /\ v * z3 \in Int
    BY <1>1
  <1>5. Congruent(X, u * z2) /\ Congruent(Y, v * z3)
    BY <1>2, <1>3, <1>4, CongruentTrans
  <1> QED BY <1>1, <1>5 DEF At

LEMMA ThirdYields ==
  ASSUME NEW t \in Coordinates, NEW x1 \in Int, NEW y1 \in Int, NEW x2 \in Int, NEW l \in Int,
         ThirdAt(t, x1, y1, x2, l)
  PROVE  Yields(t, Third(x1, y1, x2, l))
  <1> DEFINE x == ThirdX(x1, x2, l)  y == ThirdY(x1, y1, x2, l)  u == x % P  v == y % P
  <1>1. x \in Int /\ y \in Int
    BY ThirdTypes
  <1>2. t[1] \in Int /\ t[2] \in Int /\ t[3] \in Int /\ t[3] # 0 /\ At(t[1], t[2], t[3], x, y)
    BY CoordinatesAre DEF ThirdAt
  <1> HIDE DEF x, y
  <1>3. u \in Int /\ v \in Int /\ Congruent(x, u) /\ Congruent(y, v)
    BY <1>1, CongruentMod
  <1>4. At(t[1], t[2], t[3], u, v)
    <2> DEFINE X == t[1]  Y == t[2]  Z == t[3]
    <2>1. X \in Int /\ Y \in Int /\ Z \in Int /\ At(X, Y, Z, x, y)
      BY <1>2
    <2> HIDE DEF X, Y, Z, u, v
    <2>2. At(X, Y, Z, u, v)
      BY <1>1, <1>3, <2>1, AtReduced
    <2> QED BY <2>2 DEF X, Y, Z
  <1> HIDE DEF u, v
  <1>5. Third(x1, y1, x2, l) = <<u, v>> /\ <<u, v>> # O
    BY DEF Third, x, y, u, v, O
  <1> QED BY <1>2, <1>4, <1>5 DEF Yields

(* Doubling a triple of a point of the curve yields the double.            *)
LEMMA DoubleYields ==
  ASSUME NEW t, NEW q \in CurvePoints, DoubleOf(t, q[1], q[2])
  PROVE  Yields(t, RAdd(q, q))
  <1> DEFINE x == q[1]  y == q[2]
  <1>1. q = <<x, y>> /\ x \in Field /\ y \in Field /\ x \in Int /\ y \in Int /\ q # O
    BY CurvePointFacts
  <1>2. /\ t \in Coordinates
        /\ IF y = 0 THEN t[3] = 0
           ELSE \A l \in Int : Congruent(2 * y * l, 3 * x * x + A) => ThirdAt(t, x, y, x, l)
    BY <1>1, TangentThird
  <1>3. CASE q = RNeg(q)
    <2>1. (y + y) % P = 0
      BY <1>3, OppositeIs
    <2>2. y = 0
      <3>1. y + y = 2 * y /\ y % P = y
        BY <1>1, PFacts, RemainderOfSmall DEF Field
      <3> QED BY <1>1, <2>1, <3>1, TwiceZero
    <2>3. RAdd(q, q) = O
      BY <1>1, <1>3 DEF RAdd
    <2> QED BY <1>2, <2>2, <2>3 DEF Yields
  <1>4. CASE q # RNeg(q)
    <2>1. PICK l \in Field : Slope(q, q, l) /\ RAdd(q, q) = Third(x, y, x, l)
      BY <1>4, RAddIs
    <2>2. l \in Int /\ y # 0
      BY <1>4, RAddIs, PFacts DEF Field
    <2>3. ThirdAt(t, x, y, x, l)
      BY <1>2, <2>1, <2>2 DEF Slope
    <2> HIDE DEF x, y
    <2> QED BY <1>1, <1>2, <2>1, <2>2, <2>3, ThirdYields
  <1> QED BY <1>3, <1>4

(* The points of a vertical chord are opposite.                            *)
LEMMA ChordVertical ==
  ASSUME NEW t, NEW x1 \in Int, NEW y1 \in Int, NEW x2 \in Int, NEW y2 \in Int,
         ChordBetween(t, x1, y1, x2, y2)
  PROVE  x1 = x2 => t[3] = 0
  <1> DEFINE dx == x2 - x1  dy == y2 - y1
  <1>1. PICK U, S, W, H, R \in Int, c \in {1, 2} :
          /\ W % P # 0 /\ At(U, S, W, x1, y1) /\ At(H, R, W, x2 - x1, y2 - y1)
          /\ ChordOf(t, U, S, W, H, R, c)
    BY DEF ChordBetween
  <1>0. At(H, R, W, dx, dy)
    BY <1>1
  <1> SUFFICES ASSUME x1 = x2 PROVE t[3] = 0
    OBVIOUS
  <1>2. dx \in Int /\ dy \in Int /\ dx = 0
    OBVIOUS
  <1> HIDE DEF dx, dy
  <1>3. H % P = 0
    <2>1. ZeroTogether(H, dx)
      BY <1>0, <1>1, <1>2, AtZero
    <2> QED BY <1>2, <2>1, PFacts, RemainderOfSmall DEF ZeroTogether
  <1>4. t[3] \in Int /\ t[3] \in Field /\ Congruent(t[3], c * W * H)
    BY <1>1, CoordinatesAre DEF ChordOf
  <1> DEFINE d == c * W  e == d * H
  <1>5. d \in Int /\ e \in Int
    OBVIOUS
  <1>6. e % P = 0
    <2> HIDE DEF d
    <2> QED BY <1>3, <1>5, ProductZero
  <1>7. t[3] % P = 0
    BY <1>4, <1>5, <1>6, CongruentIs
  <1> QED BY <1>4, <1>7, PFacts, RemainderOfSmall DEF Field

LEMMA ChordYields ==
  ASSUME NEW t, NEW q \in CurvePoints, NEW s \in CurvePoints, q # s,
         ChordBetween(t, q[1], q[2], s[1], s[2]) \/ ChordBetween(t, s[1], s[2], q[1], q[2])
  PROVE  Yields(t, RAdd(q, s))
  <1> DEFINE x1 == q[1]  y1 == q[2]  x2 == s[1]  y2 == s[2]
  <1>1. /\ q = <<x1, y1>> /\ s = <<x2, y2>> /\ q # O /\ s # O
        /\ x1 \in Field /\ y1 \in Field /\ x2 \in Field /\ y2 \in Field
        /\ x1 \in Int /\ y1 \in Int /\ x2 \in Int /\ y2 \in Int
    BY CurvePointFacts
  <1>2. t \in Coordinates
    BY DEF ChordBetween, ChordOf
  <1>3. ASSUME NEW l \in Int, Congruent(l * (x2 - x1), y2 - y1)
        PROVE  IF x1 = x2 THEN t[3] = 0
               ELSE ThirdAt(t, x1, y1, x2, l) \/ ThirdAt(t, x2, y2, x1, l)
    <2> HIDE DEF x1, y1, x2, y2
    <2>1. Congruent(l * (x1 - x2), y1 - y2)
      BY <1>1, <1>3, ThirdOfOther
    <2>2. ChordBetween(t, x1, y1, x2, y2) \/ ChordBetween(t, x2, y2, x1, y1)
      BY DEF x1, y1, x2, y2
    <2> QED BY <1>1, <1>3, <2>1, <2>2, ChordThird
  <1>4. CASE q = RNeg(s)
    <2>1. x1 = x2
      BY <1>4, OppositeIs
    <2>2. RAdd(q, s) = O
      BY <1>1, <1>4 DEF RAdd
    <2>3. t[3] = 0
      <3> HIDE DEF x1, y1, x2, y2
      <3>1. ChordBetween(t, x1, y1, x2, y2) \/ ChordBetween(t, x2, y2, x1, y1)
        BY DEF x1, y1, x2, y2
      <3> QED BY <1>1, <2>1, <3>1, ChordVertical
    <2> QED BY <1>2, <2>2, <2>3 DEF Yields
  <1>5. CASE q # RNeg(s)
    <2>1. PICK l \in Field : Slope(q, s, l) /\ RAdd(q, s) = Third(x1, y1, x2, l)
      BY <1>5, RAddIs
    <2>2. l \in Int /\ x1 # x2
      BY <1>5, RAddIs, PFacts DEF Field
    <2>3. Congruent(l * (x2 - x1), y2 - y1)
      BY <2>1 DEF Slope
    <2>4. ThirdAt(t, x1, y1, x2, l) \/ ThirdAt(t, x2, y2, x1, l)
      BY <1>3, <2>2, <2>3
    <2> HIDE DEF x1, y1, x2, y2
    <2>5. Third(x2, y2, x1, l) = Third(x1, y1, x2, l)
      <3>1. /\ ThirdX(x2, x1, l) = ThirdX(x1, x2, l)
            /\ Congruent(ThirdY(x2, y2, x1, l), ThirdY(x1, y1, x2, l))
        BY <1>1, <2>2, <2>3, ThirdOfOther
      <3>2. ThirdY(x2, y2, x1, l) \in Int /\ ThirdY(x1, y1, x2, l) \in Int
        BY <1>1, <2>2, ThirdTypes
      <3>3. ThirdY(x2, y2, x1, l) % P = ThirdY(x1, y1, x2, l) % P
        BY <3>1, <3>2, CongruentIs
      <3> QED BY <3>1, <3>3 DEF Third
    <2> QED BY <1>1, <1>2, <2>1, <2>2, <2>4, <2>5, ThirdYields
  <1> QED BY <1>4, <1>5

----------------------------------------------------------------------------
(* The curve is closed under the chord and tangent rule.                   *)

(* How far a point is off the curve.                                       *)
Off(x, y) == y * y - ((x * x + A) * x + B)

LEMMA OnCurveIs ==
  ASSUME NEW x \in Int, NEW y \in Int, NEW u \in Int, NEW v \in Int,
         Congruent(u, x), Congruent(v, y), Congruent(Off(x, y), 0)
  PROVE  ContainsPoint(u, v)
  <1>1. Congruent(u * u, x * x) /\ Congruent(v * v, y * y)
    BY CongruentMul
  <1>2. Congruent(A, A) /\ Congruent(B, B)
    BY PFacts, CongruentMod
  <1> DEFINE a == x * x + A  b == u * u + A
  <1>3. a \in Int /\ b \in Int /\ Congruent(b, a)
    <2> DEFINE c == u * u  d == x * x
    <2>1. c \in Int /\ d \in Int /\ Congruent(c, d)
      BY <1>1
    <2> HIDE DEF c, d
    <2>2. Congruent(c + A, d + A) /\ c + A \in Int /\ d + A \in Int
      BY <1>2, <2>1, PFacts, CongruentAdd
    <2> QED BY <2>2 DEF c, d
  <1> HIDE DEF a, b
  <1> DEFINE f == a * x  g == b * u
  <1>4. f \in Int /\ g \in Int /\ Congruent(g, f)
    BY <1>3, CongruentMul
  <1> HIDE DEF f, g
  <1> DEFINE h == f + B  k == g + B  m == y * y  n == v * v
  <1>5. h \in Int /\ k \in Int /\ Congruent(k, h)
    BY <1>2, <1>4, PFacts, CongruentAdd
  <1>6. m \in Int /\ n \in Int /\ Congruent(n, m)
    BY <1>1
  <1> HIDE DEF h, k, m, n
  <1>7. Congruent(n - k, m - h) /\ n - k \in Int /\ m - h \in Int
    BY <1>5, <1>6, CongruentAdd
  <1>8. Congruent(m - h, 0)
    BY DEF Off, h, m, f, a
  <1>9. Congruent(n - k, 0)
    BY <1>7, <1>8, CongruentTrans, 0 \in Int
  <1>10. (n - k) % P = 0
    BY <1>7, <1>9, CongruentZero
  <1> QED BY <1>10 DEF ContainsPoint, n, k, g, b

(* The line of slope l through <<x1, y1>> meets the curve where x = x1 and *)
(* where this is 0.                                                        *)
Secant(x, x1, y1, l) == l * l * (x - x1) + 2 * l * y1 - (x * x + x * x1 + x1 * x1) - A

LEMMA SecantIs ==
  ASSUME NEW x \in Int, NEW x1 \in Int, NEW y1 \in Int, NEW l \in Int
  PROVE  /\ Secant(x, x1, y1, l) \in Int /\ Off(x1, y1) \in Int
         /\ Off(x, l * (x - x1) + y1) = Off(x1, y1) + (x - x1) * Secant(x, x1, y1, l)
         /\ Off(x, - (l * (x - x1) + y1)) = Off(x, l * (x - x1) + y1)
  <1>1. Secant(x, x1, y1, l) \in Int /\ Off(x1, y1) \in Int
    BY PFacts DEF Secant, Off
  <1>2. Off(x, l * (x - x1) + y1) = Off(x1, y1) + (x - x1) * Secant(x, x1, y1, l)
    BY PFacts DEF Secant, Off
  <1>3. Off(x, - (l * (x - x1) + y1)) = Off(x, l * (x - x1) + y1)
    <2> DEFINE a == l * (x - x1) + y1
    <2>1. a \in Int
      OBVIOUS
    <2> HIDE DEF a
    <2>2. (- a) * (- a) = a * a
      BY <2>1
    <2>3. Off(x, - a) = Off(x, a)
      BY <2>2 DEF Off
    <2> QED BY <2>3 DEF a
  <1> QED BY <1>1, <1>2, <1>3

LEMMA OffZero ==
  ASSUME NEW q \in CurvePoints
  PROVE  Off(q[1], q[2]) \in Int /\ Off(q[1], q[2]) % P = 0
  <1> DEFINE x == q[1]  y == q[2]
  <1>1. x \in Int /\ y \in Int /\ ContainsPoint(x, y)
    BY CurvePointFacts DEF CurvePoints
  <1> HIDE DEF x, y
  <1>2. Off(x, y) \in Int /\ Off(x, y) % P = 0
    BY <1>1, PFacts DEF Off, ContainsPoint
  <1> QED BY <1>2 DEF x, y

(* The secant meets the second point.                                      *)
LEMMA SecantZero ==
  ASSUME NEW q \in CurvePoints, NEW s \in CurvePoints, q # RNeg(s), NEW l \in Int, Slope(q, s, l)
  PROVE  Secant(s[1], q[1], q[2], l) % P = 0
  <1> DEFINE x1 == q[1]  y1 == q[2]  x2 == s[1]  y2 == s[2]
             h == Secant(x2, x1, y1, l)  a == l * (x2 - x1)
  <1>1. /\ x1 \in Field /\ x2 \in Field
        /\ x1 \in Int /\ y1 \in Int /\ x2 \in Int /\ y2 \in Int /\ (q # s => x1 # x2)
    BY CurvePointFacts, RAddIs
  <1>2. h \in Int /\ a \in Int
    <2> HIDE DEF x1, y1, x2
    <2> QED BY <1>1, SecantIs
  <1>3. CASE q = s
    <2> DEFINE b == 2 * y1 * l  c == 3 * x1 * x1 + A
    <2>1. b \in Int /\ c \in Int /\ Congruent(b, c)
      <3>1. Congruent(b, c)
        BY <1>3 DEF Slope
      <3> HIDE DEF x1, y1
      <3>2. b \in Int /\ c \in Int
        BY <1>1, PFacts
      <3> QED BY <3>1, <3>2
    <2>2. h = b - c
      <3>1. x2 = x1
        BY <1>3
      <3> HIDE DEF x1, y1, x2
      <3>2. Secant(x1, x1, y1, l) = b - c
        BY <1>1, PFacts DEF Secant
      <3> QED BY <3>1, <3>2
    <2> HIDE DEF b, c, h
    <2>3. b % P = c % P
      BY <2>1, CongruentIs
    <2>4. (b - c) % P = 0
      BY <2>1, <2>3, PFacts, DifferenceZero
    <2> QED BY <2>2, <2>4 DEF h
  <1>4. CASE q # s
    <2> DEFINE d == x2 - x1  y == a + y1  o1 == Off(x1, y1)  o2 == Off(x2, y2)  o == Off(x2, y)
    <2>1. d \in Int /\ d % P # 0
      BY <1>1, <1>4, FieldDifference
    <2>2. o1 \in Int /\ o1 % P = 0 /\ o2 \in Int /\ o2 % P = 0
      BY OffZero
    <2>3. y \in Int /\ o \in Int
      <3>1. y \in Int
        BY <1>1, <1>2
      <3> HIDE DEF y, x2
      <3>2. o \in Int
        BY <1>1, <3>1, PFacts DEF Off
      <3> QED BY <3>1, <3>2
    <2>4. Congruent(y, y2)
      <3>1. Congruent(a, y2 - y1)
        BY <1>4 DEF Slope
      <3> HIDE DEF a, y1, y2
      <3>2. PICK k \in Int : a = y2 - y1 + k * P
        BY <3>1 DEF Congruent
      <3>3. a + y1 = y2 + k * P
        <4> DEFINE m == k * P
        <4>1. m \in Int
          BY PFacts
        <4> HIDE DEF m
        <4>2. a = y2 - y1 + m
          BY <3>2 DEF m
        <4>3. a + y1 = y2 + m
          BY <1>1, <4>1, <4>2
        <4> QED BY <4>3 DEF m
      <3> QED BY <3>3 DEF Congruent
    <2>5. o % P = 0
      <3> HIDE DEF y, x2, y2
      <3> DEFINE u == y * y  v == y2 * y2  w == (x2 * x2 + A) * x2 + B
      <3>1. u \in Int /\ v \in Int /\ w \in Int /\ Congruent(u, v)
        BY <1>1, <2>3, <2>4, PFacts, CongruentMul
      <3>2. Congruent(w, w)
        BY <3>1, CongruentMod
      <3>3. o = u - w /\ o2 = v - w
        BY DEF Off
      <3> HIDE DEF u, v, w
      <3>4. Congruent(u - w, v - w)
        BY <3>1, <3>2, CongruentAdd
      <3> HIDE DEF o, o2
      <3> QED BY <2>2, <2>3, <3>3, <3>4, CongruentIs
    <2>6. o = o1 + d * h
      <3> HIDE DEF x1, y1, x2
      <3> QED BY <1>1, SecantIs
    <2>7. (d * h) % P = 0
      <3> HIDE DEF o, o1, d, h
      <3> DEFINE e == d * h
      <3>1. e \in Int /\ e = o - o1
        BY <1>2, <2>1, <2>2, <2>3, <2>6
      <3> HIDE DEF e
      <3>2. (o - o1) % P = 0
        <4>1. o \in Int /\ o1 \in Int /\ o % P = o1 % P
          BY <2>2, <2>3, <2>5
        <4> HIDE DEF y
        <4> QED BY <4>1, PFacts, DifferenceZero
      <3> QED BY <3>1, <3>2 DEF e
    <2> HIDE DEF d, h
    <2>8. h % P = 0
      BY <1>2, <2>1, <2>7, ProductZero
    <2> QED BY <2>8 DEF h
  <1> QED BY <1>3, <1>4

LEMMA RAddClosed ==
  ASSUME NEW q \in Group, NEW s \in Group
  PROVE  RAdd(q, s) \in Group
  <1>1. CASE q = O \/ s = O \/ q = RNeg(s)
    BY <1>1 DEF RAdd, Group
  <1>2. CASE ~ (q = O \/ s = O \/ q = RNeg(s))
    <2>1. q \in CurvePoints /\ s \in CurvePoints
      BY <1>2 DEF Group
    <2>2. PICK l \in Field : Slope(q, s, l) /\ RAdd(q, s) = Third(q[1], q[2], s[1], l)
      BY <1>2, <2>1, RAddIs
    <2> DEFINE x1 == q[1]  y1 == q[2]  x2 == s[1]
               x == ThirdX(x1, x2, l)  y == ThirdY(x1, y1, x2, l)
               u == x % P  v == y % P
    <2>3. l \in Int /\ x1 \in Int /\ y1 \in Int /\ x2 \in Int
      BY <2>1, CurvePointFacts, PFacts DEF Field
    <2>4. Secant(x2, x1, y1, l) % P = 0
      BY <1>2, <2>1, <2>2, <2>3, SecantZero
    <2>5. Off(x1, y1) \in Int /\ Off(x1, y1) % P = 0
      BY <2>1, OffZero
    <2> HIDE DEF x1, y1, x2
    <2>6. x \in Int /\ y \in Int
      BY <2>3, ThirdTypes
    <2>7. x = l * l - x1 - x2 /\ y = - (l * (x - x1) + y1)
      <3>1. x = l * l - x1 - x2 /\ y = l * (x1 - x) - y1
        BY DEF ThirdX, ThirdY
      <3> HIDE DEF x, y
      <3>2. l * (x1 - x) - y1 = - (l * (x - x1) + y1)
        BY <2>3, <2>6
      <3> QED BY <3>1, <3>2
    <2> HIDE DEF x, y
    <2>8. Secant(x, x1, y1, l) = Secant(x2, x1, y1, l)
      BY <2>3, <2>7, PFacts DEF Secant
    <2>9. Off(x, y) = Off(x1, y1) + (x - x1) * Secant(x, x1, y1, l)
      BY <2>3, <2>6, <2>7, SecantIs
    <2>10. Congruent(Off(x, y), 0)
      <3> DEFINE o == Off(x1, y1)  d == x - x1  h == Secant(x, x1, y1, l)  e == d * h
      <3>1. o \in Int /\ o % P = 0 /\ d \in Int /\ h \in Int /\ h % P = 0 /\ Off(x, y) = o + e
        BY <2>3, <2>4, <2>5, <2>6, <2>8, <2>9, SecantIs
      <3> HIDE DEF o, d, h
      <3>2. e \in Int /\ e % P = 0
        <4>1. d \in Int /\ h \in Int /\ h % P = 0
          BY <3>1
        <4>2. (d * h) % P = 0
          BY <4>1, ProductZero
        <4>3. d * h \in Int
          BY <4>1
        <4> QED BY <4>2, <4>3
      <3> HIDE DEF e
      <3>3. Congruent(o, 0) /\ Congruent(e, 0) /\ 0 \in Int
        BY <3>1, <3>2, CongruentZero
      <3>4. Congruent(o + e, 0 + 0)
        BY <3>1, <3>2, <3>3, CongruentAdd
      <3> QED BY <3>1, <3>4
    <2>11. u \in Field /\ v \in Field /\ u \in Int /\ v \in Int /\ Congruent(u, x) /\ Congruent(v, y)
      BY <2>6, Reduced, CongruentMod
    <2> HIDE DEF u, v
    <2>12. ContainsPoint(u, v)
      BY <2>6, <2>10, <2>11, OnCurveIs
    <2>13. <<u, v>> \in CurvePoints
      BY <2>11, <2>12 DEF CurvePoints
    <2>14. RAdd(q, s) = <<u, v>>
      BY <2>2 DEF Third, x, y, u, v, x1, y1, x2
    <2> QED BY <2>13, <2>14 DEF Group
  <1> QED BY <1>1, <1>2

----------------------------------------------------------------------------
(* The formulas of PointJacobi compute the group law.                      *)

(* _add of two triples with any denominators: the result is the sum of     *)
(* what they stand for in either order, a point of the group, unless they  *)
(* are the same point with Z = 1 and different Y, which _add_with_z_1 does *)
(* not recognize.                                                          *)
THEOREM AdditionIsGroupLaw ==
  ASSUME NEW X1 \in Field, NEW Y1 \in Int, NEW Z1 \in 1 .. P - 1,
         NEW X2 \in Field, NEW Y2 \in Int, NEW Z2 \in 1 .. P - 1,
         NEW q \in CurvePoints, NEW s \in CurvePoints,
         At(X1, Y1, Z1, q[1], q[2]), At(X2, Y2, Z2, s[1], s[2]),
         ~ (Z1 = 1 /\ Z2 = 1 /\ X1 = X2 /\ Y1 # Y2 /\ (Y1 - Y2) % P = 0)
  PROVE  LET t == AddTriples(X1, Y1, Z1, X2, Y2, Z2)
         IN Yields(t, RAdd(q, s)) /\ Yields(t, RAdd(s, q)) /\ RAdd(q, s) \in Group
  <1> DEFINE t == AddTriples(X1, Y1, Z1, X2, Y2, Z2)
             x1 == q[1]  y1 == q[2]  x2 == s[1]  y2 == s[2]
  <1>1. /\ q = <<x1, y1>> /\ s = <<x2, y2>>
        /\ x1 \in Field /\ y1 \in Field /\ x2 \in Field /\ y2 \in Field
    BY CurvePointFacts
  <1>2. X1 \in Int /\ X2 \in Int
    BY PFacts DEF Field
  <1>3. ASSUME (X2 - X1) % P = 0, (Y2 - Y1) % P = 0, Z1 = 1, Z2 = 1
        PROVE  X1 = X2 /\ Y1 = Y2
    <2>1. X1 = X2
      BY <1>3, FieldDifference
    <2>2. (Y1 - Y2) % P = 0
      <3>1. Y2 % P = Y1 % P
        BY <1>3, PFacts, DifferenceZero
      <3> QED BY <3>1, PFacts, DifferenceZero
    <2> QED BY <1>3, <2>1, <2>2
  <1>4. IF x1 = x2 /\ y1 = y2 THEN DoubleOf(t, x1, y1)
        ELSE ChordBetween(t, x1, y1, x2, y2) \/ ChordBetween(t, x2, y2, x1, y1)
    <2> HIDE DEF x1, y1, x2, y2
    <2>1. At(X1, Y1, Z1, x1, y1) /\ At(X2, Y2, Z2, x2, y2)
      BY DEF x1, y1, x2, y2
    <2> QED BY <1>1, <1>2, <1>3, <2>1, AddTriplesSum
  <1> HIDE DEF t
  <1>5. ASSUME q = s PROVE Yields(t, RAdd(q, s)) /\ Yields(t, RAdd(s, q))
    BY <1>4, <1>5, DoubleYields
  <1>6. ASSUME q # s PROVE Yields(t, RAdd(q, s)) /\ Yields(t, RAdd(s, q))
    <2>1. \/ ChordBetween(t, q[1], q[2], s[1], s[2])
          \/ ChordBetween(t, s[1], s[2], q[1], q[2])
      BY <1>1, <1>4, <1>6
    <2> QED BY <1>6, <2>1, ChordYields
  <1>7. RAdd(q, s) \in Group
    BY RAddClosed DEF Group
  <1>8. Yields(t, RAdd(q, s)) /\ Yields(t, RAdd(s, q))
    BY <1>5, <1>6
  <1> QED BY <1>7, <1>8 DEF t

(* _double of a triple with any denominator yields the double of the point *)
(* it stands for.                                                          *)
THEOREM DoublingIsGroupLaw ==
  ASSUME NEW X \in Int, NEW Y \in Int, NEW Z \in 1 .. P - 1,
         NEW q \in CurvePoints, At(X, Y, Z, q[1], q[2])
  PROVE  Yields(DoubleTriple(X, Y, Z), RAdd(q, q)) /\ RAdd(q, q) \in Group
  <1>1. Z \in Int /\ Z % P # 0
    BY PFacts, RemainderOfSmall
  <1>2. DoubleOf(DoubleTriple(X, Y, Z), q[1], q[2])
    BY <1>1 DEF DoubleOf
  <1>3. RAdd(q, q) \in Group
    BY RAddClosed DEF Group
  <1> QED BY <1>2, <1>3, DoubleYields

----------------------------------------------------------------------------
(* Reading coordinates back.                                               *)

(* Dividing by Z twice and three times.                                    *)
LEMMA Divided ==
  ASSUME NEW a \in Int, NEW z \in Int, NEW i \in Int, NEW u \in Int, Congruent(i * z, 1)
  PROVE  /\ Congruent(a, u * z * z) <=> Congruent(a * i * i, u)
         /\ Congruent(a, u * z * z * z) <=> Congruent(a * i * i * i, u)
  <1> DEFINE e == i * z  e2 == e * e  e3 == e2 * e  z2 == z * z  z3 == z * z * z
             i2 == i * i  i3 == i * i * i
  <1>1. e \in Int /\ Congruent(e, 1) /\ 1 \in Int /\ 1 * 1 = 1
    OBVIOUS
  <1>2. e2 \in Int /\ Congruent(e2, 1)
    <2> HIDE DEF e
    <2>1. Congruent(e * e, 1 * 1)
      BY <1>1, CongruentMul
    <2> QED BY <1>1, <2>1
  <1>3. e3 \in Int /\ Congruent(e3, 1)
    <2> HIDE DEF e, e2
    <2>1. Congruent(e2 * e, 1 * 1)
      BY <1>1, <1>2, CongruentMul
    <2> QED BY <1>1, <1>2, <2>1
  <1>4. /\ z2 \in Int /\ z3 \in Int /\ i2 \in Int /\ i3 \in Int
        /\ e2 = i2 * z2 /\ e3 = i3 * z3
        /\ u * z * z = u * z2 /\ u * z * z * z = u * z3
        /\ a * i * i = a * i2 /\ a * i * i * i = a * i3
    OBVIOUS
  <1> HIDE DEF e, e2, e3, z2, z3, i2, i3
  <1>5. ASSUME NEW c \in Int, NEW d \in Int, NEW f \in Int, f = d * c, Congruent(f, 1)
        PROVE  Congruent(a, u * c) <=> Congruent(a * d, u)
    <2> DEFINE v == u * c  w == a * d
    <2>1. v \in Int /\ w \in Int /\ v * d = f * u /\ w * c = f * a /\ 1 * u = u /\ 1 * a = a
      BY <1>5
    <2>2. /\ f * u \in Int /\ f * a \in Int /\ v * d \in Int /\ w * c \in Int
          /\ a * d \in Int /\ u * c \in Int
      BY <2>1
    <2>3. Congruent(f * u, 1 * u) /\ Congruent(1 * a, f * a)
      BY <1>5, CongruentTimes, 1 \in Int
    <2> HIDE DEF v, w
    <2>4. ASSUME Congruent(a, v) PROVE Congruent(a * d, u)
      <3>1. Congruent(a * d, v * d)
        BY <2>1, <2>4, CongruentTimes
      <3> QED BY <2>1, <2>2, <2>3, <3>1, CongruentTrans
    <2>5. ASSUME Congruent(w, u) PROVE Congruent(a, v)
      <3>1. Congruent(w * c, u * c)
        BY <2>1, <2>5, CongruentTimes
      <3>2. Congruent(a, w * c)
        BY <2>1, <2>2, <2>3
      <3>3. Congruent(a, u * c)
        BY <2>2, <3>1, <3>2, CongruentTrans
      <3> QED BY <3>3 DEF v
    <2> QED BY <2>4, <2>5 DEF v, w
  <1>6. Congruent(a, u * z2) <=> Congruent(a * i2, u)
    BY <1>2, <1>4, <1>5
  <1>7. Congruent(a, u * z3) <=> Congruent(a * i3, u)
    BY <1>3, <1>4, <1>5
  <1> QED BY <1>4, <1>6, <1>7

(* The residues are the only ones the coordinates stand for.               *)
DividesTo(x, y, i, u, v) == (x * i * i) % P = u /\ (y * i * i * i) % P = v

LEMMA ReadBack ==
  ASSUME NEW x \in Int, NEW y \in Int, NEW z \in Int, NEW i \in Int, (i * z) % P = 1,
         NEW u \in Field, NEW v \in Field
  PROVE  At(x, y, z, u, v) = DividesTo(x, y, i, u, v)
  <1>1. u \in Int /\ v \in Int /\ u % P = u /\ v % P = v
    BY PFacts, RemainderOfSmall DEF Field
  <1>2. Congruent(i * z, 1)
    <2>1. 1 % P = 1 /\ 1 \in Int /\ i * z \in Int
      BY PFacts, RemainderOfSmall
    <2> QED BY <2>1, CongruentIs
  <1>3. /\ Congruent(x, u * z * z) <=> Congruent(x * i * i, u)
        /\ Congruent(y, v * z * z * z) <=> Congruent(y * i * i * i, v)
    BY <1>1, <1>2, Divided
  <1> DEFINE a == x * i * i  b == y * i * i * i
  <1>4. a \in Int /\ b \in Int
    OBVIOUS
  <1> HIDE DEF a, b
  <1>5. (Congruent(a, u) <=> a % P = u) /\ (Congruent(b, v) <=> b % P = v)
    BY <1>1, <1>4, CongruentIs
  <1> QED BY <1>3, <1>5 DEF At, DividesTo, a, b

----------------------------------------------------------------------------
(* What the methods leave behind.                                          *)
WellFormed(pt) ==
    /\ pt \in Objects /\ pt.twin = FALSE
    /\ pt # INFINITY =>
         /\ pt.class \in {"jacobi", "affine"}
         /\ pt.x \in Field /\ pt.y \in - P .. 2 * P /\ pt.z \in 1 .. P - 1
         /\ pt.class = "affine" => pt.z = 1

StandsFor(pt, q) ==
    /\ q \in Group
    /\ IF pt = INFINITY THEN q = O ELSE q # O /\ At(pt.x, pt.y, pt.z, q[1], q[2])

Good(pt, q) == WellFormed(pt) /\ StandsFor(pt, q)

LEMMA ObjectIs ==
  ASSUME NEW pt \in Objects
  PROVE  /\ pt = [class |-> pt.class, x |-> pt.x, y |-> pt.y, z |-> pt.z, n |-> pt.n,
                  twin |-> pt.twin]
         /\ pt.class \in {"jacobi", "affine", "infinity"}
         /\ pt.x \in Int /\ pt.y \in Int /\ pt.z \in Int /\ pt.n \in Nat /\ pt.twin \in BOOLEAN
         /\ pt.twin = FALSE => Flagged(pt, FALSE) = pt
  BY DEF Objects, Flagged

LEMMA InfinityIs ==
  /\ INFINITY \in Objects /\ INFINITY.class = "infinity" /\ INFINITY.z = 0
  /\ INFINITY.twin = FALSE /\ Good(INFINITY, O)
  <1>1. /\ INFINITY \in Objects /\ INFINITY.class = "infinity" /\ INFINITY.z = 0
        /\ INFINITY.twin = FALSE
    BY DEF INFINITY, Object, Objects
  <1> QED BY <1>1 DEF Good, WellFormed, StandsFor, Group

(* What is known of a well-formed point that is not INFINITY.              *)
LEMMA FiniteIs ==
  ASSUME NEW pt, NEW q, Good(pt, q), pt # INFINITY
  PROVE  /\ pt.class \in {"jacobi", "affine"} /\ pt.z \in 1 .. P - 1 /\ pt.z # 0
         /\ pt.x \in Field /\ pt.x \in Int /\ pt.y \in Int /\ pt.z \in Int /\ pt.n \in Nat
         /\ pt.z % P = pt.z /\ pt \in Objects /\ pt.y \in - P .. 2 * P
         /\ q \in CurvePoints /\ At(pt.x, pt.y, pt.z, q[1], q[2])
         /\ Triple(pt) = <<pt.x, pt.y, pt.z, FALSE>> /\ Triple(pt) \in Triples
  <1>1. /\ pt \in Objects /\ pt.twin = FALSE /\ pt.class \in {"jacobi", "affine"}
        /\ pt.x \in Field /\ pt.y \in - P .. 2 * P /\ pt.z \in 1 .. P - 1
    BY DEF Good, WellFormed
  <1>2. pt.x \in Int /\ pt.y \in Int /\ pt.z \in Int /\ pt.n \in Nat
    BY <1>1, ObjectIs
  <1>3. pt.z % P = pt.z /\ pt.z # 0
    BY <1>1, PFacts, RemainderOfSmall
  <1>4. q \in CurvePoints /\ At(pt.x, pt.y, pt.z, q[1], q[2])
    BY DEF Good, StandsFor, Group
  <1>5. Triple(pt) = <<pt.x, pt.y, pt.z, FALSE>>
    BY <1>1 DEF Triple
  <1>6. <<pt.x, pt.y, pt.z, FALSE>> \in Triples
    BY <1>2 DEF Triples
  <1> QED BY <1>1, <1>2, <1>3, <1>4, <1>5, <1>6

(* What INFINITY and the others are told apart by.                         *)
LEMMA InfinityTold ==
  ASSUME NEW pt, NEW q, Good(pt, q)
  PROVE  /\ pt = INFINITY <=> pt.z = 0
         /\ pt = INFINITY <=> pt.class = "infinity"
         /\ pt = INFINITY <=> q = O
         /\ pt \in Objects /\ pt.twin = FALSE /\ q \in Group
  <1>1. pt \in Objects /\ pt.twin = FALSE /\ q \in Group
    BY DEF Good, WellFormed, StandsFor
  <1>2. CASE pt = INFINITY
    BY <1>1, <1>2, InfinityIs DEF Good, StandsFor
  <1>3. CASE pt # INFINITY
    BY <1>1, <1>3, FiniteIs DEF Good, StandsFor
  <1> QED BY <1>2, <1>3

(* A new object with Z in the field.                                       *)
LEMMA ObjectGood ==
  ASSUME NEW class \in {"jacobi", "affine"}, NEW x \in Field, NEW y \in - P .. 2 * P,
         NEW z \in 1 .. P - 1, NEW n \in Nat, NEW q \in CurvePoints,
         At(x, y, z, q[1], q[2]), class = "affine" => z = 1
  PROVE  Good(Object(class, x, y, z, n), q)
  <1> DEFINE pt == Object(class, x, y, z, n)
  <1>1. x \in Int /\ y \in Int /\ z \in Int /\ z # 0
    BY PFacts DEF Field
  <1>2. /\ pt.class = class /\ pt.x = x /\ pt.y = y /\ pt.z = z /\ pt.n = n
        /\ pt.twin = FALSE
    BY DEF Object
  <1>3. pt \in Objects
    BY <1>1 DEF Object, Objects
  <1>4. pt # INFINITY
    BY <1>1, <1>2, InfinityIs
  <1>5. q \in Group /\ q # O
    BY CurvePointFacts DEF Group
  <1> HIDE DEF pt
  <1>6. WellFormed(pt)
    BY <1>2, <1>3, <1>4 DEF WellFormed
  <1>7. StandsFor(pt, q)
    BY <1>2, <1>4, <1>5 DEF StandsFor
  <1> QED BY <1>6, <1>7 DEF Good, pt

(* `if not Z3: return INFINITY' after a formula.                           *)
LEMMA FromTripleGood ==
  ASSUME NEW t, NEW q \in Group, NEW n \in Nat, Yields(t, q)
  PROVE  Good(FromTriple(WithGhost(t, FALSE), n), q)
  <1> DEFINE u == WithGhost(t, FALSE)
  <1>1. u[1] = t[1] /\ u[2] = t[2] /\ u[3] = t[3] /\ u[4] = FALSE
    BY DEF WithGhost
  <1>2. /\ t[1] \in Int /\ t[2] \in Int /\ t[3] \in Int
        /\ t[1] \in Field /\ t[2] \in Field /\ t[3] \in Field
    <2>1. t \in Coordinates
      BY DEF Yields
    <2> QED BY <2>1, CoordinatesAre DEF Coordinates
  <1> HIDE DEF u
  <1>3. CASE t[3] = 0
    <2>1. q = O
      BY <1>3 DEF Yields
    <2>2. FromTriple(u, n) = Flagged(INFINITY, FALSE)
      BY <1>1, <1>3 DEF FromTriple
    <2>3. Flagged(INFINITY, FALSE) = INFINITY
      BY InfinityIs, ObjectIs
    <2> QED BY <2>1, <2>2, <2>3, InfinityIs DEF u
  <1>4. CASE t[3] # 0
    <2> DEFINE pt == Jacobi(t[1], t[2], t[3], n)
    <2>1. q # O /\ At(t[1], t[2], t[3], q[1], q[2]) /\ q \in CurvePoints
      BY <1>4 DEF Yields, Group
    <2>2. t[3] \in 1 .. P - 1 /\ t[2] \in - P .. 2 * P
      BY <1>2, <1>4, PFacts DEF Field
    <2>3. Good(pt, q)
      BY <1>2, <2>1, <2>2, ObjectGood DEF Jacobi
    <2>4. FromTriple(u, n) = Flagged(pt, FALSE)
      BY <1>1, <1>4 DEF FromTriple
    <2> HIDE DEF pt
    <2>5. Flagged(pt, FALSE) = pt
      BY <2>3, InfinityTold, ObjectIs
    <2> QED BY <2>3, <2>4, <2>5 DEF u
  <1> QED BY <1>3, <1>4

----------------------------------------------------------------------------
(* Doubling, addition and negation of PointJacobi.                         *)
LEMMA DoubleGood ==
  ASSUME NEW pt, NEW q, Good(pt, q), pt.class = "jacobi"
  PROVE  Good(Double(pt), RAdd(q, q))
  <1>1. pt # INFINITY
    BY InfinityIs
  <1>2. /\ pt.x \in Int /\ pt.y \in Int /\ pt.z \in 1 .. P - 1 /\ pt.z # 0 /\ pt.n \in Nat
        /\ q \in CurvePoints /\ At(pt.x, pt.y, pt.z, q[1], q[2])
        /\ Triple(pt) = <<pt.x, pt.y, pt.z, FALSE>> /\ Triple(pt) \in Triples
    BY <1>1, FiniteIs
  <1> DEFINE t == DoubleTriple(pt.x, pt.y, pt.z)
  <1>3. DoubleT[Triple(pt)] = WithGhost(t, FALSE)
    <2> DEFINE u == Triple(pt)
    <2>1. u \in Triples /\ u[1] = pt.x /\ u[2] = pt.y /\ u[3] = pt.z /\ u[4] = FALSE
      BY <1>2
    <2> HIDE DEF u
    <2>2. DoubleT[u] = WithGhost(DoubleTriple(u[1], u[2], u[3]), u[4])
      BY <2>1 DEF DoubleT
    <2> QED BY <2>1, <2>2 DEF u
  <1>4. Yields(t, RAdd(q, q)) /\ RAdd(q, q) \in Group
    BY <1>2, DoublingIsGroupLaw
  <1>5. Double(pt) = FromTriple(WithGhost(t, FALSE), pt.n)
    BY <1>2, <1>3 DEF Double
  <1> HIDE DEF t
  <1> QED BY <1>2, <1>4, <1>5, FromTripleGood

(* Unless a Twin was added, the sum is right in either order.              *)
LEMMA AddGood ==
  ASSUME NEW s, NEW q, Good(s, q), NEW o, NEW r, Good(o, r), s.class = "jacobi",
         ~ Add(s, o).twin
  PROVE  Good(Add(s, o), RAdd(q, r)) /\ Good(Add(s, o), RAdd(r, q))
  <1>1. s # INFINITY
    BY InfinityIs
  <1>2. /\ s.x \in Field /\ s.y \in Int /\ s.z \in 1 .. P - 1 /\ s.z # 0 /\ s.n \in Nat
        /\ q \in CurvePoints /\ At(s.x, s.y, s.z, q[1], q[2]) /\ q # O
        /\ Triple(s) = <<s.x, s.y, s.z, FALSE>>
    BY <1>1, FiniteIs, CurvePointFacts
  <1>3. CASE o = INFINITY
    <2>1. o.z = 0 /\ r = O
      BY <1>3, InfinityTold
    <2>2. Add(s, o) = s
      BY <1>2, <2>1 DEF Add
    <2>3. RAdd(q, r) = q /\ RAdd(r, q) = q
      BY <1>2, <2>1 DEF RAdd
    <2> QED BY <2>2, <2>3
  <1>4. CASE o # INFINITY
    <2>1. /\ o.x \in Field /\ o.y \in Int /\ o.z \in 1 .. P - 1 /\ o.z # 0
          /\ r \in CurvePoints /\ At(o.x, o.y, o.z, r[1], r[2])
          /\ Triple(o) = <<o.x, o.y, o.z, FALSE>>
      BY <1>4, FiniteIs
    <2> DEFINE t == AddTriples(s.x, s.y, s.z, o.x, o.y, o.z)
               twin == Twin(Triple(s), Triple(o))
    <2>2. Add(s, o) = FromTriple(WithGhost(t, twin), s.n)
      <3>1. Add(s, o) = FromTriple(AddT(Triple(s), Triple(o)), s.n)
        BY <1>2, <2>1 DEF Add
      <3>2. AddT(Triple(s), Triple(o)) = WithGhost(t, FALSE \/ FALSE \/ twin)
        BY <1>2, <2>1 DEF AddT
      <3>3. twin \in BOOLEAN
        BY DEF Twin
      <3> HIDE DEF twin
      <3>4. (FALSE \/ FALSE \/ twin) = twin
        BY <3>3
      <3> QED BY <3>1, <3>2, <3>4
    <2>3. twin = (s.z = 1 /\ o.z = 1 /\ s.x = o.x /\ s.y # o.y /\ (s.y - o.y) % P = 0)
      BY <1>2, <2>1 DEF Twin
    <2>4. twin \in BOOLEAN
      BY <2>3
    <2> HIDE DEF t, twin
    <2>5. twin = FALSE
      <3>1. WithGhost(t, twin)[4] = twin
        BY DEF WithGhost
      <3>2. Add(s, o).twin = twin
        BY <2>2, <3>1 DEF FromTriple, Flagged, INFINITY, Jacobi, Object
      <3> QED BY <2>4, <3>2
    <2>6. ~ (s.z = 1 /\ o.z = 1 /\ s.x = o.x /\ s.y # o.y /\ (s.y - o.y) % P = 0)
      BY <2>3, <2>5
    <2>7. Yields(t, RAdd(q, r)) /\ Yields(t, RAdd(r, q)) /\ RAdd(q, r) \in Group
      BY <1>2, <2>1, <2>6, AdditionIsGroupLaw DEF t
    <2>8. RAdd(r, q) \in Group
      BY <1>2, <2>1, RAddClosed DEF Group
    <2> QED BY <1>2, <2>2, <2>5, <2>7, <2>8, FromTripleGood
  <1> QED BY <1>3, <1>4

LEMMA RNegIs ==
  ASSUME NEW q \in CurvePoints
  PROVE  /\ RNeg(q) \in CurvePoints /\ RNeg(q) = <<q[1], (- q[2]) % P>>
         /\ (- q[2]) % P \in Field /\ Congruent((- q[2]) % P, - q[2])
  <1> DEFINE x == q[1]  y == q[2]  m == - y  v == m % P
  <1>1. x \in Field /\ x \in Int /\ y \in Int /\ q # O
    BY CurvePointFacts
  <1>2. m \in Int /\ v \in Field /\ v \in Int /\ Congruent(v, m)
    BY <1>1, Reduced, CongruentMod
  <1>3. RNeg(q) = <<x, v>>
    BY <1>1 DEF RNeg
  <1>4. Congruent(Off(x, m), 0)
    <2>1. Off(x, y) \in Int /\ Off(x, y) % P = 0
      BY OffZero
    <2>2. m * m = y * y
      BY <1>1
    <2> HIDE DEF x, y, m
    <2>3. Off(x, m) = Off(x, y)
      BY <2>2 DEF Off
    <2> QED BY <2>1, <2>3, CongruentZero
  <1>5. ContainsPoint(x, v)
    <2>1. Congruent(x, x)
      BY <1>1, CongruentMod
    <2> HIDE DEF x, y, m, v
    <2> QED BY <1>1, <1>2, <1>4, <2>1, OnCurveIs
  <1>6. <<x, v>> \in CurvePoints
    BY <1>1, <1>2, <1>5 DEF CurvePoints
  <1> QED BY <1>2, <1>3, <1>6

(* The opposite of a point, with any Y that is - y modulo P.               *)
LEMMA OppositeGood ==
  ASSUME NEW pt, NEW q, Good(pt, q), pt # INFINITY, NEW y \in - P .. 2 * P,
         NEW n \in Nat, y = - pt.y \/ y = P - pt.y
  PROVE  Good(Object(pt.class, pt.x, y, pt.z, n), RNeg(q))
  <1> DEFINE X == pt.x  Y == pt.y  Z == pt.z  u == q[1]  v == q[2]  w == (- v) % P
  <1>1. /\ pt.class \in {"jacobi", "affine"} /\ Z \in 1 .. P - 1 /\ q \in CurvePoints
        /\ X \in Field /\ X \in Int /\ Y \in Int /\ Z \in Int /\ At(X, Y, Z, u, v)
    BY FiniteIs
  <1>2. pt.class = "affine" => Z = 1
    BY DEF Good, WellFormed
  <1>3. u \in Int /\ v \in Int
    BY <1>1, CurvePointFacts
  <1>4. RNeg(q) \in CurvePoints /\ RNeg(q) = <<u, w>> /\ w \in Int /\ Congruent(w, - v)
    BY <1>1, RNegIs, PFacts DEF Field
  <1>5. At(X, y, Z, u, - v)
    <2> DEFINE c == v * Z * Z * Z  d == - v * Z * Z * Z
    <2>1. c \in Int /\ d \in Int /\ d = - c /\ Congruent(Y, c)
      BY <1>1, <1>3 DEF At
    <2> HIDE DEF c, d, Y
    <2>2. PICK k \in Int : Y = c + k * P
      BY <2>1 DEF Congruent
    <2>3. Congruent(y, d)
      <3>1. CASE y = - Y
        <4>1. - Y = d + (- k) * P
          BY <2>1, <2>2, PFacts
        <4>2. - k \in Int
          OBVIOUS
        <4> QED BY <3>1, <4>1, <4>2 DEF Congruent
      <3>2. CASE y = P - Y
        <4>1. P - Y = d + (1 - k) * P
          BY <2>1, <2>2, PFacts
        <4>2. 1 - k \in Int
          OBVIOUS
        <4> QED BY <3>2, <4>1, <4>2 DEF Congruent
      <3> QED BY <3>1, <3>2 DEF Y
    <2>4. Congruent(X, u * Z * Z)
      BY <1>1 DEF At
    <2>5. d = (- v) * Z * Z * Z
      BY <1>1, <1>3 DEF d
    <2> QED BY <2>3, <2>4, <2>5 DEF At
  <1>6. At(X, y, Z, u, w)
    <2> HIDE DEF X, Y, Z, u, v, w
    <2>1. Congruent(u, u) /\ y \in Int
      BY <1>3, CongruentMod, PFacts
    <2> DEFINE m == - v
    <2>2. m \in Int /\ Congruent(w, m) /\ At(X, y, Z, u, m)
      BY <1>3, <1>4, <1>5
    <2> HIDE DEF m
    <2>3. Congruent(m, w)
      BY <1>4, <2>2, CongruentSym
    <2> QED BY <1>1, <1>3, <1>4, <2>1, <2>2, <2>3, AtReduced
  <1>7. RNeg(q)[1] = u /\ RNeg(q)[2] = w
    BY <1>4
  <1> HIDE DEF u, w
  <1> QED BY <1>1, <1>2, <1>4, <1>6, <1>7, ObjectGood

----------------------------------------------------------------------------
(* Conversions.                                                            *)

(* The inverse of Z divides.                                               *)
LEMMA ScaledIs ==
  ASSUME NEW pt, NEW q, Good(pt, q), pt # INFINITY
  PROVE  LET i == InverseMod(pt.z)
         IN /\ (pt.x * i * i) % P = q[1] /\ (pt.y * i * i * i) % P = q[2]
            /\ (pt.y * ((i * i) % P) * i) % P = q[2]
  <1> DEFINE x == pt.x  y == pt.y  z == pt.z  i == InverseMod(z)  u == q[1]  v == q[2]
  <1>1. /\ x \in Int /\ y \in Int /\ z \in Int /\ z % P # 0 /\ At(x, y, z, u, v)
        /\ q \in CurvePoints
    BY FiniteIs
  <1>2. u \in Field /\ v \in Field
    BY <1>1, CurvePointFacts
  <1>3. i \in Int /\ (i * z) % P = 1
    BY <1>1, InverseModType
  <1> HIDE DEF x, y, z, i, u, v
  <1>4. (x * i * i) % P = u /\ (y * i * i * i) % P = v
    <2>1. DividesTo(x, y, i, u, v)
      BY <1>1, <1>2, <1>3, ReadBack
    <2> QED BY <2>1 DEF DividesTo
  <1>5. (y * ((i * i) % P) * i) % P = (y * i * i * i) % P
    <2> DEFINE s == i * i  r == s % P  k == y * i  a == y * r * i  b == y * i * i * i
    <2>1. s \in Int /\ k \in Int /\ b = s * k /\ b \in Int
      BY <1>1, <1>3
    <2> HIDE DEF s
    <2>2. r \in Int /\ Congruent(r, s)
      BY <2>1, CongruentMod
    <2> HIDE DEF r
    <2>3. a = r * k /\ a \in Int
      BY <1>1, <1>3, <2>2
    <2> HIDE DEF k, b, a
    <2>4. Congruent(r * k, s * k)
      BY <2>1, <2>2, CongruentTimes
    <2>5. a % P = b % P
      BY <2>1, <2>3, <2>4, CongruentIs
    <2> QED BY <2>5 DEF a, b, r, s
  <1> QED BY <1>4, <1>5 DEF x, y, z, i, u, v

LEMMA ReadsBack ==
  ASSUME NEW pt, NEW q, Good(pt, q)
  PROVE  Residues(pt) = q
  <1>1. CASE pt = INFINITY
    <2>1. pt.z = 0 /\ q = O
      BY <1>1, InfinityTold
    <2>2. 0 % P = 0
      BY PFacts, RemainderOfSmall
    <2> QED BY <2>1, <2>2 DEF Residues
  <1>2. CASE pt # INFINITY
    <2>1. pt.z % P = pt.z /\ pt.z # 0 /\ q \in CurvePoints
      BY <1>2, FiniteIs
    <2>2. q = <<q[1], q[2]>>
      BY <2>1, CurvePointFacts
    <2> DEFINE i == InverseMod(pt.z)
    <2>3. (pt.x * i * i) % P = q[1] /\ (pt.y * i * i * i) % P = q[2]
      BY <1>2, ScaledIs
    <2>4. Residues(pt) = <<(pt.x * i * i) % P, (pt.y * i * i * i) % P>>
      BY <2>1 DEF Residues
    <2> QED BY <2>2, <2>3, <2>4
  <1> QED BY <1>1, <1>2

(* With Z = 1 the coordinates are the residues.                            *)
LEMMA AtOne ==
  ASSUME NEW x \in Int, NEW y \in Int, NEW u \in Int, NEW v \in Int
  PROVE  At(x, y, 1, u, v) = (Congruent(x, u) /\ Congruent(y, v))
  <1>1. u * 1 * 1 = u /\ v * 1 * 1 * 1 = v
    OBVIOUS
  <1> QED BY <1>1 DEF At

LEMMA ReducedGood ==
  ASSUME NEW class \in {"jacobi", "affine"}, NEW q \in CurvePoints, NEW n \in Nat
  PROVE  Good(Object(class, q[1], q[2], 1, n), q)
  <1> DEFINE u == q[1]  v == q[2]
  <1>1. u \in Field /\ v \in Field /\ u \in Int /\ v \in Int
    BY CurvePointFacts
  <1>2. v \in - P .. 2 * P /\ 1 \in 1 .. P - 1
    BY <1>1, PFacts DEF Field
  <1>3. At(u, v, 1, u, v)
    <2>1. Congruent(u, u) /\ Congruent(v, v)
      BY <1>1, CongruentMod
    <2> HIDE DEF u, v
    <2> QED BY <1>1, <2>1, AtOne
  <1>4. At(u, v, 1, q[1], q[2])
    BY <1>3
  <1> HIDE DEF u, v
  <1>5. Good(Object(class, u, v, 1, n), q)
    BY <1>1, <1>2, <1>4, ObjectGood
  <1> QED BY <1>5 DEF u, v

LEMMA ScaleGood ==
  ASSUME NEW pt, NEW q, Good(pt, q), pt.class = "jacobi"
  PROVE  Good(Scale(pt), q) /\ Scale(pt).class = "jacobi" /\ Scale(pt).z = 1
  <1>1. pt # INFINITY
    BY InfinityIs
  <1>2. pt.n \in Nat /\ q \in CurvePoints
    BY <1>1, FiniteIs
  <1>3. CASE pt.z = 1
    BY <1>3 DEF Scale
  <1>4. CASE pt.z # 1
    <2> DEFINE i == InverseMod(pt.z)
    <2>1. (pt.x * i * i) % P = q[1] /\ (pt.y * ((i * i) % P) * i) % P = q[2]
      BY <1>1, ScaledIs
    <2>2. Scale(pt) = Object("jacobi", (pt.x * i * i) % P, (pt.y * ((i * i) % P) * i) % P, 1,
                             pt.n)
      BY <1>4 DEF Scale, Jacobi
    <2>3. Scale(pt) = Object("jacobi", q[1], q[2], 1, pt.n)
      BY <2>1, <2>2
    <2>4. Good(Scale(pt), q)
      BY <1>2, <2>3, ReducedGood
    <2> QED BY <2>3, <2>4 DEF Object
  <1> QED BY <1>3, <1>4

(* The same coordinates in an object of either class.                      *)
LEMMA CopyGood ==
  ASSUME NEW pt, NEW q, Good(pt, q), pt # INFINITY, pt.z = 1, NEW n \in Nat,
         NEW class \in {"jacobi", "affine"}
  PROVE  Good(Object(class, pt.x, pt.y, 1, n), q)
  <1>1. /\ pt.x \in Field /\ pt.y \in - P .. 2 * P /\ pt.z \in 1 .. P - 1 /\ q \in CurvePoints
        /\ At(pt.x, pt.y, 1, q[1], q[2]) /\ 1 \in 1 .. P - 1
    BY FiniteIs
  <1> QED BY <1>1, ObjectGood

LEMMA ToAffineGood ==
  ASSUME NEW pt, NEW q, Good(pt, q), pt.class = "jacobi"
  PROVE  Good(ToAffine(pt), q)
  <1>1. pt # INFINITY
    BY InfinityIs
  <1>2. pt.z % P # 0 /\ pt.n \in Nat
    BY <1>1, FiniteIs
  <1> DEFINE s == Scale(pt)
  <1>3. Good(s, q) /\ s.class = "jacobi" /\ s.z = 1
    BY ScaleGood
  <1>4. ToAffine(pt) = Object("affine", s.x, s.y, 1, pt.n)
    BY <1>2 DEF ToAffine, Affine
  <1> HIDE DEF s
  <1>5. s # INFINITY
    BY <1>3, InfinityIs
  <1> QED BY <1>2, <1>3, <1>4, <1>5, CopyGood

----------------------------------------------------------------------------
(* The affine class.                                                       *)

(* There is one slope.                                                     *)
LEMMA SlopeUnique ==
  ASSUME NEW q \in CurvePoints, NEW s \in CurvePoints, q # RNeg(s),
         NEW l \in Field, NEW m \in Field, Slope(q, s, l), Slope(q, s, m)
  PROVE  l = m
  <1>1. l \in Int /\ m \in Int
    BY PFacts DEF Field
  <1>2. /\ q[1] \in Field /\ s[1] \in Field /\ q[1] \in Int /\ s[1] \in Int
        /\ q[2] \in Field /\ q[2] \in Int /\ s[2] \in Int
        /\ q # s => q[1] # s[1]
        /\ q = s => q[2] # 0
    BY CurvePointFacts, RAddIs
  <1>3. ASSUME NEW a \in Int, NEW b \in Int, a % P # 0,
               Congruent(l * a, b), Congruent(m * a, b)
        PROVE  l = m
    <2>1. l * a \in Int /\ m * a \in Int
      BY <1>1
    <2>2. Congruent(l * a, m * a)
      BY <1>3, <2>1, CongruentSym, CongruentTrans
    <2>3. Congruent(l, m)
      BY <1>1, <1>3, <2>2, CongruentCancel
    <2> QED BY <2>3, CongruentField
  <1>4. CASE q = s
    <2> DEFINE v == q[2]  a == 2 * v  b == 3 * q[1] * q[1] + A
    <2>1. a \in Int /\ b \in Int /\ a % P # 0
      <3>1. v \in Field /\ v \in Int /\ v # 0
        BY <1>2, <1>4
      <3>2. a % P # 0
        <4> HIDE DEF v
        <4>1. v % P = v
          BY <3>1, PFacts, RemainderOfSmall DEF Field
        <4> QED BY <3>1, <4>1, TwiceZero
      <3> QED BY <1>2, <3>2, PFacts
    <2>2. Congruent(a * l, b) /\ Congruent(a * m, b)
      BY <1>4 DEF Slope
    <2> HIDE DEF a, b
    <2>3. a * l = l * a /\ a * m = m * a
      BY <1>1, <2>1
    <2> QED BY <1>3, <2>1, <2>2, <2>3
  <1>5. CASE q # s
    <2> DEFINE a == s[1] - q[1]  b == s[2] - q[2]
    <2>1. a \in Int /\ b \in Int /\ a % P # 0
      BY <1>2, <1>5, FieldDifference
    <2>2. Congruent(l * a, b) /\ Congruent(m * a, b)
      BY <1>5 DEF Slope
    <2> HIDE DEF a, b
    <2> QED BY <1>3, <2>1, <2>2
  <1> QED BY <1>4, <1>5

(* The third point as Point computes it, from any Y of the first.          *)
LEMMA ThirdComputed ==
  ASSUME NEW u \in Int, NEW v \in Int, NEW w \in Int, NEW l \in Int, NEW y \in Int,
         Congruent(y, v)
  PROVE  LET x3 == (l * l - u - w) % P
         IN Third(u, v, w, l) = <<x3, (l * (u - x3) - y) % P>>
  <1> DEFINE a == ThirdX(u, w, l)  x3 == a % P  b == ThirdY(u, v, w, l)  c == l * (u - x3) - y
  <1>1. a \in Int /\ b \in Int /\ b = l * (u - a) - v
    BY ThirdTypes DEF ThirdY
  <1> HIDE DEF a, b
  <1>2. x3 \in Int /\ Congruent(x3, a)
    BY <1>1, CongruentMod
  <1> HIDE DEF x3
  <1>3. PICK k \in Int : x3 = a + k * P
    BY <1>2 DEF Congruent
  <1>4. PICK m \in Int : y = v + m * P
    BY DEF Congruent
  <1>5. c = b + (- (l * k) - m) * P
    BY <1>1, <1>2, <1>3, <1>4, PFacts
  <1>6. - (l * k) - m \in Int /\ c \in Int
    BY <1>2
  <1>7. Congruent(c, b)
    BY <1>5, <1>6 DEF Congruent
  <1> HIDE DEF c
  <1>8. c % P = b % P
    BY <1>1, <1>6, <1>7, CongruentIs
  <1> QED BY <1>8 DEF Third, a, b, c, x3, ThirdX

(* An affine point.                                                        *)
LEMMA AffineIs ==
  ASSUME NEW pt, NEW q, Good(pt, q), pt.class = "affine"
  PROVE  /\ pt # INFINITY /\ pt \in Objects /\ q \in CurvePoints
         /\ pt.x = q[1] /\ Congruent(pt.y, q[2]) /\ pt.y \in Int /\ pt.z = 1
         /\ pt.x \in Field /\ pt.x \in Int
  <1>1. pt # INFINITY
    BY InfinityIs
  <1>2. /\ pt.x \in Field /\ pt.x \in Int /\ pt.y \in Int /\ q \in CurvePoints /\ pt \in Objects
        /\ At(pt.x, pt.y, pt.z, q[1], q[2])
    BY <1>1, FiniteIs
  <1>3. pt.z = 1
    BY <1>1 DEF Good, WellFormed
  <1>4. q[1] \in Field /\ q[1] \in Int /\ q[2] \in Int
    BY <1>2, CurvePointFacts
  <1>5. Congruent(pt.x, q[1]) /\ Congruent(pt.y, q[2])
    BY <1>2, <1>3, <1>4, AtOne
  <1>6. pt.x = q[1]
    BY <1>2, <1>4, <1>5, CongruentField
  <1> QED BY <1>1, <1>2, <1>3, <1>5, <1>6

(* A slope computed with an inverse.                                       *)
LEMMA SlopeComputed ==
  ASSUME NEW a \in Int, NEW b \in Int, a % P # 0
  PROVE  LET l == (b * InverseMod(a)) % P IN l \in Field /\ Congruent(l * a, b)
  <1> DEFINE i == InverseMod(a)  c == b * i  l == c % P
  <1>1. i \in Int /\ (i * a) % P = 1
    BY InverseModType
  <1> HIDE DEF i
  <1>2. c \in Int
    BY <1>1
  <1> HIDE DEF c
  <1>3. l \in Field /\ l \in Int /\ Congruent(l, c)
    BY <1>2, Reduced, CongruentMod
  <1> HIDE DEF l
  <1>4. Congruent(l * a, c * a)
    BY <1>2, <1>3, CongruentTimes
  <1> DEFINE e == i * a
  <1>5. e \in Int /\ Congruent(e, 1) /\ 1 * b = b /\ 1 \in Int
    <2>1. 1 % P = 1 /\ 1 \in Int /\ e \in Int
      BY <1>1, PFacts, RemainderOfSmall
    <2> QED BY <1>1, <2>1, CongruentIs
  <1>6. c * a = e * b
    BY <1>1 DEF c
  <1> HIDE DEF e
  <1>7. Congruent(e * b, 1 * b)
    BY <1>5, CongruentTimes
  <1>8. l * a \in Int /\ e * b \in Int
    BY <1>3, <1>5
  <1>9. Congruent(l * a, b)
    BY <1>4, <1>5, <1>6, <1>7, <1>8, CongruentTrans
  <1> QED BY <1>3, <1>9 DEF l, c, i

(* A new affine point with the residues of a group element.                *)
LEMMA AffineGood ==
  ASSUME NEW q \in Group, q # O, NEW x, NEW y, q = <<x, y>>, NEW n \in Nat
  PROVE  Good(Affine(x, y, n), q)
  <1>1. q \in CurvePoints
    BY DEF Group
  <1>2. Affine(x, y, n) = Object("affine", q[1], q[2], 1, n)
    BY DEF Affine
  <1> QED BY <1>1, <1>2, ReducedGood

(* The sum of two points that are not opposite, from its slope.            *)
LEMMA AffineSum ==
  ASSUME NEW q \in CurvePoints, NEW s \in CurvePoints, q # RNeg(s),
         NEW l \in Field, Slope(q, s, l), NEW y \in Int, Congruent(y, q[2])
  PROVE  LET x3 == (l * l - q[1] - s[1]) % P
         IN Good(Affine(x3, (l * (q[1] - x3) - y) % P, 0), RAdd(q, s))
  <1> DEFINE x3 == (l * l - q[1] - s[1]) % P  y3 == (l * (q[1] - x3) - y) % P
  <1>1. /\ q[1] \in Int /\ q[2] \in Int /\ s[1] \in Int /\ l \in Int /\ q # O /\ s # O
    BY CurvePointFacts, PFacts DEF Field
  <1>2. PICK m \in Field : Slope(q, s, m) /\ RAdd(q, s) = Third(q[1], q[2], s[1], m)
    BY RAddIs
  <1>3. m = l
    BY <1>2, SlopeUnique
  <1>4. Third(q[1], q[2], s[1], l) = <<x3, y3>>
    <2> DEFINE u == q[1]  v == q[2]  w == s[1]
    <2>1. u \in Int /\ v \in Int /\ w \in Int /\ l \in Int /\ Congruent(y, v)
      BY <1>1
    <2> HIDE DEF u, v, w
    <2>2. Third(u, v, w, l) = <<(l * l - u - w) % P, (l * (u - ((l * l - u - w) % P)) - y) % P>>
      BY <2>1, ThirdComputed
    <2> QED BY <2>2 DEF u, v, w
  <1>5. RAdd(q, s) \in Group
    BY RAddClosed DEF Group
  <1> HIDE DEF x3, y3
  <1>6. RAdd(q, s) = <<x3, y3>> /\ <<x3, y3>> # O
    BY <1>2, <1>3, <1>4 DEF O
  <1>7. Good(Affine(x3, y3, 0), RAdd(q, s))
    BY <1>5, <1>6, AffineGood
  <1> QED BY <1>7 DEF x3, y3

LEMMA ADoubleGood ==
  ASSUME NoFlatTangent, NEW pt, NEW q, Good(pt, q), pt.class # "jacobi"
  PROVE  Good(ADouble[pt], RAdd(q, q))
  <1> DEFINE x == pt.x  y == pt.y  a == 2 * y  b == 3 * x * x + A
             l == (b * InverseMod(a)) % P  x3 == (l * l - 2 * x) % P
             y3 == (l * (x - x3) - y) % P
  <1>1. pt \in Objects
    BY InfinityTold
  <1>2. ADouble[pt] = IF pt = INFINITY \/ l = 0 THEN INFINITY ELSE Affine(x3, y3, 0)
    BY <1>1 DEF ADouble
  <1>3. CASE pt = INFINITY
    <2>1. q = O
      BY <1>3, InfinityTold
    <2>2. RAdd(q, q) = O
      BY <2>1 DEF RAdd
    <2>3. ADouble[pt] = INFINITY
      BY <1>2, <1>3
    <2> QED BY <2>2, <2>3, InfinityIs
  <1>4. CASE pt # INFINITY
    <2>1. pt.class = "affine"
      BY <1>1, <1>4, InfinityTold, ObjectIs
    <2>2. /\ q \in CurvePoints /\ x = q[1] /\ Congruent(y, q[2]) /\ y \in Int /\ x \in Int
      BY <2>1, AffineIs
    <2>3. q[2] \in Int /\ q[2] \in Field /\ q[1] \in Int /\ q[2] # 0 /\ b % P # 0
      <3>1. q[2] # 0 /\ (3 * q[1] * q[1] + A) % P # 0
        BY <2>2 DEF NoFlatTangent, NoOrderTwo
      <3> QED BY <2>2, <3>1, CurvePointFacts
    <2>4. y % P # 0
      <3> DEFINE v == q[2]
      <3>1. v \in Int /\ v \in Field /\ v # 0 /\ Congruent(y, v)
        BY <2>2, <2>3
      <3> HIDE DEF v
      <3>2. v % P = v
        BY <3>1, PFacts, RemainderOfSmall DEF Field
      <3> QED BY <2>2, <3>1, <3>2, CongruentIs
    <2> HIDE DEF x, y
    <2>5. a \in Int /\ b \in Int /\ a % P # 0
      BY <2>2, <2>4, PFacts, TwiceZero
    <2>6. l \in Field /\ Congruent(l * a, b)
      <3> HIDE DEF a, b
      <3> QED BY <2>5, SlopeComputed
    <2>7. l \in Int
      BY <2>6, PFacts DEF Field
    <2> HIDE DEF l
    <2>8. l # 0
      <3> SUFFICES ASSUME l = 0 PROVE FALSE
        OBVIOUS
      <3>1. l * a = 0 /\ 0 \in Int /\ 0 % P = 0
        BY <2>5, PFacts, RemainderOfSmall
      <3> HIDE DEF a, b
      <3>2. 0 % P = b % P
        BY <2>5, <2>6, <3>1, CongruentIs
      <3> QED BY <2>3, <3>1, <3>2 DEF b
    <2>9. Slope(q, q, l)
      <3> DEFINE c == 2 * q[2] * l  d == l * a
      <3>1. c \in Int /\ d \in Int
        BY <2>3, <2>5, <2>7
      <3>2. Congruent(c, d)
        <4> DEFINE k == 2 * l  v == q[2]
        <4>1. k \in Int /\ v \in Int /\ Congruent(v, y) /\ c = v * k /\ d = y * k
          BY <2>2, <2>3, <2>7, CongruentSym
        <4> HIDE DEF k, v, c, d
        <4>2. Congruent(v * k, y * k)
          BY <2>2, <4>1, CongruentTimes
        <4> QED BY <4>1, <4>2
      <3> HIDE DEF c, d
      <3>3. Congruent(c, b)
        BY <2>5, <2>6, <3>1, <3>2, CongruentTrans DEF d
      <3>4. Congruent(c, 3 * q[1] * q[1] + A)
        BY <2>2, <3>3
      <3> QED BY <3>4 DEF Slope, c
    <2>10. q # RNeg(q)
      <3> SUFFICES ASSUME q = RNeg(q) PROVE FALSE
        OBVIOUS
      <3> DEFINE v == q[2]
      <3>1. (v + v) % P = 0
        BY <2>2, OppositeIs
      <3>2. v + v = 2 * v /\ v \in Int /\ v \in Field /\ v # 0
        BY <2>3
      <3> HIDE DEF v
      <3>3. v % P = 0
        BY <3>1, <3>2, TwiceZero
      <3> QED BY <3>2, <3>3, PFacts, RemainderOfSmall DEF Field
    <2>11. Good(Affine(x3, y3, 0), RAdd(q, q))
      <3> DEFINE z3 == (l * l - q[1] - q[1]) % P
      <3>1. Good(Affine(z3, (l * (q[1] - z3) - y) % P, 0), RAdd(q, q))
        BY <2>2, <2>6, <2>9, <2>10, AffineSum
      <3>2. z3 = x3
        <4>1. l * l - q[1] - q[1] = l * l - 2 * x
          BY <2>2, <2>7
        <4> QED BY <4>1
      <3> HIDE DEF z3, x3
      <3> QED BY <2>2, <3>1, <3>2
    <2> QED BY <1>2, <1>4, <2>8, <2>11
  <1> QED BY <1>3, <1>4

LEMMA AAddGood ==
  ASSUME NoFlatTangent, NEW s, NEW q, Good(s, q), NEW o, NEW r, Good(o, r),
         s.class # "jacobi", o.class # "jacobi"
  PROVE  Good(AAdd(s, o), RAdd(q, r))
  <1>1. CASE o = INFINITY
    <2>1. r = O /\ AAdd(s, o) = s
      BY <1>1, InfinityTold DEF AAdd
    <2>2. RAdd(q, r) = q
      BY <2>1 DEF RAdd
    <2> QED BY <2>1, <2>2
  <1>2. CASE s = INFINITY /\ o # INFINITY
    <2>1. q = O /\ AAdd(s, o) = o
      BY <1>2, InfinityTold DEF AAdd
    <2>2. RAdd(q, r) = r
      BY <2>1 DEF RAdd
    <2> QED BY <2>1, <2>2
  <1>3. CASE s # INFINITY /\ o # INFINITY
    <2> DEFINE a == o.x - s.x  b == o.y - s.y  l == (b * InverseMod(a)) % P
               x3 == (l * l - s.x - o.x) % P
    <2>1. s.class = "affine" /\ o.class = "affine"
      BY <1>3, InfinityTold, ObjectIs
    <2>2. /\ q \in CurvePoints /\ s.x = q[1] /\ Congruent(s.y, q[2])
          /\ s.y \in Int /\ s.x \in Int /\ s.x \in Field
          /\ r \in CurvePoints /\ o.x = r[1] /\ Congruent(o.y, r[2])
          /\ o.y \in Int /\ o.x \in Int /\ o.x \in Field
      BY <2>1, AffineIs
    <2>3. q[2] \in Int /\ r[2] \in Int /\ q[2] \in Field /\ r[2] \in Field /\ q # O /\ r # O
      BY <2>2, CurvePointFacts
    <2>4. /\ Congruent(s.y + o.y, q[2] + r[2]) /\ Congruent(b, r[2] - q[2])
          /\ s.y + o.y \in Int /\ q[2] + r[2] \in Int /\ r[2] - q[2] \in Int
      <3> DEFINE Y1 == s.y  Y2 == o.y  v1 == q[2]  v2 == r[2]
      <3>1. /\ Y1 \in Int /\ Y2 \in Int /\ v1 \in Int /\ v2 \in Int
            /\ Congruent(Y1, v1) /\ Congruent(Y2, v2)
        BY <2>2, <2>3
      <3> HIDE DEF Y1, Y2, v1, v2
      <3>2. Congruent(Y1 + Y2, v1 + v2) /\ Congruent(Y2 - Y1, v2 - v1)
        BY <3>1, CongruentAdd
      <3>3. Y1 + Y2 \in Int /\ v1 + v2 \in Int /\ v2 - v1 \in Int
        BY <3>1
      <3> QED BY <3>2, <3>3 DEF Y1, Y2, v1, v2
    <2>5. CASE s.x = o.x
      <3>1. AAdd(s, o) = IF (s.y + o.y) % P = 0 THEN INFINITY ELSE ADouble[s]
        BY <1>3, <2>5 DEF AAdd
      <3>2. (s.y + o.y) % P = (q[2] + r[2]) % P
        <4> DEFINE c == s.y + o.y  d == q[2] + r[2]
        <4>1. c \in Int /\ d \in Int /\ Congruent(c, d)
          BY <2>4
        <4> HIDE DEF c, d
        <4>2. c % P = d % P
          BY <4>1, CongruentIs
        <4> QED BY <4>2 DEF c, d
      <3>3. CASE q = RNeg(r)
        <4>1. (s.y + o.y) % P = 0
          BY <2>2, <3>2, <3>3, OppositeIs
        <4>2. RAdd(q, r) = O
          BY <2>3, <3>3 DEF RAdd
        <4> QED BY <3>1, <4>1, <4>2, InfinityIs
      <3>4. CASE q # RNeg(r)
        <4>1. (q[2] + r[2]) % P # 0
          BY <2>2, <2>5, <3>4, OppositeIs
        <4>2. q[2] = r[2]
          BY <2>2, <2>5, <4>1, SameX
        <4>3. q = r
          BY <2>2, <2>5, <4>2, CurvePointFacts
        <4>4. AAdd(s, o) = ADouble[s]
          BY <3>1, <3>2, <4>1
        <4> QED BY <4>3, <4>4, ADoubleGood
      <3> QED BY <3>3, <3>4
    <2>6. CASE s.x # o.x
      <3>1. AAdd(s, o) = Affine(x3, (l * (s.x - x3) - s.y) % P, 0)
        BY <1>3, <2>6 DEF AAdd
      <3>2. a \in Int /\ b \in Int /\ a % P # 0
        BY <2>2, <2>6, FieldDifference
      <3>3. l \in Field /\ Congruent(l * a, b)
        <4> HIDE DEF a, b
        <4> QED BY <3>2, SlopeComputed
      <3>4. l \in Int /\ l * a \in Int
        <4>1. l \in Int
          BY <3>3, PFacts DEF Field
        <4> HIDE DEF l, a
        <4> QED BY <3>2, <4>1
      <3> HIDE DEF l
      <3> DEFINE c == r[2] - q[2]
      <3>5. Congruent(l * a, c)
        <4>1. c \in Int /\ Congruent(b, c)
          BY <2>4
        <4> HIDE DEF a, b, c
        <4> QED BY <3>2, <3>3, <3>4, <4>1, CongruentTrans
      <3>6. q # r
        BY <2>2, <2>6
      <3>7. Slope(q, r, l)
        BY <2>2, <3>5, <3>6 DEF Slope
      <3>8. q # RNeg(r)
        BY <2>2, <2>6, OppositeIs
      <3>9. Good(Affine(x3, (l * (s.x - x3) - s.y) % P, 0), RAdd(q, r))
        <4> DEFINE z3 == (l * l - q[1] - r[1]) % P
        <4>1. Good(Affine(z3, (l * (q[1] - z3) - s.y) % P, 0), RAdd(q, r))
          BY <2>2, <3>3, <3>7, <3>8, AffineSum
        <4> QED BY <2>2, <4>1
      <3> QED BY <3>1, <3>9
    <2> QED BY <2>5, <2>6
  <1> QED BY <1>1, <1>2, <1>3

----------------------------------------------------------------------------
(* Equality.                                                               *)

(* Two coordinates, each times what the other was multiplied by.           *)
LEMMA CrossMultiplied ==
  ASSUME NEW a \in Int, NEW b \in Int, NEW c \in Int, NEW d \in Int, NEW u \in Int, NEW v \in Int,
         NEW e \in Int, NEW f \in Int, Congruent(a, u * c), Congruent(b, v * d),
         Congruent(e, c), Congruent(f, d), c % P # 0, d % P # 0
  PROVE  ZeroTogether(a * f - b * e, v - u)
  <1> DEFINE g == u * c  h == v * d  i == g * d  j == h * c  k == a * f  m == b * e
  <1>1. g \in Int /\ h \in Int /\ i \in Int /\ j \in Int /\ k \in Int /\ m \in Int
    OBVIOUS
  <1>2. Congruent(k, i) /\ Congruent(m, j)
    <2> HIDE DEF g, h
    <2>1. Congruent(a, g) /\ Congruent(b, h)
      BY DEF g, h
    <2> QED BY <1>1, <2>1, CongruentMul
  <1> DEFINE w == v - u  p == c * d  z == w * p
  <1>3. w \in Int /\ p \in Int /\ z \in Int /\ i - j = - z
    OBVIOUS
  <1>4. p % P # 0
    BY ProductZero
  <1> HIDE DEF i, j, k, m, p, w
  <1>5. z % P = 0 <=> w % P = 0
    BY <1>3, <1>4, ProductZero
  <1>6. k % P = i % P /\ m % P = j % P
    BY <1>1, <1>2, CongruentIs
  <1>7. (k - m) % P = 0 <=> k % P = m % P
    BY <1>1, PFacts, DifferenceZero
  <1>8. (j - i) % P = 0 <=> j % P = i % P
    BY <1>1, PFacts, DifferenceZero
  <1>9. j - i = z
    BY <1>1, <1>3
  <1> QED BY <1>5, <1>6, <1>7, <1>8, <1>9 DEF k, m, w, ZeroTogether

SamePoint(X1, Y1, Z1, X2, Y2, Z2) ==
    /\ (X1 * ((Z2 * Z2) % P) - X2 * ((Z1 * Z1) % P)) % P = 0
    /\ (Y1 * ((Z2 * Z2) % P) * Z2 - Y2 * ((Z1 * Z1) % P) * Z1) % P = 0

LEMMA SamePointIs ==
  ASSUME NEW X1 \in Int, NEW Y1 \in Int, NEW Z1 \in Int, NEW u1 \in Field, NEW v1 \in Field,
         NEW X2 \in Int, NEW Y2 \in Int, NEW Z2 \in Int, NEW u2 \in Field, NEW v2 \in Field,
         At(X1, Y1, Z1, u1, v1), At(X2, Y2, Z2, u2, v2), Z1 % P # 0, Z2 % P # 0
  PROVE  SamePoint(X1, Y1, Z1, X2, Y2, Z2) = (u1 = u2 /\ v1 = v2)
  <1> DEFINE c2 == Z1 * Z1  c3 == c2 * Z1  d2 == Z2 * Z2  d3 == d2 * Z2
             e2 == c2 % P  f2 == d2 % P  e3 == e2 * Z1  f3 == f2 * Z2
  <1>1. u1 \in Int /\ v1 \in Int /\ u2 \in Int /\ v2 \in Int
    BY PFacts DEF Field
  <1>2. c2 \in Int /\ c2 % P # 0 /\ d2 \in Int /\ d2 % P # 0
    BY ProductZero
  <1>3. /\ Congruent(X1, u1 * c2) /\ Congruent(Y1, v1 * c3)
        /\ Congruent(X2, u2 * d2) /\ Congruent(Y2, v2 * d3)
    <2>1. /\ u1 * Z1 * Z1 = u1 * c2 /\ v1 * Z1 * Z1 * Z1 = v1 * c3
          /\ u2 * Z2 * Z2 = u2 * d2 /\ v2 * Z2 * Z2 * Z2 = v2 * d3
      BY <1>1
    <2> HIDE DEF c2, d2, c3, d3
    <2> QED BY <2>1 DEF At
  <1> HIDE DEF c2, d2
  <1>4. c3 \in Int /\ c3 % P # 0 /\ d3 \in Int /\ d3 % P # 0
    BY <1>2, ProductZero
  <1>5. e2 \in Int /\ f2 \in Int /\ Congruent(e2, c2) /\ Congruent(f2, d2)
    BY <1>2, CongruentMod
  <1> HIDE DEF e2, f2
  <1>6. e3 \in Int /\ f3 \in Int
    BY <1>5
  <1>7. Congruent(e3, c3) /\ Congruent(f3, d3)
    BY <1>2, <1>5, CongruentTimes
  <1>8. Y1 * f2 * Z2 = Y1 * f3 /\ Y2 * e2 * Z1 = Y2 * e3
    BY <1>5
  <1> HIDE DEF c3, d3, e3, f3
  <1>9. ZeroTogether(X1 * f2 - X2 * e2, u2 - u1)
    BY <1>1, <1>2, <1>3, <1>5, CrossMultiplied
  <1>10. ZeroTogether(Y1 * f3 - Y2 * e3, v2 - v1)
    BY <1>1, <1>3, <1>4, <1>6, <1>7, CrossMultiplied
  <1>11. ((u2 - u1) % P = 0 <=> u1 = u2) /\ ((v2 - v1) % P = 0 <=> v1 = v2)
    BY FieldDifference
  <1>12. SamePoint(X1, Y1, Z1, X2, Y2, Z2) =
           ((X1 * f2 - X2 * e2) % P = 0 /\ (Y1 * f2 * Z2 - Y2 * e2 * Z1) % P = 0)
    BY DEF SamePoint, e2, f2, c2, d2
  <1> QED BY <1>8, <1>9, <1>10, <1>11, <1>12 DEF ZeroTogether

LEMMA EqGood ==
  ASSUME NEW s, NEW q, Good(s, q), NEW o, NEW r, Good(o, r), s.class = "jacobi"
  PROVE  Eq(s, o) = (q = r)
  <1>1. s # INFINITY
    BY InfinityIs
  <1>2. /\ s.x \in Int /\ s.y \in Int /\ s.z \in Int /\ s.z # 0 /\ s.z % P # 0
        /\ q \in CurvePoints /\ At(s.x, s.y, s.z, q[1], q[2])
    BY <1>1, FiniteIs
  <1>3. CASE o = INFINITY
    <2>1. r = O /\ q # O
      BY <1>2, <1>3, InfinityTold, CurvePointFacts
    <2>2. Eq(s, o) = (s.z = 0)
      BY <1>3 DEF Eq
    <2> QED BY <1>2, <2>1, <2>2
  <1>4. CASE o # INFINITY
    <2>1. /\ o.x \in Int /\ o.y \in Int /\ o.z \in Int /\ o.z % P # 0
          /\ r \in CurvePoints /\ At(o.x, o.y, o.z, r[1], r[2])
      BY <1>4, FiniteIs
    <2>2. /\ q[1] \in Field /\ q[2] \in Field /\ r[1] \in Field /\ r[2] \in Field
          /\ q = <<q[1], q[2]>> /\ r = <<r[1], r[2]>>
      BY <1>2, <2>1, CurvePointFacts
    <2>3. SamePoint(s.x, s.y, s.z, o.x, o.y, o.z) = (q[1] = r[1] /\ q[2] = r[2])
      <3> DEFINE X1 == s.x  Y1 == s.y  Z1 == s.z  u1 == q[1]  v1 == q[2]
                 X2 == o.x  Y2 == o.y  Z2 == o.z  u2 == r[1]  v2 == r[2]
      <3>1. /\ X1 \in Int /\ Y1 \in Int /\ Z1 \in Int /\ u1 \in Field /\ v1 \in Field
            /\ X2 \in Int /\ Y2 \in Int /\ Z2 \in Int /\ u2 \in Field /\ v2 \in Field
            /\ At(X1, Y1, Z1, u1, v1) /\ At(X2, Y2, Z2, u2, v2) /\ Z1 % P # 0 /\ Z2 % P # 0
        BY <1>2, <2>1, <2>2
      <3> HIDE DEF X1, Y1, Z1, u1, v1, X2, Y2, Z2, u2, v2
      <3>2. SamePoint(X1, Y1, Z1, X2, Y2, Z2) = (u1 = u2 /\ v1 = v2)
        BY <3>1, SamePointIs
      <3> QED BY <3>2 DEF X1, Y1, Z1, u1, v1, X2, Y2, Z2, u2, v2
    <2>4. Eq(s, o) = SamePoint(s.x, s.y, s.z, o.x, o.y, o.z)
      BY <1>4 DEF Eq, SamePoint
    <2> QED BY <2>2, <2>3, <2>4
  <1> QED BY <1>3, <1>4

----------------------------------------------------------------------------
(* The group.                                                              *)

(* A point of the group is the point of some object.                       *)
LEMMA Represented ==
  ASSUME NEW q \in CurvePoints
  PROVE  Good(Jacobi(q[1], q[2], 1, 0), q)
  <1>1. Good(Object("jacobi", q[1], q[2], 1, 0), q)
    BY ReducedGood
  <1> QED BY <1>1 DEF Jacobi

LEMMA GroupCases == \A q \in Group : q = O \/ q \in CurvePoints
  BY DEF Group

LEMMA RAddZero ==
  ASSUME NEW q \in Group
  PROVE  RAdd(q, O) = q /\ RAdd(O, q) = q /\ O \in Group
  BY DEF RAdd, Group

LEMMA RAddCommutes ==
  ASSUME NEW q \in Group, NEW r \in Group
  PROVE  RAdd(q, r) = RAdd(r, q) /\ RAdd(q, r) \in Group
  <1>1. CASE q = O \/ r = O
    BY <1>1, RAddZero
  <1>2. CASE q \in CurvePoints /\ r \in CurvePoints
    <2> DEFINE s == Jacobi(q[1], q[2], 1, 0)  o == Jacobi(r[1], r[2], 1, 0)
    <2>1. Good(s, q) /\ Good(o, r)
      BY <1>2, Represented
    <2>2. s.class = "jacobi" /\ s.x = q[1] /\ s.y = q[2] /\ o.x = r[1] /\ o.y = r[2]
      BY DEF Jacobi, Object
    <2>3. ~ Add(s, o).twin
      <3>1. s.z = 1 /\ o.z = 1 /\ s.twin = FALSE /\ o.twin = FALSE /\ s.n = 0
        BY DEF Jacobi, Object
      <3>2. /\ s.y % P = s.y /\ o.y % P = o.y /\ s.y \in Int /\ o.y \in Int
        <4>1. q[2] \in Field /\ r[2] \in Field /\ q[2] \in Int /\ r[2] \in Int
          BY <1>2, CurvePointFacts
        <4> HIDE DEF s, o
        <4> QED BY <2>2, <4>1, PFacts, RemainderOfSmall DEF Field
      <3>3. (s.y - o.y) % P = 0 => s.y = o.y
        <4> DEFINE a == s.y  b == o.y
        <4>1. a \in Int /\ b \in Int /\ a % P = a /\ b % P = b
          BY <3>2
        <4> HIDE DEF a, b
        <4>2. (a - b) % P = 0 => a = b
          BY <4>1, PFacts, DifferenceZero
        <4> QED BY <4>2 DEF a, b
      <3> HIDE DEF s, o
      <3>4. Twin(Triple(s), Triple(o)) = FALSE
        <4>1. Triple(s)[2] = s.y /\ Triple(o)[2] = o.y
          BY DEF Triple
        <4> QED BY <3>3, <4>1 DEF Twin
      <3>5. AddT(Triple(s), Triple(o))[4] = FALSE
        <4>1. Triple(s)[4] = FALSE /\ Triple(o)[4] = FALSE
          BY <3>1 DEF Triple
        <4> QED BY <3>4, <4>1 DEF AddT, WithGhost
      <3>6. Add(s, o) = FromTriple(AddT(Triple(s), Triple(o)), s.n)
        BY <3>1 DEF Add
      <3> QED BY <3>5, <3>6 DEF FromTriple, Flagged, INFINITY, Jacobi, Object
    <2> DEFINE a == Add(s, o)
    <2> HIDE DEF s, o
    <2>4. Good(a, RAdd(q, r)) /\ Good(a, RAdd(r, q))
      BY <2>1, <2>2, <2>3, AddGood
    <2> HIDE DEF a
    <2>5. RAdd(q, r) = RAdd(r, q)
      BY <2>4, ReadsBack
    <2> QED BY <1>2, <2>5, RAddClosed DEF Group
  <1> QED BY <1>1, <1>2, GroupCases

LEMMA RNegFacts ==
  ASSUME NEW q \in Group
  PROVE  /\ RNeg(q) \in Group /\ RNeg(RNeg(q)) = q
         /\ RAdd(q, RNeg(q)) = O /\ RAdd(RNeg(q), q) = O
  <1>1. CASE q = O
    <2>1. RNeg(q) = O
      BY <1>1 DEF RNeg
    <2> QED BY <1>1, <2>1, RAddZero
  <1>2. CASE q \in CurvePoints
    <2>1. RNeg(q) \in CurvePoints /\ RNeg(RNeg(q)) \in CurvePoints
      BY <1>2, RNegIs
    <2>2. RNeg(RNeg(q)) = q
      <3> DEFINE r == RNeg(q)
      <3>1. r = RNeg(q) <=> r[1] = q[1] /\ (r[2] + q[2]) % P = 0
        BY <1>2, <2>1, OppositeIs
      <3>2. q = RNeg(r) <=> q[1] = r[1] /\ (q[2] + r[2]) % P = 0
        BY <1>2, <2>1, OppositeIs
      <3>3. r[2] + q[2] = q[2] + r[2]
        <4>1. r[2] \in Int /\ q[2] \in Int
          BY <1>2, <2>1, CurvePointFacts
        <4> HIDE DEF r
        <4> QED BY <4>1
      <3> QED BY <3>1, <3>2, <3>3
    <2>3. RAdd(q, RNeg(q)) = O
      BY <1>2, <2>1, <2>2, CurvePointFacts DEF RAdd
    <2> QED BY <1>2, <2>1, <2>2, <2>3, RAddCommutes DEF Group
  <1> QED BY <1>1, <1>2, GroupCases

----------------------------------------------------------------------------
(* The group law is associative.                                          *)

(* The multiples of the prime.                                             *)
Null(a) == a \in Int /\ a % P = 0

LEMMA NullIs == ASSUME NEW a PROVE Null(a) <=> \E k \in Int : a = k * P
  <1>1. ASSUME Null(a) PROVE \E k \in Int : a = k * P
    <2>1. a \in Int /\ a % P = 0 /\ P \in Nat \ {0} /\ P \in Int
      BY <1>1, PFacts DEF Null
    <2> DEFINE k == a \div P
    <2>2. k \in Int /\ a = P * k + (a % P)
      BY <2>1, DivMod
    <2> HIDE DEF k
    <2>3. a = k * P
      BY <2>1, <2>2
    <2> QED BY <2>2, <2>3
  <1>2. ASSUME NEW k \in Int, a = k * P PROVE Null(a)
    <2>1. P \in Nat \ {0} /\ P \in Int /\ a \in Int
      BY <1>2, PFacts
    <2>2. Congruent(a, 0)
      <3>1. 0 + k * P = a
        BY <1>2, <2>1
      <3> QED BY <3>1 DEF Congruent
    <2> QED BY <2>1, <2>2, CongruentZero DEF Null
  <1> QED BY <1>1, <1>2

LEMMA NullSum == ASSUME NEW a, NEW b, Null(a), Null(b) PROVE Null(a + b) /\ Null(a - b)
  <1>1. PICK k \in Int : a = k * P
    BY NullIs
  <1>2. PICK m \in Int : b = m * P
    BY NullIs
  <1>3. a + b = (k + m) * P /\ a - b = (k - m) * P
    BY <1>1, <1>2, PFacts
  <1> QED BY <1>3, NullIs

LEMMA NullTimes == ASSUME NEW a, Null(a), NEW c \in Int PROVE Null(c * a) /\ Null(a * c)
  <1>1. PICK k \in Int : a = k * P
    BY NullIs
  <1>2. c * a = (c * k) * P /\ a * c = (c * k) * P
    BY <1>1, PFacts
  <1> QED BY <1>2, NullIs

LEMMA NullOf2 ==
  ASSUME NEW a, NEW b, Null(a), Null(b), NEW c \in Int, NEW d \in Int, NEW e,
         e = c * a + d * b
  PROVE  Null(e)
  BY NullTimes, NullSum

LEMMA NullOf3 ==
  ASSUME NEW a, NEW b, NEW f, Null(a), Null(b), Null(f),
         NEW c \in Int, NEW d \in Int, NEW g \in Int, NEW e, e = c * a + d * b + g * f
  PROVE  Null(e)
  BY NullTimes, NullSum

LEMMA NullProduct ==
  ASSUME NEW a \in Int, NEW b \in Int, Null(a * b)
  PROVE  Null(a) \/ Null(b)
  BY ProductZero DEF Null

LEMMA NullMod == ASSUME NEW a \in Int PROVE Null((a % P) - a) /\ a % P \in Field /\ a % P \in Int
  <1> DEFINE w == a \div P  r == a % P
  <1>1. P \in Nat \ {0} /\ P \in Int
    BY PFacts
  <1>2. w \in Int /\ r \in Int /\ r \in 0 .. P - 1 /\ a = P * w + r
    BY <1>1, DivMod
  <1> HIDE DEF w, r
  <1>3. r - a = (- w) * P
    BY <1>1, <1>2
  <1>4. Null(r - a)
    BY <1>2, <1>3, NullIs
  <1> QED BY <1>2, <1>4 DEF r, Field

LEMMA NullEqual ==
  ASSUME NEW a \in Field, NEW b \in Field, Null(a - b)
  PROVE  a = b
  BY FieldDifference DEF Null

LEMMA NullCongruent ==
  ASSUME NEW a \in Int, NEW b \in Int
  PROVE  Null(a - b) <=> Congruent(a, b)
  <1>1. ASSUME Null(a - b) PROVE Congruent(a, b)
    <2>1. PICK k \in Int : a - b = k * P
      BY <1>1, NullIs
    <2> DEFINE m == k * P
    <2>2. m \in Int /\ a - b = m
      BY <2>1, PFacts
    <2> HIDE DEF m
    <2>3. a = b + m
      BY <2>2
    <2> QED BY <2>3 DEF Congruent, m
  <1>2. ASSUME Congruent(a, b) PROVE Null(a - b)
    <2>1. PICK k \in Int : a = b + k * P
      BY <1>2 DEF Congruent
    <2> DEFINE m == k * P
    <2>2. m \in Int /\ a = b + m
      BY <2>1, PFacts
    <2> HIDE DEF m
    <2>3. a - b = m
      BY <2>2
    <2> QED BY <2>3, NullIs DEF m
  <1> QED BY <1>1, <1>2

(* The line y = l*x + n meets the curve at three points: the cubic that is *)
(* left for x has their x for roots.                                       *)
OnLine(x1, y1, x2, y2, x3, y3, l, n) ==
    /\ x1 \in Int /\ y1 \in Int /\ x2 \in Int /\ y2 \in Int /\ x3 \in Int /\ y3 \in Int
    /\ l \in Int /\ n \in Int
    /\ Null(l * l - (x1 + x2 + x3))
    /\ Null(A - 2 * l * n - (x1 * x2 + x1 * x3 + x2 * x3))
    /\ Null(n * n - B - x1 * x2 * x3)
    /\ Null(y1 - (l * x1 + n)) /\ Null(y2 - (l * x2 + n)) /\ Null(y3 - (l * x3 + n))

LEMMA OnLineTurns ==
  ASSUME NEW x1, NEW y1, NEW x2, NEW y2, NEW x3, NEW y3, NEW l, NEW n,
         OnLine(x1, y1, x2, y2, x3, y3, l, n)
  PROVE  OnLine(x2, y2, x3, y3, x1, y1, l, n) /\ OnLine(x2, y2, x1, y1, x3, y3, l, n)
  <1>1. /\ x1 \in Int /\ x2 \in Int /\ x3 \in Int
    BY DEF OnLine
  <1>2. /\ x1 + x2 + x3 = x2 + x3 + x1 /\ x1 + x2 + x3 = x2 + x1 + x3
        /\ x1 * x2 + x1 * x3 + x2 * x3 = x2 * x3 + x2 * x1 + x3 * x1
        /\ x1 * x2 + x1 * x3 + x2 * x3 = x2 * x1 + x2 * x3 + x1 * x3
        /\ x1 * x2 * x3 = x2 * x3 * x1 /\ x1 * x2 * x3 = x2 * x1 * x3
    BY <1>1
  <1> QED BY <1>2 DEF OnLine

(* A slope and a point give the line.                                      *)
LineStart(x1, y1, x2, y2, x3, y3, l) ==
    /\ x1 \in Int /\ y1 \in Int /\ x2 \in Int /\ y2 \in Int /\ x3 \in Int /\ y3 \in Int
    /\ l \in Int
    /\ Null(l * l - (x1 + x2 + x3)) /\ Null(Secant(x2, x1, y1, l)) /\ Null(Off(x1, y1))
    /\ Null(y2 - y1 - l * (x2 - x1)) /\ Null(y3 - y1 - l * (x3 - x1))

LEMMA OnLineStarts ==
  ASSUME NEW x1, NEW y1, NEW x2, NEW y2, NEW x3, NEW y3, NEW l,
         LineStart(x1, y1, x2, y2, x3, y3, l)
  PROVE  OnLine(x1, y1, x2, y2, x3, y3, l, y1 - l * x1)
  <1> DEFINE n == y1 - l * x1
             d1 == l * l - (x1 + x2 + x3)  d2 == A - 2 * l * n - (x1 * x2 + x1 * x3 + x2 * x3)
             d3 == n * n - B - x1 * x2 * x3  f == Secant(x2, x1, y1, l)  g == Off(x1, y1)
  <1>1. /\ x1 \in Int /\ y1 \in Int /\ x2 \in Int /\ y2 \in Int /\ x3 \in Int /\ y3 \in Int
        /\ l \in Int /\ A \in Int /\ B \in Int /\ n \in Int
        /\ Null(d1) /\ Null(f) /\ Null(g)
        /\ Null(y2 - y1 - l * (x2 - x1)) /\ Null(y3 - y1 - l * (x3 - x1))
    BY PFacts DEF LineStart
  <1>2. d2 = (x1 + x2) * d1 + (- 1) * f
    BY <1>1 DEF Secant
  <1>3. Null(d2)
    <2> HIDE DEF d1, d2, f
    <2>1. x1 + x2 \in Int /\ - 1 \in Int
      BY <1>1
    <2> QED BY <1>1, <1>2, <2>1, NullOf2
  <1>4. d3 = 1 * g + x1 * d2 + (- (x1 * x1)) * d1
    <2> HIDE DEF n
    <2>1. y1 = l * x1 + n
      BY <1>1 DEF n
    <2>2. g = (l * x1 + n) * (l * x1 + n) - ((x1 * x1 + A) * x1 + B)
      BY <2>1 DEF Off
    <2>3. d3 = 1 * ((l * x1 + n) * (l * x1 + n) - ((x1 * x1 + A) * x1 + B)) + x1 * d2 + (- (x1 * x1)) * d1
      BY <1>1
    <2> QED BY <2>2, <2>3
  <1>5. Null(d3)
    <2> HIDE DEF d1, d2, d3, g
    <2>1. 1 \in Int /\ - (x1 * x1) \in Int
      BY <1>1
    <2> QED BY <1>1, <1>3, <1>4, <2>1, NullOf3
  <1>6. /\ y1 - (l * x1 + n) = 0 * d1 + 0 * d1
        /\ y2 - (l * x2 + n) = y2 - y1 - l * (x2 - x1) /\ y3 - (l * x3 + n) = y3 - y1 - l * (x3 - x1)
    BY <1>1
  <1>7. Null(y1 - (l * x1 + n))
    <2> HIDE DEF d1, n
    <2> QED BY <1>1, <1>6, NullOf2
  <1> QED BY <1>1, <1>3, <1>5, <1>6, <1>7 DEF OnLine

(* Three points of the curve on one line, counted as often as it meets it. *)
Collinear(q, r, t, l, n) ==
    /\ q \in CurvePoints /\ r \in CurvePoints /\ t \in CurvePoints
    /\ OnLine(q[1], q[2], r[1], r[2], t[1], t[2], l, n)

LEMMA CollinearTurns ==
  ASSUME NEW q, NEW r, NEW t, NEW l, NEW n, Collinear(q, r, t, l, n)
  PROVE  Collinear(r, t, q, l, n) /\ Collinear(r, q, t, l, n)
  BY OnLineTurns DEF Collinear

ThirdOf(x1, y1, x2, l, u, v, w) ==
    /\ x1 \in Int /\ y1 \in Int /\ x2 \in Int /\ l \in Int
    /\ u = ThirdX(x1, x2, l) % P /\ v = ThirdY(x1, y1, x2, l) % P /\ w = (- v) % P

LEMMA ThirdParts ==
  ASSUME NEW x1, NEW y1, NEW x2, NEW l, NEW u, NEW v, NEW w, ThirdOf(x1, y1, x2, l, u, v, w)
  PROVE  /\ u \in Int /\ v \in Int /\ w \in Int
         /\ Null(l * l - (x1 + x2 + u)) /\ Null(w - y1 - l * (u - x1))
  <1> DEFINE x == ThirdX(x1, x2, l)  y == ThirdY(x1, y1, x2, l)
  <1>0. /\ x1 \in Int /\ y1 \in Int /\ x2 \in Int /\ l \in Int
        /\ u = x % P /\ v = y % P /\ w = (- v) % P
    BY DEF ThirdOf
  <1>1. x \in Int /\ y \in Int /\ x = l * l - x1 - x2 /\ y = l * (x1 - x) - y1
    BY <1>0, ThirdTypes DEF ThirdX, ThirdY
  <1> HIDE DEF x, y
  <1>2. u \in Int /\ v \in Int /\ Null(u - x) /\ Null(v - y)
    BY <1>0, <1>1, NullMod
  <1>3. - v \in Int
    BY <1>2
  <1>4. w \in Int /\ Null(w - (- v))
    BY <1>0, <1>3, NullMod
  <1> DEFINE d1 == u - x  d2 == v - y  d3 == w - (- v)
  <1>5. /\ l * l - (x1 + x2 + u) = (- 1) * d1 + 0 * d2
        /\ w - y1 - l * (u - x1) = 1 * d3 + (- 1) * d2 + (- l) * d1
    BY <1>0, <1>1, <1>2, <1>4
  <1>6. - 1 \in Int /\ - l \in Int /\ Null(d1) /\ Null(d2) /\ Null(d3)
    BY <1>0, <1>2, <1>4
  <1> HIDE DEF d1, d2, d3
  <1>7. Null(l * l - (x1 + x2 + u))
    BY <1>5, <1>6, NullOf2
  <1>8. Null(w - y1 - l * (u - x1))
    BY <1>5, <1>6, NullOf3
  <1> QED BY <1>2, <1>4, <1>7, <1>8

(* The sum reflected is on the line of the two points.                     *)
LEMMA SumCollinear ==
  ASSUME NEW q \in CurvePoints, NEW r \in CurvePoints, q # RNeg(r)
  PROVE  /\ RAdd(q, r) \in CurvePoints
         /\ \E l, n \in Int : Collinear(q, r, RNeg(RAdd(q, r)), l, n)
  <1>1. PICK l \in Field : Slope(q, r, l) /\ RAdd(q, r) = Third(q[1], q[2], r[1], l)
    BY RAddIs
  <1> DEFINE s == RAdd(q, r)  t == RNeg(s)
             x1 == q[1]  y1 == q[2]  x2 == r[1]  y2 == r[2]  u == s[1]  v == s[2]  w == t[2]
  <1>2. s = <<ThirdX(x1, x2, l) % P, ThirdY(x1, y1, x2, l) % P>>
    BY <1>1 DEF Third
  <1>3. s \in CurvePoints
    <2>1. s \in Group
      BY RAddClosed DEF Group
    <2>2. s # O
      BY <1>2 DEF O
    <2> QED BY <2>1, <2>2, GroupCases
  <1>4. t \in CurvePoints /\ t[1] = u /\ w = (- v) % P
    <2>1. t \in CurvePoints /\ t = <<s[1], (- s[2]) % P>>
      BY <1>3, RNegIs
    <2> QED BY <2>1
  <1>5. /\ x1 \in Int /\ y1 \in Int /\ x2 \in Int /\ y2 \in Int /\ l \in Int
    BY CurvePointFacts, PFacts DEF Field
  <1>6. u = ThirdX(x1, x2, l) % P /\ v = ThirdY(x1, y1, x2, l) % P
    BY <1>2
  <1>7. Null(Secant(x2, x1, y1, l)) /\ Null(Off(x1, y1))
    <2>1. Secant(x2, x1, y1, l) % P = 0 /\ Off(x1, y1) % P = 0
      BY <1>1, <1>5, SecantZero, OffZero
    <2>2. Secant(x2, x1, y1, l) \in Int /\ Off(x1, y1) \in Int
      <3> HIDE DEF x1, y1, x2
      <3> QED BY <1>5, SecantIs
    <2> QED BY <2>1, <2>2 DEF Null
  <1>8. Null(y2 - y1 - l * (x2 - x1))
    <2>1. CASE q = r
      <3>1. x2 = x1 /\ y2 = y1
        BY <2>1
      <3> HIDE DEF x1, x2, y1, y2
      <3>2. y2 - y1 - l * (x2 - x1) = 0 * P
        BY <1>5, <3>1, PFacts
      <3> QED BY <3>2, NullIs, 0 \in Int
    <2>2. CASE q # r
      <3>1. Congruent(l * (x2 - x1), y2 - y1)
        BY <1>1, <2>2 DEF Slope
      <3> HIDE DEF x1, x2, y1, y2
      <3> DEFINE a == l * (x2 - x1)  b == y2 - y1
      <3>2. a \in Int /\ b \in Int
        BY <1>5
      <3> HIDE DEF a, b
      <3>3. Congruent(b, a)
        BY <3>1, <3>2, CongruentSym DEF a, b
      <3>4. Null(b - a)
        BY <3>2, <3>3, NullCongruent
      <3> QED BY <3>4 DEF a, b
    <2> QED BY <2>1, <2>2
  <1>9. OnLine(x1, y1, x2, y2, u, w, l, y1 - l * x1)
    <2> HIDE DEF x1, y1, x2, y2, u, v, w
    <2>1. /\ u \in Int /\ w \in Int
          /\ Null(l * l - (x1 + x2 + u)) /\ Null(w - y1 - l * (u - x1))
      <3>1. ThirdOf(x1, y1, x2, l, u, v, w)
        BY <1>4, <1>5, <1>6 DEF ThirdOf
      <3> QED BY <3>1, ThirdParts
    <2> QED BY <1>5, <1>7, <1>8, <2>1, OnLineStarts DEF LineStart
  <1>10. y1 - l * x1 \in Int
    <2> HIDE DEF x1, y1
    <2> QED BY <1>5
  <1>11. Collinear(q, r, t, l, y1 - l * x1)
    BY <1>3, <1>4, <1>9 DEF Collinear
  <1> HIDE DEF s, t
  <1> QED BY <1>3, <1>5, <1>10, <1>11 DEF s, t

(* At a point that the line meets twice, its slope is that of the curve.   *)
LEMMA TangentOnLine ==
  ASSUME NEW x1, NEW y1, NEW y2, NEW x3, NEW y3, NEW l, NEW n,
         OnLine(x1, y1, x1, y2, x3, y3, l, n)
  PROVE  Null(2 * y1 * l - (3 * x1 * x1 + A)) /\ Null(y1 - y2)
  <1> DEFINE d1 == l * l - (x1 + x1 + x3)  d2 == A - 2 * l * n - (x1 * x1 + x1 * x3 + x1 * x3)
             d3 == y1 - (l * x1 + n)  d4 == y2 - (l * x1 + n)
  <1>1. /\ x1 \in Int /\ y1 \in Int /\ y2 \in Int /\ x3 \in Int /\ y3 \in Int
        /\ l \in Int /\ n \in Int /\ A \in Int
        /\ Null(d1) /\ Null(d2) /\ Null(d3) /\ Null(d4)
    BY PFacts DEF OnLine
  <1>2. /\ 2 * y1 * l - (3 * x1 * x1 + A) = (2 * x1) * d1 + (- 1) * d2 + (2 * l) * d3
        /\ y1 - y2 = 1 * d3 + (- 1) * d4
    BY <1>1
  <1>3. 2 * x1 \in Int /\ - 1 \in Int /\ 2 * l \in Int
    BY <1>1
  <1> HIDE DEF d1, d2, d3, d4
  <1>4. Null(2 * y1 * l - (3 * x1 * x1 + A))
    BY <1>1, <1>2, <1>3, NullOf3
  <1>5. Null(y1 - y2)
    BY <1>1, <1>2, <1>3, NullOf2
  <1> QED BY <1>4, <1>5

(* The line determines the sum.                                            *)
LEMMA CollinearSum ==
  ASSUME Smooth, NEW q, NEW r, NEW t, NEW l, NEW n, Collinear(q, r, t, l, n)
  PROVE  RAdd(q, r) = RNeg(t)
  <1> DEFINE x1 == q[1]  y1 == q[2]  x2 == r[1]  y2 == r[2]  x3 == t[1]  y3 == t[2]  m == l % P
  <1>1. /\ q \in CurvePoints /\ r \in CurvePoints /\ t \in CurvePoints
        /\ OnLine(x1, y1, x2, y2, x3, y3, l, n)
    BY DEF Collinear
  <1>2. /\ x1 \in Int /\ y1 \in Int /\ x2 \in Int /\ y2 \in Int /\ x3 \in Int /\ y3 \in Int
        /\ l \in Int /\ n \in Int
    BY <1>1 DEF OnLine
  <1>3. /\ y1 \in Field /\ y2 \in Field /\ x3 \in Field
    BY <1>1, CurvePointFacts
  <1>4. q # RNeg(r)
    <2> SUFFICES ASSUME q = RNeg(r) PROVE FALSE
      OBVIOUS
    <2>1. x1 = x2 /\ (y1 + y2) % P = 0
      BY <1>1, OppositeIs
    <2>2. y1 # 0 \/ (3 * x1 * x1 + A) % P # 0
      BY <1>1 DEF Smooth
    <2> HIDE DEF x1, x2, y1, y2, x3, y3
    <2>3. Null(2 * y1 * l - (3 * x1 * x1 + A)) /\ Null(y1 - y2)
      BY <1>1, <2>1, TangentOnLine
    <2>4. Null(2 * y1)
      <3>1. Null(y1 + y2)
        BY <1>2, <2>1 DEF Null
      <3>2. Null((y1 + y2) + (y1 - y2))
        BY <2>3, <3>1, NullSum
      <3>3. (y1 + y2) + (y1 - y2) = 2 * y1
        BY <1>2
      <3> QED BY <3>2, <3>3
    <2>5. y1 = 0
      <3>1. y1 % P = 0
        BY <1>2, <2>4, TwiceZero DEF Null
      <3>2. y1 % P = y1
        BY <1>3, PFacts, RemainderOfSmall DEF Field
      <3> QED BY <3>1, <3>2
    <2>6. Null(3 * x1 * x1 + A)
      <3>1. 3 * x1 * x1 + A = 0 * (2 * y1) + (- 1) * (2 * y1 * l - (3 * x1 * x1 + A))
        BY <1>2, <2>5, PFacts
      <3> QED BY <2>3, <2>4, <3>1, NullOf2, 0 \in Int, - 1 \in Int
    <2> QED BY <2>2, <2>5, <2>6 DEF Null
  <1>5. m \in Field /\ m \in Int /\ Null(m - l)
    BY <1>2, NullMod
  <1>6. Slope(q, r, m)
    <2>1. CASE q = r
      <3>1. x1 = x2 /\ y1 = y2
        BY <2>1
      <3> HIDE DEF x1, x2, y1, y2, x3, y3, m
      <3>2. Null(2 * y1 * l - (3 * x1 * x1 + A))
        BY <1>1, <3>1, TangentOnLine
      <3> DEFINE a == 2 * y1 * m  b == 3 * x1 * x1 + A  c == 2 * y1 * l - b  d == m - l
      <3>3. a \in Int /\ b \in Int /\ 2 * y1 \in Int /\ a - b = 1 * c + (2 * y1) * d
        BY <1>2, <1>5, PFacts
      <3> HIDE DEF c, d
      <3>4. Null(a - b)
        <4>1. Null(c) /\ Null(d)
          BY <1>5, <3>2 DEF c, d
        <4> HIDE DEF a, b
        <4> QED BY <3>3, <4>1, NullOf2, 1 \in Int
      <3>5. Congruent(a, b)
        <4> HIDE DEF a, b
        <4> QED BY <3>3, <3>4, NullCongruent
      <3> QED BY <2>1, <3>5 DEF Slope, x1, y1
    <2>2. CASE q # r
      <3>1. Null(y1 - (l * x1 + n)) /\ Null(y2 - (l * x2 + n))
        BY <1>1 DEF OnLine
      <3> HIDE DEF x1, x2, y1, y2, x3, y3, m
      <3> DEFINE a == m * (x2 - x1)  b == y2 - y1  c == y1 - (l * x1 + n)  d == y2 - (l * x2 + n)
                 e == m - l
      <3>2. a \in Int /\ b \in Int /\ x2 - x1 \in Int /\ a - b = 1 * c + (- 1) * d + (x2 - x1) * e
        BY <1>2, <1>5
      <3>3. Null(a - b)
        <4> HIDE DEF a, b, c, d, e
        <4>1. Null(c) /\ Null(d) /\ Null(e)
          BY <1>5, <3>1 DEF c, d, e
        <4> QED BY <3>2, <4>1, NullOf3, 1 \in Int, - 1 \in Int
      <3>4. Congruent(a, b)
        <4> HIDE DEF a, b
        <4> QED BY <3>2, <3>3, NullCongruent
      <3> QED BY <2>2, <3>4 DEF Slope, x1, y1, x2, y2
    <2> QED BY <2>1, <2>2
  <1>7. RAdd(q, r) = Third(x1, y1, x2, m)
    <2>1. PICK k \in Field : Slope(q, r, k) /\ RAdd(q, r) = Third(q[1], q[2], r[1], k)
      BY <1>1, <1>4, RAddIs
    <2> HIDE DEF m
    <2>2. k = m
      BY <1>1, <1>4, <1>5, <1>6, <2>1, SlopeUnique
    <2> QED BY <2>1, <2>2
  <1>8. RNeg(t) = <<x3, (- y3) % P>> /\ (- y3) % P \in Field
    BY <1>1, RNegIs
  <1>9. /\ Null(l * l - (x1 + x2 + x3)) /\ Null(y1 - (l * x1 + n)) /\ Null(y3 - (l * x3 + n))
    BY <1>1 DEF OnLine
  <1> DEFINE x == ThirdX(x1, x2, m)  y == ThirdY(x1, y1, x2, m)  z == (- y3) % P
             u == x % P  v == y % P
             c1 == l * l - (x1 + x2 + x3)  c2 == y1 - (l * x1 + n)  c3 == y3 - (l * x3 + n)
             c4 == m - l  d1 == u - x  d2 == v - y  d3 == z - (- y3)
  <1> HIDE DEF x1, x2, y1, y2, x3, y3, m
  <1>10. x \in Int /\ y \in Int /\ x = m * m - x1 - x2 /\ y = m * (x1 - x) - y1
    BY <1>2, <1>5, ThirdTypes DEF ThirdX, ThirdY
  <1> HIDE DEF x, y
  <1>11. u \in Field /\ v \in Field /\ u \in Int /\ v \in Int /\ Null(d1) /\ Null(d2)
    BY <1>10, NullMod
  <1>12. z \in Field /\ z \in Int /\ Null(d3)
    <2>1. - y3 \in Int
      BY <1>2
    <2> QED BY <2>1, NullMod
  <1> HIDE DEF u, v, z
  <1>13. x - x3 = (m + l) * c4 + 1 * c1
    BY <1>2, <1>5, <1>10
  <1>14. Null(x - x3)
    <2> HIDE DEF c1, c4
    <2>1. Null(c1) /\ Null(c4) /\ m + l \in Int
      BY <1>2, <1>5, <1>9 DEF c1, c4
    <2> QED BY <1>13, <2>1, NullOf2, 1 \in Int
  <1>15. u - x3 = d1 + (x - x3)
    BY <1>2, <1>10, <1>11
  <1>16. u = x3
    <2> HIDE DEF d1
    <2>1. Null(u - x3)
      BY <1>11, <1>14, <1>15, NullSum
    <2> QED BY <1>3, <1>11, <2>1, NullEqual
  <1> DEFINE e1 == x - x3  e2 == y + y3
  <1>17. e2 = ((x1 - x) * c4 + (- l) * e1) + ((- 1) * c2 + 1 * c3)
    BY <1>2, <1>5, <1>10
  <1>18. Null(e2)
    <2> DEFINE f1 == (x1 - x) * c4 + (- l) * e1  f2 == (- 1) * c2 + 1 * c3
    <2> HIDE DEF c1, c2, c3, c4, e1, e2
    <2>1. /\ Null(c2) /\ Null(c3) /\ Null(c4) /\ Null(e1) /\ x1 - x \in Int /\ - l \in Int
      BY <1>2, <1>5, <1>9, <1>10, <1>14 DEF c2, c3, c4, e1
    <2>2. Null(f1) /\ Null(f2)
      BY <2>1, NullOf2, 1 \in Int, - 1 \in Int
    <2> QED BY <1>17, <2>2, NullSum
  <1>19. v - z = 1 * d2 + 1 * e2 + (- 1) * d3
    BY <1>2, <1>10, <1>11, <1>12
  <1>20. v = z
    <2> HIDE DEF d2, d3, e2
    <2>1. Null(v - z)
      BY <1>11, <1>12, <1>18, <1>19, NullOf3, 1 \in Int, - 1 \in Int
    <2> QED BY <1>11, <1>12, <2>1, NullEqual
  <1> QED BY <1>7, <1>8, <1>16, <1>20 DEF Third, u, v, z, x, y

(* Three points whose sum is O may be taken in any order.                  *)
LEMMA SumRotates ==
  ASSUME Smooth, NEW q \in Group, NEW r \in Group, NEW t \in Group, RAdd(q, r) = RNeg(t)
  PROVE  RAdd(r, t) = RNeg(q)
  <1>1. CASE q = O
    <2>1. r = RNeg(t)
      BY <1>1, RAddZero
    <2> QED BY <1>1, <2>1, RNegFacts DEF RNeg
  <1>2. CASE r = O
    <2>1. q = RNeg(t)
      BY <1>2, RAddZero
    <2> QED BY <1>2, <2>1, RAddZero, RNegFacts
  <1>3. CASE q \in CurvePoints /\ r \in CurvePoints /\ q = RNeg(r)
    <2>1. RAdd(q, r) = O /\ RNeg(q) = r
      BY <1>3, RNegFacts
    <2>2. t = O
      <3>1. RNeg(RNeg(t)) = t /\ RNeg(O) = O
        BY RNegFacts DEF RNeg
      <3> QED BY <2>1, <3>1
    <2> QED BY <2>1, <2>2, RAddZero
  <1>4. CASE q \in CurvePoints /\ r \in CurvePoints /\ q # RNeg(r)
    <2>1. PICK l \in Int, n \in Int : Collinear(q, r, RNeg(RAdd(q, r)), l, n)
      BY <1>4, SumCollinear
    <2>2. RNeg(RAdd(q, r)) = t
      BY RNegFacts
    <2>3. Collinear(r, t, q, l, n)
      BY <2>1, <2>2, CollinearTurns
    <2> QED BY <2>3, CollinearSum
  <1> QED BY <1>1, <1>2, <1>3, <1>4, GroupCases

LEMMA SumCancels ==
  ASSUME Smooth, NEW q \in Group, NEW r \in Group, NEW t \in Group, RAdd(q, t) = RAdd(r, t)
  PROVE  q = r
  <1> DEFINE s == RNeg(RAdd(q, t))
  <1>1. s \in Group /\ RAdd(q, t) = RNeg(s) /\ RAdd(r, t) = RNeg(s)
    BY RAddClosed, RNegFacts
  <1> HIDE DEF s
  <1>2. RAdd(t, s) = RNeg(q) /\ RAdd(t, s) = RNeg(r)
    BY <1>1, SumRotates
  <1>3. RNeg(q) = RNeg(r)
    BY <1>2
  <1> QED BY <1>3, RNegFacts

(* The line reflected.                                                     *)
OnOpposite(x1, y1, z1, x2, y2, z2, x3, y3, z3, l, n) ==
    /\ OnLine(x1, y1, x2, y2, x3, y3, l, n)
    /\ z1 \in Int /\ z2 \in Int /\ z3 \in Int
    /\ Null(z1 + y1) /\ Null(z2 + y2) /\ Null(z3 + y3)

LEMMA OnLineReflects ==
  ASSUME NEW x1, NEW y1, NEW z1, NEW x2, NEW y2, NEW z2, NEW x3, NEW y3, NEW z3, NEW l, NEW n,
         OnOpposite(x1, y1, z1, x2, y2, z2, x3, y3, z3, l, n)
  PROVE  OnLine(x1, z1, x2, z2, x3, z3, - l, - n)
  <1>1. /\ x1 \in Int /\ x2 \in Int /\ x3 \in Int /\ l \in Int /\ n \in Int
        /\ z1 \in Int /\ z2 \in Int /\ z3 \in Int /\ A \in Int /\ B \in Int
        /\ - l \in Int /\ - n \in Int
    BY PFacts DEF OnLine, OnOpposite
  <1>2. ASSUME NEW x \in Int, NEW y \in Int, NEW z \in Int, Null(y - (l * x + n)), Null(z + y)
        PROVE  Null(z - ((- l) * x + (- n)))
    <2>1. z - ((- l) * x + (- n)) = (z + y) - (y - (l * x + n))
      BY <1>1, <1>2
    <2> QED BY <1>2, <2>1, NullSum
  <1>3. Null(z1 - ((- l) * x1 + (- n))) /\ Null(z2 - ((- l) * x2 + (- n))) /\ Null(z3 - ((- l) * x3 + (- n)))
    BY <1>1, <1>2 DEF OnLine, OnOpposite
  <1>4. (- l) * (- l) = l * l /\ 2 * (- l) * (- n) = 2 * l * n /\ (- n) * (- n) = n * n
    BY <1>1
  <1> QED BY <1>1, <1>3, <1>4 DEF OnLine, OnOpposite

LEMMA CollinearReflects ==
  ASSUME NEW q, NEW r, NEW t, NEW l, NEW n, Collinear(q, r, t, l, n)
  PROVE  Collinear(RNeg(q), RNeg(r), RNeg(t), - l, - n)
  <1>1. ASSUME NEW s \in CurvePoints
        PROVE  /\ RNeg(s) \in CurvePoints /\ RNeg(s)[1] = s[1] /\ RNeg(s)[2] \in Int
               /\ Null(RNeg(s)[2] + s[2])
    <2>1. RNeg(s) \in CurvePoints /\ RNeg(s) = <<s[1], (- s[2]) % P>> /\ s[2] \in Int
      BY <1>1, RNegIs, CurvePointFacts
    <2> DEFINE y == s[2]  z == RNeg(s)[2]
    <2>2. y \in Int /\ z = (- y) % P
      BY <2>1
    <2> HIDE DEF y, z
    <2>3. - y \in Int
      BY <2>2
    <2>4. z \in Int /\ Null(z - (- y))
      BY <2>2, <2>3, NullMod
    <2>5. z - (- y) = z + y
      BY <2>2, <2>4
    <2> QED BY <2>1, <2>4, <2>5 DEF y, z
  <1>2. q \in CurvePoints /\ r \in CurvePoints /\ t \in CurvePoints
    BY DEF Collinear
  <1> DEFINE a == RNeg(q)  b == RNeg(r)  c == RNeg(t)
  <1>3. /\ a \in CurvePoints /\ b \in CurvePoints /\ c \in CurvePoints
        /\ a[1] = q[1] /\ b[1] = r[1] /\ c[1] = t[1]
        /\ a[2] \in Int /\ b[2] \in Int /\ c[2] \in Int
        /\ Null(a[2] + q[2]) /\ Null(b[2] + r[2]) /\ Null(c[2] + t[2])
    BY <1>1, <1>2
  <1> HIDE DEF a, b, c
  <1>4. OnOpposite(q[1], q[2], a[2], r[1], r[2], b[2], t[1], t[2], c[2], l, n)
    BY <1>3 DEF Collinear, OnOpposite
  <1>5. OnLine(q[1], a[2], r[1], b[2], t[1], c[2], - l, - n)
    BY <1>4, OnLineReflects
  <1>6. Collinear(a, b, c, - l, - n)
    BY <1>3, <1>5 DEF Collinear
  <1> QED BY <1>6 DEF a, b, c

(* The opposite of a sum is the sum of the opposites.                      *)
LEMMA RNegSum ==
  ASSUME Smooth, NEW q \in Group, NEW r \in Group
  PROVE  RNeg(RAdd(q, r)) = RAdd(RNeg(q), RNeg(r))
  <1>0. RNeg(O) = O
    BY DEF RNeg
  <1>1. CASE q = O \/ r = O
    BY <1>0, <1>1, RAddZero, RNegFacts
  <1>2. CASE q \in CurvePoints /\ r \in CurvePoints /\ q = RNeg(r)
    BY <1>0, <1>2, RNegFacts
  <1>3. CASE q \in CurvePoints /\ r \in CurvePoints /\ q # RNeg(r)
    <2> DEFINE t == RNeg(RAdd(q, r))
    <2>1. PICK l \in Int, n \in Int : Collinear(q, r, t, l, n)
      BY <1>3, SumCollinear
    <2>2. t \in Group
      BY RAddClosed, RNegFacts
    <2> HIDE DEF t
    <2>3. Collinear(RNeg(q), RNeg(r), RNeg(t), - l, - n)
      BY <2>1, CollinearReflects
    <2>4. RAdd(RNeg(q), RNeg(r)) = RNeg(RNeg(t))
      BY <2>3, CollinearSum
    <2>5. RAdd(RNeg(q), RNeg(r)) = t
      BY <2>2, <2>4, RNegFacts
    <2> QED BY <2>5 DEF t
  <1> QED BY <1>1, <1>2, <1>3, GroupCases

(* Two lines that meet the curve at opposite points: the other four points *)
(* are those of the curve on the parabola s*y = x^2 + c*x + d, where s is  *)
(* the sum of the slopes. Bend is the c of the parabola through two points *)
(* of a line of slope l, Level the d.                                      *)
Bend(s, l, x1, x2) == s * l - x1 - x2
Level(s, n, x1, x2) == s * n + x1 * x2

TwoLines(x1, y1, x2, y2, x3, y3, x4, y4, g, h, i, l, n, j, o) ==
    /\ OnLine(x1, y1, x2, y2, g, h, l, n) /\ OnLine(x3, y3, x4, y4, g, i, j, o)
    /\ Null(h + i)

LEMMA TwoLinesTurn ==
  ASSUME NEW x1, NEW y1, NEW x2, NEW y2, NEW x3, NEW y3, NEW x4, NEW y4, NEW g, NEW h, NEW i,
         NEW l, NEW n, NEW j, NEW o,
         TwoLines(x1, y1, x2, y2, x3, y3, x4, y4, g, h, i, l, n, j, o)
  PROVE  TwoLines(x2, y2, x1, y1, x4, y4, x3, y3, g, h, i, l, n, j, o)
  BY OnLineTurns DEF TwoLines

(* The parabola through two of the points is that through the others.      *)
LEMMA OneParabola ==
  ASSUME NEW x1, NEW y1, NEW x2, NEW y2, NEW x3, NEW y3, NEW x4, NEW y4, NEW g, NEW h, NEW i,
         NEW l, NEW n, NEW j, NEW o,
         TwoLines(x1, y1, x2, y2, x3, y3, x4, y4, g, h, i, l, n, j, o)
  PROVE  /\ Null(Bend(l + j, j, x3, x4) - Bend(l + j, l, x1, x2))
         /\ Null(Level(l + j, o, x3, x4) - Level(l + j, n, x1, x2))
         /\ Null((l + j) * g + n + o)
  <1> DEFINE d1 == l * l - (x1 + x2 + g)  d2 == A - 2 * l * n - (x1 * x2 + x1 * g + x2 * g)
             e1 == j * j - (x3 + x4 + g)  e2 == A - 2 * j * o - (x3 * x4 + x3 * g + x4 * g)
             d3 == h - (l * g + n)  e3 == i - (j * g + o)  f == h + i  m == (l + j) * g + n + o
             b == Bend(l + j, j, x3, x4) - Bend(l + j, l, x1, x2)
             c == Level(l + j, o, x3, x4) - Level(l + j, n, x1, x2)
  <1>1. /\ x1 \in Int /\ x2 \in Int /\ x3 \in Int /\ x4 \in Int /\ g \in Int /\ h \in Int /\ i \in Int
        /\ l \in Int /\ n \in Int /\ j \in Int /\ o \in Int /\ A \in Int
        /\ Null(d1) /\ Null(d2) /\ Null(d3) /\ Null(e1) /\ Null(e2) /\ Null(e3) /\ Null(f)
    BY PFacts DEF OnLine, TwoLines
  <1>2. m = 1 * f + (- 1) * d3 + (- 1) * e3 /\ b = 1 * e1 + (- 1) * d1
    BY <1>1 DEF Bend
  <1>3. c = ((- 1) * e2 + 1 * d2) + (g * e1 + (- g) * d1 + (l - j) * m)
    BY <1>1 DEF Level
  <1>4. - g \in Int /\ l - j \in Int /\ 1 \in Int /\ - 1 \in Int
    BY <1>1
  <1> DEFINE r == (- 1) * e2 + 1 * d2  t == g * e1 + (- g) * d1 + (l - j) * m
  <1> HIDE DEF d1, d2, d3, e1, e2, e3, f, b, c, m
  <1>5. Null(m)
    BY <1>1, <1>2, <1>4, NullOf3
  <1>6. Null(b) /\ Null(r)
    BY <1>1, <1>2, <1>4, NullOf2
  <1>7. Null(t)
    BY <1>1, <1>4, <1>5, NullOf3
  <1>8. Null(c)
    BY <1>3, <1>6, <1>7, NullSum
  <1> QED BY <1>5, <1>6, <1>8 DEF m, b, c

(* So is that through one point of either line.                            *)
Across(x1, y1, x2, y2, x3, y3, x4, y4, g, h, i, l, n, j, o, u, w, k, m) ==
    /\ TwoLines(x1, y1, x2, y2, x3, y3, x4, y4, g, h, i, l, n, j, o)
    /\ OnLine(x2, y2, x3, y3, u, w, k, m)
    /\ ~ Null(l + j)
    /\ ~ Null(x2 - x3) \/ (x2 = x3 /\ y2 = y3 /\ ~ Null(y2))

LEMMA ParabolaAcross ==
  ASSUME NEW x1, NEW y1, NEW x2, NEW y2, NEW x3, NEW y3, NEW x4, NEW y4, NEW g, NEW h, NEW i,
         NEW l, NEW n, NEW j, NEW o, NEW u, NEW w, NEW k, NEW m,
         Across(x1, y1, x2, y2, x3, y3, x4, y4, g, h, i, l, n, j, o, u, w, k, m)
  PROVE  /\ Null(Bend(l + j, k, x2, x3) - Bend(l + j, l, x1, x2))
         /\ Null(Level(l + j, m, x2, x3) - Level(l + j, n, x1, x2))
  <1> DEFINE s == l + j
             e1 == Bend(s, k, x2, x3) - Bend(s, l, x1, x2)
             e0 == Level(s, m, x2, x3) - Level(s, n, x1, x2)
             b == Bend(s, j, x3, x4) - Bend(s, l, x1, x2)
             c == Level(s, o, x3, x4) - Level(s, n, x1, x2)
             f == s * g + n + o
             d1 == l * l - (x1 + x2 + g)  d2 == A - 2 * l * n - (x1 * x2 + x1 * g + x2 * g)
             d3 == y2 - (l * x2 + n)  d4 == y3 - (j * x3 + o)
             d5 == y2 - (k * x2 + m)  d6 == y3 - (k * x3 + m)
  <1>1. /\ TwoLines(x1, y1, x2, y2, x3, y3, x4, y4, g, h, i, l, n, j, o)
        /\ OnLine(x2, y2, x3, y3, u, w, k, m) /\ ~ Null(s)
        /\ ~ Null(x2 - x3) \/ (x2 = x3 /\ y2 = y3 /\ ~ Null(y2))
    BY DEF Across
  <1>2. OnLine(x1, y1, x2, y2, g, h, l, n) /\ OnLine(x3, y3, x4, y4, g, i, j, o)
    BY <1>1 DEF TwoLines
  <1>3. /\ x1 \in Int /\ x2 \in Int /\ x3 \in Int /\ x4 \in Int /\ g \in Int
        /\ y2 \in Int /\ y3 \in Int /\ A \in Int
        /\ l \in Int /\ n \in Int /\ j \in Int /\ o \in Int /\ k \in Int /\ m \in Int /\ s \in Int
    BY <1>1, <1>2, PFacts DEF OnLine
  <1>4. Null(b) /\ Null(c) /\ Null(f)
    BY <1>1, OneParabola
  <1>5. Null(d1) /\ Null(d2) /\ Null(d3) /\ Null(d4) /\ Null(d5) /\ Null(d6)
    BY <1>1, <1>2 DEF OnLine
  <1>6. e1 \in Int /\ e0 \in Int
    <2> HIDE DEF s
    <2> QED BY <1>3 DEF Bend, Level
  <1>7. Null(e1 * x2 + e0)
    <2>1. e1 * x2 + e0 = s * d3 + (- s) * d5
      <3> HIDE DEF s
      <3> QED BY <1>3 DEF Bend, Level
    <2> HIDE DEF d3, d5, s
    <2>2. - s \in Int
      BY <1>3
    <2> QED BY <1>3, <1>5, <2>1, <2>2, NullOf2
  <1>8. Null(e1 * x3 + e0)
    <2> DEFINE r == s * d4 + (- s) * d6  t == x3 * b + 1 * c
    <2>1. e1 * x3 + e0 = r + t
      <3> HIDE DEF s
      <3> QED BY <1>3 DEF Bend, Level
    <2> HIDE DEF d4, d6, s, b, c
    <2>2. - s \in Int
      BY <1>3
    <2>3. Null(r)
      BY <1>3, <1>5, <2>2, NullOf2
    <2>4. Null(t)
      BY <1>3, <1>4, NullOf2, 1 \in Int
    <2> QED BY <2>1, <2>3, <2>4, NullSum
  <1>9. ASSUME ~ Null(x2 - x3) PROVE Null(e1)
    <2> HIDE DEF e1, e0, s
    <2>1. (e1 * x2 + e0) - (e1 * x3 + e0) = e1 * (x2 - x3) /\ x2 - x3 \in Int
      BY <1>3, <1>6
    <2>2. Null(e1 * (x2 - x3))
      BY <1>7, <1>8, <2>1, NullSum
    <2> QED BY <1>6, <1>9, <2>1, <2>2, NullProduct
  <1>10. ASSUME x2 = x3 /\ y2 = y3 /\ ~ Null(y2) PROVE Null(e1)
    <2> DEFINE t == 2 * y2 * k - (3 * x2 * x2 + A)
               d == (3 * x2 * x2 + A) - 2 * l * y2 - (x2 - x1) * (x2 - g)
               r == s * (x2 - g) - 2 * y2
    <2>1. Null(t)
      BY <1>1, <1>10, TangentOnLine
    <2>2. d = 1 * d2 + (- (2 * x2)) * d1 + (- (2 * l)) * d3
      BY <1>3
    <2>3. Null(d)
      <3>1. 1 \in Int /\ - (2 * x2) \in Int /\ - (2 * l) \in Int
        BY <1>3
      <3> HIDE DEF d, d1, d2, d3
      <3> QED BY <1>5, <2>2, <3>1, NullOf3
    <2>4. r = (- 1) * f + (- 1) * d3 + (- 1) * d4
      BY <1>3, <1>10
    <2>5. Null(r)
      <3> HIDE DEF r, f, d3, d4
      <3> QED BY <1>4, <1>5, <2>4, NullOf3, - 1 \in Int
    <2>6. e1 = s * k - s * l + x1 - x2
      <3> HIDE DEF s
      <3> QED BY <1>3, <1>10 DEF Bend
    <2>7. (2 * y2) * (s * k - s * l + x1 - x2) = s * t + s * d + (x2 - x1) * r
      <3> HIDE DEF s
      <3> QED BY <1>3
    <2>8. Null((2 * y2) * e1)
      <3> HIDE DEF t, d, r, s, e1
      <3>1. x2 - x1 \in Int
        BY <1>3
      <3> QED BY <1>3, <2>1, <2>3, <2>5, <2>6, <2>7, <3>1, NullOf3
    <2>9. 2 * y2 \in Int /\ ~ Null(2 * y2)
      BY <1>3, <1>10, TwiceZero DEF Null
    <2> HIDE DEF e1
    <2> QED BY <1>6, <2>8, <2>9, NullProduct
  <1>11. Null(e1)
    BY <1>1, <1>9, <1>10
  <1>12. Null(e0)
    <2> HIDE DEF e1, e0
    <2>1. e0 = 1 * (e1 * x2 + e0) + (- x2) * e1 /\ - x2 \in Int
      BY <1>3, <1>6
    <2> QED BY <1>7, <1>11, <2>1, NullOf2, 1 \in Int
  <1> QED BY <1>11, <1>12

(* What two lines through the four points leave of the product of their    *)
(* parabolas: the line of slope k through a1 and a2, u the sum of a third, *)
(* and of slope e.                                                         *)
Leftover(s, k, m, a, e, f, b) == s * k * e - k * b - e * a + m + f

TwoThirds(s, x1, x2, u, k, m, x3, x4, v, e, f) ==
    /\ x1 \in Int /\ x2 \in Int /\ x3 \in Int /\ x4 \in Int /\ u \in Int /\ v \in Int
    /\ k \in Int /\ m \in Int /\ e \in Int /\ f \in Int /\ s \in Int
    /\ Null(k * k - (x1 + x2 + u)) /\ Null(e * e - (x3 + x4 + v))
    /\ Null(s - k - e) /\ Null(u - v)

LEMMA LeftoverOfTwo ==
  ASSUME NEW s, NEW x1, NEW x2, NEW u, NEW k, NEW m, NEW x3, NEW x4, NEW v, NEW e, NEW f,
         TwoThirds(s, x1, x2, u, k, m, x3, x4, v, e, f)
  PROVE  Null(Leftover(s, k, m, x1 + x2, e, f, x3 + x4) - ((k * u + m) + (e * v + f)))
  <1> DEFINE d1 == k * k - (x1 + x2 + u)  d2 == e * e - (x3 + x4 + v)  d3 == s - k - e  d4 == u - v
             z == Leftover(s, k, m, x1 + x2, e, f, x3 + x4) - ((k * u + m) + (e * v + f))
             r == (k * e) * d3 + (- (k - e)) * d4  t == k * d2 + e * d1
  <1>1. /\ x1 \in Int /\ x2 \in Int /\ x3 \in Int /\ x4 \in Int /\ u \in Int /\ v \in Int
        /\ k \in Int /\ m \in Int /\ e \in Int /\ f \in Int /\ s \in Int
        /\ Null(d1) /\ Null(d2) /\ Null(d3) /\ Null(d4)
    BY DEF TwoThirds
  <1>2. z = r + t
    BY <1>1 DEF Leftover
  <1>3. k * e \in Int /\ - (k - e) \in Int
    BY <1>1
  <1> HIDE DEF d1, d2, d3, d4, z
  <1>4. Null(r) /\ Null(t)
    BY <1>1, <1>3, NullOf2
  <1>5. Null(z)
    BY <1>2, <1>4, NullSum
  <1> QED BY <1>5 DEF z

(* The lines that cross meet the curve at opposite points too.             *)
CrossLines(x1, y1, x2, y2, x3, y3, x4, y4, g, h, i, l, n, j, o, u, w, k, m, v, z, e, f) ==
    /\ Across(x1, y1, x2, y2, x3, y3, x4, y4, g, h, i, l, n, j, o, u, w, k, m)
    /\ Across(x2, y2, x1, y1, x4, y4, x3, y3, g, h, i, l, n, j, o, v, z, e, f)

LEMMA CrossLinesMeet ==
  ASSUME NEW x1, NEW y1, NEW x2, NEW y2, NEW x3, NEW y3, NEW x4, NEW y4, NEW g, NEW h, NEW i,
         NEW l, NEW n, NEW j, NEW o, NEW u, NEW w, NEW k, NEW m, NEW v, NEW z, NEW e, NEW f,
         CrossLines(x1, y1, x2, y2, x3, y3, x4, y4, g, h, i, l, n, j, o, u, w, k, m, v, z, e, f)
  PROVE  Null(u - v) /\ Null(w + z)
  <1> DEFINE s == l + j
             bl == Bend(s, l, x1, x2)  bj == Bend(s, j, x3, x4)
             bk == Bend(s, k, x2, x3)  be == Bend(s, e, x1, x4)
             ll == Level(s, n, x1, x2)  lj == Level(s, o, x3, x4)
             lk == Level(s, m, x2, x3)  le == Level(s, f, x1, x4)
  <1>1. /\ TwoLines(x1, y1, x2, y2, x3, y3, x4, y4, g, h, i, l, n, j, o) /\ ~ Null(s)
        /\ OnLine(x1, y1, x2, y2, g, h, l, n) /\ OnLine(x3, y3, x4, y4, g, i, j, o)
        /\ OnLine(x2, y2, x3, y3, u, w, k, m) /\ OnLine(x1, y1, x4, y4, v, z, e, f)
    BY DEF CrossLines, Across, TwoLines
  <1>2. /\ x1 \in Int /\ x2 \in Int /\ x3 \in Int /\ x4 \in Int /\ g \in Int
        /\ u \in Int /\ v \in Int /\ w \in Int /\ z \in Int
        /\ l \in Int /\ n \in Int /\ j \in Int /\ o \in Int /\ k \in Int /\ m \in Int
        /\ e \in Int /\ f \in Int /\ s \in Int
    BY <1>1 DEF OnLine
  <1>3. Null(bj - bl) /\ Null(lj - ll) /\ Null(s * g + n + o)
    BY <1>1, OneParabola
  <1>4. Null(bk - bl) /\ Null(lk - ll)
    BY ParabolaAcross DEF CrossLines
  <1>5. Null(be - bl) /\ Null(le - ll)
    <2>1. /\ Null(Bend(s, e, x1, x4) - Bend(s, l, x2, x1))
          /\ Null(Level(s, f, x1, x4) - Level(s, n, x2, x1))
      BY ParabolaAcross DEF CrossLines
    <2>2. Bend(s, l, x2, x1) = bl /\ Level(s, n, x2, x1) = ll
      <3> HIDE DEF s
      <3> QED BY <1>2 DEF Bend, Level
    <2> QED BY <2>1, <2>2
  <1>6. /\ bl \in Int /\ bj \in Int /\ bk \in Int /\ be \in Int
        /\ ll \in Int /\ lj \in Int /\ lk \in Int /\ le \in Int
    <2> HIDE DEF s
    <2> QED BY <1>2 DEF Bend, Level
  <1> DEFINE c == s - k - e
  <1>7. Null(c)
    <2>1. s * c = bl + bj - bk - be
      BY <1>2 DEF Bend
    <2>2. c \in Int
      BY <1>2
    <2> HIDE DEF s, c, bl, bj, bk, be
    <2>3. bl + bj - bk - be = 1 * (bj - bl) + (- 1) * (bk - bl) + (- 1) * (be - bl)
      BY <1>6
    <2>4. Null(s * c)
      BY <1>3, <1>4, <1>5, <2>1, <2>3, NullOf3, 1 \in Int, - 1 \in Int
    <2> QED BY <1>1, <1>2, <2>2, <2>4, NullProduct
  <1> DEFINE k1 == k * k - (x2 + x3 + u)  k2 == e * e - (x1 + x4 + v)
  <1>8. Null(k1) /\ Null(k2)
    BY <1>1 DEF OnLine
  <1>9. Null(u - v)
    <2> DEFINE r == 1 * (bk - bl) + (- 1) * (be - bl)
               t == (- (k - e)) * c + (- 1) * k1 + 1 * k2
    <2>1. u - v = r + t
      <3> HIDE DEF s, bl
      <3>1. r = bk - be
        <4> HIDE DEF bk, be
        <4> QED BY <1>6
      <3>2. u - v = (bk - be) + t
        BY <1>2 DEF Bend
      <3> QED BY <3>1, <3>2
    <2>2. - (k - e) \in Int
      BY <1>2
    <2> HIDE DEF s, c, bl, bj, bk, be, k1, k2
    <2>3. Null(r)
      BY <1>4, <1>5, NullOf2, 1 \in Int, - 1 \in Int
    <2>4. Null(t)
      BY <1>7, <1>8, <2>2, NullOf3, 1 \in Int, - 1 \in Int
    <2> QED BY <2>1, <2>3, <2>4, NullSum
  <1> DEFINE p == Leftover(s, k, m, x2 + x3, e, f, x1 + x4)  q == Leftover(s, l, n, x1 + x2, j, o, x3 + x4)
             a == (k * u + m) + (e * v + f)  b == (l * g + n) + (j * g + o)
  <1>10. Null(p - a)
    BY <1>2, <1>7, <1>8, <1>9, LeftoverOfTwo DEF TwoThirds
  <1>11. Null(q - b)
    <2>1. s - l - j = 0 * P /\ g - g = 0 * P
      BY <1>2, PFacts
    <2>2. Null(s - l - j) /\ Null(g - g)
      BY <2>1, NullIs, 0 \in Int
    <2>3. Null(l * l - (x1 + x2 + g)) /\ Null(j * j - (x3 + x4 + g))
      BY <1>1 DEF OnLine
    <2>4. TwoThirds(s, x1, x2, g, l, n, x3, x4, g, j, o)
      <3> HIDE DEF s
      <3> QED BY <1>2, <2>2, <2>3 DEF TwoThirds
    <2> HIDE DEF s
    <2> QED BY <2>4, LeftoverOfTwo
  <1>12. Null(b)
    <2>1. b = s * g + n + o
      BY <1>2
    <2> QED BY <1>3, <2>1
  <1>13. p \in Int /\ q \in Int /\ a \in Int /\ b \in Int
    <2> HIDE DEF s
    <2> QED BY <1>2 DEF Leftover
  <1>14. s * (p - q) = (be * (bk - bl) + bl * (be - bj)) + ((lk - ll) + (le - lj))
    <2>1. /\ bk * be + (lk + le) = s * p + (x2 * x3 + x1 * x4 + (x2 + x3) * (x1 + x4))
      <3> HIDE DEF s
      <3> QED BY <1>2 DEF Bend, Level, Leftover
    <2>2. /\ bl * bj + (ll + lj) = s * q + (x1 * x2 + x3 * x4 + (x1 + x2) * (x3 + x4))
      <3> HIDE DEF s
      <3> QED BY <1>2 DEF Bend, Level, Leftover
    <2>3. x2 * x3 + x1 * x4 + (x2 + x3) * (x1 + x4) = x1 * x2 + x3 * x4 + (x1 + x2) * (x3 + x4)
      BY <1>2
    <2> DEFINE t == x1 * x2 + x3 * x4 + (x1 + x2) * (x3 + x4)
    <2>4. t \in Int /\ bk * be + (lk + le) = s * p + t /\ bl * bj + (ll + lj) = s * q + t
      BY <1>2, <2>1, <2>2, <2>3
    <2> HIDE DEF s, p, q, t, bl, bj, bk, be, ll, lj, lk, le
    <2>5. s * (p - q) = (s * p + t) - (s * q + t)
      BY <1>2, <1>13, <2>4
    <2>6. (bk * be + (lk + le)) - (bl * bj + (ll + lj))
            = (be * (bk - bl) + bl * (be - bj)) + ((lk - ll) + (le - lj))
      BY <1>6
    <2> QED BY <2>4, <2>5, <2>6
  <1>15. Null(p - q)
    <2> DEFINE r == be * (bk - bl) + bl * (be - bj)  t == (lk - ll) + (le - lj)
    <2> HIDE DEF s, p, q, bl, bj, bk, be, ll, lj, lk, le
    <2>1. be - bj = (be - bl) - (bj - bl) /\ le - lj = (le - ll) - (lj - ll)
      BY <1>6
    <2>2. Null(be - bj) /\ Null(le - lj)
      BY <1>3, <1>5, <2>1, NullSum
    <2>3. Null(r)
      BY <1>4, <1>6, <2>2, NullOf2
    <2>4. Null(t)
      BY <1>4, <2>2, NullSum
    <2>5. Null(s * (p - q))
      BY <1>14, <2>3, <2>4, NullSum
    <2>6. p - q \in Int
      BY <1>13
    <2> QED BY <1>1, <1>2, <2>5, <2>6, NullProduct
  <1>16. Null(a)
    <2> HIDE DEF a, b, p, q
    <2>1. a = (1 * (p - q) + 1 * (q - b)) + (1 * b + (- 1) * (p - a))
      BY <1>13
    <2>2. Null(1 * (p - q) + 1 * (q - b)) /\ Null(1 * b + (- 1) * (p - a))
      BY <1>10, <1>11, <1>12, <1>15, NullOf2, 1 \in Int, - 1 \in Int
    <2> QED BY <2>1, <2>2, NullSum
  <1>17. Null(w + z)
    <2> DEFINE d1 == w - (k * u + m)  d2 == z - (e * v + f)
    <2>1. Null(d1) /\ Null(d2)
      BY <1>1 DEF OnLine
    <2>2. w + z = 1 * d1 + 1 * d2 + 1 * a
      BY <1>2
    <2> HIDE DEF d1, d2, a
    <2> QED BY <1>16, <2>1, <2>2, NullOf3, 1 \in Int
  <1> QED BY <1>9, <1>17

(* With opposite slopes one line is the other reflected.                   *)
LEMMA ParallelLines ==
  ASSUME NEW x1, NEW y1, NEW x2, NEW y2, NEW x3, NEW y3, NEW x4, NEW y4, NEW g, NEW h, NEW i,
         NEW l, NEW n, NEW j, NEW o,
         TwoLines(x1, y1, x2, y2, x3, y3, x4, y4, g, h, i, l, n, j, o), Null(l + j)
  PROVE  /\ Null((x3 - x1) * (x3 - x2)) /\ Null((x1 + x2) - (x3 + x4))
         /\ x3 = x1 => Null(y3 + y1)
         /\ x3 = x2 => Null(y3 + y2)
         /\ x4 = x2 => Null(y4 + y2)
  <1> DEFINE s == l + j
             b == Bend(s, j, x3, x4) - Bend(s, l, x1, x2)
             c == Level(s, o, x3, x4) - Level(s, n, x1, x2)
             d == s * g + n + o  t == (x1 + x2) - (x3 + x4)  w == (x3 - x1) * (x3 - x2)
  <1>1. OnLine(x1, y1, x2, y2, g, h, l, n) /\ OnLine(x3, y3, x4, y4, g, i, j, o)
    BY DEF TwoLines
  <1>2. /\ x1 \in Int /\ x2 \in Int /\ x3 \in Int /\ x4 \in Int /\ g \in Int
        /\ y1 \in Int /\ y2 \in Int /\ y3 \in Int /\ y4 \in Int
        /\ l \in Int /\ n \in Int /\ j \in Int /\ o \in Int /\ s \in Int
    BY <1>1 DEF OnLine
  <1>3. Null(b) /\ Null(c) /\ Null(d) /\ Null(s)
    BY OneParabola
  <1>4. Null(t)
    <2>1. t = 1 * b + (- (j - l)) * s /\ - (j - l) \in Int
      <3> HIDE DEF s
      <3> QED BY <1>2 DEF Bend
    <2> HIDE DEF b, s, t
    <2> QED BY <1>3, <2>1, NullOf2, 1 \in Int
  <1>5. Null(w)
    <2>1. w = (- x3) * t + (- 1) * c + (o - n) * s
      <3> HIDE DEF s
      <3> QED BY <1>2 DEF Level
    <2>2. - x3 \in Int /\ o - n \in Int
      BY <1>2
    <2> HIDE DEF c, s, t, w
    <2> QED BY <1>3, <1>4, <2>1, <2>2, NullOf3, - 1 \in Int
  <1>6. ASSUME NEW x \in Int, NEW y \in Int, NEW z \in Int,
               Null(y - (l * x + n)), Null(z - (j * x + o))
        PROVE  Null(z + y)
    <2> DEFINE e == y - (l * x + n)  f == z - (j * x + o)  r == 1 * e + 1 * f
    <2>1. z + y = r + ((x - g) * s + 1 * d) /\ x - g \in Int
      BY <1>2, <1>6
    <2>2. Null(e) /\ Null(f)
      BY <1>6
    <2> HIDE DEF e, f, s, d
    <2>3. Null(r)
      BY <2>2, NullOf2, 1 \in Int
    <2>4. Null((x - g) * s + 1 * d)
      BY <1>3, <2>1, NullOf2, 1 \in Int
    <2> QED BY <2>1, <2>3, <2>4, NullSum
  <1>7. /\ Null(y1 - (l * x1 + n)) /\ Null(y2 - (l * x2 + n))
        /\ Null(y3 - (j * x3 + o)) /\ Null(y4 - (j * x4 + o))
    BY <1>1 DEF OnLine
  <1>8. /\ x3 = x1 => Null(y3 + y1)
        /\ x3 = x2 => Null(y3 + y2)
        /\ x4 = x2 => Null(y4 + y2)
    BY <1>2, <1>6, <1>7
  <1> QED BY <1>4, <1>5, <1>8

LEMMA OppositeNull ==
  ASSUME NEW q \in CurvePoints, NEW r \in CurvePoints
  PROVE  /\ q = RNeg(r) <=> q[1] = r[1] /\ Null(q[2] + r[2])
         /\ q # RNeg(r) => ~ Null(q[1] - r[1]) \/ (q[1] = r[1] /\ q[2] = r[2] /\ ~ Null(q[2]))
  <1>1. q[2] \in Int /\ r[2] \in Int /\ q[1] \in Field /\ r[1] \in Field /\ q[2] \in Field
    BY CurvePointFacts
  <1>2. q[2] + r[2] \in Int
    <2> DEFINE a == q[2]  b == r[2]
    <2>1. a \in Int /\ b \in Int
      BY <1>1
    <2> HIDE DEF a, b
    <2>2. a + b \in Int
      BY <2>1
    <2> QED BY <2>2 DEF a, b
  <1>3. q = RNeg(r) <=> q[1] = r[1] /\ Null(q[2] + r[2])
    BY <1>2, OppositeIs DEF Null
  <1>4. ASSUME q # RNeg(r)
        PROVE  ~ Null(q[1] - r[1]) \/ (q[1] = r[1] /\ q[2] = r[2] /\ ~ Null(q[2]))
    <2>1. CASE q = r
      <3>1. q[2] # 0
        BY <1>4, <2>1, RAddIs
      <3>2. q[2] % P = q[2]
        <4> DEFINE y == q[2]
        <4>1. y \in Field
          BY <1>1
        <4> HIDE DEF y
        <4>2. y % P = y
          BY <4>1, PFacts, RemainderOfSmall DEF Field
        <4> QED BY <4>2 DEF y
      <3> QED BY <2>1, <3>1, <3>2 DEF Null
    <2>2. CASE q # r
      <3>1. q[1] # r[1]
        BY <1>4, <2>2, RAddIs
      <3> QED BY <1>1, <3>1, NullEqual
    <2> QED BY <2>1, <2>2
  <1> QED BY <1>3, <1>4

(* Four points whose sum is O, none of the sums of two in question O.      *)
LEMMA CrossSumsOfFour ==
  ASSUME Smooth, NEW q \in CurvePoints, NEW r \in CurvePoints, NEW s \in CurvePoints,
         NEW t \in CurvePoints, q # RNeg(r), s # RNeg(t), s # RNeg(r), q # RNeg(t),
         RAdd(q, r) = RNeg(RAdd(s, t))
  PROVE  RAdd(s, r) = RNeg(RAdd(q, t))
  <1> DEFINE c == RNeg(RAdd(q, r))  d == RNeg(RAdd(s, t))
             a == RNeg(RAdd(s, r))  b == RNeg(RAdd(q, t))
  <1>1. PICK l \in Int, n \in Int : Collinear(q, r, c, l, n)
    BY SumCollinear
  <1>2. PICK j \in Int, o \in Int : Collinear(s, t, d, j, o)
    BY SumCollinear
  <1>3. d = RNeg(c) /\ RNeg(c) = RAdd(q, r)
    BY RNegFacts, RAddClosed DEF Group
  <1> HIDE DEF c, d
  <1>4. c \in CurvePoints /\ d \in CurvePoints
    BY <1>1, <1>2 DEF Collinear
  <1>5. d[1] = c[1] /\ Null(c[2] + d[2])
    <2>1. d[1] = c[1] /\ Null(d[2] + c[2]) /\ c[2] \in Int /\ d[2] \in Int
      BY <1>3, <1>4, OppositeNull, CurvePointFacts
    <2> DEFINE y == c[2]  z == d[2]
    <2>2. y \in Int /\ z \in Int /\ Null(z + y)
      BY <2>1
    <2> HIDE DEF y, z
    <2>3. Null(y + z)
      <3>1. z + y = y + z
        BY <2>2
      <3> QED BY <2>2, <3>1
    <2> QED BY <2>1, <2>3 DEF y, z
  <1>6. TwoLines(q[1], q[2], r[1], r[2], s[1], s[2], t[1], t[2], c[1], c[2], d[2], l, n, j, o)
    BY <1>1, <1>2, <1>5 DEF TwoLines, Collinear
  <1>7. CASE Null(l + j)
    <2> DEFINE x1 == q[1]  y1 == q[2]  x2 == r[1]  y2 == r[2]
               x3 == s[1]  y3 == s[2]  x4 == t[1]  y4 == t[2]
    <2>1. /\ Null((x3 - x1) * (x3 - x2)) /\ Null((x1 + x2) - (x3 + x4))
          /\ x3 = x1 => Null(y3 + y1)
          /\ x3 = x2 => Null(y3 + y2)
          /\ x4 = x2 => Null(y4 + y2)
      BY <1>6, <1>7, ParallelLines
    <2>2. /\ x1 \in Field /\ x2 \in Field /\ x3 \in Field /\ x4 \in Field
          /\ x1 \in Int /\ x2 \in Int /\ x3 \in Int /\ x4 \in Int
      BY CurvePointFacts
    <2>3. x3 # x2
      BY <2>1, OppositeNull
    <2>4. x3 = x1 /\ x4 = x2
      <3> HIDE DEF x1, x2, x3, x4
      <3>1. x3 - x1 \in Int /\ x3 - x2 \in Int
        BY <2>2
      <3>2. ~ Null(x3 - x2)
        BY <2>2, <2>3, NullEqual
      <3>3. Null(x3 - x1)
        BY <2>1, <3>1, <3>2, NullProduct
      <3>4. x3 = x1
        BY <2>2, <3>3, NullEqual
      <3>5. (x1 + x2) - (x3 + x4) = x2 - x4
        BY <2>2, <3>4
      <3>6. x2 = x4
        BY <2>1, <2>2, <3>5, NullEqual
      <3> QED BY <3>4, <3>6
    <2>5. s = RNeg(q) /\ t = RNeg(r)
      BY <2>1, <2>4, OppositeNull
    <2>6. q \in Group /\ r \in Group
      BY DEF Group
    <2>7. RNeg(RAdd(q, t)) = RAdd(RNeg(q), RNeg(t)) /\ RNeg(t) = r
      BY <2>5, <2>6, RNegSum, RNegFacts
    <2> QED BY <2>5, <2>7
  <1>8. CASE ~ Null(l + j)
    <2>1. PICK k \in Int, m \in Int : Collinear(s, r, a, k, m)
      BY SumCollinear
    <2>2. PICK e \in Int, f \in Int : Collinear(q, t, b, e, f)
      BY SumCollinear
    <2> HIDE DEF a, b
    <2>3. Collinear(r, s, a, k, m)
      BY <2>1, CollinearTurns
    <2>4. TwoLines(r[1], r[2], q[1], q[2], t[1], t[2], s[1], s[2], c[1], c[2], d[2], l, n, j, o)
      BY <1>6, TwoLinesTurn
    <2>5. /\ ~ Null(r[1] - s[1]) \/ (r[1] = s[1] /\ r[2] = s[2] /\ ~ Null(r[2]))
          /\ ~ Null(q[1] - t[1]) \/ (q[1] = t[1] /\ q[2] = t[2] /\ ~ Null(q[2]))
      <3>1. r # RNeg(s)
        <4>1. s \in Group
          BY DEF Group
        <4> QED BY <4>1, RNegFacts
      <3> QED BY <3>1, OppositeNull
    <2>6. Across(q[1], q[2], r[1], r[2], s[1], s[2], t[1], t[2], c[1], c[2], d[2], l, n, j, o,
                 a[1], a[2], k, m)
      BY <1>6, <1>8, <2>3, <2>5 DEF Across, Collinear
    <2>7. Across(r[1], r[2], q[1], q[2], t[1], t[2], s[1], s[2], c[1], c[2], d[2], l, n, j, o,
                 b[1], b[2], e, f)
      BY <1>8, <2>2, <2>4, <2>5 DEF Across, Collinear
    <2>8. Null(a[1] - b[1]) /\ Null(a[2] + b[2])
      <3>1. CrossLines(q[1], q[2], r[1], r[2], s[1], s[2], t[1], t[2], c[1], c[2], d[2],
                       l, n, j, o, a[1], a[2], k, m, b[1], b[2], e, f)
        BY <2>6, <2>7 DEF CrossLines
      <3> QED BY <3>1, CrossLinesMeet
    <2>9. a \in CurvePoints /\ b \in CurvePoints
      BY <2>1, <2>2 DEF Collinear
    <2>10. a = RNeg(b)
      <3>1. a[1] = b[1]
        BY <2>8, <2>9, NullEqual, CurvePointFacts
      <3> QED BY <2>8, <2>9, <3>1, OppositeNull
    <2>11. RAdd(s, r) = RNeg(a) /\ RNeg(a) = b
      <3>1. RAdd(s, r) \in Group /\ b \in Group
        BY <2>9, RAddClosed DEF Group
      <3> QED BY <2>10, <3>1, RNegFacts DEF a
    <2> QED BY <2>11 DEF b
  <1> QED BY <1>7, <1>8

LEMMA SumsOfFour ==
  ASSUME Smooth, NEW q \in Group, NEW r \in Group, NEW s \in Group, NEW t \in Group,
         RAdd(q, r) = RNeg(RAdd(s, t))
  PROVE  RAdd(s, r) = RNeg(RAdd(q, t))
  <1>0. RNeg(O) = O /\ \A p \in Group : RNeg(p) = O => p = O
    <2>1. RNeg(O) = O
      BY DEF RNeg
    <2> QED BY <2>1, RNegFacts
  <1>1. CASE q = O
    (* r = - (s + t) *)
    <2>1. RAdd(s, t) = RNeg(r)
      BY <1>1, RAddZero, RAddClosed, RNegFacts
    <2>2. RAdd(s, r) = RNeg(t)
      <3>1. RAdd(t, s) = RNeg(r)
        BY <2>1, RAddCommutes
      <3> QED BY <3>1, SumRotates
    <2> QED BY <1>1, <2>2, RAddZero
  <1>2. CASE r = O
    <2>1. RAdd(s, t) = RNeg(q)
      BY <1>2, RAddZero, RAddClosed, RNegFacts
    <2>2. RAdd(t, q) = RNeg(s)
      BY <2>1, SumRotates
    <2>3. RNeg(RAdd(q, t)) = s
      BY <2>2, RAddCommutes, RNegFacts
    <2> QED BY <1>2, <2>3, RAddZero
  <1>3. CASE s = O
    <2>1. RAdd(q, r) = RNeg(t)
      BY <1>3, RAddZero
    <2>2. RAdd(t, q) = RNeg(r)
      <3>1. RAdd(r, t) = RNeg(q)
        BY <2>1, SumRotates
      <3> QED BY <3>1, SumRotates
    <2>3. RNeg(RAdd(q, t)) = r
      BY <2>2, RAddCommutes, RNegFacts
    <2> QED BY <1>3, <2>3, RAddZero
  <1>4. CASE t = O
    <2>1. RAdd(q, r) = RNeg(s)
      BY <1>4, RAddZero
    <2>2. RAdd(r, s) = RNeg(q)
      BY <2>1, SumRotates
    <2> QED BY <1>4, <2>2, RAddCommutes, RAddZero
  <1> DEFINE Finite == q # O /\ r # O /\ s # O /\ t # O
  <1>5. CASE q = RNeg(r)
    <2>1. RAdd(q, r) = O
      BY <1>5, RNegFacts
    <2>2. RAdd(s, t) = O
      BY <1>0, <2>1, RAddClosed
    <2>3. RAdd(s, t) = RNeg(O)
      BY <1>0, <2>2
    <2>4. RAdd(t, O) = RNeg(s)
      BY <2>3, SumRotates, RAddZero
    <2>5. t = RNeg(s)
      BY <2>4, RAddZero
    <2>6. RNeg(RAdd(q, t)) = RAdd(RNeg(q), RNeg(t)) /\ RNeg(q) = r /\ RNeg(t) = s
      BY <1>5, <2>5, RNegSum, RNegFacts
    <2> QED BY <2>6, RAddCommutes
  <1>6. CASE s = RNeg(t)
    <2>1. RAdd(s, t) = O
      BY <1>6, RNegFacts
    <2>2. RAdd(q, r) = RNeg(O)
      BY <2>1
    <2>3. RAdd(r, O) = RNeg(q)
      BY <2>2, SumRotates, RAddZero
    <2>4. r = RNeg(q)
      BY <2>3, RAddZero
    <2>5. RNeg(RAdd(q, t)) = RAdd(RNeg(q), RNeg(t)) /\ RNeg(q) = r /\ RNeg(t) = s
      BY <1>6, <2>4, RNegSum, RNegFacts
    <2> QED BY <2>5, RAddCommutes
  <1>7. CASE s = RNeg(r)
    (* q + r = - (t - r) = r - t, so q = - t *)
    <2>1. RNeg(RAdd(s, t)) = RAdd(RNeg(s), RNeg(t)) /\ RNeg(s) = r
      BY <1>7, RNegSum, RNegFacts
    <2>2. RAdd(q, r) = RAdd(RNeg(t), r) /\ RNeg(t) \in Group
      BY <2>1, RAddCommutes, RNegFacts
    <2>3. q = RNeg(t)
      BY <2>2, SumCancels
    <2>4. RAdd(s, r) = O /\ RAdd(q, t) = O
      BY <1>7, <2>3, RNegFacts
    <2> QED BY <1>0, <2>4
  <1>8. CASE q = RNeg(t)
    <2>1. RNeg(RAdd(s, t)) = RAdd(RNeg(s), RNeg(t))
      BY RNegSum
    <2>2. RAdd(r, q) = RAdd(RNeg(s), q) /\ RNeg(s) \in Group
      BY <1>8, <2>1, RAddCommutes, RNegFacts
    <2>3. r = RNeg(s)
      BY <2>2, SumCancels
    <2>4. RAdd(s, r) = O /\ RAdd(q, t) = O
      BY <1>8, <2>3, RNegFacts
    <2> QED BY <1>0, <2>4
  <1>9. CASE Finite /\ q # RNeg(r) /\ s # RNeg(t) /\ s # RNeg(r) /\ q # RNeg(t)
    BY <1>9, GroupCases, CrossSumsOfFour
  <1> QED BY <1>1, <1>2, <1>3, <1>4, <1>5, <1>6, <1>7, <1>8, <1>9

(* The group law is associative on every curve without singular points:    *)
(* the sum of two points, that of a third and the opposite of the sum of   *)
(* all three are opposite, and of four such points any two may be paired.  *)
THEOREM GroupLawAssociates == ASSUME Smooth PROVE Associative
  <1> SUFFICES ASSUME NEW q \in Group, NEW r \in Group, NEW s \in Group
               PROVE  RAdd(RAdd(q, r), s) = RAdd(q, RAdd(r, s))
    BY DEF Associative
  <1> DEFINE a == RAdd(q, r)  b == RAdd(a, s)  t == RNeg(b)  c == RAdd(s, r)
  <1>1. a \in Group /\ b \in Group /\ t \in Group /\ c \in Group /\ b = RNeg(t)
    BY RAddClosed, RNegFacts
  <1> HIDE DEF t
  <1>2. RAdd(s, t) = RNeg(a)
    BY <1>1, SumRotates
  <1>3. a = RNeg(RAdd(s, t))
    BY <1>1, <1>2, RNegFacts
  <1>4. c = RNeg(RAdd(q, t))
    BY <1>1, <1>3, SumsOfFour
  <1>5. RAdd(q, t) = RNeg(c)
    BY <1>1, <1>4, RNegFacts, RAddClosed
  <1>6. RAdd(c, q) = RNeg(t)
    <2>1. RAdd(t, q) = RNeg(c)
      BY <1>1, <1>5, RAddCommutes
    <2>2. RAdd(q, c) = RNeg(t)
      BY <1>1, <2>1, SumRotates
    <2> QED BY <1>1, <2>2, RAddCommutes
  <1> HIDE DEF a, b, c
  <1>7. RAdd(q, c) = b
    BY <1>1, <1>6, RAddCommutes
  <1> QED BY <1>7, RAddCommutes DEF a, b, c

(* A curve without points of order two has no singular points.             *)
LEMMA SmoothIs == NoOrderTwo => Smooth
  BY DEF NoOrderTwo, Smooth

----------------------------------------------------------------------------
(* Sums of four in another order.                                          *)
LEMMA Interchange ==
  ASSUME Smooth, NEW a \in Group, NEW b \in Group, NEW c \in Group, NEW d \in Group
  PROVE  RAdd(RAdd(a, b), RAdd(c, d)) = RAdd(RAdd(a, c), RAdd(b, d))
  <1>1. RAdd(c, d) \in Group /\ RAdd(b, d) \in Group /\ RAdd(b, c) \in Group
        /\ RAdd(b, c) = RAdd(c, b)
    BY RAddCommutes
  <1>2. RAdd(RAdd(a, b), RAdd(c, d)) = RAdd(a, RAdd(b, RAdd(c, d)))
    BY <1>1, GroupLawAssociates DEF Associative
  <1>3. RAdd(b, RAdd(c, d)) = RAdd(RAdd(b, c), d)
    BY GroupLawAssociates DEF Associative
  <1>4. RAdd(RAdd(c, b), d) = RAdd(c, RAdd(b, d))
    BY GroupLawAssociates DEF Associative
  <1>5. RAdd(RAdd(a, c), RAdd(b, d)) = RAdd(a, RAdd(c, RAdd(b, d)))
    BY <1>1, GroupLawAssociates DEF Associative
  <1> QED BY <1>1, <1>2, <1>3, <1>4, <1>5

----------------------------------------------------------------------------
(* Multiples.                                                              *)

LEMMA RMulIs ==
  ASSUME NEW q \in Group
  PROVE  /\ RMul(0, q) = O
         /\ \A n \in Nat : RMul(n, q) \in Group /\ RMul(n + 1, q) = RAdd(q, RMul(n, q))
  <1> DEFINE F(f) == [n \in Nat |-> IF n = 0 THEN O ELSE RAdd(q, f[n - 1])]
             times == CHOOSE f : f = F(f)
             next == [n \in Nat |-> IF n = 0 THEN 0 ELSE n - 1]
             size == [n \in Nat |-> n]
             base == [n \in Nat |-> O]
             step == [p \in Nat \X Group |-> RAdd(q, p[2])]
             Zero == {0}
  <1>1. /\ next \in [Nat -> Nat] /\ size \in [Nat -> Nat] /\ base \in [Nat -> Group]
        /\ step \in [Nat \X Group -> Group] /\ Decreases(Nat, Zero, next, size)
    <2>1. next \in [Nat -> Nat] /\ Decreases(Nat, Zero, next, size)
      BY DEF Decreases
    <2>2. base \in [Nat -> Group]
      BY DEF Group
    <2>3. \A p \in Nat \X Group : RAdd(q, p[2]) \in Group
      BY RAddClosed
    <2> QED BY <2>1, <2>2, <2>3
  <1>2. PICK g \in [Nat -> Group] : Solves(g, Nat, Zero, next, base, step)
    <2> HIDE DEF next, size, base, step, Zero, F, times
    <2> QED BY <1>1, Recursion
  <1>3. ASSUME NEW n \in Nat PROVE g[n] = IF n = 0 THEN O ELSE RAdd(q, g[n - 1])
    <2>1. CASE n = 0
      BY <1>2, <2>1 DEF Solves
    <2>2. CASE n # 0
      <3>1. next[n] = n - 1 /\ n - 1 \in Nat /\ g[n - 1] \in Group
        BY <2>2
      <3>2. step[<<n, g[n - 1]>>] = RAdd(q, g[n - 1])
        <4>1. <<n, g[n - 1]>> \in Nat \X Group /\ <<n, g[n - 1]>>[2] = g[n - 1]
          BY <3>1
        <4> QED BY <4>1
      <3> QED BY <1>2, <2>2, <3>1, <3>2 DEF Solves
    <2> QED BY <2>1, <2>2
  <1>4. g = F(g)
    BY <1>3
  <1>5. times = F(times)
    <2> HIDE DEF F
    <2> QED BY <1>4
  <1>6. \A n \in Nat : RMul(n, q) = times[n]
    BY DEF RMul
  <1> HIDE DEF times
  <1>7. \A n \in Nat : times[n] = IF n = 0 THEN O ELSE RAdd(q, times[n - 1])
    BY <1>5
  <1> DEFINE T == {n \in Nat : times[n] \notin Group}
  <1>8. T = {}
    <2> SUFFICES ASSUME T # {} PROVE FALSE
      OBVIOUS
    <2>1. PICK n \in T : \A m \in T : n <= m
      <3>1. T \in SUBSET Nat
        OBVIOUS
      <3> HIDE DEF T
      <3> QED BY <3>1, NatMin
    <2>2. n \in Nat /\ times[n] \notin Group /\ n # 0
      BY <1>7 DEF Group
    <2>3. n - 1 \in Nat /\ n - 1 \notin T
      <3> HIDE DEF T
      <3> QED BY <2>1, <2>2
    <2>4. times[n - 1] \in Group
      BY <2>3
    <2> QED BY <1>7, <2>2, <2>4, RAddClosed
  <1>9. \A n \in Nat : times[n] \in Group
    BY <1>8
  <1>10. ASSUME NEW n \in Nat PROVE times[n + 1] = RAdd(q, times[n])
    <2>1. n + 1 \in Nat /\ n + 1 # 0 /\ n + 1 - 1 = n
      OBVIOUS
    <2> QED BY <1>7, <2>1
  <1>11. times[0] = O
    BY <1>7
  <1> HIDE DEF T
  <1>12. RMul(0, q) = O
    BY <1>6, <1>11
  <1>13. ASSUME NEW n \in Nat
         PROVE  RMul(n, q) \in Group /\ RMul(n + 1, q) = RAdd(q, RMul(n, q))
    <2>1. n + 1 \in Nat
      OBVIOUS
    <2> QED BY <1>6, <1>9, <1>10, <2>1
  <1> QED BY <1>12, <1>13

(* Multiples by any integer.                                               *)
ZMul(k, q) == IF k >= 0 THEN RMul(k, q) ELSE RNeg(RMul(- k, q))

LEMMA ZMulIs ==
  ASSUME NEW q \in Group
  PROVE  /\ ZMul(0, q) = O /\ ZMul(1, q) = q
         /\ \A k \in Int : ZMul(k, q) \in Group /\ ZMul(- k, q) = RNeg(ZMul(k, q))
         /\ \A k \in Nat : ZMul(k, q) = RMul(k, q)
  <1>1. ZMul(0, q) = O
    BY RMulIs DEF ZMul
  <1>2. ZMul(1, q) = q
    <2>1. RMul(0 + 1, q) = RAdd(q, O)
      BY RMulIs
    <2>2. 0 + 1 = 1
      OBVIOUS
    <2> QED BY <2>1, <2>2, RAddZero DEF ZMul
  <1>3. ASSUME NEW k \in Int PROVE ZMul(k, q) \in Group /\ ZMul(- k, q) = RNeg(ZMul(k, q))
    <2>1. CASE k > 0
      <3>1. ZMul(k, q) = RMul(k, q) /\ ZMul(- k, q) = RNeg(RMul(- (- k), q)) /\ - (- k) = k
            /\ k \in Nat
        BY <2>1 DEF ZMul
      <3> QED BY <3>1, RMulIs
    <2>2. CASE ~ (k > 0) /\ ~ (k < 0)
      <3>1. - k = 0 /\ k = 0
        BY <2>2
      <3>2. RNeg(O) = O
        BY DEF RNeg
      <3> QED BY <1>1, <2>2, <3>1, <3>2, RAddZero
    <2>3. CASE k < 0
      <3>1. ZMul(k, q) = RNeg(RMul(- k, q)) /\ ZMul(- k, q) = RMul(- k, q) /\ - k \in Nat
        BY <2>3 DEF ZMul
      <3>2. RMul(- k, q) \in Group
        BY <3>1, RMulIs
      <3> QED BY <3>1, <3>2, RNegFacts
    <2> QED BY <2>1, <2>2, <2>3
  <1>4. \A k \in Nat : ZMul(k, q) = RMul(k, q)
    BY DEF ZMul
  <1> QED BY <1>1, <1>2, <1>3, <1>4

LEMMA ZNext ==
  ASSUME Smooth, NEW q \in Group, NEW k \in Int
  PROVE  ZMul(k + 1, q) = RAdd(q, ZMul(k, q))
  <1>1. CASE k >= 0
    <2>1. k \in Nat /\ k + 1 \in Nat
      BY <1>1
    <2>2. ZMul(k, q) = RMul(k, q) /\ ZMul(k + 1, q) = RMul(k + 1, q)
      BY <2>1, ZMulIs
    <2> QED BY <2>1, <2>2, RMulIs
  <1>2. CASE k < 0
    <2> DEFINE m == - k - 1  r == RMul(m, q)
    <2>1. m \in Nat /\ m + 1 = - k /\ - m = k + 1
      BY <1>2
    <2>2. r \in Group /\ RMul(m + 1, q) = RAdd(q, r) /\ ZMul(m, q) = r
      BY <2>1, RMulIs, ZMulIs
    <2>3. ZMul(k + 1, q) = RNeg(r)
      <3> HIDE DEF m, r
      <3>1. ZMul(- m, q) = RNeg(ZMul(m, q))
        BY <2>1, ZMulIs
      <3> QED BY <2>1, <2>2, <3>1
    <2>4. ZMul(k, q) = RNeg(RAdd(q, r))
      <3>1. ZMul(k, q) = RNeg(RMul(- k, q))
        BY <1>2 DEF ZMul
      <3> HIDE DEF m, r
      <3> QED BY <2>1, <2>2, <3>1
    <2> HIDE DEF m, r
    <2>5. RNeg(RAdd(q, r)) = RAdd(RNeg(q), RNeg(r)) /\ RNeg(q) \in Group /\ RNeg(r) \in Group
      BY <2>2, RNegSum, RNegFacts
    <2>6. RAdd(q, RAdd(RNeg(q), RNeg(r))) = RAdd(RAdd(q, RNeg(q)), RNeg(r))
      BY <2>5, GroupLawAssociates DEF Associative
    <2> QED BY <2>3, <2>4, <2>5, <2>6, RNegFacts, RAddZero
  <1> QED BY <1>1, <1>2

LEMMA ZAddNat ==
  ASSUME Smooth, NEW q \in Group, NEW a \in Nat, NEW b \in Int
  PROVE  ZMul(a + b, q) = RAdd(ZMul(a, q), ZMul(b, q))
  <1> DEFINE T == {i \in Nat : ZMul(i + b, q) # RAdd(ZMul(i, q), ZMul(b, q))}
  <1>1. T = {}
    <2> SUFFICES ASSUME T # {} PROVE FALSE
      OBVIOUS
    <2>1. PICK i \in T : \A j \in T : i <= j
      <3>1. T \in SUBSET Nat
        OBVIOUS
      <3> HIDE DEF T
      <3> QED BY <3>1, NatMin
    <2>2. i \in Nat /\ ZMul(i + b, q) # RAdd(ZMul(i, q), ZMul(b, q))
      OBVIOUS
    <2>3. ZMul(b, q) \in Group /\ ZMul(0, q) = O
      BY ZMulIs
    <2>4. i # 0
      <3>1. 0 + b = b
        OBVIOUS
      <3> QED BY <2>2, <2>3, <3>1, RAddZero
    <2> DEFINE j == i - 1
    <2>5. j \in Nat /\ j \in Int /\ j \notin T /\ j + 1 = i /\ j + b \in Int /\ (j + b) + 1 = i + b
      <3>1. j \in Nat /\ j < i
        BY <2>2, <2>4
      <3>2. j \notin T
        <4> HIDE DEF T, j
        <4> QED BY <2>1, <2>2, <3>1
      <3> QED BY <2>2, <3>1, <3>2
    <2>6. ZMul(j + b, q) = RAdd(ZMul(j, q), ZMul(b, q))
      BY <2>5
    <2> HIDE DEF T, j
    <2>7. ZMul(i, q) = RAdd(q, ZMul(j, q)) /\ ZMul(i + b, q) = RAdd(q, ZMul(j + b, q))
      <3>1. ZMul((j + b) + 1, q) = RAdd(q, ZMul(j + b, q))
        BY <2>5, ZNext
      <3>2. ZMul(j + 1, q) = RAdd(q, ZMul(j, q))
        BY <2>5, ZNext
      <3> QED BY <2>5, <3>1, <3>2
    <2>8. ZMul(j, q) \in Group
      BY <2>5, ZMulIs
    <2>9. RAdd(RAdd(q, ZMul(j, q)), ZMul(b, q)) = RAdd(q, RAdd(ZMul(j, q), ZMul(b, q)))
      BY <2>3, <2>8, GroupLawAssociates DEF Associative
    <2> QED BY <2>2, <2>6, <2>7, <2>9
  <1> QED BY <1>1

LEMMA ZAdd ==
  ASSUME Smooth, NEW q \in Group, NEW a \in Int, NEW b \in Int
  PROVE  ZMul(a + b, q) = RAdd(ZMul(a, q), ZMul(b, q))
  <1>1. CASE a >= 0
    BY <1>1, ZAddNat
  <1>2. CASE a < 0
    <2> DEFINE r == ZMul(- a, q)  s == ZMul(a + b, q)
    <2>1. - a \in Nat /\ a + b \in Int /\ - a + (a + b) = b
      BY <1>2
    <2>2. ZMul(b, q) = RAdd(r, s)
      <3>1. ZMul(- a + (a + b), q) = RAdd(r, s)
        BY <2>1, ZAddNat
      <3> HIDE DEF r, s
      <3> QED BY <2>1, <3>1
    <2>3. r = RNeg(ZMul(a, q)) /\ ZMul(a, q) \in Group /\ r \in Group /\ s \in Group
      BY <2>1, ZMulIs, RNegFacts
    <2> HIDE DEF r, s
    <2>4. RAdd(ZMul(a, q), RAdd(r, s)) = RAdd(RAdd(ZMul(a, q), r), s)
      BY <2>3, GroupLawAssociates DEF Associative
    <2>5. RAdd(ZMul(a, q), r) = O
      BY <2>3, RNegFacts
    <2>6. RAdd(ZMul(a, q), ZMul(b, q)) = s
      BY <2>2, <2>3, <2>4, <2>5, RAddZero
    <2> QED BY <2>6 DEF s
  <1> QED BY <1>1, <1>2

LEMMA ZSum ==
  ASSUME Smooth, NEW q \in Group, NEW a \in Int, NEW b \in Int, NEW c \in Int, c = a + b
  PROVE  ZMul(c, q) = RAdd(ZMul(a, q), ZMul(b, q)) /\ ZMul(c, q) \in Group
  BY ZAdd, ZMulIs

LEMMA ZMulZero == ASSUME NEW k \in Int PROVE ZMul(k, O) = O
  <1>1. O \in Group /\ RNeg(O) = O
    BY DEF Group, RNeg
  <1> DEFINE T == {i \in Nat : RMul(i, O) # O}
  <1>2. T = {}
    <2> SUFFICES ASSUME T # {} PROVE FALSE
      OBVIOUS
    <2>1. PICK i \in T : \A j \in T : i <= j
      <3>1. T \in SUBSET Nat
        OBVIOUS
      <3> HIDE DEF T
      <3> QED BY <3>1, NatMin
    <2>2. i \in Nat /\ RMul(i, O) # O /\ i # 0
      BY <1>1, RMulIs
    <2> DEFINE j == i - 1
    <2>3. j \in Nat /\ j < i /\ j + 1 = i
      BY <2>2
    <2>4. j \notin T
      <3> HIDE DEF T, j
      <3> QED BY <2>1, <2>2, <2>3
    <2>5. RMul(j, O) = O
      BY <2>3, <2>4
    <2> HIDE DEF T, j
    <2>6. RMul(j + 1, O) = RAdd(O, RMul(j, O))
      BY <1>1, <2>3, RMulIs
    <2> QED BY <1>1, <2>2, <2>3, <2>5, <2>6, RAddZero
  <1>3. \A i \in Nat : RMul(i, O) = O
    BY <1>2
  <1> HIDE DEF T
  <1>4. CASE k >= 0
    BY <1>3, <1>4 DEF ZMul
  <1>5. CASE k < 0
    <2>1. - k \in Nat
      BY <1>5
    <2> QED BY <1>1, <1>3, <1>5, <2>1 DEF ZMul
  <1> QED BY <1>4, <1>5

(* Multiples of a number that annihilates the group.                       *)
LEMMA ZPeriodNat ==
  ASSUME Smooth, NEW n \in Nat, Annihilates(n), NEW q \in Group, NEW j \in Nat
  PROVE  ZMul(j * n, q) = O
  <1> DEFINE T == {i \in Nat : ZMul(i * n, q) # O}
  <1>1. T = {}
    <2> SUFFICES ASSUME T # {} PROVE FALSE
      OBVIOUS
    <2>1. PICK i \in T : \A k \in T : i <= k
      <3>1. T \in SUBSET Nat
        OBVIOUS
      <3> HIDE DEF T
      <3> QED BY <3>1, NatMin
    <2>2. i \in Nat /\ ZMul(i * n, q) # O
      OBVIOUS
    <2>3. i # 0
      <3>1. 0 * n = 0
        OBVIOUS
      <3> QED BY <2>2, <3>1, ZMulIs
    <2> DEFINE k == i - 1
    <2>4. k \in Nat /\ k < i /\ k * n \in Int /\ i * n = n + k * n
      <3>1. i = k + 1 /\ k \in Nat
        BY <2>2, <2>3
      <3> HIDE DEF k
      <3> QED BY <3>1
    <2>5. k \notin T
      <3> HIDE DEF T, k
      <3> QED BY <2>1, <2>2, <2>4
    <2>6. ZMul(k * n, q) = O
      BY <2>4, <2>5
    <2>7. ZMul(n, q) = O
      BY ZMulIs DEF Annihilates
    <2> HIDE DEF T, k
    <2>8. ZMul(n + k * n, q) = RAdd(ZMul(n, q), ZMul(k * n, q))
      BY <2>4, ZAdd
    <2> QED BY <2>2, <2>4, <2>6, <2>7, <2>8, RAddZero
  <1> QED BY <1>1

LEMMA ZPeriod ==
  ASSUME Smooth, NEW n \in Nat, Annihilates(n), NEW q \in Group,
         NEW a \in Int, NEW b \in Int, NEW j \in Int, a = b + j * n
  PROVE  ZMul(a, q) = ZMul(b, q)
  <1>1. ZMul(j * n, q) = O
    <2>1. CASE j >= 0
      BY <2>1, ZPeriodNat
    <2>2. CASE j < 0
      <3>1. - j \in Nat /\ j * n \in Int /\ (- j) * n = - (j * n)
        BY <2>2
      <3>2. ZMul((- j) * n, q) = O
        BY <3>1, ZPeriodNat
      <3>3. RNeg(ZMul(j * n, q)) = O /\ ZMul(j * n, q) \in Group
        <4>1. ZMul(- (j * n), q) = RNeg(ZMul(j * n, q))
          BY <3>1, ZMulIs
        <4> QED BY <3>1, <3>2, <4>1, ZMulIs
      <3>4. RNeg(O) = O
        BY DEF RNeg
      <3> QED BY <3>3, <3>4, RNegFacts
    <2> QED BY <2>1, <2>2
  <1> DEFINE c == j * n
  <1>2. c \in Int /\ a = b + c
    OBVIOUS
  <1> HIDE DEF c
  <1>3. ZMul(a, q) = RAdd(ZMul(b, q), ZMul(c, q))
    BY <1>2, ZSum, Zenon
  <1>4. ZMul(b, q) \in Group
    BY ZMulIs
  <1> QED BY <1>1, <1>3, <1>4, RAddZero DEF c

LEMMA ZReduced ==
  ASSUME Smooth, NEW n \in Nat \ {0}, Annihilates(n), NEW q \in Group, NEW a \in Int
  PROVE  ZMul(a % n, q) = ZMul(a, q) /\ ZMul(a % (2 * n), q) = ZMul(a, q)
  <1>0. \A c, j \in Int : a = c + j * n => ZMul(a, q) = ZMul(c, q)
    <2>1. n \in Nat
      OBVIOUS
    <2> QED BY <2>1, ZPeriod, Zenon
  <1>1. ZMul(a % n, q) = ZMul(a, q)
    <2> DEFINE j == a \div n  b == a % n
    <2>1. j \in Int /\ b \in Int /\ a = b + j * n
      <3>1. j \in Int /\ b \in Int /\ a = n * j + b
        BY DivMod
      <3> HIDE DEF j, b
      <3> QED BY <3>1
    <2> HIDE DEF j, b
    <2>2. ZMul(a, q) = ZMul(b, q)
      BY <1>0, <2>1, Zenon
    <2> QED BY <2>2 DEF b
  <1>2. ZMul(a % (2 * n), q) = ZMul(a, q)
    <2> DEFINE m == 2 * n  j == a \div m  b == a % m  i == 2 * j
    <2>1. m \in Nat \ {0}
      OBVIOUS
    <2>2. j \in Int /\ b \in Int /\ a = m * j + b
      <3> HIDE DEF m
      <3> QED BY <2>1, DivMod
    <2> HIDE DEF j, b
    <2>3. i \in Int /\ a = b + i * n
      BY <2>2
    <2> HIDE DEF i, m
    <2>4. ZMul(a, q) = ZMul(b, q)
      BY <1>0, <2>2, <2>3, Zenon
    <2> QED BY <2>4 DEF b, m
  <1> QED BY <1>1, <1>2

----------------------------------------------------------------------------
(* Triples, as the loops of the multiplications pass them on: once a Twin  *)
(* was added nothing is said of a triple but its ranges.                   *)
Carries(t, q) ==
    /\ t \in Triples /\ t[1] \in Field /\ t[3] \in Field /\ q \in Group
    /\ ~ t[4] => IF t[3] = 0 THEN q = O ELSE q # O /\ At(t[1], t[2], t[3], q[1], q[2])

LEMMA TripleIs ==
  ASSUME NEW t \in Triples
  PROVE  /\ t = <<t[1], t[2], t[3], t[4]>> /\ t[4] \in BOOLEAN
         /\ t[1] \in Int /\ t[2] \in Int /\ t[3] \in Int
  BY DEF Triples

LEMMA FieldIs ==
  ASSUME NEW a \in Field
  PROVE  a \in Int /\ a % P = a /\ (a # 0 => a \in 1 .. P - 1)
  BY PFacts, RemainderOfSmall DEF Field

LEMMA WithGhostIs ==
  ASSUME NEW c \in Coordinates, NEW flag \in BOOLEAN
  PROVE  /\ WithGhost(c, flag) \in Triples /\ WithGhost(c, flag)[1] = c[1]
         /\ WithGhost(c, flag)[2] = c[2] /\ WithGhost(c, flag)[3] = c[3]
         /\ WithGhost(c, flag)[4] = flag /\ c[1] \in Field /\ c[2] \in Field /\ c[3] \in Field
  BY CoordinatesAre DEF WithGhost, Triples

(* What yields a point carries it.                                         *)
LEMMA YieldsCarries ==
  ASSUME NEW c \in Coordinates, NEW flag \in BOOLEAN, NEW q \in Group, ~ flag => Yields(c, q)
  PROVE  Carries(WithGhost(c, flag), q) /\ WithGhost(c, flag)[2] \in Field
  <1> DEFINE w == WithGhost(c, flag)
  <1>1. /\ w \in Triples /\ w[1] = c[1] /\ w[2] = c[2] /\ w[3] = c[3] /\ w[4] = flag
        /\ c[1] \in Field /\ c[2] \in Field /\ c[3] \in Field
    BY WithGhostIs
  <1> HIDE DEF w
  <1>2. ASSUME ~ flag
        PROVE  IF w[3] = 0 THEN q = O ELSE q # O /\ At(w[1], w[2], w[3], q[1], q[2])
    BY <1>1, <1>2 DEF Yields
  <1>3. Carries(w, q)
    BY <1>1, <1>2 DEF Carries
  <1> QED BY <1>1, <1>3 DEF w

LEMMA ReducedYields ==
  ASSUME NEW t, NEW q, Carries(t, q), ~ t[4]
  PROVE  Yields(<<t[1] % P, t[2] % P, t[3] % P>>, q)
  <1>1. /\ t[1] \in Field /\ t[3] \in Field /\ q \in Group /\ t[1] % P = t[1] /\ t[3] % P = t[3]
        /\ t[1] \in Int /\ t[2] \in Int /\ t[3] \in Int
        /\ IF t[3] = 0 THEN q = O ELSE q # O /\ At(t[1], t[2], t[3], q[1], q[2])
    BY TripleIs, FieldIs DEF Carries
  <1> DEFINE x == t[1]  y == t[2]  z == t[3]
  <1>2. <<x % P, y % P, z % P>> \in Coordinates
    BY <1>1, TripleOf
  <1>3. CASE z = 0
    BY <1>1, <1>2, <1>3 DEF Yields
  <1>4. CASE z # 0
    <2>1. q \in CurvePoints /\ q[1] \in Int /\ q[2] \in Int /\ At(x, y, z, q[1], q[2]) /\ q # O
      BY <1>1, <1>4, GroupCases, CurvePointFacts
    <2>2. Congruent(y % P, y) /\ y % P \in Int /\ Congruent(x, x)
      BY <1>1, CongruentMod
    <2>3. At(x, y % P, z, q[1], q[2])
      <3>1. x \in Int /\ y \in Int /\ z \in Int
        BY <1>1
      <3> HIDE DEF x, y, z
      <3> QED BY <2>1, <2>2, <3>1, AtCongruent
    <2> QED BY <1>1, <1>2, <1>4, <2>1, <2>3 DEF Yields
  <1> QED BY <1>3, <1>4

LEMMA CarriesIs ==
  ASSUME NEW t, NEW q, Carries(t, q)
  PROVE  /\ t \in Triples /\ t[1] \in Field /\ t[3] \in Field /\ q \in Group
         /\ t[1] \in Int /\ t[2] \in Int /\ t[3] \in Int /\ t[4] \in BOOLEAN
         /\ t = <<t[1], t[2], t[3], t[4]>>
         /\ ~ t[4] /\ t[3] = 0 => q = O
         /\ ~ t[4] /\ t[3] # 0 =>
              q \in CurvePoints /\ t[3] \in 1 .. P - 1 /\ At(t[1], t[2], t[3], q[1], q[2])
  BY TripleIs, FieldIs, GroupCases DEF Carries

LEMMA AddCarries ==
  ASSUME NEW t, NEW q, Carries(t, q), NEW u, NEW r, Carries(u, r)
  PROVE  /\ Carries(AddT(t, u), RAdd(q, r)) /\ AddT(t, u)[2] \in Field
         /\ AddT(t, u)[4] = (t[4] \/ u[4] \/ Twin(t, u))
  <1> DEFINE c == AddTriples(t[1], t[2], t[3], u[1], u[2], u[3])
             flag == t[4] \/ u[4] \/ Twin(t, u)
  <1>1. /\ q \in Group /\ r \in Group /\ t[4] \in BOOLEAN /\ u[4] \in BOOLEAN
        /\ t[1] \in Field /\ t[3] \in Field /\ u[1] \in Field /\ u[3] \in Field
        /\ t[1] \in Int /\ t[2] \in Int /\ t[3] \in Int
        /\ u[1] \in Int /\ u[2] \in Int /\ u[3] \in Int
    BY CarriesIs
  <1>2. c \in Coordinates
    BY <1>1, AddTriplesType
  <1>3. flag \in BOOLEAN /\ RAdd(q, r) \in Group
    BY <1>1, RAddClosed DEF Twin
  <1>4. ASSUME ~ flag PROVE Yields(c, RAdd(q, r))
    <2>1. ~ t[4] /\ ~ u[4] /\ ~ Twin(t, u)
      BY <1>1, <1>4
    <2>2. CASE t[3] = 0
      <3>1. c = <<u[1] % P, u[2] % P, u[3] % P>>
        BY <2>2 DEF AddTriples
      <3>2. RAdd(q, r) = r
        BY <1>1, <2>1, <2>2, CarriesIs, RAddZero
      <3> HIDE DEF c
      <3> QED BY <2>1, <3>1, <3>2, ReducedYields
    <2>3. CASE t[3] # 0 /\ u[3] = 0
      <3>1. c = <<t[1] % P, t[2] % P, t[3] % P>>
        BY <2>3 DEF AddTriples
      <3>2. RAdd(q, r) = q
        BY <1>1, <2>1, <2>3, CarriesIs, RAddZero
      <3> HIDE DEF c
      <3> QED BY <2>1, <3>1, <3>2, ReducedYields
    <2>4. CASE t[3] # 0 /\ u[3] # 0
      <3>1. /\ q \in CurvePoints /\ t[3] \in 1 .. P - 1 /\ At(t[1], t[2], t[3], q[1], q[2])
            /\ r \in CurvePoints /\ u[3] \in 1 .. P - 1 /\ At(u[1], u[2], u[3], r[1], r[2])
        BY <2>1, <2>4, CarriesIs
      <3>2. ~ (t[3] = 1 /\ u[3] = 1 /\ t[1] = u[1] /\ t[2] # u[2] /\ (t[2] - u[2]) % P = 0)
        BY <2>1 DEF Twin
      <3> DEFINE X1 == t[1]  Y1 == t[2]  Z1 == t[3]  X2 == u[1]  Y2 == u[2]  Z2 == u[3]
      <3>3. /\ X1 \in Field /\ Y1 \in Int /\ Z1 \in 1 .. P - 1
            /\ X2 \in Field /\ Y2 \in Int /\ Z2 \in 1 .. P - 1
            /\ At(X1, Y1, Z1, q[1], q[2]) /\ At(X2, Y2, Z2, r[1], r[2])
            /\ ~ (Z1 = 1 /\ Z2 = 1 /\ X1 = X2 /\ Y1 # Y2 /\ (Y1 - Y2) % P = 0)
            /\ c = AddTriples(X1, Y1, Z1, X2, Y2, Z2)
        BY <1>1, <3>1, <3>2
      <3> HIDE DEF X1, Y1, Z1, X2, Y2, Z2, c
      <3> QED BY <3>1, <3>3, AdditionIsGroupLaw
    <2> QED BY <2>2, <2>3, <2>4
  <1>5. AddT(t, u) = WithGhost(c, flag)
    BY DEF AddT
  <1> HIDE DEF c, flag
  <1>6. Carries(WithGhost(c, flag), RAdd(q, r)) /\ WithGhost(c, flag)[2] \in Field
    BY <1>2, <1>3, <1>4, YieldsCarries
  <1>7. WithGhost(c, flag)[4] = flag
    BY <1>2, <1>3, WithGhostIs
  <1> QED BY <1>5, <1>6, <1>7 DEF flag

LEMMA DoubleCarries ==
  ASSUME NEW t, NEW q, Carries(t, q)
  PROVE  /\ Carries(DoubleT[t], RAdd(q, q)) /\ DoubleT[t][2] \in Field
         /\ DoubleT[t][4] = t[4]
  <1> DEFINE c == DoubleTriple(t[1], t[2], t[3])  flag == t[4]
  <1>1. /\ q \in Group /\ t[4] \in BOOLEAN /\ t \in Triples
        /\ t[1] \in Field /\ t[3] \in Field
        /\ t[1] \in Int /\ t[2] \in Int /\ t[3] \in Int
    BY CarriesIs
  <1>2. c \in Coordinates /\ RAdd(q, q) \in Group
    BY <1>1, DoubleTripleType, RAddClosed
  <1>3. ASSUME ~ flag PROVE Yields(c, RAdd(q, q))
    <2>1. CASE t[3] = 0
      <3>1. c = <<0, 0, 0>>
        BY <2>1 DEF DoubleTriple
      <3>2. q = O /\ RAdd(q, q) = O
        BY <1>1, <1>3, <2>1, CarriesIs, RAddZero
      <3> HIDE DEF c
      <3> QED BY <1>2, <3>1, <3>2 DEF Yields
    <2>2. CASE t[3] # 0
      <3>1. q \in CurvePoints /\ t[3] \in 1 .. P - 1 /\ At(t[1], t[2], t[3], q[1], q[2])
        BY <1>3, <2>2, CarriesIs
      <3> QED BY <1>1, <3>1, DoublingIsGroupLaw
    <2> QED BY <2>1, <2>2
  <1>4. DoubleT[t] = WithGhost(c, flag)
    BY <1>1 DEF DoubleT
  <1> HIDE DEF c
  <1>5. Carries(WithGhost(c, flag), RAdd(q, q)) /\ WithGhost(c, flag)[2] \in Field
    BY <1>1, <1>2, <1>3, YieldsCarries
  <1>6. WithGhost(c, flag)[4] = flag
    BY <1>1, <1>2, WithGhostIs
  <1> QED BY <1>4, <1>5, <1>6

LEMMA NegCarries ==
  ASSUME NEW t, NEW q, Carries(t, q)
  PROVE  Carries(NegT(t), RNeg(q)) /\ NegT(t)[4] = t[4]
  <1>1. /\ q \in Group /\ t[4] \in BOOLEAN /\ t[1] \in Field /\ t[3] \in Field
        /\ t[1] \in Int /\ t[2] \in Int /\ t[3] \in Int
    BY CarriesIs
  <1> DEFINE w == NegT(t)
  <1>2. w[1] = t[1] /\ w[2] = - t[2] /\ w[3] = t[3] /\ w[4] = t[4] /\ w \in Triples
    BY <1>1 DEF NegT, Triples
  <1> HIDE DEF w
  <1>3. RNeg(q) \in Group
    BY <1>1, RNegFacts
  <1>4. ASSUME ~ w[4]
        PROVE  IF w[3] = 0 THEN RNeg(q) = O
               ELSE RNeg(q) # O /\ At(w[1], w[2], w[3], RNeg(q)[1], RNeg(q)[2])
    <2>1. CASE t[3] = 0
      <3>1. q = O /\ RNeg(O) = O
        BY <1>2, <1>4, <2>1, CarriesIs DEF RNeg
      <3> QED BY <1>2, <2>1, <3>1
    <2>2. CASE t[3] # 0
      <3>1. q \in CurvePoints /\ At(t[1], t[2], t[3], q[1], q[2])
        BY <1>2, <1>4, <2>2, CarriesIs
      <3> DEFINE r == RNeg(q)  x == t[1]  y == t[2]  z == t[3]
      <3>2. /\ r \in CurvePoints /\ r[1] = q[1] /\ r[2] = (- q[2]) % P
            /\ Congruent(r[2], - q[2]) /\ r[2] \in Int /\ r # O
            /\ q[1] \in Int /\ q[2] \in Int
        <4>1. r = <<q[1], (- q[2]) % P>> /\ r \in CurvePoints /\ Congruent((- q[2]) % P, - q[2])
          BY <3>1, RNegIs
        <4>2. r # O /\ r[2] \in Int /\ q[1] \in Int /\ q[2] \in Int
          BY <3>1, <4>1, CurvePointFacts
        <4> HIDE DEF r
        <4> QED BY <4>1, <4>2
      <3>3. At(x, - y, z, r[1], r[2])
        <4>1. x \in Int /\ y \in Int /\ z \in Int /\ At(x, y, z, q[1], q[2])
          BY <1>1, <3>1
        <4> HIDE DEF x, y, z, r
        <4>2. Congruent(y * (- 1), (q[2] * z * z * z) * (- 1))
          <5>1. Congruent(y, q[2] * z * z * z) /\ q[2] * z * z * z \in Int /\ - 1 \in Int
            BY <3>2, <4>1 DEF At
          <5> QED BY <4>1, <5>1, CongruentTimes
        <4>3. y * (- 1) = - y /\ (q[2] * z * z * z) * (- 1) = (- q[2]) * z * z * z
          BY <3>2, <4>1
        <4>4. At(x, - y, z, q[1], - q[2])
          BY <4>1, <4>2, <4>3 DEF At
        <4>5. Congruent(- q[2], r[2]) /\ Congruent(q[1], q[1]) /\ - q[2] \in Int /\ - y \in Int
          BY <3>2, <4>1, CongruentSym, CongruentMod
        <4>6. At(x, - y, z, q[1], r[2])
          BY <3>2, <4>1, <4>4, <4>5, AtReduced
        <4> QED BY <3>2, <4>6
      <3> QED BY <1>2, <2>2, <3>2, <3>3
    <2> QED BY <2>1, <2>2
  <1>5. Carries(w, RNeg(q))
    BY <1>1, <1>2, <1>3, <1>4 DEF Carries
  <1> QED BY <1>2, <1>5 DEF w

LEMMA ZeroCarries == Carries(ZeroT, O) /\ ZeroT[2] \in Field /\ ZeroT[4] = FALSE
  <1>0. ASSUME NEW x \in Int, NEW y \in Int, NEW z \in Int, NEW b \in BOOLEAN
        PROVE  LET t == <<x, y, z, b>>
               IN t[1] = x /\ t[2] = y /\ t[3] = z /\ t[4] = b /\ t \in Triples
    BY DEF Triples
  <1>1. /\ ZeroT[1] = 0 /\ ZeroT[2] = 0 /\ ZeroT[3] = 0 /\ ZeroT[4] = FALSE /\ ZeroT \in Triples
    <2>1. 0 \in Int /\ FALSE \in BOOLEAN
      OBVIOUS
    <2> QED BY <1>0, <2>1, Zenon DEF ZeroT
  <1>2. 0 \in Field /\ O \in Group
    BY PFacts DEF Field, Group
  <1> QED BY <1>1, <1>2 DEF Carries

LEMMA TripleTypes ==
  ASSUME NEW t \in Triples, NEW u \in Triples
  PROVE  AddT(t, u) \in Triples /\ DoubleT[t] \in Triples /\ NegT(t) \in Triples
  <1>1. /\ t[1] \in Int /\ t[2] \in Int /\ t[3] \in Int /\ t[4] \in BOOLEAN
        /\ u[1] \in Int /\ u[2] \in Int /\ u[3] \in Int /\ u[4] \in BOOLEAN
    BY TripleIs
  <1>2. AddT(t, u) \in Triples
    <2> DEFINE c == AddTriples(t[1], t[2], t[3], u[1], u[2], u[3])
               flag == t[4] \/ u[4] \/ Twin(t, u)
    <2>1. c \in Coordinates /\ flag \in BOOLEAN
      BY <1>1, AddTriplesType DEF Twin
    <2>2. AddT(t, u) = WithGhost(c, flag)
      BY DEF AddT
    <2> HIDE DEF c, flag
    <2> QED BY <2>1, <2>2, WithGhostIs
  <1>3. DoubleT[t] \in Triples
    <2> DEFINE c == DoubleTriple(t[1], t[2], t[3])
    <2>1. c \in Coordinates
      BY <1>1, DoubleTripleType
    <2>2. DoubleT[t] = WithGhost(c, t[4])
      BY DEF DoubleT
    <2> HIDE DEF c
    <2> QED BY <1>1, <2>1, <2>2, WithGhostIs
  <1>4. NegT(t) \in Triples
    BY <1>1 DEF NegT, Triples
  <1> QED BY <1>2, <1>3, <1>4

LEMMA FromTripleCarries ==
  ASSUME NEW t, NEW q, Carries(t, q), t[2] \in Field, NEW n \in Nat
  PROVE  /\ FromTriple(t, n).twin = t[4]
         /\ ~ t[4] => Good(FromTriple(t, n), q)
  <1>1. /\ t \in Triples /\ t[4] \in BOOLEAN /\ t = <<t[1], t[2], t[3], t[4]>> /\ q \in Group
        /\ t[1] % P = t[1] /\ t[2] % P = t[2] /\ t[3] % P = t[3]
    BY CarriesIs, FieldIs
  <1>2. FromTriple(t, n).twin = t[4]
    BY DEF FromTriple, Flagged, INFINITY, Jacobi, Object
  <1>3. ASSUME ~ t[4] PROVE Good(FromTriple(t, n), q)
    <2> DEFINE c == <<t[1], t[2], t[3]>>
    <2>1. Yields(<<t[1] % P, t[2] % P, t[3] % P>>, q)
      BY <1>3, ReducedYields
    <2>2. Yields(c, q)
      BY <1>1, <2>1
    <2>3. t = WithGhost(c, FALSE)
      BY <1>1, <1>3 DEF WithGhost
    <2> HIDE DEF c
    <2> QED BY <1>1, <2>2, <2>3, FromTripleGood
  <1> QED BY <1>2, <1>3

LEMMA TripleCarries ==
  ASSUME NEW pt, NEW q, Good(pt, q)
  PROVE  Carries(Triple(pt), q) /\ Triple(pt)[4] = FALSE /\ Triple(pt)[3] = pt.z
  <1>1. pt \in Objects /\ pt.twin = FALSE /\ q \in Group
        /\ (pt = INFINITY => q = O) /\ (pt # INFINITY => q # O)
    BY Zenon DEF Good, WellFormed, StandsFor
  <1>2. /\ Triple(pt)[1] = pt.x /\ Triple(pt)[2] = pt.y /\ Triple(pt)[3] = pt.z
        /\ Triple(pt)[4] = FALSE /\ Triple(pt) \in Triples
    <2>1. pt.x \in Int /\ pt.y \in Int /\ pt.z \in Int /\ pt.twin \in BOOLEAN
      BY <1>1, ObjectIs
    <2> QED BY <1>1, <2>1 DEF Triple, Triples
  <1>3. CASE pt = INFINITY
    <2>1. pt.x = 0 /\ pt.z = 0 /\ 0 \in Field
      BY <1>3, PFacts DEF INFINITY, Object, Field
    <2> QED BY <1>1, <1>2, <1>3, <2>1 DEF Carries
  <1>4. CASE pt # INFINITY
    <2>1. /\ pt.x \in Field /\ pt.z \in 1 .. P - 1 /\ q # O
          /\ At(pt.x, pt.y, pt.z, q[1], q[2])
      BY <1>1, <1>4, FiniteIs
    <2>2. pt.z \in Field /\ pt.z # 0
      BY <2>1, PFacts DEF Field
    <2> HIDE DEF At
    <2> QED BY <1>1, <1>2, <2>1, <2>2 DEF Carries
  <1> QED BY <1>3, <1>4

----------------------------------------------------------------------------
(* Signed digits.                                                          *)
LEMMA DigitFacts ==
  ASSUME NEW m \in Nat
  PROVE  /\ Digit(m) \in {- 1, 0, 1} /\ Digit(m) \in Int /\ Beyond(m) \in Nat
         /\ m = 2 * Beyond(m) + Digit(m) /\ (m # 0 => Beyond(m) < m)
         /\ (m = 0 => Digit(m) = 0 /\ Beyond(m) = 0)
  <1>1. /\ m % 2 \in {0, 1} /\ m % 4 \in {0, 1, 2, 3}
        /\ m = 4 * (m \div 4) + (m % 4) /\ m = 2 * (m \div 2) + (m % 2)
        /\ m \div 4 \in Int /\ m \div 2 \in Int
    OBVIOUS
  <1> DEFINE d == Digit(m)
  <1>2. d \in {- 1, 0, 1} /\ (m % 2 = 0 => d = 0) /\ (m % 4 = 1 => d = 1) /\ (m % 4 = 3 => d = - 1)
    BY <1>1 DEF Digit
  <1>3. (m - d) % 2 = 0 /\ m - d \in Int
    BY <1>1, <1>2
  <1>4. m - d >= 0 /\ (m # 0 => m - d < 2 * m) /\ (m = 0 => d = 0)
    BY <1>1, <1>2
  <1> HIDE DEF d
  <1> DEFINE b == (m - d) \div 2
  <1>5. b \in Int /\ m - d = 2 * b
    BY <1>2, <1>3
  <1> HIDE DEF b
  <1>6. /\ d \in Int /\ b \in Nat /\ m = 2 * b + d /\ (m # 0 => b < m)
        /\ (m = 0 => d = 0 /\ b = 0)
    BY <1>2, <1>4, <1>5
  <1>7. Beyond(m) = b
    BY DEF Beyond, b, d
  <1> QED BY <1>2, <1>6, <1>7 DEF d

LEMMA AddSignedCarries ==
  ASSUME NEW t, NEW q, Carries(t, q), t[2] \in Field, NEW u, NEW r, Carries(u, r),
         NEW d \in {- 1, 0, 1}
  PROVE  /\ Carries(AddSigned(t, d, u), RAdd(q, ZMul(d, r))) /\ AddSigned(t, d, u)[2] \in Field
         /\ t[4] => AddSigned(t, d, u)[4]
  <1>1. q \in Group /\ r \in Group /\ t[4] \in BOOLEAN
    BY CarriesIs
  <1>2. CASE d = 0
    <2>1. AddSigned(t, d, u) = t /\ RAdd(q, ZMul(d, r)) = q
      BY <1>1, <1>2, ZMulIs, RAddZero DEF AddSigned
    <2> QED BY <2>1
  <1>3. CASE d = 1
    <2>1. AddSigned(t, d, u) = AddT(t, u) /\ ZMul(d, r) = r
      BY <1>1, <1>3, ZMulIs DEF AddSigned
    <2> QED BY <2>1, AddCarries
  <1>4. CASE d = - 1
    <2>1. AddSigned(t, d, u) = AddT(t, NegT(u))
      BY <1>4 DEF AddSigned
    <2>2. ZMul(d, r) = RNeg(r)
      <3>1. ZMul(- 1, r) = RNeg(ZMul(1, r)) /\ ZMul(1, r) = r
        BY <1>1, ZMulIs, 1 \in Int
      <3> QED BY <1>4, <3>1
    <2>3. Carries(NegT(u), RNeg(r))
      BY NegCarries
    <2> QED BY <2>1, <2>2, <2>3, AddCarries
  <1> QED BY <1>2, <1>3, <1>4

(* A digit more: the accumulator is doubled and the digit's multiple added.*)
LEMMA NextDigit ==
  ASSUME Smooth, NEW q \in Group, NEW b \in Int, NEW d \in Int, NEW m \in Int, m = 2 * b + d
  PROVE  ZMul(m, q) = RAdd(RAdd(ZMul(b, q), ZMul(b, q)), ZMul(d, q))
  <1> DEFINE c == 2 * b
  <1>1. c \in Int /\ c = b + b /\ m = c + d
    OBVIOUS
  <1> HIDE DEF c
  <1>2. ZMul(c, q) = RAdd(ZMul(b, q), ZMul(b, q))
    BY <1>1, ZSum, Zenon
  <1>3. ZMul(m, q) = RAdd(ZMul(c, q), ZMul(d, q))
    BY <1>1, ZSum, Zenon
  <1> QED BY <1>2, <1>3

LEMMA MulTripleCarries ==
  ASSUME Smooth, NEW t, NEW q, Carries(t, q), NEW k \in Nat
  PROVE  Carries(MulTriple(t, k), ZMul(k, q)) /\ MulTriple(t, k)[2] \in Field
  <1> DEFINE F(f) == [m \in Nat |-> IF m = 0 THEN ZeroT
                                    ELSE AddSigned(DoubleT[f[Beyond(m)]], Digit(m), t)]
             acc == CHOOSE f : f = F(f)
             next == [m \in Nat |-> Beyond(m)]
             size == [m \in Nat |-> m]
             base == [m \in Nat |-> ZeroT]
             step == [p \in Nat \X Triples |-> AddSigned(DoubleT[p[2]], Digit(p[1]), t)]
             Zero == {0}
  <1>0. t \in Triples /\ q \in Group
    BY CarriesIs
  <1>1. /\ next \in [Nat -> Nat] /\ size \in [Nat -> Nat] /\ base \in [Nat -> Triples]
        /\ step \in [Nat \X Triples -> Triples] /\ Decreases(Nat, Zero, next, size)
    <2>1. next \in [Nat -> Nat] /\ Decreases(Nat, Zero, next, size)
      BY DigitFacts DEF Decreases
    <2>2. base \in [Nat -> Triples]
      BY ZeroCarries DEF Carries
    <2>3. \A p \in Nat \X Triples : AddSigned(DoubleT[p[2]], Digit(p[1]), t) \in Triples
      BY <1>0, TripleTypes DEF AddSigned
    <2> QED BY <2>1, <2>2, <2>3
  <1>2. PICK g \in [Nat -> Triples] : Solves(g, Nat, Zero, next, base, step)
    <2> HIDE DEF next, size, base, step, Zero, F, acc
    <2> QED BY <1>1, Recursion
  <1>3. ASSUME NEW m \in Nat, NEW a \in Triples
        PROVE  <<m, a>> \in Nat \X Triples /\ <<m, a>>[1] = m /\ <<m, a>>[2] = a
               /\ step[<<m, a>>] = AddSigned(DoubleT[a], Digit(m), t)
    OBVIOUS
  <1>4. ASSUME NEW m \in Nat
        PROVE  g[m] = IF m = 0 THEN ZeroT ELSE AddSigned(DoubleT[g[Beyond(m)]], Digit(m), t)
    <2>1. Beyond(m) \in Nat /\ next[m] = Beyond(m) /\ base[m] = ZeroT
      BY DigitFacts
    <2> HIDE DEF step
    <2> QED BY <1>2, <1>3, <2>1 DEF Solves
  <1>5. g = F(g)
    BY <1>4
  <1>6. acc = F(acc)
    <2> HIDE DEF F
    <2> QED BY <1>5
  <1>7. MulTriple(t, k) = acc[k]
    BY DEF MulTriple
  <1> HIDE DEF acc
  <1>8. \A m \in Nat :
          acc[m] = IF m = 0 THEN ZeroT ELSE AddSigned(DoubleT[acc[Beyond(m)]], Digit(m), t)
    BY <1>6
  <1> DEFINE T == {m \in Nat : ~ (Carries(acc[m], ZMul(m, q)) /\ acc[m][2] \in Field)}
  <1>9. T = {}
    <2> SUFFICES ASSUME T # {} PROVE FALSE
      OBVIOUS
    <2>1. PICK m \in T : \A j \in T : m <= j
      <3>1. T \in SUBSET Nat
        OBVIOUS
      <3> HIDE DEF T
      <3> QED BY <3>1, NatMin
    <2>2. m \in Nat /\ ~ (Carries(acc[m], ZMul(m, q)) /\ acc[m][2] \in Field)
      OBVIOUS
    <2>3. m # 0
      BY <1>0, <1>8, <2>2, ZMulIs, ZeroCarries
    <2> DEFINE b == Beyond(m)  d == Digit(m)
    <2>4. b \in Nat /\ d \in {- 1, 0, 1} /\ d \in Int /\ m = 2 * b + d /\ b < m
      BY <2>2, <2>3, DigitFacts
    <2> HIDE DEF F
    <2>5. acc[m] = AddSigned(DoubleT[acc[b]], d, t)
      BY <1>8, <2>2, <2>3
    <2> HIDE DEF b, d
    <2>6. b \notin T
      <3> HIDE DEF T
      <3> QED BY <2>1, <2>2, <2>4
    <2>7. Carries(acc[b], ZMul(b, q))
      BY <2>4, <2>6
    <2> HIDE DEF T
    <2>8. Carries(DoubleT[acc[b]], RAdd(ZMul(b, q), ZMul(b, q))) /\ DoubleT[acc[b]][2] \in Field
      BY <2>7, DoubleCarries
    <2>9. /\ Carries(acc[m], RAdd(RAdd(ZMul(b, q), ZMul(b, q)), ZMul(d, q)))
          /\ acc[m][2] \in Field
      BY <2>4, <2>5, <2>8, AddSignedCarries
    <2>10. ZMul(m, q) = RAdd(RAdd(ZMul(b, q), ZMul(b, q)), ZMul(d, q))
      BY <1>0, <2>2, <2>4, NextDigit
    <2> QED BY <2>2, <2>9, <2>10
  <1>10. Carries(acc[k], ZMul(k, q)) /\ acc[k][2] \in Field
    BY <1>9
  <1> QED BY <1>7, <1>10

LEMMA MulLoopGood ==
  ASSUME Smooth, NEW pt, NEW q, Good(pt, q), pt.class = "jacobi", NEW k \in Nat,
         ~ MulLoop(pt, k).twin
  PROVE  Good(MulLoop(pt, k), ZMul(k, q))
  <1> DEFINE t == Triple(Scale(pt))  u == MulTriple(t, k)
  <1>1. Carries(t, q) /\ pt.n \in Nat
    BY ScaleGood, TripleCarries, ObjectIs DEF Good, WellFormed
  <1> HIDE DEF t
  <1>2. Carries(u, ZMul(k, q)) /\ u[2] \in Field
    BY <1>1, MulTripleCarries
  <1>3. MulLoop(pt, k) = FromTriple(u, pt.n)
    BY DEF MulLoop, t
  <1> HIDE DEF u
  <1> QED BY <1>1, <1>2, <1>3, FromTripleCarries

----------------------------------------------------------------------------
(* The table of a generator.                                               *)

(* Doubling a point that is not its own opposite leaves the curve's points.*)
LEMMA DoubleFinite ==
  ASSUME NoOrderTwo, NEW q \in CurvePoints
  PROVE  RAdd(q, q) \in CurvePoints /\ q[2] # 0
  <1>1. q[2] # 0 /\ q[2] \in Int /\ q[2] % P = q[2] /\ q # O
    BY CurvePointFacts, FieldIs DEF NoOrderTwo
  <1>2. q # RNeg(q)
    <2>1. q[2] + q[2] = 2 * q[2]
      BY <1>1
    <2>2. (2 * q[2]) % P # 0
      BY <1>1, TwiceZero
    <2> QED BY <2>1, <2>2, OppositeIs
  <1>3. RAdd(q, q) # O
    BY <1>2, RAddIs DEF Third, O
  <1> QED BY <1>1, <1>3, RAddCommutes DEF Group

LEMMA ClassOfTriple ==
  ASSUME NEW t, NEW n
  PROVE  /\ FromTriple(t, n).class \in {"jacobi", "infinity"}
         /\ FromTriple(t, n).z \in {0, t[3]}
  BY DEF FromTriple, Flagged, INFINITY, Jacobi, Object

LEMMA NextEntry ==
  ASSUME NoOrderTwo, NEW e, NEW q \in CurvePoints, Good(e, q), e.class = "jacobi"
  PROVE  /\ Good(Scale(Double(e)), RAdd(q, q)) /\ Scale(Double(e)).class = "jacobi"
         /\ RAdd(q, q) \in CurvePoints
  <1> DEFINE d == Double(e)
  <1>1. Good(d, RAdd(q, q)) /\ RAdd(q, q) \in CurvePoints
    BY DoubleGood, DoubleFinite
  <1>2. RAdd(q, q) # O
    BY <1>1, CurvePointFacts
  <1>3. d # INFINITY /\ d.class # "infinity"
    BY <1>1, <1>2, InfinityTold
  <1>4. d.class = "jacobi"
    BY <1>3, ClassOfTriple DEF Double
  <1> HIDE DEF d
  <1>5. Good(Scale(d), RAdd(q, q)) /\ Scale(d).class = "jacobi"
    BY <1>1, <1>4, ScaleGood
  <1> QED BY <1>1, <1>5 DEF d

LEMMA RoundTypes ==
  ASSUME NEW r \in Rounds
  PROVE  /\ r.k \in Nat /\ r.acc \in Triples /\ r.entry \in Objects /\ r.i \in Nat \ {0}
         /\ AddEntry(r) \in Triples
         /\ [k |-> Beyond(r.k), acc |-> AddEntry(r), entry |-> Scale(Double(r.entry)),
             i |-> 2 * r.i] \in Rounds
  <1>1. /\ r.k \in Nat /\ r.acc \in Triples /\ r.entry \in Objects /\ r.i \in Nat \ {0}
    BY DEF Rounds
  <1> DEFINE e == r.entry
  <1>2. /\ e.x \in Int /\ e.y \in Int /\ e.z \in Int /\ e.n \in Nat /\ e.twin \in BOOLEAN
    BY <1>1, ObjectIs
  <1>3. Triple(e) \in Triples
    BY <1>2 DEF Triple, Triples
  <1>4. AddEntry(r) \in Triples
    <2>1. NegT(Triple(e)) \in Triples
      BY <1>3, TripleTypes
    <2> HIDE DEF e
    <2> QED BY <1>1, <1>3, <2>1, TripleTypes DEF AddEntry, AddSigned, e
  <1>5. Scale(Double(e)) \in Objects
    <2> DEFINE d == Double(e)
    <2>1. /\ d.x \in Int /\ d.y \in Int /\ d.z \in Field /\ d.n \in Nat /\ d \in Objects
      <3>1. CASE d = INFINITY
        <4>1. INFINITY.x = 0 /\ INFINITY.y = 0 /\ INFINITY.z = 0 /\ INFINITY.n = 0
          BY DEF INFINITY, Object
        <4>2. 0 \in Field
          BY PFacts DEF Field
        <4> QED BY <3>1, <4>1, <4>2, InfinityIs
      <3>2. CASE d # INFINITY
        <4> DEFINE t == DoubleT[Triple(e)]  c == DoubleTriple(e.x, e.y, e.z)
        <4>1. t = WithGhost(c, e.twin)
          BY <1>3 DEF DoubleT, Triple
        <4>2. c \in Coordinates
          BY <1>2, DoubleTripleType
        <4>3. /\ t \in Triples /\ t[1] \in Field /\ t[2] \in Field /\ t[3] \in Field
              /\ t[4] = e.twin
          <5> HIDE DEF c, t
          <5> QED BY <1>2, <4>1, <4>2, WithGhostIs
        <4>4. d = INFINITY \/ d = FromTriple(t, e.n)
          BY DEF Double
        <4> HIDE DEF t, d
        <4>5. d = FromTriple(t, e.n)
          BY <3>2, <4>4
        <4>6. d = IF t[3] = 0 THEN [INFINITY EXCEPT !.twin = t[4]]
                  ELSE [class |-> "jacobi", x |-> t[1], y |-> t[2], z |-> t[3], n |-> e.n,
                        twin |-> t[4]]
          BY <4>5 DEF FromTriple, Flagged, Jacobi, Object
        <4>7. t[1] \in Int /\ t[2] \in Int /\ t[3] \in Int /\ t[4] \in BOOLEAN /\ 0 \in Field
          BY <1>2, <4>3, FieldIs, PFacts DEF Field
        <4> QED BY <1>2, <4>3, <4>6, <4>7 DEF Objects, INFINITY, Object
      <3> QED BY <3>1, <3>2
    <2> HIDE DEF d
    <2> DEFINE i == InverseMod(d.z)
    <2>2. i \in Int
      <3>1. CASE d.z = 0
        BY <3>1 DEF InverseMod
      <3>2. CASE d.z # 0
        BY <2>1, <3>2, FieldIs, InverseInField
      <3> QED BY <3>1, <3>2
    <2> HIDE DEF i
    <2>3. (d.x * i * i) % P \in Int /\ (d.y * ((i * i) % P) * i) % P \in Int
      <3> DEFINE x == d.x  y == d.y
      <3>1. x \in Int /\ y \in Int
        BY <2>1
      <3> HIDE DEF x, y
      <3>2. x * i * i \in Int /\ i * i \in Int
        BY <2>2, <3>1
      <3>3. (x * i * i) % P \in Int /\ (i * i) % P \in Int
        BY <3>2, Reduced
      <3>4. y * ((i * i) % P) * i \in Int
        BY <2>2, <3>1, <3>3
      <3>5. (y * ((i * i) % P) * i) % P \in Int
        BY <3>4, Reduced
      <3> QED BY <3>3, <3>5 DEF x, y
    <2>4. Scale(d) = d \/ Scale(d) = Jacobi((d.x * i * i) % P, (d.y * ((i * i) % P) * i) % P, 1, d.n)
      BY DEF Scale, i
    <2>5. ASSUME NEW x \in Int, NEW y \in Int PROVE Jacobi(x, y, 1, d.n) \in Objects
      BY <2>1 DEF Jacobi, Object, Objects
    <2> QED BY <2>1, <2>3, <2>4, <2>5 DEF d
  <1>6. Beyond(r.k) \in Nat
    BY <1>1, DigitFacts
  <1>7. 2 * r.i \in Nat \ {0}
    <2> DEFINE i == r.i
    <2>1. i \in Nat \ {0}
      BY <1>1
    <2> HIDE DEF i
    <2>2. 2 * i \in Nat \ {0}
      BY <2>1
    <2> QED BY <2>2 DEF i
  <1> QED BY <1>1, <1>4, <1>5, <1>6, <1>7 DEF Rounds

LEMMA DigitTimes ==
  ASSUME NEW q \in Group, NEW d \in {- 1, 0, 1}, NEW i \in Int
  PROVE  ZMul(d, ZMul(i, q)) = ZMul(d * i, q)
  <1>0. ZMul(i, q) \in Group
    BY ZMulIs
  <1>1. CASE d = 0
    <2>1. d * i = 0
      BY <1>1
    <2> QED BY <1>0, <1>1, <2>1, ZMulIs
  <1>2. CASE d = 1
    <2>1. d * i = i
      BY <1>2
    <2> QED BY <1>0, <1>2, <2>1, ZMulIs
  <1>3. CASE d = - 1
    <2>1. d * i = - i
      BY <1>3
    <2>2. ZMul(- i, q) = RNeg(ZMul(i, q))
      BY ZMulIs
    <2>3. ZMul(- 1, ZMul(i, q)) = RNeg(ZMul(1, ZMul(i, q))) /\ ZMul(1, ZMul(i, q)) = ZMul(i, q)
      BY <1>0, ZMulIs, 1 \in Int
    <2> QED BY <1>3, <2>1, <2>2, <2>3
  <1> QED BY <1>1, <1>2, <1>3

(* What was added so far, and what is left to add, make k.                 *)
InRound(r, k, q) ==
    /\ Good(r.entry, ZMul(r.i, q)) /\ r.entry.class = "jacobi" /\ r.acc[2] \in Field
    /\ \E s \in Int : /\ - r.i < s /\ s < r.i /\ k = s + r.k * r.i
                      /\ Carries(r.acc, ZMul(s, q))

LEMMA EntryAdded ==
  ASSUME Smooth, NEW q \in Group, NEW k \in Int, NEW r \in Rounds, InRound(r, k, q)
  PROVE  /\ AddEntry(r)[2] \in Field
         /\ \E s \in Int : /\ - 2 * r.i < s /\ s < 2 * r.i /\ k = s + Beyond(r.k) * (2 * r.i)
                           /\ Carries(AddEntry(r), ZMul(s, q))
  <1> DEFINE i == r.i  m == r.k  d == Digit(m)  b == Beyond(m)  t == Triple(r.entry)
             a == AddEntry(r)  acc == r.acc
  <1>1. i \in Nat \ {0} /\ m \in Nat
    BY RoundTypes
  <1>2. d \in {- 1, 0, 1} /\ b \in Nat /\ m = 2 * b + d
    BY <1>1, DigitFacts
  <1>3. PICK s \in Int : - i < s /\ s < i /\ k = s + m * i /\ Carries(acc, ZMul(s, q))
    BY DEF InRound
  <1>4. Carries(t, ZMul(i, q)) /\ acc[2] \in Field
    BY TripleCarries DEF InRound
  <1>5. a = AddSigned(acc, d, t)
    BY DEF AddEntry
  <1> HIDE DEF i, m, d, b, t, a, acc
  <1>6. a[2] \in Field /\ Carries(a, RAdd(ZMul(s, q), ZMul(d, ZMul(i, q))))
    BY <1>2, <1>3, <1>4, <1>5, AddSignedCarries
  <1> DEFINE c == d * i  s2 == s + c
  <1>7. ZMul(d, ZMul(i, q)) = ZMul(c, q)
    BY <1>1, <1>2, DigitTimes
  <1>8. c \in Int /\ - i <= c /\ c <= i
    BY <1>1, <1>2
  <1>9. k = s + c + b * (2 * i)
    <2>1. m * i = (2 * b + d) * i
      BY <1>2
    <2>2. (2 * b + d) * i = b * (2 * i) + d * i
      BY <1>1, <1>2
    <2>3. b * (2 * i) \in Int /\ m * i \in Int
      BY <1>1, <1>2
    <2> HIDE DEF c
    <2> QED BY <1>3, <1>8, <2>1, <2>2, <2>3 DEF c
  <1> HIDE DEF c
  <1>10. s2 \in Int /\ - 2 * i < s2 /\ s2 < 2 * i
    BY <1>1, <1>3, <1>8
  <1>11. ZMul(s2, q) = RAdd(ZMul(s, q), ZMul(c, q))
    BY <1>8, ZSum, s2 \in Int
  <1>12. Carries(a, ZMul(s2, q)) /\ k = s2 + b * (2 * i)
    BY <1>6, <1>7, <1>9, <1>11
  <1> HIDE DEF s2
  <1>13. \E z \in Int : /\ - 2 * i < z /\ z < 2 * i /\ k = z + b * (2 * i)
                        /\ Carries(a, ZMul(z, q))
    BY <1>10, <1>12
  <1> QED BY <1>6, <1>13 DEF i, m, b, a

(* No digit is left after the last entry.                                  *)
LEMMA LastRound ==
  ASSUME NEW n \in Nat \ {0}, NEW k \in Nat, k < 2 * n, NEW i \in Nat \ {0}, i >= 4 * n,
         NEW m \in Nat, NEW s \in Int, - i < s, k = s + m * i
  PROVE  Beyond(m) = 0
  <1>1. m < 2
    <2> SUFFICES ASSUME m >= 2 PROVE FALSE
      OBVIOUS
    <2> DEFINE x == m * i
    <2>1. x \in Int /\ x >= 2 * i /\ k = s + x
      OBVIOUS
    <2> HIDE DEF x
    <2> QED BY <2>1
  <1>2. Beyond(m) \in Nat /\ (m # 0 => Beyond(m) < m) /\ (m = 0 => Beyond(m) = 0)
    BY DigitFacts
  <1> QED BY <1>1, <1>2

LEMMA NextInRound ==
  ASSUME NoOrderTwo, NEW q \in CurvePoints, NEW k \in Int,
         NEW r \in Rounds, InRound(r, k, q)
  PROVE  InRound([k |-> Beyond(r.k), acc |-> AddEntry(r), entry |-> Scale(Double(r.entry)),
                  i |-> 2 * r.i], k, q)
  <1> Smooth
    BY SmoothIs
  <1> DEFINE e == Scale(Double(r.entry))  j == 2 * r.i  i == r.i  b == Beyond(r.k)
             a == AddEntry(r)  v == [k |-> b, acc |-> a, entry |-> e, i |-> j]
  <1>1. v.k = b /\ v.acc = a /\ v.entry = e /\ v.i = j
    OBVIOUS
  <1>2. i \in Int /\ i > 0 /\ j = i + i /\ - 2 * i = - j /\ j = 2 * i
    <2>1. r.i \in Nat \ {0}
      BY RoundTypes
    <2>2. i \in Nat \ {0}
      BY <2>1
    <2>3. j = 2 * i
      OBVIOUS
    <2> HIDE DEF i, j
    <2> QED BY <2>2, <2>3
  <1>3. q \in Group
    BY DEF Group
  <1>4. a[2] \in Field /\ \E s \in Int : /\ - 2 * i < s /\ s < 2 * i /\ k = s + b * (2 * i)
                                         /\ Carries(a, ZMul(s, q))
    BY <1>3, EntryAdded
  <1>5. Good(e, ZMul(j, q)) /\ e.class = "jacobi"
    <2> DEFINE s == ZMul(i, q)
    <2>1. Good(r.entry, s) /\ r.entry.class = "jacobi"
      BY DEF InRound
    <2>2. s \in CurvePoints
      <3>1. r.entry # INFINITY
        BY <2>1, InfinityIs
      <3> HIDE DEF s
      <3> QED BY <2>1, <3>1, FiniteIs
    <2>3. ZMul(j, q) = RAdd(s, s)
      <3> HIDE DEF i, j
      <3> QED BY <1>2, <1>3, ZSum
    <2> HIDE DEF s
    <2> QED BY <2>1, <2>2, <2>3, NextEntry
  <1> HIDE DEF e, j, i, b, a
  <1>6. \E s \in Int : - j < s /\ s < j /\ k = s + b * j /\ Carries(a, ZMul(s, q))
    BY <1>2, <1>4
  <1> HIDE DEF v
  <1>7. InRound(v, k, q)
    BY <1>1, <1>4, <1>5, <1>6 DEF InRound
  <1> QED BY <1>7 DEF v, e, j, i, b, a

LEMMA MulTableCarries ==
  ASSUME NoOrderTwo, NEW pt, NEW q \in CurvePoints, Good(pt, q),
         pt.class = "jacobi", pt.n # 0, NEW k \in Nat, k < 2 * pt.n
  PROVE  Carries(MulTable(pt, k), ZMul(k, q)) /\ MulTable(pt, k)[2] \in Field
  <1> Smooth
    BY SmoothIs
  <1> DEFINE Last(r) == r.i >= 4 * pt.n
             After(r) == [k |-> Beyond(r.k), acc |-> AddEntry(r),
                          entry |-> Scale(Double(r.entry)), i |-> 2 * r.i]
             F(f) == [r \in Rounds |-> IF Last(r) THEN AddEntry(r) ELSE f[After(r)]]
             sum == CHOOSE f : f = F(f)
             next == [r \in Rounds |-> After(r)]
             Steps(r) == IF Last(r) THEN 0 ELSE 4 * pt.n - r.i
             size == [r \in Rounds |-> Steps(r)]
             base == [r \in Rounds |-> AddEntry(r)]
             step == [p \in Rounds \X Triples |-> p[2]]
             Done == {r \in Rounds : Last(r)}
             n == pt.n
  <1>0. n \in Nat \ {0} /\ q \in Group
    BY ObjectIs DEF Good, WellFormed, Group
  <1>1. ASSUME NEW r \in Rounds
        PROVE  /\ After(r) \in Rounds /\ AddEntry(r) \in Triples /\ Steps(r) \in Nat
               /\ ~ Last(r) => Steps(After(r)) < Steps(r)
    <2>1. r.i \in Nat \ {0} /\ AddEntry(r) \in Triples /\ After(r) \in Rounds
      BY RoundTypes
    <2>2. After(r).i = 2 * r.i
      OBVIOUS
    <2> DEFINE i == r.i  j == After(r).i
    <2>3. i \in Nat \ {0} /\ j = 2 * i
      BY <2>1, <2>2
    <2> HIDE DEF n
    <2>4. Last(r) = (i >= 4 * n) /\ Last(After(r)) = (j >= 4 * n)
      BY DEF n
    <2>5. /\ Steps(r) = (IF i >= 4 * n THEN 0 ELSE 4 * n - i)
          /\ Steps(After(r)) = (IF j >= 4 * n THEN 0 ELSE 4 * n - j)
      BY DEF n
    <2> HIDE DEF i, j, Last, Steps, After
    <2>6. Steps(r) \in Nat
      BY <1>0, <2>3, <2>5
    <2>7. ~ Last(r) => Steps(After(r)) < Steps(r)
      <3> SUFFICES ASSUME ~ Last(r) PROVE Steps(After(r)) < Steps(r)
        OBVIOUS
      <3>1. ~ (i >= 4 * n)
        BY <2>4
      <3> QED BY <1>0, <2>3, <2>5, <3>1
    <2> QED BY <2>1, <2>6, <2>7
  <1>2. /\ next \in [Rounds -> Rounds] /\ size \in [Rounds -> Nat] /\ base \in [Rounds -> Triples]
        /\ step \in [Rounds \X Triples -> Triples] /\ Decreases(Rounds, Done, next, size)
    <2> HIDE DEF After, Last, Steps
    <2> QED BY <1>1 DEF Decreases
  <1>3. PICK g \in [Rounds -> Triples] : Solves(g, Rounds, Done, next, base, step)
    <2> HIDE DEF next, size, base, step, Done, F, sum
    <2> QED BY <1>2, Recursion
  <1>4. ASSUME NEW r \in Rounds
        PROVE  g[r] = IF Last(r) THEN AddEntry(r) ELSE g[After(r)]
    <2> HIDE DEF After, Last
    <2>1. After(r) \in Rounds /\ g[After(r)] \in Triples
      BY <1>1
    <2>2. <<r, g[After(r)]>> \in Rounds \X Triples /\ <<r, g[After(r)]>>[2] = g[After(r)]
      BY <2>1
    <2>3. step[<<r, g[After(r)]>>] = g[After(r)]
      BY <2>2
    <2>4. next[r] = After(r) /\ base[r] = AddEntry(r) /\ (r \in Done <=> Last(r))
      OBVIOUS
    <2> HIDE DEF step, next, base, Done
    <2> QED BY <1>3, <2>3, <2>4 DEF Solves
  <1>5. g = F(g)
    <2> HIDE DEF After, Last
    <2> QED BY <1>4
  <1>6. sum = F(sum)
    <2> HIDE DEF F
    <2> QED BY <1>5
  <1> DEFINE first == [k |-> k, acc |-> ZeroT, entry |-> Scale(pt), i |-> 1]
  <1>7. MulTable(pt, k) = sum[first]
    BY DEF MulTable
  <1> HIDE DEF sum
  <1>8. \A r \in Rounds : sum[r] = IF Last(r) THEN AddEntry(r) ELSE sum[After(r)]
    <2> HIDE DEF After, Last
    <2> QED BY <1>6
  <1> DEFINE Right(r) == Carries(sum[r], ZMul(k, q)) /\ sum[r][2] \in Field
             T == {m \in Nat : \E r \in Rounds : Steps(r) = m /\ InRound(r, k, q) /\ ~ Right(r)}
  <1> HIDE DEF F, next, size, base, step, Done
  <1>9. T = {}
    <2> SUFFICES ASSUME T # {} PROVE FALSE
      OBVIOUS
    <2>1. PICK m \in T : \A j \in T : m <= j
      <3>1. T \in SUBSET Nat
        OBVIOUS
      <3> HIDE DEF T
      <3> QED BY <3>1, NatMin
    <2>2. PICK r \in Rounds : Steps(r) = m /\ InRound(r, k, q) /\ ~ Right(r)
      OBVIOUS
    <2>3. CASE Last(r)
      <3>1. sum[r] = AddEntry(r)
        <4> HIDE DEF Last, After
        <4> QED BY <1>8, <2>3
      <3> DEFINE i == r.i  b == Beyond(r.k)  a == AddEntry(r)
      <3>2. i \in Nat \ {0} /\ r.k \in Nat /\ i >= 4 * n
        BY <2>3, RoundTypes
      <3>3. b = 0
        <4>1. PICK s \in Int : - i < s /\ k = s + r.k * i
          BY <2>2 DEF InRound
        <4> DEFINE l == r.k
        <4>2. l \in Nat /\ k = s + l * i /\ k < 2 * n
          BY <3>2, <4>1
        <4> HIDE DEF i, l, n
        <4>3. Beyond(l) = 0
          BY <1>0, <3>2, <4>1, <4>2, LastRound
        <4> QED BY <4>3 DEF l
      <3>4. a[2] \in Field /\ \E s \in Int : k = s + b * (2 * i) /\ Carries(a, ZMul(s, q))
        BY <1>0, <2>2, EntryAdded
      <3>5. PICK s \in Int : k = s + b * (2 * i) /\ Carries(a, ZMul(s, q))
        BY <3>4
      <3>6. k = s
        <4> HIDE DEF b, i
        <4>1. b * (2 * i) = 0
          BY <3>2, <3>3
        <4> QED BY <3>5, <4>1
      <3>7. Right(r)
        <4> HIDE DEF a
        <4> QED BY <3>1, <3>4, <3>5, <3>6 DEF a
      <3> QED BY <2>2, <3>7
    <2>4. CASE ~ Last(r)
      <3>1. sum[r] = sum[After(r)]
        <4> HIDE DEF Last, After
        <4> QED BY <1>8, <2>4
      <3>2. InRound(After(r), k, q)
        BY <2>2, NextInRound
      <3>3. After(r) \in Rounds /\ Steps(After(r)) \in Nat /\ Steps(After(r)) < m /\ m \in Nat
        <4> HIDE DEF Steps, Last, After
        <4> QED BY <1>1, <2>2, <2>4
      <3>4. Steps(After(r)) \notin T
        <4> HIDE DEF T, Steps, After
        <4> QED BY <2>1, <3>3
      <3>5. Right(After(r))
        <4> HIDE DEF Steps, Right, After
        <4> QED BY <3>2, <3>3, <3>4
      <3>6. Right(r)
        <4> HIDE DEF After
        <4> QED BY <3>1, <3>5
      <3> QED BY <2>2, <3>6
    <2> QED BY <2>3, <2>4
  <1>10. first \in Rounds /\ InRound(first, k, q)
    <2>1. Good(Scale(pt), q) /\ Scale(pt).class = "jacobi" /\ Scale(pt) \in Objects
      BY ScaleGood, InfinityTold
    <2>2. first \in Rounds
      <3>1. ZeroT \in Triples
        BY ZeroCarries DEF Carries
      <3> QED BY <2>1, <3>1 DEF Rounds
    <2>3. /\ first.k = k /\ first.acc = ZeroT /\ first.entry = Scale(pt) /\ first.i = 1
      OBVIOUS
    <2>4. ZMul(1, q) = q /\ ZMul(0, q) = O
      BY <1>0, ZMulIs
    <2>5. 0 \in Int /\ - 1 < 0 /\ 0 < 1 /\ k = 0 + k * 1
      OBVIOUS
    <2>6. Carries(ZeroT, ZMul(0, q)) /\ ZeroT[2] \in Field
      BY <2>4, ZeroCarries
    <2>7. \E s \in Int : - 1 < s /\ s < 1 /\ k = s + k * 1 /\ Carries(ZeroT, ZMul(s, q))
      BY <2>5, <2>6
    <2> HIDE DEF first
    <2> QED BY <2>1, <2>2, <2>3, <2>4, <2>6, <2>7 DEF InRound
  <1>11. Right(first)
    <2>1. Steps(first) \in Nat /\ Steps(first) \notin T
      <3> HIDE DEF Steps, first, T
      <3> QED BY <1>1, <1>9, <1>10
    <2> HIDE DEF Steps, Right, first
    <2> QED BY <1>10, <2>1
  <1> HIDE DEF first
  <1> QED BY <1>7, <1>11

(* __mul__ of a PointJacobi, by the signed digits of the multiplier, with  *)
(* a table of affine doubles or without, is the multiple in the group, for *)
(* every multiplier however long, if no Twin is added on the way: reducing *)
(* the multiplier modulo twice the order and ending the table at four      *)
(* times the order lose nothing.                                           *)
THEOREM MultiplicationIsGroupLaw ==
  ASSUME NoOrderTwo, NEW pt, NEW q, Good(pt, q), pt.class = "jacobi",
         NEW k \in Nat, NEW generator \in BOOLEAN, pt.n # 0 => Annihilates(pt.n),
         generator => pt.n # 0, ~ Mul(pt, k, generator).twin
  PROVE  Good(Mul(pt, k, generator), ZMul(k, q))
  <1> Smooth
    BY SmoothIs
  <1> DEFINE n == pt.n  m == IF n = 0 THEN k ELSE k % (2 * n)
  <1>1. /\ pt # INFINITY /\ q \in CurvePoints /\ q \in Group /\ n \in Nat
        /\ pt.x \in Int /\ pt.y \in Int /\ pt.z \in Int /\ pt.z % P = pt.z /\ pt.z # 0
        /\ At(pt.x, pt.y, pt.z, q[1], q[2])
    <2>1. pt # INFINITY
      BY InfinityTold
    <2> QED BY <2>1, FiniteIs DEF Group
  <1>2. pt.y # 0
    <2>1. q[2] # 0 /\ q[1] \in Int /\ q[2] \in Int /\ q[2] % P = q[2]
      BY <1>1, DoubleFinite, CurvePointFacts, FieldIs
    <2>2. ZeroTogether(pt.y, q[2])
      BY <1>1, <2>1, AtZero
    <2>3. 0 % P = 0
      BY PFacts, RemainderOfSmall
    <2> QED BY <2>1, <2>2, <2>3 DEF ZeroTogether
  <1>3. m \in Nat /\ ZMul(m, q) = ZMul(k, q) /\ (n # 0 => m < 2 * n)
    <2>1. CASE n = 0
      BY <2>1
    <2>2. CASE n # 0
      <3>1. n \in Nat \ {0} /\ 2 * n \in Nat \ {0} /\ m = k % (2 * n)
        BY <1>1, <2>2
      <3>2. ZMul(k % (2 * n), q) = ZMul(k, q)
        BY <1>1, <2>2, <3>1, ZReduced
      <3>3. k % (2 * n) \in Int /\ 0 <= k % (2 * n) /\ k % (2 * n) < 2 * n
        BY <3>1, DivMod
      <3> HIDE DEF m
      <3> QED BY <3>1, <3>2, <3>3
    <2> QED BY <2>1, <2>2
  <1>4. CASE k = 0
    BY <1>1, <1>4, InfinityIs, ZMulIs DEF Mul
  <1>5. CASE k = 1
    BY <1>1, <1>2, <1>5, ZMulIs DEF Mul
  <1>6. CASE k # 0 /\ k # 1
    <2>1. Mul(pt, k, generator) = IF generator THEN MulPrecompute(pt, m) ELSE MulLoop(pt, m)
      BY <1>2, <1>6 DEF Mul
    <2> HIDE DEF m
    <2>2. CASE ~ generator
      BY <1>3, <2>1, <2>2, MulLoopGood
    <2>3. CASE generator
      <3>1. Carries(MulTable(pt, m), ZMul(m, q)) /\ MulTable(pt, m)[2] \in Field
        BY <1>1, <1>3, <2>3, MulTableCarries
      <3>2. Mul(pt, k, generator) = FromTriple(MulTable(pt, m), pt.n)
        BY <2>1, <2>3 DEF MulPrecompute
      <3> QED BY <1>1, <1>3, <3>1, <3>2, FromTripleCarries
    <2> QED BY <2>2, <2>3
  <1> QED BY <1>4, <1>5, <1>6

----------------------------------------------------------------------------
(* Multiplication of a Point.                                              *)
(* An object with affine coordinates or INFINITY, of order n or none.       *)
Plain(pt, n) == pt.class # "jacobi" /\ pt.n \in {0, n}

LEMMA AffineClass ==
  ASSUME NEW n, NEW s \in Objects, Plain(s, n)
  PROVE  /\ Plain(ADouble[s], n)
         /\ \A o : Plain(o, n) => Plain(AAdd(s, o), n)
  <1>1. /\ INFINITY.class # "jacobi" /\ INFINITY.n = 0
        /\ \A x, y : Affine(x, y, 0).class # "jacobi" /\ Affine(x, y, 0).n = 0
    BY DEF INFINITY, Affine, Object
  <1>2. Plain(ADouble[s], n)
    BY <1>1 DEF ADouble, Plain
  <1>3. ASSUME NEW o, Plain(o, n) PROVE Plain(AAdd(s, o), n)
    BY <1>1, <1>2, <1>3 DEF AAdd, Plain
  <1> QED BY <1>2, <1>3

LEMMA NegativeSelf ==
  ASSUME NEW pt, NEW q, Good(pt, q), pt.class = "affine"
  PROVE  LET o == Affine(pt.x, (- pt.y) % P, pt.n)
         IN Good(o, RNeg(q)) /\ o.class = "affine" /\ o.n = pt.n
  <1>1. /\ q \in CurvePoints /\ pt.x = q[1] /\ Congruent(pt.y, q[2]) /\ pt.y \in Int
        /\ pt \in Objects
    BY AffineIs
  <1>2. RNeg(q) \in CurvePoints /\ RNeg(q) = <<q[1], (- q[2]) % P>>
    BY <1>1, RNegIs
  <1>3. (- pt.y) % P = (- q[2]) % P
    <2> DEFINE y == pt.y  v == q[2]
    <2>1. y \in Int /\ v \in Int /\ Congruent(y, v) /\ Congruent(0, 0) /\ 0 \in Int
      BY <1>1, CurvePointFacts, CongruentMod
    <2> HIDE DEF y, v
    <2>2. Congruent(0 - y, 0 - v)
      BY <2>1, CongruentAdd
    <2>3. 0 - y = - y /\ 0 - v = - v /\ - y \in Int /\ - v \in Int
      BY <2>1
    <2>4. Congruent(- y, - v)
      BY <2>2, <2>3
    <2>5. (- y) % P = (- v) % P
      BY <2>3, <2>4, CongruentIs
    <2> QED BY <2>5 DEF y, v
  <1>4. pt.n \in Nat
    BY <1>1, ObjectIs
  <1>5. RNeg(q) \in Group /\ RNeg(q) # O
    BY <1>2, CurvePointFacts DEF Group
  <1>6. RNeg(q) = <<pt.x, (- pt.y) % P>>
    BY <1>1, <1>2, <1>3
  <1>7. Good(Affine(pt.x, (- pt.y) % P, pt.n), RNeg(q))
    BY <1>4, <1>5, <1>6, AffineGood
  <1> QED BY <1>7 DEF Affine, Object

LEMMA AddBitGood ==
  ASSUME NoFlatTangent, NEW pt, NEW q, Good(pt, q), pt.class = "affine",
         NEW r, NEW v, Good(r, v), Plain(r, pt.n), NEW a \in {0, 1}, NEW b \in {0, 1}
  PROVE  Good(AddBit(r, a, b, pt), RAdd(v, ZMul(a - b, q))) /\ Plain(AddBit(r, a, b, pt), pt.n)
  <1>1. q \in Group /\ v \in Group /\ r \in Objects /\ Plain(pt, pt.n) /\ r.class # "jacobi"
    BY InfinityTold DEF Plain
  <1>2. CASE a = b
    <2>1. AddBit(r, a, b, pt) = r /\ a - b = 0
      BY <1>2 DEF AddBit
    <2> QED BY <1>1, <2>1, ZMulIs, RAddZero
  <1>3. CASE a = 1 /\ b = 0
    <2>1. AddBit(r, a, b, pt) = AAdd(r, pt) /\ a - b = 1
      BY <1>3 DEF AddBit
    <2> QED BY <1>1, <2>1, ZMulIs, AAddGood, AffineClass
  <1>4. CASE a = 0 /\ b = 1
    <2> DEFINE o == Affine(pt.x, (- pt.y) % P, pt.n)
    <2>1. AddBit(r, a, b, pt) = AAdd(r, o) /\ a - b = - 1
      BY <1>4 DEF AddBit
    <2>2. Good(o, RNeg(q)) /\ o.class = "affine" /\ Plain(o, pt.n)
      BY NegativeSelf DEF Plain
    <2>3. ZMul(- 1, q) = RNeg(q)
      BY <1>1, ZMulIs, 1 \in Int
    <2> HIDE DEF o
    <2>4. Good(AAdd(r, o), RAdd(v, RNeg(q)))
      BY <1>1, <2>2, AAddGood
    <2>5. Plain(AAdd(r, o), pt.n)
      BY <1>1, <2>2, AffineClass
    <2> QED BY <2>1, <2>3, <2>4, <2>5
  <1> QED BY <1>2, <1>3, <1>4

(* The objects the loop computes with.                                     *)
Steady(n) == {pt \in Objects : Plain(pt, n) /\ \E q \in Group : Good(pt, q)}

LEMMA HalfOf ==
  ASSUME NEW a \in Nat
  PROVE  /\ a \div 2 \in Nat /\ a % 2 \in {0, 1} /\ a = 2 * (a \div 2) + (a % 2)
         /\ a > 1 => a \div 2 < a /\ a \div 2 >= 1
  OBVIOUS

LEMMA AMulLoopGood ==
  ASSUME NoFlatTangent, NEW pt, NEW q, Good(pt, q), pt.class = "affine",
         NEW k \in Nat, k >= 1
  PROVE  Good(AMulLoop(pt, k), ZMul(k, q)) /\ Plain(AMulLoop(pt, k), pt.n)
  <1> Smooth
    BY SmoothIs DEF NoFlatTangent
  <1> DEFINE S == Steady(pt.n)
             D == Nat \X Nat
             Half(n) == <<n[1] \div 2, n[2] \div 2>>
             Bit(n, r) == AddBit(ADouble[r], n[1] % 2, n[2] % 2, pt)
             F(f) == [n \in D |-> IF n[1] <= 1 THEN pt ELSE Bit(n, f[Half(n)])]
             result == CHOOSE f : f = F(f)
             next == [n \in D |-> Half(n)]
             size == [n \in D |-> n[1]]
             base == [n \in D |-> pt]
             step == [p \in D \X S |-> Bit(p[1], p[2])]
             Done == {n \in D : n[1] <= 1}
  <1>0. pt \in S /\ q \in Group /\ Plain(pt, pt.n)
    BY InfinityTold DEF Steady, Plain
  <1>1. ASSUME NEW n \in D
        PROVE  /\ n[1] \in Nat /\ n[2] \in Nat /\ Half(n) \in D
               /\ Half(n)[1] = n[1] \div 2 /\ Half(n)[2] = n[2] \div 2
               /\ ~ (n[1] <= 1) => Half(n)[1] < n[1]
               /\ n[1] % 2 \in {0, 1} /\ n[2] % 2 \in {0, 1}
    <2>1. n[1] \in Nat /\ n[2] \in Nat
      OBVIOUS
    <2> DEFINE a == n[1]  b == n[2]
    <2>2. a \in Nat /\ b \in Nat
      BY <2>1
    <2> HIDE DEF a, b
    <2>3. /\ a \div 2 \in Nat /\ b \div 2 \in Nat /\ a % 2 \in {0, 1} /\ b % 2 \in {0, 1}
          /\ ~ (a <= 1) => a \div 2 < a
      BY <2>2, HalfOf
    <2> QED BY <2>1, <2>3 DEF a, b
  <1>2. ASSUME NEW n \in D, NEW r, NEW v, Good(r, v), Plain(r, pt.n)
        PROVE  /\ Good(Bit(n, r), RAdd(RAdd(v, v), ZMul((n[1] % 2) - (n[2] % 2), q)))
               /\ Plain(Bit(n, r), pt.n)
    <2> DEFINE a == n[1] % 2  b == n[2] % 2
    <2>1. a \in {0, 1} /\ b \in {0, 1}
      BY <1>1
    <2>2. r \in Objects /\ r.class # "jacobi"
      BY <1>2, InfinityTold DEF Plain
    <2>3. Good(ADouble[r], RAdd(v, v)) /\ Plain(ADouble[r], pt.n)
      BY <1>2, <2>2, ADoubleGood, AffineClass
    <2> HIDE DEF a, b
    <2>4. /\ Good(AddBit(ADouble[r], a, b, pt), RAdd(RAdd(v, v), ZMul(a - b, q)))
          /\ Plain(AddBit(ADouble[r], a, b, pt), pt.n)
      BY <2>1, <2>3, AddBitGood
    <2> QED BY <2>4 DEF a, b
  <1>3. ASSUME NEW n \in D, NEW r \in S PROVE Bit(n, r) \in S
    <2>1. PICK v \in Group : Good(r, v)
      BY DEF Steady
    <2>2. Plain(r, pt.n)
      BY DEF Steady
    <2> DEFINE o == Bit(n, r)  w == RAdd(RAdd(v, v), ZMul((n[1] % 2) - (n[2] % 2), q))
    <2>3. Good(o, w) /\ Plain(o, pt.n)
      BY <1>2, <2>1, <2>2
    <2> HIDE DEF o, w
    <2>4. o \in Objects /\ w \in Group
      BY <2>3, InfinityTold
    <2>5. o \in S
      BY <2>3, <2>4 DEF Steady
    <2> QED BY <2>5 DEF o
  <1>4. /\ next \in [D -> D] /\ size \in [D -> Nat] /\ base \in [D -> S]
        /\ step \in [D \X S -> S] /\ Decreases(D, Done, next, size)
    <2> HIDE DEF D, Half, Bit
    <2>1. next \in [D -> D] /\ size \in [D -> Nat] /\ Decreases(D, Done, next, size)
      BY <1>1 DEF Decreases
    <2>2. base \in [D -> S]
      BY <1>0
    <2>3. \A p \in D \X S : Bit(p[1], p[2]) \in S
      BY <1>3
    <2> QED BY <2>1, <2>2, <2>3
  <1>5. PICK g \in [D -> S] : Solves(g, D, Done, next, base, step)
    <2> HIDE DEF D, next, size, base, step, Done, F, result
    <2> QED BY <1>4, Recursion
  <1>6. ASSUME NEW n \in D
        PROVE  g[n] = IF n[1] <= 1 THEN pt ELSE Bit(n, g[Half(n)])
    <2> HIDE DEF D, Half, Bit
    <2>1. Half(n) \in D /\ g[Half(n)] \in S
      BY <1>1
    <2>2. <<n, g[Half(n)]>> \in D \X S /\ <<n, g[Half(n)]>>[1] = n
          /\ <<n, g[Half(n)]>>[2] = g[Half(n)]
      BY <2>1
    <2>3. step[<<n, g[Half(n)]>>] = Bit(n, g[Half(n)])
      BY <2>2
    <2>4. next[n] = Half(n) /\ base[n] = pt /\ (n \in Done <=> n[1] <= 1)
      OBVIOUS
    <2> HIDE DEF step, next, base, Done
    <2> QED BY <1>5, <2>3, <2>4 DEF Solves
  <1>7. g = F(g)
    <2> HIDE DEF D, Half, Bit
    <2> QED BY <1>6
  <1>8. result = F(result)
    <2> HIDE DEF F
    <2> QED BY <1>7
  <1> DEFINE first == <<(3 * k) \div 2, k \div 2>>
  <1>9. AMulLoop(pt, k) = result[first]
    BY DEF AMulLoop
  <1> HIDE DEF result
  <1>10. \A n \in D : result[n] = IF n[1] <= 1 THEN pt ELSE Bit(n, result[Half(n)])
    <2> HIDE DEF D, Half, Bit
    <2> QED BY <1>8
  <1> DEFINE Right(n) == Good(result[n], ZMul(n[1] - n[2], q)) /\ Plain(result[n], pt.n)
             T == {m \in Nat : \E n \in D : n[1] = m /\ m >= 1 /\ 3 * n[2] <= m /\ ~ Right(n)}
  <1> HIDE DEF F, next, size, base, step, Done
  <1>11. T = {}
    <2> SUFFICES ASSUME T # {} PROVE FALSE
      OBVIOUS
    <2>1. PICK m \in T : \A j \in T : m <= j
      <3>1. T \in SUBSET Nat
        OBVIOUS
      <3> HIDE DEF T
      <3> QED BY <3>1, NatMin
    <2>2. PICK n \in D : n[1] = m /\ m >= 1 /\ 3 * n[2] <= m /\ ~ Right(n)
      OBVIOUS
    <2> DEFINE a == n[1]  b == n[2]  e == Half(n)
    <2>3. /\ a \in Nat /\ b \in Nat /\ a >= 1 /\ 3 * b <= a /\ a = m
      BY <1>1, <2>2
    <2>4. /\ e \in D /\ e[1] = a \div 2 /\ e[2] = b \div 2
      BY <1>1
    <2>5. CASE a <= 1
      <3>1. result[n] = pt
        <4> HIDE DEF D, Half, Bit
        <4> QED BY <1>10, <2>5
      <3>2. a - b = 1
        <4> HIDE DEF a, b
        <4> QED BY <2>3, <2>5
      <3>3. ZMul(a - b, q) = q
        BY <1>0, <3>2, ZMulIs
      <3> QED BY <1>0, <2>2, <3>1, <3>3
    <2>6. CASE ~ (a <= 1)
      <3> DEFINE c == a \div 2  d == b \div 2  f == a % 2  h == b % 2
      <3>1. /\ c \in Nat /\ d \in Nat /\ f \in {0, 1} /\ h \in {0, 1} /\ c >= 1 /\ c < a
            /\ a = 2 * c + f /\ b = 2 * d + h
        <4> HIDE DEF a, b
        <4> QED BY <2>3, <2>6, HalfOf
      <3>2. result[n] = Bit(n, result[e])
        <4> HIDE DEF D, Half, Bit
        <4> QED BY <1>10, <2>6
      <3> HIDE DEF c, d, f, h
      <3>3. 3 * d <= c /\ c - d \in Int /\ f - h \in Int /\ a - b \in Int
            /\ a - b = 2 * (c - d) + (f - h)
        <4> HIDE DEF a, b
        <4> QED BY <2>3, <3>1
      <3>4. c \notin T
        <4> HIDE DEF T, a
        <4> QED BY <2>1, <2>3, <3>1
      <3>5. e[1] = c /\ e[2] = d
        BY <2>4 DEF c, d
      <3>6. Right(e)
        <4> HIDE DEF D, Half, e, Right
        <4> QED BY <2>4, <3>1, <3>3, <3>4, <3>5
      <3> DEFINE v == ZMul(c - d, q)
      <3>7. Good(result[e], v) /\ Plain(result[e], pt.n)
        BY <3>5, <3>6
      <3>8. ZMul(a - b, q) = RAdd(RAdd(v, v), ZMul(f - h, q))
        <4> DEFINE x == c - d  y == f - h  z == a - b
        <4>1. x \in Int /\ y \in Int /\ z \in Int /\ z = 2 * x + y
          BY <3>3
        <4> HIDE DEF x, y, z
        <4>2. ZMul(z, q) = RAdd(RAdd(ZMul(x, q), ZMul(x, q)), ZMul(y, q))
          BY <1>0, <4>1, NextDigit
        <4> QED BY <4>2 DEF x, y, z
      <3> HIDE DEF v
      <3>9. /\ Good(Bit(n, result[e]), RAdd(RAdd(v, v), ZMul((n[1] % 2) - (n[2] % 2), q)))
            /\ Plain(Bit(n, result[e]), pt.n)
        <4> HIDE DEF D, Half, Bit, e
        <4> QED BY <1>2, <3>7
      <3>10. n[1] % 2 = f /\ n[2] % 2 = h
        BY DEF f, h
      <3>11. Right(n)
        <4> HIDE DEF D, Half, Bit, e
        <4> QED BY <3>2, <3>8, <3>9, <3>10
      <3> QED BY <2>2, <3>11
    <2> QED BY <2>5, <2>6
  <1>12. /\ first \in D /\ first[1] >= 1 /\ 3 * first[2] <= first[1] /\ first[1] - first[2] = k
         /\ first[1] \in Nat
    <2> DEFINE a == (3 * k) \div 2  b == k \div 2
    <2>1. a \in Nat /\ b \in Nat /\ a >= 1 /\ 3 * b <= a /\ a - b = k
      OBVIOUS
    <2> HIDE DEF a, b
    <2>2. first = <<a, b>>
      BY DEF a, b
    <2> HIDE DEF first
    <2>3. first[1] = a /\ first[2] = b /\ first \in D
      BY <2>1, <2>2
    <2> QED BY <2>1, <2>3
  <1>13. Right(first)
    <2>1. first[1] \notin T
      BY <1>11
    <2> HIDE DEF Right, first, D
    <2> QED BY <1>12, <2>1
  <1> HIDE DEF first
  <1> QED BY <1>9, <1>12, <1>13

(* __mul__ of a Point, by the bits of the multiplier and of three times    *)
(* the multiplier, is the multiple in the group.                           *)
THEOREM AffineMultiplicationIsGroupLaw ==
  ASSUME NoFlatTangent, NEW pt, NEW q, Good(pt, q), pt.class # "jacobi",
         NEW k \in Nat, pt.n # 0 => Annihilates(pt.n)
  PROVE  Good(AMul(pt, k), ZMul(k, q)) /\ Plain(AMul(pt, k), pt.n)
  <1> Smooth
    BY SmoothIs DEF NoFlatTangent
  <1>1. q \in Group /\ pt.n \in Nat /\ pt.class \in {"jacobi", "affine", "infinity"}
        /\ Plain(INFINITY, pt.n) /\ Good(INFINITY, O)
    <2>1. INFINITY.class # "jacobi" /\ INFINITY.n = 0
      BY DEF INFINITY, Object
    <2>2. Plain(INFINITY, pt.n)
      BY <2>1 DEF Plain
    <2> QED BY <2>2, InfinityTold, ObjectIs, InfinityIs
  <1>2. CASE k = 0
    BY <1>1, <1>2, ZMulIs DEF AMul
  <1>3. CASE pt.n # 0 /\ k % pt.n = 0
    <2>1. ZMul(k % pt.n, q) = ZMul(k, q)
      BY <1>1, <1>3, ZReduced
    <2>2. ZMul(k, q) = O
      BY <1>1, <1>3, <2>1, ZMulIs
    <2> QED BY <1>1, <1>3, <2>2 DEF AMul
  <1>4. CASE pt = INFINITY
    <2>1. q = O
      BY <1>4, InfinityTold
    <2>2. ZMul(k, q) = O
      BY <2>1, ZMulZero
    <2> QED BY <1>1, <1>4, <2>2 DEF AMul
  <1>5. CASE k # 0 /\ ~ (pt.n # 0 /\ k % pt.n = 0) /\ pt # INFINITY
    <2>1. AMul(pt, k) = AMulLoop(pt, k)
      BY <1>5 DEF AMul
    <2>2. pt.class # "infinity"
      BY <1>5, InfinityTold
    <2>3. pt.class = "affine" /\ k >= 1
      BY <1>1, <1>5, <2>2
    <2> QED BY <2>1, <2>3, AMulLoopGood
  <1> QED BY <1>2, <1>3, <1>4, <1>5

----------------------------------------------------------------------------
(* Multiplication and addition in one loop.                                *)
LEMMA TermCarries ==
  ASSUME Smooth, NEW t1, NEW q, Carries(t1, q), NEW t2, NEW r, Carries(t2, r),
         NEW a \in {- 1, 0, 1}, NEW b \in {- 1, 0, 1}, a # 0 \/ b # 0
  PROVE  Carries(Term(a, b, t1, t2), RAdd(ZMul(a, q), ZMul(b, r)))
  <1>1. /\ q \in Group /\ r \in Group /\ RNeg(q) \in Group /\ RNeg(r) \in Group
        /\ RNeg(RNeg(q)) = q /\ RNeg(RNeg(r)) = r
        /\ Carries(NegT(t1), RNeg(q)) /\ Carries(NegT(t2), RNeg(r))
    BY CarriesIs, RNegFacts, NegCarries
  <1>2. /\ ZMul(0, q) = O /\ ZMul(0, r) = O /\ ZMul(1, q) = q /\ ZMul(1, r) = r
        /\ ZMul(- 1, q) = RNeg(q) /\ ZMul(- 1, r) = RNeg(r)
    BY <1>1, ZMulIs, 1 \in Int
  <1>3. CASE a = 0
    <2>1. CASE b = 1
      BY <1>1, <1>2, <1>3, <2>1, RAddZero DEF Term
    <2>2. CASE b = - 1
      BY <1>1, <1>2, <1>3, <2>2, RAddZero DEF Term
    <2> QED BY <1>3, <2>1, <2>2
  <1>4. CASE a # 0 /\ b = 0
    <2>1. CASE a = 1
      BY <1>1, <1>2, <1>4, <2>1, RAddZero DEF Term
    <2>2. CASE a = - 1
      BY <1>1, <1>2, <1>4, <2>2, RAddZero DEF Term
    <2> QED BY <1>4, <2>1, <2>2
  <1>5. CASE a # 0 /\ b # 0 /\ a = b
    <2> DEFINE s == AddT(NegT(t1), NegT(t2))  v == RAdd(RNeg(q), RNeg(r))
    <2>1. Carries(s, v)
      BY <1>1, AddCarries
    <2>2. CASE a = - 1
      <3>1. Term(a, b, t1, t2) = s
        BY <1>5, <2>2 DEF Term
      <3> QED BY <1>2, <1>5, <2>1, <2>2, <3>1
    <2>3. CASE a = 1
      <3>1. Term(a, b, t1, t2) = NegT(s)
        BY <1>5, <2>3 DEF Term
      <3>2. RNeg(v) = RAdd(q, r)
        BY <1>1, RNegSum
      <3> HIDE DEF s, v
      <3>3. Carries(NegT(s), RNeg(v))
        BY <2>1, NegCarries
      <3> QED BY <1>2, <1>5, <2>3, <3>1, <3>2, <3>3
    <2> QED BY <1>5, <2>2, <2>3
  <1>6. CASE a # 0 /\ b # 0 /\ a # b
    <2> DEFINE s == AddT(t1, NegT(t2))  v == RAdd(q, RNeg(r))
    <2>1. Carries(s, v)
      BY <1>1, AddCarries
    <2>2. CASE a = 1
      <3>1. Term(a, b, t1, t2) = s /\ b = - 1
        BY <1>6, <2>2 DEF Term
      <3> QED BY <1>2, <2>1, <2>2, <3>1
    <2>3. CASE a = - 1
      <3>1. Term(a, b, t1, t2) = NegT(s) /\ b = 1
        BY <1>6, <2>3 DEF Term
      <3>2. RNeg(v) = RAdd(RNeg(q), r)
        BY <1>1, RNegSum
      <3> HIDE DEF s, v
      <3>3. Carries(NegT(s), RNeg(v))
        BY <2>1, NegCarries
      <3> QED BY <1>2, <2>3, <3>1, <3>2, <3>3
    <2> QED BY <1>6, <2>2, <2>3
  <1> QED BY <1>3, <1>4, <1>5, <1>6

LEMMA AddDigitsCarries ==
  ASSUME Smooth, NEW t, NEW v, Carries(t, v), t[2] \in Field,
         NEW t1, NEW q, Carries(t1, q), NEW t2, NEW r, Carries(t2, r),
         NEW a \in {- 1, 0, 1}, NEW b \in {- 1, 0, 1}
  PROVE  /\ Carries(AddDigits(t, a, b, t1, t2), RAdd(v, RAdd(ZMul(a, q), ZMul(b, r))))
         /\ AddDigits(t, a, b, t1, t2)[2] \in Field
  <1>1. v \in Group /\ q \in Group /\ r \in Group
    BY CarriesIs
  <1>2. CASE a = 0 /\ b = 0
    <2>1. RAdd(v, RAdd(O, O)) = v
      BY <1>1, RAddZero
    <2>2. AddDigits(t, a, b, t1, t2) = t
      BY <1>2 DEF AddDigits
    <2>3. ZMul(a, q) = O /\ ZMul(b, r) = O
      BY <1>1, <1>2, ZMulIs
    <2> QED BY <2>1, <2>2, <2>3
  <1>3. CASE a # 0 \/ b # 0
    <2>1. AddDigits(t, a, b, t1, t2) = AddT(t, Term(a, b, t1, t2))
      BY <1>3 DEF AddDigits
    <2>2. Carries(Term(a, b, t1, t2), RAdd(ZMul(a, q), ZMul(b, r)))
      BY <1>3, TermCarries
    <2> QED BY <2>1, <2>2, AddCarries
  <1> QED BY <1>2, <1>3

LEMMA NextDigits ==
  ASSUME Smooth, NEW q \in Group, NEW r \in Group,
         NEW a \in Int, NEW b \in Int, NEW d \in Int, NEW e \in Int, NEW k \in Int, NEW m \in Int,
         k = 2 * a + d, m = 2 * b + e
  PROVE  LET v == RAdd(ZMul(a, q), ZMul(b, r))
         IN RAdd(ZMul(k, q), ZMul(m, r))
              = RAdd(RAdd(v, v), RAdd(ZMul(d, q), ZMul(e, r)))
  <1> DEFINE x == ZMul(a, q)  y == ZMul(b, r)  f == ZMul(d, q)  g == ZMul(e, r)
             xx == RAdd(x, x)  yy == RAdd(y, y)
  <1>1. x \in Group /\ y \in Group /\ f \in Group /\ g \in Group
    BY ZMulIs
  <1>2. ZMul(k, q) = RAdd(xx, f)
    BY NextDigit
  <1>3. ZMul(m, r) = RAdd(yy, g)
    BY NextDigit
  <1> HIDE DEF x, y, f, g
  <1>4. xx \in Group /\ yy \in Group
    BY <1>1, RAddCommutes
  <1>5. RAdd(RAdd(x, y), RAdd(x, y)) = RAdd(xx, yy)
    BY <1>1, Interchange
  <1> HIDE DEF xx, yy
  <1>6. RAdd(RAdd(xx, f), RAdd(yy, g)) = RAdd(RAdd(xx, yy), RAdd(f, g))
    BY <1>1, <1>4, Interchange
  <1> QED BY <1>2, <1>3, <1>5, <1>6 DEF x, y, f, g

LEMMA PairIs ==
  ASSUME NEW n \in Nat \X Nat
  PROVE  /\ n[1] \in Nat /\ n[2] \in Nat /\ (n = <<0, 0>> <=> n[1] = 0 /\ n[2] = 0)
  OBVIOUS

LEMMA MulAddTripleCarries ==
  ASSUME Smooth, NEW t1, NEW q, Carries(t1, q), NEW t2, NEW r, Carries(t2, r),
         NEW k \in Nat, NEW m \in Nat
  PROVE  /\ Carries(MulAddTriple(t1, k, t2, m), RAdd(ZMul(k, q), ZMul(m, r)))
         /\ MulAddTriple(t1, k, t2, m)[2] \in Field
  <1> DEFINE D == Nat \X Nat
             Rest(n) == <<Beyond(n[1]), Beyond(n[2])>>
             Added(n, t) == AddDigits(DoubleT[t], Digit(n[1]), Digit(n[2]), t1, t2)
             F(f) == [n \in D |-> IF n = <<0, 0>> THEN ZeroT ELSE Added(n, f[Rest(n)])]
             acc == CHOOSE f : f = F(f)
             next == [n \in D |-> Rest(n)]
             size == [n \in D |-> n[1] + n[2]]
             base == [n \in D |-> ZeroT]
             step == [p \in D \X Triples |-> Added(p[1], p[2])]
             Done == {<<0, 0>>}
  <1>0. /\ t1 \in Triples /\ t2 \in Triples /\ q \in Group /\ r \in Group
        /\ ZeroT \in Triples
    BY CarriesIs, ZeroCarries
  <1>1. ASSUME NEW n \in D
        PROVE  /\ n[1] \in Nat /\ n[2] \in Nat /\ Rest(n) \in D
               /\ Rest(n)[1] = Beyond(n[1]) /\ Rest(n)[2] = Beyond(n[2])
               /\ n # <<0, 0>> => Rest(n)[1] + Rest(n)[2] < n[1] + n[2]
    <2>1. n[1] \in Nat /\ n[2] \in Nat /\ (n = <<0, 0>> <=> n[1] = 0 /\ n[2] = 0)
      BY PairIs
    <2> DEFINE a == n[1]  b == n[2]  c == Beyond(a)  d == Beyond(b)
    <2>2. /\ a \in Nat /\ b \in Nat /\ c \in Nat /\ d \in Nat
          /\ (a # 0 => c < a) /\ (b # 0 => d < b) /\ (a = 0 => c = 0) /\ (b = 0 => d = 0)
      BY <2>1, DigitFacts
    <2> HIDE DEF c, d
    <2>3. n # <<0, 0>> => c + d < a + b
      <3>1. n # <<0, 0>> => a # 0 \/ b # 0
        BY <2>1
      <3> HIDE DEF a, b
      <3> QED BY <2>2, <3>1
    <2> QED BY <2>1, <2>2, <2>3 DEF c, d
  <1>2. ASSUME NEW n \in D, NEW t \in Triples PROVE Added(n, t) \in Triples
    <2>1. \A a, b : Term(a, b, t1, t2) \in Triples
      BY <1>0, TripleTypes DEF Term
    <2>2. DoubleT[t] \in Triples
      BY TripleTypes
    <2> QED BY <2>1, <2>2, TripleTypes DEF AddDigits
  <1>3. /\ next \in [D -> D] /\ size \in [D -> Nat] /\ base \in [D -> Triples]
        /\ step \in [D \X Triples -> Triples] /\ Decreases(D, Done, next, size)
    <2> HIDE DEF D, Rest, Added
    <2>1. next \in [D -> D] /\ size \in [D -> Nat] /\ Decreases(D, Done, next, size)
      BY <1>1 DEF Decreases
    <2>2. base \in [D -> Triples]
      BY <1>0
    <2>3. \A p \in D \X Triples : Added(p[1], p[2]) \in Triples
      BY <1>2
    <2> QED BY <2>1, <2>2, <2>3
  <1>4. PICK g \in [D -> Triples] : Solves(g, D, Done, next, base, step)
    <2> HIDE DEF D, next, size, base, step, Done, F, acc
    <2> QED BY <1>3, Recursion
  <1>5. ASSUME NEW n \in D
        PROVE  g[n] = IF n = <<0, 0>> THEN ZeroT ELSE Added(n, g[Rest(n)])
    <2> HIDE DEF D, Rest, Added
    <2>1. Rest(n) \in D /\ g[Rest(n)] \in Triples
      BY <1>1
    <2>2. <<n, g[Rest(n)]>> \in D \X Triples /\ <<n, g[Rest(n)]>>[1] = n
          /\ <<n, g[Rest(n)]>>[2] = g[Rest(n)]
      BY <2>1
    <2>3. step[<<n, g[Rest(n)]>>] = Added(n, g[Rest(n)])
      BY <2>2
    <2>4. next[n] = Rest(n) /\ base[n] = ZeroT /\ (n \in Done <=> n = <<0, 0>>)
      OBVIOUS
    <2> HIDE DEF step, next, base, Done
    <2> QED BY <1>4, <2>3, <2>4 DEF Solves
  <1>6. g = F(g)
    <2> HIDE DEF D, Rest, Added
    <2> QED BY <1>5
  <1>7. acc = F(acc)
    <2> HIDE DEF F
    <2> QED BY <1>6
  <1>8. MulAddTriple(t1, k, t2, m) = acc[<<k, m>>]
    BY DEF MulAddTriple
  <1> HIDE DEF acc
  <1>9. \A n \in D : acc[n] = IF n = <<0, 0>> THEN ZeroT ELSE Added(n, acc[Rest(n)])
    <2> HIDE DEF D, Rest, Added
    <2> QED BY <1>7
  <1> DEFINE Value(n) == RAdd(ZMul(n[1], q), ZMul(n[2], r))
             Right(n) == Carries(acc[n], Value(n)) /\ acc[n][2] \in Field
             T == {i \in Nat : \E n \in D : n[1] + n[2] = i /\ ~ Right(n)}
  <1> HIDE DEF F, next, size, base, step, Done
  <1>10. T = {}
    <2> SUFFICES ASSUME T # {} PROVE FALSE
      OBVIOUS
    <2>1. PICK i \in T : \A j \in T : i <= j
      <3>1. T \in SUBSET Nat
        OBVIOUS
      <3> HIDE DEF T
      <3> QED BY <3>1, NatMin
    <2>2. PICK n \in D : n[1] + n[2] = i /\ ~ Right(n)
      OBVIOUS
    <2>3. n # <<0, 0>>
      <3> SUFFICES ASSUME n = <<0, 0>> PROVE Right(n)
        BY <2>2
      <3>1. n[1] = 0 /\ n[2] = 0 /\ acc[n] = ZeroT
        <4>1. acc[n] = ZeroT
          <5> HIDE DEF D, Rest, Added
          <5> QED BY <1>9
        <4> QED BY <4>1
      <3>2. Value(n) = O
        BY <1>0, <3>1, ZMulIs, RAddZero
      <3> HIDE DEF Value
      <3> QED BY <3>1, <3>2, ZeroCarries
    <2> DEFINE e == Rest(n)  j == e[1] + e[2]
    <2>4. /\ e \in D /\ e[1] = Beyond(n[1]) /\ e[2] = Beyond(n[2]) /\ n[1] \in Nat /\ n[2] \in Nat
          /\ j < i /\ j \in Nat /\ i \in Nat
      <3>1. /\ e \in D /\ e[1] = Beyond(n[1]) /\ e[2] = Beyond(n[2])
            /\ n[1] \in Nat /\ n[2] \in Nat /\ j < i /\ e[1] \in Nat /\ e[2] \in Nat
        <4> HIDE DEF D, Rest, Added
        <4> QED BY <1>1, <2>2, <2>3
      <3> HIDE DEF e
      <3> QED BY <2>2, <3>1
    <2>5. j \notin T
      <3> HIDE DEF T, j
      <3> QED BY <2>1, <2>4
    <2>6. Right(e)
      <3> HIDE DEF D, Right, e
      <3> QED BY <2>4, <2>5
    <2>7. acc[n] = Added(n, acc[e])
      <3> HIDE DEF D, Rest, Added
      <3> QED BY <1>9, <2>3
    <2> DEFINE x == n[1]  y == n[2]  c == Digit(x)  d == Digit(y)  a == Beyond(x)  b == Beyond(y)
               v == RAdd(ZMul(a, q), ZMul(b, r))  u == DoubleT[acc[e]]
    <2>8. /\ c \in {- 1, 0, 1} /\ d \in {- 1, 0, 1} /\ a \in Int /\ b \in Int
          /\ c \in Int /\ d \in Int /\ x \in Int /\ y \in Int
          /\ x = 2 * a + c /\ y = 2 * b + d
      <3>1. x \in Nat /\ y \in Nat
        BY <2>4
      <3> HIDE DEF x, y
      <3>2. /\ c \in {- 1, 0, 1} /\ c \in Int /\ a \in Nat /\ x = 2 * a + c
        BY <3>1, DigitFacts
      <3>3. /\ d \in {- 1, 0, 1} /\ d \in Int /\ b \in Nat /\ y = 2 * b + d
        BY <3>1, DigitFacts
      <3> HIDE DEF a, b, c, d
      <3> QED BY <3>1, <3>2, <3>3
    <2>9. Carries(acc[e], v)
      BY <2>4, <2>6
    <2>10. Value(n) = RAdd(ZMul(x, q), ZMul(y, r))
      OBVIOUS
    <2>11. acc[n] = AddDigits(u, c, d, t1, t2)
      BY <2>7
    <2>12. Carries(u, RAdd(v, v)) /\ u[2] \in Field
      <3> HIDE DEF e, v
      <3> QED BY <2>9, DoubleCarries
    <2> HIDE DEF T, D, Rest, Added, Value, e, c, d, a, b, x, y, u
    <2>13. RAdd(ZMul(x, q), ZMul(y, r)) = RAdd(RAdd(v, v), RAdd(ZMul(c, q), ZMul(d, r)))
      BY <1>0, <2>8, NextDigits
    <2> HIDE DEF v
    <2> DEFINE w == AddDigits(u, c, d, t1, t2)
    <2>14. Carries(w, RAdd(RAdd(v, v), RAdd(ZMul(c, q), ZMul(d, r)))) /\ w[2] \in Field
      <3>1. \A z : Carries(u, z) =>
              Carries(w, RAdd(z, RAdd(ZMul(c, q), ZMul(d, r)))) /\ w[2] \in Field
        BY <2>8, <2>12, AddDigitsCarries, Zenon
      <3> QED BY <2>12, <3>1
    <2>15. Right(n)
      <3> HIDE DEF w
      <3>1. acc[n] = w
        BY <2>11 DEF w
      <3> QED BY <2>10, <2>13, <2>14, <3>1
    <2> QED BY <2>2, <2>15
  <1> DEFINE first == <<k, m>>
  <1>11. first \in D /\ first[1] = k /\ first[2] = m /\ k + m \in Nat
    OBVIOUS
  <1>12. Right(first)
    <2>1. first[1] + first[2] \in Nat
      BY <1>11
    <2> HIDE DEF first, Right, D
    <2> QED BY <1>10, <1>11, <2>1
  <1> HIDE DEF D
  <1> QED BY <1>8, <1>11, <1>12

LEMMA TwinOf ==
  ASSUME NEW pt
  PROVE  /\ pt \in Objects => "twin" \in DOMAIN pt
         /\ \A t, n : "twin" \in DOMAIN FromTriple(t, n)
  <1>1. ASSUME pt \in Objects PROVE "twin" \in DOMAIN pt
    BY <1>1 DEF Objects
  <1>2. ASSUME NEW t, NEW n PROVE "twin" \in DOMAIN FromTriple(t, n)
    <2>1. "twin" \in DOMAIN INFINITY /\ "twin" \in DOMAIN Jacobi(t[1], t[2], t[3], n)
      BY DEF INFINITY, Jacobi, Object
    <2> DEFINE o == IF t[3] = 0 THEN INFINITY ELSE Jacobi(t[1], t[2], t[3], n)
    <2>2. "twin" \in DOMAIN o
      BY <2>1
    <2> HIDE DEF o
    <2>3. DOMAIN [o EXCEPT !.twin = t[4]] = DOMAIN o
      OBVIOUS
    <2>4. FromTriple(t, n) = [o EXCEPT !.twin = t[4]]
      BY DEF FromTriple, Flagged, o
    <2> QED BY <2>2, <2>3, <2>4
  <1> QED BY <1>1, <1>2

LEMMA MulClass ==
  ASSUME NEW pt, NEW k, NEW generator, pt.class = "jacobi", pt \in Objects
  PROVE  /\ Mul(pt, k, generator).class \in {"jacobi", "infinity"}
         /\ "twin" \in DOMAIN Mul(pt, k, generator)
  BY InfinityIs, ClassOfTriple, TwinOf DEF Mul, MulLoop, MulPrecompute

LEMMA AddTermsGood ==
  ASSUME NEW r1, NEW q, ~ r1.twin => Good(r1, q), r1.class \in {"jacobi", "infinity"},
         NEW r2, NEW r, ~ r2.twin => Good(r2, r), ~ AddTerms(r1, r2).twin,
         "twin" \in DOMAIN r1, "twin" \in DOMAIN r2
  PROVE  Good(AddTerms(r1, r2), RAdd(q, r))
  <1> DEFINE s == IF r1.z = 0 THEN r2 ELSE Add(r1, r2)
             flag == r1.twin \/ r2.twin \/ Twin(Triple(r1), Triple(r2))
  <1>1. AddTerms(r1, r2) = [s EXCEPT !.twin = flag]
    BY DEF AddTerms, Flagged
  <1>2. "twin" \in DOMAIN s
    BY TwinOf DEF Add
  <1>3. ASSUME ~ flag, s \in Objects, s.twin = FALSE PROVE AddTerms(r1, r2) = s
    <2>1. flag = FALSE
      BY <1>3 DEF Twin
    <2>2. Flagged(s, FALSE) = s
      BY <1>3, ObjectIs
    <2> HIDE DEF s, flag
    <2> QED BY <1>1, <2>1, <2>2 DEF Flagged
  <1>4. ~ flag => Good(r1, q) /\ Good(r2, r)
    OBVIOUS
  <1>5. ASSUME ~ flag PROVE Good(s, RAdd(q, r))
    <2>1. Good(r1, q) /\ Good(r2, r) /\ q \in Group /\ r \in Group
      BY <1>4, <1>5, InfinityTold
    <2>2. CASE r1.z = 0
      <3>1. r1 = INFINITY
        BY <2>1, <2>2, InfinityTold
      <3>2. q = O
        BY <2>1, <3>1, Zenon DEF Good, StandsFor
      <3> QED BY <2>1, <2>2, <3>2, RAddZero
    <2>3. CASE r1.z # 0
      <3>1. r1 # INFINITY /\ r1.class # "infinity"
        BY <2>1, <2>3, InfinityTold
      <3>2. r1.class = "jacobi"
        BY <3>1
      <3>3. ~ Add(r1, r2).twin
        <4>1. r1.twin = FALSE /\ r2.twin = FALSE
          BY <2>1, InfinityTold
        <4>2. CASE r2.z = 0
          BY <2>3, <4>1, <4>2 DEF Add
        <4>3. CASE r2.z # 0
          <5> DEFINE t == AddT(Triple(r1), Triple(r2))
          <5>1. Add(r1, r2) = FromTriple(t, r1.n)
            BY <2>3, <4>3 DEF Add
          <5>2. /\ t[4] = (Triple(r1)[4] \/ Triple(r2)[4] \/ Twin(Triple(r1), Triple(r2)))
                /\ Triple(r1)[4] = FALSE /\ Triple(r2)[4] = FALSE
                /\ Carries(t, RAdd(q, r)) /\ t[2] \in Field
            BY <2>1, TripleCarries, AddCarries
          <5>3. ~ t[4]
            <6>1. ~ Twin(Triple(r1), Triple(r2))
              BY <1>5
            <6> HIDE DEF t
            <6> QED BY <5>2, <6>1
          <5>4. FromTriple(t, r1.n).twin = t[4]
            <6>1. r1.n \in Nat
              BY <2>1, InfinityTold, ObjectIs
            <6> HIDE DEF t
            <6> QED BY <5>2, <6>1, FromTripleCarries
          <5> QED BY <5>1, <5>3, <5>4
        <4> QED BY <4>2, <4>3
      <3>4. Good(Add(r1, r2), RAdd(q, r))
        BY <2>1, <3>2, <3>3, AddGood
      <3> QED BY <2>3, <3>4
    <2> QED BY <2>2, <2>3
  <1>6. ~ flag
    <2> HIDE DEF s, flag
    <2>1. [s EXCEPT !.twin = flag].twin = flag
      BY <1>2
    <2> QED BY <1>1, <2>1
  <1> HIDE DEF s, flag
  <1>7. Good(s, RAdd(q, r)) /\ s \in Objects /\ s.twin = FALSE
    BY <1>5, <1>6, InfinityTold
  <1> QED BY <1>3, <1>6, <1>7

LEMMA MulAddJacobiGood ==
  ASSUME NoOrderTwo, NEW s, NEW q, Good(s, q), s.class = "jacobi",
         NEW o, NEW r, Good(o, r), o.class = "jacobi", NEW k \in Nat, NEW m \in Nat,
         s.n # 0 => Annihilates(s.n), o.n # 0 => Annihilates(o.n),
         ~ MulAddJacobi(s, k, o, m).twin
  PROVE  Good(MulAddJacobi(s, k, o, m), RAdd(ZMul(k, q), ZMul(m, r)))
  <1> Smooth
    BY SmoothIs
  <1> DEFINE t1 == Triple(Scale(s))  t2 == Triple(Scale(o))
             r1 == Mul(s, k, FALSE)  r2 == Mul(o, m, FALSE)
             u == MulAddTriple(t1, k, t2, m)
  <1>1. Carries(t1, q) /\ Carries(t2, r) /\ s.n \in Nat /\ s \in Objects /\ o \in Objects
    BY ScaleGood, TripleCarries, ObjectIs, InfinityTold
  <1>2. CASE AddT(NegT(t1), NegT(t2))[3] = 0
    <2>1. MulAddJacobi(s, k, o, m) = AddTerms(r1, r2)
      BY <1>2 DEF MulAddJacobi
    <2>2. r1.class \in {"jacobi", "infinity"} /\ "twin" \in DOMAIN r1
      BY <1>1, MulClass
    <2>3. "twin" \in DOMAIN r2
      BY <1>1, MulClass
    <2>4. ~ r1.twin => Good(r1, ZMul(k, q))
      BY MultiplicationIsGroupLaw
    <2>5. ~ r2.twin => Good(r2, ZMul(m, r))
      BY MultiplicationIsGroupLaw
    <2> HIDE DEF r1, r2
    <2>6. ~ AddTerms(r1, r2).twin
      BY <2>1
    <2>7. Good(AddTerms(r1, r2), RAdd(ZMul(k, q), ZMul(m, r)))
      BY <2>2, <2>3, <2>4, <2>5, <2>6, AddTermsGood
    <2> QED BY <2>1, <2>7
  <1>3. CASE AddT(NegT(t1), NegT(t2))[3] # 0
    <2>1. MulAddJacobi(s, k, o, m) = FromTriple(u, s.n)
      BY <1>3 DEF MulAddJacobi
    <2> HIDE DEF t1, t2
    <2>2. Carries(u, RAdd(ZMul(k, q), ZMul(m, r))) /\ u[2] \in Field
      BY <1>1, MulAddTripleCarries
    <2> HIDE DEF u
    <2> QED BY <1>1, <2>1, <2>2, FromTripleCarries
  <1> QED BY <1>2, <1>3

(* mul_add of a PointJacobi and any point, by the pairs of signed digits   *)
(* or, when a sum or a multiplier is zero, one by one, is the sum of the   *)
(* two multiples in the group.                                             *)
THEOREM DoubleMultiplicationIsGroupLaw ==
  ASSUME NoOrderTwo, NEW s, NEW q, Good(s, q), s.class = "jacobi",
         NEW o, NEW r, Good(o, r), NEW k \in Nat, NEW m \in Nat,
         s.n # 0 => Annihilates(s.n), o.n # 0 => Annihilates(o.n),
         o.class = "affine" => NoFlatTangent, ~ MulAdd(s, k, o, m).twin
  PROVE  Good(MulAdd(s, k, o, m), RAdd(ZMul(k, q), ZMul(m, r)))
  <1> Smooth
    BY SmoothIs
  <1>1. /\ q \in Group /\ r \in Group /\ s \in Objects /\ o \in Objects /\ s.n \in Nat /\ o.n \in Nat
        /\ o.class \in {"jacobi", "affine", "infinity"}
    BY InfinityTold, ObjectIs
  <1>2. ZMul(k, q) \in Group /\ ZMul(m, r) \in Group
    BY <1>1, ZMulIs
  <1>3. CASE o.z = 0 \/ m = 0
    <2>1. MulAdd(s, k, o, m) = Mul(s, k, FALSE)
      BY <1>3 DEF MulAdd
    <2>2. ZMul(m, r) = O
      <3>1. CASE m = 0
        BY <1>1, <3>1, ZMulIs
      <3>2. CASE o.z = 0
        <4>1. o = INFINITY
          BY <3>2, InfinityTold
        <4>2. r = O
          BY <4>1, Zenon DEF Good, StandsFor
        <4> QED BY <4>2, ZMulZero
      <3> QED BY <1>3, <3>1, <3>2
    <2>3. Good(Mul(s, k, FALSE), ZMul(k, q))
      BY <2>1, MultiplicationIsGroupLaw
    <2> QED BY <1>2, <2>1, <2>2, <2>3, RAddZero
  <1>4. CASE ~ (o.z = 0 \/ m = 0) /\ k = 0
    <2>1. MulAdd(s, k, o, m) = IF o.class = "affine" THEN AMul(o, m) ELSE Mul(o, m, FALSE)
      BY <1>4 DEF MulAdd
    <2>2. RAdd(ZMul(k, q), ZMul(m, r)) = ZMul(m, r)
      BY <1>1, <1>2, <1>4, ZMulIs, RAddZero
    <2>3. CASE o.class = "affine"
      BY <2>1, <2>2, <2>3, AffineMultiplicationIsGroupLaw
    <2>4. CASE o.class # "affine"
      <3>1. o.class # "infinity"
        BY <1>4, InfinityTold
      <3>2. o.class = "jacobi"
        BY <1>1, <2>4, <3>1
      <3> QED BY <2>1, <2>2, <2>4, <3>2, MultiplicationIsGroupLaw
    <2> QED BY <2>3, <2>4
  <1>5. CASE ~ (o.z = 0 \/ m = 0) /\ k # 0
    <2> DEFINE a == IF s.n = 0 THEN k ELSE k % s.n
               b == IF s.n = 0 THEN m ELSE m % s.n
               p == IF o.class = "affine" THEN FromAffine(o) ELSE o
    <2>1. MulAdd(s, k, o, m) = MulAddJacobi(s, a, p, b)
      BY <1>5 DEF MulAdd
    <2>2. a \in Nat /\ b \in Nat /\ ZMul(a, q) = ZMul(k, q) /\ ZMul(b, r) = ZMul(m, r)
      <3>1. CASE s.n = 0
        BY <3>1
      <3>2. CASE s.n # 0
        <4> DEFINE n == s.n
        <4>1. n \in Nat \ {0} /\ Annihilates(n)
          BY <1>1, <3>2
        <4>2. a = k % n /\ b = m % n
          BY <3>2
        <4> HIDE DEF n, a, b
        <4>3. ZMul(k % n, q) = ZMul(k, q) /\ ZMul(m % n, r) = ZMul(m, r)
          BY <1>1, <4>1, ZReduced
        <4>4. k % n \in Nat /\ m % n \in Nat
          BY <4>1
        <4> QED BY <4>2, <4>3, <4>4
      <3> QED BY <3>1, <3>2
    <2>3. Good(p, r) /\ p.class = "jacobi" /\ p.n = o.n
      <3>1. o.class # "infinity" /\ o # INFINITY
        BY <1>5, InfinityTold
      <3>2. CASE o.class = "affine"
        <4>1. o.z = 1
          BY <3>2, AffineIs
        <4>2. FromAffine(o) = Object("jacobi", o.x, o.y, 1, o.n)
          BY DEF FromAffine, Jacobi
        <4>3. Good(FromAffine(o), r)
          BY <1>1, <3>1, <4>1, <4>2, CopyGood
        <4> QED BY <3>2, <4>2, <4>3 DEF Object
      <3>3. CASE o.class = "jacobi"
        BY <3>3
      <3> QED BY <1>1, <3>1, <3>2, <3>3
    <2> HIDE DEF a, b, p
    <2>4. Good(MulAddJacobi(s, a, p, b), RAdd(ZMul(a, q), ZMul(b, r)))
      BY <2>1, <2>2, <2>3, MulAddJacobiGood
    <2> QED BY <2>1, <2>2, <2>4
  <1> QED BY <1>3, <1>4, <1>5

----------------------------------------------------------------------------
(* The order a result carries is that of an operand, or none.              *)
LEMMA FromTripleOrder ==
  ASSUME NEW t, NEW n
  PROVE  "n" \in DOMAIN FromTriple(t, n) /\ FromTriple(t, n).n \in {0, n}
  <1> DEFINE o == IF t[3] = 0 THEN INFINITY ELSE Jacobi(t[1], t[2], t[3], n)
  <1>1. "n" \in DOMAIN o /\ o.n \in {0, n}
    BY DEF INFINITY, Jacobi, Object
  <1> HIDE DEF o
  <1>2. DOMAIN [o EXCEPT !.twin = t[4]] = DOMAIN o /\ [o EXCEPT !.twin = t[4]].n = o.n
    BY <1>1
  <1>3. FromTriple(t, n) = [o EXCEPT !.twin = t[4]]
    BY DEF FromTriple, Flagged, o
  <1> QED BY <1>1, <1>2, <1>3

LEMMA AddOrder ==
  ASSUME NEW s, NEW o
  PROVE  /\ Add(s, o).n \in {0, s.n, o.n}
         /\ "n" \in DOMAIN s /\ "n" \in DOMAIN o => "n" \in DOMAIN Add(s, o)
  BY FromTripleOrder DEF Add

LEMMA MulOrder ==
  ASSUME NEW pt, NEW k, NEW generator, "n" \in DOMAIN pt
  PROVE  "n" \in DOMAIN Mul(pt, k, generator) /\ Mul(pt, k, generator).n \in {0, pt.n}
  <1>1. "n" \in DOMAIN INFINITY /\ INFINITY.n = 0
    BY DEF INFINITY, Object
  <1> QED BY <1>1, FromTripleOrder DEF Mul, MulLoop, MulPrecompute

LEMMA AddTermsOrder ==
  ASSUME NEW r1, NEW r2, "n" \in DOMAIN r1, "n" \in DOMAIN r2
  PROVE  AddTerms(r1, r2).n \in {0, r1.n, r2.n}
  <1> DEFINE o == IF r1.z = 0 THEN r2 ELSE Add(r1, r2)
             flag == r1.twin \/ r2.twin \/ Twin(Triple(r1), Triple(r2))
  <1>1. "n" \in DOMAIN o /\ o.n \in {0, r1.n, r2.n}
    BY AddOrder
  <1>2. AddTerms(r1, r2) = [o EXCEPT !.twin = flag]
    BY DEF AddTerms, Flagged
  <1> HIDE DEF o, flag
  <1>3. [o EXCEPT !.twin = flag].n = o.n
    BY <1>1
  <1> QED BY <1>1, <1>2, <1>3

LEMMA MulAddOrder ==
  ASSUME NoOrderTwo, NEW s \in Objects, NEW o, NEW r, Good(o, r),
         NEW k \in Nat, NEW m \in Nat, o.n # 0 => Annihilates(o.n),
         o.class = "affine" => NoFlatTangent
  PROVE  MulAdd(s, k, o, m).n \in {0, s.n, o.n}
  <1> Smooth
    BY SmoothIs
  <1>1. "n" \in DOMAIN s /\ "n" \in DOMAIN o /\ o \in Objects
    <2>1. o \in Objects
      BY InfinityTold
    <2>2. \A pt \in Objects : "n" \in DOMAIN pt
      BY DEF Objects
    <2> QED BY <2>1, <2>2
  <1>2. /\ "n" \in DOMAIN FromAffine(o) /\ FromAffine(o).n = o.n
    BY DEF FromAffine, Jacobi, Object
  <1>3. CASE o.z = 0 \/ m = 0
    BY <1>1, <1>3, MulOrder DEF MulAdd
  <1>4. CASE ~ (o.z = 0 \/ m = 0) /\ k = 0
    <2>1. CASE o.class = "affine"
      <3>1. MulAdd(s, k, o, m) = AMul(o, m)
        BY <1>4, <2>1 DEF MulAdd
      <3> QED BY <2>1, <3>1, AffineMultiplicationIsGroupLaw DEF Plain
    <2>2. CASE o.class # "affine"
      BY <1>1, <1>4, <2>2, MulOrder DEF MulAdd
    <2> QED BY <2>1, <2>2
  <1>5. CASE ~ (o.z = 0 \/ m = 0) /\ k # 0
    <2> DEFINE p == IF o.class = "affine" THEN FromAffine(o) ELSE o
    <2>1. "n" \in DOMAIN p /\ p.n = o.n
      BY <1>1, <1>2
    <2>2. PICK a, b : MulAdd(s, k, o, m) = MulAddJacobi(s, a, p, b)
      BY <1>5 DEF MulAdd
    <2> HIDE DEF p
    <2> DEFINE r1 == Mul(s, a, FALSE)  r2 == Mul(p, b, FALSE)
    <2>3. /\ "n" \in DOMAIN r1 /\ r1.n \in {0, s.n}
          /\ "n" \in DOMAIN r2 /\ r2.n \in {0, p.n}
      BY <1>1, <2>1, MulOrder
    <2>4. \/ MulAddJacobi(s, a, p, b) = AddTerms(r1, r2)
          \/ \E t : MulAddJacobi(s, a, p, b) = FromTriple(t, s.n)
      BY DEF MulAddJacobi
    <2> HIDE DEF r1, r2
    <2>5. AddTerms(r1, r2).n \in {0, r1.n, r2.n}
      BY <2>3, AddTermsOrder
    <2>6. \A t : FromTriple(t, s.n).n \in {0, s.n}
      BY FromTripleOrder
    <2> QED BY <2>1, <2>2, <2>3, <2>4, <2>5, <2>6
  <1> QED BY <1>3, <1>4, <1>5

----------------------------------------------------------------------------
(* Multiples of multiples.                                                 *)
LEMMA ZMulProduct ==
  ASSUME Smooth, NEW q \in Group, NEW a \in Nat, NEW b \in Int
  PROVE  ZMul(a, ZMul(b, q)) = ZMul(a * b, q)
  <1> DEFINE v == ZMul(b, q)
             T == {m \in Nat : ZMul(m, v) # ZMul(m * b, q)}
  <1>1. v \in Group
    BY ZMulIs
  <1> HIDE DEF v
  <1>2. T = {}
    <2> SUFFICES ASSUME T # {} PROVE FALSE
      OBVIOUS
    <2>1. PICK m \in T : \A j \in T : m <= j
      <3>1. T \in SUBSET Nat
        OBVIOUS
      <3> HIDE DEF T
      <3> QED BY <3>1, NatMin
    <2>2. m \in Nat /\ ZMul(m, v) # ZMul(m * b, q)
      OBVIOUS
    <2>3. CASE m = 0
      <3>1. m * b = 0
        BY <2>3
      <3> QED BY <1>1, <2>2, <2>3, <3>1, ZMulIs
    <2>4. CASE m # 0
      <3> DEFINE j == m - 1
      <3>1. j \in Nat /\ j < m /\ m = j + 1 /\ m * b = j * b + b /\ j * b \in Int /\ m * b \in Int
        BY <2>2, <2>4
      <3>2. j \notin T
        <4> HIDE DEF T, j
        <4> QED BY <2>1, <2>2, <3>1
      <3>3. ZMul(j, v) = ZMul(j * b, q)
        BY <3>1, <3>2
      <3> HIDE DEF T, j
      <3>4. ZMul(m, v) = RAdd(ZMul(j, v), ZMul(1, v))
        BY <1>1, <3>1, ZAdd, 1 \in Int
      <3> DEFINE x == j * b  y == m * b
      <3>5. x \in Int /\ y \in Int /\ y = x + b
        BY <3>1
      <3> HIDE DEF x, y
      <3>6. ZMul(y, q) = RAdd(ZMul(x, q), ZMul(b, q))
        BY <3>5, ZAdd
      <3>7. ZMul(1, v) = v
        BY <1>1, ZMulIs
      <3> QED BY <2>2, <3>3, <3>4, <3>6, <3>7 DEF x, y, v
    <2> QED BY <2>3, <2>4
  <1>3. a \notin T
    BY <1>2
  <1> QED BY <1>3 DEF v

(* Numbers with the same remainder yield the same multiple.                *)
LEMMA SameMultiple ==
  ASSUME Smooth, NEW n \in Nat \ {0}, Annihilates(n), NEW q \in Group,
         NEW a, NEW b, SameMod(n, a, b)
  PROVE  ZMul(a, q) = ZMul(b, q)
  <1>1. a \in Int /\ b \in Int /\ a % n = b % n
    BY DEF SameMod
  <1>2. ZMul(a % n, q) = ZMul(a, q) /\ ZMul(b % n, q) = ZMul(b, q)
    BY <1>1, ZReduced
  <1> QED BY <1>1, <1>2

(* On a curve of odd order no point is its own opposite.                   *)
LEMMA OddOrder ==
  ASSUME NEW n \in Nat, n % 2 = 1, Annihilates(n)
  PROVE  NoOrderTwo
  <1> SUFFICES ASSUME NEW q \in CurvePoints, q[2] = 0 PROVE FALSE
    BY DEF NoOrderTwo
  <1>1. q \in Group /\ q # O /\ q = <<q[1], q[2]>>
    BY CurvePointFacts DEF Group
  <1>2. RNeg(q) = q
    <2>1. (- 0) % P = 0
      BY PFacts, RemainderOfSmall
    <2> QED BY <1>1, <2>1 DEF RNeg
  <1>3. RAdd(q, q) = O
    BY <1>1, <1>2 DEF RAdd
  <1> DEFINE T == {m \in Nat : RMul(m, q) # IF m % 2 = 0 THEN O ELSE q}
  <1>4. T = {}
    <2> SUFFICES ASSUME T # {} PROVE FALSE
      OBVIOUS
    <2>1. PICK m \in T : \A i \in T : m <= i
      <3>1. T \in SUBSET Nat
        OBVIOUS
      <3> HIDE DEF T
      <3> QED BY <3>1, NatMin
    <2>2. m \in Nat /\ RMul(m, q) # IF m % 2 = 0 THEN O ELSE q
      OBVIOUS
    <2>3. m # 0
      BY <1>1, <2>2, RMulIs
    <2> DEFINE j == m - 1
    <2>4. j \in Nat /\ j < m /\ m = j + 1 /\ (m % 2 = 0 <=> j % 2 # 0)
      BY <2>2, <2>3
    <2>5. j \notin T
      <3> HIDE DEF T, j
      <3> QED BY <2>1, <2>2, <2>4
    <2>6. RMul(j, q) = IF j % 2 = 0 THEN O ELSE q
      BY <2>4, <2>5
    <2> HIDE DEF T, j
    <2>7. RMul(m, q) = RAdd(q, RMul(j, q))
      BY <1>1, <2>4, RMulIs
    <2> QED BY <1>1, <1>3, <2>2, <2>4, <2>6, <2>7, RAddZero
  <1>5. RMul(n, q) = q
    <2>1. n \notin T
      BY <1>4
    <2> QED BY <2>1
  <1> QED BY <1>1, <1>5 DEF Annihilates

LEMMA ZMulDistributes ==
  ASSUME Smooth, NEW q \in Group, NEW r \in Group, NEW a \in Nat
  PROVE  ZMul(a, RAdd(q, r)) = RAdd(ZMul(a, q), ZMul(a, r))
  <1> DEFINE v == RAdd(q, r)
             T == {m \in Nat : ZMul(m, v) # RAdd(ZMul(m, q), ZMul(m, r))}
  <1>1. v \in Group
    BY RAddCommutes
  <1>2. T = {}
    <2> SUFFICES ASSUME T # {} PROVE FALSE
      OBVIOUS
    <2>1. PICK m \in T : \A j \in T : m <= j
      <3>1. T \in SUBSET Nat
        OBVIOUS
      <3> HIDE DEF T
      <3> QED BY <3>1, NatMin
    <2>2. m \in Nat /\ ZMul(m, v) # RAdd(ZMul(m, q), ZMul(m, r))
      OBVIOUS
    <2>3. CASE m = 0
      <3>1. ZMul(0, v) = O /\ ZMul(0, q) = O /\ ZMul(0, r) = O /\ RAdd(O, O) = O
        BY <1>1, ZMulIs, RAddZero
      <3> QED BY <2>2, <2>3, <3>1
    <2>4. CASE m # 0
      <3> DEFINE j == m - 1
      <3>1. j \in Nat /\ j < m /\ m = j + 1
        BY <2>2, <2>4
      <3>2. j \notin T
        <4> HIDE DEF T, j
        <4> QED BY <2>1, <2>2, <3>1
      <3>3. ZMul(j, v) = RAdd(ZMul(j, q), ZMul(j, r))
        BY <3>1, <3>2
      <3> HIDE DEF T, j
      <3>4. /\ ZMul(m, v) = RAdd(ZMul(j, v), v) /\ ZMul(m, q) = RAdd(ZMul(j, q), q)
            /\ ZMul(m, r) = RAdd(ZMul(j, r), r)
        <4>1. \A w \in Group : ZMul(m, w) = RAdd(ZMul(j, w), ZMul(1, w)) /\ ZMul(1, w) = w
          BY <3>1, ZAdd, ZMulIs, 1 \in Int
        <4> QED BY <1>1, <4>1
      <3>5. ZMul(j, q) \in Group /\ ZMul(j, r) \in Group
        BY <3>1, ZMulIs
      <3>6. RAdd(RAdd(ZMul(j, q), ZMul(j, r)), RAdd(q, r))
            = RAdd(RAdd(ZMul(j, q), q), RAdd(ZMul(j, r), r))
        BY <3>5, Interchange
      <3> QED BY <2>2, <3>3, <3>4, <3>6
    <2> QED BY <2>3, <2>4
  <1>3. a \notin T
    BY <1>2
  <1> QED BY <1>3

(* The coordinates of an object with the denominator 1.                    *)
LEMMA UnitDenominator ==
  ASSUME NEW pt, NEW q, Good(pt, q), pt.z = 1
  PROVE  q \in CurvePoints /\ pt.x = q[1] /\ Congruent(pt.y, q[2])
  <1>1. pt # INFINITY
    BY InfinityIs
  <1>2. /\ pt.x \in Field /\ pt.x \in Int /\ pt.y \in Int /\ q \in CurvePoints
        /\ At(pt.x, pt.y, pt.z, q[1], q[2])
    BY <1>1, FiniteIs
  <1>3. q[1] \in Field /\ q[1] \in Int /\ q[2] \in Int
    BY <1>2, CurvePointFacts
  <1>4. Congruent(pt.x, q[1]) /\ Congruent(pt.y, q[2])
    BY <1>2, <1>3, AtOne
  <1> QED BY <1>2, <1>3, <1>4, CongruentField

(* What is finite carries the order of the operand.                        *)
LEMMA FiniteOrder ==
  ASSUME NEW t, NEW n, ~ FromTriple(t, n).twin, FromTriple(t, n).z # 0
  PROVE  FromTriple(t, n).n = n /\ FromTriple(t, n).class = "jacobi"
  BY DEF FromTriple, Flagged, INFINITY, Jacobi, Object

LEMMA FiniteMul ==
  ASSUME NEW pt \in Objects, pt.class = "jacobi", NEW k, NEW generator,
         ~ Mul(pt, k, generator).twin, Mul(pt, k, generator).z # 0
  PROVE  Mul(pt, k, generator).n = pt.n /\ Mul(pt, k, generator).class = "jacobi"
  <1>1. INFINITY.z = 0
    BY InfinityIs
  <1>2. \A m : /\ ~ MulLoop(pt, m).twin /\ MulLoop(pt, m).z # 0
                    => MulLoop(pt, m).n = pt.n /\ MulLoop(pt, m).class = "jacobi"
               /\ ~ MulPrecompute(pt, m).twin /\ MulPrecompute(pt, m).z # 0
                    => MulPrecompute(pt, m).n = pt.n /\ MulPrecompute(pt, m).class = "jacobi"
    BY FiniteOrder DEF MulLoop, MulPrecompute
  <1> QED BY <1>1, <1>2 DEF Mul

LEMMA FiniteAdd ==
  ASSUME NEW s, NEW o, s.z # 0, s.class = "jacobi", ~ Add(s, o).twin, Add(s, o).z # 0
  PROVE  Add(s, o).n = s.n /\ Add(s, o).class = "jacobi"
  BY FiniteOrder DEF Add
=============================================================================
