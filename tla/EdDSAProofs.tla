---------------------------- MODULE EdDSAProofs ----------------------------
(***************************************************************************)
(* Proofs about PointEdwards and EdDSA: on every twisted Edwards curve whose *)
(* A is a square and whose D is none, the formulas, the ladder, the table  *)
(* and the encodings compute in the group of the generator, verification is *)
(* the equation of EdDSA, and what is signed is accepted.                  *)
(***************************************************************************)
EXTENDS EdDSA, ProofBasics

LEMMA PFacts ==
  /\ P \in Nat \ {0} /\ P \in Int /\ P > 2 /\ P % 2 = 1 /\ NoDivisor(P)
  /\ A \in Int /\ D \in Int
  <1>1. /\ P \in Nat /\ P > 2 /\ \A d \in 2 .. P - 1 : P % d # 0
        /\ A \in Int /\ D \in Int
    BY EdwardsAssumption
  <1>2. 2 \in 2 .. P - 1
    BY <1>1
  <1>3. P % 2 # 0
    BY <1>1, <1>2
  <1>4. P % 2 = 1
    BY <1>1, <1>3
  <1> QED BY <1>1, <1>4 DEF NoDivisor

(* The multiples of the prime.                                             *)
Zero(a) == a \in Int /\ a % P = 0

LEMMA ZeroIs == ASSUME NEW a PROVE Zero(a) <=> \E k \in Int : a = k * P
  <1>1. ASSUME Zero(a) PROVE \E k \in Int : a = k * P
    <2>1. a \in Int /\ a % P = 0 /\ P \in Nat \ {0} /\ P \in Int
      BY <1>1, PFacts DEF Zero
    <2> DEFINE k == a \div P
    <2>2. k \in Int /\ a = P * k + (a % P)
      BY <2>1, DivMod
    <2> HIDE DEF k
    <2>3. a = k * P
      BY <2>1, <2>2
    <2> QED BY <2>2, <2>3
  <1>2. ASSUME NEW k \in Int, a = k * P PROVE Zero(a)
    <2>1. P \in Nat \ {0} /\ P \in Int /\ a \in Int
      BY <1>2, PFacts
    <2> QED BY <1>2, <2>1, MultipleOf DEF Zero
  <1> QED BY <1>1, <1>2

LEMMA ZeroType == ASSUME NEW a, Zero(a) PROVE a \in Int
  BY DEF Zero

LEMMA ZeroNone == Zero(0) /\ ~ Zero(1) /\ ~ Zero(2)
  <1>1. P \in Nat \ {0} /\ P > 2
    BY PFacts
  <1>2. 0 % P = 0 /\ 1 % P = 1 /\ 2 % P = 2
    BY <1>1, RemainderOfSmall
  <1> QED BY <1>2 DEF Zero

LEMMA ZeroSum == ASSUME NEW a, NEW b, Zero(a), Zero(b) PROVE Zero(a + b) /\ Zero(a - b)
  <1>1. PICK k \in Int : a = k * P
    BY ZeroIs
  <1>2. PICK l \in Int : b = l * P
    BY ZeroIs
  <1>3. a + b = (k + l) * P /\ a - b = (k - l) * P
    BY <1>1, <1>2, PFacts
  <1>4. k + l \in Int /\ k - l \in Int
    OBVIOUS
  <1> QED BY <1>3, <1>4, ZeroIs

LEMMA ZeroTimes == ASSUME NEW a, Zero(a), NEW c \in Int PROVE Zero(c * a) /\ Zero(a * c)
  <1>1. PICK k \in Int : a = k * P
    BY ZeroIs
  <1>2. c * a = (c * k) * P /\ a * c = (c * k) * P /\ c * k \in Int
    BY <1>1, PFacts
  <1> QED BY <1>2, ZeroIs

(* A linear combination of multiples of the prime.                         *)
LEMMA Combined ==
  ASSUME NEW a, NEW b, Zero(a), Zero(b), NEW c \in Int, NEW d \in Int, NEW e,
         e = c * a + d * b
  PROVE  Zero(e)
  BY ZeroTimes, ZeroSum

LEMMA Combined3 ==
  ASSUME NEW a, NEW b, NEW f, Zero(a), Zero(b), Zero(f),
         NEW c \in Int, NEW d \in Int, NEW g \in Int, NEW e, e = c * a + d * b + g * f
  PROVE  Zero(e)
  BY ZeroTimes, ZeroSum

LEMMA ZeroProduct ==
  ASSUME NEW a \in Int, NEW b \in Int, Zero(a * b)
  PROVE  Zero(a) \/ Zero(b)
  <1>1. (a * b) % P = 0
    BY DEF Zero
  <1> QED BY <1>1, PFacts, PrimeDivides DEF Zero

LEMMA NonZeroProduct ==
  ASSUME NEW a \in Int, NEW b \in Int, ~ Zero(a), ~ Zero(b)
  PROVE  ~ Zero(a * b)
  BY ZeroProduct

LEMMA ZeroMod == ASSUME NEW a \in Int PROVE Zero((a % P) - a) /\ a % P \in Field /\ a % P \in Int
  <1> DEFINE w == a \div P  r == a % P
  <1>1. P \in Nat \ {0} /\ P \in Int
    BY PFacts
  <1>2. r \in Int /\ 0 <= r /\ r < P /\ w \in Int /\ a = P * w + r
    BY <1>1, DivMod
  <1> HIDE DEF w, r
  <1>3. r - a = (- w) * P /\ - w \in Int
    BY <1>1, <1>2
  <1>4. Zero(r - a)
    BY <1>3, ZeroIs, Zenon
  <1>5. r \in Field
    BY <1>1, <1>2 DEF Field
  <1> QED BY <1>2, <1>4, <1>5 DEF r

LEMMA FieldIs == ASSUME NEW a \in Field PROVE a \in Int /\ a \in Nat /\ a < P /\ a % P = a
  <1>1. a \in Int /\ a \in Nat /\ a < P
    BY PFacts DEF Field
  <1> QED BY <1>1, PFacts, RemainderOfSmall

LEMMA FieldZero == ASSUME NEW a \in Field PROVE Zero(a) <=> a = 0
  BY FieldIs DEF Zero

(* Numbers that are the same modulo the prime.                             *)
Congruent(a, b) == a \in Int /\ b \in Int /\ Zero(a - b)

LEMMA SameIs ==
  ASSUME NEW a \in Int, NEW b \in Int
  PROVE  Congruent(a, b) <=> a % P = b % P
  <1>1. a - b \in Int /\ P \in Nat \ {0}
    BY PFacts
  <1>2. (a - b) % P = 0 <=> a % P = b % P
    BY <1>1, DifferenceZero, Zenon
  <1> QED BY <1>1, <1>2 DEF Congruent, Zero

LEMMA SameSelf == ASSUME NEW a \in Int PROVE Congruent(a, a) /\ Congruent(a % P, a) /\ Congruent(a, a % P)
  <1>1. a - a = 0 /\ a % P \in Int
    BY ZeroMod
  <1>2. Congruent(a, a)
    BY <1>1, ZeroNone DEF Congruent
  <1>3. Congruent(a % P, a)
    BY <1>1, ZeroMod DEF Congruent
  <1> QED BY <1>1, <1>2, <1>3, SameIs

LEMMA SameSum ==
  ASSUME NEW a, NEW b, Congruent(a, b), NEW c, NEW d, Congruent(c, d)
  PROVE  Congruent(a + c, b + d)
  <1>1. a \in Int /\ b \in Int /\ c \in Int /\ d \in Int /\ Zero(a - b) /\ Zero(c - d)
    BY DEF Congruent
  <1>2. Zero((a - b) + (c - d))
    BY <1>1, ZeroSum
  <1>3. (a - b) + (c - d) = (a + c) - (b + d)
    BY <1>1
  <1> QED BY <1>1, <1>2, <1>3 DEF Congruent

LEMMA SameDifference ==
  ASSUME NEW a, NEW b, Congruent(a, b), NEW c, NEW d, Congruent(c, d)
  PROVE  Congruent(a - c, b - d)
  <1>1. a \in Int /\ b \in Int /\ c \in Int /\ d \in Int /\ Zero(a - b) /\ Zero(c - d)
    BY DEF Congruent
  <1>2. Zero((a - b) - (c - d))
    BY <1>1, ZeroSum
  <1>3. (a - b) - (c - d) = (a - c) - (b - d)
    BY <1>1
  <1> QED BY <1>1, <1>2, <1>3 DEF Congruent

LEMMA SameProduct ==
  ASSUME NEW a, NEW b, Congruent(a, b), NEW c, NEW d, Congruent(c, d)
  PROVE  Congruent(a * c, b * d)
  <1>1. a \in Int /\ b \in Int /\ c \in Int /\ d \in Int /\ Zero(a - b) /\ Zero(c - d)
    BY DEF Congruent
  <1>2. a * c - b * d = c * (a - b) + b * (c - d)
    BY <1>1
  <1>3. Zero(a * c - b * d)
    BY <1>1, <1>2, Combined
  <1> QED BY <1>1, <1>3 DEF Congruent

LEMMA SameChain ==
  ASSUME NEW a, NEW b, NEW c, Congruent(a, b), Congruent(b, c)
  PROVE  Congruent(a, c) /\ Congruent(b, a)
  BY SameIs DEF Congruent

LEMMA SameZero == ASSUME NEW a, NEW b, Congruent(a, b) PROVE Zero(a) <=> Zero(b)
  BY SameIs DEF Congruent, Zero

LEMMA SameField == ASSUME NEW a \in Field, NEW b \in Field, Congruent(a, b) PROVE a = b
  BY FieldIs, SameIs

LEMMA InverseIs ==
  ASSUME NEW a \in Int, ~ Zero(a)
  PROVE  \E i \in Field : (i * a) % P = 1
  BY PFacts, InverseExists DEF Field, Zero

LEMMA TimesInverse ==
  ASSUME NEW a \in Int, NEW i \in Int, (i * a) % P = 1
  PROVE  Zero(i * a - 1) /\ ~ Zero(i)
  <1>1. 1 % P = 1 /\ i * a \in Int /\ P \in Nat \ {0}
    BY PFacts, RemainderOfSmall
  <1>2. (i * a - 1) % P = 0
    <2> DEFINE m == i * a
    <2>1. m \in Int /\ m % P = 1 % P /\ 1 \in Int /\ P \in Nat \ {0}
      BY <1>1
    <2> HIDE DEF m
    <2>2. (m - 1) % P = 0
      BY <2>1, DifferenceZero, Zenon
    <2> QED BY <2>2 DEF m
  <1>3. Zero(i * a - 1)
    BY <1>1, <1>2 DEF Zero
  <1>4. ~ Zero(i)
    <2> SUFFICES ASSUME Zero(i) PROVE FALSE
      OBVIOUS
    <2>1. Zero(i * a)
      BY ZeroTimes
    <2> QED BY <2>1 DEF Zero
  <1> QED BY <1>3, <1>4

----------------------------------------------------------------------------
(* D is no square, and the quotient of no squares.                         *)
LEMMA NoRoot ==
  ASSUME NEW a \in Int, NEW b \in Int, Zero(a * a - D * b * b)
  PROVE  Zero(b)
  <1> SUFFICES ASSUME ~ Zero(b) PROVE FALSE
    OBVIOUS
  <1>1. PICK i \in Field : (i * b) % P = 1
    BY InverseIs
  <1>2. i \in Int /\ D \in Int
    BY <1>1, FieldIs, PFacts
  <1>3. Zero(i * b - 1)
    BY <1>1, <1>2, TimesInverse
  <1> DEFINE d == (i * a) % P
  <1>4. d \in Field /\ Congruent(d, i * a) /\ i * a \in Int
    BY <1>2, ZeroMod, SameSelf
  <1>5. Congruent(d * d, (i * a) * (i * a)) /\ d \in Int
    BY <1>4, SameProduct, FieldIs
  <1> HIDE DEF d
  <1>6. (i * a) * (i * a) - D = (i * i) * (a * a - D * b * b) + (D * (i * b + 1)) * (i * b - 1)
    BY <1>2
  <1>7. i * i \in Int /\ D * (i * b + 1) \in Int
    BY <1>2
  <1>8. Zero((i * a) * (i * a) - D)
    BY <1>3, <1>6, <1>7, Combined
  <1>9. Zero(d * d - D)
    <2>1. Congruent((i * a) * (i * a), D)
      BY <1>2, <1>4, <1>8 DEF Congruent
    <2>2. Congruent(d * d, D)
      BY <1>5, <2>1, SameChain
    <2> QED BY <2>2 DEF Congruent
  <1> QED BY <1>4, <1>9, SquaresAssumption DEF Zero

(* How far a point is off the curve.                                       *)
Off(x, y) == A * x * x + y * y - 1 - D * x * x * y * y

LEMMA OffIs == ASSUME NEW x \in Int, NEW y \in Int PROVE Off(x, y) \in Int
  BY PFacts DEF Off

LEMMA RootOfD ==
  ASSUME NEW x1 \in Int, NEW y1 \in Int, NEW x2 \in Int, NEW y2 \in Int, NEW al \in Int,
         Zero(al * al - A), Zero(Off(x1, y1)), Zero(Off(x2, y2)),
         NEW w, w = D * x1 * x2 * y1 * y2, Zero(1 - w * w)
  PROVE  Zero((x1 * y1) * (al * x2 + y2))
  <1>0. A \in Int /\ D \in Int
    BY PFacts
  <1>1. w \in Int
    BY <1>0
  <1> DEFINE L == al * x1 + w * y1  R == (x1 * y1) * (al * x2 + y2)
             a1 == al * al - A  a2 == Off(x1, y1)  a3 == Off(x2, y2)
             c1 == x1 * x1 - D * x1 * x1 * y1 * y1 * x2 * x2
             c3 == - D * x1 * x1 * y1 * y1
             c4 == 1 - y1 * y1
  <1>2. L \in Int /\ R \in Int /\ c1 \in Int /\ c3 \in Int /\ c4 \in Int
    BY <1>0, <1>1
  <1>3. L * L - D * R * R
          = al * al * x1 * x1 + w * w * y1 * y1 - D * x1 * x1 * y1 * y1 * (al * al * x2 * x2 + y2 * y2)
    <2>1. L * L = al * al * x1 * x1 + 2 * al * x1 * y1 * w + w * w * y1 * y1
      BY <1>0, <1>1
    <2>2. D * R * R = D * x1 * x1 * y1 * y1 * (al * al * x2 * x2 + y2 * y2)
                        + 2 * al * x1 * y1 * (D * x1 * x2 * y1 * y2)
      BY <1>0, <1>1
    <2> QED BY <1>0, <1>1, <2>1, <2>2
  <1>4. c1 * a1 + 1 * a2 + c3 * a3
          = al * al * x1 * x1 + y1 * y1 - 1 - D * x1 * x1 * y1 * y1 * (al * al * x2 * x2 + y2 * y2)
              + (D * x1 * x2 * y1 * y2) * (D * x1 * x2 * y1 * y2)
    BY <1>0, <1>1 DEF Off
  <1>5. Zero(c1 * a1 + 1 * a2 + c3 * a3)
    <2> HIDE DEF c1, c3, a1, a2, a3
    <2> QED BY <1>2, Combined3, 1 \in Int DEF a1, a2, a3
  <1>6. Zero(c4 * (1 - w * w))
    BY <1>2, ZeroTimes
  <1>7. L * L - D * R * R = (c1 * a1 + 1 * a2 + c3 * a3) + c4 * (1 - w * w)
    <2> HIDE DEF c1, c3, a1, a2, a3, L, R
    <2>1. (D * x1 * x2 * y1 * y2) * (D * x1 * x2 * y1 * y2) = w * w
      OBVIOUS
    <2>2. c4 * (1 - w * w) = 1 - y1 * y1 - w * w + w * w * y1 * y1
      BY <1>1
    <2> QED BY <1>0, <1>1, <1>3, <1>4, <2>1, <2>2
  <1>8. Zero(L * L - D * R * R)
    <2> HIDE DEF c1, c3, c4, a1, a2, a3, L, R
    <2> QED BY <1>5, <1>6, <1>7, ZeroSum
  <1> HIDE DEF L
  <1>9. Zero(R)
    <2> HIDE DEF R
    <2> QED BY <1>2, <1>8, NoRoot
  <1> QED BY <1>9

(* Addition is complete: the denominators of the group law are never 0.    *)
LEMMA Complete ==
  ASSUME NEW x1 \in Int, NEW y1 \in Int, NEW x2 \in Int, NEW y2 \in Int,
         Zero(Off(x1, y1)), Zero(Off(x2, y2)), NEW w, w = D * x1 * x2 * y1 * y2
  PROVE  w \in Int /\ ~ Zero(1 + w) /\ ~ Zero(1 - w)
  <1>1. w \in Int
    BY PFacts
  <1>2. ~ Zero(1 - w * w)
    <2> SUFFICES ASSUME Zero(1 - w * w) PROVE FALSE
      OBVIOUS
    <2>1. PICK al \in Field : (al * al - A) % P = 0
      BY SquaresAssumption
    <2>2. al \in Int /\ al * al - A \in Int
      BY <2>1, FieldIs, PFacts
    <2>3. Zero(al * al - A)
      BY <2>1, <2>2 DEF Zero
    <2>4. ~ Zero(w)
      <3> SUFFICES ASSUME Zero(w) PROVE FALSE
        OBVIOUS
      <3>1. Zero(w * w)
        BY <1>1, ZeroTimes
      <3>2. (1 - w * w) + w * w = 1
        BY <1>1
      <3> QED BY <3>1, <3>2, ZeroSum, ZeroNone
    <2>5. ~ Zero(x1) /\ ~ Zero(y1) /\ ~ Zero(x2)
      <3>1. /\ w = (D * x2 * y1 * y2) * x1 /\ w = (D * x1 * x2 * y2) * y1
            /\ w = (D * x1 * y1 * y2) * x2
        BY PFacts
      <3>2. /\ D * x2 * y1 * y2 \in Int /\ D * x1 * x2 * y2 \in Int /\ D * x1 * y1 * y2 \in Int
        BY PFacts
      <3> QED BY <2>4, <3>1, <3>2, ZeroTimes
    <2>6. ~ Zero(x1 * y1) /\ x1 * y1 \in Int
      BY <2>5, NonZeroProduct
    <2>7. Zero(al * x2 + y2)
      <3>1. Zero((x1 * y1) * (al * x2 + y2))
        BY <2>2, <2>3, RootOfD
      <3>2. al * x2 + y2 \in Int
        BY <2>2
      <3> QED BY <2>6, <3>1, <3>2, ZeroProduct
    <2>8. Zero(al * x2 - y2)
      <3> DEFINE y == - y2  v == D * x1 * x2 * y1 * y
      <3>1. y \in Int /\ Off(x2, y) = Off(x2, y2) /\ v = - w /\ v * v = w * w
        BY <1>1, PFacts DEF Off
      <3> HIDE DEF y
      <3>2. Zero(Off(x2, y)) /\ Zero(1 - v * v)
        BY <3>1
      <3> HIDE DEF v
      <3>3. v = D * x1 * x2 * y1 * y
        BY DEF v
      <3>4. Zero((x1 * y1) * (al * x2 + y))
        BY <2>2, <2>3, <3>1, <3>2, <3>3, RootOfD
      <3>5. al * x2 + y \in Int
        BY <2>2, <3>1
      <3>6. Zero(al * x2 + y)
        BY <2>6, <3>4, <3>5, ZeroProduct
      <3>7. al * x2 + y = al * x2 - y2
        BY <2>2 DEF y
      <3> QED BY <3>6, <3>7
    <2>9. Zero(2 * (al * x2))
      <3>1. (al * x2 + y2) + (al * x2 - y2) = 2 * (al * x2)
        BY <2>2
      <3> QED BY <2>7, <2>8, <3>1, ZeroSum
    <2>10. Zero(al)
      <3>1. al * x2 \in Int
        BY <2>2
      <3>2. Zero(al * x2)
        BY <2>9, <3>1, ZeroProduct, ZeroNone
      <3> QED BY <2>2, <2>5, <3>2, ZeroProduct
    <2>11. Zero(A)
      <3>1. al * al - (al * al - A) = A
        BY <2>2, PFacts
      <3>2. Zero(al * al)
        BY <2>2, <2>10, ZeroTimes
      <3> QED BY <2>3, <3>1, <3>2, ZeroSum
    <2> QED BY <2>11, SquaresAssumption DEF Zero
  <1>3. 1 - w * w = (1 - w) * (1 + w) /\ 1 + w \in Int /\ 1 - w \in Int
    BY <1>1
  <1> QED BY <1>1, <1>2, <1>3, ZeroTimes

(* The dual of the group law, which the code computes: without the         *)
(* coefficient D, but only for different points.                           *)
LEMMA Dual ==
  ASSUME NEW x1 \in Int, NEW y1 \in Int, NEW x2 \in Int, NEW y2 \in Int,
         Zero(Off(x1, y1)), Zero(Off(x2, y2)), NEW w, w = D * x1 * x2 * y1 * y2,
         NEW x3 \in Int, NEW y3 \in Int,
         Zero(x3 * (1 + w) - (x1 * y2 + y1 * x2)),
         Zero(y3 * (1 - w) - (y1 * y2 - A * x1 * x2))
  PROVE  /\ Zero((x1 * y1 + x2 * y2) - x3 * (y1 * y2 + A * x1 * x2))
         /\ Zero((x1 * y1 - x2 * y2) - y3 * (x1 * y2 - y1 * x2))
  <1> DEFINE o1 == Off(x1, y1)  o2 == Off(x2, y2)
             N1 == x1 * y2 + y1 * x2  N2 == y1 * y2 - A * x1 * x2
             e == x1 * y1 + x2 * y2  g == y1 * y2 + A * x1 * x2
             h == x1 * y1 - x2 * y2  f == x1 * y2 - y1 * x2
             z1 == x3 * (1 + w) - N1  z2 == y3 * (1 - w) - N2
             s1 == x1 * y1  s2 == x2 * y2
  <1>0. A \in Int /\ D \in Int /\ w \in Int /\ ~ Zero(1 + w) /\ ~ Zero(1 - w)
    BY PFacts, Complete
  <1>1. (1 + w) * e - N1 * g = (- s2) * o1 + (- s1) * o2
    BY <1>0 DEF Off
  <1>2. (1 - w) * h - N2 * f = s2 * o1 + (- s1) * o2
    BY <1>0 DEF Off
  <1>3. /\ N1 \in Int /\ N2 \in Int /\ e \in Int /\ g \in Int /\ h \in Int /\ f \in Int
        /\ s1 \in Int /\ s2 \in Int /\ Zero(o1) /\ Zero(o2) /\ Zero(z1) /\ Zero(z2)
        /\ o1 \in Int /\ o2 \in Int /\ 1 + w \in Int /\ 1 - w \in Int
        /\ z1 = x3 * (1 + w) - N1 /\ z2 = y3 * (1 - w) - N2
        /\ - s1 \in Int /\ - s2 \in Int /\ - g \in Int /\ - f \in Int
    BY <1>0, OffIs
  <1> HIDE DEF o1, o2, N1, N2, e, g, h, f, z1, z2, s1, s2
  <1>4. /\ (1 + w) * (e - x3 * g) = (- s2) * o1 + (- s1) * o2 + (- g) * z1
        /\ (1 - w) * (h - y3 * f) = s2 * o1 + (- s1) * o2 + (- f) * z2
    <2>1. (1 + w) * (e - x3 * g) = ((1 + w) * e - N1 * g) + (- g) * (x3 * (1 + w) - N1)
      BY <1>0, <1>3
    <2>2. (1 - w) * (h - y3 * f) = ((1 - w) * h - N2 * f) + (- f) * (y3 * (1 - w) - N2)
      BY <1>0, <1>3
    <2> QED BY <1>1, <1>2, <1>3, <2>1, <2>2
  <1>5. Zero((1 + w) * (e - x3 * g))
    <2>1. Zero((- s2) * o1) /\ Zero((- s1) * o2) /\ Zero((- g) * z1)
      BY <1>3, ZeroTimes
    <2>2. Zero((- s2) * o1 + (- s1) * o2)
      BY <2>1, ZeroSum
    <2>3. Zero(((- s2) * o1 + (- s1) * o2) + (- g) * z1)
      BY <2>1, <2>2, ZeroSum
    <2> QED BY <1>4, <2>3
  <1>6. Zero((1 - w) * (h - y3 * f))
    <2>1. Zero(s2 * o1) /\ Zero((- s1) * o2) /\ Zero((- f) * z2)
      BY <1>3, ZeroTimes
    <2>2. Zero(s2 * o1 + (- s1) * o2)
      BY <2>1, ZeroSum
    <2>3. Zero((s2 * o1 + (- s1) * o2) + (- f) * z2)
      BY <2>1, <2>2, ZeroSum
    <2> QED BY <1>4, <2>3
  <1>7. e - x3 * g \in Int /\ h - y3 * f \in Int
    BY <1>3
  <1>8. Zero(e - x3 * g) /\ Zero(h - y3 * f)
    BY <1>0, <1>3, <1>5, <1>6, <1>7, ZeroProduct
  <1> QED BY <1>8 DEF e, g, h, f

----------------------------------------------------------------------------
(* The group law.                                                          *)
LEMMA CurvePointIs ==
  ASSUME NEW u \in CurvePoints
  PROVE  /\ u = <<u[1], u[2]>> /\ u[1] \in Field /\ u[2] \in Field
         /\ u[1] \in Int /\ u[2] \in Int /\ Zero(Off(u[1], u[2]))
  <1>1. u \in Field \X Field /\ ContainsPoint(u[1], u[2])
    BY DEF CurvePoints
  <1>2. u = <<u[1], u[2]>> /\ u[1] \in Field /\ u[2] \in Field
    BY <1>1
  <1>3. u[1] \in Int /\ u[2] \in Int
    BY <1>2, FieldIs
  <1> QED BY <1>1, <1>2, <1>3, OffIs DEF ContainsPoint, Off, Zero

LEMMA CurvePointOf ==
  ASSUME NEW x \in Field, NEW y \in Field, Zero(Off(x, y))
  PROVE  <<x, y>> \in CurvePoints
  <1>1. ContainsPoint(x, y)
    BY DEF ContainsPoint, Off, Zero
  <1>2. <<x, y>> \in Field \X Field /\ <<x, y>>[1] = x /\ <<x, y>>[2] = y
    OBVIOUS
  <1> QED BY <1>1, <1>2 DEF CurvePoints

LEMMA RInverseIs ==
  ASSUME NEW a \in Int, ~ Zero(a), NEW b, Congruent(b, a)
  PROVE  RInverse(b) \in Int /\ Zero(RInverse(b) * a - 1)
  <1>1. b \in Int /\ ~ Zero(b)
    BY SameZero DEF Congruent
  <1>2. \E i \in Field : (i * b) % P = 1
    BY <1>1, InverseIs
  <1> DEFINE i == RInverse(b)
  <1>3. i \in Field /\ (i * b) % P = 1
    BY <1>2 DEF RInverse
  <1> HIDE DEF i
  <1>4. i \in Int /\ Zero(i * b - 1)
    BY <1>1, <1>3, FieldIs, TimesInverse
  <1>5. i * a - 1 = (i * b - 1) - i * (b - a)
    BY <1>1, <1>4
  <1>6. Zero(i * (b - a))
    BY <1>4, ZeroTimes DEF Congruent
  <1>7. Zero(i * a - 1)
    BY <1>4, <1>5, <1>6, ZeroSum
  <1> QED BY <1>4, <1>7 DEF i

(* A quotient.                                                             *)
LEMMA QuotientIs ==
  ASSUME NEW n \in Int, NEW a \in Int, NEW i \in Int, Zero(i * a - 1), NEW s, s = (n * i) % P
  PROVE  s \in Field /\ s \in Int /\ Zero(s * a - n)
  <1>1. n * i \in Int
    OBVIOUS
  <1>2. s \in Field /\ s \in Int /\ Zero(s - n * i)
    BY <1>1, ZeroMod
  <1>3. s * a - n = a * (s - n * i) + n * (i * a - 1)
    BY <1>2
  <1> QED BY <1>2, <1>3, Combined

LEMMA RAddIs ==
  ASSUME NEW u \in CurvePoints, NEW v \in CurvePoints, NEW w, w = D * u[1] * v[1] * u[2] * v[2]
  PROVE  /\ w \in Int /\ ~ Zero(1 + w) /\ ~ Zero(1 - w)
         /\ RAdd(u, v) = <<RAdd(u, v)[1], RAdd(u, v)[2]>>
         /\ RAdd(u, v)[1] \in Field /\ RAdd(u, v)[2] \in Field
         /\ RAdd(u, v)[1] \in Int /\ RAdd(u, v)[2] \in Int
         /\ Zero(RAdd(u, v)[1] * (1 + w) - (u[1] * v[2] + u[2] * v[1]))
         /\ Zero(RAdd(u, v)[2] * (1 - w) - (u[2] * v[2] - A * u[1] * v[1]))
  <1> DEFINE x1 == u[1]  y1 == u[2]  x2 == v[1]  y2 == v[2]
             n1 == x1 * y2 + y1 * x2  n2 == y1 * y2 - A * x1 * x2
             wr == w % P  i1 == RInverse((1 + wr) % P)  i2 == RInverse((1 - wr) % P)
             s1 == (n1 * i1) % P  s2 == (n2 * i2) % P
  <1>1. /\ x1 \in Int /\ y1 \in Int /\ x2 \in Int /\ y2 \in Int
        /\ Zero(Off(x1, y1)) /\ Zero(Off(x2, y2)) /\ A \in Int
    BY CurvePointIs, PFacts
  <1>2. w = D * x1 * x2 * y1 * y2
    OBVIOUS
  <1>3. RAdd(u, v) = <<s1, s2>>
    BY <1>2 DEF RAdd
  <1> HIDE DEF x1, y1, x2, y2
  <1>4. w \in Int /\ ~ Zero(1 + w) /\ ~ Zero(1 - w)
    BY <1>1, <1>2, Complete
  <1>5. n1 \in Int /\ n2 \in Int /\ 1 + w \in Int /\ 1 - w \in Int
    BY <1>1, <1>4
  <1>6. Congruent((1 + wr) % P, 1 + w) /\ Congruent((1 - wr) % P, 1 - w)
    <2>1. Congruent(wr, w) /\ Congruent(1, 1) /\ wr \in Int
      BY <1>4, SameSelf, ZeroMod
    <2>2. Congruent(1 + wr, 1 + w) /\ Congruent(1 - wr, 1 - w)
      BY <2>1, SameSum, SameDifference
    <2>3. Congruent((1 + wr) % P, 1 + wr) /\ Congruent((1 - wr) % P, 1 - wr)
      BY <2>1, SameSelf
    <2> HIDE DEF wr
    <2> QED BY <2>2, <2>3, SameChain
  <1> HIDE DEF wr
  <1>7. i1 \in Int /\ Zero(i1 * (1 + w) - 1) /\ i2 \in Int /\ Zero(i2 * (1 - w) - 1)
    BY <1>4, <1>5, <1>6, RInverseIs
  <1> HIDE DEF i1, i2, n1, n2
  <1>8. s1 \in Field /\ s1 \in Int /\ Zero(s1 * (1 + w) - n1)
    BY <1>5, <1>7, QuotientIs
  <1>9. s2 \in Field /\ s2 \in Int /\ Zero(s2 * (1 - w) - n2)
    BY <1>5, <1>7, QuotientIs
  <1>10. RAdd(u, v)[1] = s1 /\ RAdd(u, v)[2] = s2
    BY <1>3
  <1> HIDE DEF s1, s2
  <1> QED BY <1>3, <1>4, <1>8, <1>9, <1>10 DEF n1, n2, x1, y1, x2, y2

(* The curve is closed under it.                                           *)
PartsOf(x1, y1, x2, y2, w, X, Y, e1, e2, s1, s2) ==
    /\ x1 \in Int /\ y1 \in Int /\ x2 \in Int /\ y2 \in Int
    /\ w = D * x1 * x2 * y1 * y2 /\ X = x1 * y2 + y1 * x2 /\ Y = y1 * y2 - A * x1 * x2
    /\ e1 = A * x1 * x1 + y1 * y1 /\ e2 = A * x2 * x2 + y2 * y2
    /\ s1 = x1 * y1 /\ s2 = x2 * y2

LEMMA ClosedForm ==
  ASSUME NEW x1, NEW y1, NEW x2, NEW y2, NEW w, NEW X, NEW Y, NEW e1, NEW e2, NEW s1, NEW s2,
         PartsOf(x1, y1, x2, y2, w, X, Y, e1, e2, s1, s2)
  PROVE  (1 + w * w) * (A * X * X + Y * Y) - 2 * w * (A * X * X - Y * Y) - D * (X * Y) * (X * Y)
           = (1 + w * w) * (e1 * e2) - D * (s1 * s1) * (e2 * e2) - D * (s2 * s2) * (e1 * e1)
  <1> DEFINE a1 == y1 * y1 - A * x1 * x1  a2 == y2 * y2 - A * x2 * x2
  <1>0. /\ A \in Int /\ D \in Int /\ x1 \in Int /\ y1 \in Int /\ x2 \in Int /\ y2 \in Int
        /\ w = D * x1 * x2 * y1 * y2 /\ X = x1 * y2 + y1 * x2 /\ Y = y1 * y2 - A * x1 * x2
        /\ e1 = A * x1 * x1 + y1 * y1 /\ e2 = A * x2 * x2 + y2 * y2
        /\ s1 = x1 * y1 /\ s2 = x2 * y2
    BY PFacts DEF PartsOf
  <1>1. /\ w \in Int /\ X \in Int /\ Y \in Int /\ e1 \in Int /\ e2 \in Int /\ s1 \in Int /\ s2 \in Int
        /\ a1 \in Int /\ a2 \in Int
    BY <1>0
  <1>2. A * X * X + Y * Y = e1 * e2
    BY <1>0
  <1>3. A * X * X - Y * Y = 4 * A * (s1 * s2) - a1 * a2
    BY <1>0
  <1>4. X * Y = s1 * a2 + s2 * a1
    BY <1>0
  <1>5. a1 * a1 = e1 * e1 - 4 * A * (s1 * s1) /\ a2 * a2 = e2 * e2 - 4 * A * (s2 * s2)
    BY <1>0
  <1>6. w = D * (s1 * s2)
    BY <1>0
  <1> HIDE DEF a1, a2
  <1>7. D * (X * Y) * (X * Y)
          = D * (s1 * s1) * (a2 * a2) + 2 * (D * (s1 * s2)) * (a1 * a2) + D * (s2 * s2) * (a1 * a1)
    <2>1. D * (s1 * a2 + s2 * a1) * (s1 * a2 + s2 * a1)
            = D * (s1 * s1) * (a2 * a2) + 2 * (D * (s1 * s2)) * (a1 * a2) + D * (s2 * s2) * (a1 * a1)
      BY ONLY <1>0, <1>1
    <2> QED BY <1>4, <2>1
  <1>8. D * (s1 * s1) * (a2 * a2) + D * (s2 * s2) * (a1 * a1)
          = D * (s1 * s1) * (e2 * e2) + D * (s2 * s2) * (e1 * e1)
              - 8 * A * (D * (s1 * s2)) * (s1 * s2)
    <2>1. D * (s1 * s1) * (e2 * e2 - 4 * A * (s2 * s2)) + D * (s2 * s2) * (e1 * e1 - 4 * A * (s1 * s1))
            = D * (s1 * s1) * (e2 * e2) + D * (s2 * s2) * (e1 * e1)
                - 8 * A * (D * (s1 * s2)) * (s1 * s2)
      BY ONLY <1>0, <1>1
    <2> QED BY <1>5, <2>1
  <1> DEFINE v == s1 * s2  aa == a1 * a2  m1 == D * (s1 * s1) * (a2 * a2)
             m2 == D * (s2 * s2) * (a1 * a1)  k1 == D * (s1 * s1) * (e2 * e2)
             k2 == D * (s2 * s2) * (e1 * e1)  ee == e1 * e2
  <1>9. /\ v \in Int /\ aa \in Int /\ m1 \in Int /\ m2 \in Int /\ k1 \in Int /\ k2 \in Int
        /\ ee \in Int
    BY <1>0, <1>1
  <1>10. /\ D * (X * Y) * (X * Y) = m1 + 2 * w * aa + m2
         /\ m1 + m2 = k1 + k2 - 8 * A * w * v
         /\ A * X * X - Y * Y = 4 * A * v - aa
         /\ A * X * X + Y * Y = ee
    BY <1>2, <1>3, <1>6, <1>7, <1>8
  <1> HIDE DEF v, aa, m1, m2, k1, k2, ee
  <1>11. (1 + w * w) * ee - 2 * w * (4 * A * v - aa) - (m1 + 2 * w * aa + m2)
           = (1 + w * w) * ee - k1 - k2
    <2>1. 2 * w * (4 * A * v - aa) = 8 * A * w * v - 2 * w * aa
      BY ONLY <1>0, <1>1, <1>9
    <2>2. (1 + w * w) * ee \in Int /\ 8 * A * w * v \in Int /\ 2 * w * aa \in Int
      BY ONLY <1>0, <1>1, <1>9
    <2> DEFINE t1 == (1 + w * w) * ee  t2 == 8 * A * w * v  t3 == 2 * w * aa
               t4 == 2 * w * (4 * A * v - aa)
    <2>3. m1 + m2 = k1 + k2 - t2 /\ t4 = t2 - t3 /\ t1 \in Int /\ t2 \in Int /\ t3 \in Int
      BY <1>10, <2>1, <2>2
    <2> HIDE DEF t1, t2, t3, t4
    <2>4. t1 - t4 - (m1 + t3 + m2) = t1 - k1 - k2
      BY ONLY <1>9, <2>3
    <2> QED BY <2>4 DEF t1, t2, t3, t4
  <1>12. (1 + w * w) * (A * X * X + Y * Y) - 2 * w * (A * X * X - Y * Y) - D * (X * Y) * (X * Y)
           = (1 + w * w) * ee - k1 - k2
    BY ONLY <1>10, <1>11
  <1> QED BY <1>12 DEF ee, k1, k2

LEMMA ClosedZero ==
  ASSUME NEW D1 \in Int, NEW w \in Int, NEW s1 \in Int, NEW s2 \in Int, w = D1 * s1 * s2,
         NEW g1, g1 = 1 + D1 * s1 * s1, NEW g2, g2 = 1 + D1 * s2 * s2,
         NEW e1, NEW e2, Congruent(e1, g1), Congruent(e2, g2)
  PROVE  Zero((1 + w * w) * (e1 * e2) - D1 * (s1 * s1) * (e2 * e2) - D1 * (s2 * s2) * (e1 * e1)
                - (1 - w * w) * (1 - w * w))
  <1> DEFINE b1 == 1 + w * w  b2 == D1 * (s1 * s1)  b3 == D1 * (s2 * s2)
             b4 == (1 - w * w) * (1 - w * w)
  <1>0. b1 \in Int /\ b2 \in Int /\ b3 \in Int /\ b4 \in Int /\ g1 \in Int /\ g2 \in Int
    OBVIOUS
  <1>1. b1 * (g1 * g2) - b2 * (g2 * g2) - b3 * (g1 * g1) - b4 = 0
    <2> DEFINE u == D1 * s1 * s1  v == D1 * s2 * s2
    <2>1. u \in Int /\ v \in Int /\ w * w = u * v /\ b2 = u /\ b3 = v /\ g1 = 1 + u /\ g2 = 1 + v
      OBVIOUS
    <2>2. b1 = 1 + u * v /\ b4 = (1 - u * v) * (1 - u * v)
      BY <2>1
    <2> HIDE DEF u, v, b1, b2, b3, b4
    <2>3. (1 + u * v) * ((1 + u) * (1 + v)) - u * ((1 + v) * (1 + v)) - v * ((1 + u) * (1 + u))
            - (1 - u * v) * (1 - u * v) = 0
      BY ONLY <2>1
    <2> QED BY ONLY <2>1, <2>2, <2>3
  <1> HIDE DEF b1, b2, b3, b4
  <1>2. /\ Congruent(e1 * e2, g1 * g2) /\ Congruent(e2 * e2, g2 * g2) /\ Congruent(e1 * e1, g1 * g1)
        /\ Congruent(b1, b1) /\ Congruent(b2, b2) /\ Congruent(b3, b3) /\ Congruent(b4, b4)
    BY <1>0, SameProduct, SameSelf
  <1>3. /\ Congruent(b1 * (e1 * e2), b1 * (g1 * g2)) /\ Congruent(b2 * (e2 * e2), b2 * (g2 * g2))
        /\ Congruent(b3 * (e1 * e1), b3 * (g1 * g1))
    BY <1>2, SameProduct
  <1>4. Congruent(b1 * (e1 * e2) - b2 * (e2 * e2), b1 * (g1 * g2) - b2 * (g2 * g2))
    BY <1>3, SameDifference, Zenon
  <1>5. Congruent(b1 * (e1 * e2) - b2 * (e2 * e2) - b3 * (e1 * e1),
                  b1 * (g1 * g2) - b2 * (g2 * g2) - b3 * (g1 * g1))
    BY <1>3, <1>4, SameDifference, Zenon
  <1>6. Congruent(b1 * (e1 * e2) - b2 * (e2 * e2) - b3 * (e1 * e1) - b4,
                  b1 * (g1 * g2) - b2 * (g2 * g2) - b3 * (g1 * g1) - b4)
    BY <1>2, <1>5, SameDifference, Zenon
  <1>7. Zero(b1 * (e1 * e2) - b2 * (e2 * e2) - b3 * (e1 * e1) - b4)
    BY <1>1, <1>6, SameZero, ZeroNone
  <1> QED BY <1>7 DEF b1, b2, b3, b4

LEMMA RAddClosed ==
  ASSUME NEW u \in CurvePoints, NEW v \in CurvePoints
  PROVE  RAdd(u, v) \in CurvePoints
  <1> DEFINE x1 == u[1]  y1 == u[2]  x2 == v[1]  y2 == v[2]
             w == D * u[1] * v[1] * u[2] * v[2]
             X == x1 * y2 + y1 * x2  Y == y1 * y2 - A * x1 * x2
             s1 == x1 * y1  s2 == x2 * y2  e1 == A * x1 * x1 + y1 * y1  e2 == A * x2 * x2 + y2 * y2
             x == RAdd(u, v)[1]  y == RAdd(u, v)[2]  a == 1 + w  b == 1 - w
             px == x * a  py == y * b
             g1 == 1 + D * s1 * s1  g2 == 1 + D * s2 * s2
  <1>0. A \in Int /\ D \in Int
    BY PFacts
  <1>1. /\ x1 \in Int /\ y1 \in Int /\ x2 \in Int /\ y2 \in Int
        /\ Zero(Off(x1, y1)) /\ Zero(Off(x2, y2))
    BY CurvePointIs
  <1>2. /\ w \in Int /\ ~ Zero(a) /\ ~ Zero(b) /\ RAdd(u, v) = <<x, y>> /\ x \in Field /\ y \in Field
        /\ x \in Int /\ y \in Int /\ Zero(px - X) /\ Zero(py - Y)
    <2> HIDE DEF w
    <2>1. w = D * u[1] * v[1] * u[2] * v[2]
      BY DEF w
    <2> QED BY <2>1, RAddIs
  <1>3. w = D * x1 * x2 * y1 * y2 /\ w = D * s1 * s2
    BY <1>0, <1>1
  <1> HIDE DEF x1, y1, x2, y2, w, x, y
  <1>4. /\ X \in Int /\ Y \in Int /\ s1 \in Int /\ s2 \in Int /\ e1 \in Int /\ e2 \in Int
        /\ a \in Int /\ b \in Int /\ px \in Int /\ py \in Int /\ g1 \in Int /\ g2 \in Int
    BY <1>0, <1>1, <1>2
  <1>5. e1 - g1 = Off(x1, y1) /\ e2 - g2 = Off(x2, y2)
    BY <1>0, <1>1 DEF Off
  <1>6. Congruent(e1, g1) /\ Congruent(e2, g2)
    BY <1>1, <1>4, <1>5 DEF Congruent
  <1> DEFINE K == (1 + w * w) * (e1 * e2) - D * (s1 * s1) * (e2 * e2) - D * (s2 * s2) * (e1 * e1)
             L == (1 + w * w) * (A * X * X + Y * Y) - 2 * w * (A * X * X - Y * Y) - D * (X * Y) * (X * Y)
             c == (1 - w * w) * (1 - w * w)
  <1>7. Zero(K - c)
    <2> HIDE DEF e1, e2, s1, s2
    <2> QED BY <1>0, <1>2, <1>3, <1>4, <1>6, ClosedZero
  <1>8. L = K
    <2>0. PartsOf(x1, y1, x2, y2, w, X, Y, e1, e2, s1, s2)
      BY <1>1, <1>3 DEF PartsOf
    <2> HIDE DEF K, L, X, Y, s1, s2, e1, e2
    <2>1. (1 + w * w) * (A * X * X + Y * Y) - 2 * w * (A * X * X - Y * Y) - D * (X * Y) * (X * Y)
            = (1 + w * w) * (e1 * e2) - D * (s1 * s1) * (e2 * e2) - D * (s2 * s2) * (e1 * e1)
      BY ONLY <2>0, ClosedForm
    <2> QED BY <2>1 DEF K, L
  <1> HIDE DEF K, e1, e2, s1, s2, g1, g2
  <1> DEFINE M == ((A * (X * X) * (b * b) + (Y * Y) * (a * a)) - c) - D * ((X * X) * (Y * Y))
             N == ((A * (px * px) * (b * b) + (py * py) * (a * a)) - c) - D * ((px * px) * (py * py))
  <1>9. M = L - c
    <2>1. /\ A * (X * X) * (b * b) = A * (X * X) * (1 + w * w) - 2 * w * (A * (X * X))
          /\ (Y * Y) * (a * a) = (Y * Y) * (1 + w * w) + 2 * w * (Y * Y)
      <3> HIDE DEF X, Y
      <3> QED BY <1>0, <1>2, <1>4
    <2>2. /\ (1 + w * w) * (A * X * X + Y * Y) = A * (X * X) * (1 + w * w) + (Y * Y) * (1 + w * w)
          /\ 2 * w * (A * X * X - Y * Y) = 2 * w * (A * (X * X)) - 2 * w * (Y * Y)
          /\ D * (X * Y) * (X * Y) = D * ((X * X) * (Y * Y))
      <3> HIDE DEF X, Y
      <3> QED BY <1>0, <1>2, <1>4
    <2> DEFINE t1 == A * (X * X) * (b * b)  t2 == (Y * Y) * (a * a)  t3 == A * (X * X) * (1 + w * w)
               t4 == 2 * w * (A * (X * X))  t5 == (Y * Y) * (1 + w * w)  t6 == 2 * w * (Y * Y)
               t7 == D * ((X * X) * (Y * Y))  t8 == (1 + w * w) * (A * X * X + Y * Y)
               t9 == 2 * w * (A * X * X - Y * Y)  t10 == D * (X * Y) * (X * Y)
    <2>3. /\ t3 \in Int /\ t4 \in Int /\ t5 \in Int /\ t6 \in Int /\ t7 \in Int /\ c \in Int
      <3> HIDE DEF X, Y
      <3> QED BY <1>0, <1>2, <1>4
    <2>4. /\ M = ((t1 + t2) - c) - t7 /\ L = t8 - t9 - t10
          /\ t1 = t3 - t4 /\ t2 = t5 + t6 /\ t8 = t3 + t5 /\ t9 = t4 - t6 /\ t10 = t7
      BY <2>1, <2>2
    <2> HIDE DEF t1, t2, t3, t4, t5, t6, t7, t8, t9, t10, M, L, c
    <2> QED BY ONLY <2>3, <2>4
  <1>10. Zero(M)
    <2> HIDE DEF M, L, c
    <2> QED BY <1>7, <1>8, <1>9
  <1>11. Congruent(N, M)
    <2> HIDE DEF X, Y, px, py, a, b
    <2>0. c \in Int /\ A \in Int /\ D \in Int /\ a * a \in Int /\ b * b \in Int
      BY <1>0, <1>2, <1>4
    <2> HIDE DEF c
    <2>1. Congruent(px, X) /\ Congruent(py, Y) /\ Congruent(A, A) /\ Congruent(D, D)
          /\ Congruent(a * a, a * a) /\ Congruent(b * b, b * b) /\ Congruent(c, c)
      BY <1>2, <1>4, <2>0, SameSelf DEF Congruent
    <2>2. Congruent(px * px, X * X) /\ Congruent(py * py, Y * Y)
      BY <2>1, SameProduct
    <2>3. /\ Congruent(A * (px * px), A * (X * X)) /\ Congruent((py * py) * (a * a), (Y * Y) * (a * a))
          /\ Congruent((px * px) * (py * py), (X * X) * (Y * Y))
      BY <2>1, <2>2, SameProduct
    <2>4. /\ Congruent(A * (px * px) * (b * b), A * (X * X) * (b * b))
          /\ Congruent(D * ((px * px) * (py * py)), D * ((X * X) * (Y * Y)))
      BY <2>1, <2>3, SameProduct
    <2> DEFINE l1 == A * (px * px) * (b * b)  r1 == A * (X * X) * (b * b)
               l2 == (py * py) * (a * a)      r2 == (Y * Y) * (a * a)
               l3 == D * ((px * px) * (py * py))  r3 == D * ((X * X) * (Y * Y))
    <2>5. /\ Congruent(l1, r1) /\ Congruent(l2, r2) /\ Congruent(l3, r3)
          /\ N = ((l1 + l2) - c) - l3 /\ M = ((r1 + r2) - c) - r3
      BY <2>3, <2>4
    <2> HIDE DEF l1, l2, l3, r1, r2, r3, M, N
    <2>6. Congruent(l1 + l2, r1 + r2)
      BY <2>5, SameSum
    <2>7. Congruent((l1 + l2) - c, (r1 + r2) - c)
      <3> DEFINE l == l1 + l2  r == r1 + r2
      <3>1. Congruent(l, r)
        BY <2>6
      <3> HIDE DEF l, r
      <3>2. Congruent(l - c, r - c)
        BY <2>1, <3>1, SameDifference
      <3> QED BY <3>2 DEF l, r
    <2>8. Congruent(((l1 + l2) - c) - l3, ((r1 + r2) - c) - r3)
      <3> DEFINE l == (l1 + l2) - c  r == (r1 + r2) - c
      <3>1. Congruent(l, r)
        BY <2>7
      <3> HIDE DEF l, r
      <3>2. Congruent(l - l3, r - r3)
        BY <2>5, <3>1, SameDifference
      <3> QED BY <3>2 DEF l, r
    <2> QED BY <2>5, <2>8
  <1>12. Zero(N)
    <2> HIDE DEF M, N
    <2> QED BY <1>10, <1>11, SameZero
  <1>13. N = ((a * a) * (b * b)) * Off(x, y)
    <2>1. c = (a * a) * (b * b)
      BY <1>2
    <2>2. /\ A * (px * px) * (b * b) = ((a * a) * (b * b)) * (A * x * x)
          /\ (py * py) * (a * a) = ((a * a) * (b * b)) * (y * y)
          /\ D * ((px * px) * (py * py)) = ((a * a) * (b * b)) * (D * x * x * y * y)
      <3> HIDE DEF a, b
      <3> QED BY <1>0, <1>2, <1>4
    <2>3. Off(x, y) = A * x * x + y * y - 1 - D * x * x * y * y
      BY DEF Off
    <2> DEFINE d == (a * a) * (b * b)  t1 == A * x * x  t2 == y * y  t3 == D * x * x * y * y
    <2>4. d \in Int /\ t1 \in Int /\ t2 \in Int /\ t3 \in Int
      <3> HIDE DEF a, b
      <3> QED BY <1>0, <1>2, <1>4
    <2>5. N = ((d * t1 + d * t2) - d) - d * t3 /\ Off(x, y) = t1 + t2 - 1 - t3
      BY <2>1, <2>2, <2>3
    <2> HIDE DEF d, t1, t2, t3, N
    <2>6. d * (t1 + t2 - 1 - t3) = ((d * t1 + d * t2) - d) - d * t3
      BY ONLY <2>4
    <2> QED BY <2>5, <2>6 DEF d
  <1>14. ~ Zero((a * a) * (b * b)) /\ (a * a) * (b * b) \in Int
    <2> HIDE DEF a, b
    <2>1. ~ Zero(a * a) /\ ~ Zero(b * b) /\ a * a \in Int /\ b * b \in Int
      BY <1>2, <1>4, NonZeroProduct
    <2> DEFINE aa == a * a  bb == b * b
    <2>2. ~ Zero(aa) /\ ~ Zero(bb) /\ aa \in Int /\ bb \in Int
      BY <2>1
    <2> HIDE DEF aa, bb
    <2>3. ~ Zero(aa * bb) /\ aa * bb \in Int
      BY <2>2, NonZeroProduct
    <2> QED BY <2>3 DEF aa, bb
  <1>15. Zero(Off(x, y))
    <2> HIDE DEF N, a, b
    <2> QED BY <1>2, <1>12, <1>13, <1>14, ZeroProduct, OffIs
  <1> QED BY <1>2, <1>15, CurvePointOf

LEMMA SameQuotient ==
  ASSUME NEW s \in Field, NEW x \in Field, NEW a \in Int, ~ Zero(a), NEW n \in Int,
         Zero(s * a - n), Zero(x * a - n)
  PROVE  s = x
  <1>1. s \in Int /\ x \in Int /\ s - x \in Int
    BY FieldIs
  <1>2. (s * a - n) - (x * a - n) = (s - x) * a
    BY <1>1
  <1>3. Zero((s - x) * a)
    BY <1>2, ZeroSum
  <1>4. Zero(s - x)
    BY <1>1, <1>3, ZeroProduct
  <1> QED BY <1>1, <1>4, SameField DEF Congruent

LEMMA RAddUnique ==
  ASSUME NEW u \in CurvePoints, NEW v \in CurvePoints, NEW w, w = D * u[1] * v[1] * u[2] * v[2],
         NEW x \in Field, NEW y \in Field,
         Zero(x * (1 + w) - (u[1] * v[2] + u[2] * v[1])),
         Zero(y * (1 - w) - (u[2] * v[2] - A * u[1] * v[1]))
  PROVE  RAdd(u, v) = <<x, y>>
  <1> DEFINE s == RAdd(u, v)  a == 1 + w  b == 1 - w
             m == u[1] * v[2] + u[2] * v[1]  n == u[2] * v[2] - A * u[1] * v[1]
  <1>1. /\ w \in Int /\ ~ Zero(a) /\ ~ Zero(b) /\ s = <<s[1], s[2]>> /\ s[1] \in Field /\ s[2] \in Field
        /\ Zero(s[1] * a - m) /\ Zero(s[2] * b - n)
    BY RAddIs
  <1>2. a \in Int /\ b \in Int /\ m \in Int /\ n \in Int
    BY <1>1, CurvePointIs, PFacts
  <1>3. Zero(x * a - m) /\ Zero(y * b - n)
    OBVIOUS
  <1> HIDE DEF s, a, b, m, n
  <1>4. s[1] = x /\ s[2] = y
    BY <1>1, <1>2, <1>3, SameQuotient
  <1> QED BY <1>1, <1>4 DEF s

LEMMA OIs == O \in CurvePoints /\ O[1] = 0 /\ O[2] = 1 /\ 0 \in Field /\ 1 \in Field
  <1>1. 0 \in Field /\ 1 \in Field /\ A \in Int /\ D \in Int
    BY PFacts DEF Field
  <1>2. Off(0, 1) = 0
    BY <1>1 DEF Off
  <1> QED BY <1>1, <1>2, ZeroNone, CurvePointOf DEF O

LEMMA BaseIs == <<BaseX, BaseY>> \in CurvePoints
  <1>1. BaseX \in Field /\ BaseY \in Field /\ ContainsPoint(BaseX, BaseY)
    BY EdwardsAssumption, GeneratorAssumption
  <1>2. BaseX \in Int /\ BaseY \in Int
    BY <1>1, FieldIs
  <1> QED BY <1>1, <1>2, OffIs, CurvePointOf DEF ContainsPoint, Off, Zero

LEMMA RAddO == ASSUME NEW u \in CurvePoints PROVE RAdd(u, O) = u
  <1> DEFINE w == D * u[1] * O[1] * u[2] * O[2]
  <1>1. /\ u = <<u[1], u[2]>> /\ u[1] \in Field /\ u[2] \in Field /\ u[1] \in Int /\ u[2] \in Int
        /\ A \in Int /\ D \in Int /\ O \in CurvePoints /\ O[1] = 0 /\ O[2] = 1
    BY CurvePointIs, OIs, PFacts
  <1>2. /\ w = 0 /\ u[1] * O[2] + u[2] * O[1] = u[1] /\ u[2] * O[2] - A * u[1] * O[1] = u[2]
    BY <1>1
  <1>3. u[1] * (1 + w) - u[1] = 0 /\ u[2] * (1 - w) - u[2] = 0
    BY <1>1, <1>2
  <1>4. w = D * u[1] * O[1] * u[2] * O[2]
    OBVIOUS
  <1> HIDE DEF w
  <1>5. RAdd(u, O) = <<u[1], u[2]>>
    BY <1>1, <1>2, <1>3, <1>4, ZeroNone, RAddUnique
  <1> QED BY <1>1, <1>5

LEMMA RAddCommutes ==
  ASSUME NEW u \in CurvePoints, NEW v \in CurvePoints
  PROVE  RAdd(u, v) = RAdd(v, u)
  <1> DEFINE w == D * u[1] * v[1] * u[2] * v[2]  t == RAdd(v, u)
  <1>1. /\ u[1] \in Int /\ u[2] \in Int /\ v[1] \in Int /\ v[2] \in Int /\ A \in Int /\ D \in Int
    BY CurvePointIs, PFacts
  <1>2. /\ w = D * v[1] * u[1] * v[2] * u[2]
        /\ v[1] * u[2] + v[2] * u[1] = u[1] * v[2] + u[2] * v[1]
        /\ v[2] * u[2] - A * v[1] * u[1] = u[2] * v[2] - A * u[1] * v[1]
        /\ w = D * u[1] * v[1] * u[2] * v[2]
    BY <1>1
  <1> HIDE DEF w
  <1>3. /\ t = <<t[1], t[2]>> /\ t[1] \in Field /\ t[2] \in Field
        /\ Zero(t[1] * (1 + w) - (v[1] * u[2] + v[2] * u[1]))
        /\ Zero(t[2] * (1 - w) - (v[2] * u[2] - A * v[1] * u[1]))
    BY <1>2, RAddIs
  <1> HIDE DEF t
  <1>4. RAdd(u, v) = <<t[1], t[2]>>
    BY <1>2, <1>3, RAddUnique
  <1> QED BY <1>3, <1>4 DEF t

(* Associativity.  A sum of three points is a pair of quotients, whichever *)
(* two are added first; the numerators and the denominators of both ways   *)
(* cross-multiply to the same numbers.                                     *)
QuotientParts(a, b, c, e, k, x, y, w, r, lx, ly) ==
    /\ a \in Int /\ b \in Int /\ c \in Int /\ e \in Int /\ k \in Int /\ x \in Int /\ y \in Int
    /\ lx \in Int /\ ly \in Int
    /\ w = D * a * x * b * y /\ r = D * x * y * (c * e)
    /\ Zero(a * (1 + k) - c) /\ Zero(b * (1 - k) - e)
    /\ Zero(lx * (1 + w) - (a * y + b * x)) /\ Zero(ly * (1 - w) - (b * y - A * a * x))
    /\ ~ Zero(1 + k) /\ ~ Zero(1 - k) /\ ~ Zero(1 + w) /\ ~ Zero(1 - w)

LEMMA ThirdQuotients ==
  ASSUME NEW a, NEW b, NEW c, NEW e, NEW k, NEW x, NEW y, NEW w, NEW r, NEW lx, NEW ly,
         QuotientParts(a, b, c, e, k, x, y, w, r, lx, ly)
  PROVE  /\ r \in Int /\ ~ Zero((1 - k * k) + r) /\ ~ Zero((1 - k * k) - r)
         /\ Zero(lx * ((1 - k * k) + r) - ((c * y + e * x) - k * (c * y - e * x)))
         /\ Zero(ly * ((1 - k * k) - r) - ((e * y - A * c * x) + k * (e * y + A * c * x)))
  <1> DEFINE f == 1 + k  g == 1 - k  za == a * f - c  zb == b * g - e
             zx == lx * (1 + w) - (a * y + b * x)  zy == ly * (1 - w) - (b * y - A * a * x)
             j == D * x * y
  <1>a. /\ a \in Int /\ b \in Int /\ c \in Int /\ e \in Int /\ k \in Int /\ x \in Int /\ y \in Int
        /\ lx \in Int /\ ly \in Int
        /\ w = D * a * x * b * y /\ r = D * x * y * (c * e)
        /\ Zero(a * (1 + k) - c) /\ Zero(b * (1 - k) - e)
        /\ Zero(lx * (1 + w) - (a * y + b * x)) /\ Zero(ly * (1 - w) - (b * y - A * a * x))
        /\ ~ Zero(1 + k) /\ ~ Zero(1 - k) /\ ~ Zero(1 + w) /\ ~ Zero(1 - w)
    BY DEF QuotientParts
  <1> USE <1>a
  <1>0. /\ A \in Int /\ D \in Int /\ w \in Int /\ r \in Int /\ f \in Int /\ g \in Int /\ j \in Int
        /\ za \in Int /\ zb \in Int /\ zx \in Int /\ zy \in Int /\ f * g \in Int
        /\ Zero(za) /\ Zero(zb) /\ Zero(zx) /\ Zero(zy) /\ ~ Zero(f * g) /\ 1 - k * k = f * g
    <2>1. A \in Int /\ D \in Int /\ f \in Int /\ g \in Int /\ j \in Int
      BY PFacts
    <2>2. w \in Int /\ r \in Int
      BY <2>1
    <2>3. za \in Int /\ zb \in Int /\ zx \in Int /\ zy \in Int /\ f * g \in Int /\ 1 - k * k = f * g
      BY <2>1, <2>2
    <2>4. Zero(za) /\ Zero(zb) /\ Zero(zx) /\ Zero(zy)
      OBVIOUS
    <2>5. ~ Zero(f * g)
      BY <2>1, NonZeroProduct
    <2> QED BY <2>1, <2>2, <2>3, <2>4, <2>5
  <1>1. w = j * (a * b) /\ r = j * (c * e)
    BY <1>0
  <1>2. a * f = za + c /\ b * g = zb + e
    BY <1>0
  <1>3. (f * g) * w - r = (j * (b * g)) * za + (j * c) * zb
    <2>1. (f * g) * w = j * ((a * f) * (b * g))
      BY <1>0, <1>1
    <2>2. (a * f) * (b * g) = (b * g) * za + c * (b * g)
      BY <1>0, <1>2
    <2>3. c * (b * g) = c * zb + c * e
      BY <1>0, <1>2
    <2> DEFINE bg == b * g  ce == c * e
    <2>4. bg \in Int /\ ce \in Int /\ (f * g) * w = j * (bg * za + (c * zb + ce)) /\ r = j * ce
      BY <1>0, <1>1, <2>1, <2>2, <2>3
    <2> HIDE DEF bg, ce, za, zb, f, g, j
    <2>5. j * (bg * za + (c * zb + ce)) - j * ce = (j * bg) * za + (j * c) * zb
      BY <1>0, <2>4
    <2> QED BY <2>4, <2>5 DEF bg
  <1>4. Zero((f * g) * w - r)
    <2>1. j * (b * g) \in Int /\ j * c \in Int
      BY <1>0
    <2> HIDE DEF f, g, za, zb, j
    <2> QED BY <1>0, <1>3, <2>1, Combined
  <1>5. ~ Zero((f * g) + r) /\ ~ Zero((f * g) - r)
    <2>1. ~ Zero((f * g) * (1 + w)) /\ ~ Zero((f * g) * (1 - w)) /\ 1 + w \in Int /\ 1 - w \in Int
      BY <1>0, NonZeroProduct
    <2> DEFINE m == f * g
    <2>2. m \in Int /\ m * w \in Int
      BY <1>0
    <2>3. m * (1 + w) = (m + r) + (m * w - r) /\ m * (1 - w) = (m - r) - (m * w - r)
      BY <1>0, <2>2
    <2>4. ~ Zero(m * (1 + w)) /\ ~ Zero(m * (1 - w)) /\ Zero(m * w - r)
      BY <1>4, <2>1
    <2> HIDE DEF m
    <2>5. ~ Zero(m + r) /\ ~ Zero(m - r)
      BY <2>3, <2>4, ZeroSum
    <2> QED BY <2>5 DEF m
  <1>6. Zero(lx * ((f * g) + r) - ((c * y + e * x) - k * (c * y - e * x)))
    <2> DEFINE m == f * g  zw == m * w - r
    <2>1. m \in Int /\ zw \in Int /\ Zero(zw)
      BY <1>0, <1>4
    <2>2. lx * (m + r) = m * zx + m * (a * y + b * x) - lx * zw
      <3>1. lx * (m + r) = lx * (m * (1 + w)) - lx * zw
        BY <1>0, <2>1
      <3>2. lx * (m * (1 + w)) = m * zx + m * (a * y + b * x)
        BY <1>0, <2>1
      <3> DEFINE t1 == lx * (m + r)  t2 == lx * (m * (1 + w))  t3 == lx * zw
                 t4 == m * zx  t5 == m * (a * y + b * x)
      <3>3. t3 \in Int /\ t4 \in Int /\ t5 \in Int /\ t1 = t2 - t3 /\ t2 = t4 + t5
        BY <1>0, <2>1, <3>1, <3>2
      <3> HIDE DEF t1, t2, t3, t4, t5, m, zw, zx
      <3>4. t1 = t4 + t5 - t3
        BY <3>3
      <3> QED BY <3>4 DEF t1, t3, t4, t5
    <2>3. m * (a * y + b * x) = (y * g) * (a * f) + (x * f) * (b * g)
      BY <1>0
    <2>4. (y * g) * (a * f) + (x * f) * (b * g)
            = (y * g) * za + (x * f) * zb + ((c * y + e * x) - k * (c * y - e * x))
      <3>1. (y * g) * (za + c) + (x * f) * (zb + e)
              = (y * g) * za + (x * f) * zb + (c * (y * g) + e * (x * f))
        <4> HIDE DEF za, zb, f, g
        <4> QED BY <1>0
      <3>2. c * (y * g) + e * (x * f) = (c * y + e * x) - k * (c * y - e * x)
        BY <1>0
      <3> QED BY <1>2, <3>1, <3>2
    <2> DEFINE n == (c * y + e * x) - k * (c * y - e * x)
    <2>5. n \in Int /\ y * g \in Int /\ x * f \in Int /\ - lx \in Int
      BY <1>0
    <2>6. lx * (m + r) = m * zx + ((y * g) * za + (x * f) * zb + n) - lx * zw
      BY <2>2, <2>3, <2>4
    <2> HIDE DEF n, m, zw, zx, za, zb, f, g
    <2>7. lx * (m + r) - n = (m * zx + (- lx) * zw) + ((y * g) * za + (x * f) * zb)
      <3> DEFINE t1 == lx * (m + r)  t2 == m * zx  t3 == (y * g) * za  t4 == (x * f) * zb  t5 == lx * zw
      <3>1. t2 \in Int /\ t3 \in Int /\ t4 \in Int /\ t5 \in Int /\ t1 = t2 + (t3 + t4 + n) - t5
            /\ (- lx) * zw = - t5
        BY <1>0, <2>1, <2>5, <2>6
      <3> HIDE DEF t1, t2, t3, t4, t5
      <3>2. t1 - n = (t2 + (- t5)) + (t3 + t4)
        BY <3>1, <2>5
      <3> QED BY <3>1, <3>2 DEF t1, t2, t3, t4
    <2>8. Zero(m * zx + (- lx) * zw) /\ Zero((y * g) * za + (x * f) * zb)
      BY <1>0, <2>1, <2>5, Combined
    <2>9. Zero(lx * (m + r) - n)
      BY <2>7, <2>8, ZeroSum
    <2> QED BY <2>9 DEF m, n
  <1>7. Zero(ly * ((f * g) - r) - ((e * y - A * c * x) + k * (e * y + A * c * x)))
    <2> DEFINE m == f * g  zw == m * w - r
    <2>1. m \in Int /\ zw \in Int /\ Zero(zw)
      BY <1>0, <1>4
    <2>2. ly * (m - r) = m * zy + m * (b * y - A * a * x) + ly * zw
      <3>1. ly * (m - r) = ly * (m * (1 - w)) + ly * zw
        BY <1>0, <2>1
      <3>2. ly * (m * (1 - w)) = m * zy + m * (b * y - A * a * x)
        BY <1>0, <2>1
      <3> DEFINE t1 == ly * (m - r)  t2 == ly * (m * (1 - w))  t3 == ly * zw
                 t4 == m * zy  t5 == m * (b * y - A * a * x)
      <3>3. t3 \in Int /\ t4 \in Int /\ t5 \in Int /\ t1 = t2 + t3 /\ t2 = t4 + t5
        BY <1>0, <2>1, <3>1, <3>2
      <3> HIDE DEF t1, t2, t3, t4, t5, m, zw, zy
      <3>4. t1 = t4 + t5 + t3
        BY <3>3
      <3> QED BY <3>4 DEF t1, t3, t4, t5
    <2>3. m * (b * y - A * a * x) = (y * f) * (b * g) - (A * x * g) * (a * f)
      BY <1>0
    <2>4. (y * f) * (b * g) - (A * x * g) * (a * f)
            = ((y * f) * zb - (A * x * g) * za) + ((e * y - A * c * x) + k * (e * y + A * c * x))
      <3>1. (y * f) * (zb + e) - (A * x * g) * (za + c)
              = ((y * f) * zb - (A * x * g) * za) + (e * (y * f) - c * (A * x * g))
        <4> HIDE DEF za, zb, f, g
        <4> QED BY <1>0
      <3>2. e * (y * f) - c * (A * x * g) = (e * y - A * c * x) + k * (e * y + A * c * x)
        BY <1>0
      <3> QED BY <1>2, <3>1, <3>2
    <2> DEFINE n == (e * y - A * c * x) + k * (e * y + A * c * x)
    <2>5. n \in Int /\ y * f \in Int /\ A * x * g \in Int /\ - (A * x * g) \in Int
      BY <1>0
    <2>6. ly * (m - r) = m * zy + (((y * f) * zb - (A * x * g) * za) + n) + ly * zw
      BY <2>2, <2>3, <2>4
    <2> HIDE DEF n, m, zw, zy, za, zb, f, g
    <2>7. ly * (m - r) - n = (m * zy + ly * zw) + ((y * f) * zb + (- (A * x * g)) * za)
      <3> DEFINE t1 == ly * (m - r)  t2 == m * zy  t3 == (y * f) * zb  t4 == (A * x * g) * za  t5 == ly * zw
      <3>1. t2 \in Int /\ t3 \in Int /\ t4 \in Int /\ t5 \in Int /\ t1 = t2 + ((t3 - t4) + n) + t5
            /\ (- (A * x * g)) * za = - t4
        BY <1>0, <2>1, <2>5, <2>6
      <3> HIDE DEF t1, t2, t3, t4, t5
      <3>2. t1 - n = (t2 + t5) + (t3 + (- t4))
        BY <3>1, <2>5
      <3> QED BY <3>1, <3>2 DEF t1, t2, t3, t5
    <2>8. Zero(m * zy + ly * zw) /\ Zero((y * f) * zb + (- (A * x * g)) * za)
      BY <1>0, <2>1, <2>5, Combined
    <2>9. Zero(ly * (m - r) - n)
      BY <2>7, <2>8, ZeroSum
    <2> QED BY <2>9 DEF m, n
  <1> QED BY <1>0, <1>5, <1>6, <1>7

(* The sum of three points, the first two added first.                     *)
LEMMA SumOfThree ==
  ASSUME NEW u \in CurvePoints, NEW v \in CurvePoints, NEW w \in CurvePoints,
         NEW c, c = u[1] * v[2] + u[2] * v[1], NEW e, e = u[2] * v[2] - A * u[1] * v[1],
         NEW k, k = D * u[1] * v[1] * u[2] * v[2], NEW r, r = D * w[1] * w[2] * (c * e),
         NEW s, s = RAdd(RAdd(u, v), w)
  PROVE  /\ c \in Int /\ e \in Int /\ k \in Int /\ r \in Int
         /\ s = <<s[1], s[2]>> /\ s[1] \in Field /\ s[2] \in Field
         /\ ~ Zero((1 - k * k) + r) /\ ~ Zero((1 - k * k) - r)
         /\ Zero(s[1] * ((1 - k * k) + r) - ((c * w[2] + e * w[1]) - k * (c * w[2] - e * w[1])))
         /\ Zero(s[2] * ((1 - k * k) - r)
                   - ((e * w[2] - A * c * w[1]) + k * (e * w[2] + A * c * w[1])))
  <1> DEFINE t == RAdd(u, v)  a == t[1]  b == t[2]  x == w[1]  y == w[2]  o == D * a * x * b * y
             lx == s[1]  ly == s[2]
  <1>1. /\ k \in Int /\ ~ Zero(1 + k) /\ ~ Zero(1 - k) /\ t \in CurvePoints
        /\ a \in Int /\ b \in Int /\ Zero(a * (1 + k) - c) /\ Zero(b * (1 - k) - e)
    BY RAddIs, RAddClosed
  <1>2. /\ c \in Int /\ e \in Int /\ x \in Int /\ y \in Int
    BY CurvePointIs, PFacts
  <1> HIDE DEF t
  <1>3. /\ o \in Int /\ ~ Zero(1 + o) /\ ~ Zero(1 - o) /\ s = <<s[1], s[2]>>
        /\ lx \in Field /\ ly \in Field /\ lx \in Int /\ ly \in Int
        /\ Zero(lx * (1 + o) - (a * y + b * x)) /\ Zero(ly * (1 - o) - (b * y - A * a * x))
    <2>1. s = RAdd(t, w) /\ o = D * t[1] * w[1] * t[2] * w[2]
      BY DEF t
    <2> HIDE DEF o
    <2> QED BY <1>1, <2>1, RAddIs
  <1>4. r = D * x * y * (c * e) /\ o = D * a * x * b * y
    OBVIOUS
  <1> HIDE DEF a, b, x, y, o, lx, ly
  <1>5. /\ r \in Int /\ ~ Zero((1 - k * k) + r) /\ ~ Zero((1 - k * k) - r)
        /\ Zero(lx * ((1 - k * k) + r) - ((c * y + e * x) - k * (c * y - e * x)))
        /\ Zero(ly * ((1 - k * k) - r) - ((e * y - A * c * x) + k * (e * y + A * c * x)))
    <2>1. QuotientParts(a, b, c, e, k, x, y, o, r, lx, ly)
      BY <1>1, <1>2, <1>3, <1>4 DEF QuotientParts
    <2> QED BY <2>1, ThirdQuotients
  <1> QED BY <1>1, <1>2, <1>3, <1>5 DEF x, y, lx, ly

(* What the sums of three points have in common: for point i, si stands    *)
(* for x*y, hi for y^2 - A*x^2 and ni for y^2 + A*x^2, F for a coordinate  *)
(* of the product of the three, Gi for that of the product with point i    *)
(* reflected, Q and Ki for the other coordinate of each, all up to a sign. *)
SumParts(s1, s2, s3, h1, h2, h3, n1, n2, n3, F, G1, G3, Q, K1, K3) ==
    /\ s1 \in Int /\ s2 \in Int /\ s3 \in Int /\ h1 \in Int /\ h2 \in Int /\ h3 \in Int
    /\ n1 \in Int /\ n2 \in Int /\ n3 \in Int
    /\ F \in Int /\ G1 \in Int /\ G3 \in Int /\ Q \in Int /\ K1 \in Int /\ K3 \in Int
    /\ F * h3 = n3 * G3 + 2 * s3 * Q /\ F * h1 = n1 * G1 + 2 * s1 * Q
    /\ h2 * G3 = 2 * s2 * K3 - n2 * G1 /\ h2 * G1 = 2 * s2 * K1 - n2 * G3
    /\ h3 * G3 = n3 * F - 2 * s3 * K3 /\ h1 * G1 = n1 * F - 2 * s1 * K1

LEMMA CrossProducts ==
  ASSUME NEW s1, NEW s2, NEW s3, NEW h1, NEW h2, NEW h3, NEW n1, NEW n2, NEW n3,
         NEW F, NEW G1, NEW G3, NEW Q, NEW K1, NEW K3,
         SumParts(s1, s2, s3, h1, h2, h3, n1, n2, n3, F, G1, G3, Q, K1, K3),
         Zero(n1 - 1 - D * s1 * s1), Zero(n2 - 1 - D * s2 * s2), Zero(n3 - 1 - D * s3 * s3),
         NEW k1, k1 = D * s1 * s2, NEW k3, k3 = D * s3 * s2,
         NEW v1, v1 = (1 - k1 * k1) + D * s3 * (s1 * h2 + s2 * h1),
         NEW v3, v3 = (1 - k3 * k3) + D * s1 * (s3 * h2 + s2 * h3)
  PROVE  Zero((F - k1 * G3) * v3 - (F - k3 * G1) * v1)
  <1> DEFINE d1 == n1 - 1 - D * s1 * s1  d2 == n2 - 1 - D * s2 * s2  d3 == n3 - 1 - D * s3 * s3
             i == D * s2  f == s1 * s1 - s3 * s3
             B == i * f * F + (s1 * G3 * (n3 - v3) - s3 * G1 * (n1 - v1))
             c3 == s3 * s3 * n2 - s1 * (s3 * h2 + s2 * h3)
             c1 == s1 * s1 * n2 - s3 * (s1 * h2 + s2 * h1)
  <1>1. /\ s1 \in Int /\ s2 \in Int /\ s3 \in Int /\ h1 \in Int /\ h2 \in Int /\ h3 \in Int
        /\ n1 \in Int /\ n2 \in Int /\ n3 \in Int
        /\ F \in Int /\ G1 \in Int /\ G3 \in Int /\ Q \in Int /\ K1 \in Int /\ K3 \in Int
        /\ D \in Int
    BY PFacts DEF SumParts
  <1>2. /\ F * h3 = n3 * G3 + 2 * s3 * Q /\ F * h1 = n1 * G1 + 2 * s1 * Q
        /\ h2 * G3 = 2 * s2 * K3 - n2 * G1 /\ h2 * G1 = 2 * s2 * K1 - n2 * G3
        /\ h3 * G3 = n3 * F - 2 * s3 * K3 /\ h1 * G1 = n1 * F - 2 * s1 * K1
    BY DEF SumParts
  <1>3. /\ k1 = i * s1 /\ k3 = i * s3 /\ i \in Int /\ f \in Int /\ k1 \in Int /\ k3 \in Int
        /\ v1 \in Int /\ v3 \in Int /\ d1 \in Int /\ d2 \in Int /\ d3 \in Int
        /\ c1 \in Int /\ c3 \in Int /\ B \in Int
    <2>1. k1 = i * s1 /\ k3 = i * s3 /\ i \in Int /\ k1 \in Int /\ k3 \in Int
      BY <1>1
    <2>2. /\ v1 \in Int /\ v3 \in Int /\ d1 \in Int /\ d2 \in Int /\ d3 \in Int
          /\ c1 \in Int /\ c3 \in Int /\ f \in Int
      BY <1>1, <2>1
    <2>3. B \in Int
      <3> HIDE DEF i, f
      <3> QED BY <1>1, <2>1, <2>2
    <2> QED BY <2>1, <2>2, <2>3
  <1>4. F * (s1 * h3 - s3 * h1) = s1 * n3 * G3 - s3 * n1 * G1
    <2>1. F * (s1 * h3 - s3 * h1) = s1 * (F * h3) - s3 * (F * h1)
      BY <1>1
    <2>2. s1 * (n3 * G3 + 2 * s3 * Q) - s3 * (n1 * G1 + 2 * s1 * Q) = s1 * n3 * G3 - s3 * n1 * G1
      BY <1>1
    <2> QED BY <1>2, <2>1, <2>2
  <1>5. v3 - v1 = i * (i * f + (s1 * h3 - s3 * h1))
    BY <1>1
  <1>6. (F - k1 * G3) * v3 - (F - k3 * G1) * v1 = i * B
    <2> HIDE DEF i, f
    <2>1. (F - i * s1 * G3) * v3 - (F - i * s3 * G1) * v1
            = F * (v3 - v1) + i * (s3 * G1 * v1 - s1 * G3 * v3)
      BY <1>1, <1>3
    <2>2. F * (i * (i * f + (s1 * h3 - s3 * h1))) = i * (i * f * F + F * (s1 * h3 - s3 * h1))
      BY <1>1, <1>3
    <2>3. i * (i * f * F + (s1 * n3 * G3 - s3 * n1 * G1)) + i * (s3 * G1 * v1 - s1 * G3 * v3) = i * B
      BY <1>1, <1>3
    <2> QED BY <1>3, <1>4, <1>5, <2>1, <2>2, <2>3
  <1>7. n3 - v3 = D * c3 + (d3 - D * s3 * s3 * d2) /\ n1 - v1 = D * c1 + (d1 - D * s1 * s1 * d2)
    BY <1>1
  <1>8. s1 * G3 * c3 - s3 * G1 * c1 + s2 * f * F = s2 * F * (s3 * s3 * d1 - s1 * s1 * d3)
    <2> DEFINE m1 == h1 * G1  m2 == h2 * G3  m3 == h3 * G3  m4 == h2 * G1
    <2>1. s1 * G3 * c3 - s3 * G1 * c1
            = n2 * (s1 * s3 * s3 * G3 - s3 * s1 * s1 * G1)
                + (s3 * s3 * (s1 * m4 + s2 * m1) - s1 * s1 * (s3 * m2 + s2 * m3))
      BY <1>1
    <2>2. m1 = n1 * F - 2 * s1 * K1 /\ m2 = 2 * s2 * K3 - n2 * G1 /\ m3 = n3 * F - 2 * s3 * K3
          /\ m4 = 2 * s2 * K1 - n2 * G3
      BY <1>2
    <2> HIDE DEF m1, m2, m3, m4
    <2>3. /\ s1 * m4 + s2 * m1 = s2 * n1 * F - s1 * n2 * G3
          /\ s3 * m2 + s2 * m3 = s2 * n3 * F - s3 * n2 * G1
      <3>1. s1 * (2 * s2 * K1 - n2 * G3) + s2 * (n1 * F - 2 * s1 * K1) = s2 * n1 * F - s1 * n2 * G3
        BY <1>1
      <3>2. s3 * (2 * s2 * K3 - n2 * G1) + s2 * (n3 * F - 2 * s3 * K3) = s2 * n3 * F - s3 * n2 * G1
        BY <1>1
      <3> QED BY <2>2, <3>1, <3>2
    <2>4. n2 * (s1 * s3 * s3 * G3 - s3 * s1 * s1 * G1)
            + (s3 * s3 * (s2 * n1 * F - s1 * n2 * G3) - s1 * s1 * (s2 * n3 * F - s3 * n2 * G1))
          = s2 * F * (s3 * s3 * n1 - s1 * s1 * n3)
      BY <1>1
    <2>5. s1 * G3 * c3 - s3 * G1 * c1 = s2 * F * (s3 * s3 * n1 - s1 * s1 * n3)
      BY <2>1, <2>3, <2>4
    <2>6. s2 * F * (s3 * s3 * n1 - s1 * s1 * n3) + s2 * f * F = s2 * F * (s3 * s3 * d1 - s1 * s1 * d3)
      BY <1>1
    <2> DEFINE t1 == s1 * G3 * c3  t2 == s3 * G1 * c1  t3 == s2 * f * F
               t4 == s2 * F * (s3 * s3 * n1 - s1 * s1 * n3)
    <2>7. t1 \in Int /\ t2 \in Int /\ t3 \in Int /\ t4 \in Int /\ t1 - t2 = t4
      <3> HIDE DEF c1, c3, f
      <3> QED BY <1>1, <1>3, <2>5
    <2>8. t4 + t3 = s2 * F * (s3 * s3 * d1 - s1 * s1 * d3)
      BY <2>6
    <2> HIDE DEF t1, t2, t3, t4
    <2>9. t1 - t2 + t3 = t4 + t3
      BY <2>7
    <2> QED BY <2>8, <2>9 DEF t1, t2, t3
  <1> DEFINE e1 == D * s2 * F * s3 * s3 - s3 * G1  e3 == s1 * G3 - D * s2 * F * s1 * s1
             e2 == s3 * G1 * (D * s1 * s1) - s1 * G3 * (D * s3 * s3)
  <1>9. B = e1 * d1 + e2 * d2 + e3 * d3
    <2> DEFINE t3 == s1 * G3 * c3  t1 == s3 * G1 * c1  t2 == s2 * f * F
               r3 == s1 * G3 * (d3 - D * s3 * s3 * d2)  r1 == s3 * G1 * (d1 - D * s1 * s1 * d2)
               m == s2 * F * (s3 * s3 * d1 - s1 * s1 * d3)
    <2>1. s1 * G3 * (n3 - v3) = D * t3 + r3 /\ s3 * G1 * (n1 - v1) = D * t1 + r1
      <3> HIDE DEF c1, c3, d1, d2, d3
      <3>1. /\ s1 * G3 * (D * c3 + (d3 - D * s3 * s3 * d2)) = D * (s1 * G3 * c3) + s1 * G3 * (d3 - D * s3 * s3 * d2)
            /\ s3 * G1 * (D * c1 + (d1 - D * s1 * s1 * d2)) = D * (s3 * G1 * c1) + s3 * G1 * (d1 - D * s1 * s1 * d2)
        BY <1>1, <1>3
      <3> QED BY <1>7, <3>1
    <2>2. i * f * F = D * t2
      <3> HIDE DEF f
      <3> QED BY <1>1, <1>3
    <2>3. t1 \in Int /\ t2 \in Int /\ t3 \in Int /\ r1 \in Int /\ r3 \in Int /\ m \in Int
      <3> HIDE DEF c1, c3, d1, d2, d3, f
      <3> QED BY <1>1, <1>3
    <2>4. t3 - t1 + t2 = m
      BY <1>8
    <2>5. D * m + r3 - r1 = e1 * d1 + e2 * d2 + e3 * d3
      <3> HIDE DEF d1, d2, d3
      <3> QED BY <1>1, <1>3
    <2>6. B = D * t2 + ((D * t3 + r3) - (D * t1 + r1))
      BY <2>1, <2>2
    <2> HIDE DEF t1, t2, t3, r1, r3, m, B, e1, e2, e3, d1, d2, d3
    <2>7. D * t2 + ((D * t3 + r3) - (D * t1 + r1)) = D * (t3 - t1 + t2) + r3 - r1
      BY <1>1, <2>3
    <2> QED BY <2>4, <2>5, <2>6, <2>7
  <1>10. Zero(B)
    <2>1. e1 \in Int /\ e2 \in Int /\ e3 \in Int
      BY <1>1
    <2>2. Zero(d1) /\ Zero(d2) /\ Zero(d3)
      OBVIOUS
    <2> HIDE DEF e1, e2, e3, d1, d2, d3, B
    <2> QED BY <1>9, <2>1, <2>2, Combined3
  <1>11. Zero(i * B)
    <2> HIDE DEF i, B
    <2> QED BY <1>3, <1>10, ZeroTimes
  <1> QED BY <1>6, <1>11

(* The two coordinates of the sums of three points are an instance of it.  *)
TripleParts(x1, y1, x2, y2, x3, y3, c1, e1, c3, e3, h1, h2, h3, n1, n2, n3, F, Q) ==
    /\ x1 \in Int /\ y1 \in Int /\ x2 \in Int /\ y2 \in Int /\ x3 \in Int /\ y3 \in Int
    /\ c1 = x1 * y2 + y1 * x2 /\ e1 = y1 * y2 - A * x1 * x2
    /\ c3 = x3 * y2 + y3 * x2 /\ e3 = y3 * y2 - A * x3 * x2
    /\ h1 = y1 * y1 - A * x1 * x1 /\ h2 = y2 * y2 - A * x2 * x2 /\ h3 = y3 * y3 - A * x3 * x3
    /\ n1 = y1 * y1 + A * x1 * x1 /\ n2 = y2 * y2 + A * x2 * x2 /\ n3 = y3 * y3 + A * x3 * x3
    /\ F = c1 * y3 + e1 * x3 /\ Q = e1 * y3 - A * c1 * x3

LEMMA SumPartsAre ==
  ASSUME NEW x1, NEW y1, NEW x2, NEW y2, NEW x3, NEW y3, NEW c1, NEW e1, NEW c3, NEW e3,
         NEW h1, NEW h2, NEW h3, NEW n1, NEW n2, NEW n3, NEW F, NEW Q,
         TripleParts(x1, y1, x2, y2, x3, y3, c1, e1, c3, e3, h1, h2, h3, n1, n2, n3, F, Q)
  PROVE  /\ F = c3 * y1 + e3 * x1 /\ Q = e3 * y1 - A * c3 * x1
         /\ c1 * e1 = (x1 * y1) * h2 + (x2 * y2) * h1
         /\ c3 * e3 = (x3 * y3) * h2 + (x2 * y2) * h3
         /\ SumParts(x1 * y1, x2 * y2, x3 * y3, h1, h2, h3, n1, n2, n3, F, c3 * y1 - e3 * x1,
                     c1 * y3 - e1 * x3, Q, e3 * y1 + A * c3 * x1, e1 * y3 + A * c1 * x3)
         /\ SumParts(x1 * y1, x2 * y2, x3 * y3, - h1, - h2, - h3, n1, n2, n3, Q,
                     - (e3 * y1 + A * c3 * x1), - (e1 * y3 + A * c1 * x3), A * F,
                     - (A * (c3 * y1 - e3 * x1)), - (A * (c1 * y3 - e1 * x3)))
  <1> DEFINE s1 == x1 * y1  s2 == x2 * y2  s3 == x3 * y3
             T1 == c3 * y1 - e3 * x1  T3 == c1 * y3 - e1 * x3
             R1 == e3 * y1 + A * c3 * x1  R3 == e1 * y3 + A * c1 * x3
  <1>0. /\ x1 \in Int /\ y1 \in Int /\ x2 \in Int /\ y2 \in Int /\ x3 \in Int /\ y3 \in Int
        /\ c1 = x1 * y2 + y1 * x2 /\ e1 = y1 * y2 - A * x1 * x2
        /\ c3 = x3 * y2 + y3 * x2 /\ e3 = y3 * y2 - A * x3 * x2
        /\ h1 = y1 * y1 - A * x1 * x1 /\ h2 = y2 * y2 - A * x2 * x2 /\ h3 = y3 * y3 - A * x3 * x3
        /\ n1 = y1 * y1 + A * x1 * x1 /\ n2 = y2 * y2 + A * x2 * x2 /\ n3 = y3 * y3 + A * x3 * x3
        /\ F = c1 * y3 + e1 * x3 /\ Q = e1 * y3 - A * c1 * x3
    BY DEF TripleParts
  <1>1. /\ A \in Int /\ c1 \in Int /\ e1 \in Int /\ c3 \in Int /\ e3 \in Int
        /\ h1 \in Int /\ h2 \in Int /\ h3 \in Int /\ n1 \in Int /\ n2 \in Int /\ n3 \in Int
        /\ s1 \in Int /\ s2 \in Int /\ s3 \in Int
    BY <1>0, PFacts
  <1>2. /\ F \in Int /\ Q \in Int /\ T1 \in Int /\ T3 \in Int /\ R1 \in Int /\ R3 \in Int
    BY <1>0, <1>1
  <1>3. F = c3 * y1 + e3 * x1 /\ Q = e3 * y1 - A * c3 * x1
    BY <1>0, <1>1
  <1>4. c1 * e1 = s1 * h2 + s2 * h1 /\ c3 * e3 = s3 * h2 + s2 * h3
    BY <1>0, <1>1
  <1>5. F * h3 = n3 * T3 + 2 * s3 * Q /\ Q * h3 = n3 * R3 - 2 * s3 * (A * F)
    <2>1. (c1 * y3 + e1 * x3) * (y3 * y3 - A * x3 * x3)
            = (y3 * y3 + A * x3 * x3) * (c1 * y3 - e1 * x3) + 2 * (x3 * y3) * (e1 * y3 - A * c1 * x3)
      BY ONLY <1>0, <1>1
    <2>2. (e1 * y3 - A * c1 * x3) * (y3 * y3 - A * x3 * x3)
            = (y3 * y3 + A * x3 * x3) * (e1 * y3 + A * c1 * x3) - 2 * (x3 * y3) * (A * (c1 * y3 + e1 * x3))
      BY ONLY <1>0, <1>1
    <2> QED BY <1>0, <2>1, <2>2, Zenon
  <1>6. h3 * T3 = n3 * F - 2 * s3 * R3 /\ h3 * R3 = n3 * Q + 2 * s3 * (A * T3)
    <2>1. (y3 * y3 - A * x3 * x3) * (c1 * y3 - e1 * x3)
            = (y3 * y3 + A * x3 * x3) * (c1 * y3 + e1 * x3) - 2 * (x3 * y3) * (e1 * y3 + A * c1 * x3)
      BY ONLY <1>0, <1>1
    <2>2. (y3 * y3 - A * x3 * x3) * (e1 * y3 + A * c1 * x3)
            = (y3 * y3 + A * x3 * x3) * (e1 * y3 - A * c1 * x3) + 2 * (x3 * y3) * (A * (c1 * y3 - e1 * x3))
      BY ONLY <1>0, <1>1
    <2> QED BY <1>0, <2>1, <2>2, Zenon
  <1>7. F * h1 = n1 * T1 + 2 * s1 * Q /\ Q * h1 = n1 * R1 - 2 * s1 * (A * F)
    <2>1. (c3 * y1 + e3 * x1) * (y1 * y1 - A * x1 * x1)
            = (y1 * y1 + A * x1 * x1) * (c3 * y1 - e3 * x1) + 2 * (x1 * y1) * (e3 * y1 - A * c3 * x1)
      BY ONLY <1>0, <1>1
    <2>2. (e3 * y1 - A * c3 * x1) * (y1 * y1 - A * x1 * x1)
            = (y1 * y1 + A * x1 * x1) * (e3 * y1 + A * c3 * x1) - 2 * (x1 * y1) * (A * (c3 * y1 + e3 * x1))
      BY ONLY <1>0, <1>1
    <2> QED BY <1>0, <1>3, <2>1, <2>2, Zenon
  <1>8. h1 * T1 = n1 * F - 2 * s1 * R1 /\ h1 * R1 = n1 * Q + 2 * s1 * (A * T1)
    <2>1. (y1 * y1 - A * x1 * x1) * (c3 * y1 - e3 * x1)
            = (y1 * y1 + A * x1 * x1) * (c3 * y1 + e3 * x1) - 2 * (x1 * y1) * (e3 * y1 + A * c3 * x1)
      BY ONLY <1>0, <1>1
    <2>2. (y1 * y1 - A * x1 * x1) * (e3 * y1 + A * c3 * x1)
            = (y1 * y1 + A * x1 * x1) * (e3 * y1 - A * c3 * x1) + 2 * (x1 * y1) * (A * (c3 * y1 - e3 * x1))
      BY ONLY <1>0, <1>1
    <2> QED BY <1>0, <1>3, <2>1, <2>2, Zenon
  <1>9. h2 * T3 = 2 * s2 * R3 - n2 * T1 /\ h2 * T1 = 2 * s2 * R1 - n2 * T3
    BY <1>0, <1>1
  <1>10. h2 * R3 = n2 * R1 - 2 * s2 * (A * T3) /\ h2 * R1 = n2 * R3 - 2 * s2 * (A * T1)
    BY <1>0, <1>1
  <1>11. A * F \in Int /\ A * T1 \in Int /\ A * T3 \in Int
    BY <1>1, <1>2
  <1> HIDE DEF s1, s2, s3, T1, T3, R1, R3
  <1>12. SumParts(s1, s2, s3, h1, h2, h3, n1, n2, n3, F, T1, T3, Q, R1, R3)
    BY ONLY <1>1, <1>2, <1>5, <1>6, <1>7, <1>8, <1>9 DEF SumParts
  <1>13. SumParts(s1, s2, s3, - h1, - h2, - h3, n1, n2, n3, Q, - R1, - R3, A * F, - (A * T1), - (A * T3))
    <2> DEFINE m1 == A * F  m2 == A * T1  m3 == A * T3
    <2>1. /\ m1 \in Int /\ m2 \in Int /\ m3 \in Int /\ Q * h3 = n3 * R3 - 2 * s3 * m1
          /\ Q * h1 = n1 * R1 - 2 * s1 * m1
          /\ h3 * R3 = n3 * Q + 2 * s3 * m3 /\ h1 * R1 = n1 * Q + 2 * s1 * m2
          /\ h2 * R3 = n2 * R1 - 2 * s2 * m3 /\ h2 * R1 = n2 * R3 - 2 * s2 * m2
      BY <1>5, <1>6, <1>7, <1>8, <1>10, <1>11
    <2> HIDE DEF m1, m2, m3
    <2>2. /\ Q * (- h3) = - (Q * h3) /\ Q * (- h1) = - (Q * h1) /\ n3 * (- R3) = - (n3 * R3)
          /\ n1 * (- R1) = - (n1 * R1) /\ (- h3) * (- R3) = h3 * R3 /\ (- h1) * (- R1) = h1 * R1
          /\ (- h2) * (- R3) = h2 * R3 /\ (- h2) * (- R1) = h2 * R1
          /\ n2 * (- R1) = - (n2 * R1) /\ n2 * (- R3) = - (n2 * R3)
          /\ 2 * s3 * (- m3) = - (2 * s3 * m3) /\ 2 * s1 * (- m2) = - (2 * s1 * m2)
          /\ 2 * s2 * (- m3) = - (2 * s2 * m3) /\ 2 * s2 * (- m2) = - (2 * s2 * m2)
      BY ONLY <1>1, <1>2, <2>1
    <2>3. /\ - h1 \in Int /\ - h2 \in Int /\ - h3 \in Int /\ - R1 \in Int /\ - R3 \in Int
          /\ - m2 \in Int /\ - m3 \in Int
      BY ONLY <1>1, <1>2, <2>1
    <2> DEFINE p1 == n3 * R3  p2 == 2 * s3 * m1  p3 == n1 * R1  p4 == 2 * s1 * m1  p5 == n3 * Q
               p6 == 2 * s3 * m3  p7 == n1 * Q  p8 == 2 * s1 * m2  p9 == n2 * R1  p10 == 2 * s2 * m3
               p11 == n2 * R3  p12 == 2 * s2 * m2
    <2>4. /\ p1 \in Int /\ p2 \in Int /\ p3 \in Int /\ p4 \in Int /\ p5 \in Int /\ p6 \in Int
          /\ p7 \in Int /\ p8 \in Int /\ p9 \in Int /\ p10 \in Int /\ p11 \in Int /\ p12 \in Int
      BY ONLY <1>1, <1>2, <2>1
    <2>5. /\ - (p1 - p2) = (- p1) + p2 /\ - (p3 - p4) = (- p3) + p4
          /\ p5 + p6 = p5 - (- p6) /\ p7 + p8 = p7 - (- p8)
          /\ p9 - p10 = (- p10) - (- p9) /\ p11 - p12 = (- p12) - (- p11)
      <3> HIDE DEF p1, p2, p3, p4, p5, p6, p7, p8, p9, p10, p11, p12
      <3> QED BY ONLY <2>4
    <2>6. /\ Q * (- h3) = n3 * (- R3) + 2 * s3 * m1 /\ Q * (- h1) = n1 * (- R1) + 2 * s1 * m1
          /\ (- h3) * (- R3) = n3 * Q - 2 * s3 * (- m3) /\ (- h1) * (- R1) = n1 * Q - 2 * s1 * (- m2)
          /\ (- h2) * (- R3) = 2 * s2 * (- m3) - n2 * (- R1)
          /\ (- h2) * (- R1) = 2 * s2 * (- m2) - n2 * (- R3)
      BY ONLY <2>1, <2>2, <2>5, Zenon
    <2>7. SumParts(s1, s2, s3, - h1, - h2, - h3, n1, n2, n3, Q, - R1, - R3, m1, - m2, - m3)
      BY ONLY <1>1, <1>2, <2>1, <2>3, <2>6, Zenon DEF SumParts
    <2> QED BY <2>7 DEF m1, m2, m3
  <1> QED BY <1>3, <1>4, <1>12, <1>13 DEF s1, s2, s3, T1, T3, R1, R3

LEMMA SameFraction ==
  ASSUME NEW s \in Field, NEW t \in Field, NEW a \in Int, NEW b \in Int, NEW m \in Int, NEW n \in Int,
         ~ Zero(a), ~ Zero(b), Zero(s * a - m), Zero(t * b - n), Zero(m * b - n * a)
  PROVE  s = t
  <1>1. s \in Int /\ t \in Int /\ a * b \in Int /\ ~ Zero(a * b) /\ m * b \in Int /\ - a \in Int
    BY FieldIs, NonZeroProduct
  <1>2. s * (a * b) - m * b = b * (s * a - m)
    BY <1>1
  <1>3. t * (a * b) - m * b = a * (t * b - n) + (- 1) * (m * b - n * a)
    BY <1>1
  <1>4. Zero(s * (a * b) - m * b)
    BY <1>2, ZeroTimes
  <1>5. Zero(t * (a * b) - m * b)
    BY <1>3, Combined, - 1 \in Int
  <1> QED BY <1>1, <1>4, <1>5, SameQuotient

(* The group law of a twisted Edwards curve whose A is a square and whose  *)
(* D is none is associative: what _add computes (src/src/ecdsa/            *)
(* ellipticcurve.py) does not depend on the order of a sum.                *)
THEOREM EdwardsAssociative == Associative
  <1> SUFFICES ASSUME NEW u \in CurvePoints, NEW v \in CurvePoints, NEW w \in CurvePoints
               PROVE  RAdd(RAdd(u, v), w) = RAdd(u, RAdd(v, w))
    BY DEF Associative
  <1> DEFINE x1 == u[1]  y1 == u[2]  x2 == v[1]  y2 == v[2]  x3 == w[1]  y3 == w[2]
             c1 == x1 * y2 + y1 * x2  e1 == y1 * y2 - A * x1 * x2
             c3 == x3 * y2 + y3 * x2  e3 == y3 * y2 - A * x3 * x2
             j1 == D * x1 * x2 * y1 * y2  j3 == D * x3 * x2 * y3 * y2
             r1 == D * x3 * y3 * (c1 * e1)  r3 == D * x1 * y1 * (c3 * e3)
             s == RAdd(RAdd(u, v), w)  t == RAdd(RAdd(w, v), u)
             h1 == y1 * y1 - A * x1 * x1  h2 == y2 * y2 - A * x2 * x2  h3 == y3 * y3 - A * x3 * x3
             n1 == y1 * y1 + A * x1 * x1  n2 == y2 * y2 + A * x2 * x2  n3 == y3 * y3 + A * x3 * x3
             s1 == x1 * y1  s2 == x2 * y2  s3 == x3 * y3
             F == c1 * y3 + e1 * x3  Q == e1 * y3 - A * c1 * x3
             T1 == c3 * y1 - e3 * x1  T3 == c1 * y3 - e1 * x3
             R1 == e3 * y1 + A * c3 * x1  R3 == e1 * y3 + A * c1 * x3
             a1 == (1 - j1 * j1) + r1  a3 == (1 - j3 * j3) + r3
             b1 == (1 - j1 * j1) - r1  b3 == (1 - j3 * j3) - r3
  <1>1. RAdd(u, RAdd(v, w)) = t
    BY RAddClosed, RAddCommutes
  <1>2. /\ x1 \in Int /\ y1 \in Int /\ x2 \in Int /\ y2 \in Int /\ x3 \in Int /\ y3 \in Int
        /\ A \in Int /\ D \in Int
        /\ Zero(Off(x1, y1)) /\ Zero(Off(x2, y2)) /\ Zero(Off(x3, y3))
    BY CurvePointIs, PFacts
  <1>3. /\ c1 \in Int /\ e1 \in Int /\ j1 \in Int /\ r1 \in Int
        /\ s = <<s[1], s[2]>> /\ s[1] \in Field /\ s[2] \in Field
        /\ ~ Zero(a1) /\ ~ Zero(b1)
        /\ Zero(s[1] * a1 - (F - j1 * T3)) /\ Zero(s[2] * b1 - (Q + j1 * R3))
    <2>1. /\ c1 = u[1] * v[2] + u[2] * v[1] /\ e1 = u[2] * v[2] - A * u[1] * v[1]
          /\ j1 = D * u[1] * v[1] * u[2] * v[2] /\ r1 = D * w[1] * w[2] * (c1 * e1)
          /\ s = RAdd(RAdd(u, v), w) /\ x3 = w[1] /\ y3 = w[2]
      OBVIOUS
    <2> HIDE DEF c1, e1, j1, r1, s
    <2>2. /\ c1 \in Int /\ e1 \in Int /\ j1 \in Int /\ r1 \in Int
          /\ s = <<s[1], s[2]>> /\ s[1] \in Field /\ s[2] \in Field
          /\ ~ Zero((1 - j1 * j1) + r1) /\ ~ Zero((1 - j1 * j1) - r1)
          /\ Zero(s[1] * ((1 - j1 * j1) + r1) - ((c1 * w[2] + e1 * w[1]) - j1 * (c1 * w[2] - e1 * w[1])))
          /\ Zero(s[2] * ((1 - j1 * j1) - r1)
                   - ((e1 * w[2] - A * c1 * w[1]) + j1 * (e1 * w[2] + A * c1 * w[1])))
      BY <2>1, SumOfThree
    <2> QED BY <2>2
  <1>4. /\ c3 \in Int /\ e3 \in Int /\ j3 \in Int /\ r3 \in Int
        /\ t = <<t[1], t[2]>> /\ t[1] \in Field /\ t[2] \in Field
        /\ ~ Zero(a3) /\ ~ Zero(b3)
        /\ Zero(t[1] * a3 - ((c3 * y1 + e3 * x1) - j3 * T1))
        /\ Zero(t[2] * b3 - ((e3 * y1 - A * c3 * x1) + j3 * R1))
    <2>1. /\ c3 = w[1] * v[2] + w[2] * v[1] /\ e3 = w[2] * v[2] - A * w[1] * v[1]
          /\ j3 = D * w[1] * v[1] * w[2] * v[2] /\ r3 = D * u[1] * u[2] * (c3 * e3)
          /\ t = RAdd(RAdd(w, v), u) /\ x1 = u[1] /\ y1 = u[2]
      OBVIOUS
    <2> HIDE DEF c3, e3, j3, r3, t
    <2>2. /\ c3 \in Int /\ e3 \in Int /\ j3 \in Int /\ r3 \in Int
          /\ t = <<t[1], t[2]>> /\ t[1] \in Field /\ t[2] \in Field
          /\ ~ Zero((1 - j3 * j3) + r3) /\ ~ Zero((1 - j3 * j3) - r3)
          /\ Zero(t[1] * ((1 - j3 * j3) + r3) - ((c3 * u[2] + e3 * u[1]) - j3 * (c3 * u[2] - e3 * u[1])))
          /\ Zero(t[2] * ((1 - j3 * j3) - r3)
                   - ((e3 * u[2] - A * c3 * u[1]) + j3 * (e3 * u[2] + A * c3 * u[1])))
      BY <2>1, SumOfThree
    <2> QED BY <2>2
  <1> HIDE DEF x1, y1, x2, y2, x3, y3, s, t
  <1>5. /\ F = c3 * y1 + e3 * x1 /\ Q = e3 * y1 - A * c3 * x1
        /\ c1 * e1 = s1 * h2 + s2 * h1 /\ c3 * e3 = s3 * h2 + s2 * h3
        /\ SumParts(s1, s2, s3, h1, h2, h3, n1, n2, n3, F, T1, T3, Q, R1, R3)
        /\ SumParts(s1, s2, s3, - h1, - h2, - h3, n1, n2, n3, Q, - R1, - R3, A * F, - (A * T1), - (A * T3))
    <2> HIDE DEF c1, e1, c3, e3, h1, h2, h3, n1, n2, n3, F, Q
    <2>1. TripleParts(x1, y1, x2, y2, x3, y3, c1, e1, c3, e3, h1, h2, h3, n1, n2, n3, F, Q)
      BY <1>2 DEF TripleParts, c1, e1, c3, e3, h1, h2, h3, n1, n2, n3, F, Q
    <2> QED BY <2>1, SumPartsAre
  <1>6. Zero(n1 - 1 - D * s1 * s1) /\ Zero(n2 - 1 - D * s2 * s2) /\ Zero(n3 - 1 - D * s3 * s3)
    <2>1. /\ n1 - 1 - D * s1 * s1 = Off(x1, y1) /\ n2 - 1 - D * s2 * s2 = Off(x2, y2)
          /\ n3 - 1 - D * s3 * s3 = Off(x3, y3)
      BY <1>2 DEF Off
    <2> QED BY <1>2, <2>1
  <1>7. j1 = D * s1 * s2 /\ j3 = D * s3 * s2 /\ r1 = D * s3 * (c1 * e1) /\ r3 = D * s1 * (c3 * e3)
    <2>1. j1 = D * s1 * s2 /\ j3 = D * s3 * s2
      BY <1>2
    <2> HIDE DEF c1, e1, c3, e3
    <2>2. r1 = D * s3 * (c1 * e1) /\ r3 = D * s1 * (c3 * e3)
      BY <1>2, <1>3, <1>4
    <2> QED BY <2>1, <2>2
  <1>8. /\ s1 \in Int /\ s2 \in Int /\ s3 \in Int /\ h1 \in Int /\ h2 \in Int /\ h3 \in Int
        /\ F \in Int /\ Q \in Int /\ T1 \in Int /\ T3 \in Int /\ R1 \in Int /\ R3 \in Int
    <2>1. s1 \in Int /\ s2 \in Int /\ s3 \in Int /\ h1 \in Int /\ h2 \in Int /\ h3 \in Int
      BY <1>2
    <2> HIDE DEF c1, e1, c3, e3
    <2>2. F \in Int /\ Q \in Int /\ T1 \in Int /\ T3 \in Int /\ R1 \in Int /\ R3 \in Int
      BY <1>2, <1>3, <1>4
    <2> QED BY <2>1, <2>2
  <1>9. /\ a1 = (1 - j1 * j1) + D * s3 * (s1 * h2 + s2 * h1)
        /\ a3 = (1 - j3 * j3) + D * s1 * (s3 * h2 + s2 * h3)
        /\ a1 \in Int /\ a3 \in Int /\ b1 \in Int /\ b3 \in Int
    <2> HIDE DEF j1, j3, r1, r3
    <2>1. a1 \in Int /\ a3 \in Int /\ b1 \in Int /\ b3 \in Int
      BY <1>3, <1>4
    <2> QED BY <1>5, <1>7, <2>1
  <1>10. /\ b1 = (1 - j1 * j1) + D * s3 * (s1 * (- h2) + s2 * (- h1))
         /\ b3 = (1 - j3 * j3) + D * s1 * (s3 * (- h2) + s2 * (- h3))
    <2> HIDE DEF j1, j3, r1, r3, s1, s2, s3, h1, h2, h3, c1, c3, e1, e3
    <2>1. /\ D * s3 * (s1 * (- h2) + s2 * (- h1)) = - (D * s3 * (s1 * h2 + s2 * h1))
          /\ D * s1 * (s3 * (- h2) + s2 * (- h3)) = - (D * s1 * (s3 * h2 + s2 * h3))
      BY <1>2, <1>8
    <2>2. r1 = D * s3 * (s1 * h2 + s2 * h1) /\ r3 = D * s1 * (s3 * h2 + s2 * h3)
      BY <1>5, <1>7
    <2>3. (1 - j1 * j1) - r1 = (1 - j1 * j1) + (- r1) /\ (1 - j3 * j3) - r3 = (1 - j3 * j3) + (- r3)
      BY <1>3, <1>4
    <2> QED BY <2>1, <2>2, <2>3
  <1> HIDE DEF j1, j3, r1, r3, s1, s2, s3, h1, h2, h3, n1, n2, n3, c1, c3, e1, e3, F, Q, T1, T3, R1, R3,
               a1, a3, b1, b3
  <1>11. Zero((F - j1 * T3) * a3 - (F - j3 * T1) * a1)
    BY <1>5, <1>6, <1>7, <1>9, CrossProducts
  <1>12. Zero((Q + j1 * R3) * b3 - (Q + j3 * R1) * b1)
    <2>1. Zero((Q - j1 * (- R3)) * b3 - (Q - j3 * (- R1)) * b1)
      BY <1>5, <1>6, <1>7, <1>10, CrossProducts
    <2>2. Q - j1 * (- R3) = Q + j1 * R3 /\ Q - j3 * (- R1) = Q + j3 * R1
      BY <1>3, <1>4, <1>8
    <2> QED BY <2>1, <2>2
  <1>13. s[1] = t[1] /\ s[2] = t[2]
    <2> DEFINE m1 == F - j1 * T3  m3 == F - j3 * T1  l1 == Q + j1 * R3  l3 == Q + j3 * R1
    <2>1. /\ m1 \in Int /\ m3 \in Int /\ l1 \in Int /\ l3 \in Int
          /\ Zero(s[1] * a1 - m1) /\ Zero(t[1] * a3 - m3) /\ Zero(m1 * a3 - m3 * a1)
          /\ Zero(s[2] * b1 - l1) /\ Zero(t[2] * b3 - l3) /\ Zero(l1 * b3 - l3 * b1)
      BY <1>3, <1>4, <1>5, <1>8, <1>11, <1>12
    <2> HIDE DEF m1, m3, l1, l3
    <2>2. s[1] = t[1]
      <3>1. /\ s[1] \in Field /\ t[1] \in Field /\ a1 \in Int /\ a3 \in Int /\ ~ Zero(a1) /\ ~ Zero(a3)
        BY <1>3, <1>4, <1>9
      <3> QED BY ONLY <2>1, <3>1, SameFraction
    <2>3. s[2] = t[2]
      <3>1. /\ s[2] \in Field /\ t[2] \in Field /\ b1 \in Int /\ b3 \in Int /\ ~ Zero(b1) /\ ~ Zero(b3)
        BY <1>3, <1>4, <1>9
      <3> QED BY ONLY <2>1, <3>1, SameFraction
    <2> QED BY <2>2, <2>3
  <1>14. s = t
    BY <1>3, <1>4, <1>13
  <1> QED BY <1>1, <1>14 DEF s

(* The opposite of a point.                                                *)
Opposite(u) == <<(- u[1]) % P, u[2]>>

LEMMA OppositeIs ==
  ASSUME NEW u \in CurvePoints
  PROVE  Opposite(u) \in CurvePoints /\ RAdd(u, Opposite(u)) = O
  <1> DEFINE x == u[1]  y == u[2]  m == (- u[1]) % P  v == Opposite(u)
             w == D * u[1] * v[1] * u[2] * v[2]
  <1>1. /\ x \in Int /\ y \in Int /\ y \in Field /\ Zero(Off(x, y)) /\ - x \in Int
        /\ A \in Int /\ D \in Int
    BY CurvePointIs, PFacts
  <1>2. m \in Field /\ m \in Int /\ Congruent(m, - x) /\ v[1] = m /\ v[2] = y
    BY <1>1, ZeroMod, SameSelf DEF Opposite
  <1>3. w = D * x * m * y * y
    BY <1>2
  <1> HIDE DEF m, x, y, w
  <1>4. Zero(m + x)
    <2>1. m + x = m - (- x)
      BY <1>1, <1>2
    <2> QED BY <1>2, <2>1 DEF Congruent
  <1>5. Zero(Off(m, y))
    <2> DEFINE c == (A - D * y * y) * (m - x)
    <2>1. Off(m, y) = 1 * Off(x, y) + c * (m + x)
      BY <1>1, <1>2 DEF Off
    <2>2. c \in Int
      BY <1>1, <1>2
    <2> HIDE DEF c
    <2> QED BY <1>1, <1>4, <2>1, <2>2, Combined, 1 \in Int
  <1>6. v \in CurvePoints
    BY <1>1, <1>2, <1>5, CurvePointOf DEF Opposite, m, y
  <1>7. 0 * (1 + w) - (x * y + y * m) = (- y) * (m + x) /\ - y \in Int /\ w \in Int
    BY <1>1, <1>2, <1>3
  <1>8. Zero(0 * (1 + w) - (x * v[2] + y * v[1]))
    BY <1>2, <1>4, <1>7, ZeroTimes
  <1>9. Zero(1 * (1 - w) - (y * v[2] - A * x * v[1]))
    <2> DEFINE c == A * x - D * x * y * y
    <2>1. 1 * (1 - w) - (y * y - A * x * m) = (- 1) * Off(x, y) + c * (m + x)
      BY <1>1, <1>2, <1>3 DEF Off
    <2>2. c \in Int
      BY <1>1
    <2> HIDE DEF c
    <2>3. Zero((- 1) * Off(x, y) + c * (m + x))
      BY <1>1, <1>4, <2>2, Combined, - 1 \in Int
    <2> QED BY <1>2, <2>1, <2>3
  <1>10. RAdd(u, v) = <<0, 1>>
    <2>1. w = D * u[1] * v[1] * u[2] * v[2]
      BY DEF w
    <2> HIDE DEF v
    <2> QED BY <1>6, <1>8, <1>9, <2>1, OIs, RAddUnique DEF x, y
  <1> QED BY <1>6, <1>10 DEF O

----------------------------------------------------------------------------
(* The multiples of the generator.                                         *)
LEMMA RMulIs ==
  /\ RMul(0) = O
  /\ \A n \in Nat : RMul(n) \in CurvePoints /\ RMul(n + 1) = RAdd(RMul(n), <<BaseX, BaseY>>)
  <1> DEFINE B == <<BaseX, BaseY>>
             F(f) == [n \in Nat |-> IF n = 0 THEN O ELSE RAdd(f[n - 1], B)]
             times == CHOOSE f : f = F(f)
             next == [n \in Nat |-> IF n = 0 THEN 0 ELSE n - 1]
             size == [n \in Nat |-> n]
             base == [n \in Nat |-> O]
             step == [r \in Nat \X CurvePoints |-> RAdd(r[2], B)]
             Start == {0}
  <1>1. /\ next \in [Nat -> Nat] /\ size \in [Nat -> Nat] /\ base \in [Nat -> CurvePoints]
        /\ step \in [Nat \X CurvePoints -> CurvePoints] /\ Decreases(Nat, Start, next, size)
    <2>1. next \in [Nat -> Nat] /\ Decreases(Nat, Start, next, size)
      BY DEF Decreases
    <2>2. base \in [Nat -> CurvePoints]
      BY OIs
    <2>3. \A r \in Nat \X CurvePoints : RAdd(r[2], B) \in CurvePoints
      BY RAddClosed, BaseIs
    <2> QED BY <2>1, <2>2, <2>3
  <1>2. PICK g \in [Nat -> CurvePoints] : Solves(g, Nat, Start, next, base, step)
    <2> HIDE DEF next, size, base, step, Start, F, times
    <2> QED BY <1>1, Recursion
  <1>3. ASSUME NEW n \in Nat PROVE g[n] = IF n = 0 THEN O ELSE RAdd(g[n - 1], B)
    <2>1. CASE n = 0
      BY <1>2, <2>1 DEF Solves
    <2>2. CASE n # 0
      <3>1. next[n] = n - 1 /\ n - 1 \in Nat /\ g[n - 1] \in CurvePoints
        BY <2>2
      <3>2. step[<<n, g[n - 1]>>] = RAdd(g[n - 1], B)
        <4>1. <<n, g[n - 1]>> \in Nat \X CurvePoints /\ <<n, g[n - 1]>>[2] = g[n - 1]
          BY <3>1
        <4> QED BY <4>1
      <3> QED BY <1>2, <2>2, <3>1, <3>2 DEF Solves
    <2> QED BY <2>1, <2>2
  <1>4. g = F(g)
    BY <1>3
  <1>5. times = F(times)
    <2> HIDE DEF F
    <2> QED BY <1>4
  <1>6. \A n \in Nat : RMul(n) = times[n]
    BY DEF RMul
  <1> HIDE DEF times, B
  <1>7. \A n \in Nat : times[n] = IF n = 0 THEN O ELSE RAdd(times[n - 1], B)
    BY <1>5
  <1>8. ASSUME NEW n \in Nat, n # 0, times[n - 1] \in CurvePoints PROVE times[n] \in CurvePoints
    BY <1>7, <1>8, RAddClosed, BaseIs DEF B
  <1> DEFINE T == {n \in Nat : times[n] \notin CurvePoints}
  <1>9. T = {}
    <2> SUFFICES ASSUME T # {} PROVE FALSE
      OBVIOUS
    <2>1. PICK n \in T : \A m \in T : n <= m
      <3>1. T \in SUBSET Nat
        OBVIOUS
      <3> HIDE DEF T
      <3> QED BY <3>1, NatMin
    <2>2. n \in Nat /\ times[n] \notin CurvePoints /\ n # 0
      BY <1>7, OIs
    <2>3. n - 1 \in Nat /\ n - 1 \notin T
      <3> HIDE DEF T
      <3> QED BY <2>1, <2>2
    <2> QED BY <1>8, <2>2, <2>3
  <1>10. \A n \in Nat : times[n] \in CurvePoints
    BY <1>9
  <1> HIDE DEF T
  <1>11. ASSUME NEW n \in Nat PROVE times[n + 1] = RAdd(times[n], B)
    <2>1. n + 1 \in Nat /\ n + 1 # 0 /\ n + 1 - 1 = n
      OBVIOUS
    <2> QED BY <1>7, <2>1
  <1>12. RMul(0) = O
    BY <1>6, <1>7
  <1>13. ASSUME NEW n \in Nat PROVE RMul(n) \in CurvePoints /\ RMul(n + 1) = RAdd(RMul(n), B)
    <2>1. n + 1 \in Nat
      OBVIOUS
    <2> QED BY <1>6, <1>10, <1>11, <2>1
  <1> QED BY <1>12, <1>13 DEF B

LEMMA RMulSum ==
  ASSUME NEW m \in Nat, NEW n \in Nat
  PROVE  RMul(m + n) = RAdd(RMul(m), RMul(n))
  <1> DEFINE T == {j \in Nat : RMul(m + j) # RAdd(RMul(m), RMul(j))}  B == <<BaseX, BaseY>>
  <1>1. T = {}
    <2> SUFFICES ASSUME T # {} PROVE FALSE
      OBVIOUS
    <2>1. PICK j \in T : \A i \in T : j <= i
      <3>1. T \in SUBSET Nat
        OBVIOUS
      <3> HIDE DEF T
      <3> QED BY <3>1, NatMin
    <2>2. j \in Nat /\ RMul(m + j) # RAdd(RMul(m), RMul(j))
      OBVIOUS
    <2>3. j # 0
      BY <2>2, RMulIs, RAddO
    <2> DEFINE i == j - 1
    <2>4. i \in Nat /\ j = i + 1 /\ m + j = (m + i) + 1 /\ m + i \in Nat /\ i < j
      BY <2>2, <2>3
    <2>5. i \notin T
      <3> HIDE DEF T, i
      <3> QED BY <2>1, <2>2, <2>4
    <2>6. RMul(m + i) = RAdd(RMul(m), RMul(i))
      BY <2>4, <2>5
    <2> HIDE DEF T, i
    <2>7. /\ RMul(m + j) = RAdd(RAdd(RMul(m), RMul(i)), B) /\ RMul(j) = RAdd(RMul(i), B)
          /\ RMul(m) \in CurvePoints /\ RMul(i) \in CurvePoints /\ B \in CurvePoints
      BY <2>4, <2>6, RMulIs, BaseIs
    <2> HIDE DEF B
    <2>8. RAdd(RAdd(RMul(m), RMul(i)), B) = RAdd(RMul(m), RAdd(RMul(i), B))
      BY <2>7, EdwardsAssociative, Zenon DEF Associative
    <2> QED BY <2>2, <2>7, <2>8
  <1> QED BY <1>1

LEMMA OrderIs == Order \in Nat \ {0} /\ Order \in Int /\ Order > 2 /\ Order % 2 = 1
  BY EdwardsAssumption

LEMMA RMulReduced ==
  ASSUME NEW k \in Nat
  PROVE  RMul(k % Order) = RMul(k)
  <1> DEFINE T == {j \in Nat : RMul(j % Order) # RMul(j)}
  <1>1. T = {}
    <2> SUFFICES ASSUME T # {} PROVE FALSE
      OBVIOUS
    <2>1. PICK j \in T : \A i \in T : j <= i
      <3>1. T \in SUBSET Nat
        OBVIOUS
      <3> HIDE DEF T
      <3> QED BY <3>1, NatMin
    <2>2. j \in Nat /\ RMul(j % Order) # RMul(j)
      OBVIOUS
    <2>3. ~ (j < Order)
      BY <2>2, OrderIs, RemainderOfSmall
    <2> DEFINE i == j - Order
    <2>4. i \in Nat /\ j = i + Order /\ i < j /\ j = i + 1 * Order
      BY <2>2, <2>3, OrderIs
    <2>5. i \notin T
      <3> HIDE DEF T, i
      <3> QED BY <2>1, <2>2, <2>4
    <2>6. RMul(i % Order) = RMul(i)
      BY <2>4, <2>5
    <2> HIDE DEF T, i
    <2>7. j % Order = i % Order
      <3>1. j \in Int /\ i \in Int /\ 1 \in Int /\ Order \in Nat \ {0} /\ j = i + 1 * Order
        BY <2>2, <2>4, OrderIs
      <3> QED BY <3>1, SameRemainder, Zenon
    <2>8. RMul(j) = RAdd(RMul(i), RMul(Order)) /\ RMul(i) \in CurvePoints
      BY <2>4, OrderIs, RMulSum, RMulIs
    <2>9. RMul(j) = RMul(i)
      BY <2>8, GeneratorAssumption, RAddO
    <2> QED BY <2>2, <2>6, <2>7, <2>9
  <1> QED BY <1>1

(* The multiple by any integer.                                            *)
TimesBase(k) == RMul(k % Order)

LEMMA TimesIs ==
  /\ \A k \in Int : TimesBase(k) \in CurvePoints /\ k % Order \in Nat /\ k % Order < Order
  /\ TimesBase(0) = O
  <1>1. ASSUME NEW k \in Int PROVE k % Order \in Nat /\ k % Order < Order
    BY OrderIs, DivMod
  <1>2. 0 % Order = 0
    BY OrderIs, RemainderOfSmall
  <1> QED BY <1>1, <1>2, RMulIs DEF TimesBase

LEMMA TimesSame ==
  ASSUME NEW j \in Int, NEW k \in Int, j % Order = k % Order
  PROVE  TimesBase(j) = TimesBase(k)
  BY DEF TimesBase

LEMMA TimesSum ==
  ASSUME NEW j \in Int, NEW k \in Int
  PROVE  TimesBase(j + k) = RAdd(TimesBase(j), TimesBase(k))
  <1> DEFINE m == j % Order  n == k % Order
  <1>1. m \in Nat /\ n \in Nat
    BY TimesIs
  <1>2. (j + k) % Order = (m + n) % Order
    <2>1. (m + k) % Order = (j + k) % Order
      BY OrderIs, ReduceTerm
    <2>2. (n + m) % Order = (k + m) % Order
      <3>1. m \in Int
        BY <1>1
      <3> HIDE DEF m
      <3> QED BY <3>1, OrderIs, ReduceTerm, Zenon
    <2>3. n + m = m + n /\ k + m = m + k
      BY <1>1
    <2> QED BY <2>1, <2>2, <2>3
  <1> HIDE DEF m, n
  <1>3. RMul((m + n) % Order) = RMul(m + n) /\ RMul(m + n) = RAdd(RMul(m), RMul(n))
    BY <1>1, RMulReduced, RMulSum
  <1> QED BY <1>2, <1>3 DEF TimesBase, m, n

(* Order is the smallest number that takes the generator to O.             *)
LEMMA TimesZero ==
  ASSUME NEW k \in Int
  PROVE  TimesBase(k) = O <=> k % Order = 0
  <1>1. k % Order \in Nat /\ k % Order < Order
    BY TimesIs
  <1>2. k % Order = 0 \/ k % Order \in 1 .. Order - 1
    BY <1>1, OrderIs
  <1> QED BY <1>2, RMulIs, GeneratorAssumption DEF TimesBase

LEMMA TimesNegative ==
  ASSUME NEW k \in Int
  PROVE  /\ TimesBase(- k) = Opposite(TimesBase(k))
         /\ RAdd(TimesBase(k), TimesBase(- k)) = O
  <1> DEFINE u == TimesBase(k)  v == TimesBase(- k)  w == Opposite(u)
  <1>1. - k \in Int /\ - k + k = 0 /\ k + - k = 0
    OBVIOUS
  <1>2. u \in CurvePoints /\ v \in CurvePoints /\ w \in CurvePoints /\ RAdd(u, w) = O
    BY <1>1, TimesIs, OppositeIs
  <1>3. RAdd(v, u) = O /\ RAdd(u, v) = O
    BY <1>1, TimesSum, TimesIs
  <1> HIDE DEF u, v, w
  <1>4. RAdd(RAdd(v, u), w) = RAdd(v, RAdd(u, w))
    BY <1>2, EdwardsAssociative, Zenon DEF Associative
  <1>5. RAdd(O, w) = w
    BY <1>2, OIs, RAddO, RAddCommutes
  <1>6. RAdd(v, O) = v
    BY <1>2, RAddO
  <1>7. v = w
    BY <1>2, <1>3, <1>4, <1>5, <1>6
  <1> QED BY <1>3, <1>7 DEF u, v, w

(* Different multiples are different.                                      *)
LEMMA TimesDiffer ==
  ASSUME NEW j \in Int, NEW k \in Int
  PROVE  TimesBase(j) = TimesBase(k) <=> j % Order = k % Order
  <1>1. ASSUME TimesBase(j) = TimesBase(k) PROVE j % Order = k % Order
    <2>1. - k \in Int /\ j - k \in Int /\ j - k = j + - k
      OBVIOUS
    <2>2. TimesBase(j - k) = RAdd(TimesBase(j), TimesBase(- k))
      BY <2>1, TimesSum
    <2>3. TimesBase(j - k) = O
      BY <1>1, <2>2, TimesNegative
    <2>4. (j - k) % Order = 0
      BY <2>1, <2>3, TimesZero
    <2> QED BY <2>4, OrderIs, DifferenceZero
  <1> QED BY <1>1, TimesSame

LEMMA HalfOfMultiple ==
  ASSUME NEW k \in Int, (2 * k) % Order = 0
  PROVE  k % Order = 0
  <1> DEFINE m == 2 * k  w == m \div Order  h == Order \div 2
  <1>1. m \in Int /\ m % Order = 0
    OBVIOUS
  <1> HIDE DEF m
  <1>2. w \in Int /\ m = Order * w
    BY <1>1, OrderIs, DivMod
  <1>3. h \in Int /\ Order = 2 * h + 1 /\ Order \in Int
    BY OrderIs, DivMod
  <1> HIDE DEF w, h
  <1>4. w = 2 * (k - h * w)
    <2>1. 2 * k = (2 * h + 1) * w
      BY <1>2, <1>3 DEF m
    <2>2. (2 * h + 1) * w = 2 * (h * w) + w
      BY <1>2, <1>3
    <2>3. h * w \in Int
      BY <1>2, <1>3
    <2> QED BY <1>2, <2>1, <2>2, <2>3
  <1> DEFINE r == k - h * w
  <1>5. r \in Int /\ w = 2 * r
    BY <1>2, <1>3, <1>4
  <1> HIDE DEF r
  <1>6. 2 * k = 2 * (r * Order)
    <2>1. Order * (2 * r) = 2 * (r * Order)
      BY <1>3, <1>5
    <2> QED BY <1>2, <1>5, <2>1 DEF m
  <1>7. k = r * Order
    <2>1. r * Order \in Int
      BY <1>3, <1>5
    <2> QED BY <1>6, <2>1
  <1> QED BY <1>5, <1>7, OrderIs, MultipleOf

(* No multiple of the generator has the order two or four: as Order is     *)
(* odd, only O has the coordinate x = 0, and none has y = 0.               *)
LEMMA XIsZero ==
  ASSUME NEW k \in Int, Zero(TimesBase(k)[1])
  PROVE  k % Order = 0
  <1> DEFINE u == TimesBase(k)  w == D * u[1] * u[1] * u[2] * u[2]
  <1>1. /\ u \in CurvePoints /\ u[1] \in Field /\ u[2] \in Int /\ Zero(Off(u[1], u[2]))
        /\ A \in Int /\ D \in Int
    BY TimesIs, CurvePointIs, PFacts
  <1>2. u[1] = 0
    BY <1>1, FieldZero
  <1>3. w = 0 /\ u[1] * u[2] + u[2] * u[1] = 0 /\ u[2] * u[2] - A * u[1] * u[1] = Off(u[1], u[2]) + 1
    BY <1>1, <1>2 DEF Off
  <1>4. w = D * u[1] * u[1] * u[2] * u[2]
    OBVIOUS
  <1> HIDE DEF w, u
  <1>5. Zero(0 * (1 + w) - (u[1] * u[2] + u[2] * u[1]))
    BY <1>3, ZeroNone
  <1>6. Zero(1 * (1 - w) - (u[2] * u[2] - A * u[1] * u[1]))
    <2>1. 1 * (1 - w) - (u[2] * u[2] - A * u[1] * u[1]) = (- 1) * Off(u[1], u[2])
      <3> DEFINE d == u[2] * u[2] - A * u[1] * u[1]  e == Off(u[1], u[2])
      <3>1. w = 0 /\ d = e + 1 /\ e \in Int
        BY <1>1, <1>3, ZeroType
      <3> HIDE DEF d, e
      <3>2. 1 * (1 - w) - d = (- 1) * e
        BY ONLY <3>1
      <3> QED BY <3>2 DEF d, e
    <2> QED BY <1>1, <2>1, ZeroTimes, - 1 \in Int
  <1>7. RAdd(u, u) = <<0, 1>>
    BY <1>1, <1>4, <1>5, <1>6, OIs, RAddUnique
  <1>8. 2 * k = k + k /\ 2 * k \in Int
    OBVIOUS
  <1>9. TimesBase(2 * k) = O
    BY <1>7, <1>8, TimesSum DEF u, O
  <1> QED BY <1>8, <1>9, TimesZero, HalfOfMultiple

LEMMA YIsNotZero ==
  ASSUME NEW k \in Int
  PROVE  ~ Zero(TimesBase(k)[2])
  <1> SUFFICES ASSUME Zero(TimesBase(k)[2]) PROVE FALSE
    OBVIOUS
  <1> DEFINE u == TimesBase(k)  w == D * u[1] * u[1] * u[2] * u[2]  m == (- 1) % P
  <1>1. /\ u \in CurvePoints /\ u[2] \in Field /\ u[1] \in Int /\ Zero(Off(u[1], u[2]))
        /\ A \in Int /\ D \in Int
    BY TimesIs, CurvePointIs, PFacts
  <1>2. u[2] = 0
    BY <1>1, FieldZero
  <1>3. w = 0 /\ u[1] * u[2] + u[2] * u[1] = 0
        /\ u[2] * u[2] - A * u[1] * u[1] = - (Off(u[1], u[2]) + 1)
    BY <1>1, <1>2 DEF Off
  <1>4. w = D * u[1] * u[1] * u[2] * u[2] /\ m \in Field /\ m \in Int /\ Zero(m - (- 1))
    BY ZeroMod, - 1 \in Int
  <1> HIDE DEF w, u, m
  <1>5. Zero(0 * (1 + w) - (u[1] * u[2] + u[2] * u[1]))
    BY <1>3, ZeroNone
  <1>6. Zero(m * (1 - w) - (u[2] * u[2] - A * u[1] * u[1]))
    <2>1. m * (1 - w) - (u[2] * u[2] - A * u[1] * u[1]) = (m - (- 1)) + Off(u[1], u[2])
      <3> DEFINE d == u[2] * u[2] - A * u[1] * u[1]  e == Off(u[1], u[2])
      <3>1. w = 0 /\ d = - (e + 1) /\ e \in Int /\ m \in Int
        BY <1>1, <1>3, <1>4, ZeroType
      <3> HIDE DEF d, e
      <3>2. m * (1 - w) - d = (m - (- 1)) + e
        BY ONLY <3>1
      <3> QED BY <3>2 DEF d, e
    <2> QED BY <1>1, <1>4, <2>1, ZeroSum
  <1>7. RAdd(u, u) = <<0, m>>
    BY <1>1, <1>4, <1>5, <1>6, OIs, RAddUnique
  <1>8. 2 * k = k + k /\ 2 * k \in Int
    OBVIOUS
  <1>9. TimesBase(2 * k) = <<0, m>>
    BY <1>7, <1>8, TimesSum DEF u
  <1>10. Zero(TimesBase(2 * k)[1])
    BY <1>9, ZeroNone
  <1>11. TimesBase(k) = O
    BY <1>8, <1>10, XIsZero, HalfOfMultiple, TimesZero
  <1> QED BY <1>2, <1>11, OIs DEF u

----------------------------------------------------------------------------
(* The formulas of the code.                                               *)
LEMMA SameMod2 ==
  ASSUME NEW a, NEW b, Congruent(a, b)
  PROVE  Congruent(a % P, b) /\ a % P \in Field /\ a % P \in Int
  <1>1. a \in Int
    BY DEF Congruent
  <1>2. Congruent(a % P, a) /\ a % P \in Field /\ a % P \in Int
    BY <1>1, SameSelf, ZeroMod
  <1> QED BY <1>2, SameChain

(* Extended coordinates of a point, with any z.                            *)
At(c, u) ==
    /\ c \in Coords /\ c[1] \in Int /\ c[2] \in Int /\ c[3] \in Int /\ c[4] \in Int
    /\ ~ Zero(c[3])
    /\ Congruent(c[1], u[1] * c[3]) /\ Congruent(c[2], u[2] * c[3])
    /\ Congruent(c[4], u[1] * u[2] * c[3])

InField(c) == c[1] \in Field /\ c[2] \in Field /\ c[3] \in Field /\ c[4] \in Field

LEMMA CoordsAre ==
  ASSUME NEW a \in Int, NEW b \in Int, NEW c \in Int, NEW d \in Int
  PROVE  /\ <<a, b, c, d>> \in Coords
         /\ <<a, b, c, d>>[1] = a /\ <<a, b, c, d>>[2] = b
         /\ <<a, b, c, d>>[3] = c /\ <<a, b, c, d>>[4] = d
  BY DEF Coords

LEMMA ProductIs ==
  ASSUME NEW E \in Int, NEW F \in Int, NEW G \in Int, NEW H \in Int, NEW s \in CurvePoints,
         ~ Zero(F), ~ Zero(G), Congruent(E, s[1] * G), Congruent(H, s[2] * F)
  PROVE  At(Product(E, F, G, H), s) /\ InField(Product(E, F, G, H))
  <1> DEFINE x == (E * F) % P  y == (G * H) % P  z == (F * G) % P  t == (E * H) % P
             c == Product(E, F, G, H)
  <1>1. s[1] \in Int /\ s[2] \in Int
    BY CurvePointIs
  <1>2. E * F \in Int /\ G * H \in Int /\ F * G \in Int /\ E * H \in Int
    OBVIOUS
  <1>3. /\ Congruent(x, E * F) /\ Congruent(y, G * H) /\ Congruent(z, F * G) /\ Congruent(t, E * H)
        /\ x \in Field /\ y \in Field /\ z \in Field /\ t \in Field
        /\ x \in Int /\ y \in Int /\ z \in Int /\ t \in Int
    BY <1>2, SameSelf, ZeroMod
  <1>4. c = <<x, y, z, t>>
    BY DEF Product
  <1> HIDE DEF x, y, z, t, c
  <1>5. Congruent(F, F) /\ Congruent(G, G) /\ Congruent(F * G, z)
        /\ Congruent(s[1], s[1]) /\ Congruent(s[2], s[2])
    BY <1>1, <1>3, SameSelf, SameChain
  <1>6. Congruent(x, s[1] * z)
    <2>1. Congruent(E * F, (s[1] * G) * F)
      BY <1>5, SameProduct
    <2>2. (s[1] * G) * F = s[1] * (F * G)
      BY <1>1
    <2>3. Congruent(s[1] * (F * G), s[1] * z)
      BY <1>5, SameProduct
    <2> QED BY <1>3, <2>1, <2>2, <2>3, SameChain
  <1>7. Congruent(y, s[2] * z)
    <2>1. Congruent(G * H, G * (s[2] * F))
      BY <1>5, SameProduct
    <2>2. G * (s[2] * F) = s[2] * (F * G)
      BY <1>1
    <2>3. Congruent(s[2] * (F * G), s[2] * z)
      BY <1>5, SameProduct
    <2> QED BY <1>3, <2>1, <2>2, <2>3, SameChain
  <1>8. Congruent(t, s[1] * s[2] * z)
    <2>1. Congruent(E * H, (s[1] * G) * (s[2] * F))
      BY SameProduct
    <2>2. (s[1] * G) * (s[2] * F) = (s[1] * s[2]) * (F * G)
      BY <1>1
    <2>3. Congruent(s[1] * s[2], s[1] * s[2])
      BY <1>5, SameProduct
    <2>4. Congruent((s[1] * s[2]) * (F * G), (s[1] * s[2]) * z)
      BY <1>5, <2>3, SameProduct
    <2> QED BY <1>3, <2>1, <2>2, <2>4, SameChain
  <1>9. ~ Zero(z)
    BY <1>3, NonZeroProduct, SameZero
  <1>10. c \in Coords /\ c[1] = x /\ c[2] = y /\ c[3] = z /\ c[4] = t
    BY <1>3, <1>4, CoordsAre
  <1> QED BY <1>3, <1>6, <1>7, <1>8, <1>9, <1>10 DEF At, InField, c

LEMMA SameMul ==
  ASSUME NEW x, NEW a, NEW y, NEW b, NEW z, NEW c \in Int, NEW d \in Int,
         Congruent(x, a * c), Congruent(y, b * d), a \in Int, b \in Int, z = c * d
  PROVE  Congruent(x * y, (a * b) * z)
  <1>1. Congruent(x * y, (a * c) * (b * d))
    BY SameProduct
  <1>2. (a * c) * (b * d) = (a * b) * z
    OBVIOUS
  <1> QED BY <1>1, <1>2

LEMMA SameFlip == ASSUME NEW a, NEW b, Congruent(a, b) PROVE Congruent(b, a)
  BY SameIs DEF Congruent

LEMMA SameMeet ==
  ASSUME NEW a, NEW b, NEW c, Congruent(a, c), Congruent(b, c)
  PROVE  Congruent(a, b)
  BY SameIs DEF Congruent

LEMMA SameTimes ==
  ASSUME NEW s \in Int, NEW b \in Int, NEW n \in Int, NEW z \in Int, Zero(s * b - n)
  PROVE  Congruent(s * (b * z), n * z)
  <1>1. s * (b * z) - n * z = (s * b - n) * z
    OBVIOUS
  <1>2. Zero((s * b - n) * z)
    BY ZeroTimes
  <1> QED BY <1>1, <1>2 DEF Congruent

LEMMA DoubleAt ==
  ASSUME NEW u \in CurvePoints, NEW c, At(c, u)
  PROVE  At(DoubleCoords[c], RAdd(u, u)) /\ InField(DoubleCoords[c])
  <1> DEFINE XX == (c[1] * c[1]) % P  YY == (c[2] * c[2]) % P  AX == (A * XX) % P
             E == ((c[1] + c[2]) * (c[1] + c[2]) - XX - YY) % P
             G == AX + YY  Z2 == (2 * c[3] * c[3]) % P  F == G - Z2  H == AX - YY
             s == RAdd(u, u)  z == c[3] * c[3]  w == D * u[1] * u[1] * u[2] * u[2]
             x1 == u[1]  y1 == u[2]
  <1>1. /\ c \in Coords /\ c[1] \in Int /\ c[2] \in Int /\ c[3] \in Int
        /\ ~ Zero(c[3]) /\ Congruent(c[1], x1 * c[3]) /\ Congruent(c[2], y1 * c[3])
    BY DEF At
  <1>2. DoubleCoords[c] = Product(E, F, G, H)
    BY <1>1 DEF DoubleCoords
  <1>3. x1 \in Int /\ y1 \in Int /\ A \in Int /\ D \in Int /\ Zero(Off(x1, y1)) /\ z \in Int
    BY <1>1, CurvePointIs, PFacts
  <1>4. s \in CurvePoints
    BY RAddClosed
  <1>5. /\ w \in Int /\ ~ Zero(1 + w) /\ ~ Zero(1 - w) /\ s[1] \in Int /\ s[2] \in Int
        /\ Zero(s[1] * (1 + w) - (x1 * y1 + y1 * x1))
        /\ Zero(s[2] * (1 - w) - (y1 * y1 - A * x1 * x1))
    <2>1. w = D * u[1] * u[1] * u[2] * u[2]
      OBVIOUS
    <2> HIDE DEF w
    <2> QED BY <2>1, RAddIs
  <1>6. Off(x1, y1) = (A * x1 * x1 + y1 * y1) - (1 + w)
    BY <1>3 DEF Off
  <1>7. ~ Zero(z)
    BY <1>1, NonZeroProduct
  <1> HIDE DEF s, w, x1, y1, z
  <1>8. Congruent(XX, (x1 * x1) * z) /\ Congruent(YY, (y1 * y1) * z) /\ XX \in Int /\ YY \in Int
    <2>1. Congruent(c[1] * c[1], (x1 * x1) * z)
      BY <1>1, <1>3, SameMul DEF z
    <2>2. Congruent(c[2] * c[2], (y1 * y1) * z)
      BY <1>1, <1>3, SameMul DEF z
    <2> QED BY <2>1, <2>2, SameMod2
  <1> HIDE DEF XX, YY
  <1>9. Congruent(AX, (A * x1 * x1) * z) /\ AX \in Int
    <2>1. Congruent(A * XX, A * ((x1 * x1) * z))
      BY <1>3, <1>8, SameSelf, SameProduct
    <2>2. A * ((x1 * x1) * z) = (A * x1 * x1) * z
      BY <1>3
    <2> QED BY <2>1, <2>2, SameMod2
  <1>10. Congruent(E, (x1 * y1 + y1 * x1) * z) /\ E \in Int
    <2>1. Congruent(c[1] + c[2], (x1 + y1) * c[3])
      <3>1. Congruent(c[1] + c[2], x1 * c[3] + y1 * c[3])
        BY <1>1, SameSum
      <3>2. x1 * c[3] + y1 * c[3] = (x1 + y1) * c[3]
        BY <1>1, <1>3
      <3> QED BY <3>1, <3>2
    <2>2. Congruent((c[1] + c[2]) * (c[1] + c[2]), ((x1 + y1) * (x1 + y1)) * z)
      <3> DEFINE l == c[1] + c[2]  r == x1 + y1
      <3>1. Congruent(l, r * c[3]) /\ r \in Int /\ c[3] \in Int /\ z = c[3] * c[3]
        BY <1>1, <1>3, <2>1 DEF z
      <3> HIDE DEF l, r
      <3>2. Congruent(l * l, (r * r) * z)
        BY <3>1, SameMul
      <3> QED BY <3>2 DEF l, r
    <2>3. Congruent((c[1] + c[2]) * (c[1] + c[2]) - XX, ((x1 + y1) * (x1 + y1)) * z - (x1 * x1) * z)
      BY <1>8, <2>2, SameDifference, Zenon
    <2>4. Congruent((c[1] + c[2]) * (c[1] + c[2]) - XX - YY,
                    ((x1 + y1) * (x1 + y1)) * z - (x1 * x1) * z - (y1 * y1) * z)
      BY <1>8, <2>3, SameDifference, Zenon
    <2>5. ((x1 + y1) * (x1 + y1)) * z - (x1 * x1) * z - (y1 * y1) * z = (x1 * y1 + y1 * x1) * z
      BY <1>3
    <2> QED BY <2>4, <2>5, SameMod2
  <1>11. Congruent(Z2, 2 * z) /\ Z2 \in Int
    <2>1. 2 * c[3] * c[3] = 2 * z /\ 2 * z \in Int
      BY <1>1, <1>3 DEF z
    <2> QED BY <2>1, SameSelf, ZeroMod
  <1> HIDE DEF AX, E, Z2
  <1>12. Zero(((A * x1 * x1 + y1 * y1) - (1 + w)) * z)
    BY <1>3, <1>6, ZeroTimes
  <1>13. Congruent(G, (1 + w) * z) /\ G \in Int
    <2>1. Congruent(G, (A * x1 * x1) * z + (y1 * y1) * z)
      BY <1>8, <1>9, SameSum
    <2>2. (A * x1 * x1) * z + (y1 * y1) * z - (1 + w) * z = ((A * x1 * x1 + y1 * y1) - (1 + w)) * z
      BY <1>3, <1>5
    <2>3. Congruent((A * x1 * x1) * z + (y1 * y1) * z, (1 + w) * z)
      <3> DEFINE l == (A * x1 * x1) * z + (y1 * y1) * z  r == (1 + w) * z
      <3>1. l \in Int /\ r \in Int /\ Zero(l - r)
        <4>1. l - r = ((A * x1 * x1 + y1 * y1) - (1 + w)) * z
          BY <1>3, <1>5
        <4> QED BY <1>3, <1>5, <1>12, <4>1
      <3> HIDE DEF l, r
      <3>2. Congruent(l, r)
        BY <3>1 DEF Congruent
      <3> QED BY <3>2 DEF l, r
    <2> QED BY <1>8, <1>9, <2>1, <2>3, SameChain
  <1> HIDE DEF G
  <1>14. Congruent(F, - ((1 - w) * z)) /\ F \in Int
    <2>1. Congruent(F, (1 + w) * z - 2 * z)
      BY <1>11, <1>13, SameDifference
    <2>2. (1 + w) * z - 2 * z = - ((1 - w) * z)
      BY <1>3, <1>5
    <2> QED BY <1>11, <1>13, <2>1, <2>2
  <1>15. Congruent(H, (A * x1 * x1) * z - (y1 * y1) * z) /\ H \in Int
    <2>1. Congruent(AX - YY, (A * x1 * x1) * z - (y1 * y1) * z)
      BY <1>8, <1>9, SameDifference, Zenon
    <2> QED BY <1>8, <1>9, <2>1
  <1> HIDE DEF F, H
  <1>16. 1 + w \in Int /\ 1 - w \in Int
    BY <1>5
  <1>17. ~ Zero(G)
    BY <1>3, <1>5, <1>7, <1>13, <1>16, NonZeroProduct, SameZero
  <1>18. ~ Zero(F)
    <2>1. ~ Zero((1 - w) * z)
      BY <1>3, <1>5, <1>7, <1>16, NonZeroProduct
    <2>2. (1 - w) * z = (- 1) * (- ((1 - w) * z)) /\ - ((1 - w) * z) \in Int
      BY <1>3, <1>16
    <2>3. ~ Zero(- ((1 - w) * z))
      BY <2>1, <2>2, ZeroTimes, - 1 \in Int
    <2> QED BY <1>14, <2>3, SameZero
  <1>19. Congruent(E, s[1] * G)
    <2>1. Congruent(s[1] * G, s[1] * ((1 + w) * z))
      BY <1>5, <1>13, SameSelf, SameProduct
    <2>2. x1 * y1 + y1 * x1 \in Int
      BY <1>3
    <2>3. Congruent(s[1] * ((1 + w) * z), (x1 * y1 + y1 * x1) * z)
      BY <1>3, <1>5, <1>16, <2>2, SameTimes, Zenon
    <2>4. Congruent(s[1] * G, (x1 * y1 + y1 * x1) * z)
      BY <2>1, <2>3, SameChain
    <2> QED BY <1>10, <2>4, SameMeet, Zenon
  <1>20. Congruent(H, s[2] * F)
    <2>1. Congruent(s[2] * F, s[2] * (- ((1 - w) * z)))
      BY <1>5, <1>14, SameSelf, SameProduct
    <2>2. y1 * y1 - A * x1 * x1 \in Int /\ - z \in Int
      BY <1>3
    <2>3. Congruent(s[2] * ((1 - w) * (- z)), (y1 * y1 - A * x1 * x1) * (- z))
      BY <1>5, <1>16, <2>2, SameTimes, Zenon
    <2>4. (1 - w) * (- z) = - ((1 - w) * z)
      BY <1>3, <1>16
    <2>5. (y1 * y1 - A * x1 * x1) * (- z) = (A * x1 * x1) * z - (y1 * y1) * z
      BY <1>3
    <2>6. Congruent(s[2] * (- ((1 - w) * z)), (A * x1 * x1) * z - (y1 * y1) * z)
      BY <2>3, <2>4, <2>5, Zenon
    <2>7. Congruent(s[2] * F, (A * x1 * x1) * z - (y1 * y1) * z)
      BY <2>1, <2>6, SameChain
    <2> QED BY <1>15, <2>7, SameMeet, Zenon
  <1>21. At(Product(E, F, G, H), s) /\ InField(Product(E, F, G, H))
    BY <1>4, <1>10, <1>13, <1>14, <1>15, <1>17, <1>18, <1>19, <1>20, ProductIs
  <1> QED BY <1>2, <1>21 DEF s

LEMMA SameRatio ==
  ASSUME NEW s \in Int, NEW b \in Int, NEW n \in Int, NEW z \in Int, Zero(n - s * b),
         NEW e, NEW g, Congruent(e, n * z), Congruent(g, b * z)
  PROVE  Congruent(e, s * g)
  <1>1. Congruent(s * g, s * (b * z))
    BY SameSelf, SameProduct
  <1>2. n * z - s * (b * z) = (n - s * b) * z
    OBVIOUS
  <1>3. Zero((n - s * b) * z)
    BY ZeroTimes
  <1>4. n * z \in Int /\ s * (b * z) \in Int
    OBVIOUS
  <1>5. Congruent(n * z, s * (b * z))
    BY <1>2, <1>3, <1>4 DEF Congruent
  <1>6. Congruent(e, s * (b * z))
    BY <1>5, SameChain
  <1> QED BY <1>1, <1>6, SameMeet

(* Only equal multiples have the ratio of x and y in common, and none that *)
(* of the one and the opposite of the other.                               *)
LEMMA Differences ==
  ASSUME NEW j \in Int, NEW k \in Int, NEW u, NEW v,
         u = TimesBase(j), v = TimesBase(k)
  PROVE  /\ ~ Zero(u[2] * v[2] + A * u[1] * v[1])
         /\ Zero(u[1] * v[2] - u[2] * v[1]) <=> j % Order = k % Order
  <1> DEFINE o == TimesBase(- k)  s == RAdd(u, o)  w == D * u[1] * o[1] * u[2] * o[2]
             f == u[1] * v[2] - u[2] * v[1]  g == u[2] * v[2] + A * u[1] * v[1]
             m == u[1] * o[2] + u[2] * o[1]  n == u[2] * o[2] - A * u[1] * o[1]
  <1>1. - k \in Int /\ j - k \in Int /\ j - k = j + - k
    OBVIOUS
  <1>2. /\ u \in CurvePoints /\ v \in CurvePoints /\ o \in CurvePoints /\ s = TimesBase(j - k)
        /\ o = Opposite(v)
    BY <1>1, TimesIs, TimesSum, TimesNegative
  <1>3. /\ u[1] \in Int /\ u[2] \in Int /\ v[1] \in Int /\ v[2] \in Int /\ o[1] \in Int
        /\ A \in Int /\ o[2] = v[2]
    BY <1>2, CurvePointIs, PFacts DEF Opposite
  <1>4. Congruent(o[1], - v[1])
    <2>1. - v[1] \in Int /\ o[1] = (- v[1]) % P
      BY <1>2, <1>3 DEF Opposite
    <2> QED BY <2>1, SameSelf
  <1>5. /\ w \in Int /\ ~ Zero(1 + w) /\ ~ Zero(1 - w) /\ s[1] \in Field /\ s[1] \in Int /\ s[2] \in Int
        /\ Zero(s[1] * (1 + w) - m) /\ Zero(s[2] * (1 - w) - n)
    <2>1. w = D * u[1] * o[1] * u[2] * o[2]
      OBVIOUS
    <2> HIDE DEF w
    <2> QED BY <1>2, <2>1, RAddIs
  <1> HIDE DEF w, o, s
  <1>6. Congruent(m, f)
    <2>1. Congruent(u[2] * o[1], u[2] * (- v[1]))
      BY <1>3, <1>4, SameSelf, SameProduct
    <2>2. Congruent(u[1] * o[2] + u[2] * o[1], u[1] * o[2] + u[2] * (- v[1]))
      <3>1. u[1] * o[2] \in Int
        BY <1>3
      <3> QED BY <2>1, <3>1, SameSelf, SameSum
    <2>3. u[1] * o[2] + u[2] * (- v[1]) = f
      BY <1>3
    <2> QED BY <2>2, <2>3
  <1>7. Congruent(n, g)
    <2>1. Congruent((A * u[1]) * o[1], (A * u[1]) * (- v[1]))
      <3>1. A * u[1] \in Int
        BY <1>3
      <3> QED BY <1>4, <3>1, SameSelf, SameProduct
    <2>2. Congruent(u[2] * o[2] - (A * u[1]) * o[1], u[2] * o[2] - (A * u[1]) * (- v[1]))
      <3>1. u[2] * o[2] \in Int
        BY <1>3
      <3> QED BY <2>1, <3>1, SameSelf, SameDifference
    <2>3. u[2] * o[2] - (A * u[1]) * (- v[1]) = g
      BY <1>3
    <2> QED BY <2>2, <2>3
  <1>8. f \in Int /\ g \in Int /\ m \in Int /\ n \in Int /\ 1 + w \in Int /\ 1 - w \in Int
    BY <1>3, <1>5
  <1> HIDE DEF f, g, m, n
  <1>9. Congruent(s[1] * (1 + w), f) /\ Congruent(s[2] * (1 - w), g)
    <2>1. Congruent(s[1] * (1 + w), m) /\ Congruent(s[2] * (1 - w), n)
      BY <1>5, <1>8 DEF Congruent
    <2> QED BY <1>6, <1>7, <2>1, SameChain
  <1>10. ~ Zero(g)
    <2>1. ~ Zero(s[2])
      BY <1>1, <1>2, YIsNotZero
    <2> QED BY <1>5, <1>8, <1>9, <2>1, NonZeroProduct, SameZero
  <1>11. Zero(f) <=> Zero(s[1])
    BY <1>5, <1>8, <1>9, ZeroProduct, ZeroTimes, SameZero
  <1>12. Zero(s[1]) <=> (j - k) % Order = 0
    <2>1. ASSUME (j - k) % Order = 0 PROVE Zero(s[1])
      BY <1>1, <1>2, <2>1, TimesZero, OIs, ZeroNone
    <2> QED BY <1>1, <1>2, <2>1, XIsZero
  <1>13. (j - k) % Order = 0 <=> j % Order = k % Order
    BY OrderIs, DifferenceZero
  <1> QED BY <1>10, <1>11, <1>12, <1>13 DEF f, g

LEMMA DualIs ==
  ASSUME NEW u \in CurvePoints, NEW v \in CurvePoints, NEW s, s = RAdd(u, v)
  PROVE  /\ Zero((u[1] * u[2] + v[1] * v[2]) - s[1] * (u[2] * v[2] + A * u[1] * v[1]))
         /\ Zero((u[1] * u[2] - v[1] * v[2]) - s[2] * (u[1] * v[2] - u[2] * v[1]))
  <1> DEFINE w == D * u[1] * v[1] * u[2] * v[2]
  <1>1. w = D * u[1] * v[1] * u[2] * v[2]
    OBVIOUS
  <1> HIDE DEF w
  <1>2. /\ u[1] \in Int /\ u[2] \in Int /\ v[1] \in Int /\ v[2] \in Int
        /\ Zero(Off(u[1], u[2])) /\ Zero(Off(v[1], v[2]))
    BY CurvePointIs
  <1>3. /\ s[1] \in Int /\ s[2] \in Int
        /\ Zero(s[1] * (1 + w) - (u[1] * v[2] + u[2] * v[1]))
        /\ Zero(s[2] * (1 - w) - (u[2] * v[2] - A * u[1] * v[1]))
    BY <1>1, RAddIs
  <1> QED BY <1>1, <1>2, <1>3, Dual

(* _add() is right, and its doubling of points of equal t is.              *)
LEMMA AddAt ==
  ASSUME NEW j \in Int, NEW k \in Int, NEW c, NEW d,
         At(c, TimesBase(j)), At(d, TimesBase(k))
  PROVE  At(AddCoords(c, d), TimesBase(j + k)) /\ InField(AddCoords(c, d))
  <1> DEFINE XX == (c[1] * d[1]) % P  YY == (c[2] * d[2]) % P
             ZT == (c[3] * d[4]) % P  TZ == (c[4] * d[3]) % P
             E == TZ + ZT  F == ((c[1] - c[2]) * (d[1] + d[2]) + YY - XX) % P
             G == YY + A * XX  H == TZ - ZT
             u == TimesBase(j)  v == TimesBase(k)  s == TimesBase(j + k)  z == c[3] * d[3]
             e == u[1] * u[2] + v[1] * v[2]  g == u[2] * v[2] + A * u[1] * v[1]
             h == u[1] * u[2] - v[1] * v[2]  f == u[1] * v[2] - u[2] * v[1]
  <1>1. /\ c[1] \in Int /\ c[2] \in Int /\ c[3] \in Int /\ c[4] \in Int /\ ~ Zero(c[3])
        /\ Congruent(c[1], u[1] * c[3]) /\ Congruent(c[2], u[2] * c[3])
        /\ Congruent(c[4], u[1] * u[2] * c[3])
        /\ d[1] \in Int /\ d[2] \in Int /\ d[3] \in Int /\ d[4] \in Int /\ ~ Zero(d[3])
        /\ Congruent(d[1], v[1] * d[3]) /\ Congruent(d[2], v[2] * d[3])
        /\ Congruent(d[4], v[1] * v[2] * d[3])
    BY DEF At
  <1>2. AddCoords(c, d) = IF TZ = ZT THEN DoubleCoords[c] ELSE Product(E, F, G, H)
    BY DEF AddCoords
  <1>3. /\ u \in CurvePoints /\ v \in CurvePoints /\ s = RAdd(u, v) /\ j + k \in Int
        /\ s \in CurvePoints
    BY TimesIs, TimesSum
  <1>4. /\ u[1] \in Int /\ u[2] \in Int /\ v[1] \in Int /\ v[2] \in Int /\ A \in Int /\ z \in Int
        /\ s[1] \in Int /\ s[2] \in Int
    BY <1>1, <1>3, CurvePointIs, PFacts
  <1>5. ~ Zero(g) /\ (Zero(f) <=> j % Order = k % Order)
    BY Differences
  <1>6. Zero(e - s[1] * g) /\ Zero(h - s[2] * f)
    BY <1>3, DualIs
  <1>7. ~ Zero(s[2])
    BY <1>3, YIsNotZero
  <1>8. ~ Zero(z)
    BY <1>1, NonZeroProduct
  <1>9. e \in Int /\ f \in Int /\ g \in Int /\ h \in Int
    BY <1>4
  <1>10. z = c[3] * d[3]
    OBVIOUS
  <1> HIDE DEF u, v, s, z
  <1>11. Congruent(XX, (u[1] * v[1]) * z) /\ XX \in Int
    BY <1>1, <1>4, <1>10, SameMul, SameMod2
  <1>12. Congruent(YY, (u[2] * v[2]) * z) /\ YY \in Int
    BY <1>1, <1>4, <1>10, SameMul, SameMod2
  <1>13. Congruent(ZT, (v[1] * v[2]) * z) /\ ZT \in Field /\ ZT \in Int
    <2>1. v[1] * v[2] \in Int /\ Congruent(c[3], 1 * c[3])
      BY <1>1, <1>4, SameSelf
    <2>2. Congruent(c[3] * d[4], (1 * (v[1] * v[2])) * z)
      BY <1>1, <1>10, <2>1, SameMul, 1 \in Int
    <2>3. 1 * (v[1] * v[2]) = v[1] * v[2]
      BY <2>1
    <2> QED BY <2>2, <2>3, SameMod2
  <1>14. Congruent(TZ, (u[1] * u[2]) * z) /\ TZ \in Field /\ TZ \in Int
    <2>1. u[1] * u[2] \in Int /\ Congruent(d[3], 1 * d[3])
      BY <1>1, <1>4, SameSelf
    <2>2. Congruent(c[4] * d[3], ((u[1] * u[2]) * 1) * z)
      BY <1>1, <1>10, <2>1, SameMul, 1 \in Int
    <2>3. (u[1] * u[2]) * 1 = u[1] * u[2]
      BY <2>1
    <2> QED BY <2>2, <2>3, SameMod2
  <1> HIDE DEF ZT, TZ, XX, YY
  <1>15. Congruent(E, e * z) /\ E \in Int
    <2>1. Congruent(TZ + ZT, (u[1] * u[2]) * z + (v[1] * v[2]) * z)
      BY <1>13, <1>14, SameSum, Zenon
    <2>2. (u[1] * u[2]) * z + (v[1] * v[2]) * z = e * z
      BY <1>4
    <2> QED BY <1>13, <1>14, <2>1, <2>2
  <1>16. Congruent(H, h * z) /\ H \in Int
    <2>1. Congruent(TZ - ZT, (u[1] * u[2]) * z - (v[1] * v[2]) * z)
      BY <1>13, <1>14, SameDifference, Zenon
    <2>2. (u[1] * u[2]) * z - (v[1] * v[2]) * z = h * z
      BY <1>4
    <2> QED BY <1>13, <1>14, <2>1, <2>2
  <1>17. Congruent(G, g * z) /\ G \in Int
    <2>1. Congruent(A * XX, A * ((u[1] * v[1]) * z))
      BY <1>4, <1>11, SameSelf, SameProduct
    <2>2. Congruent(YY + A * XX, (u[2] * v[2]) * z + A * ((u[1] * v[1]) * z))
      BY <1>12, <2>1, SameSum, Zenon
    <2>3. (u[2] * v[2]) * z + A * ((u[1] * v[1]) * z) = g * z
      BY <1>4
    <2> QED BY <1>4, <1>11, <1>12, <2>2, <2>3
  <1>18. Congruent(F, f * z) /\ F \in Int
    <2>1. Congruent(c[1] - c[2], (u[1] - u[2]) * c[3])
      <3>1. Congruent(c[1] - c[2], u[1] * c[3] - u[2] * c[3])
        BY <1>1, SameDifference
      <3>2. u[1] * c[3] - u[2] * c[3] = (u[1] - u[2]) * c[3]
        BY <1>1, <1>4
      <3> QED BY <3>1, <3>2
    <2>2. Congruent(d[1] + d[2], (v[1] + v[2]) * d[3])
      <3>1. Congruent(d[1] + d[2], v[1] * d[3] + v[2] * d[3])
        BY <1>1, SameSum
      <3>2. v[1] * d[3] + v[2] * d[3] = (v[1] + v[2]) * d[3]
        BY <1>1, <1>4
      <3> QED BY <3>1, <3>2
    <2>3. Congruent((c[1] - c[2]) * (d[1] + d[2]), ((u[1] - u[2]) * (v[1] + v[2])) * z)
      <3>1. u[1] - u[2] \in Int /\ v[1] + v[2] \in Int
        BY <1>4
      <3> QED BY <1>1, <1>10, <2>1, <2>2, <3>1, SameMul
    <2>4. Congruent(YY - XX, (u[2] * v[2]) * z - (u[1] * v[1]) * z)
      BY <1>11, <1>12, SameDifference, Zenon
    <2>5. Congruent((c[1] - c[2]) * (d[1] + d[2]) + YY - XX,
                    ((u[1] - u[2]) * (v[1] + v[2])) * z + ((u[2] * v[2]) * z - (u[1] * v[1]) * z))
      <3>1. Congruent((c[1] - c[2]) * (d[1] + d[2]) + (YY - XX),
                      ((u[1] - u[2]) * (v[1] + v[2])) * z + ((u[2] * v[2]) * z - (u[1] * v[1]) * z))
        BY <2>3, <2>4, SameSum, Zenon
      <3> QED BY <3>1
    <2>6. ((u[1] - u[2]) * (v[1] + v[2])) * z + ((u[2] * v[2]) * z - (u[1] * v[1]) * z) = f * z
      BY <1>4
    <2> QED BY <2>5, <2>6, SameMod2
  <1> HIDE DEF E, F, G, H, e, f, g, h
  <1>19. CASE j % Order = k % Order
    <2>1. Zero(f) /\ u = v
      BY <1>5, <1>19, TimesSame DEF u, v
    <2>2. Zero(h)
      <3>1. (h - s[2] * f) + s[2] * f = h
        BY <1>4, <1>9
      <3> QED BY <1>4, <1>6, <2>1, <3>1, ZeroSum, ZeroTimes
    <2>3. Zero(H)
      BY <1>4, <1>16, <2>2, ZeroTimes, SameZero
    <2>4. TZ = ZT
      BY <1>13, <1>14, <2>3, SameField DEF Congruent, H
    <2>5. At(c, u)
      BY DEF u
    <2>6. At(DoubleCoords[c], RAdd(u, u)) /\ InField(DoubleCoords[c])
      BY <1>3, <2>5, DoubleAt
    <2> QED BY <1>2, <1>3, <2>1, <2>4, <2>6 DEF s
  <1>20. CASE j % Order # k % Order
    <2>1. ~ Zero(f)
      BY <1>5, <1>20
    <2>2. ~ Zero(h)
      <3>1. Congruent(h, s[2] * f)
        BY <1>4, <1>6, <1>9 DEF Congruent
      <3>2. ~ Zero(s[2] * f)
        BY <1>4, <1>7, <1>9, <2>1, NonZeroProduct
      <3> QED BY <3>1, <3>2, SameZero
    <2>3. ~ Zero(H) /\ ~ Zero(F) /\ ~ Zero(G)
      <3>1. ~ Zero(h * z) /\ ~ Zero(f * z) /\ ~ Zero(g * z)
        BY <1>4, <1>5, <1>8, <1>9, <2>1, <2>2, NonZeroProduct
      <3> QED BY <1>16, <1>17, <1>18, <3>1, SameZero
    <2>4. TZ # ZT
      <3> SUFFICES ASSUME TZ = ZT PROVE FALSE
        OBVIOUS
      <3>1. H = 0
        BY <1>14 DEF H
      <3> QED BY <2>3, <3>1, ZeroNone
    <2>5. Congruent(E, s[1] * G)
      BY <1>4, <1>6, <1>9, <1>15, <1>17, SameRatio
    <2>6. Congruent(H, s[2] * F)
      BY <1>4, <1>6, <1>9, <1>16, <1>18, SameRatio
    <2>7. At(Product(E, F, G, H), s) /\ InField(Product(E, F, G, H))
      BY <1>3, <1>15, <1>16, <1>17, <1>18, <2>3, <2>5, <2>6, ProductIs
    <2> QED BY <1>2, <2>4, <2>7 DEF s
  <1> QED BY <1>19, <1>20

LEMMA CoordsIs ==
  ASSUME NEW c \in Coords
  PROVE  c[1] \in Int /\ c[2] \in Int /\ c[3] \in Int /\ c[4] \in Int
  BY DEF Coords

LEMMA CoordsTypes ==
  ASSUME NEW c \in Coords, NEW d \in Coords
  PROVE  /\ DoubleCoords[c] \in Coords /\ AddCoords(c, d) \in Coords /\ NegCoords(c) \in Coords
         /\ DoubleCoords[c][3] \in Field
  <1>1. ASSUME NEW E \in Int, NEW F \in Int, NEW G \in Int, NEW H \in Int
        PROVE  Product(E, F, G, H) \in Coords /\ Product(E, F, G, H)[3] \in Field
    <2>1. E * F \in Int /\ G * H \in Int /\ F * G \in Int /\ E * H \in Int
      OBVIOUS
    <2>2. /\ (E * F) % P \in Int /\ (G * H) % P \in Int /\ (F * G) % P \in Int /\ (E * H) % P \in Int
          /\ (F * G) % P \in Field
      BY <2>1, ZeroMod
    <2> QED BY <2>2, CoordsAre DEF Product
  <1>2. /\ c[1] \in Int /\ c[2] \in Int /\ c[3] \in Int /\ c[4] \in Int
        /\ d[1] \in Int /\ d[2] \in Int /\ d[3] \in Int /\ d[4] \in Int /\ A \in Int
    BY CoordsIs, PFacts
  <1>3. DoubleCoords[c] \in Coords /\ DoubleCoords[c][3] \in Field
    <2> DEFINE XX == (c[1] * c[1]) % P  YY == (c[2] * c[2]) % P  AX == (A * XX) % P
               E == ((c[1] + c[2]) * (c[1] + c[2]) - XX - YY) % P
               G == AX + YY  Z2 == (2 * c[3] * c[3]) % P
    <2>1. c[1] * c[1] \in Int /\ c[2] * c[2] \in Int /\ 2 * c[3] * c[3] \in Int
      BY <1>2
    <2>2. XX \in Int /\ YY \in Int /\ Z2 \in Int
      BY <2>1, ZeroMod
    <2>3. DoubleCoords[c] = Product(E, G - Z2, G, AX - YY)
      BY DEF DoubleCoords
    <2> HIDE DEF XX, YY, Z2
    <2>4. A * XX \in Int /\ (c[1] + c[2]) * (c[1] + c[2]) - XX - YY \in Int
      BY <1>2, <2>2
    <2>5. AX \in Int /\ E \in Int
      BY <2>4, ZeroMod
    <2> HIDE DEF AX, E
    <2>6. G \in Int /\ G - Z2 \in Int /\ AX - YY \in Int
      BY <2>2, <2>5
    <2> HIDE DEF G
    <2> QED BY <1>1, <2>3, <2>5, <2>6
  <1>4. AddCoords(c, d) \in Coords
    <2> DEFINE XX == (c[1] * d[1]) % P  YY == (c[2] * d[2]) % P
               ZT == (c[3] * d[4]) % P  TZ == (c[4] * d[3]) % P
               F == ((c[1] - c[2]) * (d[1] + d[2]) + YY - XX) % P
    <2>1. c[1] * d[1] \in Int /\ c[2] * d[2] \in Int /\ c[3] * d[4] \in Int /\ c[4] * d[3] \in Int
      BY <1>2
    <2>2. XX \in Int /\ YY \in Int /\ ZT \in Int /\ TZ \in Int
      BY <2>1, ZeroMod
    <2>3. AddCoords(c, d) = IF TZ = ZT THEN DoubleCoords[c]
                            ELSE Product(TZ + ZT, F, YY + A * XX, TZ - ZT)
      BY DEF AddCoords
    <2> HIDE DEF XX, YY, ZT, TZ
    <2>4. (c[1] - c[2]) * (d[1] + d[2]) + YY - XX \in Int
      BY <1>2, <2>2
    <2>5. F \in Int
      BY <2>4, ZeroMod
    <2> HIDE DEF F
    <2>6. TZ + ZT \in Int /\ YY + A * XX \in Int /\ TZ - ZT \in Int
      BY <1>2, <2>2
    <2> QED BY <1>1, <1>3, <2>3, <2>5, <2>6
  <1>5. NegCoords(c) \in Coords
    <2>1. - c[1] \in Int /\ - c[4] \in Int
      BY <1>2
    <2> QED BY <1>2, <2>1, CoordsAre DEF NegCoords
  <1> QED BY <1>3, <1>4, <1>5

LEMMA NeutralAt == Neutral \in Coords /\ At(Neutral, TimesBase(0)) /\ InField(Neutral)
  <1>1. /\ Neutral \in Coords /\ Neutral[1] = 0 /\ Neutral[2] = 1 /\ Neutral[3] = 1 /\ Neutral[4] = 0
    BY CoordsAre DEF Neutral
  <1>2. TimesBase(0) = O /\ O[1] = 0 /\ O[2] = 1 /\ 0 \in Field /\ 1 \in Field
    BY TimesIs, OIs
  <1>3. 0 * 1 = 0 /\ 1 * 1 = 1 /\ 0 * 1 * 1 = 0 /\ Congruent(0, 0) /\ Congruent(1, 1)
    BY SameSelf, 0 \in Int, 1 \in Int
  <1> QED BY <1>1, <1>2, <1>3, ZeroNone DEF At, InField

(* __neg__                                                                 *)
LEMMA NegAt ==
  ASSUME NEW k \in Int, NEW d, At(d, TimesBase(k))
  PROVE  At(NegCoords(d), TimesBase(- k))
  <1> DEFINE v == TimesBase(k)  o == TimesBase(- k)
  <1>1. /\ d \in Coords /\ d[1] \in Int /\ d[2] \in Int /\ d[3] \in Int /\ d[4] \in Int /\ ~ Zero(d[3])
        /\ Congruent(d[1], v[1] * d[3]) /\ Congruent(d[2], v[2] * d[3])
        /\ Congruent(d[4], v[1] * v[2] * d[3])
    BY DEF At
  <1>2. /\ - k \in Int /\ v \in CurvePoints /\ o \in CurvePoints /\ o = Opposite(v)
    BY TimesIs, TimesNegative
  <1>3. /\ v[1] \in Int /\ v[2] \in Int /\ o[1] \in Int /\ o[2] = v[2] /\ o[1] = (- v[1]) % P
    BY <1>2, CurvePointIs DEF Opposite
  <1>4. Congruent(- v[1], o[1])
    <2>1. - v[1] \in Int
      BY <1>3
    <2> QED BY <1>3, <2>1, SameSelf
  <1>5. NegCoords(d) \in Coords /\ NegCoords(d)[1] = - d[1] /\ NegCoords(d)[2] = d[2]
        /\ NegCoords(d)[3] = d[3] /\ NegCoords(d)[4] = - d[4] /\ - d[1] \in Int /\ - d[4] \in Int
    <2>1. - d[1] \in Int /\ - d[4] \in Int
      BY <1>1
    <2> QED BY <1>1, <2>1, CoordsAre DEF NegCoords
  <1> HIDE DEF v, o
  <1>6. ASSUME NEW a, NEW b, Congruent(a, v[1] * b), b \in Int
        PROVE  Congruent(- a, o[1] * b)
    <2>1. a \in Int
      BY <1>6 DEF Congruent
    <2>2. Congruent((- 1) * a, (- 1) * (v[1] * b))
      BY <1>6, SameSelf, SameProduct, - 1 \in Int
    <2>3. (- 1) * a = - a /\ (- 1) * (v[1] * b) = (- v[1]) * b
      BY <1>3, <1>6, <2>1
    <2>4. Congruent((- v[1]) * b, o[1] * b)
      BY <1>4, <1>6, SameSelf, SameProduct
    <2> QED BY <2>2, <2>3, <2>4, SameChain
  <1>7. Congruent(- d[1], o[1] * d[3])
    BY <1>1, <1>6
  <1>8. Congruent(- d[4], o[1] * o[2] * d[3])
    <2>1. v[1] * v[2] * d[3] = v[1] * (v[2] * d[3]) /\ v[2] * d[3] \in Int
          /\ o[1] * o[2] * d[3] = o[1] * (v[2] * d[3])
      BY <1>1, <1>3
    <2> QED BY <1>1, <1>6, <2>1
  <1> QED BY <1>1, <1>3, <1>5, <1>7, <1>8 DEF At, o

LEMMA AddDigitType ==
  ASSUME NEW c \in Coords, NEW u \in Coords, NEW d
  PROVE  AddDigit(c, d, u) \in Coords
  BY CoordsTypes DEF AddDigit

LEMMA AddDigitAt ==
  ASSUME NEW j \in Int, NEW k \in Int, NEW c, NEW u, NEW d \in {- 1, 0, 1},
         At(c, TimesBase(j)), InField(c), At(u, TimesBase(k))
  PROVE  At(AddDigit(c, d, u), TimesBase(j + d * k)) /\ InField(AddDigit(c, d, u))
  <1>1. CASE d = 0
    <2>1. AddDigit(c, d, u) = c /\ j + d * k = j
      BY <1>1 DEF AddDigit
    <2> QED BY <2>1
  <1>2. CASE d = 1
    <2>1. AddDigit(c, d, u) = AddCoords(c, u) /\ j + d * k = j + k
      BY <1>2 DEF AddDigit
    <2> QED BY <2>1, AddAt
  <1>3. CASE d = - 1
    <2>1. AddDigit(c, d, u) = AddCoords(c, NegCoords(u)) /\ j + d * k = j + (- k) /\ - k \in Int
      BY <1>3 DEF AddDigit
    <2> QED BY <2>1, AddAt, NegAt
  <1> QED BY <1>1, <1>2, <1>3

LEMMA DoubleTimes ==
  ASSUME NEW k \in Int, NEW c, At(c, TimesBase(k))
  PROVE  At(DoubleCoords[c], TimesBase(2 * k)) /\ InField(DoubleCoords[c])
  <1>1. 2 * k = k + k /\ TimesBase(k) \in CurvePoints
    BY TimesIs
  <1> QED BY <1>1, DoubleAt, TimesSum

(* Signed digits.                                                          *)
LEMMA DigitFacts ==
  ASSUME NEW m \in Nat
  PROVE  /\ Digit(m) \in {- 1, 0, 1} /\ Digit(m) \in Int /\ Beyond(m) \in Nat
         /\ m = 2 * Beyond(m) + Digit(m) /\ (m # 0 => Beyond(m) < m)
         /\ (m = 0 => Digit(m) = 0 /\ Beyond(m) = 0)
  <1>1. /\ m % 2 \in {0, 1} /\ m % 4 \in {0, 1, 2, 3}
        /\ m = 4 * (m \div 4) + (m % 4) /\ m = 2 * (m \div 2) + (m % 2)
        /\ m \div 4 \in Int /\ m \div 2 \in Int
    OBVIOUS
  <1> DEFINE d == Digit(m)
  <1>2. d \in {- 1, 0, 1} /\ (m % 2 = 0 => d = 0) /\ (m % 4 = 1 => d = 1) /\ (m % 4 = 3 => d = - 1)
    BY <1>1 DEF Digit
  <1>3. (m - d) % 2 = 0 /\ m - d \in Int
    BY <1>1, <1>2
  <1>4. m - d >= 0 /\ (m # 0 => m - d < 2 * m) /\ (m = 0 => d = 0)
    BY <1>1, <1>2
  <1> HIDE DEF d
  <1> DEFINE b == (m - d) \div 2
  <1>5. b \in Int /\ m - d = 2 * b
    BY <1>2, <1>3
  <1> HIDE DEF b
  <1>6. /\ d \in Int /\ b \in Nat /\ m = 2 * b + d /\ (m # 0 => b < m)
        /\ (m = 0 => d = 0 /\ b = 0)
    BY <1>2, <1>4, <1>5
  <1>7. Beyond(m) = b
    BY DEF Beyond, b, d
  <1> QED BY <1>2, <1>6, <1>7 DEF d

(* The loop over the digits of __mul__.                                    *)
LEMMA LadderAt ==
  ASSUME NEW l \in Int, NEW u, At(u, TimesBase(l)), NEW k \in Nat
  PROVE  At(Ladder(u, k), TimesBase(k * l)) /\ InField(Ladder(u, k))
  <1> DEFINE F(f) == [m \in Nat |-> IF m = 0 THEN Neutral
                                    ELSE AddDigit(DoubleCoords[f[Beyond(m)]], Digit(m), u)]
             acc == CHOOSE f : f = F(f)
             next == [m \in Nat |-> Beyond(m)]
             size == [m \in Nat |-> m]
             base == [m \in Nat |-> Neutral]
             step == [r \in Nat \X Coords |-> AddDigit(DoubleCoords[r[2]], Digit(r[1]), u)]
             Start == {0}
  <1>0. u \in Coords
    BY DEF At
  <1>1. /\ next \in [Nat -> Nat] /\ size \in [Nat -> Nat] /\ base \in [Nat -> Coords]
        /\ step \in [Nat \X Coords -> Coords] /\ Decreases(Nat, Start, next, size)
    <2>1. next \in [Nat -> Nat] /\ Decreases(Nat, Start, next, size)
      BY DigitFacts DEF Decreases
    <2>2. base \in [Nat -> Coords]
      BY NeutralAt
    <2>3. \A r \in Nat \X Coords : AddDigit(DoubleCoords[r[2]], Digit(r[1]), u) \in Coords
      BY <1>0, AddDigitType, CoordsTypes
    <2> QED BY <2>1, <2>2, <2>3
  <1>2. PICK g \in [Nat -> Coords] : Solves(g, Nat, Start, next, base, step)
    <2> HIDE DEF next, size, base, step, Start, F, acc
    <2> QED BY <1>1, Recursion
  <1>3. ASSUME NEW m \in Nat, NEW a \in Coords
        PROVE  <<m, a>> \in Nat \X Coords /\ <<m, a>>[1] = m /\ <<m, a>>[2] = a
               /\ step[<<m, a>>] = AddDigit(DoubleCoords[a], Digit(m), u)
    OBVIOUS
  <1>4. ASSUME NEW m \in Nat
        PROVE  g[m] = IF m = 0 THEN Neutral ELSE AddDigit(DoubleCoords[g[Beyond(m)]], Digit(m), u)
    <2>1. Beyond(m) \in Nat /\ next[m] = Beyond(m) /\ base[m] = Neutral
      BY DigitFacts
    <2> HIDE DEF step
    <2> QED BY <1>2, <1>3, <2>1 DEF Solves
  <1>5. g = F(g)
    BY <1>4
  <1>6. acc = F(acc)
    <2> HIDE DEF F
    <2> QED BY <1>5
  <1>7. Ladder(u, k) = acc[k]
    BY DEF Ladder
  <1> HIDE DEF acc
  <1>8. \A m \in Nat :
          acc[m] = IF m = 0 THEN Neutral ELSE AddDigit(DoubleCoords[acc[Beyond(m)]], Digit(m), u)
    BY <1>6
  <1> DEFINE T == {m \in Nat : ~ (At(acc[m], TimesBase(m * l)) /\ InField(acc[m]))}
  <1>9. T = {}
    <2> SUFFICES ASSUME T # {} PROVE FALSE
      OBVIOUS
    <2>1. PICK m \in T : \A j \in T : m <= j
      <3>1. T \in SUBSET Nat
        OBVIOUS
      <3> HIDE DEF T
      <3> QED BY <3>1, NatMin
    <2>2. m \in Nat /\ ~ (At(acc[m], TimesBase(m * l)) /\ InField(acc[m]))
      OBVIOUS
    <2>3. m # 0
      <3> SUFFICES ASSUME m = 0 PROVE FALSE
        OBVIOUS
      <3>1. m * l = 0 /\ acc[m] = Neutral
        BY <1>8, <2>2
      <3> QED BY <2>2, <3>1, NeutralAt
    <2> DEFINE b == Beyond(m)  d == Digit(m)
    <2>4. b \in Nat /\ d \in {- 1, 0, 1} /\ d \in Int /\ m = 2 * b + d /\ b < m
      BY <2>2, <2>3, DigitFacts
    <2> HIDE DEF F
    <2>5. acc[m] = AddDigit(DoubleCoords[acc[b]], d, u)
      BY <1>8, <2>2, <2>3
    <2> HIDE DEF b, d
    <2>6. b \notin T
      <3> HIDE DEF T
      <3> QED BY <2>1, <2>2, <2>4
    <2>7. At(acc[b], TimesBase(b * l))
      BY <2>4, <2>6
    <2> HIDE DEF T
    <2>8. b * l \in Int /\ 2 * (b * l) \in Int /\ m * l = 2 * (b * l) + d * l
      BY <2>4
    <2>9. At(DoubleCoords[acc[b]], TimesBase(2 * (b * l))) /\ InField(DoubleCoords[acc[b]])
      BY <2>7, <2>8, DoubleTimes
    <2>10. At(acc[m], TimesBase(2 * (b * l) + d * l)) /\ InField(acc[m])
      BY <2>4, <2>5, <2>8, <2>9, AddDigitAt
    <2> QED BY <2>2, <2>8, <2>10
  <1>10. At(acc[k], TimesBase(k * l)) /\ InField(acc[k])
    BY <1>9
  <1> QED BY <1>7, <1>10

----------------------------------------------------------------------------
(* Points.                                                                 *)
LEMMA ExtendedIs ==
  ASSUME NEW c \in Coords, NEW n \in Nat
  PROVE  /\ Extended(c, n) \in Points /\ Extended(c, n).x = c[1] /\ Extended(c, n).y = c[2]
         /\ Extended(c, n).z = c[3] /\ Extended(c, n).t = c[4] /\ Extended(c, n).n = n
         /\ CoordsOf(Extended(c, n)) = c
  <1>1. /\ c[1] \in Int /\ c[2] \in Int /\ c[3] \in Int /\ c[4] \in Int
        /\ c = <<c[1], c[2], c[3], c[4]>>
    BY DEF Coords
  <1> QED BY <1>1 DEF Extended, Points, CoordsOf

LEMMA PointIs ==
  ASSUME NEW pt \in Points
  PROVE  /\ pt.x \in Int /\ pt.y \in Int /\ pt.z \in Int /\ pt.t \in Int /\ pt.n \in Nat
         /\ CoordsOf(pt) \in Coords /\ CoordsOf(pt)[1] = pt.x /\ CoordsOf(pt)[2] = pt.y
         /\ CoordsOf(pt)[3] = pt.z /\ CoordsOf(pt)[4] = pt.t
  <1>1. pt.x \in Int /\ pt.y \in Int /\ pt.z \in Int /\ pt.t \in Int /\ pt.n \in Nat
    BY DEF Points
  <1> QED BY <1>1, CoordsAre DEF CoordsOf

LEMMA InfinityIs ==
  /\ INFINITY \in Points /\ INFINITY.x = 0 /\ INFINITY.y = 0 /\ INFINITY.z = 0
  /\ INFINITY.t = 0 /\ INFINITY.n = 0
  <1>1. <<0, 0, 0, 0>> \in Coords
    BY CoordsAre, 0 \in Int
  <1>2. <<0, 0, 0, 0>>[1] = 0 /\ <<0, 0, 0, 0>>[2] = 0 /\ <<0, 0, 0, 0>>[3] = 0 /\ <<0, 0, 0, 0>>[4] = 0
    OBVIOUS
  <1> QED BY <1>1, <1>2, ExtendedIs, 0 \in Nat DEF INFINITY

(* A point is the k-th multiple of the generator.                          *)
Held(pt, k) ==
    /\ pt \in Points /\ pt.n \in {0, Order}
    /\ \/ pt = INFINITY /\ k % Order = 0
       \/ At(CoordsOf(pt), TimesBase(k)) /\ pt.x \in Field /\ pt.y \in 0 .. MaxY

LEMMA FieldFits == ASSUME NEW y \in Field PROVE y \in 0 .. MaxY
  BY FieldIs, EdwardsAssumption DEF Field

LEMMA HeldPoint ==
  ASSUME NEW pt, NEW k \in Int, Held(pt, k), pt # INFINITY
  PROVE  /\ pt.x \in Field /\ pt.x \in Int /\ pt.y \in 0 .. MaxY /\ pt.y \in Int
         /\ pt.z \in Int /\ pt.t \in Int /\ ~ Zero(pt.z)
         /\ Congruent(pt.x, TimesBase(k)[1] * pt.z) /\ Congruent(pt.y, TimesBase(k)[2] * pt.z)
         /\ Congruent(pt.t, TimesBase(k)[1] * TimesBase(k)[2] * pt.z)
         /\ At(CoordsOf(pt), TimesBase(k))
  <1>1. /\ pt \in Points /\ At(CoordsOf(pt), TimesBase(k)) /\ pt.x \in Field /\ pt.y \in 0 .. MaxY
    BY DEF Held
  <1>2. /\ pt.x \in Int /\ pt.y \in Int /\ pt.z \in Int /\ pt.t \in Int
        /\ CoordsOf(pt)[1] = pt.x /\ CoordsOf(pt)[2] = pt.y
        /\ CoordsOf(pt)[3] = pt.z /\ CoordsOf(pt)[4] = pt.t
    BY <1>1, PointIs
  <1> QED BY <1>1, <1>2 DEF At

(* Only the neutral element is taken for INFINITY.                         *)
LEMMA InfinityTold ==
  ASSUME NEW pt, NEW k \in Int, Held(pt, k)
  PROVE  IsInfinity(pt) <=> k % Order = 0
  <1>1. CASE pt = INFINITY
    <2>1. ~ At(CoordsOf(pt), TimesBase(k))
      <3>1. CoordsOf(pt)[3] = 0
        BY <1>1, InfinityIs, PointIs
      <3> QED BY <3>1, ZeroNone DEF At
    <2>2. k % Order = 0
      BY <2>1 DEF Held
    <2> QED BY <1>1, <2>2, InfinityIs DEF IsInfinity
  <1>2. CASE pt # INFINITY
    <2> DEFINE u == TimesBase(k)
    <2>1. /\ pt.x \in Field /\ pt.z \in Int /\ ~ Zero(pt.z) /\ Congruent(pt.x, u[1] * pt.z)
          /\ Congruent(pt.t, u[1] * u[2] * pt.z)
      BY <1>2, HeldPoint
    <2>2. u[1] \in Int /\ u[2] \in Int /\ ~ Zero(u[2])
      BY TimesIs, CurvePointIs, YIsNotZero
    <2>3. ASSUME IsInfinity(pt) PROVE Zero(u[1])
      <3>1. CASE pt.x = 0
        <4>1. Zero(u[1] * pt.z)
          BY <2>1, <3>1, ZeroNone, SameZero
        <4> QED BY <2>1, <2>2, <4>1, ZeroProduct
      <3>2. CASE pt.t = 0
        <4>1. Zero((u[1] * u[2]) * pt.z)
          BY <2>1, <3>2, ZeroNone, SameZero
        <4>2. u[1] * u[2] \in Int
          BY <2>2
        <4> QED BY <2>1, <2>2, <4>1, <4>2, ZeroProduct
      <3> QED BY <2>3, <3>1, <3>2 DEF IsInfinity
    <2>4. ASSUME k % Order = 0 PROVE IsInfinity(pt)
      <3>1. u[1] = 0
        BY <2>4, TimesZero, OIs
      <3>2. u[1] * pt.z = 0
        BY <2>1, <3>1
      <3>3. Zero(pt.x)
        BY <2>1, <3>2, ZeroNone, SameZero
      <3> QED BY <2>1, <3>3, FieldZero DEF IsInfinity
    <2> QED BY <2>3, <2>4, XIsZero
  <1> QED BY <1>1, <1>2

LEMMA HeldInfinity ==
  ASSUME NEW k \in Int, k % Order = 0
  PROVE  Held(INFINITY, k)
  BY InfinityIs DEF Held

LEMMA HeldSame ==
  ASSUME NEW pt, NEW j \in Int, NEW k \in Int, Held(pt, j), j % Order = k % Order
  PROVE  Held(pt, k)
  BY TimesSame DEF Held

LEMMA FromCoordsHeld ==
  ASSUME NEW c, NEW k \in Int, At(c, TimesBase(k)), InField(c), NEW n \in {0, Order}
  PROVE  Held(FromCoords(c, n), k) /\ FromCoords(c, n).n \in {0, n}
  <1> DEFINE pt == Extended(c, n)
  <1>1. c \in Coords /\ n \in Nat
    BY OrderIs DEF At
  <1>2. pt \in Points /\ pt.x = c[1] /\ pt.y = c[2] /\ pt.t = c[4] /\ pt.n = n /\ CoordsOf(pt) = c
    BY <1>1, ExtendedIs
  <1>3. c[1] \in Field /\ c[2] \in 0 .. MaxY
    BY FieldFits DEF InField
  <1>4. Held(pt, k)
    BY <1>2, <1>3 DEF Held
  <1>5. Vanishes(c) <=> IsInfinity(pt)
    BY <1>2 DEF Vanishes, IsInfinity
  <1>6. CASE Vanishes(c)
    <2>1. k % Order = 0
      BY <1>4, <1>5, <1>6, InfinityTold
    <2> QED BY <1>6, <2>1, HeldInfinity, InfinityIs DEF FromCoords
  <1>7. CASE ~ Vanishes(c)
    BY <1>2, <1>4, <1>7 DEF FromCoords
  <1> QED BY <1>6, <1>7

(* __add__ and double()                                                    *)
LEMMA AddHeld ==
  ASSUME NEW a, NEW b, NEW j \in Int, NEW k \in Int, Held(a, j), Held(b, k)
  PROVE  Held(Add(a, b), j + k)
  <1>1. j + k \in Int
    OBVIOUS
  <1>2. CASE IsInfinity(b)
    <2>1. k % Order = 0
      BY <1>2, InfinityTold
    <2>2. (j + k) % Order = j % Order
      <3>1. (j + k) - j = k
        OBVIOUS
      <3> QED BY <1>1, <2>1, <3>1, OrderIs, DifferenceZero
    <2> QED BY <1>1, <1>2, <2>2, HeldSame DEF Add
  <1>3. CASE ~ IsInfinity(b) /\ a = INFINITY
    <2>1. j % Order = 0
      BY <1>3, InfinityTold, InfinityIs DEF IsInfinity
    <2>2. (j + k) % Order = k % Order
      <3>1. (j + k) - k = j
        OBVIOUS
      <3> QED BY <1>1, <2>1, <3>1, OrderIs, DifferenceZero
    <2> QED BY <1>1, <1>3, <2>2, HeldSame DEF Add
  <1>4. CASE ~ IsInfinity(b) /\ a # INFINITY
    <2>1. b # INFINITY
      BY <1>4, InfinityIs DEF IsInfinity
    <2>2. At(CoordsOf(a), TimesBase(j)) /\ At(CoordsOf(b), TimesBase(k)) /\ a.n \in {0, Order}
      BY <1>4, <2>1, HeldPoint DEF Held
    <2>3. Held(FromCoords(AddCoords(CoordsOf(a), CoordsOf(b)), a.n), j + k)
      BY <1>1, <2>2, AddAt, FromCoordsHeld
    <2> QED BY <1>4, <2>3 DEF Add
  <1> QED BY <1>2, <1>3, <1>4

LEMMA DoubleHeld ==
  ASSUME NEW a, NEW k \in Int, Held(a, k)
  PROVE  Held(Double(a), 2 * k)
  <1>1. 2 * k \in Int
    OBVIOUS
  <1>2. CASE IsInfinity(a)
    <2>1. k % Order = 0
      BY <1>2, InfinityTold
    <2>2. (2 * k) % Order = 0
      <3>1. TimesBase(2 * k) = RAdd(TimesBase(k), TimesBase(k))
        <4>1. 2 * k = k + k
          OBVIOUS
        <4> QED BY <4>1, TimesSum
      <3>2. TimesBase(k) = O
        BY <2>1, TimesZero
      <3> QED BY <1>1, <3>1, <3>2, TimesZero, OIs, RAddO
    <2> QED BY <1>1, <1>2, <2>2, HeldInfinity DEF Double
  <1>3. CASE ~ IsInfinity(a)
    <2>1. a # INFINITY
      BY <1>3, InfinityIs DEF IsInfinity
    <2>2. At(CoordsOf(a), TimesBase(k)) /\ a.n \in {0, Order}
      BY <2>1, HeldPoint DEF Held
    <2> QED BY <1>1, <1>3, <2>2, DoubleTimes, FromCoordsHeld DEF Double
  <1> QED BY <1>2, <1>3

LEMMA AtOne ==
  ASSUME NEW u \in CurvePoints, NEW x, NEW y, NEW t,
         Congruent(x, u[1]), Congruent(y, u[2]), Congruent(t, u[1] * u[2])
  PROVE  At(<<x, y, 1, t>>, u) /\ <<x, y, 1, t>> \in Coords
  <1>1. u[1] \in Int /\ u[2] \in Int /\ x \in Int /\ y \in Int /\ t \in Int /\ 1 \in Int
    BY CurvePointIs DEF Congruent
  <1>2. u[1] * 1 = u[1] /\ u[2] * 1 = u[2] /\ u[1] * u[2] * 1 = u[1] * u[2]
    BY <1>1
  <1> DEFINE c == <<x, y, 1, t>>
  <1>3. c \in Coords /\ c[1] = x /\ c[2] = y /\ c[3] = 1 /\ c[4] = t
    BY <1>1, CoordsAre
  <1> HIDE DEF c
  <1>4. At(c, u)
    BY <1>1, <1>2, <1>3, ZeroNone DEF At
  <1> QED BY <1>3, <1>4 DEF c

(* scale(), x() and y()                                                    *)
LEMMA ScaleHeld ==
  ASSUME NEW pt, NEW k \in Int, Held(pt, k)
  PROVE  /\ Held(Scale(pt), k) /\ Scale(pt).n = pt.n /\ Affine(pt) = TimesBase(k)
         /\ pt = INFINITY => Scale(pt) = INFINITY
         /\ pt # INFINITY =>
              /\ Scale(pt) # INFINITY /\ Scale(pt).z = 1 /\ Scale(pt).x = TimesBase(k)[1]
              /\ Scale(pt).y % P = TimesBase(k)[2] /\ Scale(pt).y \in 0 .. MaxY
              /\ Scale(pt).y \in Int
  <1> DEFINE u == TimesBase(k)
  <1>1. /\ u \in CurvePoints /\ u = <<u[1], u[2]>> /\ u[1] \in Field /\ u[2] \in Field
        /\ u[1] \in Int /\ u[2] \in Int
    BY TimesIs, CurvePointIs
  <1>2. CASE pt = INFINITY
    <2>1. k % Order = 0
      BY <1>2, InfinityTold, InfinityIs DEF IsInfinity
    <2>2. Scale(pt) = pt /\ Affine(pt) = O
      BY <1>2 DEF Scale, Affine
    <2> QED BY <1>2, <2>1, <2>2, TimesZero
  <1>3. CASE pt # INFINITY
    <2>1. /\ pt \in Points /\ pt.n \in {0, Order} /\ pt.n \in Nat
          /\ pt.x \in Field /\ pt.x \in Int /\ pt.y \in 0 .. MaxY /\ pt.y \in Int
          /\ pt.z \in Int /\ ~ Zero(pt.z)
          /\ Congruent(pt.x, u[1] * pt.z) /\ Congruent(pt.y, u[2] * pt.z)
      BY <1>3, HeldPoint, OrderIs DEF Held
    <2>2. /\ Held(Scale(pt), k) /\ Scale(pt).n = pt.n /\ Scale(pt) # INFINITY /\ Scale(pt).z = 1
          /\ Scale(pt).x = u[1] /\ Scale(pt).y % P = u[2] /\ Scale(pt).y \in 0 .. MaxY
          /\ Scale(pt).y \in Int
      <3>1. CASE pt.z = 1
        <4>1. Scale(pt) = pt
          BY <3>1 DEF Scale
        <4>2. u[1] * pt.z = u[1] /\ u[2] * pt.z = u[2]
          BY <1>1, <3>1
        <4>3. pt.x = u[1] /\ pt.y % P = u[2]
          BY <1>1, <2>1, <4>2, SameField, SameIs, FieldIs
        <4> QED BY <1>3, <2>1, <3>1, <4>1, <4>3
      <3>2. CASE pt.z # 1
        <4> DEFINE i == InverseMod(pt.z)  x == (pt.x * i) % P  y == (pt.y * i) % P
                   c == <<x, y, 1, (x * y) % P>>
        <4>1. pt.z # 0
          BY <2>1, ZeroNone
        <4>2. i \in Field /\ (i * pt.z) % P = 1
          BY <2>1, <4>1, InverseIs DEF InverseMod
        <4>3. Scale(pt) = Extended(c, pt.n)
          BY <1>3, <3>2 DEF Scale
        <4> HIDE DEF i
        <4>4. i \in Int /\ Zero(i * pt.z - 1)
          BY <2>1, <4>2, FieldIs, TimesInverse
        <4>5. x \in Field /\ Zero(x * pt.z - pt.x) /\ y \in Field /\ Zero(y * pt.z - pt.y)
          BY <2>1, <4>4, QuotientIs
        <4> HIDE DEF x, y
        <4>6. Zero(u[1] * pt.z - pt.x) /\ Zero(u[2] * pt.z - pt.y)
          <5>1. Congruent(u[1] * pt.z, pt.x) /\ Congruent(u[2] * pt.z, pt.y)
            BY <2>1, SameFlip
          <5> QED BY <5>1 DEF Congruent
        <4>7. x = u[1] /\ y = u[2]
          BY <1>1, <2>1, <4>5, <4>6, SameQuotient
        <4>8. At(c, u) /\ c \in Coords
          <5>1. u[1] * u[2] \in Int
            BY <1>1
          <5> QED BY <1>1, <4>7, <5>1, SameSelf, AtOne
        <4>9. c[1] = u[1] /\ c[2] = u[2] /\ c[3] = 1
          BY <4>7
        <4> HIDE DEF c
        <4>10. /\ Scale(pt) \in Points /\ Scale(pt).x = u[1] /\ Scale(pt).y = u[2]
               /\ Scale(pt).z = 1 /\ Scale(pt).n = pt.n /\ CoordsOf(Scale(pt)) = c
          BY <2>1, <4>3, <4>8, <4>9, ExtendedIs
        <4>11. u[2] \in 0 .. MaxY /\ u[2] % P = u[2]
          BY <1>1, FieldFits, FieldIs
        <4>12. Held(Scale(pt), k)
          BY <1>1, <2>1, <4>8, <4>10, <4>11 DEF Held
        <4>13. Scale(pt) # INFINITY
          BY <4>10, InfinityIs
        <4> QED BY <1>1, <4>10, <4>11, <4>12, <4>13
      <3> QED BY <3>1, <3>2
    <2>3. Affine(pt) = <<Scale(pt).x % P, Scale(pt).y % P>>
      BY <1>3 DEF Affine
    <2>4. Affine(pt) = u
      BY <1>1, <2>2, <2>3, FieldIs
    <2> QED BY <1>3, <2>2, <2>4
  <1> QED BY <1>2, <1>3

----------------------------------------------------------------------------
(* The table of a generator.                                               *)
LEMMA EntryTypes ==
  ASSUME NEW e \in Points, e.z \in Field
  PROVE  /\ Entry(e) \in Coords /\ Double(Scale(e)) \in Points /\ Double(Scale(e)).z \in Field
  <1> DEFINE s == Scale(e)
  <1>1. s \in Points /\ s.x \in Int /\ s.y \in Int
    <2>1. e.x \in Int /\ e.y \in Int /\ e.n \in Nat
      BY PointIs
    <2>2. CASE e.z = 1 \/ e = INFINITY
      BY <2>1, <2>2 DEF Scale
    <2>3. CASE ~ (e.z = 1 \/ e = INFINITY)
      <3> DEFINE i == InverseMod(e.z)  x == (e.x * i) % P  y == (e.y * i) % P
                 c == <<x, y, 1, (x * y) % P>>
      <3>1. i \in Int
        <4>1. CASE e.z = 0
          BY <4>1 DEF InverseMod
        <4>2. CASE e.z # 0
          <5>1. e.z \in Int /\ ~ Zero(e.z)
            BY <4>2, FieldIs, FieldZero
          <5>2. i = CHOOSE j \in Field : (j * e.z) % P = 1
            BY <4>2 DEF InverseMod
          <5>3. i \in Field
            BY <5>1, <5>2, InverseIs
          <5> QED BY <5>3, FieldIs
        <4> QED BY <4>1, <4>2
      <3>2. s = Extended(c, e.n)
        BY <2>3 DEF Scale
      <3> HIDE DEF i
      <3>3. e.x * i \in Int /\ e.y * i \in Int
        BY <2>1, <3>1
      <3>4. x \in Int /\ y \in Int
        BY <3>3, ZeroMod
      <3> HIDE DEF x, y
      <3>5. x * y \in Int
        BY <3>4
      <3>6. (x * y) % P \in Int
        BY <3>5, ZeroMod
      <3>7. c \in Coords
        BY <3>4, <3>6, CoordsAre, 1 \in Int
      <3> HIDE DEF c
      <3> QED BY <2>1, <3>2, <3>7, ExtendedIs, PointIs
    <2> QED BY <2>2, <2>3
  <1>2. Entry(e) \in Coords
    <2>1. s.x * s.y \in Int
      BY <1>1
    <2>2. (s.x * s.y) % P \in Int
      BY <2>1, ZeroMod
    <2> QED BY <1>1, <2>2, CoordsAre, 1 \in Int DEF Entry
  <1> HIDE DEF s
  <1>3. Double(s) \in Points /\ Double(s).z \in Field
    <2> DEFINE c == DoubleCoords[CoordsOf(s)]
    <2>1. INFINITY \in Points /\ INFINITY.z \in Field
      BY InfinityIs, OIs
    <2>2. c \in Coords /\ c[3] \in Field /\ s.n \in Nat
      BY <1>1, PointIs, CoordsTypes
    <2>3. Double(s) \in {INFINITY, Extended(c, s.n)}
      BY DEF Double, FromCoords
    <2> HIDE DEF c
    <2> QED BY <2>1, <2>2, <2>3, ExtendedIs
  <1> QED BY <1>2, <1>3 DEF s

LEMMA RoundTypes ==
  ASSUME NEW r \in Rounds
  PROVE  /\ r.k \in Nat /\ r.acc \in Coords /\ r.entry \in Points /\ r.entry.z \in Field
         /\ r.i \in Nat \ {0} /\ NextRound(r) \in Rounds
         /\ NextRound(r).k = Beyond(r.k)
         /\ NextRound(r).acc = AddDigit(r.acc, Digit(r.k), Entry(r.entry))
         /\ NextRound(r).entry = Double(Scale(r.entry)) /\ NextRound(r).i = 2 * r.i
  <1>1. /\ r.k \in Nat /\ r.acc \in Coords /\ r.entry \in Points /\ r.entry.z \in Field
        /\ r.i \in Nat \ {0}
    BY DEF Rounds
  <1> DEFINE k == Beyond(r.k)  acc == AddDigit(r.acc, Digit(r.k), Entry(r.entry))
             entry == Double(Scale(r.entry))  i == 2 * r.i
  <1>2. k \in Nat /\ acc \in Coords /\ entry \in Points /\ entry.z \in Field /\ i \in Nat \ {0}
    <2>1. Entry(r.entry) \in Coords /\ entry \in Points /\ entry.z \in Field
      BY <1>1, EntryTypes
    <2>2. k \in Nat
      BY <1>1, DigitFacts
    <2>3. acc \in Coords
      BY <1>1, <2>1, AddDigitType
    <2>4. i \in Nat \ {0}
      BY <1>1
    <2> QED BY <2>1, <2>2, <2>3, <2>4
  <1>3. NextRound(r) = [k |-> k, acc |-> acc, entry |-> entry, i |-> i]
    BY DEF NextRound
  <1> HIDE DEF k, acc, entry, i
  <1>4. /\ NextRound(r) \in Rounds /\ NextRound(r).k = k /\ NextRound(r).acc = acc
        /\ NextRound(r).entry = entry /\ NextRound(r).i = i
    BY <1>2, <1>3 DEF Rounds
  <1> QED BY <1>1, <1>4 DEF k, acc, entry, i

(* The equation of the loop of _mul_precompute.                            *)
LEMMA TableLoop ==
  ASSUME NEW p0, NEW k0
  PROVE  \E sum :
           /\ \A r \in Rounds : sum[r] = IF TableEnd(r.i) THEN r.acc ELSE sum[NextRound(r)]
           /\ MulTable(p0, k0) = sum[[k |-> k0, acc |-> Neutral, entry |-> p0, i |-> 1]]
  <1> DEFINE F(f) == [r \in Rounds |-> IF TableEnd(r.i) THEN r.acc ELSE f[NextRound(r)]]
             sum == CHOOSE f : f = F(f)
             next == [r \in Rounds |-> NextRound(r)]
             size == [r \in Rounds |-> IF r.i >= 8 * Order THEN 0 ELSE 8 * Order - r.i]
             base == [r \in Rounds |-> r.acc]
             step == [a \in Rounds \X Coords |-> a[2]]
             End == {r \in Rounds : TableEnd(r.i)}
  <1>1. /\ next \in [Rounds -> Rounds] /\ size \in [Rounds -> Nat] /\ base \in [Rounds -> Coords]
        /\ step \in [Rounds \X Coords -> Coords] /\ Decreases(Rounds, End, next, size)
    <2>1. next \in [Rounds -> Rounds] /\ base \in [Rounds -> Coords]
      BY RoundTypes
    <2>2. size \in [Rounds -> Nat]
      BY RoundTypes, OrderIs
    <2>3. step \in [Rounds \X Coords -> Coords]
      OBVIOUS
    <2>4. ASSUME NEW r \in Rounds, r \notin End PROVE size[next[r]] < size[r]
      <3>1. /\ r.i \in Nat \ {0} /\ ~ (r.i >= 8 * Order) /\ NextRound(r) \in Rounds
            /\ NextRound(r).i = 2 * r.i
        BY <2>4, RoundTypes DEF TableEnd
      <3>2. size[r] = 8 * Order - r.i
        BY <3>1
      <3>3. size[next[r]] = IF 2 * r.i >= 8 * Order THEN 0 ELSE 8 * Order - 2 * r.i
        BY <3>1
      <3> HIDE DEF size, next
      <3> QED BY <3>1, <3>2, <3>3, OrderIs
    <2> HIDE DEF size, next, base, step, End
    <2> QED BY <2>1, <2>2, <2>3, <2>4 DEF Decreases
  <1>2. PICK g \in [Rounds -> Coords] : Solves(g, Rounds, End, next, base, step)
    <2> HIDE DEF next, size, base, step, End, F, sum
    <2> QED BY <1>1, Recursion
  <1>3. ASSUME NEW r \in Rounds
        PROVE  g[r] = IF TableEnd(r.i) THEN r.acc ELSE g[NextRound(r)]
    <2>1. /\ NextRound(r) \in Rounds /\ next[r] = NextRound(r) /\ base[r] = r.acc
          /\ (r \in End <=> TableEnd(r.i))
      BY RoundTypes
    <2>2. step[<<r, g[NextRound(r)]>>] = g[NextRound(r)]
      BY <2>1
    <2> HIDE DEF step, next, base, End
    <2> QED BY <1>2, <2>1, <2>2 DEF Solves
  <1>4. g = F(g)
    BY <1>3
  <1>5. sum = F(sum)
    <2> HIDE DEF F
    <2> QED BY <1>4
  <1>6. MulTable(p0, k0) = sum[[k |-> k0, acc |-> Neutral, entry |-> p0, i |-> 1]]
    BY DEF MulTable
  <1> HIDE DEF sum
  <1>7. \A r \in Rounds : sum[r] = IF TableEnd(r.i) THEN r.acc ELSE sum[NextRound(r)]
    BY <1>5
  <1> QED BY <1>6, <1>7

(* The entry of a doubling, that is not INFINITY as the order is odd.      *)
LEMMA EntryAt ==
  ASSUME NEW e, NEW k \in Int, Held(e, k), k % Order # 0
  PROVE  /\ At(Entry(e), TimesBase(k)) /\ Held(Double(Scale(e)), 2 * k) /\ (2 * k) % Order # 0
  <1> DEFINE u == TimesBase(k)  s == Scale(e)
  <1>1. e # INFINITY
    BY InfinityTold, InfinityIs DEF IsInfinity
  <1>2. Held(s, k) /\ s.x = u[1] /\ s.y % P = u[2] /\ s.y \in Int
    BY <1>1, ScaleHeld
  <1>3. u \in CurvePoints /\ u[1] \in Int /\ u[2] \in Int
    BY TimesIs, CurvePointIs
  <1>4. Congruent(s.x, u[1]) /\ Congruent(s.y, u[2])
    BY <1>2, <1>3, SameSelf
  <1>5. Entry(e) = <<s.x, s.y, 1, (s.x * s.y) % P>>
    BY DEF Entry
  <1> HIDE DEF s
  <1>6. Congruent(s.x * s.y, u[1] * u[2])
    BY <1>4, SameProduct
  <1>7. Congruent((s.x * s.y) % P, u[1] * u[2])
    BY <1>6, SameMod2
  <1>8. At(Entry(e), u)
    BY <1>3, <1>4, <1>5, <1>7, AtOne
  <1>9. Held(Double(s), 2 * k)
    BY <1>2, DoubleHeld
  <1> QED BY <1>8, <1>9, HalfOfMultiple DEF s

(* What is left of the multiplier is gone before the table ends.           *)
Adequate(k, i) == (k - 1) * i < 2 * Order /\ (i >= 4 * Order => k = 0)

LEMMA NextAdequate ==
  ASSUME NEW k \in Nat, NEW i \in Nat \ {0}, Adequate(k, i)
  PROVE  Adequate(Beyond(k), 2 * i)
  <1> DEFINE b == Beyond(k)  d == Digit(k)
  <1>1. /\ d \in {- 1, 0, 1} /\ d \in Int /\ b \in Nat /\ k = 2 * b + d /\ (k # 0 => b < k)
        /\ (k = 0 => b = 0) /\ Order \in Int /\ Order > 2
    BY DigitFacts, OrderIs
  <1> HIDE DEF b, d
  <1>2. (k - 1) * i < 2 * Order /\ (i >= 4 * Order => k = 0)
    BY DEF Adequate
  <1>3. (b - 1) * (2 * i) < 2 * Order
    <2>1. (b - 1) * (2 * i) = (2 * b - 2) * i
      BY <1>1
    <2>2. 2 * b - 2 <= k - 1
      BY <1>1
    <2>3. (2 * b - 2) * i <= (k - 1) * i
      <3> DEFINE x == 2 * b - 2  y == k - 1
      <3>1. x \in Int /\ y \in Int /\ x <= y /\ i \in Nat
        BY <1>1, <2>2
      <3> HIDE DEF x, y
      <3>2. y * i = x * i + (y - x) * i /\ (y - x) * i >= 0 /\ x * i \in Int /\ y * i \in Int
        BY <3>1
      <3>3. x * i <= y * i
        BY <3>1, <3>2
      <3> QED BY <3>3 DEF x, y
    <2>4. (2 * b - 2) * i \in Int /\ (k - 1) * i \in Int
      BY <1>1
    <2> QED BY <1>1, <1>2, <2>1, <2>3, <2>4
  <1>4. ASSUME 2 * i >= 4 * Order PROVE b = 0
    <2>1. i >= 2 * Order
      BY <1>1, <1>4
    <2>2. k <= 1
      <3> SUFFICES ASSUME k >= 2 PROVE FALSE
        OBVIOUS
      <3>1. (k - 1) * i = i + (k - 2) * i /\ (k - 2) * i >= 0 /\ (k - 2) * i \in Int
        OBVIOUS
      <3>2. (k - 1) * i >= i
        BY <3>1
      <3> QED BY <1>1, <1>2, <2>1, <3>1, <3>2
    <2> QED BY <1>1, <2>2
  <1> QED BY <1>3, <1>4 DEF Adequate, b

(* The loop of _mul_precompute.                                            *)
LEMMA MulTableAt ==
  ASSUME NEW p0, NEW l \in Int, Held(p0, l), l % Order # 0, p0.z \in Field,
         NEW k0 \in Nat, k0 < 2 * Order
  PROVE  At(MulTable(p0, k0), TimesBase(k0 * l)) /\ InField(MulTable(p0, k0))
  <1>1. PICK sum :
           /\ \A r \in Rounds : sum[r] = IF TableEnd(r.i) THEN r.acc ELSE sum[NextRound(r)]
           /\ MulTable(p0, k0) = sum[[k |-> k0, acc |-> Neutral, entry |-> p0, i |-> 1]]
    BY TableLoop
  <1> DEFINE Right(r, a, e) ==
               /\ At(r.acc, TimesBase(a)) /\ InField(r.acc)
               /\ Held(r.entry, e) /\ e % Order # 0 /\ Adequate(r.k, r.i)
             Wrong(r) == \E a, e \in Int :
               Right(r, a, e) /\ ~ (At(sum[r], TimesBase(a + r.k * e)) /\ InField(sum[r]))
             Left(r) == IF r.i >= 8 * Order THEN 0 ELSE 8 * Order - r.i
             T == {n \in Nat : \E r \in Rounds : n = Left(r) /\ Wrong(r)}
  <1>2. T = {}
    <2> SUFFICES ASSUME T # {} PROVE FALSE
      OBVIOUS
    <2>1. PICK n \in T : \A m \in T : n <= m
      <3>1. T \in SUBSET Nat
        OBVIOUS
      <3> HIDE DEF T
      <3> QED BY <3>1, NatMin
    <2>2. PICK r \in Rounds : n = Left(r) /\ Wrong(r)
      OBVIOUS
    <2> HIDE DEF T
    <2>3. PICK a \in Int, e \in Int :
            Right(r, a, e) /\ ~ (At(sum[r], TimesBase(a + r.k * e)) /\ InField(sum[r]))
      BY <2>2
    <2>4. /\ r.k \in Nat /\ r.i \in Nat \ {0} /\ NextRound(r) \in Rounds
          /\ NextRound(r).k = Beyond(r.k)
          /\ NextRound(r).acc = AddDigit(r.acc, Digit(r.k), Entry(r.entry))
          /\ NextRound(r).entry = Double(Scale(r.entry)) /\ NextRound(r).i = 2 * r.i
      BY RoundTypes
    <2>5. CASE TableEnd(r.i)
      <3>1. r.i >= 4 * Order
        BY <2>4, <2>5, OrderIs DEF TableEnd
      <3>2. r.k = 0
        BY <2>3, <3>1 DEF Adequate
      <3>3. sum[r] = r.acc /\ a + r.k * e = a
        BY <1>1, <2>5, <3>2
      <3> QED BY <2>3, <3>3
    <2>6. CASE ~ TableEnd(r.i)
      <3> DEFINE s == NextRound(r)  d == Digit(r.k)  b == Beyond(r.k)
      <3>1. d \in {- 1, 0, 1} /\ d \in Int /\ b \in Nat /\ r.k = 2 * b + d
        BY <2>4, DigitFacts
      <3> HIDE DEF d, b
      <3>2. At(Entry(r.entry), TimesBase(e)) /\ Held(s.entry, 2 * e) /\ (2 * e) % Order # 0
        BY <2>3, <2>4, EntryAt
      <3>3. At(s.acc, TimesBase(a + d * e)) /\ InField(s.acc)
        BY <2>3, <2>4, <3>1, <3>2, AddDigitAt DEF d
      <3>4. Adequate(s.k, s.i) /\ s.k = b
        BY <2>3, <2>4, NextAdequate DEF b
      <3>5. a + d * e \in Int /\ 2 * e \in Int /\ (a + d * e) + b * (2 * e) = a + r.k * e
        <4>1. d * e \in Int /\ b * (2 * e) \in Int /\ (2 * b + d) * e = b * (2 * e) + d * e
          BY <3>1
        <4> QED BY <3>1, <4>1
      <3>6. sum[r] = sum[s]
        BY <1>1, <2>6
      <3>7. Left(s) < n /\ Left(s) \in Nat
        <4>1. ~ (r.i >= 8 * Order) /\ s.i = 2 * r.i
          BY <2>4, <2>6 DEF TableEnd
        <4> HIDE DEF s
        <4> QED BY <2>2, <2>4, <4>1, OrderIs
      <3>8. Right(s, a + d * e, 2 * e)
        BY <3>2, <3>3, <3>4
      <3>9. ~ (At(sum[s], TimesBase((a + d * e) + s.k * (2 * e))) /\ InField(sum[s]))
        BY <2>3, <3>4, <3>5, <3>6
      <3>10. s \in Rounds
        BY <2>4
      <3> HIDE DEF s, Right
      <3>11. Wrong(s)
        BY <3>5, <3>8, <3>9
      <3> HIDE DEF Wrong, Left
      <3>12. Left(s) \in T
        BY <3>7, <3>10, <3>11 DEF T
      <3>13. n \in Nat
        BY DEF T
      <3> QED BY <2>1, <3>7, <3>12, <3>13
    <2> QED BY <2>5, <2>6
  <1> DEFINE r == [k |-> k0, acc |-> Neutral, entry |-> p0, i |-> 1]
  <1>3. r \in Rounds /\ r.k = k0 /\ r.acc = Neutral /\ r.entry = p0 /\ r.i = 1
    <2>1. p0 \in Points
      BY DEF Held
    <2> QED BY <2>1, NeutralAt DEF Rounds
  <1>4. Adequate(k0, 1)
    <2>1. (k0 - 1) * 1 = k0 - 1 /\ ~ (1 >= 4 * Order)
      BY OrderIs
    <2> QED BY <2>1, OrderIs DEF Adequate
  <1> HIDE DEF r
  <1>5. Right(r, 0, l)
    BY <1>3, <1>4, NeutralAt
  <1>6. Left(r) \in Nat
    BY <1>3, OrderIs
  <1>7. ~ Wrong(r)
    <2> HIDE DEF Wrong, Left
    <2> QED BY <1>2, <1>3, <1>6
  <1> HIDE DEF Right
  <1>8. At(sum[r], TimesBase(0 + r.k * l)) /\ InField(sum[r])
    BY <1>5, <1>7, 0 \in Int
  <1>9. 0 + r.k * l = k0 * l
    BY <1>3
  <1> QED BY <1>1, <1>8, <1>9 DEF r

LEMMA OrderTimes ==
  ASSUME NEW l \in Int, l % Order = 0, NEW k \in Int
  PROVE  (k * l) % Order = 0
  <1> DEFINE w == l \div Order
  <1>1. w \in Int /\ l = Order * w /\ Order \in Int
    BY OrderIs, DivMod
  <1> HIDE DEF w
  <1>2. k * l = (k * w) * Order /\ k * w \in Int /\ k * l \in Int
    BY <1>1
  <1> QED BY <1>2, OrderIs, MultipleOf

(* __mul__                                                                 *)
LEMMA MulHeld ==
  ASSUME NEW a, NEW l \in Int, Held(a, l), NEW k \in Nat, NEW g,
         g => a.n = Order /\ a.z \in Field
  PROVE  Held(Mul(a, k, g), k * l)
  <1>0. k * l \in Int
    OBVIOUS
  <1>1. CASE IsInfinity(a)
    <2>1. (k * l) % Order = 0
      BY <1>1, InfinityTold, OrderTimes
    <2> QED BY <1>0, <1>1, <2>1, HeldInfinity DEF Mul
  <1>2. CASE ~ IsInfinity(a) /\ k = 0
    <2>1. (k * l) % Order = 0
      <3>1. k * l = 0
        BY <1>2
      <3> QED BY <3>1, OrderIs, RemainderOfSmall
    <2> QED BY <1>0, <1>2, <2>1, HeldInfinity DEF Mul
  <1>3. CASE ~ IsInfinity(a) /\ k = 1
    <2>1. k * l = l
      BY <1>3
    <2> QED BY <1>3, <2>1 DEF Mul
  <1>4. CASE ~ IsInfinity(a) /\ k # 0 /\ k # 1
    <2> DEFINE r == Reduced(k, a.n)
    <2>1. r \in Nat /\ (r * l) % Order = (k * l) % Order /\ (a.n = Order => r < 2 * Order)
      <3>1. CASE a.n = 0
        BY <3>1, OrderIs DEF Reduced
      <3>2. CASE a.n # 0
        <4>1. a.n = Order /\ r = k % (2 * Order) /\ 2 * Order \in Nat \ {0} /\ Order \in Nat \ {0}
          BY <3>2, OrderIs DEF Held, Reduced
        <4> DEFINE w == k \div (2 * Order)
        <4>2. /\ r \in Int /\ 0 <= r /\ r < 2 * Order /\ w \in Int /\ k = (2 * Order) * w + r
          <5> DEFINE m == 2 * Order
          <5>1. m \in Nat \ {0} /\ r = k % m /\ w = k \div m /\ k \in Int
            BY <4>1
          <5> HIDE DEF m, r, w
          <5>2. r \in Int /\ 0 <= r /\ r < m /\ w \in Int /\ k = m * w + r
            BY <5>1, DivMod
          <5> QED BY <5>2 DEF m
        <4> HIDE DEF r, w
        <4>3. k * l = r * l + (2 * (w * l)) * Order
          <5>1. w \in Int /\ r \in Int /\ l \in Int /\ Order \in Int /\ k = (2 * Order) * w + r
            BY <4>1, <4>2
          <5>2. ((2 * Order) * w + r) * l = r * l + (2 * (w * l)) * Order
            BY ONLY <5>1
          <5> QED BY <5>1, <5>2
        <4>4. r * l \in Int /\ 2 * (w * l) \in Int
          BY <4>2
        <4>5. (k * l) % Order = (r * l) % Order
          <5> DEFINE m == k * l  n == r * l  s == 2 * (w * l)
          <5>1. m \in Int /\ n \in Int /\ s \in Int /\ Order \in Nat \ {0} /\ m = n + s * Order
            BY <1>0, <4>1, <4>3, <4>4
          <5> HIDE DEF m, n, s
          <5>2. m % Order = n % Order
            BY <5>1, SameRemainder
          <5> QED BY <5>2 DEF m, n
        <4> QED BY <4>2, <4>5
      <3> QED BY <3>1, <3>2
    <2>2. a # INFINITY
      BY <1>4, InfinityIs DEF IsInfinity
    <2>3. At(CoordsOf(a), TimesBase(l)) /\ a.n \in {0, Order} /\ l % Order # 0
      BY <1>4, <2>2, HeldPoint, InfinityTold DEF Held
    <2> DEFINE c == IF g THEN MulTable(a, r) ELSE Ladder(CoordsOf(a), r)
    <2>4. Mul(a, k, g) = FromCoords(c, a.n)
      BY <1>4 DEF Mul
    <2> HIDE DEF r
    <2>5. At(c, TimesBase(r * l)) /\ InField(c)
      <3>1. CASE g
        BY <2>1, <2>3, <3>1, MulTableAt
      <3>2. CASE ~ g
        BY <2>1, <2>3, <3>2, LadderAt
      <3> QED BY <3>1, <3>2
    <2> HIDE DEF c
    <2>6. r * l \in Int
      BY <2>1
    <2>7. Held(FromCoords(c, a.n), r * l)
      BY <2>3, <2>5, <2>6, FromCoordsHeld
    <2> QED BY <1>0, <2>1, <2>4, <2>6, <2>7, HeldSame
  <1> QED BY <1>1, <1>2, <1>3, <1>4

LEMMA GeneratorHeld ==
  Held(Generator, 1) /\ Generator.n = Order /\ Generator.z = 1 /\ 1 \in Field
  <1> DEFINE t == (BaseX * BaseY) % P  c == <<BaseX, BaseY, 1, t>>  B == <<BaseX, BaseY>>
  <1>1. TimesBase(1) = B
    <2>1. 1 % Order = 1
      BY OrderIs, RemainderOfSmall
    <2>2. RMul(1) = RAdd(RMul(0), B)
      <3>1. 1 = 0 + 1 /\ 0 \in Nat
        OBVIOUS
      <3> QED BY <3>1, RMulIs
    <2>3. RAdd(O, B) = B
      BY OIs, BaseIs, RAddO, RAddCommutes
    <2> QED BY <2>1, <2>2, <2>3, RMulIs DEF TimesBase
  <1>2. BaseX \in Field /\ BaseY \in Field /\ BaseX \in Int /\ BaseY \in Int
    BY EdwardsAssumption, FieldIs
  <1>3. At(c, B) /\ c \in Coords
    <2>1. BaseX * BaseY \in Int
      BY <1>2
    <2>2. Congruent(t, BaseX * BaseY)
      BY <2>1, SameSelf
    <2>3. B[1] = BaseX /\ B[2] = BaseY
      OBVIOUS
    <2> HIDE DEF t, B
    <2> QED BY <1>2, <2>2, <2>3, SameSelf, AtOne, BaseIs DEF B
  <1>4. Generator = Extended(c, Order) /\ c[1] = BaseX /\ c[2] = BaseY /\ c[3] = 1
    BY DEF Generator
  <1> HIDE DEF c, B
  <1>5. /\ Generator \in Points /\ Generator.x = BaseX /\ Generator.y = BaseY /\ Generator.z = 1
        /\ Generator.n = Order /\ CoordsOf(Generator) = c
    BY <1>3, <1>4, OrderIs, ExtendedIs
  <1> QED BY <1>1, <1>2, <1>3, <1>5, FieldFits, OIs DEF Held

LEMMA MulGeneratorHeld ==
  ASSUME NEW k \in Nat
  PROVE  Held(MulGenerator(k), k)
  <1>1. k * 1 = k /\ 1 \in Int
    OBVIOUS
  <1> QED BY <1>1, GeneratorHeld, MulHeld DEF MulGenerator

(* __eq__                                                                  *)
LEMMA EqHeld ==
  ASSUME NEW a, NEW b, NEW j \in Int, NEW k \in Int, Held(a, j), Held(b, k)
  PROVE  Eq(a, b) <=> j % Order = k % Order
  <1>1. CASE a = INFINITY
    <2>1. j % Order = 0
      <3>1. IsInfinity(a)
        BY <1>1, InfinityIs DEF IsInfinity
      <3> QED BY <3>1, InfinityTold
    <2>2. IsInfinity(b) <=> k % Order = 0
      BY InfinityTold
    <2>3. Eq(a, b) <=> IsInfinity(b)
      BY <1>1 DEF Eq
    <2>4. k % Order = 0 <=> j % Order = k % Order
      BY <2>1
    <2> QED BY <2>2, <2>3, <2>4
  <1>2. CASE a # INFINITY /\ b = INFINITY
    <2>1. k % Order = 0
      <3>1. IsInfinity(b)
        BY <1>2, InfinityIs DEF IsInfinity
      <3> QED BY <3>1, InfinityTold
    <2>2. IsInfinity(a) <=> j % Order = 0
      BY InfinityTold
    <2>3. Eq(a, b) <=> IsInfinity(a)
      BY <1>2 DEF Eq
    <2>4. j % Order = 0 <=> j % Order = k % Order
      BY <2>1
    <2> QED BY <2>2, <2>3, <2>4
  <1>3. CASE a # INFINITY /\ b # INFINITY
    <2> DEFINE u == TimesBase(j)  v == TimesBase(k)
    <2>1. /\ a.x \in Int /\ a.y \in Int /\ a.z \in Int /\ ~ Zero(a.z)
          /\ Congruent(a.x, u[1] * a.z) /\ Congruent(a.y, u[2] * a.z)
          /\ b.x \in Int /\ b.y \in Int /\ b.z \in Int /\ ~ Zero(b.z)
          /\ Congruent(b.x, v[1] * b.z) /\ Congruent(b.y, v[2] * b.z)
      BY <1>3, HeldPoint
    <2>2. /\ u = <<u[1], u[2]>> /\ v = <<v[1], v[2]>>
          /\ u[1] \in Field /\ u[2] \in Field /\ v[1] \in Field /\ v[2] \in Field
          /\ u[1] \in Int /\ u[2] \in Int /\ v[1] \in Int /\ v[2] \in Int
      BY TimesIs, CurvePointIs
    <2>3. ASSUME NEW x \in Int, NEW y \in Int, NEW s \in Field, NEW t \in Field,
                 Congruent(x, s * a.z), Congruent(y, t * b.z)
          PROVE  (x * b.z) % P = (y * a.z) % P <=> s = t
      <3>1. s \in Int /\ t \in Int
        BY FieldIs
      <3>2. Congruent(x * b.z, (s * a.z) * b.z) /\ Congruent(y * a.z, (t * b.z) * a.z)
        BY <2>1, <2>3, SameSelf, SameProduct
      <3>3. ASSUME s = t PROVE (x * b.z) % P = (y * a.z) % P
        <4>1. (s * a.z) * b.z = (t * b.z) * a.z
          BY <2>1, <3>1, <3>3
        <4>2. Congruent(x * b.z, y * a.z)
          BY <3>2, <4>1, SameMeet
        <4>3. x * b.z \in Int /\ y * a.z \in Int
          BY <2>1
        <4> QED BY <4>2, <4>3, SameIs
      <3>4. ASSUME (x * b.z) % P = (y * a.z) % P PROVE s = t
        <4>1. x * b.z \in Int /\ y * a.z \in Int
          BY <2>1
        <4>2. Congruent(x * b.z, y * a.z)
          BY <3>4, <4>1, SameIs
        <4>3. Congruent((s * a.z) * b.z, (t * b.z) * a.z)
          BY <3>2, <4>2, SameFlip, SameChain
        <4>4. (s * a.z) * b.z - (t * b.z) * a.z = (s - t) * (a.z * b.z) /\ s - t \in Int
              /\ a.z * b.z \in Int
          BY <2>1, <3>1
        <4>5. Zero((s - t) * (a.z * b.z)) /\ ~ Zero(a.z * b.z)
          BY <2>1, <4>3, <4>4, NonZeroProduct DEF Congruent
        <4>6. Zero(s - t)
          BY <4>4, <4>5, ZeroProduct
        <4> QED BY <3>1, <4>6, SameField DEF Congruent
      <3> QED BY <3>3, <3>4
    <2>4. (a.x * b.z) % P = (b.x * a.z) % P <=> u[1] = v[1]
      BY <2>1, <2>2, <2>3
    <2>5. (a.y * b.z) % P = (b.y * a.z) % P <=> u[2] = v[2]
      BY <2>1, <2>2, <2>3
    <2>6. Eq(a, b) <=> u = v
      <3>1. u = v <=> u[1] = v[1] /\ u[2] = v[2]
        BY <2>2
      <3>2. Eq(a, b) <=> (a.x * b.z) % P = (b.x * a.z) % P /\ (a.y * b.z) % P = (b.y * a.z) % P
        BY <1>3 DEF Eq
      <3> QED BY <2>4, <2>5, <3>1, <3>2
    <2> QED BY <2>6, TimesDiffer
  <1> QED BY <1>1, <1>2, <1>3

----------------------------------------------------------------------------
(* Encodings.                                                              *)
LEMMA Denominator ==
  ASSUME NEW y \in Int
  PROVE  D * y * y - A \in Int /\ ~ Zero(D * y * y - A)
  <1>0. A \in Int /\ D \in Int
    BY PFacts
  <1> SUFFICES ASSUME Zero(D * y * y - A) PROVE FALSE
    BY <1>0
  <1>1. PICK al \in Field : (al * al - A) % P = 0
    BY SquaresAssumption
  <1>2. al \in Int /\ al * al - A \in Int
    BY <1>0, <1>1, FieldIs
  <1>3. Zero(al * al - A)
    BY <1>1, <1>2 DEF Zero
  <1>4. Zero(al * al - D * y * y)
    <2>1. (al * al - A) - (D * y * y - A) = al * al - D * y * y
      BY <1>0, <1>2
    <2> QED BY <1>3, <2>1, ZeroSum
  <1>5. Zero(y)
    BY <1>2, <1>4, NoRoot
  <1>6. Zero(A)
    <2>1. (D * y) * y - (D * y * y - A) = A /\ D * y \in Int
      BY <1>0
    <2> QED BY <1>5, <2>1, ZeroTimes, ZeroSum
  <1> QED BY <1>6, SquaresAssumption DEF Zero

LEMMA XSquaredIs ==
  ASSUME NEW y \in Int
  PROVE  /\ XSquared(y) \in Field /\ XSquared(y) \in Int
         /\ Zero(XSquared(y) * (D * y * y - A) - (y * y - 1))
  <1> DEFINE a == D * y * y - A  n == y * y - 1  m == a % P  i == InverseMod(m)
  <1>1. a \in Int /\ ~ Zero(a) /\ n \in Int
    BY Denominator
  <1> HIDE DEF a, n
  <1>2. m \in Field /\ m \in Int /\ Congruent(m, a)
    BY <1>1, ZeroMod, SameSelf
  <1>3. ~ Zero(m) /\ m # 0
    BY <1>1, <1>2, SameZero, ZeroNone
  <1> HIDE DEF m
  <1>4. i \in Field /\ (i * m) % P = 1
    <2>1. i = CHOOSE j \in Field : (j * m) % P = 1
      BY <1>3 DEF InverseMod
    <2> QED BY <1>2, <1>3, <2>1, InverseIs
  <1> HIDE DEF i
  <1>5. i \in Int /\ Zero(i * m - 1)
    BY <1>2, <1>4, FieldIs, TimesInverse
  <1>6. Zero(i * a - 1)
    <2>1. i * a - 1 = 1 * (i * m - 1) + (- i) * (m - a)
      BY <1>1, <1>2, <1>5
    <2>2. Zero(m - a) /\ - i \in Int
      BY <1>2, <1>5 DEF Congruent
    <2> QED BY <1>5, <2>1, <2>2, Combined, 1 \in Int
  <1>7. XSquared(y) = (n * i) % P
    BY DEF XSquared, n, a, m, i
  <1>8. /\ XSquared(y) \in Field /\ XSquared(y) \in Int /\ Zero(XSquared(y) * a - n)
    BY <1>1, <1>5, <1>6, <1>7, QuotientIs
  <1> QED BY <1>8 DEF a, n

(* What the square root is taken of is the square of the x that belongs.   *)
LEMMA RootOnCurve ==
  ASSUME NEW x \in Int, NEW y \in Int
  PROVE  (x * x) % P = XSquared(y) <=> Zero(Off(x, y))
  <1> DEFINE a == D * y * y - A  n == y * y - 1  s == XSquared(y)  m == x * x
  <1>1. /\ a \in Int /\ ~ Zero(a) /\ s \in Field /\ s \in Int /\ Zero(s * a - n) /\ n \in Int
        /\ m \in Int
    BY Denominator, XSquaredIs
  <1>2. Off(x, y) = (- 1) * (m * a - n) /\ (- 1) * Off(x, y) = m * a - n
    BY PFacts DEF Off
  <1> HIDE DEF a, n, s, m
  <1>3. Zero(Off(x, y)) <=> Zero(m * a - n)
    BY <1>2, ZeroTimes, - 1 \in Int
  <1>4. (m - s) * a = (m * a - n) - (s * a - n) /\ (m - s) * a + (s * a - n) = m * a - n
        /\ m - s \in Int
    BY <1>1
  <1>5. Zero(m * a - n) <=> Zero(m - s)
    <2>1. ASSUME Zero(m * a - n) PROVE Zero(m - s)
      <3>1. Zero((m - s) * a)
        BY <1>1, <1>4, <2>1, ZeroSum
      <3> QED BY <1>1, <1>4, <3>1, ZeroProduct
    <2>2. ASSUME Zero(m - s) PROVE Zero(m * a - n)
      BY <1>1, <1>4, <2>2, ZeroSum, ZeroTimes
    <2> QED BY <2>1, <2>2
  <1>6. m % P = s <=> Zero(m - s)
    <2>1. s % P = s
      BY <1>1, FieldIs
    <2> QED BY <1>1, <2>1, SameIs DEF Congruent
  <1> QED BY <1>3, <1>5, <1>6 DEF m, s

(* Parity tells the two roots apart.                                       *)
LEMMA RootUnique ==
  ASSUME NEW x \in Field, NEW y \in Field, Zero(x * x - y * y), x % 2 = y % 2
  PROVE  x = y
  <1>1. /\ x \in Int /\ y \in Int /\ x \in Nat /\ y \in Nat /\ x < P /\ y < P
        /\ P \in Nat \ {0} /\ P \in Int /\ P % 2 = 1
    BY FieldIs, PFacts
  <1>2. x * x - y * y = (x - y) * (x + y) /\ x - y \in Int /\ x + y \in Int
    BY <1>1
  <1>3. CASE Zero(x - y)
    BY <1>1, <1>3, SameField DEF Congruent
  <1>4. CASE Zero(x + y)
    <2>1. x + y = 0 \/ x + y = P
      <3>1. PICK k \in Int : x + y = k * P
        BY <1>4, ZeroIs
      <3>2. k < 2
        <4> SUFFICES ASSUME k >= 2 PROVE FALSE
          OBVIOUS
        <4>1. k * P = 2 * P + (k - 2) * P /\ (k - 2) * P >= 0 /\ (k - 2) * P \in Int
          BY <1>1
        <4> QED BY <1>1, <3>1, <4>1
      <3>3. k >= 0
        <4> SUFFICES ASSUME k <= - 1 PROVE FALSE
          OBVIOUS
        <4>1. k * P = - P - (- 1 - k) * P /\ (- 1 - k) * P >= 0 /\ (- 1 - k) * P \in Int
          BY <1>1
        <4> QED BY <1>1, <3>1, <4>1
      <3>4. k = 0 \/ k = 1
        BY <3>2, <3>3
      <3> QED BY <1>1, <3>1, <3>4
    <2>2. x + y # P
      BY <1>1
    <2> QED BY <1>1, <2>1, <2>2
  <1> QED BY <1>2, <1>3, <1>4, ZeroProduct

(* from_bytes: the point is on the curve, and x has the parity it is to    *)
(* have.                                                                   *)
LEMMA FromBytesIs ==
  ASSUME NEW e \in Encodings, Decodes(e), NEW pt, pt = FromBytes(e)
  PROVE  /\ pt \in Points /\ pt # INFINITY /\ pt.x \in Field /\ pt.x \in Int /\ pt.y = e.y /\ pt.z = 1
         /\ pt.t = pt.x * e.y /\ pt.n = 0 /\ CoordsOf(pt) = <<pt.x, e.y, 1, pt.x * e.y>>
         /\ e.fits /\ e.y \in 0 .. MaxY /\ e.y \in Int /\ e.sign \in {0, 1}
         /\ e = Encoding(e.sign, e.y)
         /\ Zero(Off(pt.x, e.y)) /\ (pt.x # 0 => pt.x % 2 = e.sign)
  <1> DEFINE root == CHOOSE x \in Field : (x * x) % P = XSquared(e.y)
             x == IF root % 2 # e.sign THEN (- root) % P ELSE root
             c == <<x, e.y, 1, x * e.y>>
  <1>1. /\ e.fits /\ e.y \in 0 .. MaxY /\ e.y \in Int /\ e.sign \in {0, 1}
        /\ e = Encoding(e.sign, e.y)
    <2>1. e.fits
      BY DEF Decodes
    <2>2. WrongLength.fits = FALSE
      BY DEF WrongLength
    <2>3. e \in [fits : {TRUE}, sign : {0, 1}, y : 0 .. MaxY]
      BY <2>1, <2>2, Zenon DEF Encodings
    <2>4. e.fits = TRUE /\ e.sign \in {0, 1} /\ e.y \in 0 .. MaxY
          /\ e = [fits |-> e.fits, sign |-> e.sign, y |-> e.y]
      BY <2>3
    <2>5. e = Encoding(e.sign, e.y)
      BY <2>4, Zenon DEF Encoding
    <2> QED BY <2>1, <2>4, <2>5, EdwardsAssumption
  <1>2. root \in Field /\ (root * root) % P = XSquared(e.y)
    BY DEF Decodes
  <1> HIDE DEF root
  <1>3. root \in Int /\ root \in Nat /\ root < P /\ P \in Nat \ {0} /\ P \in Int /\ P % 2 = 1
        /\ P \in Nat
    BY <1>2, FieldIs, PFacts
  <1>4. /\ x \in Field /\ x \in Int /\ (x = root \/ x = P - root \/ x = 0)
        /\ (x # 0 => x % 2 = e.sign) /\ Zero(x * x - root * root)
    <2>1. CASE root % 2 = e.sign
      <3>1. x = root /\ x * x - root * root = 0
        BY <1>3, <2>1
      <3> HIDE DEF x
      <3> QED BY <1>2, <1>3, <2>1, <3>1, ZeroNone
    <2>2. CASE root % 2 # e.sign /\ root = 0
      <3>1. x = 0
        <4>1. x = (- root) % P
          BY <2>2
        <4>2. - root = 0
          <5> DEFINE m == - root
          <5>1. m \in Int /\ root + m = 0
            BY <1>3
          <5> HIDE DEF m
          <5>2. m = 0
            BY <2>2, <5>1
          <5> QED BY <5>2 DEF m
        <4> HIDE DEF x
        <4> QED BY <1>3, <4>1, <4>2, RemainderOfSmall
      <3> HIDE DEF x
      <3> QED BY <2>2, <3>1, OIs, ZeroNone
    <2>3. CASE root % 2 # e.sign /\ root # 0
      <3>1. x = P - root
        <4>1. P - root \in Nat /\ P - root < P /\ P - root = - root + 1 * P /\ - root \in Int
          BY <1>3, <2>3
        <4>2. (P - root) % P = P - root
          BY <1>3, <4>1, RemainderOfSmall
        <4>3. (P - root) % P = (- root) % P
          <5> DEFINE m == P - root  n == - root
          <5>1. m \in Int /\ n \in Int /\ m = n + 1 * P /\ 1 \in Int /\ P \in Nat \ {0}
            BY <1>3, <4>1
          <5> HIDE DEF m, n
          <5>2. m % P = n % P
            BY <5>1, SameRemainder
          <5> QED BY <5>2 DEF m, n
        <4>4. x = (- root) % P
          BY <2>3
        <4> HIDE DEF x
        <4> QED BY <4>2, <4>3, <4>4
      <3> HIDE DEF x
      <3>2. x \in Field /\ x \in Int
        BY <1>3, <2>3, <3>1 DEF Field
      <3>3. x % 2 = e.sign
        BY <1>1, <1>3, <2>3, <3>1
      <3>4. x * x - root * root = (P - 2 * root) * P /\ P - 2 * root \in Int
        <4>1. (P - root) * (P - root) - root * root = (P - 2 * root) * P
          BY <1>3
        <4> QED BY <1>3, <3>1, <4>1
      <3> QED BY <3>1, <3>2, <3>3, <3>4, ZeroIs
    <2> QED BY <2>1, <2>2, <2>3
  <1>5. pt = Extended(c, 0)
    BY DEF FromBytes, root
  <1> HIDE DEF x
  <1>6. (x * x) % P = XSquared(e.y)
    <2>1. Congruent(x * x, root * root) /\ x * x \in Int /\ root * root \in Int
      BY <1>3, <1>4 DEF Congruent
    <2> QED BY <1>2, <2>1, SameIs
  <1>7. Zero(Off(x, e.y))
    BY <1>1, <1>4, <1>6, RootOnCurve
  <1>8. c \in Coords /\ c[1] = x /\ c[2] = e.y /\ c[3] = 1 /\ c[4] = x * e.y
    <2>1. x * e.y \in Int
      BY <1>1, <1>4
    <2> QED BY <1>1, <1>4, <2>1, CoordsAre, 1 \in Int
  <1> DEFINE d == c
  <1> HIDE DEF d
  <1>9. /\ pt \in Points /\ pt.x = x /\ pt.y = e.y /\ pt.z = 1 /\ pt.t = x * e.y /\ pt.n = 0
        /\ CoordsOf(pt) = d
    <2>1. d \in Coords /\ d[1] = x /\ d[2] = e.y /\ d[3] = 1 /\ d[4] = x * e.y /\ pt = Extended(d, 0)
      BY <1>5, <1>8 DEF d
    <2> QED BY <2>1, ExtendedIs, 0 \in Nat
  <1>10. pt # INFINITY
    BY <1>9, InfinityIs
  <1> QED BY <1>1, <1>4, <1>7, <1>9, <1>10 DEF d

(* What from_bytes makes of the encoding of a point.                       *)
LEMMA Reads ==
  ASSUME NEW x \in Field, NEW y \in 0 .. MaxY, Zero(Off(x, y)), NEW e, e = Encoding(x % 2, y)
  PROVE  /\ e \in Encodings /\ Decodes(e) /\ FromBytes(e).x = x /\ FromBytes(e).y = y
         /\ e.y = y /\ e.fits
  <1>1. x \in Int /\ y \in Int /\ x % 2 \in {0, 1}
    BY FieldIs
  <1>2. e \in Encodings /\ e.fits /\ e.y = y /\ e.sign = x % 2
    BY <1>1 DEF Encodings, Encoding
  <1>3. (x * x) % P = XSquared(y)
    BY <1>1, RootOnCurve
  <1>4. Decodes(e)
    BY <1>2, <1>3 DEF Decodes
  <1> DEFINE pt == FromBytes(e)
  <1>5. /\ pt.x \in Field /\ pt.x \in Int /\ pt.y = y /\ Zero(Off(pt.x, y))
        /\ (pt.x # 0 => pt.x % 2 = x % 2)
    BY <1>2, <1>4, FromBytesIs
  <1> HIDE DEF pt
  <1>6. (pt.x * pt.x) % P = XSquared(y)
    BY <1>1, <1>5, RootOnCurve
  <1>7. Zero(pt.x * pt.x - x * x) /\ Zero(x * x - pt.x * pt.x)
    <2>1. pt.x * pt.x \in Int /\ x * x \in Int
      BY <1>1, <1>5
    <2> QED BY <1>3, <1>6, <2>1, SameIs DEF Congruent
  <1>8. CASE pt.x = 0
    <2>1. x * x - pt.x * pt.x = x * x
      BY <1>1, <1>8
    <2>2. Zero(x)
      BY <1>1, <1>7, <2>1, ZeroProduct
    <2> QED BY <1>2, <1>4, <1>5, <1>8, <2>2, FieldZero DEF pt
  <1>9. CASE pt.x # 0
    BY <1>2, <1>4, <1>5, <1>7, <1>9, RootUnique DEF pt
  <1> QED BY <1>8, <1>9

(* The affine coordinates of what from_bytes reads.                        *)
LEMMA AffineRead ==
  ASSUME NEW e \in Encodings, Decodes(e), NEW pt, pt = FromBytes(e)
  PROVE  /\ Scale(pt) = pt /\ Affine(pt) = <<pt.x, e.y % P>> /\ Affine(pt) \in CurvePoints
         /\ At(CoordsOf(pt), Affine(pt))
  <1> DEFINE x == pt.x  y == e.y  m == y % P
  <1>1. /\ pt # INFINITY /\ pt.z = 1 /\ x \in Field /\ x \in Int /\ pt.y = y /\ y \in Int
        /\ Zero(Off(x, y)) /\ CoordsOf(pt) = <<x, y, 1, x * y>>
    BY FromBytesIs
  <1>2. Scale(pt) = pt
    BY <1>1 DEF Scale
  <1>3. Affine(pt) = <<x, m>>
    <2>1. Affine(pt) = <<Scale(pt).x % P, Scale(pt).y % P>> /\ x % P = x
      BY <1>1, FieldIs DEF Affine
    <2> QED BY <1>1, <1>2, <2>1
  <1>4. m \in Field /\ m \in Int /\ Congruent(y, m)
    BY <1>1, ZeroMod, SameSelf
  <1> HIDE DEF x, y, m
  <1>5. <<x, m>> \in CurvePoints
    <2>1. Zero(Off(x, m))
      <3>1. Congruent(y * y, m * m)
        BY <1>4, SameProduct
      <3>2. Zero(y * y - m * m)
        BY <3>1 DEF Congruent
      <3>3. Off(x, y) - Off(x, m) = (1 - D * x * x) * (y * y - m * m)
            /\ Off(x, m) = Off(x, y) - (Off(x, y) - Off(x, m)) /\ 1 - D * x * x \in Int
        BY <1>1, <1>4, PFacts DEF Off
      <3>4. Zero(Off(x, y) - Off(x, m))
        BY <3>2, <3>3, ZeroTimes
      <3> QED BY <1>1, <3>3, <3>4, ZeroSum
    <2> QED BY <1>1, <1>4, <2>1, CurvePointOf
  <1>6. At(<<x, y, 1, x * y>>, <<x, m>>)
    <2> DEFINE u == <<x, m>>
    <2>1. u \in CurvePoints /\ u[1] = x /\ u[2] = m
      BY <1>5
    <2> HIDE DEF u
    <2>2. Congruent(x, x) /\ Congruent(x * y, x * m)
      BY <1>1, <1>4, SameSelf, SameProduct
    <2> QED BY <1>4, <2>1, <2>2, AtOne DEF u
  <1> QED BY <1>1, <1>2, <1>3, <1>5, <1>6 DEF x, y, m

LEMMA ReadHeld ==
  ASSUME NEW e \in Encodings, Decodes(e), NEW k \in Int, Affine(FromBytes(e)) = TimesBase(k)
  PROVE  Held(FromBytes(e), k)
  <1> DEFINE pt == FromBytes(e)
  <1>1. pt \in Points /\ pt.n = 0 /\ pt.x \in Field /\ pt.y \in 0 .. MaxY
    BY FromBytesIs
  <1>2. At(CoordsOf(pt), TimesBase(k))
    BY AffineRead
  <1> QED BY <1>1, <1>2 DEF Held

(* What to_bytes says of a point of the generator's group, and what is     *)
(* read from that.                                                         *)
LEMMA WrittenHeld ==
  ASSUME NEW pt, NEW k \in Int, Held(pt, k), pt # INFINITY, NEW e, e = ToBytes(pt)
  PROVE  /\ e \in Encodings /\ Decodes(e) /\ e.fits
         /\ FromBytes(e).x = Scale(pt).x /\ FromBytes(e).y = Scale(pt).y /\ e.y = Scale(pt).y
         /\ Affine(FromBytes(e)) = TimesBase(k) /\ Affine(FromBytes(e)) = Affine(pt)
         /\ Held(FromBytes(e), k) /\ ToBytes(FromBytes(e)) = e
  <1> DEFINE x == Scale(pt).x  y == Scale(pt).y  u == TimesBase(k)
  <1>1. /\ x = u[1] /\ y % P = u[2] /\ y \in 0 .. MaxY /\ y \in Int /\ Affine(pt) = u
    BY ScaleHeld
  <1>2. /\ u \in CurvePoints /\ u = <<u[1], u[2]>> /\ u[1] \in Field /\ u[2] \in Int /\ u[1] \in Int
        /\ Zero(Off(u[1], u[2]))
    BY TimesIs, CurvePointIs
  <1>3. e = Encoding(x % 2, y)
    BY DEF ToBytes
  <1> HIDE DEF x, y, u
  <1>4. Zero(Off(x, y))
    <2>1. Congruent(y, u[2])
      BY <1>1, <1>2, SameSelf
    <2>2. Congruent(y * y, u[2] * u[2])
      BY <2>1, SameProduct
    <2>3. Zero(y * y - u[2] * u[2])
      BY <2>2 DEF Congruent
    <2>4. /\ Off(u[1], y) = Off(u[1], u[2]) + (1 - D * u[1] * u[1]) * (y * y - u[2] * u[2])
          /\ 1 - D * u[1] * u[1] \in Int
      BY <1>1, <1>2, PFacts DEF Off
    <2> QED BY <1>1, <1>2, <2>3, <2>4, ZeroTimes, ZeroSum
  <1>5. /\ e \in Encodings /\ Decodes(e) /\ FromBytes(e).x = x /\ FromBytes(e).y = y /\ e.y = y
        /\ e.fits
    BY <1>1, <1>2, <1>3, <1>4, Reads
  <1>6. Affine(FromBytes(e)) = u /\ Scale(FromBytes(e)) = FromBytes(e)
    BY <1>1, <1>2, <1>5, AffineRead
  <1>7. Held(FromBytes(e), k)
    BY <1>5, <1>6, ReadHeld DEF u
  <1>8. ToBytes(FromBytes(e)) = e
    BY <1>3, <1>5, <1>6 DEF ToBytes
  <1> QED BY <1>1, <1>5, <1>6, <1>7, <1>8 DEF x, y, u

(* Which multiple of the generator a point is.                             *)
LEMMA LogIs ==
  ASSUME NEW pt
  PROVE  /\ LogOf(pt) \in {Outside} \cup 0 .. Order - 1
         /\ LogOf(pt) # Outside => LogOf(pt) \in 0 .. Order - 1 /\ Affine(pt) = TimesBase(LogOf(pt))
  <1>1. CASE \E k \in 0 .. Order - 1 : Multiples[k] = Affine(pt)
    <2>1. LogOf(pt) \in 0 .. Order - 1 /\ Multiples[LogOf(pt)] = Affine(pt)
      BY <1>1 DEF LogOf
    <2> HIDE DEF LogOf
    <2>2. LogOf(pt) % Order = LogOf(pt)
      BY <2>1, OrderIs, RemainderOfSmall
    <2> QED BY <2>1, <2>2 DEF Multiples, TimesBase
  <1>2. CASE ~ \E k \in 0 .. Order - 1 : Multiples[k] = Affine(pt)
    <2>1. LogOf(pt) = Outside
      BY <1>2 DEF LogOf
    <2> QED BY <2>1
  <1> QED BY <1>1, <1>2

----------------------------------------------------------------------------
(* The inductive invariant.  A point is the multiple of the generator that *)
(* it is said to be, but for a key's that was read and is in no group of   *)
(* the generator.                                                          *)
Located(pt, log) == log \in 0 .. Order - 1 /\ Held(pt, log)

Placed(pt, log, e) == Located(pt, log) \/ (log = Outside /\ e # None /\ pt = FromBytes(e))

(* The point of a key is what its bytes say.                               *)
KeyOf(pt, e) ==
    /\ e \in Encodings /\ Decodes(e) /\ pt # INFINITY /\ pt.z = 1
    /\ pt.x = FromBytes(e).x /\ pt.y = e.y

(* Only the points of keys are precomputed.                                *)
Tabled(pt, log, e, g) == g \in BOOLEAN /\ (g => pt.n = Order /\ e # None /\ log # Outside)

(* What was signed was signed with the secret of the key.                  *)
SignedBy(pt, log, e, sg) ==
    \E s \in Secrets, r \in Scalars, k \in Scalars :
      /\ log = s % Order /\ pt # INFINITY /\ pt.z = 1 /\ e = ToBytes(pt)
      /\ MulGenerator(r) # INFINITY
      /\ sg = Signature(ToBytes(MulGenerator(r)), SOf(r, k, s), k)

(* What was verified was verified with the key.                            *)
CheckedBy(pt, g, sg, v) ==
    \E e \in Encodings, S \in 0 .. Order, k \in Scalars :
      /\ sg = Signature(e, S, k)
      /\ e.fits => Decodes(e) /\ (v = "True" <=> Verifies([pt |-> pt, generator |-> g], sg))

Verdicts == {"none", "signed", "True", "ValueError", "MalformedPointError", "AttributeError"}

IInv ==
    /\ Placed(p, logp, encoded) /\ Located(q, logq)
    /\ encoded = None \/ KeyOf(p, encoded)
    /\ Tabled(p, logp, encoded, table) /\ verdict \in Verdicts
    /\ verdict = "signed" => SignedBy(p, logp, encoded, sig)
    /\ verdict \in {"True", "ValueError"} => CheckedBy(p, table, sig, verdict)

LEMMA EncodingNotNone == ASSUME NEW e \in Encodings PROVE e # None
  <1>1. DOMAIN e = {"fits", "sign", "y"}
    BY DEF Encodings, WrongLength
  <1>2. DOMAIN None = {}
    BY DEF None
  <1>3. DOMAIN e # {}
    BY <1>1
  <1> QED BY <1>2, <1>3

LEMMA ModIs ==
  ASSUME NEW k \in Int
  PROVE  /\ k % Order \in 0 .. Order - 1 /\ k % Order \in Int /\ (k % Order) % Order = k % Order
         /\ k % Order # Outside
  <1>1. k % Order \in Nat /\ k % Order < Order
    BY TimesIs
  <1> QED BY <1>1, OrderIs, RemainderOfSmall DEF Outside

LEMMA LocatedMod ==
  ASSUME NEW pt, NEW k \in Int, Held(pt, k)
  PROVE  Located(pt, k % Order)
  BY ModIs, HeldSame DEF Located

LEMMA LocatedIs ==
  ASSUME NEW pt, NEW log, NEW e, Placed(pt, log, e), log # Outside
  PROVE  Located(pt, log) /\ log \in Int /\ log \in Nat /\ log < Order /\ Held(pt, log) /\ log % Order = log
  <1>1. Located(pt, log)
    BY DEF Placed
  <1>2. log \in Int /\ log \in Nat /\ log < Order /\ Held(pt, log)
    BY <1>1, OrderIs DEF Located
  <1> QED BY <1>1, <1>2, OrderIs, RemainderOfSmall

LEMMA NotOutside == ASSUME NEW log \in 0 .. Order - 1 PROVE log # Outside /\ log \in Int
  BY OrderIs DEF Outside

LEMMA InitInv == ASSUME Init PROVE IInv
  <1>1. p = Generator /\ logp = 1 /\ q = INFINITY /\ logq = 0
        /\ encoded = None /\ table = FALSE /\ sig = None /\ verdict = "none"
    BY DEF Init
  <1>2. Located(p, logp)
    BY <1>1, GeneratorHeld, OrderIs DEF Located
  <1>3. Located(q, logq)
    <2>1. 0 % Order = 0
      BY OrderIs, RemainderOfSmall
    <2>2. Held(INFINITY, 0)
      BY <2>1, HeldInfinity, 0 \in Int
    <2> QED BY <1>1, <2>2, OrderIs DEF Located
  <1> QED BY <1>1, <1>2, <1>3 DEF IInv, Placed, Tabled, Verdicts

LEMMA ComputesInv ==
  ASSUME IInv, NEW pt, NEW log, Computes(pt, log), Located(pt, log)
  PROVE  IInv'
  <1>1. /\ p' = pt /\ logp' = log /\ encoded' = None /\ table' = FALSE /\ q' = q /\ logq' = logq
        /\ verdict' = verdict /\ verdict = "none"
    BY DEF Computes
  <1> QED BY <1>1 DEF IInv, Placed, Tabled

(* A point that may be multiplied with its table.                          *)
LEMMA TableReady ==
  ASSUME IInv
  PROVE  table => p.n = Order /\ p.z \in Field
  <1> SUFFICES ASSUME table PROVE p.n = Order /\ p.z \in Field
    OBVIOUS
  <1>1. p.n = Order /\ encoded # None
    BY DEF IInv, Tabled
  <1>2. p.z = 1
    BY <1>1 DEF IInv, KeyOf
  <1> QED BY <1>1, <1>2, OIs

LEMMA AddQInv == ASSUME IInv, AddQ PROVE IInv'
  <1>1. logp # Outside /\ Computes(Add(p, q), (logp + logq) % Order)
    BY DEF AddQ, Sane
  <1>2. Held(p, logp) /\ logp \in Int
    BY <1>1, LocatedIs DEF IInv
  <1>3. Held(q, logq) /\ logq \in Int
    BY NotOutside DEF IInv, Located
  <1>4. Held(Add(p, q), logp + logq) /\ logp + logq \in Int
    BY <1>2, <1>3, AddHeld
  <1> QED BY <1>1, <1>4, LocatedMod, ComputesInv

LEMMA DoublePInv == ASSUME IInv, DoubleP PROVE IInv'
  <1>1. logp # Outside /\ Computes(Double(p), (2 * logp) % Order)
    BY DEF DoubleP, Sane
  <1>2. Held(p, logp) /\ logp \in Int
    BY <1>1, LocatedIs DEF IInv
  <1>3. Held(Double(p), 2 * logp) /\ 2 * logp \in Int
    BY <1>2, DoubleHeld
  <1> QED BY <1>1, <1>3, LocatedMod, ComputesInv

LEMMA ScalarIs == ASSUME NEW k \in Scalars PROVE k \in Nat /\ k \in Int
  BY EdDSAAssumption DEF Scalars

LEMMA TimesInv == ASSUME IInv, Times PROVE IInv'
  <1>1. PICK k \in Scalars : Computes(Mul(p, k, table), (k * logp) % Order)
    BY DEF Times
  <1>2. logp # Outside /\ k \in Nat
    BY ScalarIs DEF Times, Sane
  <1>3. Held(p, logp) /\ logp \in Int
    BY <1>2, LocatedIs DEF IInv
  <1>4. Held(Mul(p, k, table), k * logp) /\ k * logp \in Int
    BY <1>2, <1>3, TableReady, MulHeld
  <1> QED BY <1>1, <1>4, LocatedMod, ComputesInv

LEMMA TimesGeneratorInv == ASSUME IInv, TimesGenerator PROVE IInv'
  <1>1. PICK k \in Scalars : Computes(MulGenerator(k), k % Order)
    BY DEF TimesGenerator
  <1>2. k \in Nat /\ k \in Int
    BY ScalarIs
  <1> QED BY <1>1, <1>2, MulGeneratorHeld, LocatedMod, ComputesInv

LEMMA ScalePInv == ASSUME IInv, ScaleP PROVE IInv'
  <1>1. /\ verdict = "none" /\ p' = Scale(p) /\ q' = q /\ logp' = logp /\ logq' = logq
        /\ encoded' = encoded /\ table' = table /\ verdict' = verdict
    BY DEF ScaleP
  <1>2. CASE encoded # None
    <2>1. p.z = 1
      BY <1>2 DEF IInv, KeyOf
    <2>2. p' = p
      BY <1>1, <2>1 DEF Scale
    <2> QED BY <1>1, <2>2 DEF IInv
  <1>3. CASE encoded = None
    <2>1. Located(p, logp) /\ ~ table
      BY <1>3 DEF IInv, Placed, Tabled
    <2>2. Held(p, logp) /\ logp \in Int
      BY <2>1, NotOutside DEF Located
    <2>3. Located(Scale(p), logp)
      BY <2>1, <2>2, ScaleHeld DEF Located
    <2> QED BY <1>1, <1>3, <2>1, <2>3 DEF IInv, Placed, Tabled
  <1> QED BY <1>2, <1>3

LEMMA KeepInv == ASSUME IInv, Keep PROVE IInv'
  <1>1. /\ verdict = "none" /\ encoded = None /\ p' = p /\ logp' = logp /\ encoded' = encoded
        /\ table' = table /\ verdict' = verdict
        /\ (q' = p /\ logq' = logp) \/ (q' = INFINITY /\ logq' = 0)
    BY DEF Keep
  <1>2. Located(p, logp)
    BY <1>1 DEF IInv, Placed
  <1>3. Located(INFINITY, 0)
    <2>1. 0 % Order = 0
      BY OrderIs, RemainderOfSmall
    <2>2. Held(INFINITY, 0)
      BY <2>1, HeldInfinity, 0 \in Int
    <2> QED BY <2>2, OrderIs DEF Located
  <1>4. Located(q', logq')
    BY <1>1, <1>2, <1>3
  <1> QED BY <1>1, <1>4 DEF IInv

LEMMA KeyRead ==
  ASSUME NEW e \in Encodings, Decodes(e)
  PROVE  KeyOf(FromBytes(e), e) /\ Placed(FromBytes(e), LogOf(FromBytes(e)), e) /\ e # None
  <1> DEFINE pt == FromBytes(e)  log == LogOf(FromBytes(e))
  <1>1. KeyOf(pt, e)
    BY FromBytesIs DEF KeyOf
  <1>2. e # None
    BY EncodingNotNone
  <1>3. CASE log = Outside
    BY <1>1, <1>2, <1>3 DEF Placed
  <1>4. CASE log # Outside
    <2>1. log \in 0 .. Order - 1 /\ Affine(pt) = TimesBase(log)
      BY <1>4, LogIs
    <2>2. log \in Int
      BY <2>1, NotOutside
    <2> HIDE DEF log
    <2>3. Held(pt, log)
      BY <2>1, <2>2, ReadHeld
    <2> QED BY <1>1, <1>2, <2>1, <2>3 DEF Placed, Located, log
  <1> QED BY <1>3, <1>4

LEMMA PublicKeyFromBytesInv == ASSUME IInv, PublicKeyFromBytes PROVE IInv'
  <1>1. PICK e \in Encodings :
         \/ Decodes(e) /\ BecomesKey(FromBytes(e), LogOf(FromBytes(e)), e) /\ UNCHANGED <<sig, verdict>>
         \/ ~ Decodes(e) /\ verdict' = "MalformedPointError"
              /\ UNCHANGED <<p, q, logp, logq, encoded, table, sig>>
    BY DEF PublicKeyFromBytes
  <1>2. verdict = "none"
    BY DEF PublicKeyFromBytes
  <1>3. CASE Decodes(e) /\ BecomesKey(FromBytes(e), LogOf(FromBytes(e)), e)
             /\ UNCHANGED <<sig, verdict>>
    <2>1. /\ p' = FromBytes(e) /\ logp' = LogOf(FromBytes(e)) /\ encoded' = e /\ table' = FALSE
          /\ q' = q /\ logq' = logq /\ verdict' = verdict
      BY <1>3 DEF BecomesKey
    <2>2. KeyOf(p', e) /\ Placed(p', logp', e)
      BY <1>3, <2>1, KeyRead
    <2> QED BY <1>2, <2>1, <2>2 DEF IInv, Tabled
  <1>4. CASE verdict' = "MalformedPointError" /\ UNCHANGED <<p, q, logp, logq, encoded, table, sig>>
    BY <1>4 DEF IInv, Verdicts
  <1> QED BY <1>1, <1>3, <1>4

(* A point that is scaled and the bytes to_bytes() makes of it.            *)
LEMMA KeyWritten ==
  ASSUME NEW pt, NEW k \in Int, Held(pt, k), pt # INFINITY
  PROVE  /\ KeyOf(Scale(pt), ToBytes(pt)) /\ Held(Scale(pt), k) /\ Scale(Scale(pt)) = Scale(pt)
         /\ ToBytes(Scale(pt)) = ToBytes(pt) /\ Scale(pt) # INFINITY /\ Scale(pt).z = 1
  <1>1. Held(Scale(pt), k) /\ Scale(pt) # INFINITY /\ Scale(pt).z = 1
    BY ScaleHeld
  <1> DEFINE s == Scale(pt)  e == ToBytes(pt)
  <1>2. Scale(s) = s
    <2>1. s.z = 1
      BY <1>1
    <2> HIDE DEF s
    <2> QED BY <2>1 DEF Scale
  <1>3. ToBytes(s) = e
    BY <1>2 DEF ToBytes
  <1>4. e \in Encodings /\ Decodes(e) /\ FromBytes(e).x = s.x /\ e.y = s.y
    BY WrittenHeld
  <1> HIDE DEF s, e
  <1>5. KeyOf(s, e)
    BY <1>1, <1>4 DEF KeyOf, s
  <1> QED BY <1>1, <1>2, <1>3, <1>5 DEF s, e

LEMMA PublicKeyFromPointInv == ASSUME IInv, PublicKeyFromPoint PROVE IInv'
  <1>1. /\ verdict = "none" /\ encoded = None /\ p # INFINITY
        /\ p' = Scale(p) /\ logp' = logp /\ encoded' = ToBytes(p) /\ table' = FALSE
        /\ q' = q /\ logq' = logq /\ verdict' = verdict
    BY DEF PublicKeyFromPoint, BecomesKey
  <1>2. Located(p, logp)
    BY <1>1 DEF IInv, Placed
  <1>3. Held(p, logp) /\ logp \in Int
    BY <1>2, NotOutside DEF Located
  <1>4. KeyOf(p', encoded') /\ Located(p', logp')
    BY <1>1, <1>2, <1>3, KeyWritten DEF Located
  <1> QED BY <1>1, <1>4 DEF IInv, Placed, Tabled

(* A scaled point to which a table is given.                               *)
LEMMA PrecomputedHeld ==
  ASSUME NEW pt, NEW k \in Int, Held(pt, k), pt # INFINITY, NEW new,
         new = Extended(<<Scale(pt).x, Scale(pt).y, 1, Scale(pt).x * Scale(pt).y>>, Order)
  PROVE  /\ Held(new, k) /\ new.n = Order /\ new.z = 1 /\ new # INFINITY
         /\ new.x = Scale(pt).x /\ new.y = Scale(pt).y
  <1> DEFINE x == Scale(pt).x  y == Scale(pt).y  u == TimesBase(k)  c == <<x, y, 1, x * y>>
  <1>1. x = u[1] /\ y % P = u[2] /\ y \in 0 .. MaxY /\ y \in Int
    BY ScaleHeld
  <1>2. u \in CurvePoints /\ u[1] \in Field /\ u[1] \in Int /\ u[2] \in Int
    BY TimesIs, CurvePointIs
  <1> HIDE DEF x, y, u
  <1>3. Congruent(x, u[1]) /\ Congruent(y, u[2])
    BY <1>1, <1>2, SameSelf
  <1>4. Congruent(x * y, u[1] * u[2])
    BY <1>3, SameProduct
  <1>5. At(c, u) /\ c \in Coords /\ c[1] = x /\ c[2] = y /\ c[3] = 1
    BY <1>2, <1>3, <1>4, AtOne
  <1>6. new = Extended(c, Order)
    BY DEF x, y
  <1> HIDE DEF c
  <1>7. /\ new \in Points /\ new.x = x /\ new.y = y /\ new.z = 1 /\ new.n = Order /\ CoordsOf(new) = c
    BY <1>5, <1>6, OrderIs, ExtendedIs
  <1>8. Held(new, k)
    BY <1>1, <1>2, <1>5, <1>7 DEF Held, u
  <1>9. new # INFINITY
    BY <1>7, InfinityIs
  <1> QED BY <1>7, <1>8, <1>9 DEF x, y

LEMMA PrecomputeInv == ASSUME IInv, Precompute PROVE IInv'
  <1>1. /\ verdict = "none" /\ encoded # None /\ logp # Outside /\ table' = TRUE
        /\ p' = Extended(<<Scale(p).x, Scale(p).y, 1, Scale(p).x * Scale(p).y>>, Order)
        /\ q' = q /\ logp' = logp /\ logq' = logq /\ encoded' = encoded /\ verdict' = verdict
    BY DEF Precompute
  <1>2. Located(p, logp) /\ logp \in Int /\ Held(p, logp)
    BY <1>1, LocatedIs DEF IInv
  <1>3. KeyOf(p, encoded)
    BY <1>1 DEF IInv
  <1>4. Scale(p) = p /\ p # INFINITY
    BY <1>3 DEF KeyOf, Scale
  <1>5. /\ Held(p', logp) /\ p'.n = Order /\ p'.z = 1 /\ p' # INFINITY /\ p'.x = p.x /\ p'.y = p.y
    BY <1>1, <1>2, <1>4, PrecomputedHeld
  <1>6. KeyOf(p', encoded)
    BY <1>3, <1>5 DEF KeyOf
  <1>7. Located(p', logp)
    BY <1>2, <1>5 DEF Located
  <1> QED BY <1>1, <1>5, <1>6, <1>7 DEF IInv, Placed, Tabled

LEMMA SecretIs == ASSUME NEW s \in Secrets PROVE s \in Nat /\ s \in Int
  <1>1. PICK h \in 0 .. 2 ^ (Bits - 1) - 1 : s = KeyPrune(h)
    BY DEF Secrets
  <1>2. Bits - 1 \in Nat /\ LowBits \in Nat
    BY EdDSAAssumption
  <1> DEFINE a == 2 ^ (Bits - 1)  b == 2 ^ LowBits
  <1>3. a \in Nat \ {0} /\ b \in Nat \ {0}
    BY <1>2, PowerPositive
  <1>4. s = a + (h \div b) * b /\ h \in 0 .. a - 1
    BY <1>1 DEF KeyPrune
  <1> HIDE DEF a, b
  <1>5. h \in Nat
    BY <1>3, <1>4
  <1>6. h \div b \in Nat
    BY <1>3, <1>5
  <1> QED BY <1>3, <1>4, <1>6

LEMMA SignInv == ASSUME IInv, Sign PROVE IInv'
  <1>1. PICK s \in Secrets, r \in Scalars, k \in Scalars :
          IF Scale(MulGenerator(s)) = INFINITY
          THEN /\ verdict' = "AttributeError"
               /\ UNCHANGED <<p, q, logp, logq, encoded, table, sig>>
          ELSE /\ BecomesKey(Scale(MulGenerator(s)), s % Order, ToBytes(Scale(MulGenerator(s))))
               /\ IF MulGenerator(r) = INFINITY THEN verdict' = "AttributeError" /\ sig' = None
                  ELSE /\ verdict' = "signed"
                       /\ sig' = Signature(ToBytes(MulGenerator(r)), SOf(r, k, s), k)
    BY DEF Sign
  <1> DEFINE g == MulGenerator(s)  a == Scale(MulGenerator(s))
  <1>2. s \in Nat /\ s \in Int /\ Held(g, s)
    BY SecretIs, MulGeneratorHeld
  <1>3. CASE a = INFINITY
    <2>1. verdict' = "AttributeError" /\ UNCHANGED <<p, q, logp, logq, encoded, table, sig>>
      BY <1>1, <1>3
    <2> QED BY <2>1 DEF IInv, Verdicts
  <1>4. CASE a # INFINITY
    <2>1. g # INFINITY
      BY <1>2, <1>4, ScaleHeld
    <2>2. /\ KeyOf(a, ToBytes(a)) /\ Held(a, s) /\ a.z = 1
      BY <1>2, <2>1, KeyWritten
    <2>3. Located(a, s % Order)
      BY <1>2, <2>2, LocatedMod
    <2>4. /\ p' = a /\ logp' = s % Order /\ encoded' = ToBytes(a) /\ table' = FALSE
          /\ q' = q /\ logq' = logq
      BY <1>1, <1>4 DEF BecomesKey
    <2>5. \/ verdict' = "AttributeError"
          \/ /\ MulGenerator(r) # INFINITY /\ verdict' = "signed"
             /\ sig' = Signature(ToBytes(MulGenerator(r)), SOf(r, k, s), k)
      BY <1>1, <1>4
    <2>6. verdict' = "signed" => SignedBy(p', logp', encoded', sig')
      BY <1>4, <2>2, <2>4, <2>5 DEF SignedBy
    <2>7. verdict' \in Verdicts /\ verdict' \notin {"True", "ValueError"}
      BY <2>5 DEF Verdicts
    <2> HIDE DEF a
    <2>8. Placed(p', logp', encoded') /\ KeyOf(p', encoded') /\ Tabled(p', logp', encoded', table')
          /\ Located(q', logq')
      BY <2>2, <2>3, <2>4 DEF IInv, Placed, Tabled
    <2> QED BY <2>6, <2>7, <2>8 DEF IInv
  <1> QED BY <1>3, <1>4

LEMMA VerifyInv == ASSUME IInv, Verify PROVE IInv'
  <1>1. PICK e \in Encodings, S \in 0 .. Order, k \in Scalars :
         /\ sig' = Signature(e, S, k)
         /\ verdict' = IF ~ e.fits THEN "ValueError"
                       ELSE IF ~ Decodes(e) THEN "MalformedPointError"
                       ELSE IF Verifies(Key, Signature(e, S, k)) THEN "True" ELSE "ValueError"
    BY DEF Verify
  <1>2. p' = p /\ q' = q /\ logp' = logp /\ logq' = logq /\ encoded' = encoded /\ table' = table
    BY DEF Verify
  <1>3. verdict' \in {"ValueError", "MalformedPointError", "True"}
    BY <1>1
  <1>4. verdict' \in {"True", "ValueError"} => CheckedBy(p', table', sig', verdict')
    <2> SUFFICES ASSUME verdict' \in {"True", "ValueError"} PROVE CheckedBy(p', table', sig', verdict')
      OBVIOUS
    <2>1. e.fits => Decodes(e) /\ (verdict' = "True" <=> Verifies([pt |-> p', generator |-> table'], sig'))
      <3>1. Key = [pt |-> p', generator |-> table']
        BY <1>2 DEF Key
      <3> QED BY <1>1, <3>1
    <2> QED BY <1>1, <2>1 DEF CheckedBy
  <1>5. verdict' # "signed" /\ verdict' \in Verdicts
    BY <1>3 DEF Verdicts
  <1> QED BY <1>2, <1>4, <1>5 DEF IInv

LEMMA DoneInv == ASSUME IInv, Done PROVE IInv'
  <1>1. /\ verdict' = "none" /\ p' = p /\ q' = q /\ logp' = logp /\ logq' = logq
        /\ encoded' = encoded /\ table' = table
    BY DEF Done
  <1> QED BY <1>1 DEF IInv, Verdicts

LEMMA StepInv == ASSUME IInv, [Next]_vars PROVE IInv'
  <1>1. CASE UNCHANGED vars
    BY <1>1 DEF IInv, vars
  <1>2. CASE Next
    BY <1>2, AddQInv, DoublePInv, TimesInv, TimesGeneratorInv, ScalePInv, KeepInv,
       PublicKeyFromBytesInv, PublicKeyFromPointInv, PrecomputeInv, SignInv, VerifyInv, DoneInv
       DEF Next
  <1> QED BY <1>1, <1>2

LEMMA AlwaysInv == Spec => []IInv
  <1>1. Init => IInv
    BY InitInv
  <1>2. IInv /\ [Next]_vars => IInv'
    BY StepInv
  <1> QED BY <1>1, <1>2, PTL DEF Spec

----------------------------------------------------------------------------
(* What the invariant says.                                                *)
LEMMA HeldOnCurve ==
  ASSUME NEW pt, NEW k \in Int, Held(pt, k)
  PROVE  OnCurve(pt)
  <1>1. CASE pt = INFINITY
    BY <1>1 DEF OnCurve
  <1>2. CASE pt # INFINITY
    <2> DEFINE u == TimesBase(k)
    <2>1. /\ u \in CurvePoints /\ ContainsPoint(u[1], u[2]) /\ u[1] \in Int /\ u[2] \in Int
      BY TimesIs, CurvePointIs DEF CurvePoints
    <2>2. Affine(pt) = u
      BY ScaleHeld
    <2>3. /\ pt.x \in Int /\ pt.y \in Int /\ pt.z \in Int /\ pt.t \in Int
          /\ Congruent(pt.x, u[1] * pt.z) /\ Congruent(pt.y, u[2] * pt.z)
          /\ Congruent(pt.t, u[1] * u[2] * pt.z)
      BY <1>2, HeldPoint
    <2> HIDE DEF u
    <2>4. Congruent(pt.x * pt.y, (u[1] * pt.z) * (u[2] * pt.z))
      BY <2>3, SameProduct
    <2>5. Congruent(pt.z * pt.t, pt.z * (u[1] * u[2] * pt.z))
      BY <2>3, SameSelf, SameProduct
    <2>6. (u[1] * pt.z) * (u[2] * pt.z) = pt.z * (u[1] * u[2] * pt.z)
      BY <2>1, <2>3
    <2>7. Congruent(pt.x * pt.y, pt.z * pt.t)
      BY <2>4, <2>5, <2>6, SameMeet
    <2>8. (pt.x * pt.y - pt.z * pt.t) % P = 0
      BY <2>7 DEF Congruent, Zero
    <2> QED BY <2>1, <2>2, <2>8 DEF OnCurve
  <1> QED BY <1>1, <1>2

LEMMA ReadOnCurve ==
  ASSUME NEW e \in Encodings, Decodes(e)
  PROVE  OnCurve(FromBytes(e)) /\ FromBytes(e) \in Points
  <1> DEFINE pt == FromBytes(e)
  <1>1. /\ pt \in Points /\ pt.x \in Int /\ pt.y = e.y /\ pt.z = 1 /\ pt.t = pt.x * e.y /\ e.y \in Int
    BY FromBytesIs
  <1>2. ContainsPoint(Affine(pt)[1], Affine(pt)[2])
    BY AffineRead DEF CurvePoints
  <1> HIDE DEF pt
  <1>3. pt.x * pt.y - pt.z * pt.t = 0
    BY <1>1
  <1>4. (pt.x * pt.y - pt.z * pt.t) % P = 0
    BY <1>3, ZeroNone DEF Zero
  <1> QED BY <1>1, <1>2, <1>4 DEF OnCurve, pt

LEMMA TypesHold == ASSUME IInv PROVE TypeOK
  <1>1. p \in Points /\ OnCurve(p) /\ logp \in {Outside} \cup 0 .. Order - 1
    <2>1. CASE Located(p, logp)
      <3>1. logp \in 0 .. Order - 1 /\ logp \in Int /\ Held(p, logp)
        BY <2>1, NotOutside DEF Located
      <3> QED BY <3>1, HeldOnCurve DEF Held
    <2>2. CASE logp = Outside /\ encoded # None /\ p = FromBytes(encoded)
      <3>1. encoded \in Encodings /\ Decodes(encoded)
        BY <2>2 DEF IInv, KeyOf
      <3> QED BY <2>2, <3>1, ReadOnCurve
    <2> QED BY <2>1, <2>2 DEF IInv, Placed
  <1>2. q \in Points /\ OnCurve(q) /\ logq \in 0 .. Order - 1
    <2>1. logq \in 0 .. Order - 1 /\ logq \in Int /\ Held(q, logq)
      BY NotOutside DEF IInv, Located
    <2> QED BY <2>1, HeldOnCurve DEF Held
  <1>3. encoded \in Encodings \cup {None} /\ (encoded # None => p.z = 1)
    BY DEF IInv, KeyOf
  <1>4. table \in BOOLEAN /\ verdict \in Verdicts
    BY DEF IInv, Tabled
  <1> QED BY <1>1, <1>2, <1>3, <1>4 DEF TypeOK, Verdicts

LEMMA LocatedAffine ==
  ASSUME NEW pt, NEW log, Located(pt, log)
  PROVE  Affine(pt) = Multiples[log]
  <1>1. log \in 0 .. Order - 1 /\ log \in Int /\ Held(pt, log)
    BY NotOutside DEF Located
  <1>2. log % Order = log
    <2>1. log \in Nat /\ log < Order
      BY <1>1, OrderIs
    <2> QED BY <2>1, OrderIs, RemainderOfSmall
  <1>3. Affine(pt) = TimesBase(log)
    BY <1>1, ScaleHeld
  <1> QED BY <1>1, <1>2, <1>3 DEF Multiples, TimesBase

LEMMA GroupLawHolds == ASSUME IInv PROVE GroupLaw
  BY LocatedAffine DEF IInv, Placed, GroupLaw

(* What verify() says of an R in the group of the generator.               *)
LEMMA VerifiesHeld ==
  ASSUME NEW pt, NEW g, NEW j \in Int, Held(pt, j),
         g => pt.n = Order /\ pt.z \in Field, NEW R, NEW S \in Nat, NEW k \in Nat,
         NEW r \in Int, Held(FromBytes(R), r), NEW a, a = Signature(R, S, k),
         NEW key, key = [pt |-> pt, generator |-> g]
  PROVE  Verifies(key, a) <=> S < Order /\ S = (k * j + r) % Order
  <1>1. a.R = R /\ a.S = S /\ a.k = k /\ key.pt = pt /\ key.generator = g
    BY DEF Signature
  <1>2. Held(MulGenerator(S), S) /\ S \in Int
    BY MulGeneratorHeld
  <1>3. Held(Mul(pt, k, g), k * j) /\ k * j \in Int
    BY MulHeld
  <1>4. Held(Add(Mul(pt, k, g), FromBytes(R)), k * j + r) /\ k * j + r \in Int
    BY <1>3, AddHeld
  <1>5. Eq(MulGenerator(S), Add(Mul(pt, k, g), FromBytes(R))) <=> S % Order = (k * j + r) % Order
    BY <1>2, <1>4, EqHeld
  <1>6. Verifies(key, a) <=> S < Order /\ Eq(MulGenerator(S), Add(Mul(pt, k, g), FromBytes(R)))
    BY <1>1 DEF Verifies
  <1>7. S < Order => S % Order = S
    BY OrderIs, RemainderOfSmall
  <1> QED BY <1>5, <1>6, <1>7

LEMMA VerifiesExactlyHolds == ASSUME IInv PROVE VerifiesExactly
  <1> DEFINE r == LogOf(FromBytes(sig.R))
  <1> SUFFICES ASSUME verdict \in {"True", "ValueError"}, sig.R.fits, logp # Outside, r # Outside
               PROVE  (verdict = "True") <=>
                        (sig.S < Order /\ (sig.k * logp + r) % Order = sig.S)
    BY DEF VerifiesExactly
  <1>1. PICK e \in Encodings, S \in 0 .. Order, k \in Scalars :
          /\ sig = Signature(e, S, k)
          /\ e.fits => Decodes(e) /\ (verdict = "True" <=> Verifies([pt |-> p, generator |-> table], sig))
    BY DEF IInv, CheckedBy
  <1>2. sig.R = e /\ sig.S = S /\ sig.k = k
    BY <1>1 DEF Signature
  <1>3. Decodes(e) /\ (verdict = "True" <=> Verifies([pt |-> p, generator |-> table], sig))
    BY <1>1, <1>2
  <1>4. logp \in Int /\ Held(p, logp)
    BY LocatedIs DEF IInv
  <1>5. r \in Int /\ Affine(FromBytes(e)) = TimesBase(r)
    <2>1. r \in 0 .. Order - 1 /\ Affine(FromBytes(sig.R)) = TimesBase(r)
      BY LogIs
    <2> QED BY <1>2, <2>1, NotOutside
  <1> HIDE DEF r
  <1>6. Held(FromBytes(e), r)
    BY <1>3, <1>5, ReadHeld
  <1>7. S \in Nat /\ k \in Nat
    BY ScalarIs, OrderIs
  <1>8. Verifies([pt |-> p, generator |-> table], sig) <=> S < Order /\ S = (k * logp + r) % Order
    BY <1>1, <1>4, <1>5, <1>6, <1>7, TableReady, VerifiesHeld
  <1> QED BY <1>2, <1>3, <1>8

LEMMA SignatureAcceptedHolds == ASSUME IInv PROVE SignatureAccepted
  <1> DEFINE read == FromBytes(encoded)
             longer == Extended(CoordsOf(read), Order)
  <1> SUFFICES ASSUME verdict = "signed"
               PROVE  /\ Decodes(encoded) /\ Decodes(sig.R)
                      /\ Verifies(Key, sig)
                      /\ Verifies([pt |-> read, generator |-> FALSE], sig)
                      /\ Verifies([pt |-> longer, generator |-> TRUE], sig)
                      /\ ToBytes(FromBytes(sig.R)) = sig.R /\ ToBytes(p) = encoded
    BY DEF SignatureAccepted
  <1>1. PICK s \in Secrets, r \in Scalars, k \in Scalars :
          /\ logp = s % Order /\ p # INFINITY /\ p.z = 1 /\ encoded = ToBytes(p)
          /\ MulGenerator(r) # INFINITY
          /\ sig = Signature(ToBytes(MulGenerator(r)), SOf(r, k, s), k)
    BY DEF IInv, SignedBy
  <1> DEFINE R == ToBytes(MulGenerator(r))  S == SOf(r, k, s)
  <1>2. s \in Int /\ s \in Nat /\ r \in Nat /\ r \in Int /\ k \in Nat /\ k \in Int
    BY SecretIs, ScalarIs
  <1>3. Held(p, s)
    <2>1. logp # Outside
      BY <1>1, <1>2, ModIs
    <2>2. Held(p, logp) /\ logp \in Int /\ logp % Order = logp
      BY <2>1, LocatedIs DEF IInv
    <2> QED BY <1>1, <1>2, <2>2, HeldSame
  <1>4. /\ R \in Encodings /\ Decodes(R) /\ Held(FromBytes(R), r) /\ ToBytes(FromBytes(R)) = R
    BY <1>1, <1>2, MulGeneratorHeld, WrittenHeld
  <1>5. /\ encoded \in Encodings /\ Decodes(encoded) /\ Held(read, s)
    BY <1>1, <1>2, <1>3, WrittenHeld
  <1>6. Held(longer, s) /\ longer.n = Order /\ longer.z \in Field
    <2>1. read \in Points /\ CoordsOf(read) \in Coords /\ read.x \in Field /\ read.y \in 0 .. MaxY
          /\ read.z = 1 /\ At(CoordsOf(read), TimesBase(s))
          /\ CoordsOf(read)[1] = read.x /\ CoordsOf(read)[2] = read.y /\ CoordsOf(read)[3] = read.z
      <3>1. read # INFINITY /\ read.z = 1 /\ read \in Points
        BY <1>5, FromBytesIs
      <3> HIDE DEF read
      <3> QED BY <1>2, <1>5, <3>1, HeldPoint, PointIs
    <2>2. /\ longer \in Points /\ longer.x = read.x /\ longer.y = read.y /\ longer.z = 1
          /\ longer.n = Order /\ CoordsOf(longer) = CoordsOf(read)
      <3> HIDE DEF read
      <3> QED BY <2>1, OrderIs, ExtendedIs
    <2> HIDE DEF longer, read
    <2> QED BY <2>1, <2>2, OIs DEF Held
  <1>7. S \in Nat /\ S < Order /\ S = (k * s + r) % Order
    <2> DEFINE m == (k % Order) * s  n == k * s
    <2>1. k % Order \in Int
      BY <1>2, ModIs
    <2>2. m \in Int /\ n \in Int
      BY <1>2, <2>1
    <2>3. m % Order = n % Order
      BY <1>2, OrderIs, ReduceFactor
    <2>4. S = (r + m) % Order
      BY DEF SOf
    <2> HIDE DEF m, n, S
    <2>5. (r + m) % Order = (n + r) % Order
      <3>1. ((m % Order) + r) % Order = (m + r) % Order /\ ((n % Order) + r) % Order = (n + r) % Order
        BY <1>2, <2>2, OrderIs, ReduceTerm
      <3>2. r + m = m + r
        BY <1>2, <2>2
      <3> QED BY <2>3, <3>1, <3>2
    <2>6. n + r \in Int
      BY <1>2, <2>2
    <2> QED BY <2>4, <2>5, <2>6, TimesIs DEF n
  <1>8. ASSUME NEW pt, NEW g, Held(pt, s), g => pt.n = Order /\ pt.z \in Field
        PROVE  Verifies([pt |-> pt, generator |-> g], sig)
    <2> HIDE DEF R, S
    <2>1. sig = Signature(R, S, k)
      BY <1>1 DEF R, S
    <2> QED BY <1>2, <1>4, <1>7, <1>8, <2>1, VerifiesHeld
  <1>9. Verifies(Key, sig)
    BY <1>3, <1>8, TableReady DEF Key
  <1>10. Verifies([pt |-> read, generator |-> FALSE], sig)
    BY <1>5, <1>8
  <1>11. Verifies([pt |-> longer, generator |-> TRUE], sig)
    BY <1>6, <1>8
  <1>12. sig.R = R
    BY <1>1 DEF Signature
  <1> QED BY <1>1, <1>4, <1>5, <1>9, <1>10, <1>11, <1>12

LEMMA KeyMatchesBytesHolds == ASSUME IInv PROVE KeyMatchesBytes
  <1>1. ASSUME encoded # None
        PROVE  Eq(FromBytes(encoded), p) /\ (ToBytes(p) = encoded \/ encoded.y >= P \/ p.x = 0)
    <2> DEFINE pt == FromBytes(encoded)
    <2>1. /\ encoded \in Encodings /\ Decodes(encoded) /\ p # INFINITY /\ p.z = 1
          /\ p.x = pt.x /\ p.y = encoded.y
      BY <1>1 DEF IInv, KeyOf
    <2>2. /\ pt # INFINITY /\ pt.z = 1 /\ pt.y = encoded.y /\ encoded = Encoding(encoded.sign, encoded.y)
          /\ (pt.x # 0 => pt.x % 2 = encoded.sign)
      BY <2>1, FromBytesIs
    <2> HIDE DEF pt
    <2>3. Eq(pt, p)
      BY <2>1, <2>2 DEF Eq
    <2>4. ToBytes(p) = Encoding(p.x % 2, p.y)
      BY <2>1 DEF ToBytes, Scale
    <2>5. ToBytes(p) = encoded \/ p.x = 0
      BY <2>1, <2>2, <2>4
    <2> QED BY <2>3, <2>5 DEF pt
  <1>2. ASSUME p # INFINITY
        PROVE  Decodes(ToBytes(p)) /\ Affine(FromBytes(ToBytes(p))) = Affine(p)
    <2>1. CASE Located(p, logp)
      <3>1. logp \in Int /\ Held(p, logp)
        BY <2>1, NotOutside DEF Located
      <3> QED BY <1>2, <3>1, WrittenHeld
    <2>2. CASE encoded # None /\ p = FromBytes(encoded)
      <3>1. encoded \in Encodings /\ Decodes(encoded)
        BY <2>2 DEF IInv, KeyOf
      <3>2. /\ p.x \in Field /\ p.y = encoded.y /\ encoded.y \in 0 .. MaxY /\ Zero(Off(p.x, p.y))
            /\ Scale(p) = p /\ Affine(p) = <<p.x, p.y % P>>
        BY <2>2, <3>1, FromBytesIs, AffineRead
      <3> DEFINE e == ToBytes(p)
      <3>3. e = Encoding(p.x % 2, p.y)
        BY <3>2 DEF ToBytes
      <3> HIDE DEF e
      <3>4. e \in Encodings /\ Decodes(e) /\ FromBytes(e).x = p.x /\ e.y = p.y
        BY <3>2, <3>3, Reads
      <3>5. Affine(FromBytes(e)) = <<p.x, p.y % P>>
        BY <3>4, AffineRead
      <3> QED BY <3>2, <3>4, <3>5 DEF e
    <2> QED BY <2>1, <2>2 DEF IInv, Placed
  <1> QED BY <1>1, <1>2 DEF KeyMatchesBytes

----------------------------------------------------------------------------
(* The points of a program are points of the curve, with its coordinates   *)
(* and the product of the first two right, whatever was called before:     *)
(* scale(), precompute(), from_bytes() and the arithmetic of PointEdwards. *)
THEOREM PointsOnTheCurve == Spec => []TypeOK
  <1>1. IInv => TypeOK
    BY TypesHold
  <1> QED BY <1>1, AlwaysInv, PTL

(* add, double, __mul__, with and without a table, and scale() of          *)
(* PointEdwards compute in the group of the generator.                     *)
THEOREM EdwardsGroupLaw == Spec => []GroupLaw
  <1>1. IInv => GroupLaw
    BY GroupLawHolds
  <1> QED BY <1>1, AlwaysInv, PTL

(* PublicKey.verify accepts what satisfies S*G = R + k*A with S below the  *)
(* order, and nothing else, whether the key was precomputed or not.        *)
THEOREM EdwardsVerifiesExactly == Spec => []VerifiesExactly
  <1>1. IInv => VerifiesExactly
    BY VerifiesExactlyHolds
  <1> QED BY <1>1, AlwaysInv, PTL

(* What PrivateKey.sign makes is accepted by its public key, in each of    *)
(* the three forms the key may have.                                       *)
THEOREM EdwardsSignatureAccepted == Spec => []SignatureAccepted
  <1>1. IInv => SignatureAccepted
    BY SignatureAcceptedHolds
  <1> QED BY <1>1, AlwaysInv, PTL

(* The bytes that a public key keeps and compares are those of its point,  *)
(* also after scale() and precompute(), and from_bytes takes what          *)
(* to_bytes() writes back to the point.                                    *)
THEOREM EdwardsKeyMatchesBytes == Spec => []KeyMatchesBytes
  <1>1. IInv => KeyMatchesBytes
    BY KeyMatchesBytesHolds
  <1> QED BY <1>1, AlwaysInv, PTL
=============================================================================
