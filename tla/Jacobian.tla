------------------------------ MODULE Jacobian ------------------------------
(***************************************************************************)
(* The arithmetic of PointJacobi and Point (src/src/ecdsa/ellipticcurve.py)*)
(* on the curve y^2 = x^3 + A*x + B over the integers modulo P, as the     *)
(* code computes it: which intermediate results are reduced modulo P and   *)
(* which are not decides what its tests for zero see.                      *)
(*                                                                         *)
(* A triple <<X, Y, Z>> holds Jacobian coordinates.  An object is a triple *)
(* of class PointJacobi ("jacobi"), a pair of class Point ("affine", with  *)
(* Z = 1), or the constant INFINITY.  Its field n is the order it carries, *)
(* 0 when the code has None there.  A fourth component of a triple and the *)
(* field twin of an object are ghosts: they tell whether two triples that  *)
(* are a Twin, see below, were added on the way to it.                     *)
(***************************************************************************)
EXTENDS Integers

CONSTANTS P,      \* the prime modulus
          A, B    \* the coefficients of the curve

ASSUME CurveAssumption ==
    /\ P \in Nat /\ P > 3 /\ \A d \in 2 .. P - 1 : P % d # 0
    /\ A \in Int /\ B \in Int

Field == 0 .. P - 1

ContainsPoint(x, y) == (y * y - ((x * x + A) * x + B)) % P = 0

(* numbertheory.inverse_mod for the prime P: 0 has the "inverse" 0.        *)
InverseMod(a) ==
    IF a = 0 THEN 0 ELSE CHOOSE i \in Field : (i * a) % P = 1

Object(class, x, y, z, n) ==
    [class |-> class, x |-> x, y |-> y, z |-> z, n |-> n, twin |-> FALSE]

(* All objects there may be, and their triples: what is computed of them   *)
(* is a function of these sets where an operator would be expanded often.  *)
Objects == [class : {"jacobi", "affine", "infinity"}, x : Int, y : Int, z : Int,
            n : Nat, twin : BOOLEAN]
Triples == Int \X Int \X Int \X BOOLEAN

Jacobi(X, Y, Z, n) == Object("jacobi", X, Y, Z, n)
Affine(x, y, n)    == Object("affine", x, y, 1, n)
INFINITY           == Object("infinity", 0, 0, 0, 0)

Flagged(pt, twin) == [pt EXCEPT !.twin = twin]

(* `if not Z3: return INFINITY'                                            *)
FromTriple(t, n) ==
    Flagged(IF t[3] = 0 THEN INFINITY ELSE Jacobi(t[1], t[2], t[3], n), t[4])

----------------------------------------------------------------------------
(* Doubling and addition of triples.                                       *)

DoubleWithZ1(X1, Y1) ==
    LET XX   == (X1 * X1) % P
        YY   == (Y1 * Y1) % P
        YYYY == (YY * YY) % P
        S    == (2 * ((X1 + YY) * (X1 + YY) - XX - YYYY)) % P
        M    == 3 * XX + A
        T    == (M * M - 2 * S) % P
    IN IF YY = 0 THEN <<0, 0, 0>>
       ELSE <<T, (M * (S - T) - 8 * YYYY) % P, (2 * Y1) % P>>

DoubleTriple(X1, Y1, Z1) ==
    LET XX   == (X1 * X1) % P
        YY   == (Y1 * Y1) % P
        YYYY == (YY * YY) % P
        ZZ   == (Z1 * Z1) % P
        S    == (2 * ((X1 + YY) * (X1 + YY) - XX - YYYY)) % P
        M    == (3 * XX + A * ZZ * ZZ) % P
        T    == (M * M - 2 * S) % P
    IN CASE Z1 = 1 -> DoubleWithZ1(X1, Y1)
         [] Z1 # 1 /\ (Z1 = 0 \/ YY = 0) -> <<0, 0, 0>>
         [] OTHER -> <<T, (M * (S - T) - 8 * YYYY) % P,
                       ((Y1 + Z1) * (Y1 + Z1) - YY - ZZ) % P>>

(* H and r are not reduced here.                                           *)
AddWithZ1(X1, Y1, X2, Y2) ==
    LET H  == X2 - X1
        I  == (4 * H * H) % P
        J  == H * I
        r  == 2 * (Y2 - Y1)
        V  == X1 * I
        X3 == (r * r - J - 2 * V) % P
    IN IF H = 0 /\ r = 0 THEN DoubleWithZ1(X1, Y1)
       ELSE <<X3, (r * (V - X3) - 2 * Y1 * J) % P, (2 * H) % P>>

AddWithZEq(X1, Y1, Z1, X2, Y2) ==
    LET E  == ((X2 - X1) * (X2 - X1)) % P
        F  == (X1 * E) % P
        C  == X2 * E
        D  == ((Y2 - Y1) * (Y2 - Y1)) % P
        X3 == (D - F - C) % P
    IN IF E = 0 /\ D = 0 THEN DoubleTriple(X1, Y1, Z1)
       ELSE <<X3, ((Y2 - Y1) * (F - X3) - Y1 * (C - F)) % P,
              (Z1 * (X2 - X1)) % P>>

(* A mutant: equal X are taken for equal points.                           *)
AddWithZ21SameX(X1, Y1, Z1, X2, Y2) ==
    LET Z1Z1 == (Z1 * Z1) % P
        H    == (X2 * Z1Z1 - X1) % P
        HH   == (H * H) % P
        J    == 4 * H * HH
        r    == (2 * (Y2 * Z1 * Z1Z1 - Y1)) % P
        V    == 4 * X1 * HH
        X3   == (r * r - J - 2 * V) % P
    IN IF H = 0 THEN DoubleWithZ1(X2, Y2)
       ELSE <<X3, (r * (V - X3) - 2 * Y1 * J) % P, (2 * Z1 * H) % P>>

AddWithZ21(X1, Y1, Z1, X2, Y2) ==
    LET Z1Z1 == (Z1 * Z1) % P
        U2   == (X2 * Z1Z1) % P
        S2   == (Y2 * Z1 * Z1Z1) % P
        H    == (U2 - X1) % P
        HH   == (H * H) % P
        I    == (4 * HH) % P
        J    == H * I
        r    == (2 * (S2 - Y1)) % P
        V    == X1 * I
        X3   == (r * r - J - 2 * V) % P
    IN IF r = 0 /\ H = 0 THEN DoubleWithZ1(X2, Y2)
       ELSE <<X3, (r * (V - X3) - 2 * Y1 * J) % P,
              ((Z1 + H) * (Z1 + H) - Z1Z1 - HH) % P>>

AddWithZNe(X1, Y1, Z1, X2, Y2, Z2) ==
    LET Z1Z1 == (Z1 * Z1) % P
        Z2Z2 == (Z2 * Z2) % P
        U1   == (X1 * Z2Z2) % P
        U2   == (X2 * Z1Z1) % P
        S1   == (Y1 * Z2 * Z2Z2) % P
        S2   == (Y2 * Z1 * Z1Z1) % P
        H    == U2 - U1
        I    == (4 * H * H) % P
        J    == (H * I) % P
        r    == (2 * (S2 - S1)) % P
        V    == U1 * I
        X3   == (r * r - J - 2 * V) % P
    IN IF H = 0 /\ r = 0 THEN DoubleTriple(X1, Y1, Z1)
       ELSE <<X3, (r * (V - X3) - 2 * S1 * J) % P,
              (((Z1 + Z2) * (Z1 + Z2) - Z1Z1 - Z2Z2) * H) % P>>

(* _add: the fastest method for the two denominators.                      *)
AddTriples(X1, Y1, Z1, X2, Y2, Z2) ==
    CASE Z1 = 0 -> <<X2 % P, Y2 % P, Z2 % P>>
      [] Z1 # 0 /\ Z2 = 0 -> <<X1 % P, Y1 % P, Z1 % P>>
      [] Z1 = Z2 /\ Z1 = 1 -> AddWithZ1(X1, Y1, X2, Y2)
      [] Z1 = Z2 /\ Z1 \notin {0, 1} -> AddWithZEq(X1, Y1, Z1, X2, Y2)
      [] Z1 # Z2 /\ Z1 = 1 /\ Z2 # 0 -> AddWithZ21(X2, Y2, Z2, X1, Y1)
      [] Z1 # Z2 /\ Z2 = 1 /\ Z1 # 0 -> AddWithZ21(X1, Y1, Z1, X2, Y2)
      [] OTHER -> AddWithZNe(X1, Y1, Z1, X2, Y2, Z2)

(* Both have Z = 1, the same X, and Y that differ by a multiple of P: the  *)
(* same point, which _add_with_z_1 does not recognize.                     *)
Twin(t, u) ==
    t[3] = 1 /\ u[3] = 1 /\ t[1] = u[1] /\ t[2] # u[2] /\ (t[2] - u[2]) % P = 0

WithGhost(c, twin) == <<c[1], c[2], c[3], twin>>

AddT(t, u) ==
    WithGhost(AddTriples(t[1], t[2], t[3], u[1], u[2], u[3]), t[4] \/ u[4] \/ Twin(t, u))
DoubleT[t \in Triples] == WithGhost(DoubleTriple(t[1], t[2], t[3]), t[4])
NegT(t)    == <<t[1], - t[2], t[3], t[4]>>

ZeroT      == <<0, 0, 0, FALSE>>
Triple(pt) == <<pt.x, pt.y, pt.z, pt.twin>>

----------------------------------------------------------------------------
(* Methods of PointJacobi.                                                 *)

Double(pt) == IF pt.z = 0 THEN INFINITY ELSE FromTriple(DoubleT[Triple(pt)], pt.n)

Neg(pt) == Jacobi(pt.x, - pt.y, pt.z, pt.n)

(* A mutant: the coordinates are not reduced.                              *)
ScaleUnreduced(pt) ==
    LET i == InverseMod(pt.z) IN
    IF pt.z = 1 THEN pt ELSE Jacobi(pt.x * i * i, pt.y * i * i * i, 1, pt.n)

Scale(pt) ==
    LET i == InverseMod(pt.z) IN
    IF pt.z = 1 THEN pt
    ELSE Jacobi((pt.x * i * i) % P, (pt.y * ((i * i) % P) * i) % P, 1, pt.n)

ToAffine(pt) ==
    IF pt.z % P = 0 THEN INFINITY ELSE Affine(Scale(pt).x, Scale(pt).y, pt.n)

FromAffine(pt) == Jacobi(pt.x, pt.y, 1, pt.n)

(* A mutant: Y is compared without the third power of Z.                   *)
EqSquares(s, o) ==
    LET zz1 == (s.z * s.z) % P
        zz2 == (o.z * o.z) % P
    IN IF o = INFINITY THEN s.z = 0
       ELSE (s.x * zz2 - o.x * zz1) % P = 0 /\ (s.y * zz2 - o.y * zz1) % P = 0

(* __eq__ of a PointJacobi and any point.                                  *)
Eq(s, o) ==
    LET zz1 == (s.z * s.z) % P
        zz2 == (o.z * o.z) % P
    IN IF o = INFINITY THEN s.z = 0
       ELSE /\ (s.x * zz2 - o.x * zz1) % P = 0
            /\ (s.y * zz2 * o.z - o.y * zz1 * s.z) % P = 0

(* __add__ of a PointJacobi and any point.                                 *)
Add(s, o) ==
    IF s.z = 0 THEN o
    ELSE IF o.z = 0 THEN s
    ELSE FromTriple(AddT(Triple(s), Triple(o)), s.n)

(* _naf: the least significant of the signed digits of a multiplier, and   *)
(* the multiplier that the digits beyond it spell.                         *)
Digit(m) == IF m % 2 = 0 THEN 0 ELSE IF m % 4 >= 2 THEN (m % 4) - 4 ELSE m % 4

Beyond(m) == (m - Digit(m)) \div 2

AddSigned(acc, d, t) ==
    IF d = 0 THEN acc ELSE AddT(acc, IF d < 0 THEN NegT(t) ELSE t)

(* __mul__ without a table: the accumulator when the digits of m are done, *)
(* the most significant first.                                             *)
MulTriple(t, k) ==
    LET acc[m \in Nat] ==
          IF m = 0 THEN ZeroT ELSE AddSigned(DoubleT[acc[Beyond(m)]], Digit(m), t)
    IN acc[k]

MulLoop(pt, k) == FromTriple(MulTriple(Triple(Scale(pt)), k), pt.n)

(* _maybe_precompute and _mul_precompute: the entries of the table are     *)
(* affine coordinates of pt, 2 pt, 4 pt, ...; round by round, what is left *)
(* of the multiplier, the accumulator, the entry and its multiple.  The    *)
(* table ends with the first entry that is not below 4 * order.            *)
Rounds == [k : Nat, acc : Triples, entry : Objects, i : Nat \ {0}]

AddEntry(r) == AddSigned(r.acc, Digit(r.k), Triple(r.entry))

MulTable(pt, k) ==
    LET sum[r \in Rounds] ==
          IF r.i >= 4 * pt.n THEN AddEntry(r)
          ELSE sum[[k |-> Beyond(r.k), acc |-> AddEntry(r),
                    entry |-> Scale(Double(r.entry)), i |-> 2 * r.i]]
    IN sum[[k |-> k, acc |-> ZeroT, entry |-> Scale(pt), i |-> 1]]

MulPrecompute(pt, k) == FromTriple(MulTable(pt, k), pt.n)

(* __mul__ of a point that is a generator or not.                          *)
Mul(pt, k, generator) ==
    LET m == IF pt.n = 0 THEN k ELSE k % (2 * pt.n) IN
    IF pt.y = 0 \/ k = 0 THEN INFINITY
    ELSE IF k = 1 THEN pt
    ELSE IF generator THEN MulPrecompute(pt, m) ELSE MulLoop(pt, m)

----------------------------------------------------------------------------
(* Methods of Point.                                                       *)

ADouble[pt \in Objects] ==
    LET l  == ((3 * pt.x * pt.x + A) * InverseMod(2 * pt.y)) % P
        x3 == (l * l - 2 * pt.x) % P
    IN IF pt = INFINITY \/ l = 0 THEN INFINITY
       ELSE Affine(x3, (l * (pt.x - x3) - pt.y) % P, 0)

ANeg(pt) == Affine(pt.x, P - pt.y, 0)

AAdd(s, o) ==
    LET l  == ((o.y - s.y) * InverseMod(o.x - s.x)) % P
        x3 == (l * l - s.x - o.x) % P
    IN IF o = INFINITY THEN s
       ELSE IF s = INFINITY THEN o
       ELSE IF s.x = o.x THEN IF (s.y + o.y) % P = 0 THEN INFINITY ELSE ADouble[s]
       ELSE Affine(x3, (l * (s.x - x3) - s.y) % P, 0)

(* __mul__ (X9.62 D.3.2): over the bits of k and of 3k, from the second    *)
(* highest of 3k down to the second lowest.                                *)
AddBit(r, a, b, pt) ==
    IF a > b THEN AAdd(r, pt)
    ELSE IF a < b THEN AAdd(r, Affine(pt.x, (- pt.y) % P, pt.n))
    ELSE r

(* The result when the bits of both numbers are done, as far as those of   *)
(* the first go.                                                           *)
AMulLoop(pt, k) ==
    LET result[n \in Nat \X Nat] ==
          IF n[1] <= 1 THEN pt
          ELSE AddBit(ADouble[result[<<n[1] \div 2, n[2] \div 2>>]], n[1] % 2, n[2] % 2, pt)
    IN result[<<(3 * k) \div 2, k \div 2>>]

AMul(pt, k) ==
    IF k = 0 \/ (pt.n # 0 /\ k % pt.n = 0) \/ pt = INFINITY THEN INFINITY
    ELSE AMulLoop(pt, k)

----------------------------------------------------------------------------
(* mul_add of two points of which one has no table.                        *)

(* Point and PointJacobi share `+'.                                        *)
AddTerms(r1, r2) ==
    Flagged(IF r1.z = 0 THEN r2 ELSE Add(r1, r2),
            r1.twin \/ r2.twin \/ Twin(Triple(r1), Triple(r2)))

(* What a pair of digits adds: one of the four combinations of the two     *)
(* points that _add made.                                                  *)
Term(a, b, t1, t2) ==
    CASE a = 0 -> IF b < 0 THEN NegT(t2) ELSE t2
      [] a # 0 /\ b = 0 -> IF a < 0 THEN NegT(t1) ELSE t1
      [] a # 0 /\ a = b -> LET mAmB == AddT(NegT(t1), NegT(t2))
                          IN IF a < 0 THEN mAmB ELSE NegT(mAmB)
      [] OTHER -> LET pAmB == AddT(t1, NegT(t2))
                  IN IF a < 0 THEN NegT(pAmB) ELSE pAmB

AddDigits(acc, a, b, t1, t2) ==
    IF a = 0 /\ b = 0 THEN acc ELSE AddT(acc, Term(a, b, t1, t2))

(* The loop over the digits of both multipliers, the shorter padded in     *)
(* front: 0 has no digits but zeros.                                       *)
MulAddTriple(t1, k, t2, m) ==
    LET acc[n \in Nat \X Nat] ==
          IF n = <<0, 0>> THEN ZeroT
          ELSE AddDigits(DoubleT[acc[<<Beyond(n[1]), Beyond(n[2])>>]],
                         Digit(n[1]), Digit(n[2]), t1, t2)
    IN acc[<<k, m>>]

(* Points whose sum is INFINITY are multiplied one by one.                *)
MulAddJacobi(s, k, o, m) ==
    LET t1 == Triple(Scale(s))
        t2 == Triple(Scale(o))
    IN IF AddT(NegT(t1), NegT(t2))[3] = 0
       THEN AddTerms(Mul(s, k, FALSE), Mul(o, m, FALSE))
       ELSE FromTriple(MulAddTriple(t1, k, t2, m), s.n)

MulAdd(s, k, o, m) ==
    LET reduced(j) == IF s.n = 0 THEN j ELSE j % s.n
    IN IF o.z = 0 \/ m = 0 THEN Mul(s, k, FALSE)
       ELSE IF k = 0 THEN IF o.class = "affine" THEN AMul(o, m) ELSE Mul(o, m, FALSE)
       ELSE MulAddJacobi(s, reduced(k), IF o.class = "affine" THEN FromAffine(o) ELSE o,
                         reduced(m))

----------------------------------------------------------------------------
(* The reference: the group law on pairs of residues and "O".              *)

O == <<>>

Residues(pt) ==
    LET i == InverseMod(pt.z % P) IN
    IF pt.z % P = 0 THEN O
    ELSE <<(pt.x * i * i) % P, (pt.y * i * i * i) % P>>

CurvePoints == {q \in Field \X Field : ContainsPoint(q[1], q[2])}
Group == {O} \cup CurvePoints

RNeg(q) == IF q = O THEN O ELSE <<q[1], (- q[2]) % P>>

(* The third intersection of the chord or tangent, reflected.              *)
RAdd(q, s) ==
    IF q = O THEN s
    ELSE IF s = O THEN q
    ELSE IF q = RNeg(s) THEN O
    ELSE LET l == IF q = s THEN CHOOSE m \in Field :
                                  (2 * q[2] * m - 3 * q[1] * q[1] - A) % P = 0
                  ELSE CHOOSE m \in Field : (m * (s[1] - q[1]) - (s[2] - q[2])) % P = 0
             x == (l * l - q[1] - s[1]) % P
         IN <<x, (l * (q[1] - x) - q[2]) % P>>

RMul(k, q) ==
    LET times[n \in Nat] == IF n = 0 THEN O ELSE RAdd(q, times[n - 1])
    IN times[k]

(* No point is its own opposite, as on every curve of odd order; __mul__   *)
(* takes a Y of 0 for the sign of INFINITY.                                *)
NoOrderTwo == \A q \in CurvePoints : q[2] # 0

(* The curves on which Point.double() is right: no tangent has the slope 0,*)
(* which it takes for the sign of a point that is its own opposite.        *)
NoFlatTangent ==
    NoOrderTwo /\ \A q \in CurvePoints : (3 * q[1] * q[1] + A) % P # 0

(* No point is singular: the tangent is a line, as on every curve the      *)
(* library knows.                                                          *)
Smooth == \A q \in CurvePoints : q[2] # 0 \/ (3 * q[1] * q[1] + A) % P # 0

(* The group law is associative, as JacobianProofs shows of curves without *)
(* singular points.                                                        *)
Associative ==
    \A q, r, s \in Group : RAdd(RAdd(q, r), s) = RAdd(q, RAdd(r, s))

(* A number that takes every point of the curve to O, as the order of the  *)
(* generator does on a curve of prime order.                               *)
Annihilates(n) == \A q \in Group : RMul(n, q) = O
=============================================================================
