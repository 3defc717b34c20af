------------------------------ MODULE Edwards ------------------------------
(***************************************************************************)
(* The arithmetic and the encoding of PointEdwards (src/src/ecdsa/         *)
(* ellipticcurve.py) on the twisted Edwards curve                          *)
(* A*x^2 + y^2 = 1 + D*x^2*y^2 over the integers modulo P.                 *)
(*                                                                         *)
(* A point holds the extended coordinates x, y, z, t and the order n it    *)
(* carries, 0 for None.  INFINITY, an object of another class, is the      *)
(* point whose coordinates are all zero, which no other is.                *)
(***************************************************************************)
EXTENDS Integers

CONSTANTS P, A, D,       \* the prime and the coefficients of the curve
          BaseX, BaseY,  \* the generator
          Order,         \* its order
          MaxY           \* the largest y an encoding has room for

Field == 0 .. P - 1

ASSUME EdwardsAssumption ==
    /\ P \in Nat /\ P > 2 /\ \A d \in 2 .. P - 1 : P % d # 0
    /\ A \in Int /\ D \in Int /\ BaseX \in Field /\ BaseY \in Field
    /\ Order \in Nat /\ Order > 2 /\ Order % 2 = 1 /\ MaxY \in Nat /\ MaxY >= P - 1

(* A is a square and D is none, as RFC 8032 has it: addition is complete.  *)
ASSUME SquaresAssumption ==
    /\ A % P # 0 /\ \E a \in Field : (a * a - A) % P = 0
    /\ \A d \in Field : (d * d - D) % P # 0

ContainsPoint(x, y) == (A * x * x + y * y - 1 - D * x * x * y * y) % P = 0

(* inverse_mod: what _from_edwards and scale() ask is 0, or has an inverse.*)
InverseMod(a) == IF a = 0 THEN 0 ELSE CHOOSE i \in Field : (i * a) % P = 1

Coords == Int \X Int \X Int \X Int
Points == [x : Int, y : Int, z : Int, t : Int, n : Nat]

Extended(c, n) == [x |-> c[1], y |-> c[2], z |-> c[3], t |-> c[4], n |-> n]
INFINITY == Extended(<<0, 0, 0, 0>>, 0)

(* `not X or not T': as INFINITY for the methods that compute.             *)
Vanishes(c) == c[1] = 0 \/ c[4] = 0

FromCoords(c, n) == IF Vanishes(c) THEN INFINITY ELSE Extended(c, n)

CoordsOf(pt) == <<pt.x, pt.y, pt.z, pt.t>>

----------------------------------------------------------------------------
(* Doubling and addition.                                                  *)
(* _double, after its E, F, G and H.                                       *)
Product(E, F, G, H) == <<(E * F) % P, (G * H) % P, (F * G) % P, (E * H) % P>>

DoubleCoords[c \in Coords] ==
    LET XX == (c[1] * c[1]) % P
        YY == (c[2] * c[2]) % P
        AX == (A * XX) % P
        E  == ((c[1] + c[2]) * (c[1] + c[2]) - XX - YY) % P
        G  == AX + YY
    IN Product(E, G - ((2 * c[3] * c[3]) % P), G, AX - YY)

(* _add: points of equal t are taken for equal.                            *)
AddCoords(c, d) ==
    LET XX == (c[1] * d[1]) % P
        YY == (c[2] * d[2]) % P
        ZT == (c[3] * d[4]) % P
        TZ == (c[4] * d[3]) % P
    IN IF TZ = ZT THEN DoubleCoords[c]
       ELSE Product(TZ + ZT, ((c[1] - c[2]) * (d[1] + d[2]) + YY - XX) % P,
                    YY + A * XX, TZ - ZT)

NegCoords(c) == << - c[1], c[2], c[3], - c[4]>>

(* __eq__, with INFINITY on either side.                                   *)
IsInfinity(pt) == pt.x = 0 \/ pt.t = 0

Eq(p, q) ==
    IF p = INFINITY THEN IsInfinity(q)
    ELSE IF q = INFINITY THEN IsInfinity(p)
    ELSE /\ (p.x * q.z) % P = (q.x * p.z) % P
         /\ (p.y * q.z) % P = (q.y * p.z) % P

(* __add__, and __radd__ when p is INFINITY.                               *)
Add(p, q) ==
    IF IsInfinity(q) THEN p
    ELSE IF p = INFINITY THEN q
    ELSE FromCoords(AddCoords(CoordsOf(p), CoordsOf(q)), p.n)

(* double()                                                                *)
Double(p) == IF IsInfinity(p) THEN INFINITY ELSE FromCoords(DoubleCoords[CoordsOf(p)], p.n)

(* A mutant: t stays what it was.                                          *)
ScaleKeepsT(p) ==
    IF p.z = 1 \/ p = INFINITY THEN p
    ELSE LET i == InverseMod(p.z)
         IN Extended(<<(p.x * i) % P, (p.y * i) % P, 1, p.t>>, p.n)

(* x(), y() and scale(): nothing is reduced if z is one already.           *)
Scale(p) ==
    IF p.z = 1 \/ p = INFINITY THEN p
    ELSE LET i == InverseMod(p.z)
             x == (p.x * i) % P
             y == (p.y * i) % P
         IN Extended(<<x, y, 1, (x * y) % P>>, p.n)

----------------------------------------------------------------------------
(* Multiplication.                                                         *)
(* _naf: the least significant of the signed digits of a multiplier, and   *)
(* the multiplier that the digits beyond it spell.                         *)
Digit(m) == IF m % 2 = 0 THEN 0 ELSE IF m % 4 >= 2 THEN (m % 4) - 4 ELSE m % 4

Beyond(m) == (m - Digit(m)) \div 2

(* A term of a sum: the coordinates times 1, 0 or -1.                      *)
AddDigit(c, d, u) == IF d = 0 THEN c ELSE AddCoords(c, IF d < 0 THEN NegCoords(u) ELSE u)

Neutral == <<0, 1, 1, 0>>

(* The loop over the digits of __mul__, from the highest: the sum when     *)
(* those of m are done.                                                    *)
Ladder(u, k) ==
    LET acc[m \in Nat] ==
          IF m = 0 THEN Neutral ELSE AddDigit(DoubleCoords[acc[Beyond(m)]], Digit(m), u)
    IN acc[k]

(* A mutant: the order is not multiplied.                                  *)
TableEnds(i) == i >= Order

(* `order *= 2' and then `order *= 4' have the table reach beyond the bits *)
(* of a multiplier.                                                        *)
TableEnd(i) == i >= 8 * Order

(* _maybe_precompute: the doublings of the point, scaled.                  *)
Entry(u) == <<Scale(u).x, Scale(u).y, 1, (Scale(u).x * Scale(u).y) % P>>

(* A round of _mul_precompute: what is left of the multiplier, the sum,    *)
(* the doubling that is the entry, and its multiple.                       *)
Rounds ==
    [k : Nat, acc : Coords, entry : {e \in Points : e.z \in Field}, i : Nat \ {0}]

NextRound(r) ==
    [k |-> Beyond(r.k), acc |-> AddDigit(r.acc, Digit(r.k), Entry(r.entry)),
     entry |-> Double(Scale(r.entry)), i |-> 2 * r.i]

MulTable(p, k) ==
    LET sum[r \in Rounds] == IF TableEnd(r.i) THEN r.acc ELSE sum[NextRound(r)]
    IN sum[[k |-> k, acc |-> Neutral, entry |-> p, i |-> 1]]

Reduced(k, n) == IF n = 0 THEN k ELSE k % (2 * n)

(* __mul__ of a point that is a generator or not.                          *)
Mul(p, k, generator) ==
    IF IsInfinity(p) \/ k = 0 THEN INFINITY
    ELSE IF k = 1 THEN p
    ELSE FromCoords(IF generator THEN MulTable(p, Reduced(k, p.n))
                    ELSE Ladder(CoordsOf(p), Reduced(k, p.n)), p.n)

Generator == Extended(<<BaseX, BaseY, 1, (BaseX * BaseY) % P>>, Order)
MulGenerator(k) == Mul(Generator, k, TRUE)

----------------------------------------------------------------------------
(* Encodings: the sign bit and y, in little endian; or another length.     *)
Encoding(sign, y) == [fits |-> TRUE, sign |-> sign, y |-> y]
WrongLength == [fits |-> FALSE, sign |-> 0, y |-> 0]
Encodings == [fits : {TRUE}, sign : {0, 1}, y : 0 .. MaxY] \cup {WrongLength}

(* The x^2 that belongs to y; y may be beyond P.                           *)
XSquared(y) == ((y * y - 1) * InverseMod((D * y * y - A) % P)) % P

(* from_bytes raises no MalformedPointError.                               *)
Decodes(e) == e.fits /\ \E x \in Field : (x * x) % P = XSquared(e.y)

(* A mutant: the sign bit is read the wrong way round.                     *)
FromBytesMirrored(e) ==
    LET root == CHOOSE x \in Field : (x * x) % P = XSquared(e.y)
        x    == IF root % 2 = e.sign THEN (- root) % P ELSE root
    IN Extended(<<x, e.y, 1, x * e.y>>, 0)

(* from_bytes and _from_edwards: neither y nor t is reduced.               *)
FromBytes(e) ==
    LET root == CHOOSE x \in Field : (x * x) % P = XSquared(e.y)
        x    == IF root % 2 # e.sign THEN (- root) % P ELSE root
    IN Extended(<<x, e.y, 1, x * e.y>>, 0)

(* to_bytes of a point that is not INFINITY; it also scales the point.     *)
ToBytes(p) == Encoding(Scale(p).x % 2, Scale(p).y)

----------------------------------------------------------------------------
(* Reference: the group of the curve in affine coordinates.                *)
O == <<0, 1>>

RInverse(a) == CHOOSE i \in Field : (i * a) % P = 1

RAdd(u, v) ==
    LET w == (D * u[1] * v[1] * u[2] * v[2]) % P
    IN <<((u[1] * v[2] + u[2] * v[1]) * RInverse((1 + w) % P)) % P,
         ((u[2] * v[2] - A * u[1] * v[1]) * RInverse((1 - w) % P)) % P>>

RMul(k) ==
    LET times[n \in Nat] == IF n = 0 THEN O ELSE RAdd(times[n - 1], <<BaseX, BaseY>>)
    IN times[k]

(* The group law is associative: the classical theorem about these curves. *)
CurvePoints == {u \in Field \X Field : ContainsPoint(u[1], u[2])}

Associative ==
    \A u, v, w \in CurvePoints : RAdd(RAdd(u, v), w) = RAdd(u, RAdd(v, w))

(* The multiples of the generator.                                         *)
Multiples == [k \in 0 .. Order - 1 |-> RMul(k)]

ASSUME GeneratorAssumption ==
    /\ ContainsPoint(BaseX, BaseY)
    /\ RMul(Order) = O /\ \A k \in 1 .. Order - 1 : RMul(k) # O

Affine(p) ==
    IF p = INFINITY THEN O ELSE <<Scale(p).x % P, Scale(p).y % P>>

(* Which multiple of the generator a point is, or Outside.                 *)
Outside == - 1

LogOf(p) ==
    IF \E k \in 0 .. Order - 1 : Multiples[k] = Affine(p)
    THEN CHOOSE k \in 0 .. Order - 1 : Multiples[k] = Affine(p) ELSE Outside
=============================================================================
