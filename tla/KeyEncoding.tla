---------------------------- MODULE KeyEncoding ----------------------------
(***************************************************************************)
(* Public keys and their byte encodings: AbstractPoint.from_bytes and      *)
(* to_bytes (src/src/ecdsa/ellipticcurve.py), Public_key                   *)
(* (src/src/ecdsa/ecdsa.py) and VerifyingKey.from_string and               *)
(* from_public_point (src/src/ecdsa/keys.py).  One item travels between    *)
(* its three forms: a point in some representation, a key, a byte string.  *)
(*                                                                         *)
(* A byte string is its length, its first byte, and the one or two         *)
(* integers the rest spells; a coordinate takes as many bytes as P, so     *)
(* that it can spell any number below Limit.  (The three lengths differ    *)
(* when P takes two bytes or more.)                                        *)
(***************************************************************************)
EXTENDS Jacobian

CONSTANTS BaseX, BaseY,  \* the generator
          Order,         \* its order
          Cofactor,      \* the cofactor the curve was made with
          Limit          \* 256^orderlen(P)

ASSUME BaseAssumption ==
    BaseX \in Field /\ BaseY \in Field /\ Order \in Nat \ {0} /\ Cofactor \in Nat

(* Numbers beyond P can be spelt.                                          *)
ASSUME LimitAssumption == Limit \in Nat /\ Limit > P + 1

Word == 0 .. Limit - 1

Generator == Jacobi(BaseX, BaseY, 1, Order)

Encodings == {"raw", "uncompressed", "compressed", "hybrid"}

Bytes(len, lead, x, y) == [len |-> len, lead |-> lead, x |-> x, y |-> y]

(* `len' tells the three lengths apart that from_bytes looks for: twice    *)
(* orderlen, one more than that, and one more than orderlen.               *)
Data == [len : {"twice"}, lead : {0}, x : Word, y : Word]
          \cup [len : {"twice + 1"}, lead : {4, 5, 6, 7}, x : Word, y : Word]
          \cup [len : {"once + 1"}, lead : {2, 3, 4}, x : Word, y : {0}]
          \cup {Bytes("other", 0, 0, 0)}

(* No bytes: the exception of number_to_string.                            *)
Unencodable == Bytes("none", 0, 0, 0)

(* No coordinates: MalformedPointError.                                    *)
Malformed == <<>>

----------------------------------------------------------------------------
(* x() and y(): not reduced when Z is 1.                                   *)
ToBytes(pt, encoding) ==
    LET q == Scale(pt)
        x == q.x
        y == q.y
    IN CASE encoding = "compressed" /\ x \in Word -> Bytes("once + 1", 2 + (y % 2), x, 0)
         [] encoding = "raw"          /\ {x, y} \subseteq Word -> Bytes("twice", 0, x, y)
         [] encoding = "uncompressed" /\ {x, y} \subseteq Word -> Bytes("twice + 1", 4, x, y)
         [] encoding = "hybrid"       /\ {x, y} \subseteq Word ->
              Bytes("twice + 1", 6 + (y % 2), x, y)
         [] OTHER -> Unencodable

(* A mutant: the parity of the first byte is read the other way.           *)
FromCompressedFlipped(d) ==
    LET alpha == (d.x * d.x * d.x + A * d.x + B) % P
        beta  == CHOOSE r \in Field : (r * r) % P = alpha
    IN IF d.lead \notin {2, 3} \/ \A r \in Field : (r * r) % P # alpha THEN Malformed
       ELSE <<d.x, IF d.lead = 2 + (beta % 2) THEN P - beta ELSE beta>>

(* Which of the two roots square_root_mod_prime finds does not matter.     *)
FromCompressed(d) ==
    LET alpha == (d.x * d.x * d.x + A * d.x + B) % P
        beta  == CHOOSE r \in Field : (r * r) % P = alpha
    IN IF d.lead \notin {2, 3} \/ \A r \in Field : (r * r) % P # alpha THEN Malformed
       ELSE <<d.x, IF (d.lead = 2) <=> (beta % 2 = 1) THEN P - beta ELSE beta>>

(* A mutant: the parity is not compared with the first byte.               *)
FromHybridLax(d, validate) == <<d.x, d.y>>

FromHybrid(d, validate) ==
    IF validate /\ d.lead # 6 + (d.y % 2) THEN Malformed ELSE <<d.x, d.y>>

(* An empty set of encodings stands for all of them.                       *)
FromBytes(d, valid, validate) ==
    LET enabled == IF valid = {} THEN Encodings ELSE valid IN
    CASE d.len = "twice" /\ "raw" \in enabled -> <<d.x, d.y>>
      [] d.len = "twice + 1" /\ d.lead \in {6, 7} /\ "hybrid" \in enabled ->
           FromHybrid(d, validate)
      [] d.len = "twice + 1" /\ d.lead = 4 /\ "uncompressed" \in enabled -> <<d.x, d.y>>
      [] d.len = "once + 1" /\ "compressed" \in enabled -> FromCompressed(d)
      [] OTHER -> Malformed

(* Mutants: the order of the point is not looked at; the prime itself is   *)
(* taken for a coordinate.                                                 *)
PublicKeyAnyOrder(pt, verify) ==
    LET q == Scale(pt) IN
    q.x \in Field /\ q.y \in Field /\ (verify => ContainsPoint(q.x, q.y))

PublicKeyPrime(pt, verify) ==
    LET q == Scale(pt) IN
    /\ q.x \in 0 .. P /\ q.y \in 0 .. P
    /\ verify => ContainsPoint(q.x, q.y)
    /\ verify /\ Cofactor # 1 => Mul(pt, Order, FALSE).z = 0

(* Public_key.__init__ raises no InvalidPointError.                        *)
PublicKey(pt, verify) ==
    LET q == Scale(pt) IN
    /\ q.x \in Field /\ q.y \in Field
    /\ verify => ContainsPoint(q.x, q.y)
    /\ verify /\ Cofactor # 1 => Mul(pt, Order, FALSE).z = 0

(* from_string up to the key: the point, or INFINITY when it is refused.   *)
KeyPoint(d, valid, validate) ==
    LET xy == FromBytes(d, valid, validate)
        pt == Jacobi(xy[1], xy[2], 1, 0)
    IN IF xy = Malformed THEN INFINITY ELSE IF PublicKey(pt, validate) THEN pt ELSE INFINITY

----------------------------------------------------------------------------
VARIABLES form,     \* "point", "bytes", "key" or "error"
          point,    \* the point, or the point of the key
          bytes,    \* the byte string, or the one the key was read from
          checked   \* whether the key was made with validate_point

vars == <<form, point, bytes, checked>>

Is(f, pt, d, c) == form' = f /\ point' = pt /\ bytes' = d /\ checked' = c

Init ==
    /\ form = "point" /\ point = Generator
    /\ bytes = Unencodable /\ checked = FALSE

Error == Is("error", INFINITY, Unencodable, FALSE)

BecomesPoint(pt) == Is("point", Flagged(pt, FALSE), Unencodable, FALSE)

(* A byte string from elsewhere.                                           *)
Receive == \E d \in Data : Is("bytes", INFINITY, d, FALSE)

(* The caller computes: 2 * pt, -pt, pt + generator.                       *)
Compute ==
    /\ form = "point" /\ point # INFINITY
    /\ \E pt \in {Double(point), Neg(point), Add(point, Generator)} : BecomesPoint(pt)

(* to_affine() and scale() change the object in place.                     *)
Rescale ==
    /\ form \in {"point", "key"} /\ point # INFINITY
    /\ point' = Scale(point)
    /\ UNCHANGED <<form, bytes, checked>>

(* VerifyingKey.from_public_point(point, validate_point = validate); one   *)
(* that is INFINITY is no PointJacobi, and a TypeError.                    *)
FromPublicPoint ==
    /\ form = "point" /\ point # INFINITY
    /\ \E validate \in BOOLEAN :
         IF PublicKey(point, validate) THEN Is("key", point, Unencodable, validate) ELSE Error

(* VerifyingKey.from_string                                                *)
FromString ==
    /\ form = "bytes"
    /\ \E valid \in SUBSET Encodings, validate \in BOOLEAN :
         LET pt == KeyPoint(bytes, valid, validate) IN
         IF pt = INFINITY THEN Error ELSE Is("key", pt, bytes, validate)

(* PointJacobi.from_bytes                                                  *)
PointFromBytes ==
    /\ form = "bytes"
    /\ \E valid \in SUBSET Encodings, validate \in BOOLEAN :
         LET xy == FromBytes(bytes, valid, validate) IN
         IF xy = Malformed THEN Error ELSE BecomesPoint(Jacobi(xy[1], xy[2], 1, 0))

(* VerifyingKey.to_string, or to_bytes of the point.                       *)
EncodeKey ==
    /\ form \in {"point", "key"} /\ point # INFINITY
    /\ \E encoding \in Encodings :
         LET d == ToBytes(point, encoding) IN
         IF d = Unencodable THEN Error ELSE Is("bytes", INFINITY, d, FALSE)

(* pubkey.point                                                            *)
Take == form = "key" /\ BecomesPoint(point)

Next ==
    \/ Receive \/ Compute \/ Rescale \/ FromPublicPoint \/ FromString
    \/ PointFromBytes \/ EncodeKey \/ Take

Spec == Init /\ [][Next]_vars

----------------------------------------------------------------------------
(* The forms; a coordinate may be out of the field, unless it is a key's.  *)
TypeOK ==
    /\ form \in {"point", "bytes", "key", "error"}
    /\ bytes \in Data \cup {Unencodable} /\ checked \in BOOLEAN
    /\ form = "bytes" => bytes \in Data
    /\ form = "key" => Scale(point).x \in Field /\ Scale(point).y \in Field

(* A key made with validate_point is a multiple of the generator, wherever *)
(* its point came from: "for curve parameters with base point with         *)
(* cofactor 1, all points that are on the curve are scalar multiples of    *)
(* the base point", and for the others Public_key multiplies by the order. *)
KeyIsMultiple ==
    form = "key" /\ checked =>
      LET q == Residues(point) IN q \in CurvePoints /\ RMul(Order, q) = O

(* So it is, but for a point with y = 0, which __mul__ takes for INFINITY: *)
(* it is on the curve and, multiplied by the order, gives no other point;  *)
(* and unless a Twin is added on the way: over the integers modulo 13 with *)
(* A = 0 and B = 4, the point (0, 11) of order 3 passes for one of order 7.*)
KeyValid ==
    form = "key" /\ checked =>
      LET q == Residues(point) IN
      q \in CurvePoints /\ (q[2] # 0 => RMul(Order, q) = O)

(* A checked key is read back as the same point from each of its four      *)
(* encodings, by every from_string that enables the encoding, whatever     *)
(* denominator the point of the key has.                                   *)
RoundTrip ==
    form = "key" /\ checked =>
      \A encoding \in Encodings, valid \in SUBSET Encodings :
        valid = {} \/ encoding \in valid =>
          Residues(KeyPoint(ToBytes(point, encoding), valid, TRUE)) = Residues(point)

(* A checked key has no other spelling in the encoding it was read in:     *)
(* written again, it yields the bytes it was read from.                    *)
Canonical ==
    form = "key" /\ checked /\ bytes # Unencodable =>
      \E encoding \in Encodings : ToBytes(point, encoding) = bytes
=============================================================================
