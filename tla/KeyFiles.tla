------------------------------ MODULE KeyFiles ------------------------------
(***************************************************************************)
(* Key files: what SigningKey, VerifyingKey and Curve write and read in    *)
(* DER and PEM (src/src/ecdsa/keys.py, src/src/ecdsa/curves.py).           *)
(*                                                                         *)
(* A DER string is the sequence of its elements in the order of their      *)
(* first bytes, each with its depth: the contents of an element are the    *)
(* deeper elements that follow it.  Numbers are spelled in digits of Byte  *)
(* values.  The points of a curve are a cyclic group, a point its place in *)
(* it; `fp' stands for the prime and the coefficients of a curve.          *)
(***************************************************************************)
EXTENDS Integers, Sequences

CONSTANTS Byte,      \* how many values a byte has
          Fields,    \* the fp of all curves there are
          Params,    \* for each of them p, a, b, size of the group, plen of p
          Library,   \* curves.curves
          Foreign    \* Curve objects of other programs

(* A Curve: its fp, the place of the generator, its order, the cofactor (0 *)
(* for None), and its OID, "" if it has none.                              *)
Domain(fp, base, order, cofactor, oid) ==
    [fp |-> fp, base |-> base, order |-> order, cofactor |-> cofactor, oid |-> oid]

NoCurve == Domain("", 0, 0, 0, "")
Curves  == Library \cup Foreign

ASSUME CurvesAssumption == "" \notin Fields /\ \A c \in Curves : c.fp \in Fields

Edwards(c) == c.fp = "Ed"

(* The order of a curve is that of its generator.                          *)
OrderRight(c) ==
    LET size == Params[c.fp].size IN
    /\ c.order > 1 /\ (c.order * c.base) % size = 0
    /\ \A n \in 1 .. c.order - 1 : (n * c.base) % size # 0

ASSUME GroupsAssumption ==
    /\ Params \in [Fields -> [p : Nat, a : Nat, b : Nat, size : Nat \ {0}, plen : Nat \ {0, 1}]]
    /\ \A c \in Curves :
         c.base \in Nat /\ c.order \in Nat /\ c.cofactor \in Nat /\ OrderRight(c)

(* The library has an OID for each of its curves, and all Edwards curves.  *)
ASSUME LibraryAssumption ==
    /\ \A c \in Library : c.oid \notin {"", "ecPublicKey"}
    /\ \A c, d \in Library : c.oid = d.oid => c = d
    /\ \A c \in Foreign : c.oid = "" /\ ~ Edwards(c)

(* Curve.__eq__ compares the curve and the generator, nothing else.        *)
Same(c, d) == c.fp = d.fp /\ c.base = d.base

NumLen[n \in Nat] == IF n < Byte THEN 1 ELSE 1 + NumLen[n \div Byte]

(* Curve.baselen and Curve.verifying_key_length                            *)
BaseLen(c) == IF Edwards(c) THEN Params[c.fp].plen ELSE NumLen[c.order]
KeyLen(c)  == IF Edwards(c) THEN Params[c.fp].plen ELSE 2 * Params[c.fp].plen

----------------------------------------------------------------------------
(* DER strings.                                                            *)
Node(tag, name, form, num, len) ==
    [depth |-> 0, tag |-> tag, name |-> name, form |-> form, num |-> num, len |-> len]

Oid(name)        == <<Node("oid", name, "", 0, 0)>>
Number(n)        == <<Node("int", "", "", n, 0)>>
Octets(num, len) == <<Node("oct", "", "", num, len)>>

FormLen(fp, form) ==
    LET l == Params[fp].plen IN
    CASE form = "edwards" -> l
      [] form = "compressed" -> 1 + l
      [] form = "raw" -> 2 * l
      [] OTHER -> 1 + 2 * l

(* A bit string begins with the number of its unused bits.                 *)
PointLen(tag, fp, form) == FormLen(fp, form) + IF tag = "bit" THEN 1 ELSE 0
PointString(tag, fp, point, form) == <<Node(tag, fp, form, point, PointLen(tag, fp, form))>>

(* encode_sequence, encode_constructed, encode_octet_string of an encoding *)
Wrap(tag, s) ==
    <<Node(tag, "", "", 0, 0)>> \o [i \in 1 .. Len(s) |-> [s[i] EXCEPT !.depth = @ + 1]]

(* The last of the elements that the element at i holds.                   *)
Last(s, i) ==
    CHOOSE j \in i .. Len(s) :
      /\ \A k \in i + 1 .. j : s[k].depth > s[i].depth
      /\ j = Len(s) \/ s[j + 1].depth <= s[i].depth

(* What the remove_ functions of der.py return.                            *)
Starts(s, tag) == s # <<>> /\ s[1].tag = tag
Body(s) == SubSeq(s, 2, Last(s, 1))
Rest(s) == SubSeq(s, Last(s, 1) + 1, Len(s))

(* Of two of them, an empty string has no first byte to read.              *)
Missing(s) == IF s = <<>> THEN "IndexError" ELSE "UnexpectedDER"

(* The bytes in an octet string; an encoding in it is no number of the     *)
(* right length for anything.                                              *)
Bytes(s) == IF Body(s) = <<>> THEN [num |-> s[1].num, len |-> s[1].len]
            ELSE [num |-> 0, len |-> 1000]

----------------------------------------------------------------------------
(* Curve parameters.                                                       *)
Written(s) == [error |-> "", string |-> s]
Refused(e) == [error |-> e, string |-> <<>>]

Default(c) == IF c.oid # "" THEN "named_curve" ELSE "explicit"
Encoding(c, encoding) == IF encoding = "None" THEN Default(c) ELSE encoding

(* Curve.to_der, for the generator in a form of its own                    *)
CurveToDer(c, encoding, form) ==
    LET par == Params[c.fp]
        named == Encoding(c, encoding) = "named_curve"
    IN IF named /\ c.oid # "" THEN Written(Oid(c.oid))
       ELSE IF named \/ Edwards(c) THEN Refused("UnknownCurveError")
       ELSE Written(Wrap("seq",
              Number(1) \o Wrap("seq", Oid("prime-field") \o Number(par.p))
              \o Wrap("seq", Octets(par.a, par.plen) \o Octets(par.b, par.plen))
              \o PointString("oct", c.fp, c.base, form) \o Number(c.order)
              \o (IF c.cofactor # 0 THEN Number(c.cofactor) ELSE <<>>)))

CurveRead(c)  == [error |-> "", curve |-> c]
CurveError(e) == [error |-> e, curve |-> NoCurve]

(* AbstractPoint.from_bytes: its length and first byte tell the form.      *)
PointFits(node, fp, forms) ==
    /\ node.name = fp /\ node.form \in forms
    /\ node.len = PointLen(node.tag, fp, node.form)

(* A mutant: the curve that was read is kept, whatever it is equal to.     *)
PreferKept(c) == c

(* A curve of the library is preferred to one that is equal to it.         *)
Prefer(c) ==
    IF \E known \in Library : Same(c, known)
    THEN CHOOSE known \in Library : Same(c, known) ELSE c

(* ECParameters: version, fieldID, curve, base, order, cofactor, and what  *)
(* is ignored after it.  The coefficients are those of some curve, or the  *)
(* base point is not on it.                                                *)
ReadExplicit(s) ==
    LET field == Rest(s)
        curve == Rest(field)
        base  == Rest(curve)
        order == Rest(base)
        cofactor == Rest(order)
        prime == Rest(Body(field))
        a == Body(curve)
        b == Rest(a)
        fps == {fp \in Fields : /\ Params[fp].p = prime[1].num
                                /\ Params[fp].a = a[1].num /\ Params[fp].b = b[1].num
                                /\ PointFits(base[1], fp, {"uncompressed", "compressed", "hybrid"})}
    IN IF ~ Starts(s, "int") \/ s[1].num # 1 \/ ~ Starts(field, "seq") \/ ~ Starts(curve, "seq")
       THEN CurveError("UnexpectedDER")
       ELSE IF ~ Starts(base, "oct") THEN CurveError(Missing(base))
       ELSE IF \/ ~ Starts(order, "int") \/ (cofactor # <<>> /\ ~ Starts(cofactor, "int"))
               \/ ~ Starts(Body(field), "oid")
       THEN CurveError("UnexpectedDER")
       ELSE IF Body(field)[1].name # "prime-field" THEN CurveError("UnknownCurveError")
       ELSE IF ~ Starts(prime, "int") \/ Rest(prime) # <<>> THEN CurveError("UnexpectedDER")
       ELSE IF ~ Starts(a, "oct") THEN CurveError(Missing(a))
       ELSE IF ~ Starts(b, "oct") THEN CurveError(Missing(b))
       ELSE IF fps = {} THEN CurveError("MalformedPointError")
       ELSE CurveRead(Prefer(Domain(CHOOSE fp \in fps : TRUE, base[1].num, order[1].num,
                              IF cofactor = <<>> THEN 0 ELSE cofactor[1].num, "")))

(* find_curve                                                              *)
FindCurve(oid) ==
    IF \E c \in Library : c.oid = oid
    THEN CurveRead(CHOOSE c \in Library : c.oid = oid) ELSE CurveError("UnknownCurveError")

(* Curve.from_der; no valid encodings at all are all of them.              *)
ReadCurve(s, valid) ==
    LET allowed == IF valid = {} THEN {"named_curve", "explicit"} ELSE valid IN
    IF Starts(s, "seq")
    THEN IF "explicit" \notin allowed \/ Rest(s) # <<>> THEN CurveError("UnexpectedDER")
         ELSE ReadExplicit(Body(s))
    ELSE IF "named_curve" \notin allowed \/ ~ Starts(s, "oid") \/ Rest(s) # <<>>
    THEN CurveError("UnexpectedDER")
    ELSE FindCurve(s[1].name)

----------------------------------------------------------------------------
(* Keys: a SigningKey has a secret exponent, or the bytes of an EdDSA key  *)
(* as a number; a VerifyingKey has a point.                                *)
Key(kind, c, secret, point) ==
    [kind |-> kind, curve |-> c, secret |-> secret, point |-> point]

NoKey == Key("none", NoCurve, 0, 0)
KeyRead(key) == [error |-> "", key |-> key]
KeyError(e)  == [error |-> e, key |-> NoKey]

Size(c) == Params[c.fp].size

(* PointJacobi.__mul__ takes a point with y = 0 for INFINITY, which is 0.  *)
Times(c, point, k) == IF (2 * point) % Size(c) = 0 THEN 0 ELSE (k * point) % Size(c)

(* VerifyingKey of a point: Public_key tests the order of points of curves *)
(* whose cofactor is not one.                                              *)
PublicOf(c, point) ==
    IF c.order = 0 \/ (c.cofactor # 1 /\ Times(c, point, c.order) # 0)
    THEN KeyError("MalformedPointError")
    ELSE KeyRead(Key("public", c, 0, point))

(* VerifyingKey.from_string                                                *)
PublicFromString(node, c, forms) ==
    IF ~ PointFits(node, c.fp, IF Edwards(c) THEN {"edwards"} ELSE forms)
    THEN KeyError("MalformedPointError")
    ELSE IF Edwards(c) THEN KeyRead(Key("public", c, 0, node.num))
    ELSE PublicOf(c, node.num)

(* SigningKey.from_secret_exponent                                         *)
FromSecretExponent(secexp, c) ==
    IF Edwards(c) THEN KeyError("ValueError")
    ELSE IF secexp \notin 1 .. c.order - 1 THEN KeyError("MalformedPointError")
    ELSE KeyRead(Key("private", c, secexp, (secexp * c.base) % Size(c)))

(* An EdDSA key: the hash of the private key makes some multiple of the    *)
(* generator.                                                              *)
EdKey(num, c) ==
    KeyRead(Key("private", c, num, ((1 + (num % (c.order - 1))) * c.base) % Size(c)))

(* SigningKey.from_string                                                  *)
PrivateFromString(bytes, c) ==
    IF bytes.len # BaseLen(c) THEN KeyError("MalformedPointError")
    ELSE IF Edwards(c) THEN EdKey(bytes.num, c)
    ELSE FromSecretExponent(bytes.num, c)

(* SigningKey.generate                                                     *)
Generated(c) ==
    IF Edwards(c) THEN {EdKey(num, c).key : num \in 0 .. Byte ^ BaseLen(c) - 1}
    ELSE {FromSecretExponent(k, c).key : k \in 1 .. c.order - 1}

(* VerifyingKey of a SigningKey: get_verifying_key                         *)
VerifyingKey(key) == Key("public", key.curve, 0, key.point)

(* VerifyingKey.__eq__ and SigningKey.__eq__                               *)
SameKey(k, l) ==
    k.kind = l.kind /\ Same(k.curve, l.curve) /\ k.point = l.point /\ k.secret = l.secret

FormOf(c, form) == IF Edwards(c) THEN "edwards" ELSE form

(* VerifyingKey.to_der                                                     *)
PublicToDer(key, form, encoding) ==
    LET c == key.curve
        params == CurveToDer(c, encoding, form)
        point == PointString("bit", c.fp, key.point, FormOf(c, form))
    IN IF form = "raw" THEN Refused("ValueError")
       ELSE IF Edwards(c) THEN Written(Wrap("seq", Wrap("seq", Oid(c.oid)) \o point))
       ELSE IF params.error # "" THEN params
       ELSE Written(Wrap("seq", Wrap("seq", Oid("ecPublicKey") \o params.string) \o point))

(* SigningKey.to_string                                                    *)
PrivateString(key) == Octets(key.secret, BaseLen(key.curve))

(* SigningKey.to_der and _encode_eddsa                                     *)
PrivateToDer(key, form, format, encoding) ==
    LET c == key.curve
        params == CurveToDer(c, encoding, "uncompressed")
        own == IF format = "ssleay" THEN Wrap("c0", params.string) ELSE <<>>
        point == PointString("bit", c.fp, key.point, form)
        ecPrivateKey == Wrap("seq", Number(1) \o PrivateString(key) \o own \o Wrap("c1", point))
    IN IF form = "raw" \/ (Edwards(c) /\ format = "ssleay") THEN Refused("ValueError")
       ELSE IF Edwards(c)
       THEN Written(Wrap("seq", Number(0) \o Wrap("seq", Oid(c.oid))
                                \o Wrap("oct", PrivateString(key))))
       ELSE IF params.error # "" THEN params
       ELSE IF format = "ssleay" THEN Written(ecPrivateKey)
       ELSE Written(Wrap("seq", Number(1) \o Wrap("seq", Oid("ecPublicKey") \o params.string)
                                \o Wrap("oct", ecPrivateKey)))

----------------------------------------------------------------------------
(* The readers.  `valid' are encodings of curves, `forms' those of points. *)
EdCurves == {c \in Library : Edwards(c)}
IsEdOid(s) == \E c \in EdCurves : c.oid = s[1].name
EdCurve(s) == CHOOSE c \in EdCurves : c.oid = s[1].name

(* VerifyingKey.from_der                                                   *)
ReadPublic(s, forms, valid) ==
    LET algorithm == Body(Body(s))
        point == Rest(Body(s))
        params == ReadCurve(Rest(algorithm), valid)
        accepted == IF forms = {} THEN {"uncompressed", "compressed", "hybrid"} ELSE forms
        alone == Starts(point, "bit") /\ Rest(point) = <<>>
    IN IF \/ ~ Starts(s, "seq") \/ Rest(s) # <<>> \/ ~ Starts(Body(s), "seq")
          \/ ~ Starts(algorithm, "oid")
       THEN KeyError("UnexpectedDER")
       ELSE IF IsEdOid(algorithm)
       THEN IF alone THEN PublicFromString(point[1], EdCurve(algorithm), {})
            ELSE KeyError("UnexpectedDER")
       ELSE IF algorithm[1].name # "ecPublicKey" THEN KeyError("UnexpectedDER")
       ELSE IF params.error # "" THEN KeyError(params.error)
       ELSE IF ~ alone \/ point[1].len = 1 + KeyLen(params.curve) THEN KeyError("UnexpectedDER")
       ELSE PublicFromString(point[1], params.curve, accepted)

(* The octet string of the private key is too short by leading zeros.      *)
Padded(bytes, c) ==
    IF bytes.len < BaseLen(c) THEN [bytes EXCEPT !.len = BaseLen(c)] ELSE bytes

(* ECPrivateKey, with the parameters that were read already, if any; what  *)
(* comes after them is ignored.                                            *)
ReadECPrivateKey(s, outer, valid) ==
    LET private == Rest(s)
        own == Rest(private)
        params == IF outer # NoCurve THEN CurveRead(outer) ELSE ReadCurve(Body(own), valid)
    IN IF ~ Starts(s, "int") \/ s[1].num # 1 THEN KeyError("UnexpectedDER")
       ELSE IF ~ Starts(private, "oct") THEN KeyError(Missing(private))
       ELSE IF outer = NoCurve /\ ~ Starts(own, "c0") THEN KeyError(Missing(own))
       ELSE IF params.error # "" THEN KeyError(params.error)
       ELSE PrivateFromString(Padded(Bytes(private), params.curve), params.curve)

(* OneAsymmetricKey of an EdDSA key; attributes and publicKey are ignored. *)
ReadEdPrivateKey(algorithm, private) ==
    LET inner == Body(private) IN
    IF Rest(algorithm) # <<>> THEN KeyError("UnexpectedDER")
    ELSE IF ~ Starts(private, "oct") THEN KeyError(Missing(private))
    ELSE IF ~ Starts(inner, "oct")
    THEN KeyError(IF inner = <<>> /\ private[1].len = 0 THEN "IndexError" ELSE "UnexpectedDER")
    ELSE IF Rest(inner) # <<>> THEN KeyError("UnexpectedDER")
    ELSE PrivateFromString(Bytes(inner), EdCurve(algorithm))

(* SigningKey.from_der: a sequence after the version is PKCS #8.           *)
ReadPrivate(s, valid) ==
    LET version == Body(s)
        algorithm == Body(Rest(version))
        private == Rest(Rest(version))
        params == ReadCurve(Rest(algorithm), valid)
        inner == Body(private)
    IN IF ~ Starts(s, "seq") \/ Rest(s) # <<>> \/ ~ Starts(version, "int")
       THEN KeyError("UnexpectedDER")
       ELSE IF ~ Starts(Rest(version), "seq") THEN ReadECPrivateKey(version, NoCurve, valid)
       ELSE IF version[1].num \notin {0, 1} \/ ~ Starts(algorithm, "oid")
       THEN KeyError("UnexpectedDER")
       ELSE IF IsEdOid(algorithm) THEN ReadEdPrivateKey(algorithm, private)
       ELSE IF algorithm[1].name \notin {"ecPublicKey", "ecDH", "ecMQV"}
       THEN KeyError("UnexpectedDER")
       ELSE IF params.error # "" THEN KeyError(params.error)
       ELSE IF ~ Starts(private, "oct") THEN KeyError(Missing(private))
       ELSE IF ~ Starts(inner, "seq") \/ Rest(inner) # <<>> THEN KeyError("UnexpectedDER")
       ELSE ReadECPrivateKey(Body(inner), params.curve, valid)

(* PEM: sections with a header.  unpem() takes all lines that are no       *)
(* header for one object, and its base64 decoder stops at the padding, if  *)
(* a section ends with some.                                               *)
Section(header, s) == [header |-> header, string |-> s]

Unpem(sections, padding) ==
    IF padding \/ Len(sections) = 1 THEN sections[1].string
    ELSE sections[1].string \o sections[2].string

(* VerifyingKey.from_pem                                                   *)
ReadPublicPem(sections, padding, forms, valid) ==
    ReadPublic(Unpem(sections, padding), forms, valid)

FirstWith(sections, header) ==
    {i \in 1 .. Len(sections) :
       /\ sections[i].header = header
       /\ \A j \in 1 .. i - 1 : sections[j].header # header}

(* A mutant: what is before the header is not cut off.                     *)
FromStart(sections, i) == sections

From(sections, i) == SubSeq(sections, i, Len(sections))

(* SigningKey.from_pem                                                     *)
ReadPrivatePem(sections, padding, valid) ==
    LET ec == FirstWith(sections, "EC PRIVATE KEY")
        pkcs8 == FirstWith(sections, "PRIVATE KEY")
        found == IF ec # {} THEN ec ELSE pkcs8
    IN IF found = {} THEN KeyError("ValueError")
       ELSE ReadPrivate(Unpem(From(sections, CHOOSE i \in found : TRUE), padding), valid)

(* Curve.from_pem                                                          *)
ReadCurvePem(sections, padding, valid) ==
    LET found == FirstWith(sections, "EC PARAMETERS") IN
    IF found = {} THEN CurveError("UnexpectedDER")
    ELSE ReadCurve(Unpem(From(sections, CHOOSE i \in found : TRUE), padding), valid)
=============================================================================
