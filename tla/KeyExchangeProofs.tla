------------------------- MODULE KeyExchangeProofs -------------------------
(***************************************************************************)
(* The keys of a session of ECDH are on its curve, whatever keys, strings  *)
(* and files are loaded in whatever order; both parties make one secret;   *)
(* and what is written to a file is read back: for all curves, all numbers *)
(* and all files.                                                          *)
(***************************************************************************)
EXTENDS KeyExchange, ProofBasics, SequenceTheorems

(* A curve of the library or of another program is not None.               *)
LEMMA CurveIsSet ==
  ASSUME NEW c \in Curves
  PROVE  c # NoCurve
  <1>1. NoCurve.fp = ""
    BY DEF NoCurve, Domain
  <1>2. c.fp \in Fields
    BY CurvesAssumption
  <1> QED BY <1>1, <1>2, CurvesAssumption

(* What Curve.from_der prefers to explicit parameters of a field is a      *)
(* curve.                                                                  *)
LEMMA PreferIsSet ==
  ASSUME NEW fp \in Fields, NEW base, NEW order, NEW cofactor
  PROVE  Prefer(Domain(fp, base, order, cofactor, "")) # NoCurve
  <1> DEFINE c == Domain(fp, base, order, cofactor, "")
  <1>1. c.fp = fp
    BY DEF Domain
  <1>2. c # NoCurve
    <2>1. NoCurve.fp = ""
      BY DEF NoCurve, Domain
    <2> HIDE DEF c
    <2> QED BY <1>1, <2>1, CurvesAssumption
  <1>3. CASE \E known \in Library : Same(c, known)
    <2>1. Prefer(c) \in Library
      BY <1>3 DEF Prefer
    <2> QED BY <2>1, CurveIsSet DEF Curves
  <1>4. CASE ~ \E known \in Library : Same(c, known)
    BY <1>2, <1>4 DEF Prefer
  <1> QED BY <1>3, <1>4

(* Curve.from_der returns a curve or raises.                               *)
LEMMA CurveReads ==
  ASSUME NEW s, NEW valid, ReadCurve(s, valid).error = ""
  PROVE  ReadCurve(s, valid).curve # NoCurve
  <1>1. ASSUME NEW t, ReadExplicit(t).error = ""
        PROVE  ReadExplicit(t).curve # NoCurve
    <2>1. PICK fp \in Fields : \E base, order, cofactor :
            ReadExplicit(t) = CurveRead(Prefer(Domain(fp, base, order, cofactor, "")))
      BY <1>1 DEF ReadExplicit, CurveError, Missing
    <2>2. PICK base, order, cofactor :
            ReadExplicit(t) = CurveRead(Prefer(Domain(fp, base, order, cofactor, "")))
      BY <2>1
    <2>3. \A c : CurveRead(c).curve = c
      BY DEF CurveRead
    <2>4. ReadExplicit(t).curve = Prefer(Domain(fp, base, order, cofactor, ""))
      BY <2>2, <2>3
    <2> QED BY <2>4, PreferIsSet
  <1>2. ASSUME NEW oid, FindCurve(oid).error = ""
        PROVE  FindCurve(oid).curve # NoCurve
    <2>1. FindCurve(oid).curve \in Library
      BY <1>2 DEF FindCurve, CurveRead, CurveError
    <2> QED BY <2>1, CurveIsSet DEF Curves
  <1>3. \/ ReadCurve(s, valid) = ReadExplicit(Body(s))
        \/ ReadCurve(s, valid) = FindCurve(s[1].name)
    BY DEF ReadCurve, CurveError
  <1> QED BY <1>1, <1>2, <1>3

(* A key that was read, or an error.                                       *)
Reading(read) == read.error = "" => read.key.curve # NoCurve

LEMMA PublicStrings ==
  ASSUME NEW node, NEW c, NEW forms, c # NoCurve
  PROVE  Reading(PublicFromString(node, c, forms))
  BY DEF Reading, PublicFromString, PublicOf, KeyRead, KeyError, Key

LEMMA PrivateStrings ==
  ASSUME NEW bytes, NEW c, c # NoCurve
  PROVE  Reading(PrivateFromString(bytes, c))
  BY DEF Reading, PrivateFromString, FromSecretExponent, EdKey, KeyRead, KeyError, Key

(* The curve of an EdDSA key is one of the library.                        *)
LEMMA EdCurveIsSet ==
  ASSUME NEW s, IsEdOid(s)
  PROVE  EdCurve(s) # NoCurve
  <1>1. EdCurve(s) \in Library
    BY DEF IsEdOid, EdCurve, EdCurves
  <1> QED BY <1>1, CurveIsSet DEF Curves

(* VerifyingKey.from_der                                                   *)
LEMMA PublicFiles ==
  ASSUME NEW s, NEW forms, NEW valid
  PROVE  Reading(ReadPublic(s, forms, valid))
  <1> DEFINE algorithm == Body(Body(s))
             point == Rest(Body(s))
             params == ReadCurve(Rest(algorithm), valid)
             accepted == IF forms = {} THEN {"uncompressed", "compressed", "hybrid"} ELSE forms
             read == ReadPublic(s, forms, valid)
  <1>1. \/ read.error # ""
        \/ IsEdOid(algorithm) /\ read = PublicFromString(point[1], EdCurve(algorithm), {})
        \/ params.error = "" /\ read = PublicFromString(point[1], params.curve, accepted)
    BY DEF ReadPublic, KeyError
  <1>2. params.error = "" => params.curve # NoCurve
    BY CurveReads
  <1> HIDE DEF params, read, accepted
  <1> QED BY <1>1, <1>2, EdCurveIsSet, PublicStrings DEF Reading, read

(* ECPrivateKey                                                            *)
LEMMA ECPrivateKeys ==
  ASSUME NEW s, NEW outer, NEW valid
  PROVE  Reading(ReadECPrivateKey(s, outer, valid))
  <1> DEFINE private == Rest(s)
             params == IF outer # NoCurve THEN CurveRead(outer)
                       ELSE ReadCurve(Body(Rest(private)), valid)
             read == ReadECPrivateKey(s, outer, valid)
  <1>1. \/ read.error # ""
        \/ /\ params.error = ""
           /\ read = PrivateFromString(Padded(Bytes(private), params.curve), params.curve)
    BY DEF ReadECPrivateKey, KeyError, Missing
  <1>2. params.error = "" => params.curve # NoCurve
    BY CurveReads DEF CurveRead
  <1> HIDE DEF params, read, private
  <1> QED BY <1>1, <1>2, PrivateStrings DEF Reading, read

(* SigningKey.from_der                                                     *)
LEMMA PrivateFiles ==
  ASSUME NEW s, NEW valid
  PROVE  Reading(ReadPrivate(s, valid))
  <1> DEFINE algorithm == Body(Rest(Body(s)))
             private == Rest(Rest(Body(s)))
             params == ReadCurve(Rest(algorithm), valid)
             read == ReadPrivate(s, valid)
  <1>1. \/ read.error # ""
        \/ read = ReadECPrivateKey(Body(s), NoCurve, valid)
        \/ IsEdOid(algorithm) /\ read = ReadEdPrivateKey(algorithm, private)
        \/ read = ReadECPrivateKey(Body(Body(private)), params.curve, valid)
    BY DEF ReadPrivate, KeyError, Missing
  <1>2. \/ ReadEdPrivateKey(algorithm, private).error # ""
        \/ ReadEdPrivateKey(algorithm, private)
             = PrivateFromString(Bytes(Body(private)), EdCurve(algorithm))
    BY DEF ReadEdPrivateKey, KeyError, Missing
  <1> HIDE DEF algorithm, private, params, read
  <1> QED BY <1>1, <1>2, EdCurveIsSet, ECPrivateKeys, PrivateStrings DEF Reading, read

----------------------------------------------------------------------------
(* SigningKey.generate makes keys on the curve it is asked for.            *)
LEMMA GeneratedOnCurve ==
  ASSUME NEW c, c # NoCurve, NEW k \in Generated(c)
  PROVE  k.curve # NoCurve
  <1>1. CASE Edwards(c)
    BY <1>1 DEF Generated, EdKey, KeyRead, Key
  <1>2. CASE ~ Edwards(c)
    BY <1>2 DEF Generated, FromSecretExponent, KeyRead, KeyError, Key
  <1> QED BY <1>1, <1>2

(* The keys other programs have are on some curve.                         *)
LEMMA OtherKeysOnCurve ==
  ASSUME NEW k \in OtherKeys
  PROVE  k.curve # NoCurve
  <1>1. PICK num \in PartyNumbers, c \in Curves :
          \E made \in Made(num, c) : k = made.key /\ k # NoKey
    BY DEF OtherKeys
  <1> PICK made \in Made(num, c) : k = made.key /\ k # NoKey
    BY <1>1
  <1>2. c # NoCurve
    BY CurveIsSet
  <1>3. CASE made = FromSecretExponent(num, c)
    BY <1>1, <1>2, <1>3 DEF FromSecretExponent, KeyRead, KeyError, Key
  <1>4. CASE made = PrivateFromString([num |-> num, len |-> BaseLen(c)], c)
    BY <1>1, <1>2, <1>4 DEF PrivateFromString, FromSecretExponent, EdKey, KeyRead, KeyError, Key
  <1> QED BY <1>1, <1>3, <1>4 DEF Made

(* What can be loaded is a key or an error.                                *)
LEMMA PrivateLoads ==
  ASSUME NEW read \in PrivateReads
  PROVE  Reading(read)
  <1>1. ASSUME NEW k \in OtherKeys
        PROVE  Reading(KeyRead(k))
    BY OtherKeysOnCurve DEF Reading, KeyRead
  <1> QED BY <1>1, PrivateFiles DEF PrivateReads

LEMMA PublicLoads ==
  ASSUME NEW read \in PublicReads
  PROVE  Reading(read)
  <1>1. ASSUME NEW k \in OtherKeys
        PROVE  Reading(KeyRead(VerifyingKey(k)))
    BY OtherKeysOnCurve DEF Reading, KeyRead, VerifyingKey, Key
  <1> QED BY <1>1, PublicFiles DEF PublicReads

(* load_private_key and load_received_public_key keep the keys on the      *)
(* curve: if the session had none, it has no other key either.             *)
LEMMA PrivateKeyStep ==
  ASSUME KeysOnCurve, NEW read, Reading(read), LoadPrivateKey(read)
  PROVE  KeysOnCurve'
  <1>1. CASE UNCHANGED <<curve, private_key, public_key, switched>>
    BY <1>1 DEF KeysOnCurve, Unset
  <1>2. CASE /\ Fits(read.key.curve) /\ read.key.curve # NoCurve
             /\ curve' = (IF Unset THEN read.key.curve ELSE curve)
             /\ private_key' = read.key /\ UNCHANGED <<public_key, switched>>
    BY <1>2 DEF KeysOnCurve, Fits, Unset, Same
  <1> QED BY <1>1, <1>2 DEF LoadPrivateKey, Raises, Reading

LEMMA PublicKeyStep ==
  ASSUME KeysOnCurve, NEW read, Reading(read), LoadPublicKey(read)
  PROVE  KeysOnCurve'
  <1>1. CASE UNCHANGED <<curve, private_key, public_key, switched>>
    BY <1>1 DEF KeysOnCurve, Unset
  <1>2. CASE /\ Fits(read.key.curve) /\ read.key.curve # NoCurve
             /\ curve' = (IF Unset THEN read.key.curve ELSE curve)
             /\ public_key' = read.key /\ UNCHANGED <<private_key, switched>>
    BY <1>2 DEF KeysOnCurve, Fits, Unset, Same
  <1> QED BY <1>1, <1>2 DEF LoadPublicKey, Raises, Reading

(* The keys of a session are on its curve, in whatever order its methods   *)
(* are called and whatever was loaded, unless set_curve() was called with  *)
(* a key loaded.                                                           *)
THEOREM KeysStayOnCurve == Spec => []KeysOnCurve
  <1>1. Init => KeysOnCurve
    BY DEF Init, EcdhInit, KeysOnCurve
  <1>2. KeysOnCurve /\ [Next]_vars => KeysOnCurve'
    <2> SUFFICES ASSUME KeysOnCurve, [Next]_vars
                 PROVE  KeysOnCurve'
      OBVIOUS
    <2>1. CASE Transfer \/ UNCHANGED vars
      BY <2>1 DEF Transfer, vars, session, KeysOnCurve, Unset
    <2>2. CASE Set
      BY <2>2, CurveIsSet DEF Set, SetCurve, KeysOnCurve, Unset
    <2>3. CASE Generate
      <3>1. CASE Unset
        BY <2>3, <3>1 DEF Generate, GeneratePrivateKey, Raises, KeysOnCurve, Unset
      <3>2. CASE ~ Unset
        <4>1. PICK k \in Generated(curve) : LoadPrivateKey(KeyRead(k))
          BY <2>3, <3>2 DEF Generate, GeneratePrivateKey
        <4>2. Reading(KeyRead(k))
          BY <3>2, GeneratedOnCurve DEF Unset, Reading, KeyRead
        <4> QED BY <4>1, <4>2, PrivateKeyStep
      <3> QED BY <3>1, <3>2
    <2>4. CASE LoadPrivate
      BY <2>4, PrivateLoads, PrivateKeyStep DEF LoadPrivate
    <2>5. CASE LoadPublic
      BY <2>5, PublicLoads, PublicKeyStep DEF LoadPublic
    <2>6. CASE LoadPrivateString
      <3>1. CASE Unset
        BY <2>6, <3>1 DEF LoadPrivateString, LoadPrivateBytes, Raises, KeysOnCurve, Unset
      <3>2. CASE ~ Unset
        BY <2>6, <3>2, PrivateStrings, PrivateKeyStep
           DEF LoadPrivateString, LoadPrivateBytes, Unset
      <3> QED BY <3>1, <3>2
    <2>7. CASE LoadPublicString
      <3>1. CASE Unset
        BY <2>7, <3>1 DEF LoadPublicString, LoadPublicBytes, Raises, KeysOnCurve, Unset
      <3>2. CASE ~ Unset
        BY <2>7, <3>2, PublicStrings, PublicKeyStep
           DEF LoadPublicString, LoadPublicBytes, Unset
      <3> QED BY <3>1, <3>2
    <2>8. CASE Agree
      BY <2>8 DEF Agree, GenerateSharedsecret, KeysOnCurve, Unset
    <2> QED BY <2>1, <2>2, <2>3, <2>4, <2>5, <2>6, <2>7, <2>8 DEF Next
  <1> QED BY <1>1, <1>2, PTL DEF Spec

----------------------------------------------------------------------------
(* The shared secret.                                                      *)

(* A signing key for ECDSA is a multiple of the generator of its curve.    *)
SecretFits(k) ==
    k = NoKey \/ Edwards(k.curve) \/
    (k.secret \in Int /\ k.point = (k.secret * k.curve.base) % Size(k.curve))

ReadingFits(read) == read.error = "" => SecretFits(read.key)

LEMMA KeyReadIs ==
  ASSUME NEW k
  PROVE  KeyRead(k).key = k /\ KeyRead(k).error = ""
  BY DEF KeyRead

LEMMA KeyIs ==
  ASSUME NEW kind, NEW c, NEW secret, NEW point
  PROVE  LET k == Key(kind, c, secret, point)
         IN k.kind = kind /\ k.curve = c /\ k.secret = secret /\ k.point = point
  BY DEF Key

LEMMA ExponentFits ==
  ASSUME NEW secexp, NEW c
  PROVE  ReadingFits(FromSecretExponent(secexp, c)) /\ SecretFits(FromSecretExponent(secexp, c).key)
  <1> DEFINE read == FromSecretExponent(secexp, c)
  <1>1. CASE read.error # ""
    <2>1. read.key = NoKey
      BY <1>1 DEF FromSecretExponent, KeyRead, KeyError
    <2> QED BY <1>1, <2>1 DEF ReadingFits, SecretFits
  <1>2. CASE read.error = ""
    <2>1. /\ secexp \in 1 .. c.order - 1
          /\ read = KeyRead(Key("private", c, secexp, (secexp * c.base) % Size(c)))
      BY <1>2 DEF FromSecretExponent, KeyError
    <2>2. secexp \in Int
      BY <2>1
    <2>3. read.key = Key("private", c, secexp, (secexp * c.base) % Size(c))
      BY <2>1, KeyReadIs, Zenon
    <2>4. SecretFits(read.key)
      <3> DEFINE point == (secexp * c.base) % Size(c)  k == Key("private", c, secexp, point)
      <3>1. k.curve = c /\ k.secret = secexp /\ k.point = point
        BY KeyIs
      <3> HIDE DEF k
      <3>2. k.point = (k.secret * k.curve.base) % Size(k.curve)
        BY <3>1, Zenon
      <3>3. read.key = k
        BY <2>3 DEF k
      <3> QED BY <2>2, <3>1, <3>2, <3>3, Zenon DEF SecretFits
    <2> QED BY <2>4 DEF ReadingFits
  <1> QED BY <1>1, <1>2

LEMMA StringFits ==
  ASSUME NEW bytes, NEW c
  PROVE  /\ ReadingFits(PrivateFromString(bytes, c))
         /\ SecretFits(PrivateFromString(bytes, c).key)
  <1>1. CASE PrivateFromString(bytes, c) = KeyError("MalformedPointError")
    BY <1>1 DEF ReadingFits, KeyError, SecretFits
  <1>2. CASE PrivateFromString(bytes, c) = FromSecretExponent(bytes.num, c)
    BY <1>2, ExponentFits
  <1>3. CASE Edwards(c) /\ PrivateFromString(bytes, c) = EdKey(bytes.num, c)
    <2>1. PrivateFromString(bytes, c).key.curve = c
      <3> DEFINE point == ((1 + (bytes.num % (c.order - 1))) * c.base) % Size(c)
                 k == Key("private", c, bytes.num, point)
      <3>1. PrivateFromString(bytes, c) = KeyRead(k)
        BY <1>3, Zenon DEF EdKey
      <3>2. k.curve = c
        BY KeyIs
      <3> HIDE DEF k
      <3> QED BY <3>1, <3>2, KeyReadIs
    <2> QED BY <1>3, <2>1 DEF ReadingFits, SecretFits
  <1> QED BY <1>1, <1>2, <1>3 DEF PrivateFromString

(* What is read from a file is what is made of some string, or an error.   *)
LEMMA FileFits ==
  ASSUME NEW s, NEW valid
  PROVE  ReadingFits(ReadPrivate(s, valid))
  <1>1. ASSUME NEW e PROVE ReadingFits(KeyError(e))
    BY DEF ReadingFits, KeyError, SecretFits
  <1>2. ASSUME NEW t, NEW outer PROVE ReadingFits(ReadECPrivateKey(t, outer, valid))
    <2> DEFINE params == IF outer # NoCurve THEN CurveRead(outer)
                         ELSE ReadCurve(Body(Rest(Rest(t))), valid)
    <2>1. \/ \E e : ReadECPrivateKey(t, outer, valid) = KeyError(e)
          \/ ReadECPrivateKey(t, outer, valid)
               = PrivateFromString(Padded(Bytes(Rest(t)), params.curve), params.curve)
      BY DEF ReadECPrivateKey
    <2> HIDE DEF params
    <2> QED BY <1>1, <2>1, StringFits
  <1>3. ASSUME NEW a, NEW p PROVE ReadingFits(ReadEdPrivateKey(a, p))
    <2>1. \/ \E e : ReadEdPrivateKey(a, p) = KeyError(e)
          \/ ReadEdPrivateKey(a, p) = PrivateFromString(Bytes(Body(p)), EdCurve(a))
      BY DEF ReadEdPrivateKey
    <2> QED BY <1>1, <2>1, StringFits
  <1>4. \/ \E e : ReadPrivate(s, valid) = KeyError(e)
        \/ \E t, outer : ReadPrivate(s, valid) = ReadECPrivateKey(t, outer, valid)
        \/ \E a, p : ReadPrivate(s, valid) = ReadEdPrivateKey(a, p)
    BY DEF ReadPrivate
  <1> QED BY <1>1, <1>2, <1>3, <1>4

LEMMA LoadsFit ==
  ASSUME NEW read \in PrivateReads
  PROVE  ReadingFits(read)
  <1>1. ASSUME NEW k \in OtherKeys PROVE ReadingFits(KeyRead(k))
    <2>1. PICK num \in PartyNumbers, c \in Curves : \E made \in Made(num, c) : k = made.key
      BY DEF OtherKeys
    <2>2. PICK made \in Made(num, c) : k = made.key
      BY <2>1
    <2>3. \/ made = FromSecretExponent(num, c)
          \/ made = PrivateFromString([num |-> num, len |-> BaseLen(c)], c)
      BY DEF Made
    <2>4. SecretFits(k)
      BY <2>2, <2>3, ExponentFits, StringFits
    <2>5. KeyRead(k).key = k
      BY DEF KeyRead
    <2> QED BY <2>4, <2>5 DEF ReadingFits
  <1> QED BY <1>1, FileFits DEF PrivateReads

LEMMA GeneratedFits ==
  ASSUME NEW c, NEW k \in Generated(c)
  PROVE  ReadingFits(KeyRead(k))
  <1>1. KeyRead(k).key = k
    BY DEF KeyRead
  <1>2. CASE Edwards(c)
    <2>1. k.curve = c
      BY <1>2 DEF Generated, EdKey, KeyRead, Key
    <2> QED BY <1>1, <1>2, <2>1 DEF ReadingFits, SecretFits
  <1>3. CASE ~ Edwards(c)
    <2>1. PICK n \in 1 .. c.order - 1 : k = FromSecretExponent(n, c).key
      BY <1>3 DEF Generated
    <2> QED BY <1>1, <2>1, ExponentFits DEF ReadingFits
  <1> QED BY <1>2, <1>3

(* The signing key is a multiple of the generator, and a secret that was   *)
(* made is the one the keys of the session make.                           *)
SessionInv ==
    /\ SecretFits(private_key)
    /\ outcome.error = "" => outcome = Agreed(curve, private_key, public_key)

LEMMA LoadPrivateStep ==
  ASSUME SessionInv, NEW read, ReadingFits(read), LoadPrivateKey(read)
  PROVE  SessionInv'
  <1>1. outcome'.error # ""
    <2>1. /\ \A e : Raised(e).error = e
          /\ Done.error # "" /\ Raised("InvalidCurveError").error # ""
      BY DEF Raised, Done
    <2>2. \/ read.error # "" /\ outcome' = Raised(read.error)
          \/ outcome' = Raised("InvalidCurveError")
          \/ outcome' = Done
      BY DEF LoadPrivateKey, Raises
    <2> QED BY <2>1, <2>2
  <1>2. private_key' = private_key \/ (read.error = "" /\ private_key' = read.key)
    BY DEF LoadPrivateKey, Raises
  <1>3. SecretFits(private_key')
    BY <1>2 DEF SessionInv, ReadingFits
  <1>4. SecretFits(private_key)'
    BY <1>3 DEF SecretFits, NoKey
  <1> QED BY <1>1, <1>4 DEF SessionInv

(* A multiple of a generator of odd order that is its own opposite is 0.   *)
LEMMA OddOrder ==
  ASSUME NEW size \in Nat \ {0}, NEW b \in Nat, NEW n \in Nat, n % 2 = 1, (n * b) % size = 0,
         NEW m \in Int, (2 * (m * b)) % size = 0
  PROVE  (m * b) % size = 0
  <1> DEFINE x == m * b  y == n * b  j == n \div 2
  <1>1. j \in Int /\ n = 2 * j + 1
    BY DivMod, n \in Int, 2 \in Nat \ {0}
  <1> HIDE DEF j
  <1>2. x \in Int /\ y \in Int /\ 2 * x \in Int /\ - j \in Int
    BY <1>1
  <1>3. x = m * y + (- j) * (2 * x)
    <2>1. m * (n * b) = m * ((2 * j + 1) * b)
      BY <1>1
    <2>2. m * ((2 * j + 1) * b) = j * (2 * (m * b)) + m * b
      BY <1>1
    <2>3. (- j) * (2 * x) = - (j * (2 * x)) /\ j * (2 * x) \in Int
      BY <1>1, <1>2
    <2> QED BY <2>1, <2>2, <2>3, <1>2
  <1>4. SameMod(size, y, 0) /\ SameMod(size, 2 * x, 0)
    <2>1. 0 % size = 0
      BY RemainderOfSmall
    <2> QED BY <1>2, <2>1 DEF SameMod
  <1> HIDE DEF x, y
  <1>5. SameMod(size, m * y, m * 0) /\ SameMod(size, (- j) * (2 * x), (- j) * 0)
    <2>1. SameMod(size, m, m) /\ SameMod(size, - j, - j)
      BY <1>2, SameModIs
    <2> HIDE DEF SameMod
    <2> QED BY <1>4, <2>1, SameModProduct, Zenon
  <1>6. SameMod(size, m * y + (- j) * (2 * x), m * 0 + (- j) * 0)
    BY <1>5, SameModSum, Zenon
  <1>7. m * 0 + (- j) * 0 = 0
    BY <1>2
  <1>8. SameMod(size, x, 0)
    BY <1>3, <1>6, <1>7
  <1>9. 0 % size = 0
    BY RemainderOfSmall
  <1> QED BY <1>8, <1>9 DEF SameMod, x

(* The secret exponent of one key and the point of the other make the same *)
(* point as the other way around, and both parties see INFINITY together.  *)
LEMMA TimesAgree ==
  ASSUME NEW c, OddGenerator(c), NEW d \in Int, NEW k \in Int,
         Times(c, (k * c.base) % Size(c), d) # 0
  PROVE  Times(c, (d * c.base) % Size(c), k) = Times(c, (k * c.base) % Size(c), d)
  <1> DEFINE size == Size(c)  b == c.base  q == k * b  p == d * b
  <1>1. size \in Nat \ {0} /\ b \in Nat
    BY DEF OddGenerator
  <1>2. PICK n \in 1 .. size : n % 2 = 1 /\ (n * b) % size = 0
    BY DEF OddGenerator
  <1>3. Times(c, q % size, d) = (d * (q % size)) % size
    BY DEF Times
  <1> HIDE DEF size, b
  <1>4. p \in Int /\ q \in Int /\ p % size \in Int /\ q % size \in Int
    BY <1>1, DivMod
  <1>5. d * q = k * p
    BY <1>1
  <1> HIDE DEF p, q
  <1>6. /\ (d * (q % size)) % size = (d * q) % size
        /\ (k * (p % size)) % size = (k * p) % size
        /\ (2 * (p % size)) % size = (2 * p) % size
    <2>1. ASSUME NEW x \in Int, NEW y \in Int PROVE (x * (y % size)) % size = (x * y) % size
      <3>1. ((y % size) * x) % size = (y * x) % size
        BY <1>1, ReduceFactor
      <3>2. y % size \in Int
        BY <1>1, DivMod
      <3>3. (y % size) * x = x * (y % size) /\ y * x = x * y
        <4> DEFINE z == y % size
        <4>1. z \in Int
          BY <3>2
        <4> HIDE DEF z
        <4>2. z * x = x * z /\ y * x = x * y
          BY <4>1
        <4> QED BY <4>2 DEF z
      <3> QED BY <3>1, <3>3
    <2> QED BY <1>4, <2>1, 2 \in Int
  <1>7. (2 * (p % size)) % size # 0
    <2> SUFFICES ASSUME (2 * p) % size = 0 PROVE FALSE
      BY <1>6
    <2>1. p % size = 0
      BY <1>1, <1>2, OddOrder, n \in Nat DEF p
    <2>2. (k * p) % size = 0
      <3>1. (p * k) % size = ((p % size) * k) % size
        BY <1>1, <1>4, ReduceFactor
      <3>2. p * k = k * p /\ 0 * k = 0 /\ 0 % size = 0
        BY <1>1, <1>4, RemainderOfSmall
      <3> QED BY <2>1, <3>1, <3>2
    <2> QED BY <1>3, <1>5, <1>6, <2>2 DEF q, size, b
  <1>8. Times(c, p % size, k) = (k * (p % size)) % size
    BY <1>7 DEF Times, size
  <1> QED BY <1>3, <1>5, <1>6, <1>8 DEF p, q, size, b

(* The keys SigningKey.generate makes, but for EdDSA.                      *)
LEMMA GeneratedIs ==
  ASSUME NEW c, ~ Edwards(c), NEW k \in Generated(c)
  PROVE  /\ k # NoKey /\ k.curve = c /\ k.secret \in Int
         /\ k.point = (k.secret * c.base) % Size(c)
  <1>1. PICK n \in 1 .. c.order - 1 : k = FromSecretExponent(n, c).key
    BY DEF Generated
  <1> DEFINE point == (n * c.base) % Size(c)
  <1>2. k = Key("private", c, n, point)
    BY <1>1, KeyReadIs, Zenon DEF FromSecretExponent
  <1>3. n \in Int
    BY <1>1
  <1> HIDE DEF point
  <1>4. k.kind = "private" /\ k.curve = c /\ k.secret = n /\ k.point = point
    BY <1>2, KeyIs
  <1>5. NoKey.kind = "none"
    BY KeyIs DEF NoKey
  <1> QED BY <1>3, <1>4, <1>5 DEF point

(* What is known when a secret was made.                                   *)
LEMMA AgreedIs ==
  ASSUME NEW c, NEW mine, NEW theirs, Agreed(c, mine, theirs).error = ""
  PROVE  LET product == Times(theirs.curve, theirs.point, mine.secret)
         IN /\ mine # NoKey /\ theirs # NoKey /\ Same(mine.curve, c) /\ Same(c, theirs.curve)
            /\ ~ Edwards(mine.curve) /\ product # 0
            /\ Agreed(c, mine, theirs) = Secret(XOf(theirs.curve, product))
  <1> DEFINE product == Times(theirs.curve, theirs.point, mine.secret)
  <1>1. /\ Raised("NoKeyError").error # "" /\ Raised("InvalidCurveError").error # ""
        /\ Raised("AttributeError").error # ""
        /\ Raised("InvalidSharedSecretError").error # ""
    BY DEF Raised
  <1>2. Agreed(c, mine, theirs) =
          IF mine = NoKey \/ theirs = NoKey THEN Raised("NoKeyError")
          ELSE IF ~ Same(mine.curve, c) \/ ~ Same(c, theirs.curve)
          THEN Raised("InvalidCurveError")
          ELSE IF Edwards(mine.curve) THEN Raised("AttributeError")
          ELSE IF product = 0 THEN Raised("InvalidSharedSecretError")
          ELSE Secret(XOf(theirs.curve, product))
    BY DEF Agreed
  <1> HIDE DEF product
  <1> QED BY <1>1, <1>2, Zenon DEF product

LEMMA BothAgree ==
  ASSUME NEW c, OddGenerator(c), NEW mine, SecretFits(mine), NEW key_received,
         Agreed(c, mine, key_received).error = "",
         NEW theirs \in Generated(key_received.curve), theirs.point = key_received.point
  PROVE  Agreed(c, theirs, VerifyingKey(mine)) = Agreed(c, mine, key_received)
  <1> DEFINE other == key_received.curve
             product == Times(other, key_received.point, mine.secret)
  <1>1. /\ mine # NoKey /\ key_received # NoKey /\ Same(mine.curve, c) /\ Same(c, other)
        /\ ~ Edwards(mine.curve) /\ product # 0
        /\ Agreed(c, mine, key_received) = Secret(XOf(other, product))
    BY AgreedIs, Zenon
  <1>2. /\ mine.curve.fp = c.fp /\ other.fp = c.fp
        /\ mine.curve.base = c.base /\ other.base = c.base
    BY <1>1 DEF Same
  <1>3. ~ Edwards(other) /\ Size(other) = Size(c) /\ Size(mine.curve) = Size(c)
    BY <1>1, <1>2 DEF Edwards, Size
  <1>4. /\ theirs # NoKey /\ theirs.curve = other /\ theirs.secret \in Int
        /\ theirs.point = (theirs.secret * c.base) % Size(c)
    BY <1>2, <1>3, GeneratedIs
  <1>5. mine.secret \in Int /\ mine.point = (mine.secret * c.base) % Size(c)
    BY <1>1, <1>2, <1>3 DEF SecretFits
  <1>6. /\ \A q, k : Times(other, q, k) = Times(c, q, k) /\ Times(mine.curve, q, k) = Times(c, q, k)
        /\ \A q : XOf(other, q) = XOf(c, q) /\ XOf(mine.curve, q) = XOf(c, q)
    BY <1>3 DEF Times, XOf
  <1>7. /\ VerifyingKey(mine) # NoKey /\ VerifyingKey(mine).curve = mine.curve
        /\ VerifyingKey(mine).point = mine.point
    <2>1. VerifyingKey(mine).kind = "public" /\ NoKey.kind = "none"
      BY DEF VerifyingKey, NoKey, Key
    <2>2. VerifyingKey(mine).curve = mine.curve /\ VerifyingKey(mine).point = mine.point
      BY DEF VerifyingKey, Key
    <2> QED BY <2>1, <2>2
  <1>8. Times(c, mine.point, theirs.secret) = product
    <2>1. product = Times(c, (theirs.secret * c.base) % Size(c), mine.secret)
      BY <1>4, <1>6
    <2> QED BY <1>1, <1>4, <1>5, <2>1, TimesAgree
  <1> HIDE DEF product
  <1>9. Agreed(c, theirs, VerifyingKey(mine)) = Secret(XOf(c, product))
    <2>1. /\ Same(theirs.curve, c) /\ Same(c, VerifyingKey(mine).curve) /\ ~ Edwards(theirs.curve)
      BY <1>1, <1>3, <1>4, <1>7 DEF Same
    <2> DEFINE them == VerifyingKey(mine)
    <2>2. /\ Times(them.curve, them.point, theirs.secret) = product
          /\ XOf(them.curve, product) = XOf(c, product)
      BY <1>6, <1>7, <1>8
    <2>3. them # NoKey
      BY <1>7
    <2> HIDE DEF them
    <2> QED BY <1>1, <1>4, <2>1, <2>2, <2>3 DEF Agreed, them
  <1> QED BY <1>1, <1>6, <1>9

LEMMA SessionStep ==
  ASSUME SessionInv, [Next]_vars
  PROVE  SessionInv'
  <1>1. ASSUME UNCHANGED session PROVE SessionInv'
    BY <1>1 DEF SessionInv, session, SecretFits, NoKey, Agreed
  <1>2. ASSUME UNCHANGED private_key, outcome'.error # "" PROVE SessionInv'
    BY <1>2 DEF SessionInv, SecretFits, NoKey
  <1>3. Done.error # "" /\ \A e : Raised(e).error = e
    BY DEF Done, Raised
  <1>4. CASE Transfer \/ UNCHANGED vars
    BY <1>1, <1>4 DEF Transfer, vars, session
  <1>5. CASE Set
    BY <1>2, <1>3, <1>5 DEF Set, SetCurve
  <1>6. CASE Generate
    <2>1. CASE Unset
      BY <1>2, <1>3, <1>6, <2>1 DEF Generate, GeneratePrivateKey, Raises
    <2>2. CASE ~ Unset
      <3>1. PICK k \in Generated(curve) : LoadPrivateKey(KeyRead(k))
        BY <1>6, <2>2 DEF Generate, GeneratePrivateKey
      <3> QED BY <3>1, GeneratedFits, LoadPrivateStep
    <2> QED BY <2>1, <2>2
  <1>7. CASE LoadPrivate
    BY <1>7, LoadsFit, LoadPrivateStep DEF LoadPrivate
  <1>8. ASSUME NEW read, LoadPublicKey(read) PROVE SessionInv'
    <2>1. UNCHANGED private_key /\ outcome'.error # ""
      <3>1. Raised("InvalidCurveError").error # ""
        BY <1>3
      <3> QED BY <1>3, <1>8, <3>1 DEF LoadPublicKey, Raises
    <2> QED BY <1>2, <2>1
  <1>9. CASE LoadPublic
    BY <1>8, <1>9 DEF LoadPublic
  <1>10. CASE LoadPrivateString
    <2>1. CASE Unset
      BY <1>2, <1>3, <1>10, <2>1 DEF LoadPrivateString, LoadPrivateBytes, Raises
    <2>2. CASE ~ Unset
      BY <1>10, <2>2, StringFits, LoadPrivateStep DEF LoadPrivateString, LoadPrivateBytes
    <2> QED BY <2>1, <2>2
  <1>11. CASE LoadPublicString
    <2>1. CASE Unset
      BY <1>2, <1>3, <1>11, <2>1 DEF LoadPublicString, LoadPublicBytes, Raises
    <2>2. CASE ~ Unset
      BY <1>8, <1>11, <2>2 DEF LoadPublicString, LoadPublicBytes
    <2> QED BY <2>1, <2>2
  <1>12. CASE Agree
    <2>1. /\ outcome' = Agreed(curve, private_key, public_key)
          /\ UNCHANGED <<curve, private_key, public_key>>
      BY <1>12 DEF Agree, GenerateSharedsecret
    <2> QED BY <2>1 DEF SessionInv, SecretFits, NoKey, Agreed
  <1> QED BY <1>4, <1>5, <1>6, <1>7, <1>9, <1>10, <1>11, <1>12 DEF Next

(* The secret generate_sharedsecret() makes is made of keys on the curve of*)
(* the session, and the owner of the key that was received makes the same  *)
(* one from the key of the session, if the generator has an odd order: with*)
(* an even one, __mul__ may take a point of order two for INFINITY on one  *)
(* side and not on the other.                                              *)
THEOREM PartiesAgree == Spec => [](OddGenerator(curve) => SecretShared)
  <1>1. Init => SessionInv
    <2>1. Done.error # ""
      BY DEF Done, Raised
    <2> QED BY <2>1 DEF Init, EcdhInit, SessionInv, SecretFits
  <1>2. SessionInv => (OddGenerator(curve) => SecretShared)
    <2> SUFFICES ASSUME SessionInv, OddGenerator(curve), outcome.error = ""
                 PROVE  SecretShared
      BY DEF SecretShared
    <2>1. SecretFits(private_key) /\ outcome = Agreed(curve, private_key, public_key)
      BY DEF SessionInv
    <2>2. Same(private_key.curve, curve) /\ Same(public_key.curve, curve)
      <3>1. Agreed(curve, private_key, public_key).error = ""
        BY <2>1
      <3>2. Same(private_key.curve, curve) /\ Same(curve, public_key.curve)
        BY <3>1, AgreedIs, Zenon
      <3> QED BY <3>2 DEF Same
    <2>3. ASSUME NEW theirs \in Generated(public_key.curve), theirs.point = public_key.point
          PROVE  Agreed(curve, theirs, VerifyingKey(private_key)) = outcome
      BY <2>1, <2>3, BothAgree
    <2> QED BY <2>2, <2>3 DEF SecretShared
  <1> QED BY <1>1, <1>2, SessionStep, PTL DEF Spec

----------------------------------------------------------------------------
(* DER strings: elements one after another.  An element that is read out   *)
(* of others is as deep as it was in them.                                 *)
Words ==
    {"", "seq", "oct", "oid", "int", "bit", "c0", "c1", "ecPublicKey", "prime-field", "edwards"}
      \cup AllForms

Values ==
    Words \cup Int \cup Fields \cup {c.oid : c \in Curves} \cup {BaseLen(c) : c \in Curves}

Nodes ==
    [depth : Nat, tag : Values, name : Values, form : Values, num : Values, len : Values]

Lift(s, n) == [i \in 1 .. Len(s) |-> [s[i] EXCEPT !.depth = @ + n]]

Strings == {s \in Seq(Nodes) : s # <<>> => s[1].depth = 0}

Elements ==
    {s \in Seq(Nodes) : s # <<>> /\ s[1].depth = 0 /\ \A i \in 2 .. Len(s) : s[i].depth > 0}

(* The node n levels deeper.                                               *)
Deeper(r, n) == [r EXCEPT !.depth = @ + n]

LEMMA ValuesAre ==
  /\ \A x \in Int : x \in Values
  /\ \A fp \in Fields : fp \in Values
  /\ \A c \in Curves : c.oid \in Values /\ BaseLen(c) \in Values
  /\ "" \in Values /\ "seq" \in Values /\ "oct" \in Values /\ "oid" \in Values
  /\ "int" \in Values /\ "bit" \in Values /\ "c0" \in Values /\ "c1" \in Values
  /\ "ecPublicKey" \in Values /\ "prime-field" \in Values /\ "edwards" \in Values
  /\ "compressed" \in Values /\ "uncompressed" \in Values /\ "hybrid" \in Values
  <1>1. Words \subseteq Values
    BY DEF Values
  <1>2. /\ "" \in Words /\ "seq" \in Words /\ "oct" \in Words /\ "oid" \in Words
        /\ "int" \in Words /\ "bit" \in Words /\ "c0" \in Words /\ "c1" \in Words
        /\ "ecPublicKey" \in Words /\ "prime-field" \in Words /\ "edwards" \in Words
        /\ "compressed" \in Words /\ "uncompressed" \in Words /\ "hybrid" \in Words
    BY Zenon DEF Words, AllForms
  <1>3. /\ \A x \in Int : x \in Values
        /\ \A fp \in Fields : fp \in Values
        /\ \A c \in Curves : c.oid \in Values /\ BaseLen(c) \in Values
    BY Zenon DEF Values
  <1> QED BY <1>1, <1>2, <1>3

LEMMA NodeIs ==
  ASSUME NEW r \in Nodes
  PROVE  /\ r.depth \in Nat /\ r.tag \in Values /\ r.name \in Values /\ r.form \in Values
         /\ r.num \in Values /\ r.len \in Values
         /\ r = [depth |-> r.depth, tag |-> r.tag, name |-> r.name, form |-> r.form,
                 num |-> r.num, len |-> r.len]
  BY DEF Nodes

(* The same but for the depth.                                             *)
Alike(q, r) ==
    q.tag = r.tag /\ q.name = r.name /\ q.form = r.form /\ q.num = r.num /\ q.len = r.len

LEMMA DeeperIs ==
  ASSUME NEW r \in Nodes, NEW n \in Nat
  PROVE  Deeper(r, n) \in Nodes /\ Deeper(r, n).depth = r.depth + n /\ Alike(Deeper(r, n), r)
  <1>1. Deeper(r, n) = [depth |-> r.depth + n, tag |-> r.tag, name |-> r.name, form |-> r.form,
                        num |-> r.num, len |-> r.len]
    BY NodeIs DEF Deeper
  <1>2. r.depth + n \in Nat
    BY NodeIs
  <1> QED BY <1>1, <1>2, NodeIs DEF Nodes, Alike

LEMMA SameNode ==
  ASSUME NEW q \in Nodes, NEW r \in Nodes, q.depth = r.depth, Alike(q, r)
  PROVE  q = r
  BY DEF Nodes, Alike

LEMMA DeeperTwice ==
  ASSUME NEW r \in Nodes, NEW m \in Nat, NEW n \in Nat
  PROVE  Deeper(Deeper(r, m), n) = Deeper(r, m + n) /\ Deeper(r, 0) = r
  <1>1. m + n \in Nat /\ 0 \in Nat /\ r.depth \in Nat
    BY DEF Nodes
  <1> DEFINE q == Deeper(r, m)  p == Deeper(q, n)  d == Deeper(r, m + n)  z == Deeper(r, 0)
  <1>3. q \in Nodes /\ q.depth = r.depth + m /\ Alike(q, r)
    BY <1>1, DeeperIs
  <1> HIDE DEF q
  <1>4. /\ p \in Nodes /\ p.depth = q.depth + n /\ Alike(p, q)
        /\ d \in Nodes /\ d.depth = r.depth + (m + n) /\ Alike(d, r)
        /\ z \in Nodes /\ z.depth = r.depth + 0 /\ Alike(z, r)
    BY <1>1, <1>3, DeeperIs, Zenon
  <1> HIDE DEF p, d, z
  <1>5. p.depth = d.depth /\ z.depth = r.depth
    BY <1>1, <1>3, <1>4
  <1>6. Alike(p, d)
    BY <1>3, <1>4 DEF Alike
  <1>7. p = d /\ z = r
    <2> HIDE DEF Alike
    <2> QED BY <1>4, <1>5, <1>6, SameNode, Zenon
  <1> QED BY <1>7 DEF p, d, z, q

LEMMA LiftIs ==
  ASSUME NEW s \in Seq(Nodes), NEW n \in Nat
  PROVE  /\ Lift(s, n) \in Seq(Nodes) /\ Len(Lift(s, n)) = Len(s)
         /\ \A i \in 1 .. Len(s) : Lift(s, n)[i] = Deeper(s[i], n)
  <1>1. \A i \in 1 .. Len(s) : s[i] \in Nodes
    BY ElementOfSeq
  <1>2. Lift(s, n) \in [1 .. Len(s) -> Nodes]
    BY <1>1, DeeperIs DEF Lift, Deeper
  <1>3. Len(s) \in Nat
    BY LenProperties
  <1>4. Lift(s, n) \in Seq(Nodes)
    BY <1>2, <1>3, SeqDef
  <1>5. Len(Lift(s, n)) = Len(s)
    BY <1>2, <1>3, <1>4, LenProperties
  <1> QED BY <1>4, <1>5 DEF Lift, Deeper

LEMMA LiftTwice ==
  ASSUME NEW s \in Seq(Nodes), NEW m \in Nat, NEW n \in Nat
  PROVE  Lift(Lift(s, m), n) = Lift(s, m + n)
  <1>1. m + n \in Nat
    OBVIOUS
  <1>2. /\ Lift(s, m) \in Seq(Nodes) /\ Len(Lift(s, m)) = Len(s)
        /\ Lift(Lift(s, m), n) \in Seq(Nodes) /\ Len(Lift(Lift(s, m), n)) = Len(s)
        /\ Lift(s, m + n) \in Seq(Nodes) /\ Len(Lift(s, m + n)) = Len(s)
    BY <1>1, LiftIs
  <1>3. ASSUME NEW i \in 1 .. Len(s) PROVE Lift(Lift(s, m), n)[i] = Lift(s, m + n)[i]
    <2>1. s[i] \in Nodes
      BY ElementOfSeq
    <2>2. Lift(s, m)[i] = Deeper(s[i], m) /\ Lift(s, m + n)[i] = Deeper(s[i], m + n)
      BY <1>1, LiftIs
    <2>3. Lift(Lift(s, m), n)[i] = Deeper(Lift(s, m)[i], n)
      BY <1>2, LiftIs, Zenon
    <2>4. Deeper(Deeper(s[i], m), n) = Deeper(s[i], m + n)
      BY <2>1, DeeperTwice
    <2> QED BY <2>2, <2>3, <2>4
  <1> QED BY <1>2, <1>3, SeqEqual

LEMMA LiftNone ==
  ASSUME NEW s \in Seq(Nodes)
  PROVE  Lift(s, 0) = s
  <1>1. 0 \in Nat
    OBVIOUS
  <1>2. Lift(s, 0) \in Seq(Nodes) /\ Len(Lift(s, 0)) = Len(s)
    BY <1>1, LiftIs
  <1>3. \A i \in 1 .. Len(s) : Lift(s, 0)[i] = s[i]
    BY <1>1, <1>2, LiftIs, DeeperTwice, ElementOfSeq
  <1> QED BY <1>2, <1>3, SeqEqual

LEMMA LiftEmpty ==
  ASSUME NEW n \in Nat
  PROVE  Lift(<<>>, n) = <<>>
  <1>1. <<>> \in Seq(Nodes)
    BY EmptySeq
  <1>2. Len(Lift(<<>>, n)) = Len(<<>>) /\ Lift(<<>>, n) \in Seq(Nodes)
    BY <1>1, LiftIs
  <1> QED BY <1>1, <1>2, EmptySeq

LEMMA LiftCat ==
  ASSUME NEW s \in Seq(Nodes), NEW t \in Seq(Nodes), NEW n \in Nat
  PROVE  Lift(s \o t, n) = Lift(s, n) \o Lift(t, n)
  <1> DEFINE a == Lift(s \o t, n)  b == Lift(s, n) \o Lift(t, n)
  <1>1. Len(s) \in Nat /\ Len(t) \in Nat
    BY LenProperties
  <1>2. s \o t \in Seq(Nodes) /\ Len(s \o t) = Len(s) + Len(t)
    BY ConcatProperties
  <1>3. a \in Seq(Nodes) /\ Len(a) = Len(s) + Len(t)
    BY <1>2, LiftIs
  <1>4. /\ Lift(s, n) \in Seq(Nodes) /\ Len(Lift(s, n)) = Len(s)
        /\ Lift(t, n) \in Seq(Nodes) /\ Len(Lift(t, n)) = Len(t)
    BY LiftIs
  <1>5. b \in Seq(Nodes) /\ Len(b) = Len(s) + Len(t)
    <2> DEFINE u == Lift(s, n)  v == Lift(t, n)
    <2>1. u \in Seq(Nodes) /\ v \in Seq(Nodes) /\ Len(u) = Len(s) /\ Len(v) = Len(t)
      BY <1>4
    <2> HIDE DEF a, b, u, v
    <2>2. u \o v \in Seq(Nodes) /\ Len(u \o v) = Len(u) + Len(v)
      BY <2>1, ConcatProperties, Zenon
    <2> QED BY <2>1, <2>2 DEF b, u, v
  <1>6. ASSUME NEW i \in 1 .. Len(s) + Len(t) PROVE a[i] = b[i]
    <2>1. a[i] = Deeper((s \o t)[i], n)
      BY <1>2, LiftIs
    <2>2. CASE i <= Len(s)
      <3>1. i \in 1 .. Len(s)
        BY <1>1, <2>2
      <3>2. (s \o t)[i] = s[i]
        BY <2>2, ConcatProperties
      <3>3. b[i] = Lift(s, n)[i]
        BY <1>4, <2>2, ConcatProperties
      <3> QED BY <2>1, <3>1, <3>2, <3>3, LiftIs
    <2>3. CASE i > Len(s)
      <3>1. i - Len(s) \in 1 .. Len(t) /\ ~ (i <= Len(s))
        BY <1>1, <2>3
      <3>2. (s \o t)[i] = t[i - Len(s)]
        BY <3>1, ConcatProperties
      <3>3. b[i] = Lift(t, n)[i - Len(s)]
        BY <1>4, <3>1, ConcatProperties
      <3> QED BY <2>1, <3>1, <3>2, <3>3, LiftIs
    <2>4. i <= Len(s) \/ i > Len(s)
      BY <1>1
    <2> QED BY <2>2, <2>3, <2>4
  <1> QED BY <1>3, <1>5, <1>6, SeqEqual, Zenon

LEMMA Leaf ==
  ASSUME NEW r \in Nodes, r.depth = 0
  PROVE  <<r>> \in Elements
  <1>1. <<r>> \in Seq(Nodes) /\ Len(<<r>>) = 1 /\ <<r>>[1] = r /\ <<r>> # <<>>
    OBVIOUS
  <1>2. \A i \in 2 .. 1 : FALSE
    OBVIOUS
  <1> QED BY <1>1, <1>2 DEF Elements

(* The first of some elements, and what is after it.                       *)
LEMMA Together ==
  ASSUME NEW e \in Elements, NEW t \in Strings
  PROVE  e \o t \in Strings /\ e \in Strings /\ <<>> \in Strings /\ e \o <<>> = e
  <1>1. /\ e \in Seq(Nodes) /\ t \in Seq(Nodes) /\ e # <<>> /\ e[1].depth = 0
    BY DEF Elements, Strings
  <1>2. Len(e) \in Nat \ {0} /\ Len(t) \in Nat
    BY <1>1, EmptySeq, LenProperties
  <1>3. e \o t \in Seq(Nodes) /\ (e \o t)[1] = e[1]
    BY <1>1, <1>2, ConcatProperties
  <1>4. e \o <<>> = e /\ <<>> \in Seq(Nodes)
    BY <1>1, ConcatEmptySeq, EmptySeq
  <1> QED BY <1>1, <1>3, <1>4 DEF Strings

LEMMA LastIs ==
  ASSUME NEW s, Len(s) \in Nat, NEW n \in 1 .. Len(s), \A i \in 1 .. Len(s) : s[i].depth \in Nat,
         \A i \in 2 .. n : s[i].depth > s[1].depth,
         n < Len(s) => s[n + 1].depth <= s[1].depth
  PROVE  Last(s, 1) = n
  <1> DEFINE P(j) == /\ \A k \in 1 + 1 .. j : s[k].depth > s[1].depth
                     /\ j = Len(s) \/ s[j + 1].depth <= s[1].depth
  <1>1. P(n)
    <2>1. 1 + 1 .. n = 2 .. n
      OBVIOUS
    <2>2. n = Len(s) \/ n < Len(s)
      OBVIOUS
    <2> QED BY <2>1, <2>2
  <1>2. ASSUME NEW j \in 1 .. Len(s), P(j) PROVE j = n
    <2>1. CASE j < n
      <3>1. j + 1 \in 2 .. n /\ j + 1 \in 1 .. Len(s) /\ 1 \in 1 .. Len(s) /\ j # Len(s)
        BY <2>1
      <3> QED BY <1>2, <3>1
    <2>2. CASE j > n
      <3>1. n + 1 \in 1 + 1 .. j /\ n + 1 \in 1 .. Len(s) /\ 1 \in 1 .. Len(s) /\ n < Len(s)
        BY <2>2
      <3> QED BY <1>2, <3>1
    <2> QED BY <2>1, <2>2
  <1>3. Last(s, 1) = CHOOSE j \in 1 .. Len(s) : P(j)
    BY DEF Last
  <1> HIDE DEF P
  <1> QED BY <1>1, <1>2, <1>3

LEMMA FirstElement ==
  ASSUME NEW e \in Elements, NEW t \in Strings, NEW n \in Nat
  PROVE  LET s == Lift(e \o t, n)
         IN /\ s # <<>> /\ Alike(s[1], e[1]) /\ Rest(s) = Lift(t, n)
            /\ Body(s) = SubSeq(Lift(e, n), 2, Len(e))
  <1> DEFINE s == Lift(e \o t, n)  u == Lift(e, n)  v == Lift(t, n)
  <1>1. /\ e \in Seq(Nodes) /\ t \in Seq(Nodes) /\ e # <<>> /\ e[1].depth = 0
        /\ \A i \in 2 .. Len(e) : e[i].depth > 0
        /\ t # <<>> => t[1].depth = 0
    BY DEF Elements, Strings
  <1>2. Len(e) \in Nat \ {0} /\ Len(t) \in Nat /\ (t # <<>> => Len(t) \in Nat \ {0})
    BY <1>1, EmptySeq, LenProperties
  <1>3. /\ u \in Seq(Nodes) /\ v \in Seq(Nodes) /\ Len(u) = Len(e) /\ Len(v) = Len(t)
        /\ \A i \in 1 .. Len(e) : u[i] = Deeper(e[i], n)
        /\ \A i \in 1 .. Len(t) : v[i] = Deeper(t[i], n)
    BY <1>1, LiftIs
  <1>4. s = u \o v
    BY <1>1, LiftCat
  <1>5. /\ \A i \in 1 .. Len(e) : e[i] \in Nodes
        /\ \A i \in 1 .. Len(t) : t[i] \in Nodes
    BY <1>1, ElementOfSeq
  <1> HIDE DEF s, u, v
  <1>6. /\ s \in Seq(Nodes) /\ Len(s) = Len(u) + Len(v)
        /\ \A i \in 1 .. Len(u) + Len(v) : s[i] = IF i <= Len(u) THEN u[i] ELSE v[i - Len(u)]
    BY <1>3, <1>4, ConcatProperties
  <1>7. \A i \in 1 .. Len(e) : s[i] = Deeper(e[i], n)
    BY <1>2, <1>3, <1>6
  <1>8. \A i \in 1 .. Len(t) : s[Len(e) + i] = Deeper(t[i], n)
    <2> TAKE i \in 1 .. Len(t)
    <2>1. Len(e) + i \in 1 .. Len(u) + Len(v) /\ ~ (Len(e) + i <= Len(u)) /\ Len(e) + i - Len(u) = i
      BY <1>2, <1>3
    <2> QED BY <2>1, <1>3, <1>6
  <1>9. /\ s[1].depth = n /\ Alike(s[1], e[1])
        /\ \A i \in 2 .. Len(e) : s[i].depth > n
        /\ Len(t) > 0 => s[Len(e) + 1].depth = n
    <2>1. /\ \A i \in 1 .. Len(e) : s[i].depth = e[i].depth + n /\ Alike(s[i], e[i])
          /\ \A i \in 1 .. Len(t) : s[Len(e) + i].depth = t[i].depth + n
      BY <1>5, <1>7, <1>8, DeeperIs
    <2>2. \A i \in 2 .. Len(e) : i \in 1 .. Len(e) /\ e[i].depth \in Nat
      BY <1>5, NodeIs
    <2>3. 1 \in 1 .. Len(e) /\ (Len(t) > 0 => 1 \in 1 .. Len(t) /\ t # <<>>)
      BY <1>2, EmptySeq
    <2>4. s[1].depth = n /\ Alike(s[1], e[1])
      BY <1>1, <2>1, <2>3
    <2>5. \A i \in 2 .. Len(e) : s[i].depth > n
      BY <1>1, <2>1, <2>2
    <2>6. Len(t) > 0 => s[Len(e) + 1].depth = n
      BY <1>1, <2>1, <2>3
    <2> QED BY <2>4, <2>5, <2>6
  <1>10. Last(s, 1) = Len(e)
    <2>1. \A i \in 1 .. Len(s) : s[i].depth \in Nat
      BY <1>6, ElementOfSeq, NodeIs
    <2>2. /\ Len(s) \in Nat /\ Len(e) \in 1 .. Len(s) /\ (Len(e) < Len(s) => Len(t) > 0)
      BY <1>2, <1>3, <1>6
    <2> QED BY <1>9, <2>1, <2>2, LastIs
  <1>11. Rest(s) = v
    <2>1. Rest(s) = SubSeq(s, Len(e) + 1, Len(s))
      BY <1>10 DEF Rest
    <2>2. \A i \in Len(e) + 1 .. Len(s) : s[i] \in Nodes
      BY <1>2, <1>3, <1>6, ElementOfSeq
    <2>3. /\ Rest(s) \in Seq(Nodes) /\ Len(Rest(s)) = Len(t)
          /\ \A i \in 1 .. Len(t) : Rest(s)[i] = s[Len(e) + i]
      <3>1. Len(e) + 1 \in Int /\ Len(s) \in Int /\ Len(s) - (Len(e) + 1) + 1 = Len(t)
        BY <1>2, <1>3, <1>6
      <3> DEFINE r == SubSeq(s, Len(e) + 1, Len(s))
      <3>2. /\ r \in Seq(Nodes)
            /\ Len(r) = (IF Len(e) + 1 <= Len(s) THEN Len(s) - (Len(e) + 1) + 1 ELSE 0)
            /\ \A i \in 1 .. Len(s) - (Len(e) + 1) + 1 : r[i] = s[(Len(e) + 1) + i - 1]
        BY <2>2, <3>1, SubSeqProperties
      <3> HIDE DEF r
      <3>3. Len(r) = Len(t)
        BY <1>2, <3>1, <3>2
      <3>4. \A i \in 1 .. Len(t) : (Len(e) + 1) + i - 1 = Len(e) + i
        BY <1>2
      <3>5. \A i \in 1 .. Len(t) : r[i] = s[Len(e) + i]
        BY <3>1, <3>2, <3>4
      <3> QED BY <2>1, <3>2, <3>3, <3>5 DEF r
    <2> QED BY <1>3, <1>8, <2>3, SeqEqual
  <1>12. Body(s) = SubSeq(u, 2, Len(e))
    <2>1. Body(s) = SubSeq(s, 2, Len(e))
      BY <1>10 DEF Body
    <2>2. \A i \in 2 .. Len(e) : s[i] \in Nodes /\ u[i] \in Nodes /\ s[i] = u[i]
      BY <1>2, <1>3, <1>6, <1>7, ElementOfSeq
    <2>3. 2 \in Int /\ Len(e) \in Int
      BY <1>2
    <2> DEFINE a == SubSeq(s, 2, Len(e))  b == SubSeq(u, 2, Len(e))
    <2>4. /\ a \in Seq(Nodes) /\ Len(a) = (IF 2 <= Len(e) THEN Len(e) - 2 + 1 ELSE 0)
          /\ \A i \in 1 .. Len(e) - 2 + 1 : a[i] = s[2 + i - 1]
          /\ b \in Seq(Nodes) /\ Len(b) = (IF 2 <= Len(e) THEN Len(e) - 2 + 1 ELSE 0)
          /\ \A i \in 1 .. Len(e) - 2 + 1 : b[i] = u[2 + i - 1]
      BY <2>2, <2>3, SubSeqProperties
    <2> HIDE DEF a, b
    <2>5. Len(a) = Len(b) /\ \A i \in 1 .. Len(a) : a[i] = b[i]
      <3>1. \A i \in 1 .. Len(a) : i \in 1 .. Len(e) - 2 + 1 /\ 2 + i - 1 \in 2 .. Len(e)
        BY <1>2, <2>4
      <3> QED BY <2>2, <2>4, <3>1
    <2> QED BY <2>1, <2>4, <2>5, SeqEqual DEF a, b
  <1>13. s # <<>>
    BY <1>2, <1>3, <1>6, EmptySeq
  <1> QED BY <1>9, <1>11, <1>12, <1>13 DEF s, u, v

(* The string s begins with the element r, which holds body.               *)
Parses(s, r, body, rest) ==
    s # <<>> /\ Alike(s[1], r) /\ Body(s) = body /\ Rest(s) = rest

LEMMA LeafFirst ==
  ASSUME NEW r \in Nodes, r.depth = 0, NEW t \in Strings, NEW n \in Nat
  PROVE  /\ Parses(Lift(<<r>> \o t, n), r, <<>>, Lift(t, n))
         /\ Parses(Lift(<<r>>, n), r, <<>>, <<>>)
  <1> DEFINE e == <<r>>
  <1>1. e \in Elements /\ Len(e) = 1 /\ e[1] = r
    BY Leaf
  <1> HIDE DEF e
  <1>2. SubSeq(Lift(e, n), 2, Len(e)) = <<>>
    BY <1>1, SubSeqEmpty, 1 \in Int, 2 \in Int, 1 < 2
  <1>3. <<>> \in Strings /\ e \o <<>> = e /\ Lift(<<>>, n) = <<>>
    BY <1>1, Together, LiftEmpty
  <1>4. \A x \in Strings : Parses(Lift(e \o x, n), r, <<>>, Lift(x, n))
    BY <1>1, <1>2, FirstElement DEF Parses
  <1>5. Parses(Lift(e \o <<>>, n), r, <<>>, Lift(<<>>, n))
    BY <1>3, <1>4
  <1> QED BY <1>3, <1>4, <1>5 DEF e

LEMMA NodeMade ==
  ASSUME NEW tag \in Values, NEW name \in Values, NEW form \in Values, NEW num \in Values,
         NEW len \in Values
  PROVE  Node(tag, name, form, num, len) \in Nodes /\ Node(tag, name, form, num, len).depth = 0
  BY DEF Node, Nodes

LEMMA WrapIs ==
  ASSUME NEW tag \in Values, NEW w \in Seq(Nodes), NEW n \in Nat
  PROVE  LET e == Wrap(tag, w)
         IN /\ e \in Elements /\ e[1] = Node(tag, "", "", 0, 0)
            /\ SubSeq(Lift(e, n), 2, Len(e)) = Lift(w, n + 1)
  <1> DEFINE e == Wrap(tag, w)  r == Node(tag, "", "", 0, 0)  b == Lift(w, 1)
  <1>1. r \in Nodes /\ r.depth = 0
    <2>1. 0 \in Int
      OBVIOUS
    <2>2. 0 \in Values /\ "" \in Values
      BY <2>1, ValuesAre, Zenon
    <2> QED BY <2>2, NodeMade
  <1>2. /\ b \in Seq(Nodes) /\ Len(b) = Len(w) /\ Len(w) \in Nat
        /\ \A i \in 1 .. Len(w) : b[i] = Deeper(w[i], 1) /\ w[i] \in Nodes
    BY 1 \in Nat, LiftIs, LenProperties, ElementOfSeq
  <1>3. e = <<r>> \o b
    BY DEF Wrap, Lift
  <1> HIDE DEF e, r, b
  <1>4. <<r>> \in Seq(Nodes) /\ Len(<<r>>) = 1 /\ <<r>>[1] = r
    BY <1>1
  <1>5. /\ e \in Seq(Nodes) /\ Len(e) = 1 + Len(w)
        /\ \A i \in 1 .. 1 + Len(w) : e[i] = IF i <= 1 THEN r ELSE b[i - 1]
    <2> DEFINE o == <<r>>
    <2>1. o \in Seq(Nodes) /\ Len(o) = 1 /\ o[1] = r
      BY <1>4
    <2> HIDE DEF o
    <2>2. /\ o \o b \in Seq(Nodes) /\ Len(o \o b) = Len(o) + Len(b)
          /\ \A i \in 1 .. Len(o) + Len(b) :
               (o \o b)[i] = IF i <= Len(o) THEN o[i] ELSE b[i - Len(o)]
      BY <1>2, <2>1, ConcatProperties
    <2>3. e = o \o b
      BY <1>3 DEF o
    <2>4. \A i \in 1 .. 1 + Len(w) : i <= 1 => i = 1
      OBVIOUS
    <2> QED BY <1>2, <2>1, <2>2, <2>3, <2>4
  <1>6. e[1] = r /\ e # <<>>
    BY <1>2, <1>5, EmptySeq
  <1>7. \A i \in 1 .. Len(w) : e[i + 1] = Deeper(w[i], 1)
    BY <1>2, <1>5
  <1>8. \A i \in 2 .. Len(e) : e[i].depth > 0
    <2> TAKE i \in 2 .. Len(e)
    <2>1. i - 1 \in 1 .. Len(w) /\ i - 1 + 1 = i
      BY <1>2, <1>5
    <2>2. e[i] = Deeper(w[i - 1], 1) /\ w[i - 1] \in Nodes
      BY <1>2, <1>7, <2>1
    <2>3. e[i].depth = w[i - 1].depth + 1 /\ w[i - 1].depth \in Nat
      BY <2>2, DeeperIs, NodeIs, 1 \in Nat
    <2> QED BY <2>3
  <1>9. e \in Elements
    BY <1>1, <1>5, <1>6, <1>8 DEF Elements
  <1>10. SubSeq(Lift(e, n), 2, Len(e)) = Lift(w, n + 1)
    <2> DEFINE u == Lift(e, n)  v == Lift(w, n + 1)  a == SubSeq(u, 2, Len(e))
    <2>1. /\ u \in Seq(Nodes) /\ Len(u) = Len(e) /\ \A i \in 1 .. Len(e) : u[i] = Deeper(e[i], n)
      BY <1>5, LiftIs
    <2>2. /\ v \in Seq(Nodes) /\ Len(v) = Len(w) /\ \A i \in 1 .. Len(w) : v[i] = Deeper(w[i], n + 1)
      BY n + 1 \in Nat, LiftIs
    <2>3. \A i \in 2 .. Len(e) : u[i] \in Nodes
      BY <2>1, <1>2, <1>5, ElementOfSeq
    <2> HIDE DEF u, v
    <2>4. 2 \in Int /\ Len(e) \in Int
      BY <1>2, <1>5
    <2>5. /\ a \in Seq(Nodes) /\ Len(a) = (IF 2 <= Len(e) THEN Len(e) - 2 + 1 ELSE 0)
          /\ \A i \in 1 .. Len(e) - 2 + 1 : a[i] = u[2 + i - 1]
      BY <2>3, <2>4, SubSeqProperties
    <2> HIDE DEF a
    <2>6. Len(a) = Len(w)
      BY <1>2, <1>5, <2>5
    <2>7. ASSUME NEW i \in 1 .. Len(w) PROVE a[i] = v[i]
      <3>1. i \in 1 .. Len(e) - 2 + 1 /\ 2 + i - 1 = i + 1 /\ i + 1 \in 1 .. Len(e)
        BY <1>2, <1>5
      <3>2. a[i] = u[i + 1] /\ u[i + 1] = Deeper(e[i + 1], n)
        BY <2>1, <2>5, <3>1
      <3>3. u[i + 1] = Deeper(Deeper(w[i], 1), n)
        BY <1>7, <3>2
      <3>4. Deeper(Deeper(w[i], 1), n) = Deeper(w[i], 1 + n) /\ 1 + n = n + 1
        <4>1. w[i] \in Nodes /\ 1 \in Nat /\ 1 + n = n + 1
          BY <1>2
        <4> QED BY <4>1, DeeperTwice, Zenon
      <3> QED BY <2>2, <3>2, <3>3, <3>4
    <2> QED BY <2>2, <2>5, <2>6, <2>7, SeqEqual DEF a, u, v
  <1> QED BY <1>6, <1>9, <1>10 DEF e, r

LEMMA WrapFirst ==
  ASSUME NEW tag \in Values, NEW w \in Seq(Nodes), NEW t \in Strings, NEW n \in Nat
  PROVE  /\ Parses(Lift(Wrap(tag, w) \o t, n), Node(tag, "", "", 0, 0), Lift(w, n + 1), Lift(t, n))
         /\ Parses(Lift(Wrap(tag, w), n), Node(tag, "", "", 0, 0), Lift(w, n + 1), <<>>)
  <1> DEFINE e == Wrap(tag, w)  r == Node(tag, "", "", 0, 0)
  <1>1. e \in Elements /\ e[1] = r /\ SubSeq(Lift(e, n), 2, Len(e)) = Lift(w, n + 1)
    BY WrapIs
  <1> HIDE DEF e, r
  <1>2. <<>> \in Strings /\ e \o <<>> = e /\ Lift(<<>>, n) = <<>>
    BY <1>1, Together, LiftEmpty
  <1>3. \A x \in Strings : Parses(Lift(e \o x, n), r, Lift(w, n + 1), Lift(x, n))
    BY <1>1, FirstElement DEF Parses
  <1>4. Parses(Lift(e \o <<>>, n), r, Lift(w, n + 1), Lift(<<>>, n))
    BY <1>2, <1>3
  <1> QED BY <1>2, <1>3, <1>4 DEF e, r

----------------------------------------------------------------------------
(* The curve explicit parameters are of, but for its OID, and the curves   *)
(* of keys there are.                                                      *)
Unnamed(c) == Domain(c.fp, c.base, c.order, c.cofactor, "")

Known == Curves \cup {Unnamed(c) : c \in {d \in Curves : ~ Edwards(d)}}

LEMMA KnownIs ==
  ASSUME NEW c \in Known
  PROVE  /\ c.fp \in Fields /\ c.base \in Nat /\ c.order \in Nat /\ c.cofactor \in Nat
         /\ OrderRight(c) /\ (c.oid # "" \/ Edwards(c) => c \in Library)
         /\ c.oid \in Values /\ BaseLen(c) \in Values
         /\ Size(c) \in Nat \ {0} /\ Params[c.fp].plen \in Nat \ {0, 1}
         /\ Params[c.fp].p \in Nat /\ Params[c.fp].a \in Nat /\ Params[c.fp].b \in Nat
  <1>1. PICK d \in Curves : c = d \/ (c = Unnamed(d) /\ ~ Edwards(d))
    BY DEF Known
  <1>2. /\ c.fp = d.fp /\ c.base = d.base /\ c.order = d.order /\ c.cofactor = d.cofactor
        /\ c = d \/ (c.oid = "" /\ ~ Edwards(d))
    <2>1. /\ Unnamed(d).fp = d.fp /\ Unnamed(d).base = d.base /\ Unnamed(d).order = d.order
          /\ Unnamed(d).cofactor = d.cofactor /\ Unnamed(d).oid = ""
      BY DEF Unnamed, Domain
    <2> QED BY <1>1, <2>1
  <1>3. d.fp \in Fields /\ d.base \in Nat /\ d.order \in Nat /\ d.cofactor \in Nat /\ OrderRight(d)
    BY CurvesAssumption, GroupsAssumption
  <1>4. Edwards(c) = Edwards(d) /\ BaseLen(c) = BaseLen(d) /\ (OrderRight(c) <=> OrderRight(d))
    BY <1>2 DEF Edwards, BaseLen, OrderRight
  <1>5. d.oid # "" \/ Edwards(d) => d \in Library
    BY LibraryAssumption DEF Curves
  <1>6. Params[c.fp] \in [p : Nat, a : Nat, b : Nat, size : Nat \ {0}, plen : Nat \ {0, 1}]
    BY <1>2, <1>3, GroupsAssumption
  <1>7. c.oid \in Values /\ BaseLen(c) \in Values
    BY <1>2, <1>4, ValuesAre
  <1> QED BY <1>2, <1>3, <1>4, <1>5, <1>6, <1>7 DEF Size

(* Curves that are equal have groups of one order.                         *)
LEMMA SameGroup ==
  ASSUME NEW c \in Known, NEW d \in Known, Same(c, d)
  PROVE  /\ c.order = d.order /\ BaseLen(c) = BaseLen(d) /\ Size(c) = Size(d)
         /\ (Edwards(c) <=> Edwards(d)) /\ Params[c.fp] = Params[d.fp]
  <1>1. c.fp = d.fp /\ c.base = d.base
    BY DEF Same
  <1>2. OrderRight(c) /\ OrderRight(d) /\ c.order \in Nat /\ d.order \in Nat
    BY KnownIs
  <1>3. ~ (c.order < d.order)
    <2> SUFFICES ASSUME c.order < d.order PROVE FALSE
      OBVIOUS
    <2>1. c.order \in 1 .. d.order - 1
      BY <1>2 DEF OrderRight
    <2> QED BY <1>1, <1>2, <2>1 DEF OrderRight
  <1>4. ~ (d.order < c.order)
    <2> SUFFICES ASSUME d.order < c.order PROVE FALSE
      OBVIOUS
    <2>1. d.order \in 1 .. c.order - 1
      BY <1>2 DEF OrderRight
    <2> QED BY <1>1, <1>2, <2>1 DEF OrderRight
  <1>5. c.order = d.order
    BY <1>2, <1>3, <1>4
  <1> QED BY <1>1, <1>5 DEF BaseLen, Edwards, Size

LEMMA PreferKnown ==
  ASSUME NEW c \in Known, ~ Edwards(c)
  PROVE  Prefer(Unnamed(c)) \in Known /\ Same(Prefer(Unnamed(c)), c)
  <1> DEFINE u == Unnamed(c)
  <1>1. u.fp = c.fp /\ u.base = c.base
    BY DEF Unnamed, Domain
  <1>2. u \in Known
    <2>1. PICK d \in Curves : c = d \/ (c = Unnamed(d) /\ ~ Edwards(d))
      BY DEF Known
    <2>2. Unnamed(Unnamed(d)) = Unnamed(d) /\ ~ Edwards(d)
      BY <2>1 DEF Unnamed, Domain
    <2> QED BY <2>1, <2>2 DEF Known
  <1>3. CASE \E known \in Library : Same(u, known)
    <2>1. Prefer(u) \in Library /\ Same(u, Prefer(u))
      BY <1>3 DEF Prefer
    <2> QED BY <1>1, <2>1 DEF Known, Curves, Same
  <1>4. CASE ~ \E known \in Library : Same(u, known)
    BY <1>1, <1>2, <1>4 DEF Prefer, Same
  <1> QED BY <1>3, <1>4

LEMMA FindBack ==
  ASSUME NEW c \in Library
  PROVE  FindCurve(c.oid) = CurveRead(c)
  BY LibraryAssumption DEF FindCurve

(* Curve.to_der: the explicit parameters.                                  *)
ExplicitString(c, form) ==
    LET par == Params[c.fp] IN
    Number(1)
    \o (Wrap("seq", Oid("prime-field") \o Number(par.p))
    \o (Wrap("seq", Octets(par.a, par.plen) \o Octets(par.b, par.plen))
    \o (PointString("oct", c.fp, c.base, form)
    \o (Number(c.order) \o (IF c.cofactor # 0 THEN Number(c.cofactor) ELSE <<>>)))))

PointForms == {"uncompressed", "compressed", "hybrid"}

(* The elements a file is made of.                                         *)
LEMMA Pieces ==
  /\ \A x \in Values : Oid(x) \in Elements /\ Number(x) \in Elements
  /\ \A x, y \in Values : Octets(x, y) \in Elements
  /\ \A tag \in {"oct", "bit"}, fp \in Fields, x \in Values, form \in PointForms \cup {"edwards"} :
       PointString(tag, fp, x, form) \in Elements
  <1>1. \A tag, name, form, num, len \in Values : <<Node(tag, name, form, num, len)>> \in Elements
    BY NodeMade, Leaf
  <1>2. 0 \in Values
    <2>1. 0 \in Int
      OBVIOUS
    <2> QED BY <2>1, ValuesAre, Zenon
  <1>3. ASSUME NEW x \in Values PROVE Oid(x) \in Elements /\ Number(x) \in Elements
    BY <1>1, <1>2, ValuesAre, Zenon DEF Oid, Number
  <1>4. ASSUME NEW x \in Values, NEW y \in Values PROVE Octets(x, y) \in Elements
    BY <1>1, <1>2, ValuesAre, Zenon DEF Octets
  <1>5. ASSUME NEW tag \in {"oct", "bit"}, NEW fp \in Fields, NEW x \in Values,
               NEW form \in PointForms \cup {"edwards"}
        PROVE  PointString(tag, fp, x, form) \in Elements
    <2>1. PointLen(tag, fp, form) \in Values
      <3>1. Params[fp].plen \in Nat
        BY GroupsAssumption
      <3>2. PointLen(tag, fp, form) \in Int
        BY <3>1 DEF PointLen, FormLen
      <3> QED BY <3>2, ValuesAre, Zenon
    <2>2. tag \in Values /\ form \in Values /\ fp \in Values
      BY ValuesAre, Zenon DEF PointForms
    <2> QED BY <1>1, <2>1, <2>2, Zenon DEF PointString
  <1> QED BY <1>3, <1>4, <1>5

(* What each of them is read as.                                           *)
LEMMA PieceFirst ==
  ASSUME NEW r, <<r>> \in Elements, NEW t \in Strings, NEW n \in Nat
  PROVE  /\ Parses(Lift(<<r>> \o t, n), r, <<>>, Lift(t, n))
         /\ Parses(Lift(<<r>>, n), r, <<>>, <<>>)
  <1> DEFINE e == <<r>>
  <1>1. e \in Seq(Nodes) /\ Len(e) = 1 /\ e[1] = r /\ e[1].depth = 0
    BY DEF Elements
  <1> HIDE DEF e
  <1>2. 1 \in 1 .. Len(e)
    BY <1>1
  <1>3. r \in Nodes /\ r.depth = 0
    BY <1>1, <1>2, ElementOfSeq
  <1> QED BY <1>3, LeafFirst

LEMMA NumberFirst ==
  ASSUME NEW x \in Values, NEW t \in Strings, NEW n \in Nat
  PROVE  /\ Parses(Lift(Number(x) \o t, n), Node("int", "", "", x, 0), <<>>, Lift(t, n))
         /\ Parses(Lift(Number(x), n), Node("int", "", "", x, 0), <<>>, <<>>)
  BY Pieces, PieceFirst, Zenon DEF Number

LEMMA OidFirst ==
  ASSUME NEW x \in Values, NEW t \in Strings, NEW n \in Nat
  PROVE  /\ Parses(Lift(Oid(x) \o t, n), Node("oid", x, "", 0, 0), <<>>, Lift(t, n))
         /\ Parses(Lift(Oid(x), n), Node("oid", x, "", 0, 0), <<>>, <<>>)
  BY Pieces, PieceFirst, Zenon DEF Oid

LEMMA OctetsFirst ==
  ASSUME NEW x \in Values, NEW y \in Values, NEW t \in Strings, NEW n \in Nat
  PROVE  /\ Parses(Lift(Octets(x, y) \o t, n), Node("oct", "", "", x, y), <<>>, Lift(t, n))
         /\ Parses(Lift(Octets(x, y), n), Node("oct", "", "", x, y), <<>>, <<>>)
  BY Pieces, PieceFirst, Zenon DEF Octets

LEMMA PointFirst ==
  ASSUME NEW tag \in {"oct", "bit"}, NEW fp \in Fields, NEW x \in Values,
         NEW form \in PointForms \cup {"edwards"}, NEW t \in Strings, NEW n \in Nat
  PROVE  LET e == PointString(tag, fp, x, form)
             r == Node(tag, fp, form, x, PointLen(tag, fp, form))
         IN Parses(Lift(e \o t, n), r, <<>>, Lift(t, n)) /\ Parses(Lift(e, n), r, <<>>, <<>>)
  BY Pieces, PieceFirst, Zenon DEF PointString

LEMMA SeqFirst ==
  ASSUME NEW tag \in Values, NEW w \in Strings, NEW t \in Strings, NEW n \in Nat
  PROVE  /\ Parses(Lift(Wrap(tag, w) \o t, n), Node(tag, "", "", 0, 0), Lift(w, n + 1), Lift(t, n))
         /\ Parses(Lift(Wrap(tag, w), n), Node(tag, "", "", 0, 0), Lift(w, n + 1), <<>>)
         /\ Wrap(tag, w) \in Elements
  <1>1. w \in Seq(Nodes)
    BY DEF Strings
  <1> QED BY <1>1, WrapFirst, WrapIs, Zenon

(* Six strings in a row, grouped from the left or from the right.          *)
FromLeft(a, b, c, d, e, f)  == a \o b \o c \o d \o e \o f
FromRight(a, b, c, d, e, f) == a \o (b \o (c \o (d \o (e \o f))))

LEMMA SixInARow ==
  ASSUME NEW S, NEW a, NEW b, NEW c, NEW d, NEW e, NEW f
  PROVE  {a, b, c, d, e, f} \subseteq Seq(S) =>
           FromLeft(a, b, c, d, e, f) = FromRight(a, b, c, d, e, f)
  <1>1. SUFFICES ASSUME {a, b, c, d, e, f} \subseteq Seq(S)
                 PROVE  FromLeft(a, b, c, d, e, f) = FromRight(a, b, c, d, e, f)
    OBVIOUS
  <1>2. ASSUME NEW x, NEW y, x \in Seq(S) /\ y \in Seq(S) PROVE x \o y \in Seq(S)
    BY <1>2, ConcatProperties
  <1>3. ASSUME NEW x, NEW y, NEW z, x \in Seq(S) /\ y \in Seq(S) /\ z \in Seq(S)
        PROVE  (x \o y) \o z = x \o (y \o z)
    BY <1>3, ConcatAssociative
  <1> DEFINE Q == Seq(S)  J(x, y) == x \o y
  <1>4. a \in Q /\ b \in Q /\ c \in Q /\ d \in Q /\ e \in Q /\ f \in Q
    BY <1>1
  <1>5. /\ \A x, y \in Q : J(x, y) \in Q
        /\ \A x, y, z \in Q : J(J(x, y), z) = J(x, J(y, z))
    BY <1>2, <1>3
  <1> HIDE DEF Q, J
  <1> DEFINE ab == J(a, b)  abc == J(ab, c)  abcd == J(abc, d)
             ef == J(e, f)  def == J(d, ef)  cdef == J(c, def)
  <1>6. ab \in Q /\ abc \in Q /\ abcd \in Q /\ ef \in Q /\ def \in Q /\ cdef \in Q
    BY <1>4, <1>5
  <1>7. /\ J(abcd, e) \in Q /\ J(J(abcd, e), f) = J(abcd, ef) /\ J(abcd, ef) = J(abc, def)
        /\ J(abc, def) = J(ab, cdef) /\ J(ab, cdef) = J(a, J(b, cdef))
    BY <1>4, <1>5, <1>6
  <1>8. J(J(J(J(J(a, b), c), d), e), f) = J(a, J(b, J(c, J(d, J(e, f)))))
    BY <1>7
  <1> QED BY <1>8 DEF J, FromLeft, FromRight

LEMMA NumbersAreValues ==
  ASSUME NEW c \in Known
  PROVE  /\ c.base \in Values /\ c.order \in Values /\ c.cofactor \in Values
         /\ Params[c.fp].p \in Values /\ Params[c.fp].a \in Values /\ Params[c.fp].b \in Values
         /\ Params[c.fp].plen \in Values /\ 1 \in Values /\ 0 \in Values
  <1> DEFINE par == Params[c.fp]
  <1>1. /\ c.base \in Int /\ c.order \in Int /\ c.cofactor \in Int
        /\ par.p \in Int /\ par.a \in Int /\ par.b \in Int /\ par.plen \in Int
        /\ 1 \in Int /\ 0 \in Int
    <2>1. /\ c.base \in Nat /\ c.order \in Nat /\ c.cofactor \in Nat
          /\ par.p \in Nat /\ par.a \in Nat /\ par.b \in Nat /\ par.plen \in Nat \ {0, 1}
      BY KnownIs, Zenon
    <2> HIDE DEF par
    <2> QED BY <2>1
  <1> HIDE DEF par
  <1>2. \A x \in Int : x \in Values
    BY ValuesAre
  <1> QED BY <1>1, <1>2 DEF par

(* The parts of explicit parameters.                                       *)
LEMMA ExplicitParts ==
  ASSUME NEW c \in Known, NEW form \in PointForms
  PROVE  LET par == Params[c.fp]
             field == Oid("prime-field") \o Number(par.p)
             coefficients == Octets(par.a, par.plen) \o Octets(par.b, par.plen)
             cofactor == IF c.cofactor # 0 THEN Number(c.cofactor) ELSE <<>>
             order == Number(c.order) \o cofactor
             base == PointString("oct", c.fp, c.base, form) \o order
             curveAndMore == Wrap("seq", coefficients) \o base
             fieldAndMore == Wrap("seq", field) \o curveAndMore
         IN /\ field \in Strings /\ coefficients \in Strings /\ cofactor \in Strings
            /\ order \in Strings /\ base \in Strings /\ curveAndMore \in Strings
            /\ fieldAndMore \in Strings /\ Number(1) \o fieldAndMore \in Strings
            /\ ExplicitString(c, form) = Number(1) \o fieldAndMore
  <1> DEFINE par == Params[c.fp]
             field == Oid("prime-field") \o Number(par.p)
             coefficients == Octets(par.a, par.plen) \o Octets(par.b, par.plen)
             cofactor == IF c.cofactor # 0 THEN Number(c.cofactor) ELSE <<>>
             order == Number(c.order) \o cofactor
             point == PointString("oct", c.fp, c.base, form)
             base == point \o order
             curveAndMore == Wrap("seq", coefficients) \o base
             fieldAndMore == Wrap("seq", field) \o curveAndMore
  <1>1. \A e \in Elements, t \in Strings : e \o t \in Strings /\ e \in Strings
    BY Together
  <1>2. <<>> \in Strings
    BY EmptySeq DEF Strings
  <1>3. /\ Oid("prime-field") \in Elements /\ Number(par.p) \in Elements
        /\ Octets(par.a, par.plen) \in Elements /\ Octets(par.b, par.plen) \in Elements
        /\ Number(c.cofactor) \in Elements /\ Number(c.order) \in Elements /\ Number(1) \in Elements
    <2>1. "prime-field" \in Values
      BY ValuesAre
    <2> QED BY <2>1, NumbersAreValues, Pieces, Zenon
  <1>4. point \in Elements
    <2>1. "oct" \in {"oct", "bit"} /\ form \in PointForms \cup {"edwards"} /\ c.fp \in Fields
      BY KnownIs
    <2> QED BY <2>1, NumbersAreValues, Pieces, Zenon
  <1>5. field \in Strings /\ coefficients \in Strings /\ cofactor \in Strings
    <2> HIDE DEF par
    <2> QED BY <1>1, <1>2, <1>3, Zenon
  <1>6. order \in Strings
    <2> HIDE DEF cofactor
    <2> QED BY <1>1, <1>3, <1>5, Zenon
  <1>7. base \in Strings
    <2> HIDE DEF order, point
    <2> QED BY <1>1, <1>4, <1>6, Zenon
  <1>8. Wrap("seq", coefficients) \in Elements /\ Wrap("seq", field) \in Elements
    <2>1. "seq" \in Values /\ \A s \in Strings : s \in Seq(Nodes)
      BY ValuesAre DEF Strings
    <2>2. \A w \in Seq(Nodes) : Wrap("seq", w) \in Elements
      BY <2>1, 0 \in Nat, WrapIs
    <2> HIDE DEF coefficients, field
    <2> QED BY <1>5, <2>1, <2>2, Zenon
  <1>9. curveAndMore \in Strings
    <2> HIDE DEF base, coefficients
    <2> QED BY <1>1, <1>7, <1>8, Zenon
  <1>10. fieldAndMore \in Strings
    <2> HIDE DEF curveAndMore, field
    <2> QED BY <1>1, <1>8, <1>9, Zenon
  <1>11. Number(1) \o fieldAndMore \in Strings
    <2> HIDE DEF fieldAndMore
    <2> QED BY <1>1, <1>3, <1>10, Zenon
  <1>12. ExplicitString(c, form) = Number(1) \o fieldAndMore
    BY DEF ExplicitString
  <1> QED BY <1>5, <1>6, <1>7, <1>9, <1>10, <1>11, <1>12, Zenon

(* Curve.to_der without an OID.                                            *)
LEMMA ExplicitWritten ==
  ASSUME NEW c \in Known, ~ Edwards(c), NEW form \in PointForms, NEW asked,
         Encoding(c, asked) = "explicit"
  PROVE  CurveToDer(c, asked, form) = Written(Wrap("seq", ExplicitString(c, form)))
  <1> DEFINE par == Params[c.fp]
             A == Number(1)
             B == Wrap("seq", Oid("prime-field") \o Number(par.p))
             C == Wrap("seq", Octets(par.a, par.plen) \o Octets(par.b, par.plen))
             D == PointString("oct", c.fp, c.base, form)
             E == Number(c.order)
             F == IF c.cofactor # 0 THEN Number(c.cofactor) ELSE <<>>
  <1>1. CurveToDer(c, asked, form) = Written(Wrap("seq", A \o B \o C \o D \o E \o F))
    <2>1. ~ (Encoding(c, asked) = "named_curve")
      OBVIOUS
    <2> QED BY <2>1, Zenon DEF CurveToDer
  <1>2. ExplicitString(c, form) = A \o (B \o (C \o (D \o (E \o F))))
    BY DEF ExplicitString
  <1>3. {A, B, C, D, E, F} \subseteq Seq(Nodes)
    <2>1. A \in Elements /\ D \in Elements /\ E \in Elements /\ F \in Strings
      <3>1. c.fp \in Fields
        BY KnownIs
      <3>2. "oct" \in {"oct", "bit"} /\ form \in PointForms \cup {"edwards"}
        OBVIOUS
      <3>3. F \in Strings
        BY ExplicitParts, Zenon
      <3> HIDE DEF F
      <3> QED BY <3>1, <3>2, <3>3, NumbersAreValues, Pieces, Zenon
    <2>2. B \in Elements /\ C \in Elements
      <3>1. /\ Oid("prime-field") \o Number(par.p) \in Strings
            /\ Octets(par.a, par.plen) \o Octets(par.b, par.plen) \in Strings
        BY ExplicitParts, Zenon
      <3>2. "seq" \in Values /\ \A s \in Strings : s \in Seq(Nodes)
        BY ValuesAre DEF Strings
      <3>3. \A w \in Seq(Nodes) : Wrap("seq", w) \in Elements
        BY <3>2, 0 \in Nat, WrapIs
      <3> QED BY <3>1, <3>2, <3>3, Zenon
    <2>3. Elements \subseteq Seq(Nodes) /\ Strings \subseteq Seq(Nodes)
      BY DEF Elements, Strings
    <2> HIDE DEF A, B, C, D, E, F
    <2> QED BY <2>1, <2>2, <2>3
  <1> HIDE DEF A, B, C, D, E, F
  <1>4. FromLeft(A, B, C, D, E, F) = FromRight(A, B, C, D, E, F)
    BY <1>3, SixInARow
  <1> QED BY <1>1, <1>2, <1>4 DEF FromLeft, FromRight

----------------------------------------------------------------------------
(* ECParameters.from_der reads explicit parameters as the curve they are   *)
(* of, or one of the library that is equal to it.                          *)
LEMMA ExplicitBack ==
  ASSUME NEW c \in Known, NEW form \in PointForms, NEW n \in Nat
  PROVE  ReadExplicit(Lift(ExplicitString(c, form), n)) = CurveRead(Prefer(Unnamed(c)))
  <1> DEFINE par == Params[c.fp]
             fieldString == Oid("prime-field") \o Number(par.p)
             coefficients == Octets(par.a, par.plen) \o Octets(par.b, par.plen)
             cofactorString == IF c.cofactor # 0 THEN Number(c.cofactor) ELSE <<>>
             orderString == Number(c.order) \o cofactorString
             baseString == PointString("oct", c.fp, c.base, form) \o orderString
             curveString == Wrap("seq", coefficients) \o baseString
             rest == Wrap("seq", fieldString) \o curveString
             baseNode == Node("oct", c.fp, form, c.base, PointLen("oct", c.fp, form))
  <1>1. /\ fieldString \in Strings /\ coefficients \in Strings /\ cofactorString \in Strings
        /\ orderString \in Strings /\ baseString \in Strings /\ curveString \in Strings
        /\ rest \in Strings /\ ExplicitString(c, form) = Number(1) \o rest
    BY ExplicitParts, Zenon
  <1> DEFINE s == Lift(ExplicitString(c, form), n)
             field == Lift(rest, n)
             crv == Lift(curveString, n)
             base == Lift(baseString, n)
             order == Lift(orderString, n)
             cofactor == Lift(cofactorString, n)
             fieldBody == Lift(fieldString, n + 1)
             prime == Lift(Number(par.p), n + 1)
             a == Lift(coefficients, n + 1)
             b == Lift(Octets(par.b, par.plen), n + 1)
  <1>0. /\ par.p \in Values /\ par.a \in Values /\ par.b \in Values /\ par.plen \in Values
        /\ c.base \in Values /\ c.order \in Values /\ c.cofactor \in Values /\ 1 \in Values
        /\ "seq" \in Values /\ "prime-field" \in Values /\ <<>> \in Strings /\ n + 1 \in Nat
    <2>1. /\ par.p \in Values /\ par.a \in Values /\ par.b \in Values /\ par.plen \in Values
          /\ c.base \in Values /\ c.order \in Values /\ c.cofactor \in Values /\ 1 \in Values
      BY NumbersAreValues, Zenon
    <2>2. "seq" \in Values /\ "prime-field" \in Values
      BY ValuesAre
    <2>3. <<>> \in Strings
      BY EmptySeq DEF Strings
    <2>4. n + 1 \in Nat
      OBVIOUS
    <2> QED BY <2>1, <2>2, <2>3, <2>4
  <1> HIDE DEF par
  <1>2. Parses(s, Node("int", "", "", 1, 0), <<>>, field)
    <2> HIDE DEF rest
    <2> QED BY <1>0, <1>1, NumberFirst
  <1>3. Parses(field, Node("seq", "", "", 0, 0), fieldBody, crv)
    <2> HIDE DEF fieldString, curveString
    <2> QED BY <1>0, <1>1, SeqFirst
  <1>4. Parses(crv, Node("seq", "", "", 0, 0), a, base)
    <2> HIDE DEF coefficients, baseString
    <2> QED BY <1>0, <1>1, SeqFirst
  <1>5. Parses(base, baseNode, <<>>, order)
    <2>1. "oct" \in {"oct", "bit"} /\ form \in PointForms \cup {"edwards"} /\ c.fp \in Fields
      BY KnownIs
    <2> HIDE DEF orderString
    <2> QED BY <1>0, <1>1, <2>1, PointFirst, Zenon
  <1>6. Parses(order, Node("int", "", "", c.order, 0), <<>>, cofactor)
    <2> HIDE DEF cofactorString
    <2> QED BY <1>0, <1>1, NumberFirst
  <1>7. \/ c.cofactor = 0 /\ cofactor = <<>>
        \/ c.cofactor # 0 /\ Parses(cofactor, Node("int", "", "", c.cofactor, 0), <<>>, <<>>)
    <2>1. CASE c.cofactor = 0
      BY <2>1, LiftEmpty
    <2>2. CASE c.cofactor # 0
      <3>1. cofactorString = Number(c.cofactor)
        BY <2>2
      <3> HIDE DEF cofactorString
      <3> QED BY <1>0, <2>2, <3>1, NumberFirst
    <2> QED BY <2>1, <2>2
  <1>8. Parses(fieldBody, Node("oid", "prime-field", "", 0, 0), <<>>, prime)
    <2>1. Number(par.p) \in Strings
      BY <1>0, Pieces, Together
    <2> QED BY <1>0, <2>1, OidFirst
  <1>9. Parses(prime, Node("int", "", "", par.p, 0), <<>>, <<>>)
    BY <1>0, NumberFirst
  <1>10. Parses(a, Node("oct", "", "", par.a, par.plen), <<>>, b)
    <2>1. Octets(par.b, par.plen) \in Strings
      BY <1>0, Pieces, Together
    <2> QED BY <1>0, <2>1, OctetsFirst
  <1>11. Parses(b, Node("oct", "", "", par.b, par.plen), <<>>, <<>>)
    BY <1>0, OctetsFirst
  <1> HIDE DEF s, field, crv, base, order, cofactor, fieldBody, prime, a, b
  <1>12. /\ Starts(s, "int") /\ s[1].num = 1 /\ Rest(s) = field
         /\ Starts(field, "seq") /\ Body(field) = fieldBody /\ Rest(field) = crv
         /\ Starts(crv, "seq") /\ Body(crv) = a /\ Rest(crv) = base
         /\ Starts(base, "oct") /\ Rest(base) = order
    BY <1>2, <1>3, <1>4, <1>5 DEF Parses, Alike, Node, Starts
  <1>13. /\ Starts(order, "int") /\ order[1].num = c.order /\ Rest(order) = cofactor
         /\ cofactor # <<>> => Starts(cofactor, "int")
         /\ (IF cofactor = <<>> THEN 0 ELSE cofactor[1].num) = c.cofactor
    BY <1>6, <1>7 DEF Parses, Alike, Node, Starts
  <1>14. /\ Starts(fieldBody, "oid") /\ fieldBody[1].name = "prime-field" /\ Rest(fieldBody) = prime
         /\ Starts(prime, "int") /\ prime[1].num = par.p /\ Rest(prime) = <<>>
         /\ Starts(a, "oct") /\ a[1].num = par.a /\ Rest(a) = b
         /\ Starts(b, "oct") /\ b[1].num = par.b
    BY <1>8, <1>9, <1>10, <1>11 DEF Parses, Alike, Node, Starts
  <1>15. /\ base[1].tag = "oct" /\ base[1].name = c.fp /\ base[1].form = form
         /\ base[1].num = c.base /\ base[1].len = PointLen("oct", c.fp, form)
    BY <1>5 DEF Parses, Alike, Node
  <1> DEFINE fps == {fp \in Fields : /\ Params[fp].p = prime[1].num
                                     /\ Params[fp].a = a[1].num /\ Params[fp].b = b[1].num
                                     /\ PointFits(base[1], fp, {"uncompressed", "compressed", "hybrid"})}
  <1>16. fps = {c.fp}
    <2>1. c.fp \in Fields
      BY KnownIs
    <2>2. PointFits(base[1], c.fp, {"uncompressed", "compressed", "hybrid"})
      BY <1>15 DEF PointFits, PointForms
    <2>3. \A fp \in fps : fp = c.fp
      BY <1>15 DEF PointFits
    <2> QED BY <1>14, <2>1, <2>2, <2>3 DEF par
  <1>17. (CHOOSE fp \in fps : TRUE) = c.fp /\ fps # {}
    BY <1>16
  <1> HIDE DEF fps
  <1>18. ReadExplicit(s) =
           CurveRead(Prefer(Domain(CHOOSE fp \in fps : TRUE, base[1].num, order[1].num,
                            IF cofactor = <<>> THEN 0 ELSE cofactor[1].num, "")))
    BY <1>12, <1>13, <1>14, <1>17, Zenon DEF ReadExplicit, fps
  <1> QED BY <1>13, <1>15, <1>17, <1>18 DEF Unnamed, s

(* Curve.from_der reads what Curve.to_der writes as the curve or one equal *)
(* to it, if the encoding is allowed.                                      *)
Allowed(c, asked, valid) == valid = {} \/ Encoding(c, asked) \in valid

LEMMA EncodingIs ==
  ASSUME NEW c, NEW asked \in Asked
  PROVE  Encoding(c, asked) \in {"named_curve", "explicit"}
  BY DEF Encoding, Default, Asked

LEMMA NextNat == ASSUME NEW n \in Nat PROVE n + 1 \in Nat
  OBVIOUS

LEMMA CurveBack ==
  ASSUME NEW c \in Known, ~ Edwards(c), NEW asked \in Asked, NEW form \in PointForms,
         CurveToDer(c, asked, form).error = "", NEW n \in Nat, NEW valid \in ValidCurves
  PROVE  LET s == CurveToDer(c, asked, form).string
             r == ReadCurve(Lift(s, n), valid)
         IN /\ s \in Elements
            /\ IF Allowed(c, asked, valid)
               THEN r.error = "" /\ r.curve \in Known /\ Same(r.curve, c)
               ELSE r.error = "UnexpectedDER"
  <1> DEFINE s == CurveToDer(c, asked, form).string
             l == Lift(s, n)
             r == ReadCurve(l, valid)
             allowed == IF valid = {} THEN {"named_curve", "explicit"} ELSE valid
  <1>1. Allowed(c, asked, valid) <=> Encoding(c, asked) \in allowed
    BY EncodingIs DEF Allowed
  <1>2. CASE Encoding(c, asked) = "named_curve"
    <2>1. c.oid # "" /\ s = Oid(c.oid)
      <3>1. Written(Oid(c.oid)).string = Oid(c.oid) /\ Refused("UnknownCurveError").error # ""
        BY DEF Written, Refused
      <3> QED BY <1>2, <3>1 DEF CurveToDer
    <2>2. c \in Library /\ c.oid \in Values /\ <<>> \in Strings
      BY <2>1, KnownIs, EmptySeq DEF Strings
    <2>3. s \in Elements
      BY <2>1, <2>2, Pieces
    <2>4. Parses(l, Node("oid", c.oid, "", 0, 0), <<>>, <<>>)
      BY <2>1, <2>2, OidFirst
    <2> HIDE DEF l, s, allowed
    <2>5. ~ Starts(l, "seq") /\ Starts(l, "oid") /\ Rest(l) = <<>> /\ l[1].name = c.oid
      BY <2>4 DEF Parses, Alike, Node, Starts
    <2>6. r = IF "named_curve" \in allowed THEN FindCurve(c.oid) ELSE CurveError("UnexpectedDER")
      BY <2>5 DEF ReadCurve, allowed
    <2>7. FindCurve(c.oid) = CurveRead(c)
      BY <2>2, FindBack
    <2>8. /\ CurveRead(c).error = "" /\ CurveRead(c).curve = c
          /\ CurveError("UnexpectedDER").error = "UnexpectedDER" /\ Same(c, c)
      BY DEF CurveRead, CurveError, Same
    <2> QED BY <1>1, <1>2, <2>3, <2>6, <2>7, <2>8 DEF l, s
  <1>3. CASE Encoding(c, asked) = "explicit"
    <2> DEFINE e == ExplicitString(c, form)
    <2>1. CurveToDer(c, asked, form) = Written(Wrap("seq", e))
      BY <1>3, ExplicitWritten
    <2>2. s = Wrap("seq", e)
      <3>1. \A x : Written(x).string = x
        BY DEF Written
      <3> HIDE DEF e
      <3> QED BY <2>1, <3>1
    <2>3. e \in Strings /\ <<>> \in Strings /\ "seq" \in Values
      BY ExplicitParts, EmptySeq, ValuesAre DEF Strings
    <2> HIDE DEF e
    <2>4. Parses(l, Node("seq", "", "", 0, 0), Lift(e, n + 1), <<>>) /\ s \in Elements
      BY <2>2, <2>3, SeqFirst
    <2> HIDE DEF l, s, allowed
    <2>5. Starts(l, "seq") /\ Rest(l) = <<>> /\ Body(l) = Lift(e, n + 1)
      BY <2>4 DEF Parses, Alike, Node, Starts
    <2>6. r = IF "explicit" \in allowed THEN ReadExplicit(Lift(e, n + 1))
              ELSE CurveError("UnexpectedDER")
      BY <2>5 DEF ReadCurve, allowed
    <2> DEFINE d == Prefer(Unnamed(c))
    <2>7. ReadExplicit(Lift(e, n + 1)) = CurveRead(d)
      <3>1. n + 1 \in Nat
        BY NextNat, Zenon
      <3> QED BY <3>1, ExplicitBack DEF e
    <2>8. d \in Known /\ Same(d, c)
      BY PreferKnown
    <2> HIDE DEF d
    <2>9. /\ CurveRead(d).error = "" /\ CurveRead(d).curve = d
          /\ CurveError("UnexpectedDER").error = "UnexpectedDER"
      BY DEF CurveRead, CurveError
    <2> QED BY <1>1, <1>3, <2>4, <2>6, <2>7, <2>8, <2>9 DEF l, s
  <1> QED BY <1>2, <1>3, EncodingIs

----------------------------------------------------------------------------
(* A key: its point is in the group of the generator, and a private key is *)
(* what from_string() makes of its string.                                 *)
GoodKey(k) ==
    /\ k.kind \in {"private", "public"} /\ k.curve \in Known
    /\ k.secret \in Nat /\ k.point \in Nat
    /\ (k.curve.order * k.point) % Size(k.curve) = 0
    /\ k.kind = "public" => k.secret = 0
    /\ k.kind = "private" =>
         PrivateFromString([num |-> k.secret, len |-> BaseLen(k.curve)], k.curve) = KeyRead(k)

(* The public key, on its curve or one that is equal to it.                *)
LEMMA GoodIs ==
  ASSUME NEW k, GoodKey(k)
  PROVE  /\ k.curve \in Known /\ k.secret \in Values /\ k.point \in Values
         /\ VerifyingKey(k).kind = "public" /\ VerifyingKey(k).curve = k.curve
         /\ VerifyingKey(k).secret = 0 /\ VerifyingKey(k).point = k.point
  <1>1. k.secret \in Nat /\ k.point \in Nat /\ k.curve \in Known
    BY Zenon DEF GoodKey
  <1>2. k.secret \in Int /\ k.point \in Int
    BY <1>1
  <1>3. k.secret \in Values /\ k.point \in Values
    BY <1>2, ValuesAre, Zenon
  <1>4. /\ VerifyingKey(k).kind = "public" /\ VerifyingKey(k).curve = k.curve
        /\ VerifyingKey(k).secret = 0 /\ VerifyingKey(k).point = k.point
    BY KeyIs DEF VerifyingKey
  <1> QED BY <1>1, <1>3, <1>4

LEMMA PublicGood ==
  ASSUME NEW k, GoodKey(k), NEW c \in Known, Same(c, k.curve)
  PROVE  LET p == Key("public", c, 0, k.point)
         IN /\ GoodKey(p) /\ SameKey(p, VerifyingKey(k)) /\ PublicOf(c, k.point) = KeyRead(p)
  <1> DEFINE p == Key("public", c, 0, k.point)
  <1>1. p.kind = "public" /\ p.curve = c /\ p.secret = 0 /\ p.point = k.point
    BY KeyIs
  <1>2. k.curve \in Known /\ k.point \in Nat /\ (k.curve.order * k.point) % Size(k.curve) = 0
    BY DEF GoodKey
  <1>3. k.curve.order = c.order /\ Size(k.curve) = Size(c)
    BY <1>2, SameGroup
  <1> HIDE DEF p
  <1>4. GoodKey(p)
    BY <1>1, <1>2, <1>3 DEF GoodKey
  <1>5. SameKey(p, VerifyingKey(k))
    <2>1. /\ VerifyingKey(k).kind = "public" /\ VerifyingKey(k).curve = k.curve
          /\ VerifyingKey(k).secret = 0 /\ VerifyingKey(k).point = k.point
      BY KeyIs DEF VerifyingKey
    <2> QED BY <1>1, <2>1 DEF SameKey
  <1>6. PublicOf(c, k.point) = KeyRead(p)
    <2>1. c.order # 0
      <3>1. c.order > 1 /\ c.order \in Nat
        BY KnownIs DEF OrderRight
      <3> QED BY <3>1
    <2>2. Times(c, k.point, c.order) = 0
      BY <1>2, <1>3 DEF Times
    <2> QED BY <2>1, <2>2 DEF PublicOf, p
  <1> QED BY <1>4, <1>5, <1>6 DEF p

LEMMA ReadIs ==
  /\ \A k : KeyRead(k).error = "" /\ KeyRead(k).key = k
  /\ \A e : KeyError(e).error = e
  /\ \A s : Written(s).error = "" /\ Written(s).string = s
  /\ \A e : Refused(e).error = e
  BY DEF KeyRead, KeyError, Written, Refused

LEMMA OneKey == ASSUME NEW k, NEW l, KeyRead(k) = KeyRead(l) PROVE k = l
  BY DEF KeyRead

(* The whole of a file.                                                    *)
LEMMA FileFirst ==
  ASSUME NEW w \in Strings
  PROVE  LET s == Wrap("seq", w)
         IN Starts(s, "seq") /\ Rest(s) = <<>> /\ Body(s) = Lift(w, 1) /\ s \in Strings
  <1> DEFINE s == Wrap("seq", w)
  <1>1. "seq" \in Values /\ <<>> \in Strings /\ 0 \in Nat
    BY ValuesAre, EmptySeq DEF Strings
  <1>2. Parses(Lift(s, 0), Node("seq", "", "", 0, 0), Lift(w, 0 + 1), <<>>) /\ s \in Elements
    BY <1>1, SeqFirst
  <1> HIDE DEF s
  <1>3. Lift(s, 0) = s
    BY <1>2, LiftNone DEF Elements
  <1>4. 0 + 1 = 1
    OBVIOUS
  <1>5. Parses(s, Node("seq", "", "", 0, 0), Lift(w, 1), <<>>)
    BY <1>2, <1>3, <1>4
  <1>6. s \in Strings
    BY <1>1, <1>2, Together
  <1> QED BY <1>5, <1>6 DEF Parses, Alike, Node, Starts, s

(* The public key of a file, from its algorithm and its point.             *)
LEMMA PublicParts ==
  ASSUME NEW algorithm \in Strings, NEW fp \in Fields, NEW x \in Values,
         NEW form \in PointForms \cup {"edwards"},
         NEW s, s = Wrap("seq", Wrap("seq", algorithm) \o PointString("bit", fp, x, form))
  PROVE  /\ Starts(s, "seq") /\ Rest(s) = <<>> /\ Starts(Body(s), "seq")
         /\ Body(Body(s)) = Lift(algorithm, 2)
         /\ Parses(Rest(Body(s)), Node("bit", fp, form, x, PointLen("bit", fp, form)), <<>>, <<>>)
  <1> DEFINE point == PointString("bit", fp, x, form)
             r == Node("bit", fp, form, x, PointLen("bit", fp, form))
             a == Wrap("seq", algorithm)
             w == a \o point
  <1>1. "bit" \in {"oct", "bit"} /\ 1 \in Nat /\ 1 + 1 = 2 /\ "seq" \in Values
    <2>1. "bit" \in {"oct", "bit"} /\ 1 \in Nat /\ 1 + 1 = 2
      OBVIOUS
    <2> QED BY <2>1, ValuesAre, Zenon
  <1>2. point \in Elements /\ point \in Strings
    BY <1>1, Pieces, Together
  <1>3. Parses(Lift(point, 1), r, <<>>, <<>>)
    BY <1>1, <1>2, PointFirst, Zenon
  <1>0. s = Wrap("seq", w)
    OBVIOUS
  <1> HIDE DEF point, r
  <1>4. /\ a \in Elements
        /\ Parses(Lift(w, 1), Node("seq", "", "", 0, 0), Lift(algorithm, 1 + 1), Lift(point, 1))
    BY <1>1, <1>2, SeqFirst
  <1> HIDE DEF a
  <1>5. w \in Strings
    BY <1>2, <1>4, Together
  <1> HIDE DEF w
  <1>6. Starts(s, "seq") /\ Rest(s) = <<>> /\ Body(s) = Lift(w, 1)
    BY <1>0, <1>5, FileFirst
  <1>7. Starts(Lift(w, 1), "seq") /\ Body(Lift(w, 1)) = Lift(algorithm, 2) /\ Rest(Lift(w, 1)) = Lift(point, 1)
    BY <1>1, <1>4 DEF Parses, Alike, Node, Starts
  <1> QED BY <1>3, <1>6, <1>7 DEF r

(* VerifyingKey.from_der reads what VerifyingKey.to_der writes.            *)
PublicAllowed(c, form, asked, forms, valid) ==
    Edwards(c) \/ (Allowed(c, asked, valid) /\ (forms = {} \/ form \in forms))

LEMMA LibraryOids ==
  ASSUME NEW s
  PROVE  /\ s[1].name = "ecPublicKey" => ~ IsEdOid(s)
         /\ \A c \in Known : Edwards(c) /\ s[1].name = c.oid => IsEdOid(s) /\ EdCurve(s) = c
  <1>1. s[1].name = "ecPublicKey" => ~ IsEdOid(s)
    BY LibraryAssumption DEF IsEdOid, EdCurves
  <1>2. ASSUME NEW c \in Known, Edwards(c) /\ s[1].name = c.oid PROVE IsEdOid(s) /\ EdCurve(s) = c
    <2>1. c \in Library
      BY <1>2, KnownIs
    <2> QED BY <1>2, <2>1, LibraryAssumption DEF IsEdOid, EdCurve, EdCurves
  <1> QED BY <1>1, <1>2

LEMMA PublicBackEdwards ==
  ASSUME NEW k, GoodKey(k), Edwards(k.curve), NEW form, form # "raw", NEW asked, NEW forms, NEW valid
  PROVE  LET s == PublicToDer(VerifyingKey(k), form, asked).string
             r == ReadPublic(s, forms, valid)
         IN /\ r.error = "" /\ GoodKey(r.key) /\ SameKey(r.key, VerifyingKey(k))
            /\ ReadPrivate(s, valid).error # ""
  <1> DEFINE s == PublicToDer(VerifyingKey(k), form, asked).string
             r == ReadPublic(s, forms, valid)
  <1>1. PICK c \in Known : c = k.curve
    BY DEF GoodKey
  <1> DEFINE o == Oid(c.oid)
             node == Node("bit", c.fp, "edwards", k.point, PointLen("bit", c.fp, "edwards"))
             p == Key("public", c, 0, k.point)
  <1>2. k.point \in Values /\ c.fp \in Fields /\ c.oid \in Values /\ Edwards(c)
    <2>1. k.point \in Int
      BY DEF GoodKey
    <2>2. k.point \in Values
      BY <2>1, ValuesAre, Zenon
    <2> QED BY <1>1, <2>2, KnownIs
  <1>3. s = Wrap("seq", Wrap("seq", o) \o PointString("bit", c.fp, k.point, "edwards"))
    <2>1. VerifyingKey(k).curve = c /\ VerifyingKey(k).point = k.point
      BY <1>1, KeyIs DEF VerifyingKey
    <2>2. PublicToDer(VerifyingKey(k), form, asked) =
            Written(Wrap("seq", Wrap("seq", o) \o PointString("bit", c.fp, k.point, "edwards")))
      BY <1>2, <2>1, Zenon DEF PublicToDer, FormOf
    <2> QED BY <2>2, ReadIs, Zenon
  <1>4. o \in Elements /\ o \in Strings /\ <<>> \in Strings
    <2>1. o \in Elements /\ <<>> \in Strings
      BY <1>2, Pieces, EmptySeq DEF Strings
    <2> HIDE DEF o
    <2> QED BY <2>1, Together
  <1>5. "edwards" \in PointForms \cup {"edwards"} /\ 2 \in Nat
    OBVIOUS
  <1>6. Parses(Lift(o, 2), Node("oid", c.oid, "", 0, 0), <<>>, <<>>)
    BY <1>2, <1>4, <1>5, OidFirst
  <1>7. /\ Starts(s, "seq") /\ Rest(s) = <<>> /\ Starts(Body(s), "seq")
        /\ Body(Body(s)) = Lift(o, 2) /\ Parses(Rest(Body(s)), node, <<>>, <<>>)
    <2>1. c.fp \in Fields /\ k.point \in Values /\ o \in Strings /\ "edwards" \in PointForms \cup {"edwards"}
      BY <1>2, <1>4, <1>5
    <2> HIDE DEF o, s
    <2> QED BY <1>3, <2>1, PublicParts
  <1> HIDE DEF s, r, o
  <1> DEFINE algorithm == Body(Body(s))  point == Rest(Body(s))
  <1>8. Starts(algorithm, "oid") /\ algorithm[1].name = c.oid
    BY <1>6, <1>7 DEF Parses, Alike, Node, Starts
  <1>9. /\ Starts(point, "bit") /\ Rest(point) = <<>> /\ point[1].name = c.fp /\ point[1].tag = "bit"
        /\ point[1].form = "edwards" /\ point[1].num = k.point
        /\ point[1].len = PointLen("bit", c.fp, "edwards")
    BY <1>7 DEF Parses, Alike, Node, Starts
  <1>10. IsEdOid(algorithm) /\ EdCurve(algorithm) = c
    BY <1>2, <1>8, LibraryOids
  <1>11. r = PublicFromString(point[1], c, {})
    BY <1>7, <1>8, <1>9, <1>10, Zenon DEF ReadPublic, r
  <1> HIDE DEF algorithm, point
  <1>12. PublicFromString(point[1], c, {}) = KeyRead(p)
    <2>1. PointFits(point[1], c.fp, {"edwards"})
      BY <1>9 DEF PointFits
    <2> QED BY <1>2, <1>9, <2>1 DEF PublicFromString
  <1>13. GoodKey(p) /\ SameKey(p, VerifyingKey(k))
    <2>1. Same(c, k.curve)
      BY <1>1 DEF Same
    <2> QED BY <2>1, PublicGood, Zenon
  <1>14. ReadPrivate(s, valid).error # ""
    <2>1. ~ Starts(Body(s), "int")
      BY <1>7 DEF Starts
    <2>2. ReadPrivate(s, valid) = KeyError("UnexpectedDER")
      BY <2>1, Zenon DEF ReadPrivate
    <2>3. KeyError("UnexpectedDER").error # ""
      BY DEF KeyError
    <2> QED BY <2>2, <2>3
  <1> HIDE DEF p
  <1>15. r.error = "" /\ r.key = p
    BY <1>11, <1>12, ReadIs
  <1> QED BY <1>13, <1>14, <1>15 DEF s, r

Succeeds(w) == w.error = ""

PublicComesBack(k, form, asked, forms, valid) ==
    LET s == PublicToDer(VerifyingKey(k), form, asked).string
        r == ReadPublic(s, forms, valid)
    IN /\ IF Allowed(k.curve, asked, valid) /\ (forms = {} \/ form \in forms)
          THEN r.error = "" /\ GoodKey(r.key) /\ SameKey(r.key, VerifyingKey(k))
          ELSE r.error \in {"UnexpectedDER", "MalformedPointError"}
       /\ ReadPrivate(s, valid).error # ""

LEMMA PublicBack ==
  ASSUME NEW k, GoodKey(k), ~ Edwards(k.curve), NEW form \in PointForms, NEW asked \in Asked,
         NEW forms \in ValidForms, NEW valid \in ValidCurves,
         Succeeds(PublicToDer(VerifyingKey(k), form, asked))
  PROVE  PublicComesBack(k, form, asked, forms, valid)
  <1> DEFINE s == PublicToDer(VerifyingKey(k), form, asked).string
             r == ReadPublic(s, forms, valid)
  <1>1. PICK c \in Known : c = k.curve
    BY DEF GoodKey
  <1> DEFINE params == CurveToDer(c, asked, form)
             t == params.string
             o == Oid("ecPublicKey")
             w == o \o t
             d == ReadCurve(Lift(t, 2), valid).curve
             accepted == IF forms = {} THEN PointForms ELSE forms
             node == Node("bit", c.fp, form, k.point, PointLen("bit", c.fp, form))
  <1>2. /\ k.point \in Values /\ c.fp \in Fields /\ ~ Edwards(c) /\ "ecPublicKey" \in Values
        /\ form \in PointForms \cup {"edwards"} /\ form # "raw" /\ 2 \in Nat
    <2>2. k.point \in Values
      BY GoodIs
    <2>3. "ecPublicKey" \in Values
      BY ValuesAre
    <2>4. form # "raw" /\ 2 \in Nat
      BY DEF PointForms
    <2> QED BY <1>1, <2>2, <2>3, <2>4, KnownIs
  <1>3. params.error = "" /\ s = Wrap("seq", Wrap("seq", w) \o PointString("bit", c.fp, k.point, form))
    <2>1. VerifyingKey(k).curve = c /\ VerifyingKey(k).point = k.point /\ FormOf(c, form) = form
      BY <1>1, <1>2, GoodIs DEF FormOf
    <2>2. PublicToDer(VerifyingKey(k), form, asked) =
            IF params.error # "" THEN params
            ELSE Written(Wrap("seq", Wrap("seq", w) \o PointString("bit", c.fp, k.point, form)))
      BY <1>2, <2>1, Zenon DEF PublicToDer
    <2> HIDE DEF params, w
    <2>3. params.error = ""
      BY <2>2 DEF Succeeds
    <2> QED BY <2>2, <2>3, ReadIs, Zenon
  <1>4. /\ t \in Elements
        /\ IF Allowed(c, asked, valid)
           THEN /\ ReadCurve(Lift(t, 2), valid).error = "" /\ d \in Known /\ Same(d, c)
           ELSE ReadCurve(Lift(t, 2), valid).error = "UnexpectedDER"
    BY <1>2, <1>3, CurveBack
  <1> HIDE DEF params, t
  <1>5. t \in Strings /\ w \in Strings
    <2>1. t \in Strings /\ o \in Elements
      <3>1. <<>> \in Strings
        BY EmptySeq DEF Strings
      <3> QED BY <1>2, <1>4, <3>1, Pieces, Together
    <2> HIDE DEF o
    <2> QED BY <2>1, Together
  <1>6. Parses(Lift(w, 2), Node("oid", "ecPublicKey", "", 0, 0), <<>>, Lift(t, 2))
    BY <1>2, <1>5, OidFirst
  <1> HIDE DEF w
  <1>7. /\ Starts(s, "seq") /\ Rest(s) = <<>> /\ Starts(Body(s), "seq")
        /\ Body(Body(s)) = Lift(w, 2) /\ Parses(Rest(Body(s)), node, <<>>, <<>>)
    <2>1. c.fp \in Fields /\ k.point \in Values /\ w \in Strings /\ form \in PointForms \cup {"edwards"}
      BY <1>2, <1>5
    <2>2. s = Wrap("seq", Wrap("seq", w) \o PointString("bit", c.fp, k.point, form))
      BY <1>3
    <2> HIDE DEF s
    <2> QED BY ONLY <2>1, <2>2, PublicParts
  <1> HIDE DEF s, r
  <1> DEFINE algorithm == Body(Body(s))  point == Rest(Body(s))
  <1>8. Starts(algorithm, "oid") /\ algorithm[1].name = "ecPublicKey" /\ Rest(algorithm) = Lift(t, 2)
    BY <1>6, <1>7 DEF Parses, Alike, Node, Starts
  <1>9. /\ Starts(point, "bit") /\ Rest(point) = <<>> /\ point[1].name = c.fp /\ point[1].tag = "bit"
        /\ point[1].form = form /\ point[1].num = k.point
        /\ point[1].len = PointLen("bit", c.fp, form)
    BY <1>7 DEF Parses, Alike, Node, Starts
  <1>10. ~ IsEdOid(algorithm)
    BY <1>8, LibraryOids
  <1>11. r = LET read == ReadCurve(Lift(t, 2), valid) IN
             IF read.error # "" THEN KeyError(read.error)
             ELSE IF point[1].len = 1 + KeyLen(read.curve) THEN KeyError("UnexpectedDER")
             ELSE PublicFromString(point[1], read.curve, accepted)
    BY <1>7, <1>8, <1>9, <1>10, Zenon DEF ReadPublic, PointForms, r
  <1> HIDE DEF algorithm, point
  <1>12. ASSUME ~ Allowed(c, asked, valid) PROVE r.error = "UnexpectedDER"
    BY <1>4, <1>11, <1>12, ReadIs
  <1>13. ASSUME Allowed(c, asked, valid)
         PROVE  IF forms = {} \/ form \in forms
                THEN r.error = "" /\ GoodKey(r.key) /\ SameKey(r.key, VerifyingKey(k))
                ELSE r.error = "MalformedPointError"
    <2>1. ReadCurve(Lift(t, 2), valid).error = "" /\ d \in Known /\ Same(d, c)
      BY <1>4, <1>13
    <2> HIDE DEF d
    <2>2. d.fp = c.fp /\ ~ Edwards(d)
      BY <1>2, <2>1 DEF Same, Edwards
    <2>3. point[1].len # 1 + KeyLen(d)
      <3>1. Params[c.fp].plen \in Nat \ {0, 1}
        BY KnownIs
      <3>2. KeyLen(d) = 2 * Params[c.fp].plen
        BY <2>2 DEF KeyLen
      <3>3. point[1].len = FormLen(c.fp, form) + 1
        BY <1>9 DEF PointLen
      <3>4. FormLen(c.fp, form) \in {1 + Params[c.fp].plen, 1 + 2 * Params[c.fp].plen}
        BY DEF FormLen, PointForms
      <3> DEFINE l == Params[c.fp].plen
      <3>5. l \in Nat \ {0, 1} /\ KeyLen(d) = 2 * l
        BY <3>1, <3>2
      <3>6. point[1].len \in {2 + l, 2 + 2 * l}
        <4>1. FormLen(c.fp, form) \in {1 + l, 1 + 2 * l} /\ l \in Nat
          BY <3>1, <3>4
        <4> HIDE DEF l
        <4> QED BY ONLY <3>3, <4>1
      <3> HIDE DEF l
      <3> QED BY ONLY <3>5, <3>6
    <2>4. r = PublicFromString(point[1], d, accepted)
      BY <1>11, <2>1, <2>3 DEF d
    <2>5. PointFits(point[1], d.fp, accepted) <=> form \in accepted
      BY <1>9, <2>2 DEF PointFits
    <2>6. form \in accepted <=> forms = {} \/ form \in forms
      OBVIOUS
    <2> HIDE DEF accepted
    <2>7. CASE form \in accepted
      <3> DEFINE p == Key("public", d, 0, k.point)
      <3>1. PublicFromString(point[1], d, accepted) = PublicOf(d, k.point)
        BY <1>9, <2>2, <2>5, <2>7 DEF PublicFromString
      <3>2. Same(d, k.curve)
        BY <1>1, <2>1
      <3>3. GoodKey(p) /\ SameKey(p, VerifyingKey(k)) /\ PublicOf(d, k.point) = KeyRead(p)
        BY <2>1, <3>2, PublicGood, Zenon
      <3> HIDE DEF p
      <3> QED BY <2>4, <2>6, <2>7, <3>1, <3>3, ReadIs
    <2>8. CASE form \notin accepted
      <3>1. PublicFromString(point[1], d, accepted) = KeyError("MalformedPointError")
        BY <2>2, <2>5, <2>8 DEF PublicFromString
      <3> QED BY <2>4, <2>6, <2>8, <3>1, ReadIs
    <2> QED BY <2>7, <2>8
  <1>14. ReadPrivate(s, valid).error # ""
    <2>1. ~ Starts(Body(s), "int")
      BY <1>7 DEF Starts
    <2>2. ReadPrivate(s, valid) = KeyError("UnexpectedDER")
      BY <2>1, Zenon DEF ReadPrivate
    <2>3. KeyError("UnexpectedDER").error # ""
      BY DEF KeyError
    <2> QED BY <2>2, <2>3
  <1>15. /\ IF Allowed(k.curve, asked, valid) /\ (forms = {} \/ form \in forms)
            THEN r.error = "" /\ GoodKey(r.key) /\ SameKey(r.key, VerifyingKey(k))
            ELSE r.error \in {"UnexpectedDER", "MalformedPointError"}
         /\ ReadPrivate(s, valid).error # ""
    BY <1>1, <1>12, <1>13, <1>14
  <1> QED BY <1>15, Zenon DEF s, r, PublicComesBack

----------------------------------------------------------------------------
(* The private key, on its curve or one that is equal to it.               *)
LEMMA PrivateGood ==
  ASSUME NEW k, GoodKey(k), k.kind = "private", NEW d \in Known, Same(d, k.curve)
  PROVE  LET n == Key("private", d, k.secret, k.point)
         IN /\ GoodKey(n) /\ SameKey(n, k)
            /\ PrivateFromString([num |-> k.secret, len |-> BaseLen(d)], d) = KeyRead(n)
  <1> DEFINE c == k.curve
             n == Key("private", d, k.secret, k.point)
             bytes == [num |-> k.secret, len |-> BaseLen(c)]
             point == IF Edwards(c) THEN ((1 + (k.secret % (c.order - 1))) * c.base) % Size(c)
                      ELSE (k.secret * c.base) % Size(c)
  <1>1. /\ c \in Known /\ k.secret \in Nat /\ k.point \in Nat
        /\ (c.order * k.point) % Size(c) = 0
        /\ PrivateFromString(bytes, c) = KeyRead(k)
    BY DEF GoodKey
  <1>2. /\ d.order = c.order /\ BaseLen(d) = BaseLen(c) /\ Size(d) = Size(c)
        /\ (Edwards(d) <=> Edwards(c)) /\ d.base = c.base
    BY <1>1, SameGroup DEF Same
  <1>3. /\ n.kind = "private" /\ n.curve = d /\ n.secret = k.secret /\ n.point = k.point
    BY KeyIs
  <1>4. bytes.num = k.secret /\ bytes.len = BaseLen(c)
    OBVIOUS
  <1> HIDE DEF bytes
  <1>5. KeyRead(k).error = "" /\ KeyRead(k).key = k
    BY ReadIs
  <1>6. PrivateFromString(bytes, d) = KeyRead(n)
    <2>1. CASE Edwards(c)
      <3>1. KeyRead(k) = KeyRead(Key("private", c, k.secret, point))
        BY <1>1, <1>4, <2>1, Zenon DEF PrivateFromString, EdKey
      <3> HIDE DEF point
      <3>2. k.point = point
        <4>1. k = Key("private", c, k.secret, point)
          BY <3>1, OneKey, Zenon
        <4> QED BY <4>1, KeyIs
      <3>3. PrivateFromString(bytes, d) = EdKey(k.secret, d)
        BY <1>2, <1>4, <2>1 DEF PrivateFromString
      <3>4. EdKey(k.secret, d) = KeyRead(Key("private", d, k.secret, point))
        BY <1>2, <2>1 DEF EdKey, point
      <3> QED BY <3>2, <3>3, <3>4
    <2>2. CASE ~ Edwards(c)
      <3>1. KeyRead(k) = FromSecretExponent(k.secret, c)
        BY <1>1, <1>4, <2>2 DEF PrivateFromString
      <3>2. k.secret \in 1 .. c.order - 1
        <4>1. KeyError("MalformedPointError").error # ""
          BY DEF KeyError
        <4> QED BY <1>5, <2>2, <3>1, <4>1, Zenon DEF FromSecretExponent
      <3>3. KeyRead(k) = KeyRead(Key("private", c, k.secret, point))
        BY <2>2, <3>1, <3>2, Zenon DEF FromSecretExponent
      <3> HIDE DEF point
      <3>4. k.point = point
        <4>1. k = Key("private", c, k.secret, point)
          BY <3>3, OneKey, Zenon
        <4> QED BY <4>1, KeyIs
      <3>5. PrivateFromString(bytes, d) = FromSecretExponent(k.secret, d)
        BY <1>2, <1>4, <2>2 DEF PrivateFromString
      <3>6. FromSecretExponent(k.secret, d) = KeyRead(Key("private", d, k.secret, point))
        BY <1>2, <2>2, <3>2 DEF FromSecretExponent, point
      <3> QED BY <3>4, <3>5, <3>6
    <2> QED BY <2>1, <2>2
  <1>7. bytes = [num |-> k.secret, len |-> BaseLen(d)] /\ bytes = [num |-> n.secret, len |-> BaseLen(n.curve)]
    BY <1>2, <1>3 DEF bytes
  <1> HIDE DEF n
  <1>8. GoodKey(n)
    <2>1. (n.curve.order * n.point) % Size(n.curve) = 0
      BY <1>1, <1>2, <1>3
    <2>2. PrivateFromString([num |-> n.secret, len |-> BaseLen(n.curve)], n.curve) = KeyRead(n)
      BY <1>3, <1>6, <1>7
    <2>3. n.kind # "public"
      BY <1>3
    <2>4. n.secret \in Nat /\ n.point \in Nat /\ n.curve \in Known /\ n.kind \in {"private", "public"}
      BY <1>1, <1>3
    <2> QED BY <2>1, <2>2, <2>3, <2>4, Zenon DEF GoodKey
  <1>9. SameKey(n, k)
    BY <1>3 DEF SameKey
  <1> QED BY <1>6, <1>7, <1>8, <1>9 DEF n

FourFromLeft(a, b, c, d)  == a \o b \o c \o d
FourFromRight(a, b, c, d) == a \o (b \o (c \o d))

LEMMA FourInARow ==
  ASSUME NEW S, NEW a, NEW b, NEW c, NEW d
  PROVE  {a, b, c, d} \subseteq Seq(S) => FourFromLeft(a, b, c, d) = FourFromRight(a, b, c, d)
  <1>1. SUFFICES ASSUME {a, b, c, d} \subseteq Seq(S)
                 PROVE  FourFromLeft(a, b, c, d) = FourFromRight(a, b, c, d)
    OBVIOUS
  <1>2. ASSUME NEW x, NEW y, x \in Seq(S) /\ y \in Seq(S) PROVE x \o y \in Seq(S)
    BY <1>2, ConcatProperties
  <1>3. ASSUME NEW x, NEW y, NEW z, x \in Seq(S) /\ y \in Seq(S) /\ z \in Seq(S)
        PROVE  (x \o y) \o z = x \o (y \o z)
    BY <1>3, ConcatAssociative
  <1> DEFINE Q == Seq(S)  J(x, y) == x \o y
  <1>4. a \in Q /\ b \in Q /\ c \in Q /\ d \in Q
    BY <1>1
  <1>5. /\ \A x, y \in Q : J(x, y) \in Q
        /\ \A x, y, z \in Q : J(J(x, y), z) = J(x, J(y, z))
    BY <1>2, <1>3
  <1> HIDE DEF Q, J
  <1>6. J(J(J(a, b), c), d) = J(a, J(b, J(c, d)))
    BY <1>4, <1>5
  <1> QED BY <1>6 DEF J, FourFromLeft, FourFromRight

ThreeFromLeft(a, b, c)  == a \o b \o c
ThreeFromRight(a, b, c) == a \o (b \o c)

LEMMA ThreeInARow ==
  ASSUME NEW S, NEW a, NEW b, NEW c
  PROVE  {a, b, c} \subseteq Seq(S) => ThreeFromLeft(a, b, c) = ThreeFromRight(a, b, c)
  BY ConcatAssociative DEF ThreeFromLeft, ThreeFromRight

(* The elements an ECPrivateKey begins with.                               *)
LEMMA ECParts ==
  ASSUME NEW x \in Values, NEW y \in Values, NEW rest \in Strings, NEW n \in Nat, NEW v,
         v = Lift(Number(1) \o (Octets(x, y) \o rest), n)
  PROVE  /\ Number(1) \o (Octets(x, y) \o rest) \in Strings
         /\ Starts(v, "int") /\ v[1].num = 1 /\ Starts(Rest(v), "oct") /\ ~ Starts(Rest(v), "seq")
         /\ Bytes(Rest(v)) = [num |-> x, len |-> y] /\ Rest(Rest(v)) = Lift(rest, n)
  <1> DEFINE o == Octets(x, y)
             t == o \o rest
             w == Number(1) \o t
  <1>1. 1 \in Values
    <2>1. 1 \in Int
      OBVIOUS
    <2> QED BY <2>1, ValuesAre, Zenon
  <1>2. Number(1) \in Elements /\ o \in Elements
    BY <1>1, Pieces
  <1>3. Parses(Lift(t, n), Node("oct", "", "", x, y), <<>>, Lift(rest, n))
    BY OctetsFirst
  <1> HIDE DEF o
  <1>4. t \in Strings
    BY <1>2, Together
  <1> HIDE DEF t
  <1>5. w \in Strings
    BY <1>2, <1>4, Together
  <1>6. Parses(Lift(w, n), Node("int", "", "", 1, 0), <<>>, Lift(t, n))
    BY <1>1, <1>4, NumberFirst
  <1>7. v = Lift(w, n)
    BY DEF t, o
  <1> HIDE DEF w
  <1>8. Starts(v, "int") /\ v[1].num = 1 /\ Rest(v) = Lift(t, n)
    BY <1>6, <1>7 DEF Parses, Alike, Node, Starts
  <1>9. /\ Starts(Rest(v), "oct") /\ ~ Starts(Rest(v), "seq") /\ Rest(Rest(v)) = Lift(rest, n)
        /\ Body(Rest(v)) = <<>> /\ Rest(v)[1].num = x /\ Rest(v)[1].len = y
    BY <1>3, <1>8 DEF Parses, Alike, Node, Starts
  <1>10. Bytes(Rest(v)) = [num |-> x, len |-> y]
    BY <1>9, Zenon DEF Bytes
  <1> QED BY <1>5, <1>8, <1>9, <1>10 DEF w, t, o

(* A OneAsymmetricKey: its version, algorithm and private key.             *)
LEMMA Pkcs8String ==
  ASSUME NEW x \in Values, NEW algorithm \in Strings, NEW inner \in Strings
  PROVE  Wrap("seq", Number(x) \o Wrap("seq", algorithm) \o Wrap("oct", inner)) \in Strings
  <1> DEFINE i == Number(x)
             a == Wrap("seq", algorithm)
             b == Wrap("oct", inner)
             w == i \o a \o b
  <1>1. "seq" \in Values /\ "oct" \in Values /\ <<>> \in Strings /\ 1 \in Nat
    <2>1. 1 \in Nat
      OBVIOUS
    <2> QED BY <2>1, ValuesAre, EmptySeq, Zenon DEF Strings
  <1>2. i \in Elements /\ a \in Elements /\ b \in Elements
    <2>1. a \in Elements /\ b \in Elements
      BY <1>1, SeqFirst, Zenon
    <2> QED BY <2>1, Pieces
  <1> HIDE DEF i, a, b
  <1>3. i \in Seq(Nodes) /\ a \in Seq(Nodes) /\ b \in Seq(Nodes)
    BY <1>2 DEF Elements
  <1>4. i \o a \in Seq(Nodes)
    BY <1>3, ConcatProperties
  <1>5. w \in Seq(Nodes)
    <2> DEFINE v == i \o a
    <2>1. v \in Seq(Nodes)
      BY <1>4
    <2> HIDE DEF v
    <2>2. v \o b \in Seq(Nodes)
      BY <1>3, <2>1, ConcatProperties
    <2> QED BY <2>2 DEF v
  <1> HIDE DEF w
  <1>6. Wrap("seq", w) \in Elements
    BY <1>1, <1>5, WrapIs
  <1>7. Wrap("seq", w) \in Strings
    BY <1>6 DEF Elements, Strings
  <1> QED BY <1>7 DEF w, i, a, b

LEMMA Pkcs8Parts ==
  ASSUME NEW x \in Values, NEW algorithm \in Strings, NEW inner \in Strings, NEW s,
         s = Wrap("seq", Number(x) \o Wrap("seq", algorithm) \o Wrap("oct", inner))
  PROVE  /\ Starts(s, "seq") /\ Rest(s) = <<>>
         /\ Starts(Body(s), "int") /\ Body(s)[1].num = x
         /\ Starts(Rest(Body(s)), "seq") /\ Body(Rest(Body(s))) = Lift(algorithm, 2)
         /\ Starts(Rest(Rest(Body(s))), "oct") /\ Body(Rest(Rest(Body(s)))) = Lift(inner, 2)
  <1> DEFINE i == Number(x)
             a == Wrap("seq", algorithm)
             b == Wrap("oct", inner)
             t == a \o b
             w == i \o t
  <1>1. "seq" \in Values /\ "oct" \in Values /\ <<>> \in Strings
    BY ValuesAre, EmptySeq DEF Strings
  <1>2. 1 \in Nat /\ 1 + 1 = 2
    OBVIOUS
  <1>3. i \in Elements /\ a \in Elements /\ b \in Elements
    <2>1. a \in Elements /\ b \in Elements
      BY <1>1, <1>2, SeqFirst, Zenon
    <2> QED BY <2>1, Pieces
  <1>4. b \in Strings
    BY <1>1, <1>3, Together
  <1>5. Parses(Lift(b, 1), Node("oct", "", "", 0, 0), Lift(inner, 1 + 1), <<>>)
    BY <1>1, <1>2, SeqFirst, Zenon
  <1> HIDE DEF b
  <1>6. Parses(Lift(t, 1), Node("seq", "", "", 0, 0), Lift(algorithm, 1 + 1), Lift(b, 1))
    BY <1>1, <1>2, <1>4, SeqFirst, Zenon
  <1> HIDE DEF a
  <1>7. t \in Strings
    BY <1>3, <1>4, Together
  <1>8. s = Wrap("seq", w)
    <2> HIDE DEF i
    <2>1. Elements \subseteq Seq(Nodes)
      BY DEF Elements
    <2>2. ThreeFromLeft(i, a, b) = ThreeFromRight(i, a, b)
      BY <1>3, <2>1, ThreeInARow
    <2>3. s = Wrap("seq", ThreeFromLeft(i, a, b))
      BY DEF ThreeFromLeft, i, a, b
    <2>4. s = Wrap("seq", ThreeFromRight(i, a, b))
      BY <2>2, <2>3
    <2> QED BY <2>4 DEF ThreeFromRight
  <1> HIDE DEF t
  <1>9. Parses(Lift(w, 1), Node("int", "", "", x, 0), <<>>, Lift(t, 1))
    BY <1>2, <1>7, NumberFirst, Zenon
  <1> HIDE DEF i
  <1>10. w \in Strings
    BY <1>3, <1>7, Together
  <1> HIDE DEF w
  <1>11. Starts(s, "seq") /\ Rest(s) = <<>> /\ Body(s) = Lift(w, 1)
    BY <1>8, <1>10, FileFirst
  <1>12. Starts(Body(s), "int") /\ Body(s)[1].num = x /\ Rest(Body(s)) = Lift(t, 1)
    BY <1>9, <1>11 DEF Parses, Alike, Node, Starts
  <1>13. /\ Starts(Rest(Body(s)), "seq") /\ Body(Rest(Body(s))) = Lift(algorithm, 2)
         /\ Rest(Rest(Body(s))) = Lift(b, 1)
    BY <1>2, <1>6, <1>12 DEF Parses, Alike, Node, Starts
  <1>14. Starts(Rest(Rest(Body(s))), "oct") /\ Body(Rest(Rest(Body(s)))) = Lift(inner, 2)
    BY <1>2, <1>5, <1>13 DEF Parses, Alike, Node, Starts
  <1> QED BY <1>11, <1>12, <1>13, <1>14

(* A reader returns the key k, on its curve or one that is equal to it.    *)
ReadAs(r, k) == r.error = "" /\ GoodKey(r.key) /\ SameKey(r.key, k)

LEMMA AsRead ==
  ASSUME NEW n, GoodKey(n), NEW k, SameKey(n, k)
  PROVE  ReadAs(KeyRead(n), k)
  BY ReadIs, Zenon DEF ReadAs

LEMMA PrivateRead ==
  ASSUME NEW k, GoodKey(k), k.kind = "private", NEW d \in Known, Same(d, k.curve),
         NEW bytes, bytes = [num |-> k.secret, len |-> BaseLen(k.curve)]
  PROVE  /\ ReadAs(PrivateFromString(bytes, d), k)
         /\ ReadAs(PrivateFromString(Padded(bytes, d), d), k)
  <1> DEFINE n == Key("private", d, k.secret, k.point)
  <1>1. k.curve \in Known
    BY GoodIs
  <1>2. BaseLen(k.curve) = BaseLen(d)
    BY <1>1, SameGroup
  <1>3. bytes = [num |-> k.secret, len |-> BaseLen(d)]
    BY <1>2
  <1>4. Padded(bytes, d) = bytes
    BY <1>3 DEF Padded
  <1>5. GoodKey(n) /\ SameKey(n, k) /\ PrivateFromString(bytes, d) = KeyRead(n)
    BY <1>3, PrivateGood
  <1> HIDE DEF n
  <1>6. ReadAs(KeyRead(n), k)
    BY <1>5, AsRead
  <1> QED BY <1>4, <1>5, <1>6

LEMMA ECRead ==
  ASSUME NEW k, GoodKey(k), k.kind = "private", NEW v, Starts(v, "int"), v[1].num = 1,
         Starts(Rest(v), "oct"), Bytes(Rest(v)) = [num |-> k.secret, len |-> BaseLen(k.curve)],
         NEW d \in Known, Same(d, k.curve), NEW outer, NEW valid,
         \/ outer = d
         \/ /\ outer = NoCurve /\ Starts(Rest(Rest(v)), "c0")
            /\ ReadCurve(Body(Rest(Rest(v))), valid).error = ""
            /\ ReadCurve(Body(Rest(Rest(v))), valid).curve = d
  PROVE  ReadAs(ReadECPrivateKey(v, outer, valid), k)
  <1> DEFINE params == IF outer # NoCurve THEN CurveRead(outer)
                       ELSE ReadCurve(Body(Rest(Rest(v))), valid)
             bytes == Bytes(Rest(v))
  <1>1. d # NoCurve
    <2>1. d.fp \in Fields /\ NoCurve.fp = ""
      BY KnownIs DEF NoCurve, Domain
    <2> QED BY <2>1, CurvesAssumption
  <1>2. params.error = "" /\ params.curve = d /\ ~ (outer = NoCurve /\ ~ Starts(Rest(Rest(v)), "c0"))
    BY <1>1 DEF CurveRead
  <1> HIDE DEF params
  <1>3. ReadECPrivateKey(v, outer, valid) = PrivateFromString(Padded(bytes, d), d)
    BY <1>2, Zenon DEF ReadECPrivateKey, params
  <1>4. bytes = [num |-> k.secret, len |-> BaseLen(k.curve)]
    OBVIOUS
  <1> HIDE DEF bytes
  <1> QED BY <1>3, <1>4, PrivateRead, Zenon

LEMMA NoPublicKey ==
  ASSUME NEW s, Starts(Body(s), "int"), NEW forms, NEW valid
  PROVE  ReadPublic(s, forms, valid).error # ""
  <1>1. ~ Starts(Body(s), "seq")
    BY DEF Starts
  <1>2. ReadPublic(s, forms, valid) = KeyError("UnexpectedDER")
    BY <1>1, Zenon DEF ReadPublic
  <1>3. KeyError("UnexpectedDER").error # ""
    BY DEF KeyError
  <1> QED BY <1>2, <1>3

LEMMA PrivateBackEdwards ==
  ASSUME NEW k, GoodKey(k), k.kind = "private", Edwards(k.curve), NEW form, NEW format, NEW asked,
         Succeeds(PrivateToDer(k, form, format, asked)), NEW valid
  PROVE  LET s == PrivateToDer(k, form, format, asked).string
         IN /\ s \in Strings /\ Starts(s, "seq") /\ Starts(Body(s), "int") /\ ReadAs(ReadPrivate(s, valid), k)
  <1> DEFINE s == PrivateToDer(k, form, format, asked).string
             c == k.curve
             o == Oid(c.oid)
             e == Octets(k.secret, BaseLen(c))
  <1>1. s = Wrap("seq", Number(0) \o Wrap("seq", o) \o Wrap("oct", e))
    <2>1. PrivateToDer(k, form, format, asked) =
            IF form = "raw" \/ (Edwards(c) /\ format = "ssleay") THEN Refused("ValueError")
            ELSE Written(Wrap("seq", Number(0) \o Wrap("seq", o) \o Wrap("oct", e)))
      BY Zenon DEF PrivateToDer, PrivateString
    <2>2. ~ (form = "raw" \/ (Edwards(c) /\ format = "ssleay"))
      <3>1. Refused("ValueError").error # ""
        BY DEF Refused
      <3> QED BY <2>1, <3>1 DEF Succeeds
    <2> QED BY <2>1, <2>2, ReadIs, Zenon
  <1>2. c \in Known /\ c.oid \in Values /\ k.secret \in Values /\ BaseLen(c) \in Values
    BY GoodIs, KnownIs
  <1>3. 0 \in Values /\ <<>> \in Strings /\ 2 \in Nat
    <2>1. 0 \in Int /\ 2 \in Nat
      OBVIOUS
    <2> QED BY <2>1, ValuesAre, EmptySeq, Zenon DEF Strings
  <1>4. o \in Strings /\ e \in Strings
    BY <1>2, <1>3, Pieces, Together
  <1>5. Parses(Lift(o, 2), Node("oid", c.oid, "", 0, 0), <<>>, <<>>)
    BY <1>2, <1>3, OidFirst
  <1>6. Parses(Lift(e, 2), Node("oct", "", "", k.secret, BaseLen(c)), <<>>, <<>>)
    BY <1>2, <1>3, OctetsFirst
  <1> HIDE DEF s, o, e
  <1> DEFINE version == Body(s)
             algorithm == Body(Rest(version))
             private == Rest(Rest(version))
             inner == Body(private)
  <1>7. /\ s \in Strings /\ Starts(s, "seq") /\ Rest(s) = <<>>
        /\ Starts(version, "int") /\ version[1].num = 0
        /\ Starts(Rest(version), "seq") /\ algorithm = Lift(o, 2)
        /\ Starts(private, "oct") /\ inner = Lift(e, 2)
    <2>1. 0 \in Values /\ o \in Strings /\ e \in Strings
      BY <1>3, <1>4
    <2>2. /\ Starts(s, "seq") /\ Rest(s) = <<>>
          /\ Starts(Body(s), "int") /\ Body(s)[1].num = 0
          /\ Starts(Rest(Body(s)), "seq") /\ Body(Rest(Body(s))) = Lift(o, 2)
          /\ Starts(Rest(Rest(Body(s))), "oct") /\ Body(Rest(Rest(Body(s)))) = Lift(e, 2)
      BY ONLY <1>1, <2>1, Pkcs8Parts
    <2>3. s \in Strings
      BY ONLY <1>1, <2>1, Pkcs8String
    <2> QED BY <2>2, <2>3
  <1> HIDE DEF algorithm, inner
  <1>8. Starts(algorithm, "oid") /\ algorithm[1].name = c.oid /\ Rest(algorithm) = <<>>
    BY <1>5, <1>7 DEF Parses, Alike, Node, Starts
  <1>9. /\ Starts(inner, "oct") /\ Rest(inner) = <<>> /\ Body(inner) = <<>>
        /\ inner[1].num = k.secret /\ inner[1].len = BaseLen(c)
    BY <1>6, <1>7 DEF Parses, Alike, Node, Starts
  <1>10. Bytes(inner) = [num |-> k.secret, len |-> BaseLen(c)]
    BY <1>9, Zenon DEF Bytes
  <1>11. IsEdOid(algorithm) /\ EdCurve(algorithm) = c
    BY <1>2, <1>8, LibraryOids
  <1>12. ReadPrivate(s, valid) = ReadEdPrivateKey(algorithm, private)
    <2>1. ~ (version[1].num \notin {0, 1} \/ ~ Starts(algorithm, "oid"))
      BY <1>7, <1>8
    <2> QED BY <1>7, <1>11, <2>1, Zenon DEF ReadPrivate, algorithm
  <1>13. ReadEdPrivateKey(algorithm, private) = PrivateFromString(Bytes(inner), c)
    BY <1>7, <1>8, <1>9, <1>11, Zenon DEF ReadEdPrivateKey, inner
  <1>14. Same(c, c)
    BY DEF Same
  <1>15. ReadAs(PrivateFromString(Bytes(inner), c), k)
    BY <1>2, <1>10, <1>14, PrivateRead
  <1> QED BY <1>7, <1>12, <1>13, <1>15 DEF s

(* What an ECPrivateKey holds, with the parameters t in it or without any. *)
ECBody(k, own, form) ==
    Number(1) \o PrivateString(k) \o own
    \o Wrap("c1", PointString("bit", k.curve.fp, k.point, form))

LEMMA ECWritten ==
  ASSUME NEW k, GoodKey(k), NEW form \in PointForms, NEW own, NEW t \in Strings,
         own = <<>> \/ own = Wrap("c0", t), NEW n \in Nat, NEW v, v = Lift(ECBody(k, own, form), n)
  PROVE  /\ ECBody(k, own, form) \in Strings
         /\ Starts(v, "int") /\ v[1].num = 1 /\ Starts(Rest(v), "oct") /\ ~ Starts(Rest(v), "seq")
         /\ Bytes(Rest(v)) = [num |-> k.secret, len |-> BaseLen(k.curve)]
         /\ own = Wrap("c0", t) =>
              Starts(Rest(Rest(v)), "c0") /\ Body(Rest(Rest(v))) = Lift(t, n + 1)
  <1> DEFINE i == Number(1)
             o == Octets(k.secret, BaseLen(k.curve))
             p == PointString("bit", k.curve.fp, k.point, form)
             q == Wrap("c1", p)
             rest == own \o q
             w == i \o (o \o rest)
  <1>1. k.secret \in Values /\ k.point \in Values /\ BaseLen(k.curve) \in Values /\ k.curve.fp \in Fields
    BY GoodIs, KnownIs
  <1>2. "bit" \in {"oct", "bit"} /\ form \in PointForms \cup {"edwards"}
    OBVIOUS
  <1>3. "c0" \in Values /\ "c1" \in Values /\ <<>> \in Strings /\ 1 \in Values
    <2>1. 1 \in Int
      OBVIOUS
    <2> QED BY <2>1, ValuesAre, EmptySeq, Zenon DEF Strings
  <1>4. p \in Elements /\ o \in Elements /\ i \in Elements
    BY <1>1, <1>2, <1>3, Pieces
  <1> HIDE DEF p, o, i
  <1>5. p \in Strings
    BY <1>3, <1>4, Together
  <1>6. q \in Elements
    BY <1>3, <1>5, SeqFirst
  <1> HIDE DEF q
  <1>7. q \in Strings
    BY <1>3, <1>6, Together
  <1>8. /\ own \in Seq(Nodes) /\ rest \in Strings
        /\ own = Wrap("c0", t) =>
             Starts(Lift(rest, n), "c0") /\ Body(Lift(rest, n)) = Lift(t, n + 1)
    <2>1. CASE own = <<>>
      <3>1. q \in Seq(Nodes) /\ own \in Seq(Nodes)
        BY <1>3, <1>7, <2>1 DEF Strings
      <3>2. rest = q
        BY <2>1, <3>1, ConcatEmptySeq
      <3>3. own # Wrap("c0", t)
        <4>1. Wrap("c0", t) \in Elements
          BY <1>3, SeqFirst, Zenon
        <4> QED BY <2>1, <4>1 DEF Elements
      <3> QED BY <1>7, <3>1, <3>2, <3>3
    <2>2. CASE own = Wrap("c0", t)
      <3>1. own \in Elements
        BY <1>3, <2>2, SeqFirst
      <3>2. rest \in Strings /\ own \in Seq(Nodes)
        BY <1>7, <3>1, Together DEF Elements
      <3>3. Parses(Lift(rest, n), Node("c0", "", "", 0, 0), Lift(t, n + 1), Lift(q, n))
        BY <1>3, <1>7, <2>2, SeqFirst
      <3>4. Starts(Lift(rest, n), "c0") /\ Body(Lift(rest, n)) = Lift(t, n + 1)
        BY <3>3 DEF Parses, Alike, Node, Starts
      <3> QED BY <3>2, <3>4
    <2> QED BY <2>1, <2>2
  <1>9. ECBody(k, own, form) = w
    <2>1. {i, o, own, q} \subseteq Seq(Nodes)
      BY <1>4, <1>6, <1>8 DEF Elements
    <2>2. FourFromLeft(i, o, own, q) = FourFromRight(i, o, own, q)
      BY <2>1, FourInARow
    <2>3. ECBody(k, own, form) = FourFromLeft(i, o, own, q)
      BY DEF ECBody, PrivateString, FourFromLeft, i, o, q, p
    <2> QED BY <2>2, <2>3 DEF FourFromRight
  <1> HIDE DEF rest
  <1>10. /\ w \in Strings
         /\ Starts(v, "int") /\ v[1].num = 1 /\ Starts(Rest(v), "oct") /\ ~ Starts(Rest(v), "seq")
         /\ Bytes(Rest(v)) = [num |-> k.secret, len |-> BaseLen(k.curve)]
         /\ Rest(Rest(v)) = Lift(rest, n)
    <2>1. k.secret \in Values /\ BaseLen(k.curve) \in Values /\ rest \in Strings /\ n \in Nat
      BY <1>1, <1>8
    <2>2. v = Lift(Number(1) \o (Octets(k.secret, BaseLen(k.curve)) \o rest), n)
      BY <1>9 DEF i, o
    <2>3. w = Number(1) \o (Octets(k.secret, BaseLen(k.curve)) \o rest)
      BY DEF i, o
    <2> HIDE DEF w
    <2>4. /\ Number(1) \o (Octets(k.secret, BaseLen(k.curve)) \o rest) \in Strings
          /\ Starts(v, "int") /\ v[1].num = 1 /\ Starts(Rest(v), "oct") /\ ~ Starts(Rest(v), "seq")
          /\ Bytes(Rest(v)) = [num |-> k.secret, len |-> BaseLen(k.curve)]
          /\ Rest(Rest(v)) = Lift(rest, n)
      BY ONLY <2>1, <2>2, ECParts
    <2> QED BY <2>3, <2>4, Zenon
  <1> HIDE DEF w
  <1> QED BY <1>8, <1>9, <1>10, Zenon

(* Key files in the format of SSLeay.                                      *)
LEMMA SsleayBack ==
  ASSUME NEW k, GoodKey(k), k.kind = "private", ~ Edwards(k.curve), NEW form \in AllForms,
         NEW asked \in Asked, Succeeds(PrivateToDer(k, form, "ssleay", asked)),
         NEW valid \in ValidCurves
  PROVE  LET s == PrivateToDer(k, form, "ssleay", asked).string
             r == ReadPrivate(s, valid)
         IN /\ s \in Strings /\ Starts(s, "seq") /\ Starts(Body(s), "int")
            /\ IF Allowed(k.curve, asked, valid) THEN ReadAs(r, k) ELSE r.error = "UnexpectedDER"
  <1> DEFINE s == PrivateToDer(k, form, "ssleay", asked).string
             c == k.curve
             params == CurveToDer(c, asked, "uncompressed")
             t == params.string
             own == Wrap("c0", t)
             version == Body(s)
             d == ReadCurve(Lift(t, 2), valid).curve
  <1>1. params.error = "" /\ form # "raw" /\ s = Wrap("seq", ECBody(k, own, form))
    <2>1. PrivateToDer(k, form, "ssleay", asked) =
            IF form = "raw" THEN Refused("ValueError")
            ELSE IF params.error # "" THEN params ELSE Written(Wrap("seq", ECBody(k, own, form)))
      BY Zenon DEF PrivateToDer, ECBody
    <2> HIDE DEF params, own
    <2>2. form # "raw"
      <3>1. Refused("ValueError").error # ""
        BY DEF Refused
      <3> QED BY <2>1, <3>1 DEF Succeeds
    <2>3. params.error = ""
      BY <2>1, <2>2 DEF Succeeds
    <2> QED BY <2>1, <2>2, <2>3, ReadIs, Zenon
  <1>2. c \in Known /\ form \in PointForms /\ "uncompressed" \in PointForms /\ 2 \in Nat
    BY <1>1, GoodIs DEF PointForms, AllForms
  <1>3. /\ t \in Elements
        /\ IF Allowed(c, asked, valid)
           THEN /\ ReadCurve(Lift(t, 2), valid).error = "" /\ d \in Known /\ Same(d, c)
           ELSE ReadCurve(Lift(t, 2), valid).error = "UnexpectedDER"
    BY <1>1, <1>2, CurveBack
  <1> HIDE DEF params, t
  <1>4. t \in Strings
    <2>1. <<>> \in Strings
      BY EmptySeq DEF Strings
    <2> QED BY <1>3, <2>1, Together
  <1>5. 1 \in Nat /\ 1 + 1 = 2
    OBVIOUS
  <1> HIDE DEF own, s
  <1>6. /\ ECBody(k, own, form) \in Strings
        /\ \A v : v = Lift(ECBody(k, own, form), 1) =>
             /\ Starts(v, "int") /\ v[1].num = 1 /\ Starts(Rest(v), "oct") /\ ~ Starts(Rest(v), "seq")
             /\ Bytes(Rest(v)) = [num |-> k.secret, len |-> BaseLen(k.curve)]
             /\ Starts(Rest(Rest(v)), "c0") /\ Body(Rest(Rest(v))) = Lift(t, 1 + 1)
    BY <1>2, <1>4, <1>5, ECWritten DEF own
  <1>7. s \in Strings /\ Starts(s, "seq") /\ Rest(s) = <<>> /\ version = Lift(ECBody(k, own, form), 1)
    BY <1>1, <1>6, FileFirst
  <1> HIDE DEF version
  <1>8. /\ Starts(version, "int") /\ version[1].num = 1 /\ Starts(Rest(version), "oct")
        /\ ~ Starts(Rest(version), "seq")
        /\ Bytes(Rest(version)) = [num |-> k.secret, len |-> BaseLen(k.curve)]
        /\ Starts(Rest(Rest(version)), "c0") /\ Body(Rest(Rest(version))) = Lift(t, 2)
    BY <1>5, <1>6, <1>7
  <1>9. ReadPrivate(s, valid) = ReadECPrivateKey(version, NoCurve, valid)
    BY <1>7, <1>8, Zenon DEF ReadPrivate, version
  <1>10. ASSUME Allowed(c, asked, valid) PROVE ReadAs(ReadPrivate(s, valid), k)
    <2>1. ReadCurve(Lift(t, 2), valid).error = "" /\ d \in Known /\ Same(d, c)
      BY <1>3, <1>10
    <2>2. /\ ReadCurve(Body(Rest(Rest(version))), valid).error = ""
          /\ ReadCurve(Body(Rest(Rest(version))), valid).curve = d
      BY <1>8, <2>1
    <2> HIDE DEF d
    <2> QED BY <1>8, <1>9, <2>1, <2>2, ECRead
  <1>11. ASSUME ~ Allowed(c, asked, valid) PROVE ReadPrivate(s, valid).error = "UnexpectedDER"
    <2>1. ReadCurve(Lift(t, 2), valid).error = "UnexpectedDER"
      BY <1>3, <1>11
    <2>2. ReadECPrivateKey(version, NoCurve, valid) = KeyError("UnexpectedDER")
      BY <1>8, <2>1, Zenon DEF ReadECPrivateKey
    <2> QED BY <1>9, <2>2, ReadIs
  <1> QED BY <1>7, <1>8, <1>10, <1>11 DEF s, version

(* Key files in PKCS #8.                                                   *)
LEMMA Pkcs8Back ==
  ASSUME NEW k, GoodKey(k), k.kind = "private", ~ Edwards(k.curve), NEW form \in AllForms,
         NEW asked \in Asked, Succeeds(PrivateToDer(k, form, "pkcs8", asked)),
         NEW valid \in ValidCurves
  PROVE  LET s == PrivateToDer(k, form, "pkcs8", asked).string
             r == ReadPrivate(s, valid)
         IN /\ s \in Strings /\ Starts(s, "seq") /\ Starts(Body(s), "int")
            /\ IF Allowed(k.curve, asked, valid) THEN ReadAs(r, k) ELSE r.error = "UnexpectedDER"
  <1> DEFINE s == PrivateToDer(k, form, "pkcs8", asked).string
             c == k.curve
             params == CurveToDer(c, asked, "uncompressed")
             t == params.string
             o == Oid("ecPublicKey")
             w == o \o t
             e == ECBody(k, <<>>, form)
             i == Wrap("seq", e)
             d == ReadCurve(Lift(t, 2), valid).curve
  <1>1. /\ params.error = "" /\ form # "raw"
        /\ s = Wrap("seq", Number(1) \o Wrap("seq", w) \o Wrap("oct", i))
    <2>1. PrivateToDer(k, form, "pkcs8", asked) =
            IF form = "raw" THEN Refused("ValueError")
            ELSE IF params.error # "" THEN params
            ELSE Written(Wrap("seq", Number(1) \o Wrap("seq", w) \o Wrap("oct", i)))
      <3>1. "pkcs8" # "ssleay"
        OBVIOUS
      <3> QED BY <3>1, Zenon DEF PrivateToDer, ECBody
    <2> HIDE DEF params, w, i
    <2>2. form # "raw"
      <3>1. Refused("ValueError").error # ""
        BY DEF Refused
      <3> QED BY <2>1, <3>1 DEF Succeeds
    <2>3. params.error = ""
      BY <2>1, <2>2 DEF Succeeds
    <2> QED BY <2>1, <2>2, <2>3, ReadIs, Zenon
  <1>2. c \in Known /\ form \in PointForms /\ "uncompressed" \in PointForms
    BY <1>1, GoodIs DEF PointForms, AllForms
  <1>3. 1 \in Nat /\ 2 \in Nat /\ 3 \in Nat /\ 2 + 1 = 3 /\ 1 \in Int
    OBVIOUS
  <1>4. 1 \in Values /\ "ecPublicKey" \in Values /\ "seq" \in Values
    BY <1>3, ValuesAre, Zenon
  <1>5. /\ t \in Elements
        /\ IF Allowed(c, asked, valid)
           THEN /\ ReadCurve(Lift(t, 2), valid).error = "" /\ d \in Known /\ Same(d, c)
           ELSE ReadCurve(Lift(t, 2), valid).error = "UnexpectedDER"
    BY <1>1, <1>2, <1>3, CurveBack
  <1> HIDE DEF params, t
  <1>6. <<>> \in Strings
    BY EmptySeq DEF Strings
  <1>7. t \in Strings
    BY <1>5, <1>6, Together
  <1>8. Parses(Lift(w, 2), Node("oid", "ecPublicKey", "", 0, 0), <<>>, Lift(t, 2))
    BY <1>3, <1>4, <1>7, OidFirst
  <1>9. w \in Strings
    <2>1. o \in Elements
      BY <1>4, Pieces
    <2> HIDE DEF o
    <2> QED BY <1>7, <2>1, Together
  <1> HIDE DEF w, s
  <1>10. /\ e \in Strings
         /\ \A v : v = Lift(e, 3) =>
              /\ Starts(v, "int") /\ v[1].num = 1 /\ Starts(Rest(v), "oct")
              /\ Bytes(Rest(v)) = [num |-> k.secret, len |-> BaseLen(k.curve)]
    <2> DEFINE own == <<>>
    <2>1. own = <<>> /\ own \in Strings /\ e = ECBody(k, own, form)
      BY <1>6
    <2> HIDE DEF own, e
    <2>2. ASSUME NEW v, v = Lift(ECBody(k, own, form), 3)
          PROVE  /\ ECBody(k, own, form) \in Strings
                 /\ Starts(v, "int") /\ v[1].num = 1 /\ Starts(Rest(v), "oct")
                 /\ Bytes(Rest(v)) = [num |-> k.secret, len |-> BaseLen(k.curve)]
      BY <1>2, <1>3, <2>1, <2>2, ECWritten
    <2> QED BY <2>1, <2>2
  <1> HIDE DEF e
  <1>11. i \in Elements /\ Parses(Lift(i, 2), Node("seq", "", "", 0, 0), Lift(e, 2 + 1), <<>>)
    BY <1>3, <1>4, <1>6, <1>10, SeqFirst, Zenon
  <1> HIDE DEF i
  <1>12. i \in Strings
    BY <1>6, <1>11, Together
  <1> DEFINE version == Body(s)
             algorithm == Body(Rest(version))
             private == Rest(Rest(version))
             inner == Body(private)
  <1>13. /\ s \in Strings /\ Starts(s, "seq") /\ Rest(s) = <<>>
         /\ Starts(version, "int") /\ version[1].num = 1
         /\ Starts(Rest(version), "seq") /\ algorithm = Lift(w, 2)
         /\ Starts(private, "oct") /\ inner = Lift(i, 2)
    <2>1. s = Wrap("seq", Number(1) \o Wrap("seq", w) \o Wrap("oct", i))
      BY <1>1
    <2>2. 1 \in Values /\ w \in Strings /\ i \in Strings
      BY <1>4, <1>9, <1>12
    <2>3. /\ Starts(s, "seq") /\ Rest(s) = <<>>
          /\ Starts(Body(s), "int") /\ Body(s)[1].num = 1
          /\ Starts(Rest(Body(s)), "seq") /\ Body(Rest(Body(s))) = Lift(w, 2)
          /\ Starts(Rest(Rest(Body(s))), "oct") /\ Body(Rest(Rest(Body(s)))) = Lift(i, 2)
      BY ONLY <2>1, <2>2, Pkcs8Parts
    <2>4. s \in Strings
      BY ONLY <2>1, <2>2, Pkcs8String
    <2> QED BY <2>3, <2>4
  <1> HIDE DEF algorithm, inner
  <1>14. Starts(algorithm, "oid") /\ algorithm[1].name = "ecPublicKey" /\ Rest(algorithm) = Lift(t, 2)
    BY <1>8, <1>13 DEF Parses, Alike, Node, Starts
  <1>15. Starts(inner, "seq") /\ Rest(inner) = <<>> /\ Body(inner) = Lift(e, 3)
    BY <1>3, <1>11, <1>13 DEF Parses, Alike, Node, Starts
  <1>16. ~ IsEdOid(algorithm)
    BY <1>14, LibraryOids
  <1>17. ReadPrivate(s, valid) =
           LET read == ReadCurve(Lift(t, 2), valid) IN
           IF read.error # "" THEN KeyError(read.error)
           ELSE ReadECPrivateKey(Lift(e, 3), read.curve, valid)
    <2>1. /\ ~ (version[1].num \notin {0, 1} \/ ~ Starts(algorithm, "oid"))
          /\ ~ (algorithm[1].name \notin {"ecPublicKey", "ecDH", "ecMQV"})
          /\ ~ (~ Starts(s, "seq") \/ Rest(s) # <<>> \/ ~ Starts(version, "int"))
      BY <1>13, <1>14
    <2> QED BY <1>13, <1>14, <1>15, <1>16, <2>1, Zenon DEF ReadPrivate, algorithm, inner
  <1>18. ASSUME Allowed(c, asked, valid) PROVE ReadAs(ReadPrivate(s, valid), k)
    <2>1. ReadCurve(Lift(t, 2), valid).error = "" /\ d \in Known /\ Same(d, c)
      BY <1>5, <1>18
    <2>2. ReadPrivate(s, valid) = ReadECPrivateKey(Lift(e, 3), d, valid)
      BY <1>17, <2>1
    <2> HIDE DEF d
    <2> DEFINE v == Lift(e, 3)
    <2>3. /\ Starts(v, "int") /\ v[1].num = 1 /\ Starts(Rest(v), "oct")
          /\ Bytes(Rest(v)) = [num |-> k.secret, len |-> BaseLen(k.curve)]
      BY <1>10
    <2> HIDE DEF v
    <2>4. ReadAs(ReadECPrivateKey(v, d, valid), k)
      BY <2>1, <2>3, ECRead
    <2> QED BY <2>2, <2>4 DEF v
  <1>19. ASSUME ~ Allowed(c, asked, valid) PROVE ReadPrivate(s, valid).error = "UnexpectedDER"
    <2>1. ReadCurve(Lift(t, 2), valid).error = "UnexpectedDER"
      BY <1>5, <1>19
    <2>2. ReadPrivate(s, valid) = KeyError("UnexpectedDER")
      BY <1>17, <2>1
    <2> QED BY <2>2, ReadIs
  <1> QED BY <1>13, <1>18, <1>19 DEF s

LEMMA PrivateBack ==
  ASSUME NEW k, GoodKey(k), k.kind = "private", NEW form \in AllForms, NEW asked \in Asked,
         NEW format \in {"ssleay", "pkcs8"}, Succeeds(PrivateToDer(k, form, format, asked)),
         NEW valid \in ValidCurves
  PROVE  LET s == PrivateToDer(k, form, format, asked).string
             r == ReadPrivate(s, valid)
         IN /\ s \in Strings /\ Starts(s, "seq") /\ Starts(Body(s), "int")
            /\ IF Edwards(k.curve) \/ Allowed(k.curve, asked, valid) THEN ReadAs(r, k)
               ELSE r.error = "UnexpectedDER"
  <1>1. CASE Edwards(k.curve)
    BY <1>1, PrivateBackEdwards, Zenon
  <1>2. CASE ~ Edwards(k.curve) /\ format = "ssleay"
    BY <1>2, SsleayBack, Zenon
  <1>3. CASE ~ Edwards(k.curve) /\ format = "pkcs8"
    BY <1>3, Pkcs8Back, Zenon
  <1> QED BY <1>1, <1>2, <1>3

----------------------------------------------------------------------------
(* A key that is made is on its curve.                                     *)
LEMMA PointMade ==
  ASSUME NEW c \in Known, NEW m \in Nat
  PROVE  LET point == (m * c.base) % Size(c)
         IN point \in Nat /\ (c.order * point) % Size(c) = 0
  <1> DEFINE size == Size(c)  x == m * c.base  point == x % size  q == x \div size
             y == c.order * c.base  t == y \div size
  <1>1. /\ size \in Nat \ {0} /\ c.base \in Nat /\ c.order \in Nat /\ y % size = 0
    BY KnownIs DEF OrderRight, Size
  <1> HIDE DEF size
  <1>2. x \in Int /\ y \in Int
    BY <1>1
  <1>3. x = size * q + point /\ q \in Int /\ point \in Int /\ 0 <= point
    <2> HIDE DEF x
    <2> QED BY <1>1, <1>2, DivMod
  <1>4. y = size * t /\ t \in Int
    <2>1. y = size * t + (y % size) /\ t \in Int
      <3> HIDE DEF y
      <3> QED BY <1>1, <1>2, DivMod
    <2> HIDE DEF y, t
    <2> QED BY <1>1, <1>2, <2>1
  <1> HIDE DEF point, q, t
  <1>5. c.order * point = (m * t - c.order * q) * size
    <2>1. c.order * x = m * y
      BY <1>1, SMT
    <2>2. c.order * x = c.order * (size * q) + c.order * point
      <3> HIDE DEF x
      <3> QED BY <1>1, <1>3
    <2>3. m * y = m * (size * t)
      BY <1>4
    <2> HIDE DEF x, y
    <2>4. c.order * point = m * (size * t) - c.order * (size * q)
      BY <1>1, <1>3, <1>4, <2>1, <2>2, <2>3
    <2> QED BY <1>1, <1>3, <1>4, <2>4, SMT
  <1>6. m * t - c.order * q \in Int /\ c.order * point \in Int
    BY <1>1, <1>3, <1>4
  <1>7. (c.order * point) % size = 0
    BY <1>1, <1>5, <1>6, MultipleOf, Zenon
  <1> QED BY <1>3, <1>7 DEF point, size

LEMMA MadeGood ==
  ASSUME NEW c \in Curves, NEW num \in Nat, NEW r \in Made(num, c), Succeeds(r)
  PROVE  GoodKey(r.key)
  <1> DEFINE bytes == [num |-> num, len |-> BaseLen(c)]
             k == Key("private", c, num, (num * c.base) % Size(c))
             m == 1 + (num % (c.order - 1))
             e == Key("private", c, num, (m * c.base) % Size(c))
  <1>0. /\ e.kind = "private" /\ e.curve = c /\ e.secret = num /\ e.point = (m * c.base) % Size(c)
        /\ k.kind = "private" /\ k.curve = c /\ k.secret = num /\ k.point = (num * c.base) % Size(c)
    <2> DEFINE x == (m * c.base) % Size(c)  y == (num * c.base) % Size(c)
    <2>1. e = Key("private", c, num, x) /\ k = Key("private", c, num, y)
      BY Zenon
    <2> HIDE DEF x, y, e, k
    <2>2. e.kind = "private" /\ e.curve = c /\ e.secret = num /\ e.point = x
      BY <2>1, KeyIs
    <2>3. k.kind = "private" /\ k.curve = c /\ k.secret = num /\ k.point = y
      BY <2>1, KeyIs
    <2> QED BY <2>2, <2>3 DEF x, y
  <1>1. c \in Known
    BY DEF Known
  <1>2. c.order \in Nat /\ c.order > 1
    BY <1>1, KnownIs DEF OrderRight
  <1>3. m \in Nat
    <2>1. c.order - 1 \in Nat \ {0} /\ num \in Int
      BY <1>2
    <2>2. num % (c.order - 1) \in Int /\ 0 <= num % (c.order - 1)
      BY <2>1, DivMod
    <2> QED BY <2>2
  <1>4. r = FromSecretExponent(num, c) \/ r = PrivateFromString(bytes, c)
    BY DEF Made
  <1>5. bytes.len = BaseLen(c) /\ bytes.num = num
    OBVIOUS
  <1> HIDE DEF bytes
  <1>6. /\ KeyError("ValueError").error # "" /\ KeyError("MalformedPointError").error # ""
    BY DEF KeyError
  <1>7. PrivateFromString(bytes, c) = IF Edwards(c) THEN EdKey(num, c) ELSE FromSecretExponent(num, c)
    BY <1>5 DEF PrivateFromString
  <1>8. CASE Edwards(c)
    <2>1. r = KeyRead(e)
      <3>1. FromSecretExponent(num, c) = KeyError("ValueError")
        BY <1>8 DEF FromSecretExponent
      <3>2. EdKey(num, c) = KeyRead(e)
        BY DEF EdKey
      <3> HIDE DEF e
      <3> QED BY <1>4, <1>6, <1>7, <1>8, <3>1, <3>2 DEF Succeeds
    <2>2. PrivateFromString(bytes, c) = KeyRead(e)
      BY <1>7, <1>8 DEF EdKey
    <2>3. /\ e.kind = "private" /\ e.curve = c /\ e.secret = num /\ e.point = (m * c.base) % Size(c)
      BY <1>0
    <2>4. e.point \in Nat /\ (c.order * e.point) % Size(c) = 0
      BY <1>1, <1>3, <2>3, PointMade
    <2> HIDE DEF e, m
    <2>5. PrivateFromString([num |-> e.secret, len |-> BaseLen(e.curve)], e.curve) = KeyRead(e)
      BY <2>2, <2>3 DEF bytes
    <2>6. GoodKey(e)
      <3>1. e.kind \in {"private", "public"} /\ e.kind # "public"
        BY <2>3
      <3> QED BY <1>1, <2>3, <2>4, <2>5, <3>1, Zenon DEF GoodKey
    <2> QED BY <2>1, <2>6, ReadIs
  <1>9. CASE ~ Edwards(c)
    <2>1. r = FromSecretExponent(num, c)
      BY <1>4, <1>7, <1>9
    <2>2. r = KeyRead(k)
      <3>1. num \in 1 .. c.order - 1
        BY <1>6, <1>9, <2>1, Zenon DEF FromSecretExponent, Succeeds
      <3> QED BY <1>9, <2>1, <3>1 DEF FromSecretExponent
    <2>3. PrivateFromString(bytes, c) = KeyRead(k)
      BY <1>7, <1>9, <2>1, <2>2
    <2>4. /\ k.kind = "private" /\ k.curve = c /\ k.secret = num /\ k.point = (num * c.base) % Size(c)
      BY <1>0
    <2>5. k.point \in Nat /\ (c.order * k.point) % Size(c) = 0
      BY <1>1, <2>4, PointMade
    <2> HIDE DEF k
    <2>6. PrivateFromString([num |-> k.secret, len |-> BaseLen(k.curve)], k.curve) = KeyRead(k)
      BY <2>3, <2>4 DEF bytes
    <2>7. GoodKey(k)
      <3>1. k.kind \in {"private", "public"} /\ k.kind # "public"
        BY <2>4
      <3> QED BY <1>1, <2>4, <2>5, <2>6, <3>1, Zenon DEF GoodKey
    <2> QED BY <2>2, <2>7, ReadIs
  <1> QED BY <1>8, <1>9

(* A string of parameters is no public key, alone or before a string.      *)
LEMMA ParametersNoKey ==
  ASSUME NEW c \in Known, NEW asked \in Asked, Succeeds(CurveToDer(c, asked, "uncompressed")),
         NEW x \in Strings, x # <<>>, NEW forms, NEW valid
  PROVE  LET y == CurveToDer(c, asked, "uncompressed").string
         IN ReadPublic(y, forms, valid).error # "" /\ ReadPublic(y \o x, forms, valid).error # ""
  <1> DEFINE params == CurveToDer(c, asked, "uncompressed")
             y == params.string
             e == ExplicitString(c, "uncompressed")
             z == y \o x
  <1>1. 0 \in Nat /\ "uncompressed" \in PointForms /\ <<>> \in Strings
    BY EmptySeq DEF PointForms, Strings
  <1>2. KeyError("UnexpectedDER").error # ""
    BY DEF KeyError
  <1>3. y \in Elements /\ ReadPublic(y, forms, valid).error # ""
    <2>1. CASE c.oid # "" /\ Encoding(c, asked) = "named_curve"
      <3>1. y = Oid(c.oid)
        BY <2>1, ReadIs, Zenon DEF CurveToDer
      <3>2. c.oid \in Values
        BY KnownIs
      <3>3. y \in Elements
        BY <3>1, <3>2, Pieces
      <3>4. Parses(Lift(y, 0), Node("oid", c.oid, "", 0, 0), <<>>, <<>>)
        BY <1>1, <3>1, <3>2, OidFirst
      <3> HIDE DEF y
      <3>5. Lift(y, 0) = y
        BY <3>3, LiftNone DEF Elements
      <3>6. ~ Starts(y, "seq")
        BY <3>4, <3>5 DEF Parses, Alike, Node, Starts
      <3>7. ReadPublic(y, forms, valid) = KeyError("UnexpectedDER")
        BY <3>6, Zenon DEF ReadPublic
      <3> QED BY <1>2, <3>3, <3>7
    <2>2. CASE ~ (c.oid # "" /\ Encoding(c, asked) = "named_curve")
      <3>1. ~ Edwards(c) /\ Encoding(c, asked) = "explicit"
        <4>1. Refused("UnknownCurveError").error # ""
          BY DEF Refused
        <4>2. ~ (Encoding(c, asked) = "named_curve" \/ Edwards(c))
          BY <2>2, <4>1, Zenon DEF CurveToDer, Succeeds
        <4> QED BY <4>2, EncodingIs
      <3>2. params = Written(Wrap("seq", e))
        BY <1>1, <3>1, ExplicitWritten
      <3>3. y = Wrap("seq", e) /\ "seq" \in Values
        <4> HIDE DEF e, params
        <4> QED BY <3>2, ReadIs, ValuesAre
      <3> DEFINE rest == Wrap("seq", Oid("prime-field") \o Number(Params[c.fp].p))
                           \o (Wrap("seq", Octets(Params[c.fp].a, Params[c.fp].plen)
                                           \o Octets(Params[c.fp].b, Params[c.fp].plen))
                                \o (PointString("oct", c.fp, c.base, "uncompressed")
                                     \o (Number(c.order)
                                          \o (IF c.cofactor # 0 THEN Number(c.cofactor) ELSE <<>>))))
      <3>4. rest \in Strings /\ e = Number(1) \o rest /\ e \in Strings
        BY <1>1, ExplicitParts, Zenon
      <3> HIDE DEF rest, e, y
      <3>5. 1 \in Values /\ 1 \in Nat
        <4>1. 1 \in Int /\ 1 \in Nat
          OBVIOUS
        <4> QED BY <4>1, ValuesAre, Zenon
      <3>6. Starts(y, "seq") /\ Body(y) = Lift(e, 1)
        BY <3>3, <3>4, FileFirst
      <3>7. Parses(Lift(e, 1), Node("int", "", "", 1, 0), <<>>, Lift(rest, 1))
        BY <3>4, <3>5, NumberFirst
      <3>8. Starts(Body(y), "int")
        BY <3>6, <3>7 DEF Parses, Alike, Node, Starts
      <3>9. y \in Elements
        BY <1>1, <3>3, <3>4, SeqFirst
      <3> QED BY <3>8, <3>9, NoPublicKey
    <2> QED BY <2>1, <2>2
  <1> HIDE DEF y, params
  <1>4. z \in Strings
    BY <1>3, Together
  <1>5. Rest(Lift(z, 0)) = Lift(x, 0)
    BY <1>1, <1>3, FirstElement
  <1>6. Lift(x, 0) = x /\ Lift(z, 0) = z
    BY <1>4, LiftNone DEF Strings
  <1> HIDE DEF z
  <1>7. Rest(z) # <<>>
    BY <1>5, <1>6
  <1>8. ReadPublic(z, forms, valid) = KeyError("UnexpectedDER")
    BY <1>7, Zenon DEF ReadPublic
  <1>9. ReadPublic(z, forms, valid).error # ""
    BY <1>2, <1>8
  <1> QED BY <1>3, <1>9 DEF y, z, params

----------------------------------------------------------------------------
(* PEM: the section of the key is the last, behind one of parameters or    *)
(* none.                                                                   *)
PrivateHeaders == {"EC PRIVATE KEY", "PRIVATE KEY"}
IsParameters(section) == section.header = "EC PARAMETERS"

LEMMA LastSection ==
  ASSUME NEW T, NEW f \in Seq(T), NEW n \in {1, 2}, Len(f) = n
  PROVE  Len(From(f, n)) = 1 /\ From(f, n)[1] = f[n]
  <1> DEFINE g == From(f, n)
  <1>1. n \in Int /\ n <= n /\ n - n + 1 = 1 /\ 1 \in 1 .. 1 /\ n + 1 - 1 = n
    OBVIOUS
  <1>2. \A i \in n .. n : f[i] \in T
    <2>1. \A i \in n .. n : i \in 1 .. Len(f)
      OBVIOUS
    <2> QED BY <2>1, ElementOfSeq
  <1>3. g = SubSeq(f, n, n)
    BY DEF From
  <1>4. /\ Len(SubSeq(f, n, n)) = (IF n <= n THEN n - n + 1 ELSE 0)
        /\ \A i \in 1 .. n - n + 1 : SubSeq(f, n, n)[i] = f[n + i - 1]
    BY <1>1, <1>2, SubSeqProperties
  <1> HIDE DEF g
  <1>5. Len(g) = 1 /\ g[1] = f[n]
    BY <1>1, <1>3, <1>4
  <1> QED BY <1>5 DEF g

LEMMA PemPrivate ==
  ASSUME NEW T, NEW f \in Seq(T), NEW n \in {1, 2}, Len(f) = n, NEW x,
         NEW h \in PrivateHeaders, f[n] = Section(h, x),
         n = 2 => IsParameters(f[1]), NEW padding, NEW valid
  PROVE  ReadPrivatePem(f, padding, valid) = ReadPrivate(x, valid)
  <1> DEFINE ec == FirstWith(f, "EC PRIVATE KEY")
             pkcs8 == FirstWith(f, "PRIVATE KEY")
             found == IF ec # {} THEN ec ELSE pkcs8
             g == From(f, n)
  <1>1. f[n].header = h /\ f[n].string = x
    BY DEF Section
  <1>2. ASSUME NEW header \in PrivateHeaders
        PROVE  FirstWith(f, header) = IF header = h THEN {n} ELSE {}
    <2>1. \A q : IsParameters(q) => q.header # header
      BY DEF IsParameters, PrivateHeaders
    <2>2. \A i \in 1 .. n : f[i].header = header => i = n /\ header = h
      <3>1. CASE n = 1
        <4>1. \A i \in 1 .. 1 : i = 1
          OBVIOUS
        <4> QED BY <1>1, <3>1, <4>1
      <3>2. CASE n = 2
        <4>1. \A i \in 1 .. 2 : i = 1 \/ i = 2
          OBVIOUS
        <4> QED BY <1>1, <2>1, <3>2, <4>1
      <3> QED BY <3>1, <3>2
    <2>3. n \in 1 .. n /\ \A j \in 1 .. n - 1 : j \in 1 .. n /\ j # n
      OBVIOUS
    <2>4. FirstWith(f, header) =
            {i \in 1 .. n : f[i].header = header /\ \A j \in 1 .. i - 1 : f[j].header # header}
      BY DEF FirstWith
    <2>5. CASE header = h
      <3>1. \A j \in 1 .. n - 1 : f[j].header # header
        BY <2>2, <2>3
      <3> QED BY <1>1, <2>2, <2>3, <2>4, <2>5, <3>1
    <2>6. CASE header # h
      BY <2>2, <2>4, <2>6
    <2> QED BY <2>5, <2>6
  <1>3. found = {n}
    <2>1. ec = (IF "EC PRIVATE KEY" = h THEN {n} ELSE {}) /\ pkcs8 = (IF "PRIVATE KEY" = h THEN {n} ELSE {})
      BY <1>2 DEF PrivateHeaders
    <2> HIDE DEF ec, pkcs8
    <2> QED BY <2>1 DEF PrivateHeaders
  <1> HIDE DEF ec, pkcs8
  <1>4. (CHOOSE i \in found : TRUE) = n /\ found # {}
    BY <1>3
  <1> HIDE DEF found
  <1>5. Len(g) = 1 /\ g[1] = f[n]
    BY LastSection
  <1> HIDE DEF g
  <1>6. Unpem(g, padding) = x
    BY <1>1, <1>5, Zenon DEF Unpem
  <1> QED BY <1>4, <1>6, Zenon DEF ReadPrivatePem, found, g, ec, pkcs8

(* The sections of a file, and the keys that are not sought.               *)
LEMMA SectionsAre ==
  ASSUME NEW p, NEW q
  PROVE  /\ <<>> \o <<q>> = <<q>> /\ <<p>> \o <<q>> = <<p, q>>
         /\ <<q>> \in Seq({p, q}) /\ Len(<<q>>) = 1 /\ <<q>>[1] = q
         /\ <<p, q>> \in Seq({p, q}) /\ Len(<<p, q>>) = 2 /\ <<p, q>>[1] = p /\ <<p, q>>[2] = q
  <1> DEFINE T == {p, q}
  <1>1. p \in T /\ q \in T
    OBVIOUS
  <1> HIDE DEF T
  <1>2. /\ <<q>> \in Seq(T) /\ Len(<<q>>) = 1 /\ <<q>>[1] = q
        /\ <<p>> \in Seq(T) /\ Len(<<p>>) = 1 /\ <<p>>[1] = p
        /\ <<p, q>> \in Seq(T) /\ Len(<<p, q>>) = 2 /\ <<p, q>>[1] = p /\ <<p, q>>[2] = q
    BY <1>1
  <1>3. <<>> \o <<q>> = <<q>>
    BY <1>2, ConcatEmptySeq
  <1>4. <<p>> \o <<q>> = <<p, q>>
    <2> DEFINE a == <<p>>  b == <<q>>  c == <<p, q>>
    <2>1. /\ a \in Seq(T) /\ b \in Seq(T) /\ c \in Seq(T) /\ Len(a) = 1 /\ Len(b) = 1 /\ Len(c) = 2
          /\ a[1] = p /\ b[1] = q /\ c[1] = p /\ c[2] = q
      BY <1>2
    <2> HIDE DEF a, b, c
    <2>2. /\ a \o b \in Seq(T) /\ Len(a \o b) = Len(a) + Len(b)
          /\ \A i \in 1 .. Len(a) + Len(b) : (a \o b)[i] = IF i <= Len(a) THEN a[i] ELSE b[i - Len(a)]
      BY <2>1, ConcatProperties
    <2>3. \A i \in 1 .. 2 : i = 1 \/ (i = 2 /\ ~ (i <= 1) /\ i - 1 = 1)
      OBVIOUS
    <2>4. Len(a \o b) = Len(c) /\ \A i \in 1 .. Len(c) : (a \o b)[i] = c[i]
      BY <2>1, <2>2, <2>3
    <2> DEFINE ab == a \o b
    <2>5. ab \in Seq(T) /\ Len(ab) = Len(c) /\ \A i \in 1 .. Len(ab) : ab[i] = c[i]
      BY <2>2, <2>4
    <2> HIDE DEF ab
    <2>6. ab = c
      BY <2>1, <2>5, SeqEqual
    <2> QED BY <2>6 DEF a, b, c, ab
  <1> QED BY <1>2, <1>3, <1>4 DEF T

ParametersSection(y) == <<Section("EC PARAMETERS", y)>>

OnlyPrivate(f, x, before, y) ==
    /\ f[Len(f)].string = x
    /\ \A padding, valid : ReadPrivatePem(f, padding, valid) = ReadPrivate(x, valid)
    /\ \A padding, forms, valid :
         \E s \in {x, y, y \o x} :
           ReadPublicPem(f, padding, forms, valid) = ReadPublic(s, forms, valid)
    /\ before = <<>> => \A padding, forms, valid :
                         ReadPublicPem(f, padding, forms, valid) = ReadPublic(x, forms, valid)

LEMMA PrivateFile ==
  ASSUME NEW h \in PrivateHeaders, NEW x, NEW before, NEW y,
         before = <<>> \/ before = ParametersSection(y),
         NEW f, f = before \o <<Section(h, x)>>
  PROVE  OnlyPrivate(f, x, before, y)
  <1> DEFINE q == Section(h, x)  p == Section("EC PARAMETERS", y)
  <1>1. q.string = x /\ p.string = y /\ IsParameters(p) /\ q = Section(h, x)
        /\ ParametersSection(y) = <<p>>
    BY DEF Section, IsParameters, ParametersSection
  <1> HIDE DEF p, q
  <1>3. CASE before = <<>>
    <2>1. f = <<q>>
      BY <1>3, SectionsAre DEF q
    <2>2. f \in Seq({q, q}) /\ Len(f) = 1 /\ f[1] = q
      BY <2>1, SectionsAre, Zenon
    <2>3. \A padding, valid : ReadPrivatePem(f, padding, valid) = ReadPrivate(x, valid)
      <3> DEFINE n == 1  T == {q, q}
      <3>1. n \in {1, 2} /\ Len(f) = n /\ f[n] = Section(h, x) /\ n # 2 /\ f \in Seq(T)
        BY <1>1, <2>2
      <3>2. n = 2 => IsParameters(f[1])
        OBVIOUS
      <3> HIDE DEF n, T
      <3>3. h \in PrivateHeaders
        OBVIOUS
      <3> QED BY ONLY <3>1, <3>2, <3>3, PemPrivate, Zenon
    <2>4. \A padding : Unpem(f, padding) = x
      BY <1>1, <2>2, Zenon DEF Unpem
    <2> QED BY <1>1, <2>2, <2>3, <2>4 DEF ReadPublicPem, OnlyPrivate
  <1>4. CASE before # <<>>
    <2>1. f = <<p, q>>
      <3>1. f = <<p>> \o <<q>>
        BY <1>1, <1>4 DEF q
      <3> QED BY <3>1, SectionsAre
    <2>2. f \in Seq({p, q}) /\ Len(f) = 2 /\ f[1] = p /\ f[2] = q
      <3>1. /\ <<p, q>> \in Seq({p, q}) /\ Len(<<p, q>>) = 2
            /\ <<p, q>>[1] = p /\ <<p, q>>[2] = q
        BY SectionsAre, Zenon
      <3> QED BY ONLY <2>1, <3>1
    <2>3. \A padding, valid : ReadPrivatePem(f, padding, valid) = ReadPrivate(x, valid)
      <3> DEFINE n == 2  T == {p, q}
      <3>1. n \in {1, 2} /\ Len(f) = n /\ f[n] = Section(h, x) /\ IsParameters(f[1]) /\ f \in Seq(T)
        BY <1>1, <2>2
      <3>2. n = 2 => IsParameters(f[1])
        BY <3>1
      <3> HIDE DEF n, T
      <3>3. h \in PrivateHeaders
        OBVIOUS
      <3> QED BY ONLY <3>1, <3>2, <3>3, PemPrivate, Zenon
    <2>4. \A padding : Unpem(f, padding) = y \/ Unpem(f, padding) = y \o x
      BY <1>1, <2>2, Zenon DEF Unpem
    <2> QED BY <1>1, <1>4, <2>2, <2>3, <2>4 DEF ReadPublicPem, OnlyPrivate
  <1> QED BY <1>3, <1>4

(* A file of a public key has one section, and none of a private key.      *)
OnlyPublic(f, x) ==
    /\ f[Len(f)].string = x
    /\ \A padding, forms, valid :
         ReadPublicPem(f, padding, forms, valid) = ReadPublic(x, forms, valid)
    /\ \A padding, valid : ReadPrivatePem(f, padding, valid).error # ""

LEMMA PublicFile ==
  ASSUME NEW x, NEW f, f = <<>> \o <<Section("PUBLIC KEY", x)>>
  PROVE  OnlyPublic(f, x)
  <1> DEFINE q == Section("PUBLIC KEY", x)
  <1>1. q.string = x /\ \A h \in PrivateHeaders : q.header # h
    BY DEF Section, PrivateHeaders
  <1>2. f = <<q>>
    BY SectionsAre, Zenon
  <1> HIDE DEF q
  <1>3. Len(f) = 1 /\ f[1] = q
    BY ONLY <1>2
  <1>4. \A padding : Unpem(f, padding) = x
    BY <1>1, <1>3, Zenon DEF Unpem
  <1>5. \A h \in PrivateHeaders : FirstWith(f, h) = {}
    <2>1. \A i \in 1 .. 1 : i = 1
      BY ONLY TRUE
    <2> QED BY <1>1, <1>3, <2>1 DEF FirstWith
  <1>6. FirstWith(f, "EC PRIVATE KEY") = {} /\ FirstWith(f, "PRIVATE KEY") = {}
    BY <1>5 DEF PrivateHeaders
  <1>7. \A padding, valid : ReadPrivatePem(f, padding, valid) = KeyError("ValueError")
    BY <1>6, Zenon DEF ReadPrivatePem
  <1>8. KeyError("ValueError").error # ""
    BY DEF KeyError
  <1> QED BY <1>1, <1>3, <1>4, <1>7, <1>8 DEF ReadPublicPem, OnlyPublic

(* What is in a file, as long as it was not damaged.                       *)
EncodingOf(k, asked) == IF Edwards(k.curve) THEN "edwards" ELSE Encoding(k.curve, asked)

HeaderOf(format) == IF format = "ssleay" THEN "EC PRIVATE KEY" ELSE "PRIVATE KEY"

HoldsPublic ==
    \E form \in Forms, asked \in Asked :
      LET der == PublicToDer(VerifyingKey(key), form, asked) IN
      /\ Succeeds(der) /\ written = What("public", EncodingOf(key, asked), form)
      /\ file = <<>> \o <<Section("PUBLIC KEY", der.string)>>

HoldsPrivate ==
    /\ key.kind = "private"
    /\ \E form \in Forms, asked \in Asked, format \in {"ssleay", "pkcs8"},
          before \in Parameters(key.curve) :
         LET der == PrivateToDer(key, form, format, asked) IN
         /\ Succeeds(der) /\ written = What("private", EncodingOf(key, asked), form)
         /\ file = before \o <<Section(HeaderOf(format), der.string)>>

CurveAllowed(valid) ==
    written.encoding = "edwards" \/ valid = {} \/ written.encoding \in valid

FormAllowed(forms) == written.encoding = "edwards" \/ forms = {} \/ written.form \in forms

(* What the readers make of such a file.                                   *)
PublicReadBack ==
    \A forms \in ValidForms, valid \in ValidCurves : \A r \in PublicResults(forms, valid) :
      IF CurveAllowed(valid) /\ FormAllowed(forms) THEN ReadAs(r, VerifyingKey(key))
      ELSE r.error \in {"UnexpectedDER", "MalformedPointError"}

PrivateReadBack ==
    \A valid \in ValidCurves : \A r \in PrivateResults(valid) :
      IF CurveAllowed(valid) THEN ReadAs(r, key) ELSE r.error = "UnexpectedDER"

NoPrivateRead == \A valid \in ValidCurves : \A r \in PrivateResults(valid) : r.error # ""

NoPublicRead ==
    \A forms \in ValidForms, valid \in ValidCurves :
      \A r \in PublicResults(forms, valid) : r.error # ""

LEMMA ErrorsAre ==
  /\ ~ Succeeds(KeyError("none")) /\ 0 \in Nat
  BY DEF Succeeds, KeyError

(* The marks of a written file say what a reader allows.                   *)
LEMMA MarksAre ==
  ASSUME NEW kind, NEW form, NEW asked \in Asked,
         written = What(kind, EncodingOf(key, asked), form)
  PROVE  /\ written.kind = kind
         /\ \A valid : CurveAllowed(valid) <=> Edwards(key.curve) \/ Allowed(key.curve, asked, valid)
         /\ \A forms : FormAllowed(forms) <=> Edwards(key.curve) \/ forms = {} \/ form \in forms
  <1>1. written.kind = kind /\ written.encoding = EncodingOf(key, asked) /\ written.form = form
    BY DEF What
  <1>2. EncodingOf(key, asked) = "edwards" <=> Edwards(key.curve)
    BY EncodingIs DEF EncodingOf
  <1>3. ~ Edwards(key.curve) => EncodingOf(key, asked) = Encoding(key.curve, asked)
    BY DEF EncodingOf
  <1> QED BY <1>1, <1>2, <1>3, Zenon DEF CurveAllowed, FormAllowed, Allowed

LEMMA HeldPublic ==
  ASSUME GoodKey(key), HoldsPublic
  PROVE  written.kind = "public" /\ PublicReadBack /\ NoPrivateRead
  <1>1. PICK form \in Forms, asked \in Asked :
          /\ Succeeds(PublicToDer(VerifyingKey(key), form, asked))
          /\ written = What("public", EncodingOf(key, asked), form)
          /\ file = <<>> \o <<Section("PUBLIC KEY", PublicToDer(VerifyingKey(key), form, asked).string)>>
    BY Zenon DEF HoldsPublic
  <1> DEFINE x == PublicToDer(VerifyingKey(key), form, asked).string
  <1>2. /\ Der = x
        /\ \A padding, forms, valid :
             ReadPublicPem(file, padding, forms, valid) = ReadPublic(x, forms, valid)
        /\ \A padding, valid : ReadPrivatePem(file, padding, valid).error # ""
    <2>1. file = <<>> \o <<Section("PUBLIC KEY", x)>>
      BY <1>1
    <2> HIDE DEF x
    <2>2. OnlyPublic(file, x)
      BY <2>1, PublicFile, Zenon
    <2> QED BY <2>2, Zenon DEF Der, OnlyPublic
  <1>3. /\ written.kind = "public"
        /\ \A valid : CurveAllowed(valid) <=> Edwards(key.curve) \/ Allowed(key.curve, asked, valid)
        /\ \A forms : FormAllowed(forms) <=> Edwards(key.curve) \/ forms = {} \/ form \in forms
    BY <1>1, MarksAre, Zenon
  <1>4. form # "raw"
    <2>1. Refused("ValueError").error # ""
      BY DEF Refused
    <2> QED BY <1>1, <2>1, Zenon DEF PublicToDer, Succeeds
  <1>5. form \in PointForms
    BY <1>4, PartyAssumption DEF AllForms, PointForms
  <1>6. ASSUME NEW forms \in ValidForms, NEW valid \in ValidCurves
        PROVE  /\ IF CurveAllowed(valid) /\ FormAllowed(forms)
                  THEN ReadAs(ReadPublic(x, forms, valid), VerifyingKey(key))
                  ELSE ReadPublic(x, forms, valid).error \in {"UnexpectedDER", "MalformedPointError"}
               /\ ReadPrivate(x, valid).error # ""
    <2>1. CASE Edwards(key.curve)
      <3>1. /\ ReadPublic(x, forms, valid).error = "" /\ GoodKey(ReadPublic(x, forms, valid).key)
            /\ SameKey(ReadPublic(x, forms, valid).key, VerifyingKey(key))
            /\ ReadPrivate(x, valid).error # ""
        BY <1>4, <2>1, PublicBackEdwards, Zenon
      <3> HIDE DEF x
      <3> QED BY <1>3, <2>1, <3>1, Zenon DEF ReadAs
    <2>2. CASE ~ Edwards(key.curve)
      <3> DEFINE r == ReadPublic(x, forms, valid)
      <3>1. /\ IF Allowed(key.curve, asked, valid) /\ (forms = {} \/ form \in forms)
               THEN r.error = "" /\ GoodKey(r.key) /\ SameKey(r.key, VerifyingKey(key))
               ELSE r.error \in {"UnexpectedDER", "MalformedPointError"}
            /\ ReadPrivate(x, valid).error # ""
        <4>1. PublicComesBack(key, form, asked, forms, valid)
          BY <1>1, <1>5, <2>2, PublicBack, Zenon
        <4> QED BY <4>1, Zenon DEF PublicComesBack
      <3> HIDE DEF x, r
      <3>2. IF CurveAllowed(valid) /\ FormAllowed(forms) THEN ReadAs(r, VerifyingKey(key))
            ELSE r.error \in {"UnexpectedDER", "MalformedPointError"}
        BY <1>3, <2>2, <3>1, Zenon DEF ReadAs
      <3> QED BY <3>1, <3>2 DEF r
    <2> QED BY <2>1, <2>2
  <1> HIDE DEF x
  <1>7. PublicReadBack
    <2> SUFFICES ASSUME NEW forms \in ValidForms, NEW valid \in ValidCurves,
                        NEW r \in PublicResults(forms, valid)
                 PROVE  IF CurveAllowed(valid) /\ FormAllowed(forms) THEN ReadAs(r, VerifyingKey(key))
                        ELSE r.error \in {"UnexpectedDER", "MalformedPointError"}
      BY Zenon DEF PublicReadBack
    <2>1. r = ReadPublic(x, forms, valid)
      BY <1>2, Zenon DEF PublicResults
    <2> QED BY <1>6, <2>1
  <1>8. NoPrivateRead
    <2> SUFFICES ASSUME NEW valid \in ValidCurves, NEW r \in PrivateResults(valid)
                 PROVE  r.error # ""
      BY Zenon DEF NoPrivateRead
    <2>1. r = ReadPrivate(x, valid) \/ \E padding \in BOOLEAN : r = ReadPrivatePem(file, padding, valid)
      BY <1>2, Zenon DEF PrivateResults
    <2>2. {} \in ValidForms
      BY DEF ValidForms
    <2> QED BY <1>2, <1>6, <2>1, <2>2
  <1> QED BY <1>3, <1>7, <1>8

LEMMA HeldPrivate ==
  ASSUME GoodKey(key), HoldsPrivate
  PROVE  written.kind = "private" /\ PrivateReadBack /\ NoPublicRead
  <1>1. PICK form \in Forms, asked \in Asked, format \in {"ssleay", "pkcs8"},
             before \in Parameters(key.curve) :
          /\ Succeeds(PrivateToDer(key, form, format, asked))
          /\ written = What("private", EncodingOf(key, asked), form)
          /\ file = before \o <<Section(HeaderOf(format), PrivateToDer(key, form, format, asked).string)>>
    BY Zenon DEF HoldsPrivate
  <1> DEFINE x == PrivateToDer(key, form, format, asked).string
             h == HeaderOf(format)
  <1>2. h \in PrivateHeaders
    BY DEF HeaderOf, PrivateHeaders
  <1> HIDE DEF h
  <1>3. key.kind = "private" /\ form \in AllForms /\ key.curve \in Known
    BY PartyAssumption, GoodIs DEF HoldsPrivate
  <1>4. \A valid \in ValidCurves :
          /\ x \in Strings /\ Starts(x, "seq") /\ Starts(Body(x), "int")
          /\ IF Edwards(key.curve) \/ Allowed(key.curve, asked, valid)
             THEN ReadAs(ReadPrivate(x, valid), key)
             ELSE ReadPrivate(x, valid).error = "UnexpectedDER"
    BY <1>1, <1>3, PrivateBack, Zenon
  <1>5. /\ written.kind = "private"
        /\ \A valid : CurveAllowed(valid) <=> Edwards(key.curve) \/ Allowed(key.curve, asked, valid)
    BY <1>1, MarksAre, Zenon
  <1>6. x \in Strings /\ x # <<>> /\ Starts(Body(x), "int")
    <2>1. {} \in ValidCurves
      BY DEF ValidCurves
    <2> HIDE DEF x
    <2>2. x \in Strings /\ Starts(x, "seq") /\ Starts(Body(x), "int")
      BY <1>4, <2>1, Zenon
    <2> QED BY <2>2 DEF Starts
  <1>7. \E y : /\ before = <<>> \/ before = ParametersSection(y)
               /\ before # <<>> => \A forms, valid :
                    ReadPublic(y, forms, valid).error # "" /\ ReadPublic(y \o x, forms, valid).error # ""
    <2>1. CASE before = <<>>
      BY <2>1
    <2>2. CASE before # <<>>
      <3>1. PICK a \in {a \in Asked : CurveToDer(key.curve, a, "uncompressed").error = ""} :
              before = <<Section("EC PARAMETERS", CurveToDer(key.curve, a, "uncompressed").string)>>
        BY <1>1, <2>2, Zenon DEF Parameters
      <3> DEFINE y == CurveToDer(key.curve, a, "uncompressed").string
      <3>2. a \in Asked /\ Succeeds(CurveToDer(key.curve, a, "uncompressed"))
        BY DEF Succeeds
      <3>3. before = ParametersSection(y)
        BY <3>1, Zenon DEF ParametersSection
      <3> HIDE DEF x
      <3>4. \A forms, valid :
              ReadPublic(y, forms, valid).error # "" /\ ReadPublic(y \o x, forms, valid).error # ""
        BY <1>3, <1>6, <3>2, ParametersNoKey, Zenon
      <3> QED BY <3>3, <3>4, Zenon
    <2> QED BY <2>1, <2>2
  <1>8. PICK y : /\ before = <<>> \/ before = ParametersSection(y)
                 /\ before # <<>> => \A forms, valid :
                      ReadPublic(y, forms, valid).error # "" /\ ReadPublic(y \o x, forms, valid).error # ""
    BY <1>7, Zenon
  <1>9. file = before \o <<Section(h, x)>>
    BY <1>1 DEF h
  <1> HIDE DEF x
  <1>10. /\ Der = x
         /\ \A padding, valid : ReadPrivatePem(file, padding, valid) = ReadPrivate(x, valid)
         /\ \A padding, forms, valid :
              \E s \in {x, y, y \o x} :
                ReadPublicPem(file, padding, forms, valid) = ReadPublic(s, forms, valid)
         /\ before = <<>> => \A padding, forms, valid :
                              ReadPublicPem(file, padding, forms, valid) = ReadPublic(x, forms, valid)
    <2>1. OnlyPrivate(file, x, before, y)
      BY <1>2, <1>8, <1>9, PrivateFile, Zenon
    <2> QED BY <2>1, Zenon DEF Der, OnlyPrivate
  <1>11. \A forms, valid : ReadPublic(x, forms, valid).error # ""
    BY <1>6, NoPublicKey, Zenon
  <1>12. \A padding, forms, valid : ReadPublicPem(file, padding, forms, valid).error # ""
    <2>1. CASE before = <<>>
      <3>1. \A padding, forms, valid :
              ReadPublicPem(file, padding, forms, valid) = ReadPublic(x, forms, valid)
        BY <1>10, <2>1
      <3> QED BY ONLY <1>11, <3>1, Zenon
    <2>2. CASE before # <<>>
      <3> TAKE padding, forms, valid
      <3>1. PICK s \in {x, y, y \o x} :
              ReadPublicPem(file, padding, forms, valid) = ReadPublic(s, forms, valid)
        BY <1>10, Zenon
      <3>2. ReadPublic(s, forms, valid).error # ""
        BY <1>8, <1>11, <2>2, Zenon
      <3> QED BY <3>1, <3>2, Zenon
    <2> QED BY <2>1, <2>2
  <1>13. PrivateReadBack
    <2> SUFFICES ASSUME NEW valid \in ValidCurves, NEW r \in PrivateResults(valid)
                 PROVE  IF CurveAllowed(valid) THEN ReadAs(r, key) ELSE r.error = "UnexpectedDER"
      BY Zenon DEF PrivateReadBack
    <2>1. r = ReadPrivate(x, valid)
      BY <1>10, Zenon DEF PrivateResults
    <2> QED BY <1>4, <1>5, <2>1, Zenon
  <1>14. NoPublicRead
    <2> SUFFICES ASSUME NEW forms \in ValidForms, NEW valid \in ValidCurves,
                        NEW r \in PublicResults(forms, valid)
                 PROVE  r.error # ""
      BY Zenon DEF NoPublicRead
    <2>1. r = ReadPublic(x, forms, valid)
            \/ \E padding \in BOOLEAN : r = ReadPublicPem(file, padding, forms, valid)
      BY <1>10, Zenon DEF PublicResults
    <2> QED BY <1>11, <1>12, <2>1, Zenon
  <1> QED BY <1>5, <1>13, <1>14

----------------------------------------------------------------------------
(* The keys of writers and readers are good, and a file that was not       *)
(* damaged holds the key of the writer.                                    *)
FileInv ==
    /\ key = NoKey \/ GoodKey(key)
    /\ Succeeds(result) => GoodKey(result.key)
    /\ damage \in Nat
    /\ written = Nothing => file = <<>>
    /\ written # Nothing /\ damage = 0 => GoodKey(key) /\ (HoldsPublic \/ HoldsPrivate)

(* What is read from such a file is a key like the one it was made from.   *)
LEMMA ResultsGood ==
  ASSUME FileInv, written # Nothing, damage = 0, NEW forms \in ValidForms, NEW valid \in ValidCurves,
         NEW r \in PublicResults(forms, valid) \cup PrivateResults(valid), Succeeds(r)
  PROVE  GoodKey(r.key)
  <1>1. GoodKey(key) /\ (HoldsPublic \/ HoldsPrivate)
    BY Zenon DEF FileInv
  <1>2. r.error = ""
    BY DEF Succeeds
  <1>3. CASE HoldsPublic
    <2>1. PublicReadBack /\ NoPrivateRead
      BY <1>1, <1>3, HeldPublic
    <2>2. r \in PublicResults(forms, valid)
      BY <1>2, <2>1, Zenon DEF NoPrivateRead
    <2>3. \/ ReadAs(r, VerifyingKey(key))
          \/ r.error \in {"UnexpectedDER", "MalformedPointError"}
      BY <2>1, <2>2, Zenon DEF PublicReadBack
    <2>4. ReadAs(r, VerifyingKey(key))
      BY <1>2, <2>3
    <2> QED BY <2>4, Zenon DEF ReadAs
  <1>4. CASE HoldsPrivate
    <2>1. PrivateReadBack /\ NoPublicRead
      BY <1>1, <1>4, HeldPrivate
    <2>2. r \in PrivateResults(valid)
      BY <1>2, <2>1, Zenon DEF NoPublicRead
    <2>3. ReadAs(r, key) \/ r.error = "UnexpectedDER"
      BY <2>1, <2>2, Zenon DEF PrivateReadBack
    <2>4. ReadAs(r, key)
      BY <1>2, <2>3
    <2> QED BY <2>4, Zenon DEF ReadAs
  <1> QED BY <1>1, <1>3, <1>4

LEMMA ReadBackHolds ==
  ASSUME FileInv
  PROVE  ReadBack
  <1>1. SUFFICES ASSUME written # Nothing, damage = 0, NEW valid \in ValidCurves, NEW forms \in ValidForms
                 PROVE  IF written.kind = "private"
                        THEN \A r \in PrivateResults(valid) :
                               IF CurveAllowed(valid) THEN r.error = "" /\ SameKey(r.key, key)
                               ELSE r.error = "UnexpectedDER"
                        ELSE \A r \in PublicResults(forms, valid) :
                               IF CurveAllowed(valid) /\ FormAllowed(forms)
                               THEN r.error = "" /\ SameKey(r.key, Original)
                               ELSE r.error \in {"UnexpectedDER", "MalformedPointError"}
    BY Zenon DEF ReadBack, CurveAllowed, FormAllowed
  <1>2. GoodKey(key) /\ (HoldsPublic \/ HoldsPrivate)
    BY <1>1, Zenon DEF FileInv
  <1>3. CASE HoldsPublic
    <2>1. written.kind = "public" /\ PublicReadBack
      BY <1>2, <1>3, HeldPublic
    <2>2. written.kind # "private" /\ Original = VerifyingKey(key)
      BY <2>1 DEF Original
    <2> QED BY <2>1, <2>2, Zenon DEF PublicReadBack, ReadAs
  <1>4. CASE HoldsPrivate
    <2>1. written.kind = "private" /\ PrivateReadBack
      BY <1>2, <1>4, HeldPrivate
    <2> QED BY <2>1, Zenon DEF PrivateReadBack, ReadAs
  <1> QED BY <1>2, <1>3, <1>4

LEMMA FileInvInit ==
  ASSUME Init
  PROVE  FileInv
  <1>1. /\ key = NoKey /\ file = <<>> /\ written = Nothing /\ damage = 0 /\ result = NoResult
    BY DEF Init, TransferInit
  <1>2. ~ Succeeds(NoResult)
    BY ErrorsAre DEF NoResult
  <1> QED BY <1>1, <1>2 DEF FileInv

(* What is written is what the file holds.                                 *)
LEMMA FileInvWritten ==
  ASSUME FileInv, NEW w, NEW what, NEW header, NEW before, Writes(w, what, header, before),
         what # Nothing,
         Succeeds(w) /\ key' = key /\ written' = what /\ file' = before \o <<Section(header, w.string)>>
           => HoldsPublic' \/ HoldsPrivate'
  PROVE  FileInv'
  <1>1. /\ key # NoKey /\ file = <<>> /\ key' = key /\ damage' = damage
    BY Zenon DEF Writes
  <1>2. GoodKey(key) /\ damage \in Nat
    BY <1>1, Zenon DEF FileInv
  <1>3. CASE Succeeds(w)
    <2>1. /\ written' = what /\ result' = NoResult /\ file' = before \o <<Section(header, w.string)>>
      BY <1>3, Zenon DEF Writes, Succeeds
    <2>2. ~ Succeeds(NoResult)
      BY ErrorsAre DEF NoResult
    <2>3. HoldsPublic' \/ HoldsPrivate'
      BY <1>1, <1>3, <2>1, Zenon
    <2>4. GoodKey(key') /\ ~ Succeeds(result') /\ written' # Nothing
      BY <1>1, <1>2, <2>1, <2>2
    <2> QED BY <1>1, <1>2, <2>3, <2>4, Zenon DEF FileInv
  <1>4. CASE ~ Succeeds(w)
    <2>1. result' = KeyError(w.error) /\ file' = file /\ written' = written
      BY <1>4, Zenon DEF Writes, Succeeds
    <2>2. ~ Succeeds(result')
      BY <1>4, <2>1, ReadIs, Zenon DEF Succeeds
    <2>3. written = Nothing \/ GoodKey(key)
      BY <1>2
    <2>4. written # Nothing /\ damage = 0 => HoldsPublic \/ HoldsPrivate
      BY Zenon DEF FileInv
    <2>5. (HoldsPublic \/ HoldsPrivate) => HoldsPublic' \/ HoldsPrivate'
      BY <1>1, <2>1, Zenon DEF HoldsPublic, HoldsPrivate
    <2>6. file' = <<>>
      BY <1>1, <2>1
    <2>7. written' # Nothing /\ damage' = 0 => GoodKey(key') /\ (HoldsPublic' \/ HoldsPrivate')
      BY <1>1, <1>2, <2>1, <2>4, <2>5, Zenon
    <2> QED BY <1>1, <1>2, <2>2, <2>6, <2>7, Zenon DEF FileInv
  <1> QED BY <1>3, <1>4

LEMMA FileInvSame ==
  ASSUME FileInv, UNCHANGED <<key, file, written, damage>>, Succeeds(result') => GoodKey(result'.key)
  PROVE  FileInv'
  <1>1. (HoldsPublic \/ HoldsPrivate) => HoldsPublic' \/ HoldsPrivate'
    BY Zenon DEF HoldsPublic, HoldsPrivate
  <1> QED BY <1>1, Zenon DEF FileInv

LEMMA FileInvNext ==
  ASSUME FileInv, [Next]_vars
  PROVE  FileInv'
  <1>1. CASE UNCHANGED transfer
    <2>1. UNCHANGED <<key, file, written, damage, result>>
      BY <1>1 DEF transfer
    <2>2. Succeeds(result') => GoodKey(result'.key)
      BY <2>1, Zenon DEF FileInv
    <2> QED BY <2>1, <2>2, FileInvSame
  <1>2. CASE MakeKey
    <2>1. PICK c \in Curves, num \in SecretNumbers : result' \in Made(num, c)
      BY <1>2, Zenon DEF MakeKey
    <2>2. num \in Nat
      BY TransferAssumption
    <2>3. Succeeds(result') => GoodKey(result'.key)
      BY <2>1, <2>2, MadeGood, Zenon
    <2> QED BY <1>2, <2>3, FileInvSame DEF MakeKey
  <1>3. CASE WritePublic
    <2> DEFINE w(form, asked) == PublicToDer(VerifyingKey(key), form, asked)
               what(form, asked) == What("public", EncodingOf(key, asked), form)
    <2>1. PICK form \in Forms, asked \in Asked :
            Writes(w(form, asked), what(form, asked), "PUBLIC KEY", <<>>)
      BY <1>3, Zenon DEF WritePublic, EncodingOf
    <2>2. what(form, asked) # Nothing
      BY DEF What, Nothing
    <2>3. Succeeds(w(form, asked)) /\ key' = key /\ written' = what(form, asked)
            /\ file' = <<>> \o <<Section("PUBLIC KEY", w(form, asked).string)>>
          => HoldsPublic'
      BY Zenon DEF HoldsPublic
    <2> HIDE DEF w, what
    <2> QED BY <2>1, <2>2, <2>3, FileInvWritten, Zenon
  <1>4. CASE WritePrivate
    <2> DEFINE w(form, format, asked) == PrivateToDer(key, form, format, asked)
               what(form, asked) == What("private", EncodingOf(key, asked), form)
    <2>1. PICK form \in Forms, asked \in Asked, format \in {"ssleay", "pkcs8"},
               before \in Parameters(key.curve) :
            Writes(w(form, format, asked), what(form, asked), HeaderOf(format), before)
      BY <1>4, Zenon DEF WritePrivate, EncodingOf, HeaderOf
    <2>2. what(form, asked) # Nothing
      BY DEF What, Nothing
    <2>3. key.kind = "private"
      BY <1>4, Zenon DEF WritePrivate
    <2>4. Succeeds(w(form, format, asked)) /\ key' = key /\ written' = what(form, asked)
            /\ file' = before \o <<Section(HeaderOf(format), w(form, format, asked).string)>>
          => HoldsPrivate'
      BY <2>3, Zenon DEF HoldsPrivate
    <2> HIDE DEF w, what
    <2> QED BY <2>1, <2>2, <2>4, FileInvWritten, Zenon
  <1>5. CASE Damage
    <2>1. /\ Len(file) = 1 /\ damage' = damage + 1 /\ key' = key /\ written' = written /\ result' = result
      BY <1>5, Zenon DEF Damage
    <2>2. file # <<>> /\ written # Nothing /\ damage \in Nat
      <3>1. file # <<>>
        BY <2>1
      <3> QED BY <3>1, Zenon DEF FileInv
    <2>3. damage' \in Nat /\ damage' # 0
      BY <2>1, <2>2
    <2>4. (key = NoKey \/ GoodKey(key)) /\ (Succeeds(result) => GoodKey(result.key))
      BY Zenon DEF FileInv
    <2> QED BY <2>1, <2>2, <2>3, <2>4, Zenon DEF FileInv
  <1>6. CASE ReadPublicKey \/ ReadPrivateKey
    <2>1. /\ file # <<>> /\ damage = 0 /\ UNCHANGED <<key, file, written, damage>>
      BY <1>6, Zenon DEF ReadPublicKey, ReadPrivateKey, Reads
    <2>2. PICK forms \in ValidForms, valid \in ValidCurves :
            result' \in PublicResults(forms, valid) \cup PrivateResults(valid)
      <3>1. {} \in ValidForms
        BY DEF ValidForms
      <3>2. CASE ReadPublicKey
        BY <3>2, Zenon DEF ReadPublicKey
      <3>3. CASE ReadPrivateKey
        <4>1. PICK valid \in ValidCurves : result' \in PrivateResults(valid)
          BY <3>3, Zenon DEF ReadPrivateKey
        <4> QED BY <3>1, <4>1, Zenon
      <3> QED BY <1>6, <3>2, <3>3
    <2>3. written # Nothing
      BY <2>1, Zenon DEF FileInv
    <2>4. Succeeds(result') => GoodKey(result'.key)
      BY <2>1, <2>2, <2>3, ResultsGood, Zenon
    <2> QED BY <2>1, <2>4, FileInvSame
  <1>7. CASE Adopt
    <2>1. /\ key' = (IF Succeeds(result) THEN result.key ELSE key)
          /\ file' = <<>> /\ written' = Nothing /\ damage' = 0 /\ result' = NoResult
      BY <1>7, Zenon DEF Adopt, Succeeds
    <2>2. ~ Succeeds(NoResult) /\ 0 \in Nat
      BY ErrorsAre DEF NoResult
    <2>3. key' = NoKey \/ GoodKey(key')
      BY <2>1, Zenon DEF FileInv
    <2>4. ~ Succeeds(result') /\ damage' \in Nat
      BY <2>1, <2>2
    <2> QED BY <2>1, <2>3, <2>4, Zenon DEF FileInv
  <1>8. UNCHANGED transfer \/ TransferNext
    BY Zenon DEF Next, vars, Transfer, Session, Set, Generate, LoadPrivate, LoadPublic,
                 LoadPrivateString, LoadPublicString, Agree
  <1> QED BY <1>1, <1>2, <1>3, <1>4, <1>5, <1>6, <1>7, <1>8, Zenon DEF TransferNext

(* For all curves whose generators have the order they say, all numbers    *)
(* and all forms: what is written to a file, read, and written again, is   *)
(* read as the same key from DER and from PEM, in every encoding the       *)
(* reader allows, and refused in every other.                              *)
THEOREM FilesReadBack == Spec => []ReadBack
  <1>1. Init => FileInv
    BY FileInvInit
  <1>2. FileInv /\ [Next]_vars => FileInv'
    BY FileInvNext
  <1>3. FileInv => ReadBack
    BY ReadBackHolds
  <1> QED BY <1>1, <1>2, <1>3, PTL DEF Spec
=============================================================================
