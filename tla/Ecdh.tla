-------------------------------- MODULE Ecdh --------------------------------
(***************************************************************************)
(* A session of Diffie-Hellman key agreement, class ECDH of                *)
(* src/src/ecdsa/ecdh.py: its curve, the private key and the key received, *)
(* which are loaded in any order, and the curve set at any time.           *)
(***************************************************************************)
EXTENDS KeyFiles

VARIABLES curve,        \* NoCurve for None
          private_key,  \* NoKey for None
          public_key,   \* NoKey for None
          switched,     \* ghost: set_curve() was called with a key loaded
          outcome       \* what the last call raised, or the secret it made

session == <<curve, private_key, public_key, switched, outcome>>

Raised(e)      == [error |-> e, secret |-> 0]
Secret(s)      == [error |-> "", secret |-> s]
Done           == Raised("none")
Unset          == curve = NoCurve

(* ECDH.__init__ without keys; loading those it is given is the same as    *)
(* loading them later.                                                     *)
EcdhInit ==
    /\ curve \in Curves \cup {NoCurve}
    /\ private_key = NoKey /\ public_key = NoKey
    /\ switched = FALSE /\ outcome = Done

Raises(e) ==
    outcome' = Raised(e) /\ UNCHANGED <<curve, private_key, public_key, switched>>

SetCurve ==
    /\ curve' \in Curves
    /\ switched' = (switched \/ private_key # NoKey \/ public_key # NoKey)
    /\ outcome' = Done
    /\ UNCHANGED <<private_key, public_key>>

(* A mutant: whatever key there is not goes onto the curve unseen.         *)
FitsFirst(c) == Unset \/ Same(curve, c) \/ private_key = NoKey

(* The curve of a key that is loaded is the curve of the session, which it *)
(* becomes if there is none.                                               *)
Fits(c) == Unset \/ Same(curve, c)

(* load_private_key of a key that was read, or of none.                    *)
LoadPrivateKey(read) ==
    IF read.error # "" THEN Raises(read.error)
    ELSE IF ~ Fits(read.key.curve) THEN Raises("InvalidCurveError")
    ELSE /\ curve' = (IF Unset THEN read.key.curve ELSE curve)
         /\ private_key' = read.key /\ outcome' = Done
         /\ UNCHANGED <<public_key, switched>>

(* load_received_public_key                                                *)
LoadPublicKey(read) ==
    IF read.error # "" THEN Raises(read.error)
    ELSE IF ~ Fits(read.key.curve) THEN Raises("InvalidCurveError")
    ELSE /\ curve' = (IF Unset THEN read.key.curve ELSE curve)
         /\ public_key' = read.key /\ outcome' = Done
         /\ UNCHANGED <<private_key, switched>>

(* generate_private_key, of those with a number of the set                 *)
GeneratePrivateKey(numbers) ==
    IF Unset THEN Raises("NoCurveError")
    ELSE \E k \in {g \in Generated(curve) : g.secret \in numbers} : LoadPrivateKey(KeyRead(k))

(* load_private_key_bytes                                                  *)
LoadPrivateBytes(bytes) ==
    IF Unset THEN Raises("NoCurveError") ELSE LoadPrivateKey(PrivateFromString(bytes, curve))

AllForms == {"raw", "uncompressed", "compressed", "hybrid"}

(* load_received_public_key_bytes: what is called valid_encodings ends up  *)
(* as the hash function, and all forms are read; None has no curve.        *)
LoadPublicBytes(node) ==
    IF Unset THEN Raises("AttributeError")
    ELSE LoadPublicKey(PublicFromString(node, curve, AllForms))

(* The x of a point: opposite points share it.                             *)
XOf(c, point) == IF 2 * point > Size(c) THEN Size(c) - point ELSE point

(* A mutant: the curve of the received key is not compared.                *)
AgreedOneSided(c, mine, theirs) ==
    IF mine = NoKey \/ theirs = NoKey THEN Raised("NoKeyError")
    ELSE IF ~ Same(mine.curve, c) THEN Raised("InvalidCurveError")
    ELSE IF Edwards(mine.curve) \/ Edwards(theirs.curve) THEN Raised("AttributeError")
    ELSE LET result == Times(theirs.curve, theirs.point, mine.secret) IN
         IF result = 0 THEN Raised("InvalidSharedSecretError")
         ELSE Secret(XOf(theirs.curve, result))

(* A mutant: INFINITY is taken for a secret.                               *)
AgreedOnInfinity(c, mine, theirs) ==
    IF mine = NoKey \/ theirs = NoKey THEN Raised("NoKeyError")
    ELSE IF ~ Same(mine.curve, c) \/ ~ Same(c, theirs.curve) THEN Raised("InvalidCurveError")
    ELSE IF Edwards(mine.curve) THEN Raised("AttributeError")
    ELSE Secret(XOf(theirs.curve, Times(theirs.curve, theirs.point, mine.secret)))

(* _get_shared_secret; keys for EdDSA have no secret_multiplier.           *)
Agreed(c, mine, theirs) ==
    IF mine = NoKey \/ theirs = NoKey THEN Raised("NoKeyError")
    ELSE IF ~ Same(mine.curve, c) \/ ~ Same(c, theirs.curve) THEN Raised("InvalidCurveError")
    ELSE IF Edwards(mine.curve) THEN Raised("AttributeError")
    ELSE LET result == Times(theirs.curve, theirs.point, mine.secret) IN
         IF result = 0 THEN Raised("InvalidSharedSecretError")
         ELSE Secret(XOf(theirs.curve, result))

(* generate_sharedsecret and generate_sharedsecret_bytes                   *)
GenerateSharedsecret ==
    /\ outcome' = Agreed(curve, private_key, public_key)
    /\ UNCHANGED <<curve, private_key, public_key, switched>>

----------------------------------------------------------------------------
(* Keys are loaded onto the curve of the session: as long as the curve is  *)
(* not changed under loaded keys, they are all on it, and no call fails    *)
(* for keys on different curves after the key was loaded.                  *)
KeysOnCurve ==
    ~ switched =>
      \A k \in {private_key, public_key} : k # NoKey => ~ Unset /\ Same(k.curve, curve)

(* What the theorem asks of a curve: the order of its generator is odd.    *)
OddGenerator(c) ==
    /\ c.base \in Nat /\ Size(c) \in Nat \ {0}
    /\ \E n \in 1 .. Size(c) : n % 2 = 1 /\ (n * c.base) % Size(c) = 0

(* A shared secret is made of keys on the curve of the session only, and   *)
(* the other party, whose public key was received, computes the same       *)
(* secret: "shared secret(local private key, remote public key) ==         *)
(* shared secret(local public key, remote private key)".                   *)
SecretShared ==
    outcome.error = "" =>
      /\ Same(private_key.curve, curve) /\ Same(public_key.curve, curve)
      /\ \A theirs \in Generated(public_key.curve) :
           theirs.point = public_key.point =>
             Agreed(curve, theirs, VerifyingKey(private_key)) = outcome
=============================================================================
