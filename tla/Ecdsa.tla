------------------------------- MODULE Ecdsa -------------------------------
(***************************************************************************)
(* Signing and verifying: Private_key.sign, Public_key.verifies and        *)
(* Signature.recover_public_keys (src/src/ecdsa/ecdsa.py), the methods of  *)
(* SigningKey and VerifyingKey that call them (src/src/ecdsa/keys.py), the *)
(* canonical s (src/src/ecdsa/util.py) and the deterministic nonces of     *)
(* src/src/ecdsa/rfc6979.py, on a curve small enough for every number.     *)
(*                                                                         *)
(* A digest is its length in bytes of ByteBits bits, and the number it     *)
(* spells.  HMAC is a generator whose output is arbitrary, and the same    *)
(* whenever its seed is.                                                   *)
(***************************************************************************)
EXTENDS Jacobian, Sequences, FiniteSets

CONSTANTS BaseX, BaseY,  \* the generator
          Order,         \* its order, a prime
          ByteBits,      \* the bits of a byte
          Digests,       \* the digests signed and verified
          Truncations,   \* the values of allow_truncate
          Secrets,       \* the secret exponents
          Candidates,    \* what the nonce generator may yield
          MaxStream,     \* after how many candidates it yields a good one
          MaxSeeds,      \* how many seeds the generator is given
          Mixes          \* which kinds of calls a behaviour may make

ASSUME EcdsaAssumption ==
    /\ Order \in Nat /\ Order > 2 /\ \A d \in 2 .. Order - 1 : Order % d # 0
    /\ <<BaseX, BaseY>> \in CurvePoints /\ ByteBits \in Nat \ {0}
    /\ Secrets \subseteq 1 .. Order - 1 /\ Truncations \subseteq BOOLEAN
    /\ MaxStream \in Nat /\ MaxSeeds \in Nat

Digest(len, number) == [len |-> len, number |-> number]

ASSUME DigestAssumption ==
    \A g \in Digests : g.len \in Nat \ {0} /\ g.number \in 0 .. 2 ^ (ByteBits * g.len) - 1

BitLength[n \in Nat] == IF n <= 1 THEN 1 ELSE 1 + BitLength[n \div 2]

(* orderlen(order), the baselen of a curve.                                *)
BaseLen == (BitLength[Order] + ByteBits - 1) \div ByteBits

ASSUME CandidatesAssumption == Candidates \subseteq 0 .. 2 ^ BitLength[Order] - 1

Generator == Jacobi(BaseX, BaseY, 1, Order)

(* numbertheory.inverse_mod for the prime Order.                           *)
InverseModOrder(a) == CHOOSE i \in 1 .. Order - 1 : (i * a) % Order = 1

(* The x of a point, or 0 for None.                                        *)
X(pt) == Scale(pt).x

----------------------------------------------------------------------------
(* The first `bits' bits of a digest, all of them if it has no more.       *)
Leftmost(g, bits) ==
    LET extra == ByteBits * g.len - bits IN
    IF extra > 0 THEN g.number \div (2 ^ extra) ELSE g.number

(* _truncate_and_convert_digest: BadDigestError, or the number to sign.    *)
TooLong(g, truncate) == ~ truncate /\ g.len > BaseLen

Number(g, truncate) ==
    LET cut == IF g.len > BaseLen
               THEN Digest(BaseLen, Leftmost(g, ByteBits * BaseLen)) ELSE g
    IN IF truncate THEN Leftmost(cut, BitLength[Order]) ELSE g.number

(* A mutant: the last bits are taken, not the first.                       *)
SeedLow(d, g) == <<d, (g.number % (2 ^ BitLength[Order])) % Order>>

(* What generate_k seeds HMAC with: bits2octets of the whole digest.       *)
Seed(d, g) ==
    LET z1 == Leftmost(g, BitLength[Order])
    IN <<d, IF z1 < Order THEN z1 ELSE z1 - Order>>

----------------------------------------------------------------------------
(* The nonce has one of two multiples of the order added, to fix its       *)
(* length.                                                                 *)
R(k) ==
    LET ks == k + Order
        kt == ks + Order
    IN X(Mul(Generator, IF BitLength[ks] = BitLength[Order] THEN kt ELSE ks, TRUE)) % Order

ROf == [k \in 1 .. Order - 1 |-> R(k)]

(* Mutants: a pair of parentheses is missing; s is not reduced.            *)
SMisplaced(d, e, k) == (InverseModOrder(k) * e + ((d * ROf[k]) % Order)) % Order
SUnreduced(d, e, k) == InverseModOrder(k) * (e + ((d * ROf[k]) % Order))

S(d, e, k) == (InverseModOrder(k) * (e + ((d * ROf[k]) % Order))) % Order

(* Private_key.sign raises no RSZeroError.                                 *)
Signs(d, e, k) == ROf[k] # 0 /\ S(d, e, k) # 0

(* _canonize                                                               *)
Canonize(s) == IF s > Order \div 2 THEN Order - s ELSE s

(* u1 * G + u2 * q, where q has a table or not, as the generator has.      *)
DoubleProduct(u1, q, u2, fast) ==
    IF u1 = 0 \/ u2 = 0 \/ fast \/ Eq(q, Neg(Generator))
    THEN AddTerms(Mul(Generator, u1, TRUE), Mul(q, u2, fast))
    ELSE MulAdd(Generator, u1, q, u2)

(* xy.x() % n == r; the x of INFINITY is None, and None % n a TypeError.   *)
Compared(xy, r) ==
    IF xy.z = 0 THEN "TypeError" ELSE IF X(xy) % Order = r THEN "True" ELSE "False"

(* A mutant: r = 0 is let through.                                         *)
VerifiesZero(q, fast, e, r, s) ==
    LET c == InverseModOrder(s)
    IN IF r > Order - 1 \/ s < 1 \/ s > Order - 1 THEN "False"
       ELSE Compared(DoubleProduct((e * c) % Order, q, (r * c) % Order, fast), r)

(* Public_key.verifies                                                     *)
Verifies(q, fast, e, r, s) ==
    LET c == InverseModOrder(s)
    IN IF r < 1 \/ r > Order - 1 \/ s < 1 \/ s > Order - 1 THEN "False"
       ELSE Compared(DoubleProduct((e * c) % Order, q, (r * c) % Order, fast), r)

(* The roots of alpha modulo P, and the y of the point at r that is even.  *)
Roots(r) == {b \in Field : (b * b) % P = (r * r * r + A * r + B) % P}

EvenY(r) ==
    LET beta == CHOOSE b \in Roots(r) : TRUE
    IN IF beta % 2 = 0 THEN beta ELSE P - beta

(* A mutant: the number is not negated.                                    *)
RecoverFromSum(e, r, s, y) ==
    Mul(Add(Mul(Jacobi(r, y, 1, Order), s, FALSE), Mul(Generator, e % Order, TRUE)),
        InverseModOrder(r), FALSE)

(* recover_public_keys: from the y, or from the -y, of the point at r.     *)
RecoverFrom(e, r, s, y) ==
    Mul(Add(Mul(Jacobi(r, y, 1, Order), s, FALSE), Mul(Generator, (- e) % Order, TRUE)),
        InverseModOrder(r), FALSE)

(* The keys, none if one of them is INFINITY, which Public_key cannot      *)
(* compare with 0.                                                         *)
Comparable(keys) == IF \E q \in keys : q.z = 0 THEN {} ELSE keys

(* Both keys, or none if there is no point at r.                           *)
Recovered(e, r, s) ==
    IF Roots(r) = {} THEN {}
    ELSE Comparable({RecoverFrom(e, r, s, y) : y \in {EvenY(r), - EvenY(r)}})

----------------------------------------------------------------------------
VARIABLES Kinds,     \* the kinds of calls this behaviour makes
          secret,    \* the signer's secret_multiplier
          pub,       \* the verifier's pubkey.point
          fast,      \* whether it was precomputed
          phase,     \* "idle", in generate_k ("generate"), or in sign_number
          digest, truncate,   \* the arguments of the last call
          retry,     \* retry_gen of sign_digest_deterministic
          left, pos, \* generate_k's retry_gen, and the candidate it is at
          nonce,     \* k
          stream,    \* what the generator yielded so far, for each seed
          used,      \* ghost: which candidate served to sign which number
          sig,       \* the last signature made or verified
          verdict    \* what the last verification said

call == <<digest, truncate>>
generator == <<retry, left, pos, nonce, stream>>
vars == <<Kinds, secret, pub, fast, phase, call, generator, used, sig, verdict>>

None == <<>>
Seeds == Secrets \X (0 .. Order - 1)

KeyOf == [d \in Secrets |-> Scale(Mul(Generator, d, TRUE))]

Init ==
    /\ Kinds \in Mixes
    /\ secret \in Secrets /\ pub = KeyOf[secret] /\ fast = FALSE
    /\ phase = "idle"
    /\ digest \in Digests /\ truncate \in Truncations
    /\ retry = 0 /\ left = 0 /\ pos = 1 /\ nonce = 0
    /\ stream = [seed \in Seeds |-> <<>>]
    /\ used = {} /\ sig = None /\ verdict = "none"

Arguments == digest' \in Digests /\ truncate' \in Truncations

(* The signature of the number e with the nonce k, as one of the encoders  *)
(* writes it: as it is, or with the canonical s.                           *)
Encoded(e, k) ==
    LET s == S(secret, e, k) IN {<<ROf[k], s>>, <<ROf[k], Canonize(s)>>}

(* SigningKey.sign_digest, with a nonce that is given or random; one that  *)
(* raises BadDigestError or RSZeroError changes nothing.                   *)
Sign ==
    /\ "sign" \in Kinds /\ phase = "idle"
    /\ Arguments /\ ~ TooLong(digest', truncate')
    /\ \E k \in 1 .. Order - 1 :
         LET e == Number(digest', truncate') IN
         Signs(secret, e, k) /\ sig' \in Encoded(e, k)
    /\ verdict' = "none"
    /\ UNCHANGED <<secret, pub, fast, phase, generator, used>>

(* The seeds the generator was given so far.                               *)
Seeded == {seed \in Seeds : stream[seed] # <<>>}

(* sign_digest_deterministic: the first call of generate_k.  Bound: there  *)
(* are no more than MaxSeeds seeds, each of them used any number of times. *)
SignDeterministic ==
    /\ "deterministic" \in Kinds /\ phase = "idle"
    /\ Arguments
    /\ Cardinality(Seeded \cup {Seed(secret, digest')}) <= MaxSeeds
    /\ phase' = "generate" /\ retry' = 0 /\ left' = 0 /\ pos' = 1
    /\ sig' = None /\ verdict' = "none" /\ nonce' = 0
    /\ UNCHANGED <<secret, pub, fast, stream, used>>

(* The next output of the generator: what it was before for this seed, or  *)
(* anything.  Bound: the MaxStream-th candidate is good, if none before is.*)
Outputs(seed) ==
    IF pos <= Len(stream[seed]) THEN {stream[seed][pos]}
    ELSE IF pos < MaxStream THEN Candidates
    ELSE {k \in 1 .. Order - 1 : Signs(secret, Number(digest, truncate), k)}

(* A mutant: one good candidate too many is skipped.                       *)
GenerateKSkips ==
    /\ phase = "generate"
    /\ \E k \in Outputs(Seed(secret, digest)) :
         /\ stream' = [stream EXCEPT ![Seed(secret, digest)] =
                         IF pos <= Len(@) THEN @ ELSE Append(@, k)]
         /\ IF k \in 1 .. Order - 1 /\ left < 0
            THEN phase' = "number" /\ nonce' = k /\ UNCHANGED <<left, pos>>
            ELSE /\ left' = IF k \in 1 .. Order - 1 THEN left - 1 ELSE left
                 /\ pos' = pos + 1
                 /\ UNCHANGED <<phase, nonce>>
    /\ UNCHANGED <<secret, pub, fast, call, retry, used, sig, verdict>>

(* One round of the loop of generate_k.                                    *)
GenerateK ==
    /\ phase = "generate"
    /\ \E k \in Outputs(Seed(secret, digest)) :
         /\ stream' = [stream EXCEPT ![Seed(secret, digest)] =
                         IF pos <= Len(@) THEN @ ELSE Append(@, k)]
         /\ IF k \in 1 .. Order - 1 /\ left <= 0
            THEN phase' = "number" /\ nonce' = k /\ UNCHANGED <<left, pos>>
            ELSE /\ left' = IF k \in 1 .. Order - 1 THEN left - 1 ELSE left
                 /\ pos' = pos + 1
                 /\ UNCHANGED <<phase, nonce>>
    /\ UNCHANGED <<secret, pub, fast, call, retry, used, sig, verdict>>

(* A mutant: RSZeroError does not count as a retry.                        *)
RetrySame == retry' = retry /\ left' = retry'

(* RSZeroError: the generator starts again, and skips one more.            *)
Retry == retry' = retry + 1 /\ left' = retry'

(* The call ends, and its local variables with it.                         *)
Leave == phase' = "idle" /\ retry' = 0 /\ left' = 0 /\ pos' = 1 /\ nonce' = 0

(* sign_digest with the nonce: BadDigestError, RSZeroError or a signature. *)
SignNumber ==
    LET e == Number(digest, truncate) IN
    /\ phase = "number"
    /\ \/ /\ TooLong(digest, truncate)
          /\ Leave /\ UNCHANGED <<sig, used>>
       \/ /\ ~ TooLong(digest, truncate) /\ ~ Signs(secret, e, nonce)
          /\ phase' = "generate" /\ pos' = 1 /\ nonce' = 0 /\ Retry
          /\ UNCHANGED <<sig, used>>
       \/ /\ ~ TooLong(digest, truncate) /\ Signs(secret, e, nonce)
          /\ Leave /\ sig' \in Encoded(e, nonce)
          /\ used' = used \cup {[seed |-> Seed(secret, digest), pos |-> pos,
                                 truncated |-> truncate, number |-> e]}
    /\ UNCHANGED <<secret, pub, fast, call, stream, verdict>>

(* VerifyingKey.verify_digest of any two numbers a decoder may return;     *)
(* __mul__ and mul_add scale the point of the key, unless it has a table.  *)
Verify ==
    /\ "verify" \in Kinds /\ phase = "idle"
    /\ Arguments
    /\ \E r, s \in 0 .. Order :
         LET e == Number(digest', truncate') IN
         /\ sig' = <<r, s>>
         /\ verdict' = IF TooLong(digest', truncate') THEN "BadDigestError"
                       ELSE Verifies(pub, fast, e, r, s)
         /\ pub' = IF fast \/ verdict' = "BadDigestError" \/ {r, s} \cap {0, Order} # {}
                      \/ (e % Order = 0 /\ r = s)
                   THEN pub ELSE Scale(pub)
    /\ UNCHANGED <<secret, fast, phase, generator, used>>

(* VerifyingKey.precompute                                                 *)
Precomputation ==
    /\ "precompute" \in Kinds /\ phase = "idle" /\ ~ fast
    /\ pub' = Scale(pub) /\ fast' = TRUE
    /\ UNCHANGED <<secret, phase, call, generator, used, sig, verdict>>

InRange(rs) == rs # None /\ rs[1] \in 1 .. Order - 1 /\ rs[2] \in 1 .. Order - 1

(* VerifyingKey.from_public_key_recovery_with_digest, and one of the keys. *)
Recover ==
    /\ "recover" \in Kinds /\ phase = "idle" /\ InRange(sig)
    /\ ~ TooLong(digest, truncate)
    /\ pub' \in Recovered(Number(digest, truncate), sig[1], sig[2])
    /\ fast' = FALSE /\ verdict' = "recovered"
    /\ UNCHANGED <<secret, phase, call, generator, used, sig>>

Call ==
    \/ Sign \/ SignDeterministic \/ GenerateK \/ SignNumber
    \/ Verify \/ Precomputation \/ Recover

Next == Call /\ UNCHANGED Kinds

(* A call of sign_digest_deterministic goes on until it returns.           *)
Spec ==
    Init /\ [][Next]_vars /\ WF_vars(GenerateK /\ UNCHANGED Kinds)
                          /\ WF_vars(SignNumber /\ UNCHANGED Kinds)

----------------------------------------------------------------------------
(* The types; a signature made or verified is two numbers up to the order. *)
TypeOK ==
    /\ Kinds \in Mixes
    /\ secret \in Secrets /\ fast \in BOOLEAN
    /\ Residues(pub) \in CurvePoints
    /\ phase \in {"idle", "generate", "number"}
    /\ digest \in Digests /\ truncate \in Truncations
    /\ {retry, left} \subseteq Nat /\ pos \in Nat \ {0} /\ nonce \in 0 .. Order - 1
    /\ \A seed \in Seeds : stream[seed] \in Seq(0 .. 2 ^ BitLength[Order] - 1)
    /\ sig = None \/ sig \in (0 .. Order) \X (0 .. Order)
    /\ verdict \in {"none", "recovered", "True", "False", "TypeError", "BadDigestError"}

(* What the theorems ask of the curve: every point is annihilated by the   *)
(* order, and the multiples of the generator are computed without a Twin.  *)
CurveSound ==
    /\ Annihilates(Order)
    /\ \A k \in 0 .. 3 * Order : ~ Mul(Generator, k, TRUE).twin

(* The equation of ECDSA, in the reference group.                          *)
Base == <<BaseX, BaseY>>
Equation(q, e, r, s) ==
    LET c == InverseModOrder(s)
        z == RAdd(RMul((e * c) % Order, Base), RMul((r * c) % Order, q))
    IN InRange(<<r, s>>) /\ z # O /\ z[1] % Order = r

(* A Twin on the way of a verification: the two triples are the same point,*)
(* but _add_with_z_1() takes them for different ones.                      *)
VerifierTwin(q, table, e, r, s) ==
    LET c == InverseModOrder(s) IN
    InRange(<<r, s>>) /\ DoubleProduct((e * c) % Order, q, (r * c) % Order, table).twin

(* A Twin on the way of a recovery.                                        *)
RecoverTwin(e, r, s, y) ==
    LET multiple == Mul(Jacobi(r, y, 1, Order), s, FALSE) IN
    \/ multiple.twin \/ Add(multiple, Mul(Generator, (- e) % Order, TRUE)).twin
    \/ RecoverFrom(e, r, s, y).twin

(* Recovery meets no Twin, and r is the x of a point itself.               *)
RecoverySound(e, r, s) ==
    r \in Field /\ \A y \in {EvenY(r), - EvenY(r)} : ~ RecoverTwin(e, r, s, y)

(* verify_digest accepts what satisfies the equation of ECDSA and nothing  *)
(* else, whatever tables and denominators its points have.                 *)
AcceptsEquation ==
    verdict \in {"True", "False", "TypeError"} =>
      ((verdict = "True") <=>
         Equation(Residues(pub), Number(digest, truncate), sig[1], sig[2]))

(* A signature made with the secret exponent is one the public key         *)
(* accepts, with the same allow_truncate, also with the canonical s.       *)
SignatureAccepted ==
    phase = "idle" /\ sig # None /\ verdict = "none" =>
      \A table \in BOOLEAN :
        Verifies(KeyOf[secret], table, Number(digest, truncate), sig[1], sig[2]) = "True"

(* The keys recovered from r and s accept them, and if there are any, the  *)
(* signer's is one of them unless r is not the x of the point that was     *)
(* signed with but what is left of it modulo the order.                    *)
KeysRight(keys, q, e, r, s) ==
    LET c      == InverseModOrder(s)
        signed == RAdd(RMul((e * c) % Order, Base), RMul((r * c) % Order, q))
    IN /\ \A key \in keys : Verifies(key, FALSE, e, r, s) = "True"
       /\ keys # {} /\ signed # O /\ signed[1] = r =>
            q \in {Residues(key) : key \in keys}

(* "Returns two public keys for which the signature is valid".             *)
RecoveredValid ==
    phase = "idle" /\ InRange(sig) /\ ~ TooLong(digest, truncate) =>
      LET e == Number(digest, truncate) IN
      KeysRight(Recovered(e, sig[1], sig[2]), Residues(KeyOf[secret]), e, sig[1], sig[2])

(* No candidate of the generator serves to sign two numbers: what          *)
(* generate_k is seeded with tells all the numbers apart that sign_number  *)
(* is given, also when calls are repeated or retried.  The first is for    *)
(* digests that are truncated, the second for any.                         *)
SameNonce(u, v) == u.seed = v.seed /\ u.pos = v.pos

SameNumber(u, v) == u.number % Order = v.number % Order

NonceOnce ==
    \A u, v \in used :
      u.truncated /\ v.truncated /\ SameNonce(u, v) => SameNumber(u, v)

NonceOnceAnyDigest == \A u, v \in used : SameNonce(u, v) => SameNumber(u, v)

(* A deterministic signature is made with the first candidate that gives   *)
(* one: generate_k starts from the beginning at every retry, and no good   *)
(* candidate is passed over or returned twice.                             *)
FirstGood ==
    \A u \in used : \A i \in 1 .. u.pos - 1 :
      LET k == stream[u.seed][i] IN
      k \in 1 .. Order - 1 => ~ Signs(secret, u.number, k)

(* sign_digest_deterministic returns, although it starts again whenever r  *)
(* or s is zero.                                                           *)
DeterministicReturns == phase = "generate" ~> phase = "idle"
=============================================================================
