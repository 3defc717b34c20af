------------------------------- MODULE EdDSA -------------------------------
(***************************************************************************)
(* Points on an Edwards curve in the hands of a program, and the keys and  *)
(* signatures of src/src/ecdsa/eddsa.py made of them.  A hash is a number  *)
(* that may be anything, and the same when the same is hashed.             *)
(***************************************************************************)
EXTENDS Edwards

CONSTANTS Bits,     \* the bits of a prime of the size of P
          LowBits,  \* the logarithm of the cofactor
          MaxK      \* the largest number multiplied with, and hash, modelled

ASSUME EdDSAAssumption ==
    Bits \in Nat \ {0} /\ LowBits \in 0 .. Bits - 1 /\ MaxK \in Nat

Scalars == 0 .. MaxK

(* _key_prune: the low bits are cleared, the highest is set.               *)
KeyPrune(h) == 2 ^ (Bits - 1) + (h \div 2 ^ LowBits) * 2 ^ LowBits

Secrets == {KeyPrune(h) : h \in 0 .. 2 ^ (Bits - 1) - 1}

VARIABLES p, q,     \* two points
          logp, logq, \* ghost: which multiples of the generator they must be
          encoded,  \* the encoding in the PublicKey whose point p is, or None
          table,    \* whether p was precomputed: it is called a generator
          sig,      \* the signature just made or verified, or None
          verdict   \* what was said of it

vars == <<p, q, logp, logq, encoded, table, sig, verdict>>

None == <<>>
Signature(R, S, k) == [R |-> R, S |-> S, k |-> k]

Init ==
    /\ p = Generator /\ logp = 1 /\ q = INFINITY /\ logq = 0
    /\ encoded = None /\ table = FALSE /\ sig = None /\ verdict = "none"

(* A call is over, and the last signature is of no interest any more.      *)
Done ==
    /\ verdict # "none"
    /\ sig' = None /\ verdict' = "none"
    /\ UNCHANGED <<p, q, logp, logq, encoded, table>>

(* A point is computed and p refers to it.                                 *)
Computes(pt, log) ==
    /\ verdict = "none"
    /\ p' = pt /\ logp' = log /\ encoded' = None /\ table' = FALSE
    /\ UNCHANGED <<q, logq, sig, verdict>>

(* The methods "assume sane parameters": points of the generator's group.  *)
Sane == logp # Outside /\ logq # Outside

AddQ    == Sane /\ Computes(Add(p, q), (logp + logq) % Order)
DoubleP == Sane /\ Computes(Double(p), (2 * logp) % Order)
Times   == Sane /\ \E k \in Scalars : Computes(Mul(p, k, table), (k * logp) % Order)
TimesGenerator == \E k \in Scalars : Computes(MulGenerator(k), k % Order)

(* scale()                                                                 *)
ScaleP ==
    /\ verdict = "none" /\ p' = Scale(p)
    /\ UNCHANGED <<q, logp, logq, encoded, table, sig, verdict>>

(* q refers to the point as it is now, or to INFINITY.                     *)
Keep ==
    /\ verdict = "none" /\ encoded = None
    /\ \/ q' = p /\ logq' = logp
       \/ q' = INFINITY /\ logq' = 0
    /\ UNCHANGED <<p, logp, encoded, table, sig, verdict>>

(* Bound: keys are made and used while there is no other point than p.     *)
BecomesKey(pt, log, e) ==
    /\ p' = pt /\ logp' = log /\ encoded' = e /\ table' = FALSE
    /\ UNCHANGED <<q, logq>>

(* PublicKey of bytes, or MalformedPointError.                             *)
PublicKeyFromBytes ==
    /\ verdict = "none" /\ q = INFINITY
    /\ \E e \in Encodings :
         \/ Decodes(e) /\ BecomesKey(FromBytes(e), LogOf(FromBytes(e)), e)
              /\ UNCHANGED <<sig, verdict>>
         \/ ~ Decodes(e) /\ verdict' = "MalformedPointError"
              /\ UNCHANGED <<p, q, logp, logq, encoded, table, sig>>

(* PublicKey of a point, with what to_bytes() says of it.                  *)
PublicKeyFromPoint ==
    /\ verdict = "none" /\ q = INFINITY /\ encoded = None /\ p # INFINITY
    /\ BecomesKey(Scale(p), logp, ToBytes(p))
    /\ UNCHANGED <<sig, verdict>>

(* VerifyingKey.precompute, and the setter of the point of a PublicKey.    *)
Precompute ==
    /\ verdict = "none" /\ encoded # None /\ logp # Outside
    /\ p' = Extended(<<Scale(p).x, Scale(p).y, 1, Scale(p).x * Scale(p).y>>, Order)
    /\ table' = TRUE
    /\ UNCHANGED <<q, logp, logq, encoded, sig, verdict>>

(* A mutant: S is not reduced.                                             *)
SUnreduced(r, k, s) == r + (k % Order) * s

SOf(r, k, s) == (r + (k % Order) * s) % Order

(* PrivateKey.public_key and PrivateKey.sign, with the hashes r and k; the *)
(* point INFINITY has no encoding, and to_bytes() raises AttributeError.   *)
Sign ==
    /\ verdict = "none" /\ q = INFINITY
    /\ \E s \in Secrets, r, k \in Scalars :
         LET A1 == Scale(MulGenerator(s))
             R  == MulGenerator(r)
         IN IF A1 = INFINITY
            THEN /\ verdict' = "AttributeError"
                 /\ UNCHANGED <<p, q, logp, logq, encoded, table, sig>>
            ELSE /\ BecomesKey(A1, s % Order, ToBytes(A1))
                 /\ IF R = INFINITY THEN verdict' = "AttributeError" /\ sig' = None
                    ELSE /\ verdict' = "signed"
                         /\ sig' = Signature(ToBytes(R), SOf(r, k, s), k)

(* A mutant: the largest S is one too large.                               *)
VerifiesLarge(pk, a) ==
    /\ a.S <= Order
    /\ Eq(MulGenerator(a.S), Add(Mul(pk.pt, a.k, pk.generator), FromBytes(a.R)))

(* PublicKey.verify of a signature whose R decodes.                        *)
Verifies(pk, a) ==
    /\ a.S < Order
    /\ Eq(MulGenerator(a.S), Add(Mul(pk.pt, a.k, pk.generator), FromBytes(a.R)))

Key == [pt |-> p, generator |-> table]

Verify ==
    /\ verdict = "none" /\ encoded # None
    /\ \E e \in Encodings, S \in 0 .. Order, k \in Scalars :
         /\ sig' = Signature(e, S, k)
         /\ verdict' = IF ~ e.fits THEN "ValueError"
                       ELSE IF ~ Decodes(e) THEN "MalformedPointError"
                       ELSE IF Verifies(Key, Signature(e, S, k)) THEN "True" ELSE "ValueError"
    /\ UNCHANGED <<p, q, logp, logq, encoded, table>>

Next ==
    \/ AddQ \/ DoubleP \/ Times \/ TimesGenerator \/ ScaleP \/ Keep
    \/ PublicKeyFromBytes \/ PublicKeyFromPoint \/ Precompute
    \/ Sign \/ Verify \/ Done

Spec == Init /\ [][Next]_vars

----------------------------------------------------------------------------
(* Types, with the equation of the curve for every point held.             *)
OnCurve(pt) ==
    pt = INFINITY \/ (ContainsPoint(Affine(pt)[1], Affine(pt)[2]) /\ (pt.x * pt.y - pt.z * pt.t) % P = 0)

TypeOK ==
    /\ {p, q} \subseteq Points /\ OnCurve(p) /\ OnCurve(q)
    /\ {logp, logq} \subseteq {Outside} \cup 0 .. Order - 1
    /\ encoded \in Encodings \cup {None} /\ table \in BOOLEAN
    /\ encoded # None => p.z = 1
    /\ verdict \in {"none", "signed", "True", "ValueError", "MalformedPointError", "AttributeError"}

(* Points of the generator's group are added, doubled and multiplied as    *)
(* the group says, in whatever representation they come, with or without   *)
(* a table, and INFINITY among them: _add doubles points of equal t, and   *)
(* x = 0 or t = 0 is taken for INFINITY.                                   *)
GroupLaw ==
    /\ logp # Outside => Affine(p) = Multiples[logp]
    /\ logq # Outside => Affine(q) = Multiples[logq]

(* PublicKey.verify says True of what satisfies S*G = R + k*A, with S less *)
(* than the order, and of nothing else; for keys and an R in the group of  *)
(* the generator.                                                          *)
VerifiesExactly ==
    verdict \in {"True", "ValueError"} /\ sig.R.fits =>
      LET r == LogOf(FromBytes(sig.R)) IN
      logp # Outside /\ r # Outside =>
        ((verdict = "True") <=>
           (sig.S < Order /\ (sig.k * logp + r) % Order = sig.S))

(* A signature that PrivateKey.sign makes is accepted by the key it was    *)
(* made with, by the same key read from its bytes, and after precompute(); *)
(* and the verifier hashes the same bytes of R and of the key.             *)
SignatureAccepted ==
    verdict = "signed" =>
      LET read == FromBytes(encoded) IN
      /\ Decodes(encoded) /\ Decodes(sig.R)
      /\ Verifies(Key, sig)
      /\ Verifies([pt |-> read, generator |-> FALSE], sig)
      /\ Verifies([pt |-> Extended(CoordsOf(read), Order), generator |-> TRUE], sig)
      /\ ToBytes(FromBytes(sig.R)) = sig.R /\ ToBytes(p) = encoded

(* The bytes a public key keeps and compares are those of its point, and   *)
(* from_bytes takes them back to it, unless y is beyond the prime or the   *)
(* sign is that of x = 0: from_bytes accepts these too.                    *)
KeyMatchesBytes ==
    /\ encoded # None =>
         /\ Eq(FromBytes(encoded), p)
         /\ ToBytes(p) = encoded \/ encoded.y >= P \/ p.x = 0
    /\ p # INFINITY => Decodes(ToBytes(p)) /\ Affine(FromBytes(ToBytes(p))) = Affine(p)
=============================================================================
