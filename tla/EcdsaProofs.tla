---------------------------- MODULE EcdsaProofs ----------------------------
(***************************************************************************)
(* Proofs about signing and verifying: which numbers share a nonce, which  *)
(* candidate of the generator signs, that verification is the equation of  *)
(* ECDSA, and that it accepts what was signed and the keys recovered.      *)
(***************************************************************************)
EXTENDS Ecdsa, JacobianProofs

----------------------------------------------------------------------------
(* bit_length                                                              *)
LEMMA BitLengthDef ==
  BitLength = [n \in Nat |-> IF n <= 1 THEN 1 ELSE 1 + BitLength[n \div 2]]
  BY BitLengthExists DEF BitLength

LEMMA BitLengthBounds ==
  ASSUME NEW n \in Nat
  PROVE  /\ BitLength[n] \in Nat \ {0} /\ n < 2 ^ BitLength[n]
         /\ n > 0 => 2 ^ (BitLength[n] - 1) <= n
  BY BitLengthDef, BitLengthIs, Zenon

----------------------------------------------------------------------------
(* What bits2int cuts off.                                                 *)
Bits == BitLength[Order]

LEMMA BitsFacts ==
  /\ Order \in Nat /\ Order > 2 /\ Bits \in Nat \ {0} /\ 2 ^ Bits <= 2 * Order
  /\ ByteBits \in Nat \ {0} /\ BaseLen \in Nat /\ Bits <= ByteBits * BaseLen
  /\ Order < 2 ^ Bits /\ ByteBits * BaseLen \in Nat
  <1>1. Order \in Nat /\ Order > 2 /\ ByteBits \in Nat \ {0}
    BY EcdsaAssumption
  <1>2. Bits \in Nat \ {0} /\ Order < 2 ^ Bits /\ 2 ^ (Bits - 1) <= Order
    BY <1>1, BitLengthBounds DEF Bits
  <1>3. 2 ^ Bits <= 2 * Order
    <2>1. Bits - 1 \in Nat /\ Bits - 1 + 1 = Bits
      BY <1>2
    <2>2. 2 ^ (Bits - 1 + 1) = 2 * 2 ^ (Bits - 1) /\ 2 ^ (Bits - 1) \in Nat
      BY <2>1, PowerNext, PowerPositive
    <2> QED BY <1>1, <1>2, <2>1, <2>2
  <1> DEFINE a == Bits + ByteBits - 1
  <1>4. /\ a % ByteBits \in Int /\ 0 <= a % ByteBits /\ a % ByteBits < ByteBits
        /\ a \div ByteBits \in Int /\ a = ByteBits * (a \div ByteBits) + (a % ByteBits)
    BY <1>1, <1>2, DivMod
  <1>5. BaseLen = a \div ByteBits
    BY DEF BaseLen, Bits
  <1>0. a \in Int
    BY <1>1, <1>2
  <1> HIDE DEF a
  <1>6. ByteBits * BaseLen \in Int /\ ByteBits * BaseLen > a - ByteBits
    <2>1. ByteBits * BaseLen = a - (a % ByteBits)
      BY <1>0, <1>1, <1>4, <1>5
    <2> QED BY <1>0, <1>1, <1>4, <2>1
  <1>7. ByteBits * BaseLen >= Bits
    BY <1>1, <1>2, <1>6 DEF a
  <1>8. BaseLen \in Nat
    <2>1. BaseLen \in Int /\ ByteBits * BaseLen > 0
      <3>1. BaseLen \in Int
        BY <1>4, <1>5
      <3> QED BY <1>2, <1>6, <1>7, <3>1
    <2>2. CASE BaseLen < 0
      <3>1. ByteBits * BaseLen <= 0
        BY <1>1, <2>1, <2>2
      <3> QED BY <1>6, <2>1, <3>1
    <2> QED BY <2>1, <2>2
  <1> QED BY <1>1, <1>2, <1>3, <1>6, <1>7, <1>8

LEMMA DigestFacts ==
  ASSUME NEW g \in Digests
  PROVE  /\ g.len \in Nat \ {0} /\ g.number \in Nat /\ ByteBits * g.len \in Nat
         /\ g.number < 2 ^ (ByteBits * g.len)
  BY DigestAssumption, BitsFacts, PowerPositive

(* What is cut to the length of the order first is cut to the same bits.   *)
LEMMA CutTwice ==
  ASSUME NEW g \in Digests
  PROVE  Number(g, TRUE) = Leftmost(g, Bits)
  <1>1. CASE ~ (g.len > BaseLen)
    BY <1>1 DEF Number, Bits
  <1>2. CASE g.len > BaseLen
    <2> DEFINE n == g.number  w == ByteBits * g.len  c == ByteBits * BaseLen
               a == w - c     b == c - Bits
    <2>1. w \in Nat /\ c \in Nat /\ n \in Nat /\ Bits \in Nat /\ Bits <= c
      BY DigestFacts, BitsFacts
    <2>2. w > c
      BY <1>2, DigestFacts, BitsFacts
    <2> DEFINE cut == Digest(BaseLen, Leftmost(g, c))
    <2>3. Number(g, TRUE) = Leftmost(cut, Bits)
      BY <1>2 DEF Number, Bits
    <2>4. cut.len = BaseLen /\ cut.number = n \div (2 ^ a)
      <3>1. ByteBits * g.len - c > 0
        BY <2>1, <2>2
      <3>2. cut.len = BaseLen /\ cut.number = Leftmost(g, c)
        BY DEF Digest
      <3> QED BY <3>1, <3>2 DEF Leftmost
    <2>5. Leftmost(g, Bits) = n \div (2 ^ (w - Bits))
      <3>1. ByteBits * g.len - Bits > 0
        BY <2>1, <2>2
      <3> QED BY <3>1 DEF Leftmost
    <2>6. Leftmost(cut, Bits) = IF b > 0 THEN (n \div (2 ^ a)) \div (2 ^ b)
                                ELSE n \div (2 ^ a)
      BY <2>4 DEF Leftmost
    <2> HIDE DEF n, w, c, cut
    <2>7. a \in Nat /\ b \in Nat /\ w - Bits = a + b /\ (b = 0 => w - Bits = a)
      BY <2>1, <2>2
    <2> HIDE DEF a, b
    <2>8. 2 ^ a \in Nat \ {0} /\ 2 ^ b \in Nat \ {0} /\ 2 ^ (a + b) = 2 ^ a * 2 ^ b
      BY <2>7, PowerPositive, PowerSum
    <2>9. (n \div (2 ^ a)) \div (2 ^ b) = n \div (2 ^ (a + b))
      BY <2>1, <2>8, DivTwice
    <2>10. CASE b > 0
      BY <2>3, <2>5, <2>6, <2>7, <2>9, <2>10
    <2>11. CASE b = 0
      <3>1. Leftmost(cut, Bits) = n \div (2 ^ a) /\ w - Bits = a
        BY <2>6, <2>7, <2>11
      <3> QED BY <2>3, <2>5, <3>1
    <2>12. b > 0 \/ b = 0
      BY <2>7
    <2> QED BY <2>10, <2>11, <2>12, Zenon
  <1> QED BY <1>1, <1>2

LEMMA LeftmostBounds ==
  ASSUME NEW g \in Digests
  PROVE  Leftmost(g, Bits) \in Nat /\ Leftmost(g, Bits) < 2 ^ Bits
  <1> DEFINE n == g.number  w == ByteBits * g.len  e == w - Bits
  <1>1. w \in Nat /\ n \in Nat /\ n < 2 ^ w /\ Bits \in Nat
    BY DigestFacts, BitsFacts
  <1>2. Leftmost(g, Bits) = IF e > 0 THEN n \div (2 ^ e) ELSE n
    BY DEF Leftmost
  <1> HIDE DEF n, w
  <1>3. CASE e > 0
    <2> DEFINE x == 2 ^ e
    <2>1. e \in Nat /\ w = e + Bits
      BY <1>1, <1>3
    <2>2. x \in Nat \ {0} /\ 2 ^ Bits \in Nat \ {0} /\ 2 ^ w = x * 2 ^ Bits
      BY <1>1, <2>1, PowerPositive, PowerSum
    <2> HIDE DEF x
    <2>3. n = x * (n \div x) + (n % x) /\ n \div x \in Int /\ 0 <= n % x /\ n % x < x
          /\ n % x \in Int
      BY <1>1, <2>2, DivMod
    <2>4. n \div x >= 0
      BY <1>1, <2>2, <2>3
    <2>5. n \div x < 2 ^ Bits
      <3>1. x * (n \div x) < x * 2 ^ Bits
        BY <1>1, <2>2, <2>3
      <3> QED BY <3>1, <2>2, <2>3
    <2> QED BY <1>2, <1>3, <2>3, <2>4, <2>5 DEF x
  <1>4. CASE ~ (e > 0)
    <2>1. w <= Bits
      BY <1>1, <1>4
    <2>2. 2 ^ w <= 2 ^ Bits /\ 2 ^ w \in Nat /\ 2 ^ Bits \in Nat
      BY <1>1, <2>1, PowerMonotone, PowerPositive
    <2> QED BY <1>1, <1>2, <1>4, <2>2
  <1> QED BY <1>3, <1>4

LEMMA RemainderOnce ==
  ASSUME NEW n \in Nat, n > 2, NEW z \in Nat, z < 2 * n
  PROVE  LET r == IF z < n THEN z ELSE z - n IN r \in 0 .. n - 1 /\ z % n = r
  <1>1. CASE z < n
    BY <1>1, RemainderOfSmall
  <1>2. CASE ~ (z < n)
    <2> DEFINE r == z - n
    <2>1. r \in Nat /\ r < n /\ z = r + 1 * n /\ n \in Nat \ {0} /\ z \in Int /\ r \in Int
      BY <1>2
    <2> HIDE DEF r
    <2>2. r % n = r
      BY <2>1, RemainderOfSmall
    <2>3. z % n = r % n
      BY <2>1, SameRemainder, 1 \in Int, Zenon
    <2> QED BY <1>2, <2>1, <2>2, <2>3 DEF r
  <1> QED BY <1>1, <1>2

(* The seed tells the number apart, modulo the order.                      *)
LEMMA SeedFacts ==
  ASSUME NEW d \in Secrets, NEW g \in Digests
  PROVE  /\ Seed(d, g) \in Seeds
         /\ Seed(d, g)[2] = Number(g, TRUE) % Order
  <1> DEFINE z == Leftmost(g, Bits)
             r == IF z < Order THEN z ELSE z - Order
  <1>1. z \in Nat /\ z < 2 * Order
    BY LeftmostBounds, BitsFacts, PowerPositive
  <1>2. Seed(d, g) = <<d, r>> /\ Number(g, TRUE) = z
    BY CutTwice DEF Seed, Bits
  <1> HIDE DEF z
  <1>3. r \in 0 .. Order - 1 /\ z % Order = r
    BY <1>1, BitsFacts, RemainderOnce
  <1> HIDE DEF r
  <1>4. <<d, r>> \in Secrets \X (0 .. Order - 1)
    BY <1>3
  <1>5. Seed(d, g) \in Seeds
    BY <1>2, <1>4, Zenon DEF Seeds
  <1>6. Seed(d, g)[2] = r
    BY <1>2
  <1> QED BY <1>2, <1>3, <1>5, <1>6, Zenon

----------------------------------------------------------------------------
(* How many of the first n candidates of st lie in the range of nonces.    *)
InNonces(k) == k \in 1 .. Order - 1
GoodAmong(st, n) == {i \in 1 .. n : InNonces(st[i])}
Passed(st, n) == Cardinality(GoodAmong(st, n))

LEMMA PassedNext ==
  ASSUME NEW st, NEW n \in Nat
  PROVE  /\ Passed(st, n) \in Nat /\ Passed(st, 0) = 0
         /\ Passed(st, n + 1) = IF InNonces(st[n + 1]) THEN Passed(st, n) + 1
                                ELSE Passed(st, n)
  <1> DEFINE S0 == GoodAmong(st, n)
  <1>1. IsFiniteSet(1 .. n)
    BY FS_Interval, 1 \in Int, n \in Int
  <1>2. S0 \subseteq 1 .. n
    BY DEF GoodAmong
  <1>3. IsFiniteSet(S0)
    <2> HIDE DEF S0
    <2> QED BY <1>1, <1>2, FS_Subset
  <1>4. Passed(st, n) \in Nat
    BY <1>3, FS_CardinalityType DEF Passed
  <1>5. Passed(st, 0) = 0
    <2>1. GoodAmong(st, 0) = {}
      BY DEF GoodAmong
    <2> QED BY <2>1, FS_EmptySet DEF Passed
  <1>6. n + 1 \notin S0
    BY <1>2
  <1>7. CASE InNonces(st[n + 1])
    <2>1. GoodAmong(st, n + 1) = S0 \cup {n + 1}
      BY <1>7 DEF GoodAmong
    <2> HIDE DEF S0
    <2>2. Cardinality(S0 \cup {n + 1}) = Cardinality(S0) + 1
      BY <1>3, <1>6, FS_AddElement
    <2> QED BY <1>4, <1>5, <1>7, <2>1, <2>2 DEF Passed, S0
  <1>8. CASE ~ InNonces(st[n + 1])
    <2>1. GoodAmong(st, n + 1) = S0
      BY <1>8 DEF GoodAmong
    <2> QED BY <1>4, <1>5, <1>8, <2>1 DEF Passed
  <1> QED BY <1>7, <1>8

LEMMA PassedMonotone ==
  ASSUME NEW st, NEW m \in Nat, NEW n \in Nat, m <= n
  PROVE  Passed(st, m) <= Passed(st, n)
  <1> DEFINE S0 == GoodAmong(st, m)  S1 == GoodAmong(st, n)
  <1>1. S0 \subseteq S1 /\ S1 \subseteq 1 .. n
    BY DEF GoodAmong
  <1>2. IsFiniteSet(1 .. n)
    BY FS_Interval, 1 \in Int, n \in Int
  <1> HIDE DEF S0, S1
  <1>3. IsFiniteSet(S1)
    BY <1>1, <1>2, FS_Subset
  <1>4. Cardinality(S0) <= Cardinality(S1)
    BY <1>1, <1>3, FS_Subset
  <1> QED BY <1>4 DEF Passed, S0, S1

LEMMA PassedSame ==
  ASSUME NEW st, NEW st2, NEW n \in Nat, \A i \in 1 .. n : st[i] = st2[i]
  PROVE  Passed(st, n) = Passed(st2, n)
  <1>1. GoodAmong(st, n) = GoodAmong(st2, n)
    BY DEF GoodAmong
  <1> QED BY <1>1 DEF Passed

(* One good candidate follows another at most once for every count.        *)
LEMMA PassedStrict ==
  ASSUME NEW st, NEW m \in Nat \ {0}, NEW n \in Nat, m <= n, InNonces(st[m])
  PROVE  Passed(st, m - 1) < Passed(st, n)
  <1>1. m - 1 \in Nat /\ m - 1 + 1 = m
    OBVIOUS
  <1>2. Passed(st, m - 1 + 1) = Passed(st, m - 1) + 1 /\ Passed(st, m - 1) \in Nat
    BY <1>1, PassedNext
  <1>3. Passed(st, m) <= Passed(st, n) /\ Passed(st, n) \in Nat
    BY PassedMonotone, PassedNext
  <1> QED BY <1>1, <1>2, <1>3

----------------------------------------------------------------------------
(* A call of sign_digest_deterministic with the number e: ph, rt, lf, ps,  *)
(* nc are the values of phase, retry, left, pos and nonce, and st is what  *)
(* the generator yielded for its seed.  The good candidates that were      *)
(* tried give no signature, and generate_k is to pass over them again.     *)
Tried(st, rt, d, e) ==
    \A i \in 1 .. Len(st) :
      InNonces(st[i]) /\ Passed(st, i - 1) < rt => ~ Signs(d, e, st[i])

InCall(ph, rt, lf, ps, nc, st, d, e) ==
    ph # "idle" =>
      /\ rt <= Passed(st, Len(st)) /\ Tried(st, rt, d, e) /\ ps - 1 <= Len(st)
      /\ ph = "generate" => lf >= 0 /\ lf + Passed(st, ps - 1) = rt
      /\ ph = "number" => /\ ps <= Len(st) /\ InNonces(st[ps]) /\ nc = st[ps]
                          /\ Passed(st, ps - 1) = rt

(* What generate_k draws once it draws again for every later call.         *)
Longer(st, st2) == Len(st) <= Len(st2) /\ \A i \in 1 .. Len(st) : st2[i] = st[i]

LEMMA StartCall ==
  ASSUME NEW st \in Seq(Nat), NEW d, NEW e
  PROVE  InCall("generate", 0, 0, 1, 0, st, d, e)
  <1>1. \A n \in Nat : Passed(st, n) \in Nat /\ Passed(st, 0) = 0
    BY PassedNext
  <1>2. Len(st) \in Nat /\ 1 - 1 = 0
    OBVIOUS
  <1>3. Tried(st, 0, d, e)
    <2> SUFFICES ASSUME NEW i \in 1 .. Len(st) PROVE ~ (Passed(st, i - 1) < 0)
      BY DEF Tried
    <2>1. i - 1 \in Nat
      BY <1>2
    <2> QED BY <1>1, <2>1
  <1> QED BY <1>1, <1>2, <1>3 DEF InCall

LEMMA NextCandidate ==
  ASSUME NEW st \in Seq(Nat), NEW k \in Nat, NEW ps \in Nat \ {0},
         ps - 1 <= Len(st), ps <= Len(st) => k = st[ps]
  PROVE  LET st2 == IF ps <= Len(st) THEN st ELSE Append(st, k)
         IN st2 \in Seq(Nat) /\ Longer(st, st2) /\ ps <= Len(st2) /\ st2[ps] = k
            /\ (ps > Len(st) => ps = Len(st) + 1 /\ Len(st2) = ps)
  <1>1. CASE ps <= Len(st)
    BY <1>1 DEF Longer
  <1>2. CASE ~ (ps <= Len(st))
    <2>1. ps = Len(st) + 1
      BY <1>2
    <2> QED BY <1>2, <2>1 DEF Longer
  <1> QED BY <1>1, <1>2

LEMMA Round ==
  ASSUME NEW st \in Seq(Nat), NEW k \in Nat, NEW ps \in Nat \ {0}, NEW rt \in Nat,
         NEW lf \in Nat, NEW nc, NEW d, NEW e, NEW st2 \in Seq(Nat),
         InCall("generate", rt, lf, ps, nc, st, d, e),
         Longer(st, st2), ps <= Len(st2), st2[ps] = k,
         ps <= Len(st) => st2 = st,
         ps > Len(st) => ps = Len(st) + 1 /\ Len(st2) = ps
  PROVE  /\ InNonces(k) /\ lf <= 0 => InCall("number", rt, lf, ps, k, st2, d, e)
         /\ InNonces(k) /\ ~ (lf <= 0) =>
              lf - 1 \in Nat /\ InCall("generate", rt, lf - 1, ps + 1, nc, st2, d, e)
         /\ ~ InNonces(k) => InCall("generate", rt, lf, ps + 1, nc, st2, d, e)
  <1> DEFINE before == Passed(st, ps - 1)
  <1>1. /\ rt <= Passed(st, Len(st)) /\ Tried(st, rt, d, e) /\ ps - 1 <= Len(st)
        /\ lf + before = rt
    BY DEF InCall
  <1>2. Len(st) \in Nat /\ Len(st2) \in Nat /\ ps - 1 \in Nat /\ ps - 1 + 1 = ps
    OBVIOUS
  <1>3. \A n \in Nat : Passed(st, n) \in Nat /\ Passed(st2, n) \in Nat
    BY PassedNext
  <1>4. \A n \in Nat : n <= Len(st) => Passed(st2, n) = Passed(st, n)
    BY PassedSame DEF Longer
  <1>5. Passed(st2, ps - 1) = before /\ before \in Nat
    BY <1>1, <1>2, <1>3, <1>4
  <1>6. rt <= Passed(st2, Len(st2))
    <2>1. Passed(st2, Len(st)) <= Passed(st2, Len(st2))
      BY <1>2, PassedMonotone DEF Longer
    <2>2. Passed(st2, Len(st)) = Passed(st, Len(st)) /\ Passed(st2, Len(st2)) \in Nat
          /\ Passed(st, Len(st)) \in Nat
      BY <1>2, <1>3, <1>4
    <2> QED BY <1>1, <2>1, <2>2
  <1>7. Tried(st2, rt, d, e)
    <2> SUFFICES ASSUME NEW i \in 1 .. Len(st2), InNonces(st2[i]), Passed(st2, i - 1) < rt
                 PROVE  ~ Signs(d, e, st2[i])
      BY DEF Tried
    <2>1. i - 1 \in Nat
      BY <1>2
    <2>2. CASE i <= Len(st)
      <3>1. i - 1 <= Len(st) /\ i \in 1 .. Len(st)
        BY <1>2, <2>2
      <3>2. Passed(st2, i - 1) = Passed(st, i - 1) /\ st2[i] = st[i]
        BY <1>4, <2>1, <3>1 DEF Longer
      <3> QED BY <1>1, <3>1, <3>2 DEF Tried
    <2>3. CASE i > Len(st)
      <3>1. st2 # st
        BY <1>2, <2>3
      <3>2. i = Len(st) + 1
        BY <1>2, <2>3, <3>1
      <3>3. Passed(st2, i - 1) = Passed(st, Len(st))
        BY <1>2, <1>4, <3>2
      <3>4. Passed(st, Len(st)) \in Nat /\ Passed(st2, i - 1) \in Nat
        BY <1>2, <1>3, <2>1
      <3> QED BY <1>1, <3>3, <3>4
    <2> QED BY <1>2, <2>2, <2>3
  <1>8. Passed(st2, ps) = IF InNonces(k) THEN before + 1 ELSE before
    <2>1. Passed(st2, ps - 1 + 1) = IF InNonces(st2[ps - 1 + 1]) THEN Passed(st2, ps - 1) + 1
                                    ELSE Passed(st2, ps - 1)
      BY <1>2, PassedNext
    <2> QED BY <1>2, <1>5, <2>1
  <1> HIDE DEF before
  <1>9. ps + 1 - 1 = ps /\ ps - 1 <= Len(st2)
    BY <1>2
  <1>10. CASE InNonces(k) /\ lf <= 0
    <2>1. before = rt
      BY <1>1, <1>5, <1>10
    <2> QED BY <1>5, <1>6, <1>7, <1>9, <1>10, <2>1 DEF InCall
  <1>11. CASE InNonces(k) /\ ~ (lf <= 0)
    <2>1. lf - 1 \in Nat /\ lf - 1 + Passed(st2, ps) = rt
      BY <1>1, <1>5, <1>8, <1>11
    <2> QED BY <1>6, <1>7, <1>9, <1>11, <2>1 DEF InCall
  <1>12. CASE ~ InNonces(k)
    <2>1. lf + Passed(st2, ps) = rt
      BY <1>1, <1>5, <1>8, <1>12
    <2> QED BY <1>6, <1>7, <1>9, <1>12, <2>1 DEF InCall
  <1> QED BY <1>10, <1>11, <1>12

(* RSZeroError                                                             *)
LEMMA RoundFailed ==
  ASSUME NEW st \in Seq(Nat), NEW ps \in Nat \ {0}, NEW rt \in Nat, NEW lf, NEW nc,
         NEW d, NEW e, InCall("number", rt, lf, ps, nc, st, d, e), ~ Signs(d, e, nc)
  PROVE  InCall("generate", rt + 1, rt + 1, 1, 0, st, d, e)
  <1>1. /\ Tried(st, rt, d, e) /\ ps <= Len(st) /\ InNonces(st[ps]) /\ nc = st[ps]
        /\ Passed(st, ps - 1) = rt
    BY DEF InCall
  <1>2. Len(st) \in Nat /\ 1 - 1 = 0
    OBVIOUS
  <1>3. \A n \in Nat : Passed(st, n) \in Nat /\ Passed(st, 0) = 0
    BY PassedNext
  <1>4. rt + 1 <= Passed(st, Len(st))
    <2>1. Passed(st, ps - 1) < Passed(st, Len(st))
      BY <1>1, <1>2, PassedStrict
    <2> QED BY <1>1, <1>2, <1>3, <2>1
  <1>5. Tried(st, rt + 1, d, e)
    <2> SUFFICES ASSUME NEW i \in 1 .. Len(st), InNonces(st[i]), Passed(st, i - 1) < rt + 1
                 PROVE  ~ Signs(d, e, st[i])
      BY DEF Tried
    <2>1. i - 1 \in Nat /\ ps - 1 \in Nat /\ i \in Nat \ {0}
      BY <1>2
    <2>2. CASE i < ps
      <3>1. i <= ps - 1
        BY <2>1, <2>2
      <3>2. Passed(st, i - 1) < Passed(st, ps - 1)
        BY <2>1, <3>1, PassedStrict
      <3> QED BY <1>1, <3>2 DEF Tried
    <2>3. CASE i = ps
      BY <1>1, <2>3
    <2>4. CASE ps < i
      <3>1. ps <= i - 1
        BY <2>1, <2>4
      <3>2. Passed(st, ps - 1) < Passed(st, i - 1)
        BY <1>1, <2>1, <3>1, PassedStrict
      <3> QED BY <1>1, <1>3, <2>1, <3>2
    <2> QED BY <2>1, <2>2, <2>3, <2>4
  <1> QED BY <1>2, <1>3, <1>4, <1>5 DEF InCall

(* The candidate that signs is the first that does.                        *)
LEMMA RoundSigned ==
  ASSUME NEW st \in Seq(Nat), NEW ps \in Nat \ {0}, NEW rt \in Nat, NEW lf, NEW nc,
         NEW d, NEW e, InCall("number", rt, lf, ps, nc, st, d, e)
  PROVE  /\ ps <= Len(st)
         /\ \A i \in 1 .. ps - 1 : InNonces(st[i]) => ~ Signs(d, e, st[i])
  <1>1. Tried(st, rt, d, e) /\ ps <= Len(st) /\ Passed(st, ps - 1) = rt /\ Len(st) \in Nat
    BY DEF InCall
  <1> SUFFICES ASSUME NEW i \in 1 .. ps - 1, InNonces(st[i]) PROVE ~ Signs(d, e, st[i])
    BY <1>1
  <1>2. i \in Nat \ {0} /\ ps - 1 \in Nat /\ i <= ps - 1 /\ i \in 1 .. Len(st)
    BY <1>1
  <1>3. Passed(st, i - 1) < Passed(st, ps - 1)
    BY <1>2, PassedStrict
  <1> QED BY <1>1, <1>2, <1>3 DEF Tried

----------------------------------------------------------------------------
(* The inductive invariant: the types the generator depends on, the state  *)
(* of the call, and what is known of the nonces that were used.            *)
Drawn == stream[Seed(secret, digest)]

GeneratorTypes ==
    /\ secret \in Secrets /\ digest \in Digests /\ truncate \in BOOLEAN
    /\ phase \in {"idle", "generate", "number"}
    /\ retry \in Nat /\ left \in Nat /\ pos \in Nat \ {0}
    /\ stream \in [Seeds -> Seq(Nat)]

CallInv ==
    InCall(phase, retry, left, pos, nonce, Drawn, secret, Number(digest, truncate))

UsedInv ==
    \A u \in used :
      /\ u.seed \in Seeds /\ u.pos \in Nat \ {0} /\ u.pos <= Len(stream[u.seed])
      /\ u.truncated \in BOOLEAN
      /\ \E g \in Digests : /\ u.seed = Seed(secret, g)
                            /\ u.number = Number(g, u.truncated)

EInv == GeneratorTypes /\ CallInv /\ UsedInv /\ FirstGood

LEMMA InitEInv == Init => EInv
  <1> SUFFICES ASSUME Init PROVE EInv
    OBVIOUS
  <1>1. GeneratorTypes
    <2>1. stream \in [Seeds -> Seq(Nat)]
      BY DEF Init
    <2> QED BY <2>1, EcdsaAssumption DEF Init, GeneratorTypes
  <1>2. CallInv
    BY DEF Init, CallInv, InCall
  <1>3. UsedInv /\ FirstGood
    BY DEF Init, UsedInv, FirstGood
  <1> QED BY <1>1, <1>2, <1>3 DEF EInv

(* Calls that leave the generator alone.                                   *)
LEMMA OtherCallStep ==
  ASSUME EInv, phase = "idle", digest' \in Digests, truncate' \in BOOLEAN,
         UNCHANGED <<secret, phase, generator, used>>
  PROVE  EInv'
  <1>1. GeneratorTypes'
    BY DEF EInv, GeneratorTypes, generator
  <1>2. CallInv'
    BY DEF CallInv, InCall
  <1>3. UsedInv' /\ FirstGood'
    BY DEF EInv, UsedInv, FirstGood, generator
  <1> QED BY <1>1, <1>2, <1>3 DEF EInv

LEMMA SignDeterministicStep ==
  ASSUME EInv, SignDeterministic
  PROVE  EInv'
  <1>1. /\ secret' = secret /\ stream' = stream /\ used' = used /\ digest' \in Digests
        /\ truncate' \in BOOLEAN /\ phase' = "generate" /\ retry' = 0 /\ left' = 0
        /\ pos' = 1 /\ nonce' = 0
    BY EcdsaAssumption DEF SignDeterministic, Arguments
  <1>2. GeneratorTypes'
    BY <1>1 DEF EInv, GeneratorTypes
  <1>3. Drawn' \in Seq(Nat)
    <2>1. Seed(secret, digest)' \in Seeds
      BY <1>2, SeedFacts, Zenon DEF GeneratorTypes
    <2> QED BY <1>2, <2>1 DEF GeneratorTypes, Drawn
  <1>4. CallInv'
    BY <1>1, <1>3, StartCall DEF CallInv
  <1>5. UsedInv' /\ FirstGood'
    BY <1>1 DEF EInv, UsedInv, FirstGood
  <1> QED BY <1>2, <1>4, <1>5 DEF EInv

(* What the streams only add to.                                           *)
LEMMA StreamsGrow ==
  ASSUME UsedInv, FirstGood, NEW seed \in Seeds, NEW st2 \in Seq(Nat),
         stream \in [Seeds -> Seq(Nat)], Longer(stream[seed], st2),
         stream' = [stream EXCEPT ![seed] = st2], UNCHANGED <<secret, used>>
  PROVE  UsedInv' /\ FirstGood'
  <1>1. \A z \in Seeds : Longer(stream[z], stream'[z]) /\ Len(stream[z]) \in Nat
                         /\ Len(stream'[z]) \in Nat
    BY DEF Longer
  <1>2. UsedInv'
    <2> SUFFICES ASSUME NEW u \in used
                 PROVE  /\ u.seed \in Seeds /\ u.pos \in Nat \ {0}
                        /\ u.pos <= Len(stream'[u.seed]) /\ u.truncated \in BOOLEAN
                        /\ \E g \in Digests : /\ u.seed = Seed(secret, g)
                                              /\ u.number = Number(g, u.truncated)
      BY Zenon DEF UsedInv
    <2>1. /\ u.seed \in Seeds /\ u.pos \in Nat \ {0} /\ u.pos <= Len(stream[u.seed])
          /\ u.truncated \in BOOLEAN
          /\ \E g \in Digests : /\ u.seed = Seed(secret, g)
                                /\ u.number = Number(g, u.truncated)
      BY DEF UsedInv
    <2>2. u.pos <= Len(stream'[u.seed])
      BY <1>1, <2>1 DEF Longer
    <2> QED BY <2>1, <2>2
  <1>3. FirstGood'
    <2> SUFFICES ASSUME NEW u \in used, NEW i \in 1 .. u.pos - 1,
                        stream'[u.seed][i] \in 1 .. Order - 1
                 PROVE  ~ Signs(secret, u.number, stream'[u.seed][i])
      BY Zenon DEF FirstGood
    <2>1. u.seed \in Seeds /\ u.pos \in Nat \ {0} /\ u.pos <= Len(stream[u.seed])
      BY DEF UsedInv
    <2>2. i \in 1 .. Len(stream[u.seed])
      BY <1>1, <2>1
    <2>3. stream'[u.seed][i] = stream[u.seed][i]
      BY <1>1, <2>1, <2>2 DEF Longer
    <2> QED BY <2>3 DEF FirstGood
  <1> QED BY <1>2, <1>3

LEMMA GenerateKStep ==
  ASSUME EInv, GenerateK
  PROVE  EInv'
  <1> DEFINE seed == Seed(secret, digest)  st == stream[seed]
             e == Number(digest, truncate)
  <1>1. /\ GeneratorTypes /\ CallInv /\ UsedInv /\ FirstGood /\ phase = "generate"
        /\ UNCHANGED <<secret, digest, truncate, retry, used>>
    BY DEF EInv, GenerateK, call
  <1>2. seed \in Seeds /\ st \in Seq(Nat) /\ Len(st) \in Nat
    <2>1. seed \in Seeds
      BY <1>1, SeedFacts, Zenon DEF GeneratorTypes
    <2> HIDE DEF seed
    <2> QED BY <1>1, <2>1 DEF GeneratorTypes
  <1>3. PICK k \in Outputs(seed) :
          /\ stream' = [stream EXCEPT ![seed] =
                          IF pos <= Len(@) THEN @ ELSE Append(@, k)]
          /\ IF k \in 1 .. Order - 1 /\ left <= 0
             THEN phase' = "number" /\ nonce' = k /\ UNCHANGED <<left, pos>>
             ELSE /\ left' = IF k \in 1 .. Order - 1 THEN left - 1 ELSE left
                  /\ pos' = pos + 1
                  /\ UNCHANGED <<phase, nonce>>
    BY DEF GenerateK
  <1> DEFINE st2 == IF pos <= Len(st) THEN st ELSE Append(st, k)
  <1>4. InCall("generate", retry, left, pos, nonce, st, secret, e)
    BY <1>1 DEF CallInv, Drawn
  <1> HIDE DEF e
  <1>5. pos - 1 <= Len(st) /\ retry \in Nat /\ left \in Nat /\ pos \in Nat \ {0}
    BY <1>1, <1>4 DEF InCall, GeneratorTypes
  <1>6. k \in Nat /\ (pos <= Len(st) => k = st[pos])
    <2>1. CASE pos <= Len(st)
      BY <1>2, <1>3, <1>5, <2>1 DEF Outputs
    <2>2. CASE ~ (pos <= Len(st)) /\ pos < MaxStream
      <3>1. k \in Candidates
        BY <1>3, <2>2 DEF Outputs
      <3> QED BY <2>2, <3>1, CandidatesAssumption
    <2>3. CASE ~ (pos <= Len(st)) /\ ~ (pos < MaxStream)
      <3>1. k \in 1 .. Order - 1
        BY <1>3, <2>3 DEF Outputs
      <3> QED BY <2>3, <3>1
    <2> QED BY <2>1, <2>2, <2>3
  <1>7. stream' = [stream EXCEPT ![seed] = st2]
    BY <1>1, <1>2, <1>3 DEF GeneratorTypes
  <1> HIDE DEF st
  <1>8. /\ st2 \in Seq(Nat) /\ Longer(st, st2) /\ pos <= Len(st2) /\ st2[pos] = k
        /\ (pos > Len(st) => pos = Len(st) + 1 /\ Len(st2) = pos)
    BY <1>2, <1>5, <1>6, NextCandidate
  <1>9. pos <= Len(st) => st2 = st
    OBVIOUS
  <1> HIDE DEF st2
  <1>10. UsedInv' /\ FirstGood'
    BY <1>1, <1>2, <1>7, <1>8, StreamsGrow DEF GeneratorTypes, st
  <1>11. Drawn' = st2 /\ stream' \in [Seeds -> Seq(Nat)]
    BY <1>1, <1>2, <1>7, <1>8 DEF GeneratorTypes, Drawn
  <1>12. /\ InNonces(k) /\ left <= 0 => InCall("number", retry, left, pos, k, st2, secret, e)
         /\ InNonces(k) /\ ~ (left <= 0) =>
              left - 1 \in Nat
              /\ InCall("generate", retry, left - 1, pos + 1, nonce, st2, secret, e)
         /\ ~ InNonces(k) => InCall("generate", retry, left, pos + 1, nonce, st2, secret, e)
    BY <1>2, <1>4, <1>5, <1>6, <1>8, <1>9, Round
  <1>13. /\ InCall(phase', retry, left', pos', nonce', st2, secret, e)
         /\ phase' \in {"generate", "number"} /\ left' \in Nat /\ pos' \in Nat \ {0}
    <2>1. CASE InNonces(k) /\ left <= 0
      BY <1>3, <1>5, <1>12, <2>1 DEF InNonces
    <2>2. CASE InNonces(k) /\ ~ (left <= 0)
      BY <1>1, <1>3, <1>5, <1>12, <2>2 DEF InNonces
    <2>3. CASE ~ InNonces(k)
      BY <1>1, <1>3, <1>5, <1>12, <2>3 DEF InNonces
    <2> QED BY <2>1, <2>2, <2>3
  <1>14. GeneratorTypes'
    BY <1>1, <1>5, <1>11, <1>13 DEF GeneratorTypes
  <1>15. CallInv'
    BY <1>1, <1>11, <1>13 DEF CallInv, e
  <1> QED BY <1>10, <1>14, <1>15 DEF EInv

LEMMA SignNumberStep ==
  ASSUME EInv, SignNumber
  PROVE  EInv'
  <1> DEFINE e == Number(digest, truncate)
  <1>1. /\ GeneratorTypes /\ CallInv /\ UsedInv /\ FirstGood /\ phase = "number"
        /\ UNCHANGED <<secret, digest, truncate, stream>>
    BY DEF EInv, SignNumber, call
  <1>2. Seed(secret, digest) \in Seeds /\ Drawn \in Seq(Nat)
    BY <1>1, SeedFacts DEF GeneratorTypes, Drawn
  <1>3. InCall("number", retry, left, pos, nonce, Drawn, secret, e)
    BY <1>1 DEF CallInv
  <1>4. retry \in Nat /\ pos \in Nat \ {0}
    BY <1>1 DEF GeneratorTypes
  <1>5. CASE ~ Signs(secret, e, nonce) /\ phase' = "generate" /\ pos' = 1 /\ nonce' = 0
             /\ Retry /\ UNCHANGED <<sig, used>>
    <2>1. retry' = retry + 1 /\ left' = retry + 1
      BY <1>5 DEF Retry
    <2>2. InCall("generate", retry + 1, retry + 1, 1, 0, Drawn, secret, e)
      BY <1>2, <1>3, <1>4, <1>5, RoundFailed
    <2>3. CallInv'
      BY <1>1, <1>5, <2>1, <2>2 DEF CallInv, Drawn
    <2>4. GeneratorTypes'
      BY <1>1, <1>4, <1>5, <2>1 DEF GeneratorTypes
    <2>5. UsedInv' /\ FirstGood'
      BY <1>1, <1>5 DEF UsedInv, FirstGood
    <2> QED BY <2>3, <2>4, <2>5 DEF EInv
  <1>6. ASSUME Leave PROVE GeneratorTypes' /\ CallInv'
    BY <1>1, <1>6 DEF Leave, GeneratorTypes, CallInv, InCall
  <1>7. CASE Leave /\ UNCHANGED used
    <2>1. UsedInv' /\ FirstGood'
      BY <1>1, <1>7 DEF UsedInv, FirstGood
    <2> QED BY <1>6, <1>7, <2>1 DEF EInv
  <1> DEFINE new == [seed |-> Seed(secret, digest), pos |-> pos,
                     truncated |-> truncate, number |-> e]
  <1>8. CASE Leave /\ used' = used \cup {new}
    <2>1. /\ new.seed = Seed(secret, digest) /\ new.pos = pos
          /\ new.truncated = truncate /\ new.number = e
      OBVIOUS
    <2> HIDE DEF new
    <2>2. /\ pos <= Len(Drawn)
          /\ \A i \in 1 .. pos - 1 : InNonces(Drawn[i]) => ~ Signs(secret, e, Drawn[i])
      BY <1>2, <1>3, <1>4, RoundSigned
    <2>3. /\ new.seed \in Seeds /\ new.pos \in Nat \ {0} /\ new.pos <= Len(stream[new.seed])
          /\ new.truncated \in BOOLEAN
          /\ \E g \in Digests : new.seed = Seed(secret, g) /\ new.number = Number(g, new.truncated)
      BY <1>1, <1>2, <1>4, <2>1, <2>2 DEF GeneratorTypes, Drawn
    <2>4. UsedInv'
      BY <1>1, <1>8, <2>3 DEF UsedInv
    <2>5. \A i \in 1 .. new.pos - 1 :
            stream[new.seed][i] \in 1 .. Order - 1 => ~ Signs(secret, new.number, stream[new.seed][i])
      BY <2>1, <2>2 DEF Drawn, InNonces
    <2>6. FirstGood'
      BY <1>1, <1>8, <2>5 DEF FirstGood
    <2> QED BY <1>6, <1>8, <2>4, <2>6 DEF EInv
  <1> QED BY <1>5, <1>7, <1>8 DEF SignNumber

LEMMA EInvStep == EInv /\ [Next]_vars => EInv'
  <1> SUFFICES ASSUME EInv, [Next]_vars PROVE EInv'
    OBVIOUS
  <1>1. CASE Sign
    BY <1>1, OtherCallStep, EcdsaAssumption DEF Sign, Arguments
  <1>2. CASE SignDeterministic
    BY <1>2, SignDeterministicStep
  <1>3. CASE GenerateK
    BY <1>3, GenerateKStep
  <1>4. CASE SignNumber
    BY <1>4, SignNumberStep
  <1>5. CASE Verify
    BY <1>5, OtherCallStep, EcdsaAssumption DEF Verify, Arguments
  <1>6. CASE Precomputation \/ Recover
    BY <1>6, OtherCallStep DEF Precomputation, Recover, call, EInv, GeneratorTypes
  <1>7. CASE UNCHANGED vars
    <2>1. UNCHANGED <<secret, phase, digest, truncate, retry, left, pos, nonce, stream, used>>
      BY <1>7 DEF vars, call, generator
    <2> QED BY <2>1 DEF EInv, GeneratorTypes, CallInv, Drawn, UsedInv, FirstGood
  <1> QED BY <1>1, <1>2, <1>3, <1>4, <1>5, <1>6, <1>7 DEF Next, Call

THEOREM DeterministicInvariant == Spec => []EInv
  BY InitEInv, EInvStep, PTL DEF Spec

(* A deterministic signature is made with the first candidate of the       *)
(* generator that gives one, whatever it yields and however often signing  *)
(* fails: sign_digest_deterministic passes over as many good candidates as *)
(* it has seen fail, and generate_k starts from the beginning every time.  *)
THEOREM FirstGoodCandidate == Spec => []FirstGood
  <1>1. EInv => FirstGood
    BY DEF EInv
  <1> QED BY <1>1, DeterministicInvariant, PTL

(* Two numbers signed with the same candidate of the same seed are the     *)
(* same modulo the order, for every order and every length of digests:     *)
(* generate_k seeds with the leftmost bits of the whole digest, and what   *)
(* sign_digest signs of a digest cut to the bytes of the order first has   *)
(* the same leftmost bits.                                                 *)
THEOREM NonceUsedOnce == Spec => []NonceOnce
  <1>1. UsedInv /\ GeneratorTypes => NonceOnce
    <2> SUFFICES ASSUME UsedInv, secret \in Secrets, NEW u \in used, NEW v \in used,
                        u.truncated, v.truncated, SameNonce(u, v)
                 PROVE  SameNumber(u, v)
      BY DEF NonceOnce, GeneratorTypes
    <2>1. u.truncated = TRUE /\ v.truncated = TRUE
      BY DEF UsedInv
    <2>2. PICK g \in Digests : u.seed = Seed(secret, g) /\ u.number = Number(g, TRUE)
      BY <2>1 DEF UsedInv
    <2>3. PICK h \in Digests : v.seed = Seed(secret, h) /\ v.number = Number(h, TRUE)
      BY <2>1 DEF UsedInv
    <2>4. Number(g, TRUE) % Order = Seed(secret, g)[2]
      BY SeedFacts
    <2>5. Number(h, TRUE) % Order = Seed(secret, h)[2]
      BY SeedFacts
    <2> QED BY <2>2, <2>3, <2>4, <2>5, Zenon DEF SameNonce, SameNumber
  <1> QED BY <1>1, DeterministicInvariant, PTL DEF EInv


----------------------------------------------------------------------------
(* Verification.  Numbers modulo the order.                                *)
LEMMA OrderFacts ==
  /\ Order \in Nat \ {0} /\ Order > 2 /\ NoDivisor(Order) /\ Order % 2 = 1 /\ 0 % Order = 0
  /\ 1 % Order = 1
  <1>1. Order \in Nat /\ Order > 2 /\ \A d \in 2 .. Order - 1 : Order % d # 0
    BY EcdsaAssumption
  <1>2. 2 \in 2 .. Order - 1
    BY <1>1
  <1>3. Order % 2 # 0
    BY <1>1, <1>2
  <1>4. 0 % Order = 0 /\ 1 % Order = 1
    BY <1>1, RemainderOfSmall
  <1> QED BY <1>1, <1>3, <1>4 DEF NoDivisor

LEMMA OrderInverse ==
  ASSUME NEW a \in 1 .. Order - 1
  PROVE  /\ InverseModOrder(a) \in 1 .. Order - 1 /\ InverseModOrder(a) \in Nat
         /\ SameMod(Order, InverseModOrder(a) * a, 1)
  <1>1. a % Order = a /\ a \in Int /\ a # 0
    BY OrderFacts, RemainderOfSmall
  <1>2. PICK i \in 0 .. Order - 1 : (i * a) % Order = 1
    BY <1>1, OrderFacts, InverseExists
  <1>3. i # 0
    <2>1. 0 * a = 0
      BY <1>1
    <2> QED BY <1>2, <2>1, OrderFacts
  <1>4. i \in 1 .. Order - 1
    BY <1>2, <1>3, OrderFacts
  <1>5. InverseModOrder(a) \in 1 .. Order - 1 /\ (InverseModOrder(a) * a) % Order = 1
    BY <1>2, <1>4 DEF InverseModOrder
  <1>6. InverseModOrder(a) \in Nat /\ InverseModOrder(a) * a \in Int
    BY <1>1, <1>5, OrderFacts
  <1> QED BY <1>5, <1>6, OrderFacts DEF SameMod

LEMMA Swapped ==
  ASSUME NEW a \in Int, NEW b \in Int, NEW c \in Int
  PROVE  a * (b * c) = b * (a * c) /\ a * 1 = a
  OBVIOUS

LEMMA SameModTimes ==
  ASSUME NEW n \in Nat \ {0}, NEW a, NEW b, SameMod(n, a, b), NEW c \in Int
  PROVE  SameMod(n, c * a, c * b) /\ SameMod(n, a * c, b * c)
  BY SameModIs, SameModProduct, Zenon

(* What the equation of ECDSA computes of a signature that is made of the  *)
(* nonce k: k or, for the canonical s, - k.                                *)
LEMMA NonceRecovered ==
  ASSUME NEW n \in Nat \ {0}, NEW d \in Nat, NEW e \in Nat, NEW r \in Nat, NEW k \in Nat,
         NEW i \in Nat, SameMod(n, i * k, 1), NEW c \in Nat, NEW s \in Nat,
         SameMod(n, c * s, 1), NEW sign \in {1, - 1},
         SameMod(n, s, sign * ((i * (e + ((d * r) % n))) % n))
  PROVE  SameMod(n, ((e * c) % n) + ((r * c) % n) * d, sign * k)
  <1> DEFINE w == d * r  h == e + w  g == e + (w % n)
  <1>0. w \in Int /\ h \in Int /\ sign \in Int /\ sign * sign = 1
    OBVIOUS
  <1>1. SameMod(n, w % n, w) /\ SameMod(n, e, e) /\ w % n \in Int
    BY <1>0, e \in Int, SameModIs, Zenon DEF SameMod
  <1>2. SameMod(n, g, h) /\ g \in Int
    <2> HIDE DEF w
    <2>1. SameMod(n, e + (w % n), e + w)
      BY <1>1, SameModSum, Zenon
    <2>2. e + (w % n) \in Int
      BY <1>1
    <2> QED BY <2>1, <2>2
  <1> HIDE DEF g, h
  <1>3. i * g \in Int /\ i * h \in Int
    BY <1>0, <1>2
  <1>4. SameMod(n, (i * g) % n, i * h)
    <2>1. SameMod(n, i * g, i * h)
      BY <1>2, i \in Int, SameModTimes, Zenon
    <2>2. SameMod(n, (i * g) % n, i * g)
      BY <1>3, SameModIs
    <2> QED BY <2>1, <2>2, SameModChain
  <1> DEFINE s0 == (i * g) % n
  <1>5. SameMod(n, s, sign * s0)
    BY DEF g, w
  <1> HIDE DEF s0
  <1>6. s0 \in Int /\ SameMod(n, s0, i * h)
    BY <1>4 DEF s0, SameMod
  <1>7. SameMod(n, sign * s0, sign * (i * h))
    BY <1>0, <1>6, SameModIs, SameModProduct
  <1>8. SameMod(n, s, sign * (i * h))
    BY <1>5, <1>7, SameModChain
  <1>9. SameMod(n, k * s, k * (sign * (i * h)))
    BY <1>8, k \in Int, SameModTimes, Zenon
  <1>10. k * (sign * (i * h)) = sign * ((i * k) * h)
    BY <1>0, <1>3
  <1>11. SameMod(n, (i * k) * h, 1 * h)
    BY <1>0, SameModIs, SameModProduct
  <1>12. SameMod(n, sign * ((i * k) * h), sign * h)
    <2>1. 1 * h = h
      BY <1>0
    <2> QED BY <1>0, <1>11, <2>1, SameModIs, SameModProduct
  <1>13. SameMod(n, k * s, sign * h)
    BY <1>9, <1>10, <1>12, SameModChain
  <1>14. SameMod(n, c * (k * s), c * (sign * h))
    BY <1>13, c \in Int, SameModTimes, Zenon
  <1>15. SameMod(n, c * (k * s), k)
    <2>0. k \in Int /\ c \in Int /\ s \in Int
      OBVIOUS
    <2>1. SameMod(n, k * (c * s), k * 1)
      BY <2>0, SameModTimes, Zenon
    <2>2. k * (c * s) = c * (k * s) /\ k * 1 = k
      BY <2>0, Swapped, Zenon
    <2> QED BY <2>1, <2>2
  <1>16. SameMod(n, c * (sign * h), k)
    BY <1>14, <1>15, SameModChain DEF SameMod
  <1>17. SameMod(n, sign * (c * (sign * h)), sign * k)
    BY <1>0, <1>16, SameModIs, SameModProduct
  <1>18. sign * (c * (sign * h)) = c * h
    <2>1. CASE sign = 1
      BY <1>0, <2>1
    <2>2. CASE sign = - 1
      BY <1>0, <2>2
    <2> QED BY <2>1, <2>2
  <1> DEFINE x == e * c  y == r * c
  <1>19. x \in Int /\ y \in Int /\ c * h = x + y * d /\ x % n \in Int /\ y % n \in Int
    <2>1. c * h = e * c + (r * c) * d
      BY DEF h, w
    <2> QED BY <2>1
  <1> HIDE DEF x, y
  <1>20. SameMod(n, x % n, x) /\ SameMod(n, y % n, y) /\ SameMod(n, d, d)
    BY <1>19, d \in Int, SameModIs, Zenon
  <1>21. SameMod(n, (y % n) * d, y * d)
    BY <1>20, d \in Int, SameModTimes, Zenon
  <1>22. SameMod(n, (x % n) + (y % n) * d, x + y * d)
    BY <1>20, <1>21, SameModSum
  <1>23. SameMod(n, (x % n) + (y % n) * d, sign * k)
    BY <1>17, <1>18, <1>19, <1>22, SameModChain
  <1> QED BY <1>23 DEF x, y

----------------------------------------------------------------------------
(* The points of keys and signatures, each with the member of the group    *)
(* that it stands for.                                                     *)
KeyIs(q, v) == Good(q, v) /\ v \in CurvePoints /\ q.class = "jacobi" /\ q.n = Order

LEMMA KeyIsPoint ==
  ASSUME NEW q, NEW v, KeyIs(q, v)
  PROVE  /\ Good(q, v) /\ q \in Objects /\ q.class = "jacobi" /\ q.n = Order /\ q.z # 0
         /\ v \in CurvePoints /\ v \in Group /\ v # O /\ Residues(q) = v
  BY InfinityTold, ReadsBack, InfinityIs DEF KeyIs

LEMMA FiniteToo ==
  ASSUME NEW pt, NEW v, Good(pt, v)
  PROVE  /\ v # O => pt.z # 0 /\ pt # INFINITY
         /\ pt.z # 0 => v # O /\ v \in CurvePoints
  <1>1. pt = INFINITY <=> pt.z = 0
    BY InfinityTold, Zenon
  <1>2. pt = INFINITY <=> v = O
    BY InfinityIs DEF Good, StandsFor
  <1>3. pt # INFINITY => v \in CurvePoints
    BY FiniteIs, Zenon
  <1> QED BY <1>1, <1>2, <1>3, Zenon

LEMMA CurveFacts ==
  ASSUME CurveSound
  PROVE  /\ Smooth /\ Annihilates(Order) /\ NoOrderTwo
         /\ Base \in CurvePoints /\ Base \in Group /\ KeyIs(Generator, Base)
  <1>1. Annihilates(Order)
    BY DEF CurveSound
  <1>2. NoOrderTwo /\ Smooth
    BY <1>1, OrderFacts, OddOrder, SmoothIs
  <1>3. Base \in CurvePoints /\ Base[1] = BaseX /\ Base[2] = BaseY
    BY EcdsaAssumption DEF Base
  <1>4. Good(Object("jacobi", BaseX, BaseY, 1, Order), Base)
    BY <1>3, OrderFacts, ReducedGood
  <1>5. Generator = Object("jacobi", BaseX, BaseY, 1, Order)
    BY DEF Generator, Jacobi
  <1>6. Generator.class = "jacobi" /\ Generator.n = Order
    BY <1>5 DEF Object
  <1> QED BY <1>1, <1>2, <1>3, <1>4, <1>5, <1>6 DEF KeyIs, Group

LEMMA NonZeroMultiple ==
  ASSUME CurveSound, NEW q \in CurvePoints, NEW a \in Nat, a % Order # 0
  PROVE  ZMul(a, q) \in CurvePoints /\ ZMul(a, q) # O
  <1>1. q \in Group /\ q # O
    BY CurvePointFacts DEF Group, O
  <1>2. ZMul(a, q) \in Group /\ ZMul(1, q) = q
    BY <1>1, ZMulIs
  <1>3. PICK i \in 0 .. Order - 1 : (i * a) % Order = 1
    BY OrderFacts, a \in Int, InverseExists, Zenon
  <1>4. SameMod(Order, i * a, 1)
    <2>1. i * a \in Int /\ 1 % Order = 1
      BY OrderFacts
    <2> QED BY <1>3, <2>1 DEF SameMod
  <1>5. i \in Nat /\ i \in Int /\ a \in Int
    BY OrderFacts
  <1>6. ZMul(i * a, q) = q
    BY <1>1, <1>2, <1>4, CurveFacts, OrderFacts, SameMultiple, Zenon
  <1>7. ZMul(i, ZMul(a, q)) = q
    BY <1>1, <1>5, <1>6, CurveFacts, ZMulProduct, Zenon
  <1>8. ZMul(a, q) # O
    <2>1. ZMul(i, O) = O
      BY <1>5, ZMulZero
    <2> QED BY <1>1, <1>7, <2>1
  <1> QED BY <1>2, <1>8, GroupCases

(* Any multiplication by a number that the order does not divide.          *)
LEMMA KeyMultiple ==
  ASSUME CurveSound, NEW q, NEW v, KeyIs(q, v), NEW k \in Nat, NEW g \in BOOLEAN,
         ~ Mul(q, k, g).twin
  PROVE  /\ Good(Mul(q, k, g), ZMul(k, v))
         /\ k % Order # 0 => KeyIs(Mul(q, k, g), ZMul(k, v))
  <1>1. Good(Mul(q, k, g), ZMul(k, v))
    <2>1. q.n # 0 /\ Annihilates(q.n)
      BY KeyIsPoint, OrderFacts, CurveFacts
    <2> QED BY <2>1, KeyIsPoint, CurveFacts, MultiplicationIsGroupLaw
  <1>2. ASSUME k % Order # 0 PROVE KeyIs(Mul(q, k, g), ZMul(k, v))
    <2>1. ZMul(k, v) \in CurvePoints /\ ZMul(k, v) # O
      BY <1>2, KeyIsPoint, NonZeroMultiple
    <2>2. Mul(q, k, g).z # 0
      BY <1>1, <2>1, FiniteToo, Zenon
    <2>3. Mul(q, k, g).n = Order /\ Mul(q, k, g).class = "jacobi"
      BY <2>2, KeyIsPoint, FiniteMul
    <2> QED BY <1>1, <2>1, <2>3 DEF KeyIs
  <1> QED BY <1>1, <1>2

LEMMA ScaleKey ==
  ASSUME NEW q, NEW v, KeyIs(q, v)
  PROVE  KeyIs(Scale(q), v)
  <1>1. Good(Scale(q), v) /\ Scale(q).class = "jacobi"
    BY KeyIsPoint, ScaleGood
  <1>2. Scale(q).n = q.n
    BY DEF Scale, Jacobi, Object
  <1> QED BY <1>1, <1>2, KeyIsPoint DEF KeyIs

LEMMA BaseMultiple ==
  ASSUME CurveSound, NEW k \in 0 .. 3 * Order
  PROVE  /\ Good(Mul(Generator, k, TRUE), ZMul(k, Base))
         /\ k % Order # 0 => KeyIs(Mul(Generator, k, TRUE), ZMul(k, Base))
  <1>1. ~ Mul(Generator, k, TRUE).twin
    BY DEF CurveSound
  <1>2. k \in Nat
    BY OrderFacts
  <1> QED BY <1>1, <1>2, CurveFacts, KeyMultiple

LEMMA NonceNotZero ==
  ASSUME NEW k \in 1 .. Order - 1
  PROVE  /\ k \in Nat /\ k \in Int /\ k \in 0 .. 3 * Order /\ k % Order = k /\ k # 0
         /\ k + Order \in 0 .. 3 * Order /\ SameMod(Order, k + Order, k)
         /\ k + Order + Order \in 0 .. 3 * Order /\ SameMod(Order, k + Order + Order, k)
  <1>1. Order \in Nat \ {0} /\ Order \in Int /\ k \in Nat /\ k < Order /\ k # 0 /\ k \in Int
    BY OrderFacts
  <1>2. k % Order = k
    BY <1>1, RemainderOfSmall
  <1>3. (k + Order) % Order = k % Order
    BY <1>1, SameRemainder, 1 \in Int, k + Order = k + 1 * Order, k + Order \in Int
  <1>4. (k + Order + Order) % Order = k % Order
    BY <1>1, SameRemainder, 2 \in Int, k + Order + Order = k + 2 * Order, k + Order + Order \in Int
  <1> QED BY <1>1, <1>2, <1>3, <1>4 DEF SameMod

LEMMA KeyOfIs ==
  ASSUME CurveSound, NEW d \in Secrets
  PROVE  KeyIs(KeyOf[d], ZMul(d, Base)) /\ d \in 1 .. Order - 1
  <1>1. d \in 1 .. Order - 1 /\ KeyOf[d] = Scale(Mul(Generator, d, TRUE))
    BY EcdsaAssumption DEF KeyOf
  <1>2. KeyIs(Mul(Generator, d, TRUE), ZMul(d, Base))
    BY <1>1, NonceNotZero, BaseMultiple
  <1> QED BY <1>1, <1>2, ScaleKey

LEMMA XIs ==
  ASSUME NEW pt, NEW v, Good(pt, v), pt.z # 0
  PROVE  X(pt) = v[1] /\ v \in CurvePoints /\ v # O
  <1>1. pt # INFINITY /\ v # O /\ v \in CurvePoints
    BY InfinityTold, FiniteIs
  <1>2. CASE pt.class = "jacobi"
    BY <1>1, <1>2, ScaleGood, UnitDenominator DEF X
  <1>3. CASE pt.class = "affine"
    <2>1. pt.z = 1
      BY <1>1, <1>3 DEF Good, WellFormed
    <2>2. Scale(pt) = pt
      BY <2>1 DEF Scale
    <2> QED BY <1>1, <2>1, <2>2, UnitDenominator DEF X
  <1> QED BY <1>1, <1>2, <1>3, FiniteIs

----------------------------------------------------------------------------
(* The r of a nonce is the x of its multiple of the generator, whichever   *)
(* multiple of the order was added to it.                                  *)
LEMMA ROfIs ==
  ASSUME CurveSound, NEW k \in 1 .. Order - 1
  PROVE  /\ ZMul(k, Base) \in CurvePoints
         /\ ROf[k] = ZMul(k, Base)[1] % Order /\ ROf[k] \in 0 .. Order - 1
  <1>1. PICK m \in {k + Order, k + Order + Order} :
          ROf[k] = X(Mul(Generator, m, TRUE)) % Order
    BY DEF ROf, R
  <1>2. m \in 0 .. 3 * Order /\ SameMod(Order, m, k) /\ m \in Nat
    BY NonceNotZero
  <1>3. m % Order # 0 /\ k % Order # 0 /\ k \in Nat
    BY <1>2, NonceNotZero DEF SameMod
  <1>4. KeyIs(Mul(Generator, m, TRUE), ZMul(m, Base))
    BY <1>2, <1>3, BaseMultiple
  <1>5. X(Mul(Generator, m, TRUE)) = ZMul(m, Base)[1]
    BY <1>4, KeyIsPoint, XIs
  <1>6. ZMul(m, Base) = ZMul(k, Base)
    BY <1>2, CurveFacts, OrderFacts, SameMultiple, Zenon
  <1>7. ZMul(k, Base) \in CurvePoints
    BY <1>3, CurveFacts, NonZeroMultiple
  <1>8. ZMul(k, Base)[1] \in Int
    BY <1>7, CurvePointFacts
  <1>9. ZMul(k, Base)[1] % Order \in 0 .. Order - 1
    <2> DEFINE x == ZMul(k, Base)[1]
    <2> HIDE DEF x
    <2>1. x \in Int
      BY <1>8 DEF x
    <2>2. x % Order \in 0 .. Order - 1
      BY <2>1, OrderFacts, DivMod
    <2> QED BY <2>2 DEF x
  <1> QED BY <1>1, <1>5, <1>6, <1>7, <1>9

LEMMA DoubleProductGood ==
  ASSUME CurveSound, NEW q, NEW v, KeyIs(q, v), NEW u1 \in 0 .. Order - 1,
         NEW u2 \in 0 .. Order - 1, NEW table \in BOOLEAN,
         ~ DoubleProduct(u1, q, u2, table).twin
  PROVE  Good(DoubleProduct(u1, q, u2, table), RAdd(ZMul(u1, Base), ZMul(u2, v)))
  <1>1. u1 \in Nat /\ u2 \in Nat /\ u1 \in 0 .. 3 * Order
    BY OrderFacts
  <1>2. CASE u1 = 0 \/ u2 = 0 \/ table \/ Eq(q, Neg(Generator))
    <2> DEFINE r1 == Mul(Generator, u1, TRUE)  r2 == Mul(q, u2, table)
    <2>1. Good(r1, ZMul(u1, Base))
      BY <1>1, BaseMultiple
    <2>2. ~ r2.twin => Good(r2, ZMul(u2, v))
      BY <1>1, KeyMultiple
    <2>3. r1.class \in {"jacobi", "infinity"} /\ "twin" \in DOMAIN r1 /\ "twin" \in DOMAIN r2
      BY CurveFacts, KeyIsPoint, MulClass
    <2>4. DoubleProduct(u1, q, u2, table) = AddTerms(r1, r2)
      BY <1>2 DEF DoubleProduct
    <2> HIDE DEF r1, r2
    <2>5. ~ AddTerms(r1, r2).twin
      BY <2>4
    <2>6. Good(AddTerms(r1, r2), RAdd(ZMul(u1, Base), ZMul(u2, v)))
      BY <2>1, <2>2, <2>3, <2>5, AddTermsGood
    <2> QED BY <2>4, <2>6
  <1>3. CASE ~ (u1 = 0 \/ u2 = 0 \/ table \/ Eq(q, Neg(Generator)))
    <2>1. DoubleProduct(u1, q, u2, table) = MulAdd(Generator, u1, q, u2)
      BY <1>3 DEF DoubleProduct
    <2>2. KeyIs(Generator, Base) /\ Smooth /\ NoOrderTwo /\ Annihilates(Order)
      BY CurveFacts
    <2>3. /\ Good(Generator, Base) /\ Generator.class = "jacobi" /\ Generator.n = Order
          /\ Good(q, v) /\ q.class = "jacobi" /\ q.n = Order
      BY <2>2 DEF KeyIs
    <2>4. ~ MulAdd(Generator, u1, q, u2).twin
      BY <2>1
    <2>5. Good(MulAdd(Generator, u1, q, u2), RAdd(ZMul(u1, Base), ZMul(u2, v)))
      BY <1>1, <2>2, <2>3, <2>4, DoubleMultiplicationIsGroupLaw
    <2> QED BY <2>1, <2>5
  <1> QED BY <1>2, <1>3

LEMMA InRangeIs ==
  ASSUME NEW r, NEW s
  PROVE  InRange(<<r, s>>) <=> r \in 1 .. Order - 1 /\ s \in 1 .. Order - 1
  BY DEF InRange, None

LEMMA Multipliers ==
  ASSUME NEW e \in Int, NEW c \in Int
  PROVE  (e * c) % Order \in 0 .. Order - 1 /\ (e * c) % Order \in Nat
  <1> DEFINE x == e * c
  <1>1. x \in Int
    OBVIOUS
  <1> HIDE DEF x
  <1>2. x % Order \in 0 .. Order - 1 /\ x % Order \in Nat
    BY <1>1, OrderFacts, DivMod
  <1> QED BY <1>2 DEF x

(* What Public_key.verifies finds is the equation of ECDSA.                *)
LEMMA VerifiesIs ==
  ASSUME CurveSound, NEW q, NEW v, KeyIs(q, v), NEW table \in BOOLEAN, NEW e \in Nat,
         NEW r \in Nat, NEW s \in Nat, ~ VerifierTwin(q, table, e, r, s)
  PROVE  Verifies(q, table, e, r, s) = "True" <=> Equation(v, e, r, s)
  <1>1. CASE ~ InRange(<<r, s>>)
    <2>1. ~ Equation(v, e, r, s)
      BY <1>1 DEF Equation
    <2>2. r < 1 \/ r > Order - 1 \/ s < 1 \/ s > Order - 1
      BY <1>1, InRangeIs, OrderFacts
    <2>3. Verifies(q, table, e, r, s) = "False"
      BY <2>2 DEF Verifies
    <2> QED BY <2>1, <2>3
  <1>2. CASE InRange(<<r, s>>)
    <2> DEFINE c == InverseModOrder(s)  u1 == (e * c) % Order  u2 == (r * c) % Order
               xy == DoubleProduct(u1, q, u2, table)
               z == RAdd(RMul(u1, Base), RMul(u2, v))
    <2>1. r \in 1 .. Order - 1 /\ s \in 1 .. Order - 1
      BY <1>2, InRangeIs
    <2>2. c \in Int
      BY <2>1, OrderInverse
    <2>3. u1 \in 0 .. Order - 1 /\ u1 \in Nat /\ u2 \in 0 .. Order - 1 /\ u2 \in Nat
      <3> HIDE DEF c
      <3> QED BY <2>2, Multipliers
    <2>4. ~ xy.twin
      BY <1>2 DEF VerifierTwin
    <2>5. Equation(v, e, r, s) <=> z # O /\ z[1] % Order = r
      BY <1>2 DEF Equation
    <2>6. Verifies(q, table, e, r, s) = Compared(xy, r)
      <3>1. ~ (r < 1 \/ r > Order - 1 \/ s < 1 \/ s > Order - 1)
        BY <2>1, OrderFacts
      <3> QED BY <3>1 DEF Verifies
    <2> HIDE DEF c, u1, u2
    <2>7. Good(xy, z)
      <3>1. RMul(u1, Base) = ZMul(u1, Base) /\ RMul(u2, v) = ZMul(u2, v)
        BY <2>3, CurveFacts, KeyIsPoint, ZMulIs
      <3> QED BY <2>3, <2>4, <3>1, DoubleProductGood
    <2> HIDE DEF xy, z
    <2>8. CASE xy.z = 0
      <3>1. z = O
        BY <2>7, <2>8, FiniteToo, Zenon
      <3> QED BY <2>5, <2>6, <2>8, <3>1 DEF Compared
    <2>9. CASE xy.z # 0
      <3>1. X(xy) = z[1] /\ z # O
        BY <2>7, <2>9, XIs
      <3> QED BY <2>5, <2>6, <2>9, <3>1 DEF Compared
    <2> QED BY <2>5, <2>6, <2>8, <2>9
  <1> QED BY <1>1, <1>2

LEMMA VerdictOf ==
  ASSUME NEW q, NEW table, NEW e, NEW r, NEW s
  PROVE  Verifies(q, table, e, r, s) \in {"True", "False", "TypeError"}
  BY DEF Verifies, Compared

(* An s and its canonical form are opposite, or the same.                  *)
LEMMA CanonizedIs ==
  ASSUME NEW s0 \in 1 .. Order - 1, NEW s \in {s0, Canonize(s0)}
  PROVE  s \in 1 .. Order - 1 /\ \E sign \in {1, - 1} : SameMod(Order, s, sign * s0)
  <1>0. Order \in Nat \ {0} /\ Order \in Int /\ s0 \in Int
    BY OrderFacts
  <1>1. CASE s = s0
    <2>1. SameMod(Order, s, 1 * s0)
      BY <1>0, <1>1 DEF SameMod
    <2> QED BY <1>1, <2>1
  <1>2. CASE s = Order - s0
    <2>1. s \in Int /\ - 1 * s0 \in Int /\ s = - 1 * s0 + 1 * Order
      BY <1>0, <1>2
    <2>2. s % Order = (- 1 * s0) % Order
      BY <1>0, <2>1, SameRemainder, 1 \in Int
    <2>3. SameMod(Order, s, - 1 * s0)
      BY <2>1, <2>2 DEF SameMod
    <2> QED BY <1>0, <1>2, <2>3
  <1> QED BY <1>1, <1>2 DEF Canonize

LEMMA SMade ==
  ASSUME CurveSound, NEW d \in Secrets, NEW e \in Nat, NEW k \in 1 .. Order - 1, Signs(d, e, k)
  PROVE  ROf[k] \in 1 .. Order - 1 /\ S(d, e, k) \in 1 .. Order - 1
  <1>1. ROf[k] \in 0 .. Order - 1 /\ ROf[k] # 0 /\ S(d, e, k) # 0
    BY ROfIs DEF Signs
  <1>2. d \in Nat /\ ROf[k] \in Nat /\ InverseModOrder(k) \in Nat /\ Order \in Nat \ {0}
    BY <1>1, OrderFacts, OrderInverse, EcdsaAssumption
  <1>3. S(d, e, k) \in 0 .. Order - 1
    <2> DEFINE r == ROf[k]  i == InverseModOrder(k)  w == d * r  t == w % Order
               u == e + t  x == i * u
    <2>1. S(d, e, k) = x % Order
      BY DEF S
    <2>2. r \in Nat /\ i \in Nat
      BY <1>2
    <2> HIDE DEF r, i
    <2>3. w \in Int
      BY <1>2, <2>2
    <2> HIDE DEF w
    <2>4. t \in Int
      BY <1>2, <2>3
    <2> HIDE DEF t
    <2>5. u \in Int
      BY <2>4
    <2> HIDE DEF u
    <2>6. x \in Int
      BY <2>2, <2>5
    <2> HIDE DEF x
    <2> QED BY <1>2, <2>1, <2>6, DivMod
  <1> QED BY <1>1, <1>3, <1>2

(* The two terms of the equation add up to the nonce's multiple of the     *)
(* generator, or to its opposite: it has the same x.                       *)
LEMMA SignedPoint ==
  ASSUME CurveSound, NEW d \in Nat, NEW u1 \in Nat, NEW u2 \in Nat, NEW k \in Nat,
         NEW sign \in {1, - 1}, SameMod(Order, u1 + u2 * d, sign * k),
         ZMul(k, Base) \in CurvePoints
  PROVE  LET z == RAdd(RMul(u1, Base), RMul(u2, ZMul(d, Base)))
         IN z \in CurvePoints /\ z[1] = ZMul(k, Base)[1]
  <1> DEFINE z == RAdd(RMul(u1, Base), RMul(u2, ZMul(d, Base)))  w == u2 * d
  <1>1. Smooth /\ Annihilates(Order) /\ Base \in Group /\ Order \in Nat \ {0}
    BY CurveFacts, OrderFacts
  <1>2. ZMul(d, Base) \in Group /\ RMul(u1, Base) = ZMul(u1, Base)
    BY <1>1, ZMulIs
  <1>3. RMul(u2, ZMul(d, Base)) = ZMul(u2, ZMul(d, Base))
    BY <1>2, ZMulIs
  <1>4. w \in Int /\ u1 \in Int /\ d \in Int /\ k \in Int
    OBVIOUS
  <1>5. ZMul(u2, ZMul(d, Base)) = ZMul(w, Base)
    BY <1>1, <1>4, ZMulProduct, Zenon
  <1>6. SameMod(Order, u1 + w, sign * k)
    OBVIOUS
  <1> HIDE DEF w
  <1>7. z = ZMul(u1 + w, Base)
    BY <1>1, <1>2, <1>3, <1>4, <1>5, ZAdd
  <1>8. z = ZMul(sign * k, Base)
    BY <1>1, <1>6, <1>7, SameMultiple, Zenon
  <1> HIDE DEF z
  <1>9. CASE sign = 1
    <2>1. sign * k = k
      BY <1>9
    <2> QED BY <1>8, <2>1 DEF z
  <1>10. CASE sign = - 1
    <2>1. sign * k = - k
      BY <1>10
    <2>2. z = RNeg(ZMul(k, Base))
      BY <1>1, <1>4, <1>8, <2>1, ZMulIs
    <2>3. z \in CurvePoints /\ z[1] = ZMul(k, Base)[1]
      BY <2>2, RNegIs
    <2> QED BY <2>3 DEF z
  <1> QED BY <1>9, <1>10

LEMMA SignedEquation ==
  ASSUME CurveSound, NEW d \in Secrets, NEW e \in Nat, NEW k \in 1 .. Order - 1,
         Signs(d, e, k), NEW s \in {S(d, e, k), Canonize(S(d, e, k))}
  PROVE  Equation(ZMul(d, Base), e, ROf[k], s)
  <1> DEFINE n == Order  r == ROf[k]  i == InverseModOrder(k)  c == InverseModOrder(s)
             s0 == S(d, e, k)  v == ZMul(d, Base)
             u1 == (e * c) % n  u2 == (r * c) % n
             z == RAdd(RMul(u1, Base), RMul(u2, v))
  <1>1. r \in 1 .. n - 1 /\ s0 \in 1 .. n - 1 /\ n \in Nat \ {0} /\ r \in Nat /\ d \in Nat
    BY SMade, OrderFacts, EcdsaAssumption
  <1>2. PICK sign \in {1, - 1} : SameMod(n, s, sign * s0)
    BY <1>1, CanonizedIs
  <1>3. s \in 1 .. n - 1 /\ s \in Nat
    BY <1>1, CanonizedIs
  <1>4. s0 = (i * (e + ((d * r) % n))) % n
    BY DEF S
  <1>5. i \in Nat /\ c \in Nat /\ SameMod(n, i * k, 1) /\ SameMod(n, c * s, 1) /\ k \in Nat
    BY <1>3, OrderInverse, NonceNotZero
  <1>6. ZMul(k, Base) \in CurvePoints /\ r = ZMul(k, Base)[1] % n
    BY ROfIs
  <1>7. Equation(v, e, r, s) <=> InRange(<<r, s>>) /\ z # O /\ z[1] % n = r
    BY DEF Equation
  <1>8. InRange(<<r, s>>)
    BY <1>1, <1>3, InRangeIs
  <1>9. SameMod(n, s, sign * ((i * (e + ((d * r) % n))) % n))
    BY <1>2, <1>4
  <1> HIDE DEF n, r, i, c, s0
  <1>10. SameMod(n, u1 + u2 * d, sign * k)
    BY <1>1, <1>3, <1>5, <1>9, NonceRecovered
  <1>11. u1 \in Nat /\ u2 \in Nat
    <2>1. e * c \in Int /\ r * c \in Int
      BY <1>1, <1>5
    <2> QED BY <1>5, <1>1, Multipliers, e \in Int, r \in Int, c \in Int DEF n
  <1> HIDE DEF u1, u2
  <1>12. z \in CurvePoints /\ z[1] = ZMul(k, Base)[1]
    BY <1>1, <1>5, <1>6, <1>10, <1>11, SignedPoint DEF n
  <1> HIDE DEF z, v
  <1>13. z # O
    BY <1>12, CurvePointFacts DEF O
  <1>14. Equation(v, e, r, s)
    BY <1>6, <1>7, <1>8, <1>12, <1>13
  <1> QED BY <1>14 DEF v, r

LEMMA NumberIs ==
  ASSUME NEW g \in Digests, NEW t \in BOOLEAN
  PROVE  Number(g, t) \in Nat
  <1>1. CASE t = TRUE
    BY <1>1, CutTwice, LeftmostBounds
  <1>2. CASE t = FALSE
    <2>1. Number(g, t) = g.number
      BY <1>2 DEF Number
    <2> QED BY <2>1, DigestFacts
  <1> QED BY <1>1, <1>2

----------------------------------------------------------------------------
(* A signature that no verification was made of yet is one that sign_number*)
(* or sign_digest made of the last digest.                                 *)
SignedBy(d, e, rs) ==
    \E k \in 1 .. Order - 1 :
      Signs(d, e, k) /\ rs \in {<<ROf[k], S(d, e, k)>>, <<ROf[k], Canonize(S(d, e, k))>>}

SigInv ==
    /\ phase # "idle" => sig = None /\ verdict = "none"
    /\ sig # None /\ verdict = "none" => SignedBy(secret, Number(digest, truncate), sig)

LEMMA SigInvStep ==
  ASSUME EInv, SigInv, [Next]_vars
  PROVE  SigInv'
  <1>0. GeneratorTypes /\ GeneratorTypes'
    BY EInvStep DEF EInv
  <1>1. CASE Sign
    <2>1. SignedBy(secret', Number(digest', truncate'), sig') /\ phase' = "idle"
      BY <1>1 DEF Sign, SignedBy, Encoded
    <2> QED BY <2>1 DEF SigInv
  <1>2. CASE SignDeterministic
    BY <1>2 DEF SignDeterministic, SigInv
  <1>3. CASE GenerateK
    <2>1. UNCHANGED <<sig, verdict>> /\ phase = "generate"
      BY <1>3 DEF GenerateK
    <2> QED BY <2>1 DEF SigInv
  <1>4. CASE SignNumber
    <2>1. /\ phase = "number" /\ UNCHANGED <<secret, digest, truncate, verdict>>
          /\ sig = None /\ verdict = "none"
      BY <1>4 DEF SignNumber, call, SigInv
    <2>2. CASE sig' = sig
      BY <2>1, <2>2 DEF SigInv
    <2>3. CASE /\ Signs(secret, Number(digest, truncate), nonce) /\ Leave
               /\ sig' \in Encoded(Number(digest, truncate), nonce)
      <3>1. nonce \in 1 .. Order - 1
        BY <2>1 DEF EInv, CallInv, InCall, InNonces
      <3>2. SignedBy(secret', Number(digest', truncate'), sig') /\ phase' = "idle"
        BY <2>1, <2>3, <3>1 DEF SignedBy, Encoded, Leave
      <3> QED BY <3>2 DEF SigInv
    <2> QED BY <1>4, <2>2, <2>3 DEF SignNumber
  <1>5. CASE Verify
    <2>1. PICK r, s \in 0 .. Order :
            verdict' = IF TooLong(digest', truncate') THEN "BadDigestError"
                       ELSE Verifies(pub, fast, Number(digest', truncate'), r, s)
      BY <1>5 DEF Verify
    <2>2. verdict' # "none" /\ phase' = "idle"
      BY <1>5, <2>1, VerdictOf DEF Verify
    <2> QED BY <2>2 DEF SigInv
  <1>6. CASE Precomputation
    BY <1>6 DEF Precomputation, call, SigInv
  <1>7. CASE Recover
    BY <1>7 DEF Recover, SigInv
  <1>8. CASE UNCHANGED vars
    BY <1>8 DEF vars, call, SigInv
  <1> QED BY <1>1, <1>2, <1>3, <1>4, <1>5, <1>6, <1>7, <1>8 DEF Next, Call

LEMMA SignedInvariant == Spec => [](EInv /\ SigInv)
  <1>1. Init => EInv /\ SigInv
    BY InitEInv DEF Init, SigInv
  <1>2. EInv /\ SigInv /\ [Next]_vars => (EInv /\ SigInv)'
    BY EInvStep, SigInvStep
  <1> QED BY <1>1, <1>2, PTL DEF Spec

(* No Twin is met when the signature is verified with the signer's key.    *)
SignedWithoutTwin ==
    sig # None =>
      \A table \in BOOLEAN :
        ~ VerifierTwin(KeyOf[secret], table, Number(digest, truncate), sig[1], sig[2])

(* The signer's public key accepts every signature of sign_digest and of   *)
(* sign_digest_deterministic, as it is and with the canonical s, whatever  *)
(* the digest and allow_truncate: the equation of verifies() undoes that   *)
(* of sign() for every curve, order and nonce, except for the Twins that   *)
(* _add_with_z_1() computes wrong.                                         *)
THEOREM SignaturesVerify ==
  ASSUME CurveSound
  PROVE  Spec => [](SignedWithoutTwin => SignatureAccepted)
  <1>1. EInv /\ SigInv => (SignedWithoutTwin => SignatureAccepted)
    <2> SUFFICES ASSUME EInv, SigInv, SignedWithoutTwin, phase = "idle", sig # None,
                        verdict = "none", NEW table \in BOOLEAN
                 PROVE  Verifies(KeyOf[secret], table, Number(digest, truncate), sig[1], sig[2])
                          = "True"
      BY DEF SignatureAccepted
    <2> DEFINE e == Number(digest, truncate)  v == ZMul(secret, Base)
    <2>1. secret \in Secrets /\ e \in Nat
      BY NumberIs DEF EInv, GeneratorTypes
    <2>2. SignedBy(secret, e, sig)
      BY DEF SigInv
    <2> HIDE DEF e
    <2>3. PICK k \in 1 .. Order - 1 :
            /\ Signs(secret, e, k)
            /\ sig \in {<<ROf[k], S(secret, e, k)>>, <<ROf[k], Canonize(S(secret, e, k))>>}
      BY <2>2 DEF SignedBy
    <2>4. sig[1] = ROf[k] /\ sig[2] \in {S(secret, e, k), Canonize(S(secret, e, k))}
      BY <2>3
    <2>5. sig[1] \in Nat /\ sig[2] \in Nat
      BY <2>1, <2>3, <2>4, SMade, CanonizedIs, OrderFacts
    <2>6. Equation(v, e, sig[1], sig[2])
      BY <2>1, <2>3, <2>4, SignedEquation
    <2>7. KeyIs(KeyOf[secret], v)
      BY <2>1, KeyOfIs
    <2>8. ~ VerifierTwin(KeyOf[secret], table, e, sig[1], sig[2])
      BY DEF SignedWithoutTwin, e
    <2> HIDE DEF v
    <2>9. Verifies(KeyOf[secret], table, e, sig[1], sig[2]) = "True"
      BY <2>1, <2>5, <2>6, <2>7, <2>8, VerifiesIs
    <2> QED BY <2>9 DEF e
  <1> QED BY <1>1, SignedInvariant, PTL

----------------------------------------------------------------------------
(* Recovery.                                                               *)
LEMMA RootIs ==
  ASSUME NEW r \in Field, NEW b \in Field
  PROVE  b \in Roots(r) <=> <<r, b>> \in CurvePoints
  <1> DEFINE w == (r * r + A) * r + B  x == r * r * r + A * r + B  y == b * b
  <1>1. r \in Int /\ b \in Int /\ A \in Int /\ B \in Int /\ P \in Nat \ {0}
    BY CurveAssumption DEF Field
  <1>2. w = x /\ w \in Int /\ y \in Int
    BY <1>1
  <1>3. <<r, b>> \in CurvePoints <=> (y - w) % P = 0
    BY DEF CurvePoints, ContainsPoint
  <1>4. b \in Roots(r) <=> y % P = x % P
    BY DEF Roots
  <1> HIDE DEF w, x, y
  <1>5. (y - w) % P = 0 <=> y % P = w % P
    BY <1>1, <1>2, DifferenceZero
  <1> QED BY <1>2, <1>3, <1>4, <1>5

LEMMA EvenYIs ==
  ASSUME NEW r \in Field, Roots(r) # {}
  PROVE  EvenY(r) \in Field /\ <<r, EvenY(r)>> \in CurvePoints
  <1> DEFINE beta == CHOOSE b \in Roots(r) : TRUE
  <1>1. beta \in Roots(r) /\ beta \in Field
    BY DEF Roots
  <1>2. EvenY(r) = IF beta % 2 = 0 THEN beta ELSE P - beta
    BY DEF EvenY
  <1> HIDE DEF beta
  <1>3. CASE beta % 2 = 0
    BY <1>1, <1>2, <1>3, RootIs
  <1>4. CASE beta % 2 # 0
    <2>1. beta \in Nat /\ P \in Nat /\ beta < P
      BY <1>1, CurveAssumption DEF Field
    <2>2. beta # 0
      BY <1>4, <2>1
    <2>3. P - beta \in Field /\ - beta + 1 * P = P - beta /\ - beta \in Int
      BY <2>1, <2>2 DEF Field
    <2>4. (- beta) % P = P - beta
      <3>1. (P - beta) % P = (- beta) % P
        BY <2>1, <2>3, SameRemainder, 1 \in Int, P - beta \in Int, P \in Nat \ {0}
      <3>2. (P - beta) % P = P - beta
        BY <2>1, <2>3, RemainderOfSmall, P \in Nat \ {0} DEF Field
      <3> QED BY <3>1, <3>2
    <2> DEFINE q == <<r, beta>>
    <2>5. q \in CurvePoints /\ q[1] = r /\ q[2] = beta
      BY <1>1, RootIs
    <2> HIDE DEF q
    <2>6. <<r, P - beta>> \in CurvePoints
      BY <2>4, <2>5, RNegIs
    <2> QED BY <1>2, <1>4, <2>3, <2>6
  <1> QED BY <1>3, <1>4

(* What the key is that recover_public_keys makes of the point q.          *)
KeyFrom(e, r, s, q) ==
    ZMul(InverseModOrder(r), RAdd(ZMul(s, q), ZMul((- e) % Order, Base)))

LEMMA RecoverFromIs ==
  ASSUME CurveSound, NEW e \in Nat, NEW r \in 1 .. Order - 1, r \in Field,
         NEW s \in 1 .. Order - 1, NEW q \in CurvePoints, q[1] = r,
         NEW y \in - P .. P, Congruent(y, q[2]), ~ RecoverTwin(e, r, s, y),
         RecoverFrom(e, r, s, y).z # 0
  PROVE  KeyIs(RecoverFrom(e, r, s, y), KeyFrom(e, r, s, q))
  <1> DEFINE pt == Jacobi(r, y, 1, Order)  m == (- e) % Order  i == InverseModOrder(r)
             multiple == Mul(pt, s, FALSE)  base == Mul(Generator, m, TRUE)
             sum == Add(multiple, base)     key == Mul(sum, i, FALSE)
             v == RAdd(ZMul(s, q), ZMul(m, Base))
  <1>1. ~ multiple.twin /\ ~ sum.twin /\ ~ key.twin /\ key.z # 0
    BY DEF RecoverTwin, RecoverFrom
  <1>2. RecoverFrom(e, r, s, y) = key /\ KeyFrom(e, r, s, q) = ZMul(i, v)
    BY DEF RecoverFrom, KeyFrom
  <1>3. KeyIs(pt, q)
    <2>1. P \in Nat /\ P > 3
      BY CurveAssumption
    <2>2. /\ y \in - P .. 2 * P /\ 1 \in 1 .. P - 1 /\ y \in Int /\ r \in Int
          /\ q[1] \in Int /\ q[2] \in Int
      BY <2>1, CurvePointFacts DEF Field
    <2>3. At(r, y, 1, q[1], q[2])
      <3>1. Congruent(r, q[1])
        BY <2>2, CongruentMod
      <3>2. At(r, y, 1, q[1], q[2]) = (Congruent(r, q[1]) /\ Congruent(y, q[2]))
        BY <2>2, AtOne, Zenon
      <3> QED BY <3>1, <3>2
    <2>4. Good(Object("jacobi", r, y, 1, Order), q)
      BY <2>2, <2>3, OrderFacts, ObjectGood
    <2>5. pt = Object("jacobi", r, y, 1, Order)
      BY DEF Jacobi
    <2> HIDE DEF pt
    <2> QED BY <2>4, <2>5 DEF KeyIs, Object
  <1>4. s \in Nat /\ s % Order # 0 /\ i \in 1 .. Order - 1
    BY NonceNotZero, OrderInverse
  <1>5. i \in Nat /\ i % Order # 0
    <2> HIDE DEF i
    <2> QED BY <1>4, NonceNotZero
  <1>6. m \in 0 .. 3 * Order
    <2>1. - e \in Int
      OBVIOUS
    <2>2. m \in 0 .. Order - 1
      <3> DEFINE w == - e
      <3>1. w \in Int
        OBVIOUS
      <3> HIDE DEF w
      <3>2. w % Order \in 0 .. Order - 1
        BY <3>1, OrderFacts, DivMod
      <3> QED BY <3>2 DEF w
    <2> HIDE DEF m
    <2> QED BY <2>2, OrderFacts
  <1> HIDE DEF pt, m, i
  <1>7. KeyIs(multiple, ZMul(s, q))
    BY <1>1, <1>3, <1>4, KeyMultiple
  <1>8. Good(base, ZMul(m, Base))
    BY <1>6, BaseMultiple
  <1> HIDE DEF multiple, base
  <1>9. Good(sum, v)
    BY <1>1, <1>7, <1>8, KeyIsPoint, AddGood
  <1>10. sum.z # 0
    <2>1. CASE sum.z = 0
      <3>1. sum = INFINITY
        BY <1>9, <2>1, InfinityTold, Zenon
      <3>2. key = INFINITY
        BY <3>1 DEF Mul, INFINITY, Object
      <3> QED BY <1>1, <3>2, InfinityIs
    <2> QED BY <2>1
  <1>11. KeyIs(sum, v)
    <2>1. sum.n = multiple.n /\ sum.class = "jacobi"
      BY <1>1, <1>7, <1>10, KeyIsPoint, FiniteAdd
    <2>2. v \in CurvePoints
      BY <1>9, <1>10, FiniteToo, Zenon
    <2> QED BY <1>7, <1>9, <2>1, <2>2, KeyIsPoint DEF KeyIs
  <1> HIDE DEF sum, v
  <1>12. KeyIs(key, ZMul(i, v))
    BY <1>1, <1>5, <1>11, KeyMultiple
  <1> QED BY <1>2, <1>12

LEMMA RecoveredIs ==
  ASSUME CurveSound, NEW e \in Nat, NEW r \in 1 .. Order - 1, NEW s \in 1 .. Order - 1,
         RecoverySound(e, r, s), Recovered(e, r, s) # {}
  PROVE  LET q == <<r, EvenY(r)>>
         IN /\ q \in CurvePoints /\ q[1] = r /\ RNeg(q) \in CurvePoints /\ RNeg(q)[1] = r
            /\ Recovered(e, r, s) = {RecoverFrom(e, r, s, EvenY(r)),
                                     RecoverFrom(e, r, s, - EvenY(r))}
            /\ KeyIs(RecoverFrom(e, r, s, EvenY(r)), KeyFrom(e, r, s, q))
            /\ KeyIs(RecoverFrom(e, r, s, - EvenY(r)), KeyFrom(e, r, s, RNeg(q)))
  <1> DEFINE y == EvenY(r)  q == <<r, y>>  k1 == RecoverFrom(e, r, s, y)
             k2 == RecoverFrom(e, r, s, - y)
  <1>1. /\ Roots(r) # {} /\ r \in Field /\ ~ RecoverTwin(e, r, s, y)
        /\ ~ RecoverTwin(e, r, s, - y)
    BY DEF Recovered, RecoverySound
  <1>2. Recovered(e, r, s) = {k1, k2} /\ k1.z # 0 /\ k2.z # 0
    <2> DEFINE both == {RecoverFrom(e, r, s, b) : b \in {EvenY(r), - EvenY(r)}}
    <2>1. both = {k1, k2}
      OBVIOUS
    <2>2. Recovered(e, r, s) = IF \E k \in both : k.z = 0 THEN {} ELSE both
      BY <1>1 DEF Recovered, Comparable
    <2> HIDE DEF both, k1, k2
    <2> QED BY <2>1, <2>2
  <1>3. y \in Field /\ q \in CurvePoints
    BY <1>1, EvenYIs
  <1>4. q[1] = r /\ q[2] = y
    OBVIOUS
  <1>5. y \in Int /\ y \in - P .. P /\ - y \in - P .. P /\ - y \in Int /\ Congruent(y, y)
    <2>1. P \in Nat
      BY CurveAssumption
    <2> HIDE DEF y
    <2> QED BY <1>3, <2>1, CongruentMod DEF Field
  <1> HIDE DEF q
  <1>6. /\ RNeg(q) \in CurvePoints /\ RNeg(q)[1] = r /\ RNeg(q)[2] = (- y) % P
        /\ Congruent(- y, RNeg(q)[2])
    <2>1. RNeg(q) \in CurvePoints /\ RNeg(q) = <<r, (- y) % P>>
      BY <1>3, <1>4, RNegIs
    <2>2. Congruent(- y, (- y) % P)
      BY <1>5, CongruentMod
    <2> QED BY <2>1, <2>2
  <1>7. KeyIs(k1, KeyFrom(e, r, s, q))
    BY <1>1, <1>2, <1>3, <1>4, <1>5, RecoverFromIs
  <1>8. KeyIs(k2, KeyFrom(e, r, s, RNeg(q)))
    BY <1>1, <1>2, <1>5, <1>6, RecoverFromIs
  <1> QED BY <1>2, <1>3, <1>4, <1>6, <1>7, <1>8 DEF q

LEMMA InverseTimes ==
  ASSUME NEW n \in Nat \ {0}, NEW c \in Nat, NEW s \in Nat, SameMod(n, c * s, 1), NEW e \in Int
  PROVE  /\ SameMod(n, ((e * c) % n) * s, e) /\ SameMod(n, s * ((e * c) % n), e)
         /\ SameMod(n, (e * c) % n, e * c)
  <1> DEFINE x == e * c
  <1>1. x \in Int /\ s \in Int /\ e \in Int /\ c \in Int
    OBVIOUS
  <1>2. x * s = e * (c * s) /\ e * 1 = e
    OBVIOUS
  <1>3. SameMod(n, e * (c * s), e * 1)
    BY <1>1, SameModTimes, Zenon
  <1> HIDE DEF x
  <1>4. SameMod(n, x % n, x)
    BY <1>1, SameModIs, Zenon
  <1>5. SameMod(n, (x % n) * s, x * s) /\ SameMod(n, s * (x % n), s * x)
    BY <1>1, <1>4, SameModTimes, Zenon
  <1>6. SameMod(n, x * s, e) /\ s * x = x * s
    BY <1>1, <1>2, <1>3
  <1>7. SameMod(n, (x % n) * s, e) /\ SameMod(n, s * (x % n), e)
    BY <1>5, <1>6, SameModChain
  <1> QED BY <1>4, <1>7 DEF x

LEMMA Opposite ==
  ASSUME NEW n \in Nat \ {0}, NEW a, NEW e \in Int, SameMod(n, a, e)
  PROVE  SameMod(n, a + ((- e) % n), 0) /\ (- e) % n \in Nat
  <1> DEFINE f == - e
  <1>1. f \in Int /\ e + f = 0
    OBVIOUS
  <1> HIDE DEF f
  <1>2. SameMod(n, f % n, f) /\ f % n \in Nat
    <2>1. SameMod(n, f % n, f)
      BY <1>1, SameModIs, Zenon
    <2>2. f % n \in Int /\ 0 <= f % n
      BY <1>1, DivMod, Zenon
    <2> QED BY <2>1, <2>2
  <1>3. SameMod(n, a + (f % n), e + f)
    BY <1>2, SameModSum, Zenon
  <1> QED BY <1>1, <1>2, <1>3 DEF f

(* The equation with a recovered key comes back to the point it was        *)
(* recovered from.                                                         *)
LEMMA RecoveredEquation ==
  ASSUME CurveSound, NEW e \in Nat, NEW r \in 1 .. Order - 1, NEW s \in 1 .. Order - 1,
         NEW q \in CurvePoints, q[1] = r
  PROVE  Equation(KeyFrom(e, r, s, q), e, r, s)
  <1> DEFINE n == Order  c == InverseModOrder(s)  i == InverseModOrder(r)  m == (- e) % n
             u1 == (e * c) % n  u2 == (r * c) % n
             a == ZMul(s, q)  b == ZMul(m, Base)  v == RAdd(a, b)
             z == RAdd(RMul(u1, Base), RMul(u2, ZMul(i, v)))
  <1>1. /\ Smooth /\ Annihilates(n) /\ Base \in Group /\ q \in Group /\ q # O
        /\ n \in Nat \ {0} /\ r \in Nat /\ s \in Nat /\ r % n = r
    BY CurveFacts, OrderFacts, NonceNotZero, CurvePointFacts DEF Group
  <1>2. c \in Nat /\ i \in Nat /\ SameMod(n, c * s, 1) /\ SameMod(n, i * r, 1)
    BY OrderInverse
  <1>3. Equation(KeyFrom(e, r, s, q), e, r, s) <=> InRange(<<r, s>>) /\ z # O /\ z[1] % n = r
    BY DEF Equation, KeyFrom
  <1>4. InRange(<<r, s>>)
    BY InRangeIs
  <1> HIDE DEF n, c, i
  <1>5. SameMod(n, u1, e * c) /\ SameMod(n, u2 * i, c)
    <2>1. SameMod(n, ((c * r) % n) * i, c)
      <3>1. SameMod(n, r * i, 1)
        BY <1>1, <1>2, r * i = i * r
      <3>2. SameMod(n, ((c * r) % n) * i, c)
        BY <1>1, <1>2, <3>1, InverseTimes, c \in Int, Zenon
      <3> QED BY <3>2
    <2>2. r * c = c * r
      BY <1>1, <1>2
    <2>3. SameMod(n, u1, e * c)
      BY <1>1, <1>2, e \in Int, InverseTimes, Zenon
    <2> QED BY <2>1, <2>2, <2>3
  <1>6. u1 \in Nat /\ u2 \in Nat /\ m \in Nat
    BY <1>1, <1>2, e \in Int, r \in Int, c \in Int, Multipliers, Opposite, SameModIs DEF n
  <1>7. SameMod(n, u1 + c * m, 0)
    <2> DEFINE f == - e
    <2>1. f \in Int /\ c \in Int /\ e \in Int /\ e * c + c * f = c * 0 /\ c * 0 = 0
      BY <1>2
    <2> HIDE DEF f
    <2>2. SameMod(n, f % n, f)
      BY <1>1, <2>1, SameModIs, Zenon
    <2>3. SameMod(n, c * (f % n), c * f)
      BY <1>1, <2>1, <2>2, SameModTimes, Zenon
    <2>4. SameMod(n, u1 + c * (f % n), e * c + c * f)
      BY <1>1, <1>5, <2>3, SameModSum, Zenon
    <2> QED BY <2>1, <2>4 DEF f
  <1> HIDE DEF u1, u2, m
  <1>8. a \in Group /\ b \in Group /\ v \in Group /\ ZMul(i, v) \in Group
    <2>1. a \in Group /\ b \in Group
      BY <1>1, <1>6, ZMulIs, s \in Int, m \in Int
    <2>2. v \in Group
      BY <2>1, RAddCommutes
    <2> HIDE DEF v
    <2> QED BY <1>2, <2>1, <2>2, ZMulIs, i \in Int DEF v
  <1>9. RMul(u2, ZMul(i, v)) = ZMul(c, v)
    <2> HIDE DEF v
    <2>1. RMul(u2, ZMul(i, v)) = ZMul(u2, ZMul(i, v))
      BY <1>6, <1>8, ZMulIs
    <2>2. ZMul(u2, ZMul(i, v)) = ZMul(u2 * i, v)
      BY <1>1, <1>2, <1>6, <1>8, i \in Int, ZMulProduct, Zenon
    <2>3. ZMul(u2 * i, v) = ZMul(c, v)
      BY <1>1, <1>5, <1>8, SameMultiple, Zenon
    <2> QED BY <2>1, <2>2, <2>3
  <1>10. ZMul(c, v) = RAdd(q, ZMul(c * m, Base))
    <2>1. ZMul(c, v) = RAdd(ZMul(c, a), ZMul(c, b))
      BY <1>1, <1>2, <1>8, ZMulDistributes
    <2>2. ZMul(c, a) = ZMul(c * s, q)
      BY <1>1, <1>2, s \in Int, ZMulProduct, Zenon
    <2>3. ZMul(c * s, q) = ZMul(1, q)
      BY <1>1, <1>2, SameMultiple, Zenon
    <2>4. ZMul(1, q) = q
      BY <1>1, ZMulIs
    <2>5. ZMul(c, b) = ZMul(c * m, Base)
      BY <1>1, <1>2, <1>6, m \in Int, ZMulProduct, Zenon
    <2> QED BY <2>1, <2>2, <2>3, <2>4, <2>5
  <1> DEFINE w == c * m
  <1>11. w \in Int /\ u1 \in Int /\ SameMod(n, u1 + w, 0)
    BY <1>2, <1>6, <1>7
  <1> HIDE DEF w
  <1>12. z = q
    <2> DEFINE g == ZMul(u1, Base)  h == ZMul(w, Base)
    <2>1. z = RAdd(g, RAdd(q, h))
      BY <1>1, <1>6, <1>9, <1>10, ZMulIs DEF w
    <2>2. g \in Group /\ h \in Group
      BY <1>1, <1>11, ZMulIs
    <2>3. RAdd(h, g) = O
      <3>1. RAdd(g, h) = ZMul(u1 + w, Base)
        BY <1>1, <1>11, ZAdd
      <3>2. ZMul(u1 + w, Base) = ZMul(0, Base)
        BY <1>1, <1>11, SameMultiple, Zenon
      <3>3. ZMul(0, Base) = O
        BY <1>1, ZMulIs
      <3> QED BY <2>2, <3>1, <3>2, <3>3, RAddCommutes
    <2> HIDE DEF g, h
    <2>4. RAdd(g, RAdd(q, h)) = RAdd(RAdd(q, h), g)
      BY <1>1, <2>2, RAddCommutes
    <2>5. RAdd(RAdd(q, h), g) = RAdd(q, RAdd(h, g))
      BY <1>1, <2>2, GroupLawAssociates DEF Associative
    <2>6. RAdd(q, O) = q
      BY <1>1, RAddZero
    <2> QED BY <2>1, <2>3, <2>4, <2>5, <2>6
  <1> HIDE DEF z
  <1> QED BY <1>1, <1>3, <1>4, <1>12

(* The key that is recovered from the point a signature was made with is   *)
(* the signer's.                                                           *)
LEMMA RecoversSigner ==
  ASSUME CurveSound, NEW e \in Nat, NEW r \in 1 .. Order - 1, NEW s \in 1 .. Order - 1,
         NEW key \in Group
  PROVE  LET c == InverseModOrder(s)
             q == RAdd(RMul((e * c) % Order, Base), RMul((r * c) % Order, key))
         IN q \in Group /\ KeyFrom(e, r, s, q) = key
  <1> DEFINE n == Order  c == InverseModOrder(s)  i == InverseModOrder(r)  m == (- e) % n
             u1 == (e * c) % n  u2 == (r * c) % n
             g == ZMul(u1, Base)  h == ZMul(u2, key)  q == RAdd(g, h)
  <1>1. /\ Smooth /\ Annihilates(n) /\ Base \in Group
        /\ n \in Nat \ {0} /\ r \in Nat /\ s \in Nat
    BY CurveFacts, OrderFacts, NonceNotZero
  <1>2. c \in Nat /\ i \in Nat /\ SameMod(n, c * s, 1) /\ SameMod(n, i * r, 1)
    BY OrderInverse
  <1>3. KeyFrom(e, r, s, q) = ZMul(i, RAdd(ZMul(s, q), ZMul(m, Base)))
    BY DEF KeyFrom
  <1> HIDE DEF n, c, i
  <1>4. SameMod(n, s * u1, e) /\ SameMod(n, s * u2, r)
    BY <1>1, <1>2, e \in Int, r \in Int, InverseTimes, Zenon
  <1>5. u1 \in Nat /\ u2 \in Nat /\ m \in Nat /\ SameMod(n, s * u1 + m, 0)
    <2>1. u1 \in Nat /\ u2 \in Nat
      BY <1>1, <1>2, e \in Int, r \in Int, c \in Int, Multipliers DEF n
    <2> HIDE DEF u1, u2
    <2>2. m \in Nat /\ SameMod(n, s * u1 + m, 0)
      BY <1>1, <1>4, e \in Int, Opposite, Zenon
    <2> QED BY <2>1, <2>2
  <1>6. RMul(u1, Base) = g /\ RMul(u2, key) = h
    BY <1>1, <1>5, ZMulIs
  <1> HIDE DEF u1, u2, m
  <1>7. g \in Group /\ h \in Group /\ q \in Group
    <2>1. g \in Group /\ h \in Group
      BY <1>1, <1>5, ZMulIs, u1 \in Int, u2 \in Int
    <2> QED BY <2>1, RAddCommutes
  <1>8. ZMul(s, q) = RAdd(ZMul(s * u1, Base), ZMul(s * u2, key))
    <2>1. ZMul(s, q) = RAdd(ZMul(s, g), ZMul(s, h))
      BY <1>1, <1>7, ZMulDistributes
    <2>2. ZMul(s, g) = ZMul(s * u1, Base)
      BY <1>1, <1>5, u1 \in Int, ZMulProduct, Zenon
    <2>3. ZMul(s, h) = ZMul(s * u2, key)
      BY <1>1, <1>5, u2 \in Int, ZMulProduct, Zenon
    <2> QED BY <2>1, <2>2, <2>3
  <1> DEFINE a == s * u1  b == s * u2
  <1>9. a \in Int /\ b \in Int /\ m \in Int /\ SameMod(n, a + m, 0) /\ SameMod(n, b, r)
    BY <1>1, <1>4, <1>5
  <1> HIDE DEF a, b
  <1>10. RAdd(ZMul(s, q), ZMul(m, Base)) = ZMul(r, key)
    <2> DEFINE x == ZMul(a, Base)  y == ZMul(b, key)  z == ZMul(m, Base)
    <2>1. x \in Group /\ y \in Group /\ z \in Group
      BY <1>1, <1>9, ZMulIs
    <2>2. RAdd(x, z) = O
      <3>1. RAdd(x, z) = ZMul(a + m, Base)
        BY <1>1, <1>9, ZAdd
      <3>2. ZMul(a + m, Base) = ZMul(0, Base)
        BY <1>1, <1>9, SameMultiple, Zenon
      <3>3. ZMul(0, Base) = O
        BY <1>1, ZMulIs
      <3> QED BY <3>1, <3>2, <3>3
    <2>3. y = ZMul(r, key)
      BY <1>1, <1>9, SameMultiple, Zenon
    <2>4. ZMul(s, q) = RAdd(x, y)
      BY <1>8 DEF a, b
    <2> HIDE DEF x, y, z
    <2>5. RAdd(RAdd(x, y), z) = RAdd(RAdd(y, x), z)
      BY <2>1, RAddCommutes
    <2>6. RAdd(RAdd(y, x), z) = RAdd(y, RAdd(x, z))
      BY <1>1, <2>1, GroupLawAssociates DEF Associative
    <2>7. RAdd(y, O) = y
      BY <2>1, RAddZero
    <2> QED BY <2>2, <2>3, <2>4, <2>5, <2>6, <2>7 DEF z
  <1>11. ZMul(i, ZMul(r, key)) = key
    <2>1. ZMul(i, ZMul(r, key)) = ZMul(i * r, key)
      BY <1>1, <1>2, r \in Int, ZMulProduct, Zenon
    <2>2. ZMul(i * r, key) = ZMul(1, key)
      BY <1>1, <1>2, SameMultiple, Zenon
    <2>3. ZMul(1, key) = key
      BY ZMulIs
    <2> QED BY <2>1, <2>2, <2>3
  <1>12. KeyFrom(e, r, s, q) = key
    BY <1>3, <1>10, <1>11
  <1> QED BY <1>6, <1>7, <1>12 DEF u1, u2, c, n

(* Neither the recovery from the last signature nor a verification with a  *)
(* key of it meets a Twin, and its r is the x of a point itself.           *)
RecoveredWithoutTwin ==
    InRange(sig) =>
      LET e == Number(digest, truncate) IN
      /\ Recovered(e, sig[1], sig[2]) # {} => RecoverySound(e, sig[1], sig[2])
      /\ \A q \in Recovered(e, sig[1], sig[2]) : ~ VerifierTwin(q, FALSE, e, sig[1], sig[2])

LEMMA RecoveryValid ==
  ASSUME CurveSound, NEW e \in Nat, NEW r \in 1 .. Order - 1, NEW s \in 1 .. Order - 1,
         Recovered(e, r, s) # {} => RecoverySound(e, r, s), NEW v \in Group,
         \A q \in Recovered(e, r, s) : ~ VerifierTwin(q, FALSE, e, r, s)
  PROVE  KeysRight(Recovered(e, r, s), v, e, r, s)
  <1> DEFINE c == InverseModOrder(s)  keys == Recovered(e, r, s)
             signed == RAdd(RMul((e * c) % Order, Base), RMul((r * c) % Order, v))
             p == <<r, EvenY(r)>>  k1 == RecoverFrom(e, r, s, EvenY(r))
             k2 == RecoverFrom(e, r, s, - EvenY(r))
  <1>1. ASSUME keys # {}
        PROVE  /\ p \in CurvePoints /\ p[1] = r /\ RNeg(p) \in CurvePoints /\ RNeg(p)[1] = r
               /\ keys = {k1, k2}
               /\ KeyIs(k1, KeyFrom(e, r, s, p)) /\ KeyIs(k2, KeyFrom(e, r, s, RNeg(p)))
    BY <1>1, RecoveredIs
  <1>2. signed \in Group /\ KeyFrom(e, r, s, signed) = v
    BY RecoversSigner
  <1>0. r \in Nat /\ s \in Nat
    OBVIOUS
  <1> HIDE DEF c, keys, signed, p, k1, k2
  <1>3. ASSUME NEW q \in keys PROVE Verifies(q, FALSE, e, r, s) = "True"
    <2>1. PICK t \in CurvePoints : t[1] = r /\ KeyIs(q, KeyFrom(e, r, s, t))
      BY <1>1, <1>3
    <2>2. Equation(KeyFrom(e, r, s, t), e, r, s)
      BY <2>1, RecoveredEquation
    <2>3. ~ VerifierTwin(q, FALSE, e, r, s)
      BY <1>3 DEF keys
    <2>4. ASSUME NEW table \in BOOLEAN, ~ VerifierTwin(q, table, e, r, s)
          PROVE  Verifies(q, table, e, r, s) = "True"
      BY <1>0, <2>1, <2>2, <2>4, VerifiesIs
    <2> QED BY <2>3, <2>4
  <1>4. ASSUME keys # {}, signed # O, signed[1] = r
        PROVE  v \in {Residues(q) : q \in keys}
    <2>1. signed \in CurvePoints /\ p \in CurvePoints /\ p[1] = r
      BY <1>1, <1>2, <1>4, GroupCases
    <2>2. signed = p \/ signed = RNeg(p)
      <3>1. CASE signed[2] = p[2]
        <4>1. signed = <<signed[1], signed[2]>> /\ p = <<p[1], p[2]>>
          BY <2>1, CurvePointFacts
        <4> QED BY <1>4, <2>1, <3>1, <4>1
      <3>2. CASE signed[2] # p[2]
        <4>1. (signed[2] + p[2]) % P = 0
          BY <1>4, <2>1, <3>2, SameX
        <4> QED BY <1>4, <2>1, <4>1, OppositeIs
      <3> QED BY <3>1, <3>2
    <2>3. PICK q \in keys : KeyIs(q, KeyFrom(e, r, s, signed))
      BY <1>1, <1>4, <2>2
    <2>4. Residues(q) = v
      BY <1>2, <2>3, KeyIsPoint
    <2> QED BY <2>3, <2>4
  <1> QED BY <1>3, <1>4 DEF KeysRight, keys, signed, c

(* Every key of from_public_key_recovery accepts the signature that it was *)
(* recovered from, and unless the recovery fails, or r is what the order   *)
(* leaves of the x of the point, one of them is the signer's.              *)
THEOREM RecoveredKeysVerify ==
  ASSUME CurveSound
  PROVE  Spec => [](RecoveredWithoutTwin => RecoveredValid)
  <1>1. EInv => (RecoveredWithoutTwin => RecoveredValid)
    <2> SUFFICES ASSUME EInv, RecoveredWithoutTwin, InRange(sig) PROVE RecoveredValid
      BY DEF RecoveredValid
    <2> DEFINE e == Number(digest, truncate)  r == sig[1]  s == sig[2]
               v == Residues(KeyOf[secret])
    <2>1. r \in 1 .. Order - 1 /\ s \in 1 .. Order - 1
      BY DEF InRange
    <2>2. secret \in Secrets /\ e \in Nat
      BY NumberIs DEF EInv, GeneratorTypes
    <2>3. v \in Group
      BY <2>2, KeyOfIs, KeyIsPoint
    <2>4. /\ Recovered(e, r, s) # {} => RecoverySound(e, r, s)
          /\ \A q \in Recovered(e, r, s) : ~ VerifierTwin(q, FALSE, e, r, s)
      BY DEF RecoveredWithoutTwin
    <2> HIDE DEF e, r, s, v
    <2>5. KeysRight(Recovered(e, r, s), v, e, r, s)
      BY <2>1, <2>2, <2>3, <2>4, RecoveryValid, Zenon
    <2> QED BY <2>5 DEF RecoveredValid, e, r, s, v
  <1> QED BY <1>1, DeterministicInvariant, PTL

----------------------------------------------------------------------------
(* Verification.                                                           *)
(* The step meets no Twin: a verification, or a recovery from the x of a   *)
(* point itself.                                                           *)
TwinFreeStep ==
    /\ Verify => ~ VerifierTwin(pub, fast, Number(digest', truncate'), sig'[1], sig'[2])
    /\ Recover => RecoverySound(Number(digest, truncate), sig[1], sig[2])

KeyInv == KeyIs(pub, Residues(pub))

StreamTypes == \A seed \in Seeds : stream[seed] \in Seq(0 .. 2 ^ Bits - 1)

OtherTypes ==
    /\ Kinds \in Mixes /\ fast \in BOOLEAN /\ truncate \in Truncations
    /\ nonce \in 0 .. Order - 1
    /\ sig = None \/ sig \in (0 .. Order) \X (0 .. Order)
    /\ verdict \in {"none", "recovered", "True", "False", "TypeError", "BadDigestError"}

VInv == EInv /\ SigInv /\ KeyInv /\ StreamTypes /\ OtherTypes /\ AcceptsEquation

LEMMA KeyKept ==
  ASSUME KeyInv, pub' \in {pub, Scale(pub)}
  PROVE  KeyInv' /\ Residues(pub') = Residues(pub)
  <1> DEFINE v == Residues(pub)
  <1>1. KeyIs(pub, v)
    BY DEF KeyInv
  <1> HIDE DEF v
  <1>2. KeyIs(pub', v)
    BY <1>1, ScaleKey
  <1>3. Residues(pub') = v
    BY <1>2, KeyIsPoint
  <1> QED BY <1>2, <1>3 DEF KeyInv, v

LEMMA SignatureTypes ==
  ASSUME CurveSound, NEW d \in Secrets, NEW e \in Nat, NEW rs, SignedBy(d, e, rs)
  PROVE  rs \in (0 .. Order) \X (0 .. Order)
  <1>1. PICK k \in 1 .. Order - 1 :
          Signs(d, e, k) /\ rs \in {<<ROf[k], S(d, e, k)>>, <<ROf[k], Canonize(S(d, e, k))>>}
    BY DEF SignedBy
  <1>2. ROf[k] \in 1 .. Order - 1 /\ S(d, e, k) \in 1 .. Order - 1
    BY <1>1, SMade
  <1>3. Canonize(S(d, e, k)) \in 1 .. Order - 1
    BY <1>2, CanonizedIs
  <1> QED BY <1>1, <1>2, <1>3, OrderFacts

LEMMA InitVInv ==
  ASSUME CurveSound, Init
  PROVE  VInv
  <1>1. EInv /\ SigInv
    BY InitEInv DEF Init, SigInv
  <1>2. KeyInv
    <2>1. PICK d \in Secrets : pub = KeyOf[d]
      BY DEF Init
    <2>2. KeyIs(pub, ZMul(d, Base))
      BY <2>1, KeyOfIs
    <2> QED BY <2>2, KeyIsPoint DEF KeyInv
  <1>3. StreamTypes
    BY DEF Init, StreamTypes
  <1>4. OtherTypes
    <2>1. nonce \in 0 .. Order - 1
      BY OrderFacts DEF Init
    <2>2. Kinds \in Mixes /\ truncate \in Truncations /\ sig = None /\ verdict = "none"
      BY DEF Init
    <2>3. fast \in BOOLEAN
      BY DEF Init
    <2> QED BY <2>1, <2>2, <2>3 DEF OtherTypes
  <1>5. AcceptsEquation
    BY DEF Init, AcceptsEquation
  <1> QED BY <1>1, <1>2, <1>3, <1>4, <1>5 DEF VInv

LEMMA StreamTypesStep ==
  ASSUME EInv, StreamTypes, [Next]_vars
  PROVE  StreamTypes'
  <1>1. CASE GenerateK
    <2> DEFINE D == 0 .. 2 ^ Bits - 1  seed == Seed(secret, digest)
    <2>1. /\ seed \in Seeds /\ stream \in [Seeds -> Seq(Nat)] /\ pos \in Nat \ {0}
      BY SeedFacts, Zenon DEF EInv, GeneratorTypes
    <2>2. PICK k \in Outputs(seed) :
            stream' = [stream EXCEPT ![seed] = IF pos <= Len(@) THEN @ ELSE Append(@, k)]
      BY <1>1 DEF GenerateK
    <2>3. pos <= Len(stream[seed]) \/ k \in D
      <3>1. CASE ~ (pos <= Len(stream[seed])) /\ pos < MaxStream
        BY <2>2, <3>1, CandidatesAssumption DEF Outputs, Bits
      <3>2. CASE ~ (pos <= Len(stream[seed])) /\ ~ (pos < MaxStream)
        <4>1. k \in 1 .. Order - 1
          BY <2>2, <3>2 DEF Outputs
        <4>2. Order < 2 ^ Bits /\ Order \in Nat /\ 2 ^ Bits \in Nat
          BY BitsFacts, PowerPositive
        <4> QED BY <4>1, <4>2
      <3> QED BY <3>1, <3>2
    <2> HIDE DEF D, seed
    <2>4. \A z \in Seeds : stream[z] \in Seq(D)
      BY DEF StreamTypes, D
    <2>5. ASSUME NEW z \in Seeds PROVE stream'[z] \in Seq(D)
      <3>1. CASE z # seed
        BY <2>1, <2>2, <2>4, <3>1
      <3>2. CASE z = seed
        <4>1. stream'[z] = IF pos <= Len(stream[seed]) THEN stream[seed]
                           ELSE Append(stream[seed], k)
          BY <2>1, <2>2, <3>2
        <4> QED BY <2>1, <2>3, <2>4, <4>1
      <3> QED BY <3>1, <3>2
    <2> QED BY <2>5 DEF StreamTypes, D
  <1>2. CASE UNCHANGED stream
    BY <1>2 DEF StreamTypes
  <1> QED BY <1>1, <1>2
          DEF Next, Call, Sign, SignDeterministic, SignNumber, Verify, Precomputation, Recover,
              vars, generator

LEMMA VerifyStep ==
  ASSUME CurveSound, VInv, Verify, EInv', TwinFreeStep
  PROVE  /\ KeyInv' /\ AcceptsEquation' /\ fast' = fast
         /\ sig' \in (0 .. Order) \X (0 .. Order)
         /\ verdict' \in {"True", "False", "TypeError", "BadDigestError"}
  <1> DEFINE e == Number(digest', truncate')  v == Residues(pub)
  <1>1. PICK r, s \in 0 .. Order :
          /\ sig' = <<r, s>>
          /\ verdict' = IF TooLong(digest', truncate') THEN "BadDigestError"
                        ELSE Verifies(pub, fast, e, r, s)
          /\ pub' \in {pub, Scale(pub)}
    BY DEF Verify
  <1>2. KeyInv' /\ Residues(pub') = v /\ KeyIs(pub, v)
    BY <1>1, KeyKept DEF VInv, KeyInv
  <1>3. e \in Nat
    BY NumberIs DEF EInv, GeneratorTypes
  <1>4. fast \in BOOLEAN /\ fast' = fast
    BY DEF VInv, OtherTypes, Verify
  <1>5. ~ VerifierTwin(pub, fast, e, sig'[1], sig'[2])
    BY DEF TwinFreeStep
  <1>6. r \in Nat /\ s \in Nat /\ sig'[1] = r /\ sig'[2] = s
    BY <1>1, OrderFacts
  <1> HIDE DEF e, v
  <1>7. Verifies(pub, fast, e, r, s) = "True" <=> Equation(v, e, r, s)
    BY <1>2, <1>3, <1>4, <1>5, <1>6, VerifiesIs
  <1>8. AcceptsEquation'
    <2>1. verdict' \in {"True", "False", "TypeError"} => verdict' = Verifies(pub, fast, e, r, s)
      BY <1>1
    <2>2. verdict' \in {"True", "False", "TypeError"} =>
            (verdict' = "True" <=> Equation(Residues(pub'), e, sig'[1], sig'[2]))
      BY <1>2, <1>6, <1>7, <2>1
    <2> QED BY <2>2 DEF AcceptsEquation, e
  <1>9. verdict' \in {"True", "False", "TypeError", "BadDigestError"}
    BY <1>1, VerdictOf
  <1> QED BY <1>1, <1>2, <1>4, <1>8, <1>9

LEMMA RecoverStep ==
  ASSUME CurveSound, VInv, Recover, TwinFreeStep
  PROVE  /\ KeyInv' /\ AcceptsEquation' /\ fast' \in BOOLEAN /\ sig' = sig
         /\ verdict' = "recovered"
  <1> DEFINE e == Number(digest, truncate)  r == sig[1]  s == sig[2]
  <1>1. /\ r \in 1 .. Order - 1 /\ s \in 1 .. Order - 1 /\ pub' \in Recovered(e, r, s)
        /\ fast' = FALSE /\ verdict' = "recovered" /\ sig' = sig
    BY DEF Recover, InRange
  <1>2. RecoverySound(e, r, s)
    BY DEF TwinFreeStep
  <1>3. e \in Nat
    BY NumberIs DEF VInv, EInv, GeneratorTypes
  <1> HIDE DEF e, r, s
  <1> DEFINE p == <<r, EvenY(r)>>
  <1>4. \E q \in CurvePoints : KeyIs(pub', KeyFrom(e, r, s, q))
    <2>1. Recovered(e, r, s) # {}
      BY <1>1
    <2>2. /\ p \in CurvePoints /\ RNeg(p) \in CurvePoints
          /\ Recovered(e, r, s) = {RecoverFrom(e, r, s, EvenY(r)),
                                   RecoverFrom(e, r, s, - EvenY(r))}
          /\ KeyIs(RecoverFrom(e, r, s, EvenY(r)), KeyFrom(e, r, s, p))
          /\ KeyIs(RecoverFrom(e, r, s, - EvenY(r)), KeyFrom(e, r, s, RNeg(p)))
      BY <1>1, <1>2, <1>3, <2>1, RecoveredIs
    <2> HIDE DEF p
    <2> QED BY <1>1, <2>2
  <1>5. KeyInv'
    BY <1>4, KeyIsPoint DEF KeyInv
  <1>6. AcceptsEquation'
    BY <1>1 DEF AcceptsEquation
  <1> QED BY <1>1, <1>5, <1>6

(* Calls after which no verdict is left, or the one there was.             *)
LEMMA AcceptsKept ==
  ASSUME AcceptsEquation, Residues(pub') = Residues(pub),
         verdict' = "none" \/ UNCHANGED <<digest, truncate, sig, verdict>>
  PROVE  AcceptsEquation'
  BY DEF AcceptsEquation

LEMMA VInvStep ==
  ASSUME CurveSound, VInv, [Next]_vars, [TwinFreeStep]_vars
  PROVE  VInv'
  <1>1. EInv' /\ SigInv' /\ StreamTypes'
    BY EInvStep, SigInvStep, StreamTypesStep DEF VInv
  <1>2. secret \in Secrets /\ secret' \in Secrets /\ Kinds \in Mixes /\ Kinds' = Kinds
    BY <1>1 DEF VInv, EInv, GeneratorTypes, OtherTypes, Next, vars
  <1>3. ASSUME SignedBy(secret', Number(digest', truncate'), sig')
        PROVE  sig' \in (0 .. Order) \X (0 .. Order)
    <2>1. Number(digest', truncate') \in Nat
      BY <1>1, NumberIs DEF EInv, GeneratorTypes
    <2> QED BY <1>2, <1>3, <2>1, SignatureTypes
  <1>4. ASSUME pub' = pub, verdict' = "none" \/ UNCHANGED <<digest, truncate, sig, verdict>>
        PROVE  KeyInv' /\ AcceptsEquation'
    <2>1. KeyInv' /\ Residues(pub') = Residues(pub)
      BY <1>4 DEF VInv, KeyInv
    <2> QED BY <1>4, <2>1, AcceptsKept DEF VInv
  <1>5. 0 \in 0 .. Order - 1
    BY OrderFacts
  <1>6. CASE Sign
    <2>1. /\ pub' = pub /\ fast' = fast /\ nonce' = nonce /\ verdict' = "none"
          /\ truncate' \in Truncations /\ SignedBy(secret', Number(digest', truncate'), sig')
      BY <1>6 DEF Sign, Arguments, generator, SignedBy, Encoded
    <2>2. OtherTypes'
      BY <1>2, <1>3, <2>1 DEF VInv, OtherTypes
    <2> QED BY <1>1, <1>4, <2>1, <2>2 DEF VInv
  <1>7. CASE SignDeterministic
    <2>1. /\ pub' = pub /\ fast' = fast /\ nonce' = 0 /\ verdict' = "none" /\ sig' = None
          /\ truncate' \in Truncations
      BY <1>7 DEF SignDeterministic, Arguments
    <2>2. OtherTypes'
      BY <1>2, <1>5, <2>1 DEF VInv, OtherTypes
    <2> QED BY <1>1, <1>4, <2>1, <2>2 DEF VInv
  <1>8. CASE GenerateK
    <2>1. /\ UNCHANGED <<pub, fast, digest, truncate, sig, verdict>>
          /\ nonce' \in 0 .. Order - 1
      <3>1. nonce' = nonce \/ nonce' \in 1 .. Order - 1
        BY <1>8 DEF GenerateK
      <3>2. nonce \in 0 .. Order - 1
        BY DEF VInv, OtherTypes
      <3> QED BY <1>8, <3>1, <3>2, OrderFacts DEF GenerateK, call
    <2>2. OtherTypes'
      BY <1>2, <2>1 DEF VInv, OtherTypes
    <2> QED BY <1>1, <1>4, <2>1, <2>2 DEF VInv
  <1>9. CASE SignNumber
    <2>1. /\ UNCHANGED <<pub, fast, digest, truncate, verdict>> /\ verdict' = "none"
          /\ nonce' = 0
      BY <1>9 DEF SignNumber, call, Leave, VInv, SigInv
    <2>2. sig' = None \/ sig' \in (0 .. Order) \X (0 .. Order)
      BY <1>1, <1>3, <2>1 DEF SigInv
    <2>3. OtherTypes'
      BY <1>2, <1>5, <2>1, <2>2 DEF VInv, OtherTypes
    <2> QED BY <1>1, <1>4, <2>1, <2>3 DEF VInv
  <1>10. CASE Verify /\ TwinFreeStep
    <2>2. /\ KeyInv' /\ AcceptsEquation' /\ fast' = fast
          /\ sig' \in (0 .. Order) \X (0 .. Order)
          /\ verdict' \in {"True", "False", "TypeError", "BadDigestError"}
      BY <1>1, <1>10, VerifyStep
    <2>3. truncate' \in Truncations /\ nonce' = nonce
      BY <1>10 DEF Verify, Arguments, generator
    <2>4. OtherTypes'
      BY <1>2, <2>2, <2>3 DEF VInv, OtherTypes
    <2> QED BY <1>1, <2>2, <2>4 DEF VInv
  <1>11. CASE Precomputation
    <2>1. /\ pub' = Scale(pub) /\ fast' = TRUE
          /\ UNCHANGED <<digest, truncate, nonce, sig, verdict>>
      BY <1>11 DEF Precomputation, call, generator
    <2>2. KeyInv' /\ AcceptsEquation'
      BY <2>1, KeyKept, AcceptsKept DEF VInv
    <2>3. OtherTypes'
      BY <1>2, <2>1 DEF VInv, OtherTypes
    <2> QED BY <1>1, <2>2, <2>3 DEF VInv
  <1>12. CASE Recover /\ TwinFreeStep
    <2>2. /\ KeyInv' /\ AcceptsEquation' /\ fast' \in BOOLEAN /\ sig' = sig
          /\ verdict' = "recovered"
      BY <1>12, RecoverStep
    <2>3. UNCHANGED <<truncate, nonce>>
      BY <1>12 DEF Recover, call, generator
    <2>4. OtherTypes'
      BY <1>2, <2>2, <2>3 DEF VInv, OtherTypes
    <2> QED BY <1>1, <2>2, <2>4 DEF VInv
  <1>13. CASE UNCHANGED vars
    <2>1. UNCHANGED <<pub, fast, truncate, digest, nonce, sig, verdict>>
      BY <1>13 DEF vars, call, generator
    <2>2. OtherTypes'
      BY <1>2, <2>1 DEF VInv, OtherTypes
    <2> QED BY <1>1, <1>4, <2>1, <2>2 DEF VInv
  <1> QED BY <1>6, <1>7, <1>8, <1>9, <1>10, <1>11, <1>12, <1>13 DEF Next, Call

LEMMA VerifierInvariant ==
  ASSUME CurveSound
  PROVE  Spec /\ [][TwinFreeStep]_vars => []VInv
  <1>1. Init => VInv
    BY InitVInv
  <1>2. VInv /\ [Next]_vars /\ [TwinFreeStep]_vars => VInv'
    BY VInvStep
  <1> QED BY <1>1, <1>2, PTL DEF Spec

(* verify_digest accepts a digest and any two numbers if they satisfy the  *)
(* equation of ECDSA and only then, on every curve, whatever denominators  *)
(* the public key has come to have and whether it is precomputed, given or *)
(* recovered, in a behaviour whose verifications and recoveries meet no    *)
(* Twin.                                                                   *)
THEOREM AcceptsExactly ==
  ASSUME CurveSound
  PROVE  Spec /\ [][TwinFreeStep]_vars => []AcceptsEquation
  <1>1. VInv => AcceptsEquation
    BY DEF VInv
  <1> QED BY <1>1, VerifierInvariant, PTL

(* The state keeps its types: above all the public key, scaled, precomputed*)
(* or recovered, stays a point of the curve and never becomes INFINITY.    *)
THEOREM EcdsaTypes ==
  ASSUME CurveSound
  PROVE  Spec /\ [][TwinFreeStep]_vars => []TypeOK
  <1>1. VInv => TypeOK
    <2> SUFFICES ASSUME VInv PROVE TypeOK
      OBVIOUS
    <2>1. /\ secret \in Secrets /\ digest \in Digests /\ phase \in {"idle", "generate", "number"}
          /\ retry \in Nat /\ left \in Nat /\ pos \in Nat \ {0}
      BY DEF VInv, EInv, GeneratorTypes
    <2>2. Residues(pub) \in CurvePoints
      BY DEF VInv, KeyInv, KeyIs
    <2>3. /\ Kinds \in Mixes /\ fast \in BOOLEAN /\ truncate \in Truncations
          /\ nonce \in 0 .. Order - 1
          /\ sig = None \/ sig \in (0 .. Order) \X (0 .. Order)
          /\ verdict \in {"none", "recovered", "True", "False", "TypeError", "BadDigestError"}
      BY DEF VInv, OtherTypes
    <2>4. \A seed \in Seeds : stream[seed] \in Seq(0 .. 2 ^ BitLength[Order] - 1)
      BY DEF VInv, StreamTypes, Bits
    <2> QED BY <2>1, <2>2, <2>3, <2>4 DEF TypeOK
  <1> QED BY <1>1, VerifierInvariant, PTL
=============================================================================
