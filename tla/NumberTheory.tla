---------------------------- MODULE NumberTheory ----------------------------
(***************************************************************************)
(* The functions of src/src/ecdsa/numbertheory.py.  Loops are recursive    *)
(* functions of the variables of the loop.                                 *)
(***************************************************************************)
EXTENDS Signatures, FiniteSetsExt

CONSTANTS SmallPrimes,  \* the list smallprimes, all primes up to its last
          PrimeBits     \* the n_bits is_prime can test: 11 .. 16384 in the code

ASSUME SmallPrimesAssumption ==
    /\ PrimeBits \subseteq Nat
    /\ SmallPrimes \in Seq(Nat) /\ Len(SmallPrimes) >= 5
    /\ \A i \in 2 .. Len(SmallPrimes) : SmallPrimes[i - 1] < SmallPrimes[i]

LastSmall == SmallPrimes[Len(SmallPrimes)]
IsSmall(n) == \E i \in 1 .. Len(SmallPrimes) : SmallPrimes[i] = n

Number(n) == [error |-> "", value |-> n]
Fails(e)  == [error |-> e, value |-> 0]

(* pow(base, exponent, modulus) of Python.                                 *)
PowMod[b \in Nat, e \in Nat, m \in Nat] ==
    IF e = 0 THEN 1 % m
    ELSE IF e % 2 = 0 THEN PowMod[(b * b) % m, e \div 2, m]
    ELSE ((b % m) * PowMod[(b * b) % m, e \div 2, m]) % m

ModularExp(base, exponent, modulus) ==
    IF exponent < 0 THEN Fails("NegativeExponentError")
    ELSE Number(PowMod[base % modulus, exponent, modulus])

----------------------------------------------------------------------------
(* Polynomials are their coefficients, of the lowest power first.          *)
PolynomialReduceMod(poly, polymod, p) ==
    LET d == Len(polymod)
        reduce[f \in Seq(Nat)] ==
          IF Len(f) < d THEN f
          ELSE LET n == Len(f) IN
               reduce[SubSeq(f, 1, n - d)
                      \o [i \in 1 .. d - 1 |-> (f[n - d + i] - (f[n] * polymod[i])) % p]]
    IN reduce[poly]

Product(m1, m2, p) ==
    [k \in 1 .. Len(m1) + Len(m2) - 1 |->
       MapThenSumSet(LAMBDA i : m1[i] * m2[k + 1 - i],
                     {i \in 1 .. Len(m1) : k + 1 - i \in 1 .. Len(m2)}) % p]

(* A mutant: the high powers are cut off, not reduced.                     *)
PolynomialMultiply(m1, m2, polymod, p) ==
    SubSeq(Product(m1, m2, p), 1, Len(polymod) - 1)

PolynomialMultiplyMod(m1, m2, polymod, p) ==
    PolynomialReduceMod(Product(m1, m2, p), polymod, p)

PolynomialExpMod(base, exponent, polymod, p) ==
    LET times(f, g) == PolynomialMultiplyMod(f, g, polymod, p)
        loop[k \in Nat, G \in Seq(Nat), s \in Seq(Nat)] ==
          IF k <= 1 THEN s
          ELSE LET H == times(G, G)
               IN loop[k \div 2, H, IF (k \div 2) % 2 = 1 THEN times(H, s) ELSE s]
    IN IF exponent = 0 THEN <<1>>
       ELSE loop[exponent, base, IF exponent % 2 = 1 THEN base ELSE <<1>>]

(* The number of times 2 divides a.                                        *)
Twos[a \in Nat] == IF a % 2 = 0 THEN 1 + Twos[a \div 2] ELSE 0

(* jacobi, for odd n > 2; JacobiError for others is left to the callers.   *)
Jacobi[b \in Nat, n \in Nat] ==
    LET a == b % n IN
    IF a <= 1 THEN a
    ELSE LET a1 == a \div 2 ^ Twos[a]
             s == IF Twos[a] % 2 = 0 \/ n % 8 \in {1, 7} THEN 1 ELSE -1
             t == IF n % 4 = 3 /\ a1 % 4 = 3 THEN -s ELSE s
         IN IF a1 = 1 THEN s ELSE t * Jacobi[n % a1, a1]

JacobiSymbol[a \in Nat, n \in Nat] ==
    IF n < 3 \/ n % 2 = 0 THEN Fails("JacobiError") ELSE Number(Jacobi[a % n, n])

(* square_root_mod_prime; for p = 1 (mod 8) a root is the constant of      *)
(* X ^ ((p + 1) / 2) modulo X^2 - b * X + a, which has no roots.           *)
SquareRootModPrime[a \in Nat, p \in Nat] ==
    LET d == PowMod[a, (p - 1) \div 4, p]
        bs == {b \in 2 .. p - 1 : Jacobi[(b * b - 4 * a) % p, p] = -1}
        b == Min(bs)
        ff == PolynomialExpMod(<<0, 1>>, (p + 1) \div 2, <<a, -b, 1>>, p)
    IN IF a = 0 \/ p = 2 THEN Number(a)
       ELSE IF JacobiSymbol[a, p].error # "" THEN JacobiSymbol[a, p]
       ELSE IF Jacobi[a, p] = -1 THEN Fails("SquareRootError")
       ELSE IF p % 4 = 3 THEN Number(PowMod[a, (p + 1) \div 4, p])
       ELSE IF p % 8 = 5
       THEN IF d = 1 THEN Number(PowMod[a, (p + 3) \div 8, p])
            ELSE IF d # p - 1 THEN Fails("AssertionError")
            ELSE Number((2 * a * PowMod[4 * a, (p - 5) \div 8, p]) % p)
       ELSE IF bs = {} THEN Fails("RuntimeError")
       ELSE IF ff[2] # 0 THEN Fails("SquareRootError")
       ELSE Number(ff[1])

----------------------------------------------------------------------------
(* gcd2                                                                    *)
Gcd[a \in Nat, b \in Nat] == IF a = 0 THEN b ELSE Gcd[b % a, a]

Lcm(a, b) == (a * b) \div Gcd[a, b]

(* inverse_mod by pow(a, -1, m).                                           *)
InverseByPow(a, m) ==
    IF a = 0 THEN Number(0)
    ELSE IF Gcd[a % m, m] # 1 THEN Fails("ValueError")
    ELSE Number(CHOOSE i \in 0 .. m - 1 : (a * i) % m = 1 % m)

(* inverse_mod of versions of Python whose pow() cannot.                   *)
Euclid[low \in Int, high \in Int, lm \in Int, hm \in Int] ==
    IF low <= 1 THEN lm
    ELSE LET r == high \div low IN Euclid[high - low * r, low, hm - lm * r, lm]

InverseByEuclid(a, m) == IF a = 0 THEN 0 ELSE Euclid[a % m, m, 1, 0] % m

(* How often d divides n, and what is left.                                *)
Times[n \in Nat, d \in Nat] == IF n > 0 /\ n % d = 0 THEN 1 + Times[n \div d, d] ELSE 0
Left(n, d) == n \div d ^ Times[n, d]

----------------------------------------------------------------------------
(* is_prime: the test of Miller and Rabin with bases drawn at random.      *)
Passes(a, n) ==
    LET s == Twos[n - 1]
        r == (n - 1) \div 2 ^ s
        square[j \in Nat, y \in Nat] ==  \* the loop: whether it ends at n - 1
          IF y = n - 1 THEN TRUE
          ELSE IF j > s - 1 THEN FALSE
          ELSE LET z == (y * y) % n IN IF z = 1 THEN FALSE ELSE square[j + 1, z]
        y == PowMod[a, r, n]
    IN y = 1 \/ square[1, y]

(* What is_prime may return: FALSE if a base tells, TRUE if one does not,  *)
(* which may be drawn each time.  There is no answer for numbers that are  *)
(* too long: it raises AssertionError, and so do its callers.              *)
IsPrime[n \in Nat] ==
    IF n <= LastSmall THEN {IsSmall(n)}
    ELSE IF Gcd[n, 2310] # 1 THEN {FALSE}
    ELSE IF 1 + BitLength[n] \notin PrimeBits THEN {}
    ELSE {Passes(SmallPrimes[i], n) : i \in 1 .. Len(SmallPrimes)}

(* next_prime, of what is_prime may say of each number.                    *)
NextPrime[start \in Nat] ==
    LET next[n \in Nat] ==
          (IF TRUE \in IsPrime[n] THEN {n} ELSE {})
            \cup (IF FALSE \in IsPrime[n] THEN next[n + 2] ELSE {})
    IN IF start < 2 THEN {2} ELSE next[start + 1 + (start % 2)]

----------------------------------------------------------------------------
(* The part of n without small primes, and its factors that are small.     *)
SmallPart[n \in Nat] ==
    SelectSeq([i \in 1 .. Len(SmallPrimes) |-> <<SmallPrimes[i], Times[n, SmallPrimes[i]]>>],
              LAMBDA f : f[2] > 0)

Rough[n \in Nat] ==
    LET rough[i \in 0 .. Len(SmallPrimes)] ==
          IF i = 0 THEN n ELSE Left(rough[i - 1], SmallPrimes[i])
    IN rough[Len(SmallPrimes)]

(* The search for divisors from d on.                                      *)
Search[n \in Nat, d \in Nat] ==
    IF n \div d < d THEN IF n > 1 THEN <<<<n, 1>>>> ELSE <<>>
    ELSE IF n % d = 0 THEN <<<<d, Times[n, d]>>>> \o Search[Left(n, d), d + 2]
    ELSE Search[n, d + 2]

(* factorization, of either answer of is_prime                             *)
Factorization[n \in Nat] ==
    LET n1 == Rough[n] IN
    IF n < 2 THEN {<<>>}
    ELSE IF n1 <= LastSmall THEN {SmallPart[n]}
    ELSE {SmallPart[n] \o (IF prime THEN <<<<n1, 1>>>> ELSE Search[n1, LastSmall + 2]) :
            prime \in IsPrime[n1]}

(* The functions of a factorization that are deprecated; they are modelled *)
(* for the one found by the search or by an is_prime that does not err.    *)
Factors[n \in Nat] ==
    LET n1 == Rough[n] IN
    IF n < 2 THEN <<>>
    ELSE SmallPart[n] \o
         (IF n1 <= LastSmall THEN <<>>
          ELSE IF IsPrime[n1] = {TRUE} THEN <<<<n1, 1>>>> ELSE Search[n1, LastSmall + 2])

ProductOf[s \in Seq(Nat)] == IF s = <<>> THEN 1 ELSE Head(s) * ProductOf[Tail(s)]

Phi[n \in Nat] ==
    LET f == Factors[n] IN
    IF n < 3 THEN 1
    ELSE ProductOf[[i \in 1 .. Len(f) |-> f[i][1] ^ (f[i][2] - 1) * (f[i][1] - 1)]]

CarmichaelOfPPower(f) ==
    IF f[1] = 2 /\ f[2] > 2 THEN 2 ^ (f[2] - 2) ELSE (f[1] - 1) * f[1] ^ (f[2] - 1)

CarmichaelOfFactorized(s) ==
    LET lcm[i \in 0 .. Len(s)] ==
          IF i = 0 THEN 1 ELSE Lcm(lcm[i - 1], CarmichaelOfPPower(s[i]))
    IN lcm[Len(s)]

Carmichael[n \in Nat] == CarmichaelOfFactorized(Factors[n])

(* order_mod; z starts as x, which is not reduced.                         *)
OrderMod[x \in Nat, m \in Nat] ==
    LET order[z \in Nat, result \in Nat] ==
          IF z = 1 THEN result ELSE order[(z * x) % m, result + 1]
    IN IF m <= 1 THEN Number(0)
       ELSE IF Gcd[x, m] # 1 THEN Fails("AssertionError")
       ELSE Number(order[x, 1])

(* largest_factor_relatively_prime, which does not end for a = 0           *)
LargestFactorRelativelyPrime[n \in Nat, m \in Nat] ==
    LET loop[a \in Nat, b \in Nat] ==
          LET d == Gcd[a, b] IN IF d <= 1 THEN a ELSE loop[Left(a, d), d]
    IN loop[n, m]

KindaOrderMod[x \in Nat, m \in Nat] == OrderMod[x, LargestFactorRelativelyPrime[m, x]]
=============================================================================
