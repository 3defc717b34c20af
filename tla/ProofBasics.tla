---------------------------- MODULE ProofBasics ----------------------------
(***************************************************************************)
(* Facts the proof modules share: induction over the naturals in the form  *)
(* of the least counterexample, division with remainder, powers of two and *)
(* the length of a number in bits.                                         *)
(***************************************************************************)
EXTENDS Integers, WellFoundedInduction, FiniteSetTheorems, TLAPS

(* A nonempty set of naturals has a least element.                         *)
LEMMA NatMin ==
  ASSUME NEW T \in SUBSET Nat, T # {}
  PROVE  \E m \in T : \A n \in T : m <= n
  <1> DEFINE R == OpToRel(<, Nat)
  <1>1. PICK m \in T : \A n \in T : ~ (<<n, m>> \in R)
    <2> HIDE DEF R
    <2>1. IsWellFoundedOn(R, Nat)
      BY NatLessThanWellFounded DEF R
    <2> QED BY <2>1, WFMin
  <1>2. ASSUME NEW n \in T PROVE ~ (n < m)
    <2>1. n < m => <<n, m>> \in R
      <3>1. <<n, m>> \in Nat \X Nat /\ <<n, m>>[1] = n /\ <<n, m>>[2] = m
        OBVIOUS
      <3> QED BY <3>1, Zenon DEF OpToRel
    <2> QED BY <1>1, <2>1
  <1>3. \A n \in T : m <= n
    BY <1>2
  <1> QED BY <1>3

(* What division yields.                                                   *)
LEMMA DivMod ==
  ASSUME NEW a \in Int, NEW n \in Nat \ {0}
  PROVE  /\ a % n \in Int /\ 0 <= a % n /\ a % n < n
         /\ a \div n \in Int /\ a = n * (a \div n) + (a % n)
  BY SMT

(* There is only one remainder.                                            *)
LEMMA RemainderUnique ==
  ASSUME NEW n \in Nat \ {0}, NEW q \in Int, NEW r \in Int, NEW q2 \in Int,
         NEW r2 \in Int, 0 <= r, r < n, 0 <= r2, r2 < n, n * q + r = n * q2 + r2
  PROVE  r = r2
  <1>1. n * (q - q2) = r2 - r
    BY SMT
  <1>2. CASE q = q2
    BY <1>2
  <1>3. CASE q - q2 >= 1
    <2>1. n * (q - q2) >= n
      BY <1>3, SMT
    <2> QED BY <2>1, <1>1
  <1>4. CASE q2 - q >= 1
    <2>1. n * (q2 - q) >= n
      BY <1>4, SMT
    <2> QED BY <2>1, <1>1, SMT
  <1> QED BY <1>2, <1>3, <1>4

(* Numbers that differ by a multiple of n have the same remainder.         *)
LEMMA SameRemainder ==
  ASSUME NEW n \in Nat \ {0}, NEW a \in Int, NEW b \in Int, NEW q \in Int,
         a = b + q * n
  PROVE  a % n = b % n
  <1>1. /\ a = n * (a \div n) + (a % n) /\ 0 <= a % n /\ a % n < n
        /\ a % n \in Int /\ a \div n \in Int
    BY DivMod
  <1>2. /\ b = n * (b \div n) + (b % n) /\ 0 <= b % n /\ b % n < n
        /\ b % n \in Int /\ b \div n \in Int
    BY DivMod
  <1>3. a = n * ((b \div n) + q) + (b % n)
    BY <1>2, SMT
  <1>4. (b \div n) + q \in Int
    BY <1>2
  <1>5. n * (a \div n) + (a % n) = n * ((b \div n) + q) + (b % n)
    BY <1>1, <1>3
  <1> QED BY <1>1, <1>2, <1>4, <1>5, RemainderUnique

LEMMA RemainderOfSmall ==
  ASSUME NEW n \in Nat \ {0}, NEW a \in Nat, a < n
  PROVE  a % n = a
  <1>1. /\ a % n \in Int /\ 0 <= a % n /\ a % n < n
        /\ a \div n \in Int /\ a = n * (a \div n) + (a % n)
    BY DivMod
  <1>2. n * (a \div n) + (a % n) = n * 0 + a
    BY <1>1
  <1> QED BY <1>1, <1>2, RemainderUnique

(* Dividing twice.                                                         *)
LEMMA DivTwice ==
  ASSUME NEW n \in Nat, NEW x \in Nat \ {0}, NEW y \in Nat \ {0}
  PROVE  (n \div x) \div y = n \div (x * y)
  <1> DEFINE q == n \div x  r == n % x  q2 == q \div y  r2 == q % y
             z == x * y     q3 == n \div z  r3 == n % z
  <1>1. n = x * q + r /\ q \in Int /\ r \in Int /\ 0 <= r /\ r < x
    BY DivMod
  <1> HIDE DEF q, r
  <1>2. q = y * q2 + r2 /\ q2 \in Int /\ r2 \in Int /\ 0 <= r2 /\ r2 < y
    BY <1>1, DivMod
  <1> HIDE DEF q2, r2
  <1>3. z \in Nat \ {0}
    OBVIOUS
  <1>4. n = z * q3 + r3 /\ q3 \in Int /\ r3 \in Int /\ 0 <= r3 /\ r3 < z
    <2> HIDE DEF z
    <2> QED BY <1>3, DivMod
  <1> HIDE DEF q3, r3
  <1>5. x * q = z * q2 + x * r2
    <2>1. x * q = x * (y * q2 + r2)
      BY <1>2
    <2>2. x * (y * q2 + r2) = (x * y) * q2 + x * r2
      BY <1>2
    <2> QED BY <2>1, <2>2
  <1>6. 0 <= x * r2 /\ x * r2 <= x * (y - 1) /\ x * (y - 1) = z - x /\ x * r2 \in Int
    BY <1>2
  <1>7. n = z * q2 + (x * r2 + r) /\ x * r2 + r \in Int /\ 0 <= x * r2 + r /\ x * r2 + r < z
    <2> HIDE DEF z
    <2> QED BY <1>1, <1>2, <1>3, <1>5, <1>6
  <1>8. r3 = x * r2 + r
    <2> HIDE DEF z
    <2> QED BY <1>2, <1>3, <1>4, <1>7, RemainderUnique
  <1>9. z * q2 = z * q3 /\ q2 = q3
    <2> HIDE DEF z
    <2>1. z * q2 = z * q3
      BY <1>2, <1>3, <1>4, <1>7, <1>8
    <2>2. z * (q2 - q3) = 0
      BY <2>1, <1>2, <1>3, <1>4
    <2>3. q2 - q3 = 0
      BY <2>2, <1>2, <1>3, <1>4
    <2> QED BY <2>1, <2>3, <1>2, <1>4
  <1> QED BY <1>9 DEF q2, q, q3

----------------------------------------------------------------------------
(* What is no multiple of a prime has an inverse: the least positive sum   *)
(* of multiples of both is 1.                                              *)
NoDivisor(n) == n \in Nat /\ n > 1 /\ \A d \in 2 .. n - 1 : n % d # 0

SumsOf(a, n) == {m \in Nat \ {0} : \E j, l \in Int : m = j * a + l * n}

LEMMA LeastSumDivides ==
  ASSUME NEW a \in Int, NEW n \in Nat \ {0}, NEW m \in SumsOf(a, n),
         \A k \in SumsOf(a, n) : m <= k, NEW b \in Int,
         \E j, l \in Int : b = j * a + l * n
  PROVE  b % m = 0
  <1>1. PICK j, l \in Int : m = j * a + l * n
    BY DEF SumsOf
  <1>2. PICK j2, l2 \in Int : b = j2 * a + l2 * n
    OBVIOUS
  <1>3. m \in Nat \ {0}
    BY DEF SumsOf
  <1> DEFINE q == b \div m  r == b % m
  <1>4. r \in Int /\ 0 <= r /\ r < m /\ q \in Int /\ b = m * q + r
    BY <1>3, DivMod
  <1> HIDE DEF q, r
  <1>5. r = (j2 - j * q) * a + (l2 - l * q) * n
    <2>1. m * q = (j * a + l * n) * q
      BY <1>1
    <2>2. (j * a + l * n) * q = (j * q) * a + (l * q) * n
      BY <1>4
    <2>3. (j2 - j * q) * a + (l2 - l * q) * n = (j2 * a + l2 * n) - ((j * q) * a + (l * q) * n)
      BY <1>4
    <2>4. r = b - m * q
      BY <1>3, <1>4
    <2> QED BY <1>2, <2>1, <2>2, <2>3, <2>4
  <1>6. j2 - j * q \in Int /\ l2 - l * q \in Int
    BY <1>4
  <1>7. r # 0 => r \in SumsOf(a, n)
    <2>1. \E j3, l3 \in Int : r = j3 * a + l3 * n
      BY <1>5, <1>6, Zenon
    <2>2. r # 0 => r \in Nat \ {0}
      BY <1>4
    <2> QED BY <2>1, <2>2 DEF SumsOf
  <1>8. r = 0
    BY <1>3, <1>4, <1>7
  <1> QED BY <1>8 DEF r

LEMMA InverseExists ==
  ASSUME NEW n, NoDivisor(n), NEW a \in Int, a % n # 0
  PROVE  \E i \in 0 .. n - 1 : (i * a) % n = 1
  <1>1. n \in Nat \ {0} /\ n > 1 /\ \A d \in 2 .. n - 1 : n % d # 0
    BY DEF NoDivisor
  <1>2. n = 0 * a + 1 * n /\ a = 1 * a + 0 * n
    BY <1>1
  <1>3. n \in SumsOf(a, n)
    BY <1>1, <1>2, 0 \in Int, 1 \in Int DEF SumsOf
  <1>4. PICK m \in SumsOf(a, n) : \A k \in SumsOf(a, n) : m <= k
    BY <1>3, NatMin DEF SumsOf
  <1>5. m \in Nat \ {0} /\ m <= n
    BY <1>3, <1>4 DEF SumsOf
  <1>6. n % m = 0
    <2>1. \E j, l \in Int : n = j * a + l * n
      BY <1>2, 0 \in Int, 1 \in Int, Zenon
    <2>2. n \in Int
      BY <1>1
    <2> QED BY <1>1, <1>4, <2>1, <2>2, LeastSumDivides, Zenon
  <1>7. a % m = 0
    <2>1. \E j, l \in Int : a = j * a + l * n
      BY <1>1, <1>2, 0 \in Int, 1 \in Int
    <2> QED BY <1>1, <1>4, <2>1, LeastSumDivides, Zenon
  <1>8. m = 1
    BY <1>1, <1>5, <1>6, <1>7
  <1>9. PICK j, l \in Int : 1 = j * a + l * n
    BY <1>4, <1>8 DEF SumsOf
  <1> DEFINE i == j % n  q == j \div n
  <1>10. i \in Int /\ 0 <= i /\ i < n /\ q \in Int /\ j = n * q + i
    BY <1>1, DivMod
  <1> HIDE DEF i, q
  <1>11. i * a = 1 + (- l - q * a) * n
    <2>1. j * a = (n * q) * a + i * a
      BY <1>1, <1>10
    <2>2. (n * q) * a = (q * a) * n
      BY <1>1, <1>10
    <2>3. (- l - q * a) * n = - (l * n) - (q * a) * n
      BY <1>1, <1>9, <1>10
    <2>4. /\ l * n \in Int /\ (q * a) * n \in Int /\ i * a \in Int /\ j * a \in Int
          /\ (n * q) * a \in Int
      BY <1>1, <1>10
    <2> QED BY <1>9, <2>1, <2>2, <2>3, <2>4
  <1>12. (i * a) % n = 1 % n
    BY <1>1, <1>10, <1>11, SameRemainder, - l - q * a \in Int, i * a \in Int, 1 \in Int
  <1>13. 1 % n = 1
    BY <1>1, RemainderOfSmall
  <1>14. i \in 0 .. n - 1
    BY <1>1, <1>10
  <1> QED BY <1>12, <1>13, <1>14, Zenon

LEMMA MultipleOf ==
  ASSUME NEW n \in Nat \ {0}, NEW a \in Int, NEW q \in Int, a = q * n
  PROVE  a % n = 0
  <1>1. a = 0 + q * n
    OBVIOUS
  <1>2. a % n = 0 % n
    BY <1>1, SameRemainder, 0 \in Int
  <1> QED BY <1>2, RemainderOfSmall

(* A product that a prime divides has a factor it divides.                 *)
LEMMA PrimeDivides ==
  ASSUME NEW n, NoDivisor(n), NEW a \in Int, NEW b \in Int, (a * b) % n = 0
  PROVE  a % n = 0 \/ b % n = 0
  <1> SUFFICES ASSUME b % n # 0 PROVE a % n = 0
    OBVIOUS
  <1>1. n \in Nat \ {0}
    BY DEF NoDivisor
  <1>2. PICK i \in 0 .. n - 1 : (i * b) % n = 1
    BY InverseExists
  <1> DEFINE q == (i * b) \div n  q2 == (a * b) \div n
  <1>3. q \in Int /\ i * b = n * q + 1
    <2>1. i \in Int /\ i * b \in Int
      BY <1>1, <1>2
    <2> QED BY <1>1, <1>2, <2>1, DivMod
  <1>4. q2 \in Int /\ a * b = n * q2
    <2>1. a * b \in Int
      OBVIOUS
    <2>2. q2 \in Int /\ a * b = n * q2 + ((a * b) % n)
      BY <1>1, <2>1, DivMod
    <2> QED BY <1>1, <2>2
  <1> HIDE DEF q, q2
  <1>5. i \in Int
    BY <1>1, <1>2
  <1>6. a * (i * b) = i * (a * b)
    BY <1>5
  <1>7. a * (n * q + 1) = i * (n * q2)
    BY <1>3, <1>4, <1>6
  <1>8. a * (n * q + 1) = (a * q) * n + a /\ i * (n * q2) = (i * q2) * n
    BY <1>1, <1>3, <1>4, <1>5
  <1>9. a * q \in Int /\ i * q2 \in Int /\ (a * q) * n \in Int /\ (i * q2) * n \in Int
    BY <1>1, <1>3, <1>4, <1>5
  <1>10. a = (i * q2 - a * q) * n
    <2>1. (i * q2 - a * q) * n = (i * q2) * n - (a * q) * n
      BY <1>1, <1>9
    <2> QED BY <1>7, <1>8, <1>9, <2>1
  <1>11. i * q2 - a * q \in Int
    BY <1>9
  <1>12. a % n = 0
    <2> DEFINE q3 == i * q2 - a * q
    <2>1. a = q3 * n /\ q3 \in Int
      BY <1>10, <1>11, Zenon DEF q3
    <2> HIDE DEF q3
    <2> QED BY <1>1, <2>1, MultipleOf, Zenon
  <1> QED BY <1>12

(* A factor may be reduced before the product is.                          *)
LEMMA ReduceFactor ==
  ASSUME NEW n \in Nat \ {0}, NEW a \in Int, NEW b \in Int
  PROVE  ((a % n) * b) % n = (a * b) % n
  <1> DEFINE q == a \div n  r == a % n
  <1>1. a = n * q + r /\ q \in Int /\ r \in Int
    BY DivMod
  <1> HIDE DEF q, r
  <1>2. a * b = r * b + (q * b) * n
    <2>1. a * b = (n * q + r) * b
      BY <1>1
    <2>2. (n * q + r) * b = r * b + (q * b) * n
      BY <1>1
    <2> QED BY <2>1, <2>2
  <1>3. a * b \in Int /\ r * b \in Int /\ q * b \in Int
    BY <1>1
  <1>4. (a * b) % n = (r * b) % n
    BY <1>2, <1>3, SameRemainder
  <1> QED BY <1>4 DEF r

(* So may a term of a sum.                                                 *)
LEMMA ReduceTerm ==
  ASSUME NEW n \in Nat \ {0}, NEW a \in Int, NEW b \in Int
  PROVE  ((a % n) + b) % n = (a + b) % n
  <1> DEFINE q == a \div n  r == a % n
  <1>1. a = n * q + r /\ q \in Int /\ r \in Int
    BY DivMod
  <1> HIDE DEF q, r
  <1>2. n * q = q * n /\ n * q \in Int
    BY <1>1
  <1>3. a + b = (r + b) + q * n
    BY <1>1, <1>2
  <1>4. a + b \in Int /\ r + b \in Int
    BY <1>1
  <1>5. (a + b) % n = (r + b) % n
    BY <1>1, <1>3, <1>4, SameRemainder
  <1> QED BY <1>5 DEF r

(* Two numbers have the same remainder when their difference has none.     *)
LEMMA DifferenceZero ==
  ASSUME NEW n \in Nat \ {0}, NEW a \in Int, NEW b \in Int
  PROVE  (a - b) % n = 0 <=> a % n = b % n
  <1>1. ASSUME (a - b) % n = 0 PROVE a % n = b % n
    <2> DEFINE q == (a - b) \div n
    <2>1. a - b \in Int
      OBVIOUS
    <2>2. a - b = n * q + ((a - b) % n) /\ q \in Int
      BY <2>1, DivMod
    <2> HIDE DEF q
    <2>3. n * q = q * n /\ n * q \in Int
      BY <2>2
    <2>4. a = b + q * n
      BY <1>1, <2>2, <2>3
    <2> QED BY <2>2, <2>4, SameRemainder
  <1>2. ASSUME a % n = b % n PROVE (a - b) % n = 0
    <2> DEFINE q == a \div n  q2 == b \div n
    <2>1. a = n * q + (a % n) /\ b = n * q2 + (b % n) /\ q \in Int /\ q2 \in Int /\ a % n \in Int
      BY DivMod
    <2> HIDE DEF q, q2
    <2>2. (q - q2) * n = n * q - n * q2 /\ n * q \in Int /\ n * q2 \in Int
      BY <2>1
    <2>3. a - b = 0 + (q - q2) * n
      BY <1>2, <2>1, <2>2
    <2>4. q - q2 \in Int /\ a - b \in Int
      BY <2>1
    <2>5. (a - b) % n = 0 % n
      <3> DEFINE d == a - b  q3 == q - q2
      <3>1. d = 0 + q3 * n /\ q3 \in Int /\ d \in Int
        BY <2>3, <2>4
      <3> HIDE DEF d, q3
      <3>2. d % n = 0 % n
        BY <3>1, SameRemainder, 0 \in Int
      <3> QED BY <3>2 DEF d
    <2> QED BY <2>5, RemainderOfSmall
  <1> QED BY <1>1, <1>2

----------------------------------------------------------------------------
(* Powers of two, as the numbers of subsets: the provers know no law of    *)
(* exponents.                                                              *)
LEMMA SubsetsOfInterval ==
  ASSUME NEW n \in Nat
  PROVE  IsFiniteSet(SUBSET (1 .. n)) /\ Cardinality(SUBSET (1 .. n)) = 2 ^ n
  <1>1. IsFiniteSet(1 .. n) /\ Cardinality(1 .. n) = n
    <2>1. 1 > n => n = 0
      OBVIOUS
    <2>2. IsFiniteSet(1 .. n) /\ Cardinality(1 .. n) = IF 1 > n THEN 0 ELSE n - 1 + 1
      BY FS_Interval
    <2> QED BY <2>1, <2>2
  <1> QED BY <1>1, FS_SUBSET

LEMMA PowerPositive == ASSUME NEW n \in Nat PROVE 2 ^ n \in Nat \ {0}
  <1>1. IsFiniteSet(SUBSET (1 .. n)) /\ Cardinality(SUBSET (1 .. n)) = 2 ^ n
    BY SubsetsOfInterval
  <1>2. 2 ^ n \in Nat
    BY <1>1, FS_CardinalityType
  <1>3. SUBSET (1 .. n) # {}
    OBVIOUS
  <1>4. 2 ^ n # 0
    BY <1>1, <1>3, FS_EmptySet
  <1> QED BY <1>2, <1>4

LEMMA PairOf ==
  ASSUME NEW A, NEW B, NEW p \in A \X B
  PROVE  p[1] \in A /\ p[2] \in B /\ p = <<p[1], p[2]>>
  OBVIOUS

LEMMA PairIn ==
  ASSUME NEW A, NEW B, NEW a \in A, NEW b \in B
  PROVE  <<a, b>> \in A \X B /\ <<a, b>>[1] = a /\ <<a, b>>[2] = b
  OBVIOUS

(* SUBSET S, under a name that keeps its definition from the provers.      *)
IsPowerSet(A, S) == \A s : s \in A <=> s \subseteq S

(* A subset of a union of disjoint sets is a subset of each.               *)
LEMMA SubsetsOfUnion ==
  ASSUME NEW S, NEW T, S \cap T = {}, NEW A, NEW B,
         IsPowerSet(A, S), IsPowerSet(B, T)
  PROVE  ExistsBijection(A \X B, SUBSET (S \cup T))
  <1> DEFINE D == A \X B
             f == [p \in D |-> p[1] \cup p[2]]
  <1>1. ASSUME NEW p \in D
        PROVE  p[1] \in A /\ p[2] \in B /\ p = <<p[1], p[2]>>
    BY PairOf
  <1>2. ASSUME NEW s \in A, NEW t \in B
        PROVE  <<s, t>> \in D /\ f[<<s, t>>] = s \cup t
    <2>1. <<s, t>> \in D /\ <<s, t>>[1] = s /\ <<s, t>>[2] = t
      BY PairIn
    <2> HIDE DEF D
    <2>2. f[<<s, t>>] = <<s, t>>[1] \cup <<s, t>>[2]
      BY <2>1, Zenon
    <2> QED BY <2>1, <2>2
  <1>3. ASSUME NEW p \in D PROVE f[p] = p[1] \cup p[2]
    OBVIOUS
  <1>4. f \in [D -> SUBSET (S \cup T)]
    <2>1. \A p \in D : p[1] \cup p[2] \in SUBSET (S \cup T)
      BY <1>1 DEF IsPowerSet
    <2> HIDE DEF D
    <2> QED BY <2>1
  <1> HIDE DEF D, f
  <1>5. ASSUME NEW p \in D, NEW q \in D, f[p] = f[q] PROVE p = q
    <2>1. p[1] \cup p[2] = q[1] \cup q[2]
      BY <1>3, <1>5
    <2>2. p[1] \in A /\ p[2] \in B /\ q[1] \in A /\ q[2] \in B
      BY <1>1
    <2>3. \A a, c \in A, b, d \in B : a \cup b = c \cup d => a = c /\ b = d
      <3> SUFFICES ASSUME NEW a \in A, NEW c \in A, NEW b \in B, NEW d \in B,
                          a \cup b = c \cup d
                   PROVE  a = c /\ b = d
        OBVIOUS
      <3>1. /\ a \in SUBSET S /\ c \in SUBSET S
            /\ b \in SUBSET T /\ d \in SUBSET T
        BY DEF IsPowerSet
      <3>2. a = (a \cup b) \cap S /\ c = (c \cup d) \cap S
        BY <3>1
      <3>3. b = (a \cup b) \cap T /\ d = (c \cup d) \cap T
        BY <3>1
      <3> QED BY <3>2, <3>3
    <2>4. p = <<p[1], p[2]>> /\ q = <<q[1], q[2]>>
      BY <1>1
    <2> QED BY <2>1, <2>2, <2>3, <2>4
  <1>6. ASSUME NEW u \in SUBSET (S \cup T) PROVE \E p \in D : f[p] = u
    <2>1. u \cap S \in A /\ u \cap T \in B
      BY DEF IsPowerSet
    <2>2. <<u \cap S, u \cap T>> \in D /\ f[<<u \cap S, u \cap T>>] = (u \cap S) \cup (u \cap T)
      BY <1>2, <2>1
    <2>3. (u \cap S) \cup (u \cap T) = u
      OBVIOUS
    <2> QED BY <2>2, <2>3
  <1>7. DOMAIN f = D
    BY <1>4
  <1>8. IsInjective(f)
    BY <1>5, <1>7 DEF IsInjective
  <1>9. f \in Bijection(D, SUBSET (S \cup T))
    BY <1>4, <1>6, <1>8 DEF Bijection, Injection, Surjection
  <1> QED BY <1>9 DEF ExistsBijection, D

LEMMA PowerSum ==
  ASSUME NEW a \in Nat, NEW b \in Nat
  PROVE  2 ^ (a + b) = 2 ^ a * 2 ^ b
  <1> DEFINE Low  == 1 .. a
             High == a + 1 .. a + b
             A    == SUBSET Low
             B    == SUBSET High
  <1>1. IsFiniteSet(High) /\ Cardinality(High) = b
    <2>1. IsFiniteSet(High) /\ Cardinality(High) = IF a + 1 > a + b THEN 0 ELSE a + b - (a + 1) + 1
      BY FS_Interval
    <2> QED BY <2>1
  <1>2. IsFiniteSet(A) /\ Cardinality(A) = 2 ^ a
    BY SubsetsOfInterval
  <1>3. Low \cup High = 1 .. a + b /\ Low \cap High = {}
    OBVIOUS
  <1> HIDE DEF Low, High
  <1>4. IsFiniteSet(B) /\ Cardinality(B) = 2 ^ b
    BY <1>1, FS_SUBSET
  <1>5. IsPowerSet(A, Low) /\ IsPowerSet(B, High)
    BY DEF IsPowerSet
  <1>6. IsFiniteSet(SUBSET (Low \cup High)) /\ Cardinality(SUBSET (Low \cup High)) = 2 ^ (a + b)
    <2>1. a + b \in Nat
      OBVIOUS
    <2> QED BY <1>3, <2>1, SubsetsOfInterval
  <1> DEFINE U == SUBSET (Low \cup High)
  <1>7. IsFiniteSet(U) /\ Cardinality(U) = 2 ^ (a + b)
    BY <1>6
  <1> HIDE DEF A, B
  <1>8. ExistsBijection(A \X B, U)
    BY <1>3, <1>5, SubsetsOfUnion
  <1> HIDE DEF U
  <1>9. IsFiniteSet(A \X B) /\ Cardinality(A \X B) = Cardinality(A) * Cardinality(B)
    BY <1>2, <1>4, FS_Product
  <1>10. Cardinality(U) = Cardinality(A \X B)
    BY <1>8, <1>9, FS_Bijection
  <1> QED BY <1>2, <1>4, <1>7, <1>9, <1>10

LEMMA PowerZero == 2 ^ 0 = 1 /\ 2 ^ 1 = 2
  OBVIOUS

LEMMA PowerNext == ASSUME NEW n \in Nat PROVE 2 ^ (n + 1) = 2 * 2 ^ n
  <1>1. 2 ^ (n + 1) = 2 ^ n * 2 ^ 1
    BY PowerSum
  <1> QED BY <1>1, PowerZero, PowerPositive

LEMMA PowerMonotone ==
  ASSUME NEW a \in Nat, NEW b \in Nat, a <= b PROVE 2 ^ a <= 2 ^ b
  <1>1. b - a \in Nat /\ a + (b - a) = b
    OBVIOUS
  <1>2. 2 ^ b = 2 ^ a * 2 ^ (b - a)
    BY <1>1, PowerSum
  <1>3. 2 ^ a \in Nat \ {0} /\ 2 ^ (b - a) \in Nat \ {0}
    BY <1>1, PowerPositive
  <1> QED BY <1>2, <1>3, SMT

----------------------------------------------------------------------------
(* The recursive definition of the length of a number in bits has a        *)
(* solution, which is built from the solutions below every bound.          *)
Halves(f, n) == f = [m \in 0 .. n |-> IF m <= 1 THEN 1 ELSE 1 + f[m \div 2]]

LEMMA HalfSmaller ==
  ASSUME NEW m \in Nat, m > 1
  PROVE  m \div 2 \in Nat /\ m \div 2 < m /\ m \div 2 >= 1 /\ m >= 2 * (m \div 2) /\ m < 2 * (m \div 2) + 2
  OBVIOUS

LEMMA HalvesAgree ==
  ASSUME NEW n \in Nat, NEW k \in Nat, NEW f, NEW g, Halves(f, n), Halves(g, k),
         NEW m \in Nat, m <= n, m <= k
  PROVE  f[m] = g[m]
  <1> DEFINE T == {i \in Nat : i <= n /\ i <= k /\ f[i] # g[i]}
  <1>1. \A i \in 0 .. n : f[i] = IF i <= 1 THEN 1 ELSE 1 + f[i \div 2]
    BY Zenon DEF Halves
  <1>2. \A i \in 0 .. k : g[i] = IF i <= 1 THEN 1 ELSE 1 + g[i \div 2]
    BY Zenon DEF Halves
  <1>3. CASE T = {}
    BY <1>3
  <1>4. CASE T # {}
    <2>1. PICK i \in T : \A j \in T : i <= j
      <3>1. T \in SUBSET Nat
        OBVIOUS
      <3> HIDE DEF T
      <3> QED BY <1>4, <3>1, NatMin
    <2>2. i \in 0 .. n /\ i \in 0 .. k /\ f[i] # g[i]
      OBVIOUS
    <2>3. i > 1
      BY <1>1, <1>2, <2>2
    <2>4. i \div 2 \in Nat /\ i \div 2 < i /\ i \div 2 \notin T
      BY <2>1, <2>3, HalfSmaller
    <2>5. f[i \div 2] = g[i \div 2]
      BY <2>2, <2>4
    <2>6. f[i] = 1 + f[i \div 2] /\ g[i] = 1 + g[i \div 2]
      BY <1>1, <1>2, <2>2, <2>3
    <2> QED BY <2>2, <2>5, <2>6
  <1> QED BY <1>3, <1>4

LEMMA HalvesExist == \A n \in Nat : \E f : Halves(f, n)
  <1> DEFINE T == {n \in Nat : ~ \E f : Halves(f, n)}
  <1>1. CASE T = {}
    BY <1>1
  <1>2. CASE T # {}
    <2>1. PICK n \in T : \A j \in T : n <= j
      <3>1. T \in SUBSET Nat
        OBVIOUS
      <3> HIDE DEF T
      <3> QED BY <1>2, <3>1, NatMin
    <2>2. n \in Nat /\ ~ \E f : Halves(f, n)
      OBVIOUS
    <2>3. \E f : Halves(f, n)
      <3>1. CASE n = 0
        <4> DEFINE f == [m \in 0 .. n |-> 1]
        <4>1. f = [m \in 0 .. n |-> IF m <= 1 THEN 1 ELSE 1 + f[m \div 2]]
          BY <3>1
        <4>2. Halves(f, n)
          BY <4>1 DEF Halves
        <4> QED BY <4>2
      <3>2. CASE n > 0
        <4>1. n - 1 \in Nat /\ n - 1 \notin T
          BY <2>1, <2>2, <3>2
        <4>2. PICK g : Halves(g, n - 1)
          BY <4>1
        <4> DEFINE f == [m \in 0 .. n |-> IF m <= 1 THEN 1 ELSE 1 + g[m \div 2]]
        <4>3. \A m \in 0 .. n - 1 : g[m] = IF m <= 1 THEN 1 ELSE 1 + g[m \div 2]
          BY <4>2, Zenon DEF Halves
        <4>4. \A m \in 0 .. n : f[m] = IF m <= 1 THEN 1 ELSE 1 + g[m \div 2]
          OBVIOUS
        <4> HIDE DEF f
        <4>5. ASSUME NEW m \in 0 .. n
              PROVE  (IF m <= 1 THEN 1 ELSE 1 + g[m \div 2])
                     = (IF m <= 1 THEN 1 ELSE 1 + f[m \div 2])
          <5>1. CASE m <= 1
            BY <5>1
          <5>2. CASE m > 1
            <6>1. m \div 2 \in 0 .. n - 1 /\ m \div 2 \in 0 .. n
              BY <5>2, <2>2, HalfSmaller
            <6> QED BY <6>1, <4>3, <4>4
          <5> QED BY <5>1, <5>2
        <4>6. f = [m \in 0 .. n |-> IF m <= 1 THEN 1 ELSE 1 + f[m \div 2]]
          BY <4>5 DEF f
        <4> QED BY <4>6 DEF Halves
      <3> QED BY <2>2, <3>1, <3>2
    <2> QED BY <2>2, <2>3
  <1> QED BY <1>1, <1>2

LEMMA BitLengthExists ==
  \E f : f = [n \in Nat |-> IF n <= 1 THEN 1 ELSE 1 + f[n \div 2]]
  <1> DEFINE H(n) == CHOOSE f : Halves(f, n)
             F == [n \in Nat |-> H(n)[n]]
  <1>1. \A n \in Nat : Halves(H(n), n)
    BY HalvesExist
  <1>2. \A n \in Nat : F[n] = H(n)[n]
    OBVIOUS
  <1> HIDE DEF H
  <1>3. ASSUME NEW n \in Nat
        PROVE  H(n)[n] = IF n <= 1 THEN 1 ELSE 1 + F[n \div 2]
    <2>1. H(n)[n] = IF n <= 1 THEN 1 ELSE 1 + H(n)[n \div 2]
      <3>1. n \in 0 .. n
        OBVIOUS
      <3> QED BY <1>1, <3>1, Zenon DEF Halves
    <2>2. CASE n <= 1
      BY <2>1, <2>2
    <2>3. CASE n > 1
      <3>1. n \div 2 \in Nat /\ n \div 2 <= n
        BY <2>3, HalfSmaller
      <3>2. H(n)[n \div 2] = H(n \div 2)[n \div 2]
        BY <1>1, <3>1, HalvesAgree
      <3> QED BY <2>1, <2>3, <3>1, <3>2, <1>2
    <2> QED BY <2>2, <2>3
  <1>4. F = [n \in Nat |-> IF n <= 1 THEN 1 ELSE 1 + F[n \div 2]]
    BY <1>3
  <1> HIDE DEF F
  <1>5. \E f : f = [n \in Nat |-> IF n <= 1 THEN 1 ELSE 1 + f[n \div 2]]
    BY <1>4
  <1> QED BY <1>5

(* The first power of two above a number.                                  *)
LEMMA BitLengthIs ==
  ASSUME NEW L, L = [m \in Nat |-> IF m <= 1 THEN 1 ELSE 1 + L[m \div 2]],
         NEW n \in Nat
  PROVE  /\ L[n] \in Nat \ {0} /\ n < 2 ^ L[n]
         /\ n > 0 => 2 ^ (L[n] - 1) <= n
  <1> DEFINE Good(i) == /\ L[i] \in Nat \ {0} /\ i < 2 ^ L[i]
                        /\ i > 0 => 2 ^ (L[i] - 1) <= i
             T == {i \in Nat : ~ Good(i)}
  <1>1. \A i \in Nat : L[i] = IF i <= 1 THEN 1 ELSE 1 + L[i \div 2]
    BY Zenon
  <1>2. CASE T = {}
    BY <1>2
  <1>3. CASE T # {}
    <2>1. PICK i \in T : \A j \in T : i <= j
      <3>1. T \in SUBSET Nat
        OBVIOUS
      <3> HIDE DEF T
      <3> QED BY <1>3, <3>1, NatMin
    <2>2. i \in Nat /\ ~ Good(i)
      OBVIOUS
    <2>3. CASE i <= 1
      <3>1. L[i] = 1
        BY <1>1, <2>2, <2>3
      <3> QED BY <2>2, <2>3, <3>1, PowerZero
    <2>4. CASE i > 1
      <3> DEFINE h == i \div 2  b == L[h]
      <3>1. h \in Nat /\ h < i /\ h >= 1 /\ i >= 2 * h /\ i < 2 * h + 2
        BY <2>2, <2>4, HalfSmaller
      <3>2. h \notin T
        BY <2>1, <2>2, <3>1
      <3>3. Good(h)
        BY <3>1, <3>2
      <3>4. L[i] = 1 + b
        BY <1>1, <2>2, <2>4
      <3> HIDE DEF h
      <3>5. b \in Nat \ {0} /\ h < 2 ^ b /\ 2 ^ (b - 1) <= h
        BY <3>1, <3>3
      <3> HIDE DEF b
      <3>6. 2 ^ (b + 1) = 2 * 2 ^ b /\ 2 ^ (b - 1 + 1) = 2 * 2 ^ (b - 1)
        BY <3>5, PowerNext, b - 1 \in Nat
      <3>7. b - 1 + 1 = b /\ 1 + b - 1 = b /\ 2 ^ b \in Nat /\ 2 ^ (b - 1) \in Nat
        BY <3>5, PowerPositive
      <3>8. i < 2 ^ (b + 1) /\ 2 ^ b <= i
        BY <3>1, <3>5, <3>6, <3>7, <2>2
      <3>9. Good(i)
        BY <3>4, <3>5, <3>7, <3>8
      <3> QED BY <2>2, <3>9
    <2> QED BY <2>2, <2>3, <2>4
  <1> QED BY <1>2, <1>3

----------------------------------------------------------------------------
(* A function that is defined by recursion exists, if every argument leads *)
(* to a smaller one: g[d] is computed by step from d and the value at      *)
(* next[d], or is base[d] when d is done.  It is put together from its     *)
(* restrictions to the arguments below a size.                             *)
Below(D, size, n) == {d \in D : size[d] < n}

PartOf(f, D, S, Done, next, size, base, step, n) ==
    /\ f \in [Below(D, size, n) -> S]
    /\ \A d \in Below(D, size, n) :
         f[d] = IF d \in Done THEN base[d] ELSE step[<<d, f[next[d]]>>]

LEMMA PartsAgree ==
  ASSUME NEW D, NEW S, NEW Done, NEW next \in [D -> D], NEW size \in [D -> Nat],
         NEW base, NEW step, \A d \in D : d \notin Done => size[next[d]] < size[d],
         NEW f, NEW g, NEW m \in Nat, NEW n \in Nat,
         PartOf(f, D, S, Done, next, size, base, step, m),
         PartOf(g, D, S, Done, next, size, base, step, n),
         NEW d \in D, size[d] < m, size[d] < n
  PROVE  f[d] = g[d]
  <1> DEFINE T == {i \in Nat : \E e \in D : size[e] = i /\ i < m /\ i < n /\ f[e] # g[e]}
  <1>1. CASE T = {}
    <2>1. size[d] \in Nat
      OBVIOUS
    <2> QED BY <1>1, <2>1
  <1>2. CASE T # {}
    <2>1. PICK i \in T : \A j \in T : i <= j
      <3>1. T \in SUBSET Nat
        OBVIOUS
      <3> HIDE DEF T
      <3> QED BY <1>2, <3>1, NatMin
    <2>2. PICK e \in D : size[e] = i /\ i < m /\ i < n /\ f[e] # g[e]
      OBVIOUS
    <2>3. e \in Below(D, size, m) /\ e \in Below(D, size, n)
      BY <2>2 DEF Below
    <2>4. /\ f[e] = IF e \in Done THEN base[e] ELSE step[<<e, f[next[e]]>>]
          /\ g[e] = IF e \in Done THEN base[e] ELSE step[<<e, g[next[e]]>>]
      BY <2>3 DEF PartOf
    <2>5. e \notin Done
      BY <2>2, <2>4
    <2>6. next[e] \in D /\ size[next[e]] \in Nat /\ size[next[e]] < i /\ i \in Nat
      BY <2>2, <2>5
    <2>7. size[next[e]] \notin T
      <3> HIDE DEF T
      <3> QED BY <2>1, <2>6
    <2>8. f[next[e]] = g[next[e]]
      BY <2>2, <2>6, <2>7
    <2> QED BY <2>2, <2>4, <2>5, <2>8
  <1> QED BY <1>1, <1>2

LEMMA PartsExist ==
  ASSUME NEW D, NEW S, NEW Done, NEW next \in [D -> D], NEW size \in [D -> Nat],
         NEW base \in [D -> S], NEW step \in [D \X S -> S],
         \A d \in D : d \notin Done => size[next[d]] < size[d]
  PROVE  \A n \in Nat : \E f : PartOf(f, D, S, Done, next, size, base, step, n)
  <1> DEFINE Part(f, n) == PartOf(f, D, S, Done, next, size, base, step, n)
             T == {n \in Nat : ~ \E f : Part(f, n)}
  <1>1. CASE T = {}
    BY <1>1
  <1>2. CASE T # {}
    <2>1. PICK n \in T : \A j \in T : n <= j
      <3>1. T \in SUBSET Nat
        OBVIOUS
      <3> HIDE DEF T
      <3> QED BY <1>2, <3>1, NatMin
    <2>2. n \in Nat /\ ~ \E f : Part(f, n)
      OBVIOUS
    <2>3. CASE n = 0
      <3> DEFINE f == [d \in Below(D, size, 0) |-> base[d]]
      <3>1. Below(D, size, 0) = {}
        BY DEF Below
      <3>2. Part(f, 0)
        BY <3>1 DEF PartOf
      <3> QED BY <2>2, <2>3, <3>2
    <2>4. CASE n # 0
      <3>1. n - 1 \in Nat /\ n - 1 < n
        BY <2>2, <2>4
      <3>2. n - 1 \notin T
        <4> HIDE DEF T
        <4> QED BY <2>1, <3>1, <2>2
      <3>3. PICK f : Part(f, n - 1)
        BY <3>1, <3>2
      <3> DEFINE X == Below(D, size, n - 1)  Y == Below(D, size, n)
                 g == [d \in Y |-> IF d \in Done THEN base[d] ELSE step[<<d, f[next[d]]>>]]
      <3>4. f \in [X -> S] /\ \A d \in X :
              f[d] = IF d \in Done THEN base[d] ELSE step[<<d, f[next[d]]>>]
        BY <3>3 DEF PartOf
      <3>5. ASSUME NEW d \in Y, d \notin Done
            PROVE  next[d] \in X /\ next[d] \in Y /\ d \in D
        <4>1. d \in D /\ size[d] < n /\ next[d] \in D /\ size[next[d]] < size[d]
          BY <3>5 DEF Below
        <4>2. size[d] \in Nat /\ size[next[d]] \in Nat
          BY <4>1
        <4> QED BY <2>2, <4>1, <4>2 DEF Below
      <3>6. ASSUME NEW d \in X PROVE d \in Y /\ g[d] = f[d]
        <4>1. d \in Y
          <5>1. size[d] \in Nat /\ d \in D /\ size[d] < n - 1
            BY DEF Below
          <5> QED BY <2>2, <5>1 DEF Below
        <4> HIDE DEF X, Y
        <4> QED BY <3>4, <4>1
      <3>7. ASSUME NEW d \in Y PROVE g[d] \in S
        <4>1. d \in D
          BY DEF Below
        <4> HIDE DEF X, Y
        <4> QED BY <3>4, <3>5, <4>1
      <3>8. g \in [Y -> S]
        <4> HIDE DEF X, Y
        <4> QED BY <3>7
      <3>9. ASSUME NEW d \in Y
            PROVE  g[d] = IF d \in Done THEN base[d] ELSE step[<<d, g[next[d]]>>]
        <4> HIDE DEF X, Y
        <4> QED BY <3>5, <3>6
      <3>10. Part(g, n)
        <4> HIDE DEF g
        <4> QED BY <3>8, <3>9 DEF PartOf
      <3> QED BY <2>2, <3>10
    <2> QED BY <2>3, <2>4
  <1> QED BY <1>1, <1>2

Decreases(D, Done, next, size) == \A d \in D : d \notin Done => size[next[d]] < size[d]

Solves(g, D, Done, next, base, step) ==
    \A d \in D : g[d] = IF d \in Done THEN base[d] ELSE step[<<d, g[next[d]]>>]

LEMMA Recursion ==
  ASSUME NEW D, NEW S, NEW Done, NEW next \in [D -> D], NEW size \in [D -> Nat],
         NEW base \in [D -> S], NEW step \in [D \X S -> S], Decreases(D, Done, next, size)
  PROVE  \E g \in [D -> S] : Solves(g, D, Done, next, base, step)
  <1>0. \A d \in D : d \notin Done => size[next[d]] < size[d]
    BY DEF Decreases
  <1> DEFINE Part(f, n) == PartOf(f, D, S, Done, next, size, base, step, n)
             part == [n \in Nat |-> CHOOSE f : Part(f, n)]
             g == [d \in D |-> part[size[d] + 1][d]]
  <1>1. ASSUME NEW n \in Nat PROVE Part(part[n], n)
    <2>1. \E f : Part(f, n)
      BY <1>0, PartsExist
    <2> HIDE DEF Part
    <2> QED BY <2>1
  <1> HIDE DEF part
  <1>2. ASSUME NEW d \in D
        PROVE  /\ size[d] + 1 \in Nat /\ d \in Below(D, size, size[d] + 1)
               /\ g[d] = part[size[d] + 1][d] /\ g[d] \in S
    <2>1. size[d] \in Nat /\ size[d] + 1 \in Nat /\ size[d] < size[d] + 1
      OBVIOUS
    <2>2. d \in Below(D, size, size[d] + 1)
      BY <2>1 DEF Below
    <2>3. part[size[d] + 1] \in [Below(D, size, size[d] + 1) -> S]
      BY <1>1, <2>1 DEF PartOf
    <2> QED BY <2>1, <2>2, <2>3
  <1>3. ASSUME NEW d \in D
        PROVE  g[d] = IF d \in Done THEN base[d] ELSE step[<<d, g[next[d]]>>]
    <2> DEFINE n == size[d] + 1
    <2>1. n \in Nat /\ d \in Below(D, size, n) /\ g[d] = part[n][d]
      BY <1>2
    <2>2. part[n][d] = IF d \in Done THEN base[d] ELSE step[<<d, part[n][next[d]]>>]
      BY <1>1, <2>1 DEF PartOf
    <2>3. CASE d \in Done
      BY <2>1, <2>2, <2>3
    <2>4. CASE d \notin Done
      <3> DEFINE e == next[d]  m == size[e] + 1
      <3>1. e \in D /\ size[e] < size[d] /\ size[e] \in Nat /\ size[d] \in Nat
        BY <1>0, <2>4
      <3>2. m \in Nat /\ size[e] < m /\ size[e] < n /\ g[e] = part[m][e]
        BY <1>2, <3>1
      <3>3. part[n][e] = part[m][e]
        <4>1. Part(part[n], n) /\ Part(part[m], m)
          BY <1>1, <2>1, <3>2
        <4> HIDE DEF n, m, e, g
        <4> QED BY <1>0, <2>1, <3>1, <3>2, <4>1, PartsAgree
      <3> HIDE DEF g
      <3> QED BY <2>1, <2>2, <2>4, <3>2, <3>3
    <2> QED BY <2>3, <2>4
  <1>4. g \in [D -> S]
    <2> HIDE DEF g
    <2> SUFFICES \A d \in D : g[d] \in S
      BY DEF g
    <2> QED BY <1>2 DEF g
  <1> HIDE DEF g
  <1> QED BY <1>3, <1>4 DEF Solves

----------------------------------------------------------------------------
(* Numbers with the same remainder.                                        *)
SameMod(n, a, b) == a \in Int /\ b \in Int /\ a % n = b % n

LEMMA SameModIs ==
  ASSUME NEW n \in Nat \ {0}, NEW a \in Int
  PROVE  SameMod(n, a, a) /\ SameMod(n, a % n, a) /\ SameMod(n, a, a % n)
  <1>1. a % n \in Nat /\ a % n < n
    BY DivMod
  <1>2. (a % n) % n = a % n
    BY <1>1, RemainderOfSmall
  <1> QED BY <1>1, <1>2 DEF SameMod

LEMMA SameModSum ==
  ASSUME NEW n \in Nat \ {0}, NEW a, NEW b, SameMod(n, a, b), NEW c, NEW d, SameMod(n, c, d)
  PROVE  SameMod(n, a + c, b + d)
  <1>1. a \in Int /\ b \in Int /\ c \in Int /\ d \in Int /\ a % n = b % n /\ c % n = d % n
    BY DEF SameMod
  <1>2. (a + c) % n = ((b % n) + c) % n
    BY <1>1, ReduceTerm
  <1>3. (b + c) % n = ((b % n) + c) % n
    BY <1>1, ReduceTerm
  <1>4. (c + b) % n = ((c % n) + b) % n /\ (d + b) % n = ((d % n) + b) % n
    BY <1>1, ReduceTerm
  <1>5. c + b = b + c /\ d + b = b + d /\ a + c \in Int /\ b + d \in Int
    BY <1>1
  <1>6. (a + c) % n = (b + d) % n
    BY <1>1, <1>2, <1>3, <1>4, <1>5
  <1> QED BY <1>5, <1>6 DEF SameMod

LEMMA SameModProduct ==
  ASSUME NEW n \in Nat \ {0}, NEW a, NEW b, SameMod(n, a, b), NEW c, NEW d, SameMod(n, c, d)
  PROVE  SameMod(n, a * c, b * d)
  <1>1. a \in Int /\ b \in Int /\ c \in Int /\ d \in Int /\ a % n = b % n /\ c % n = d % n
    BY DEF SameMod
  <1>2. (a * c) % n = ((b % n) * c) % n
    BY <1>1, ReduceFactor
  <1>3. (b * c) % n = ((b % n) * c) % n
    BY <1>1, ReduceFactor
  <1>4. (c * b) % n = ((c % n) * b) % n /\ (d * b) % n = ((d % n) * b) % n
    BY <1>1, ReduceFactor
  <1>5. c * b = b * c /\ d * b = b * d /\ a * c \in Int /\ b * d \in Int
    BY <1>1
  <1>6. (a * c) % n = (b * d) % n
    BY <1>1, <1>2, <1>3, <1>4, <1>5
  <1> QED BY <1>5, <1>6 DEF SameMod

LEMMA SameModChain ==
  ASSUME NEW n, NEW a, NEW b, NEW c, SameMod(n, a, b), SameMod(n, b, c)
  PROVE  SameMod(n, a, c) /\ SameMod(n, c, a)
  BY DEF SameMod
=============================================================================
