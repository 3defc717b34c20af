---------------------------- MODULE LibraryCalls ----------------------------
(***************************************************************************)
(* Calls of the functions of numbertheory.py, util.py and der.py: numbers  *)
(* are asked for, random numbers are drawn until one is in range, and a    *)
(* value is written, altered on its way byte by byte, and read.            *)
(***************************************************************************)
EXTENDS NumberTheory, Signatures, FiniteSets

CONSTANTS Numbers,      \* the numbers functions are called with
          Moduli,       \* and the moduli
          Orders,       \* the orders random numbers are drawn below
          SigOrders,    \* the orders of signatures
          IntegerValues,    \* the integers that are written
          Bodies,       \* the bodies of elements
          Oids,         \* the object identifiers
          MaxAlter,     \* how many bytes are altered
          AlterTo,      \* what bytes are altered to
          AlterFirst    \* how many bytes from the first one on are altered

VARIABLES call,    \* the function called and its arguments
          string,  \* what was written
          altered, \* how many of its bytes were altered
          result   \* of the call

vars == <<call, string, altered, result>>

Call(kind, n, m, s) == [kind |-> kind, n |-> n, m |-> m, s |-> s]
Idle == Call("idle", 0, 0, <<>>)
NoResult == Raise("none")

Init == call = Idle /\ string = <<>> /\ altered = 0 /\ result = NoResult

----------------------------------------------------------------------------
(* Numbers.                                                                *)
Prime(n) == n > 1 /\ \A d \in 2 .. n - 1 : n % d # 0

(* What a call may say, given the answers it may find.                     *)
Answers(found) == IF found = {} THEN {Fails("AssertionError")} ELSE found

Asks(kind, n, m, answer) ==
    /\ call' = Call(kind, n, m, <<>>) /\ result' = answer
    /\ UNCHANGED <<string, altered>>

SquareRoot ==
    \E p \in {m \in Moduli : Prime(m)} : \E a \in 0 .. p - 1 :
      Asks("root", a, p, SquareRootModPrime[a, p])

Symbol == \E a \in Numbers, n \in Moduli : Asks("jacobi", a, n, JacobiSymbol[a, n])

Invert ==
    \E a \in Numbers, m \in Moduli :
      Asks("inverse", a, m, <<InverseByPow(a, m), InverseByEuclid(a, m)>>)

PrimeTest == \E n \in Numbers : \E answer \in Answers(IsPrime[n]) : Asks("prime", n, 0, answer)

FollowingPrime ==
    \E n \in Numbers : \E answer \in Answers(NextPrime[n]) : Asks("next", n, 0, answer)

Factor ==
    \E n \in Numbers : \E answer \in Answers(Factorization[n]) : Asks("factors", n, 0, answer)

Totient ==
    \E n \in Numbers :
      Asks("totient", n, 0, IF Factorization[n] = {} THEN Fails("AssertionError")
                            ELSE <<Phi[n], Carmichael[n]>>)

Order ==
    \E x \in Numbers \ {0}, m \in Moduli :
      Asks("order", x, m, <<OrderMod[x, m], LargestFactorRelativelyPrime[m, x],
                            KindaOrderMod[x, m]>>)

Ask ==
    /\ call = Idle
    /\ \/ SquareRoot \/ Symbol \/ Invert \/ PrimeTest \/ FollowingPrime
       \/ Factor \/ Totient \/ Order

----------------------------------------------------------------------------
(* randrange draws again until a number is in range.                       *)
StartRandrange ==
    /\ call = Idle
    /\ \E order \in Orders : call' = Call("randrange", order, 0, <<>>)
    /\ result' = 0 /\ UNCHANGED <<string, altered>>

Draw ==
    /\ call.kind = "randrange" /\ result = 0
    /\ \E bits \in 0 .. 2 ^ RandrangeBits(call.n) - 1 : result' = Randrange(bits, call.n)
    /\ UNCHANGED <<call, string, altered>>

----------------------------------------------------------------------------
(* What is written: the call, its encoding.                                *)
Values ==
    {Call("integer", n, 0, <<>>) : n \in IntegerValues}
      \cup {Call("oid", 0, 0, oid) : oid \in Oids}
      \cup {Call(kind, 0, 0, s) : kind \in {"octets", "sequence"}, s \in Bodies}
      \cup {Call("constructed", tag, 0, s) : tag \in {0, 1, 31}, s \in Bodies}
      \cup {Call("implicit", tag, class, s) : tag \in {0, 31, 32}, class \in 0 .. 3, s \in Bodies}
      \cup {Call("bits", unused, 0, s) : unused \in 0 .. 8, s \in Bodies}

Signed ==
    UNION {{Call(kind, order, 0, <<r, s>>) :
              kind \in {"raw", "der", "raw_canonize", "der_canonize"}, r \in IntegerValues,
              s \in {i \in IntegerValues : i < order}
                      \cup {order \div 2, order \div 2 + 1, order - 1}} : order \in SigOrders}

SOf(c) == IF c.kind \in {"raw", "der"} THEN c.s[2] ELSE Canonize(c.s[2], c.n)

Encoded(c) ==
    CASE c.kind = "integer"     -> Read(EncodeInteger[c.n], <<>>)
      [] c.kind = "oid"         -> EncodeOid[c.s]
      [] c.kind = "octets"      -> Read(EncodeOctetString(c.s), <<>>)
      [] c.kind = "sequence"    -> Read(EncodeSequence(c.s), <<>>)
      [] c.kind = "constructed" -> Read(EncodeConstructed(c.n, c.s), <<>>)
      [] c.kind = "implicit"    -> EncodeImplicit(c.n, c.s, c.m)
      [] c.kind = "bits"        -> EncodeBitstring[c.s, c.n]
      [] c.kind \in {"raw", "raw_canonize"} -> SigencodeString[c.s[1], SOf(c), c.n]
      [] c.kind \in {"der", "der_canonize"} -> SigencodeDer(c.s[1], SOf(c), c.n)

Decoded(c, s) ==
    CASE c.kind = "integer"     -> RemoveInteger[s]
      [] c.kind = "oid"         -> RemoveObject[s]
      [] c.kind = "octets"      -> RemoveOctetString[s]
      [] c.kind = "sequence"    -> RemoveSequence[s]
      [] c.kind = "constructed" -> RemoveConstructed[s]
      [] c.kind = "implicit"    -> RemoveImplicit[s, c.m]
      [] c.kind = "bits"        -> RemoveBitstring[s, None]
      [] c.kind \in {"raw", "raw_canonize"} -> SigdecodeString[s, c.n]
      [] c.kind \in {"der", "der_canonize"} -> SigdecodeDer[s]

(* The call that writes a value that was read.                             *)
CallOf(c, value) ==
    CASE c.kind = "integer" -> Call(c.kind, value, 0, <<>>)
      [] c.kind \in {"constructed", "bits", "implicit"} -> Call(c.kind, value[1], c.m, value[2])
      [] c.kind \in {"raw", "raw_canonize"} -> Call("raw", c.n, 0, value)
      [] c.kind \in {"der", "der_canonize"} -> Call("der", c.n, 0, value)
      [] OTHER -> Call(c.kind, 0, 0, value)

ElementKinds == {"integer", "oid", "octets", "sequence", "constructed", "implicit", "bits"}

(* It is read at once, if it can be written.                               *)
Write ==
    /\ call = Idle
    /\ call' \in Values \cup Signed
    /\ LET e == Encoded(call') IN
       /\ string' = e.value
       /\ result' = IF e.error = "" THEN Decoded(call', e.value) ELSE e
    /\ UNCHANGED altered

(* A byte is changed, lost or added, or the string ends early.             *)
Altered(s) ==
    UNION {{[s EXCEPT ![i] = b] : b \in AlterTo}
             \cup {SubSeq(s, 1, i - 1) \o SubSeq(s, i + 1, Len(s)), SubSeq(s, 1, i - 1)}
             \cup {SubSeq(s, 1, i) \o <<b>> \o SubSeq(s, i + 1, Len(s)) : b \in AlterTo} :
             i \in {i \in 1 .. Len(s) : i <= AlterFirst \/ i = Len(s)}}

Alter ==
    /\ string # <<>> /\ altered < MaxAlter
    /\ string' \in Altered(string) /\ altered' = altered + 1
    /\ result' = Decoded(call, string')
    /\ UNCHANGED call

(* The next call.                                                          *)
Return ==
    /\ call # Idle /\ (call.kind = "randrange" => result # 0)
    /\ call' = Idle /\ string' = <<>> /\ altered' = 0 /\ result' = NoResult

Next ==
    \/ Ask \/ StartRandrange \/ Draw \/ Write \/ Alter \/ Return

Spec == Init /\ [][Next]_vars
----------------------------------------------------------------------------
Squares(p) == {(i * i) % p : i \in 0 .. p - 1}
Legendre(a, p) == IF a % p = 0 THEN 0 ELSE IF a % p \in Squares(p) THEN 1 ELSE -1
Units(m) == {i \in 1 .. m : Gcd[i, m] = 1}
Exponents(m) == {e \in 1 .. m : \A i \in Units(m) : PowMod[i, e, m] = 1 % m}
OddPrimesOf(n) == {p \in 3 .. n : n % p = 0 /\ Prime(p)}

IsFactorization(f, n) ==
    /\ \A i \in 1 .. Len(f) : f[i][2] > 0 /\ (i > 1 => f[i - 1][1] < f[i][1])
    /\ ProductOf[[i \in 1 .. Len(f) |-> f[i][1] ^ f[i][2]]] = n

(* The numbers are those of the textbook definitions.  Roots are squared   *)
(* and no root that exists is missed; the symbol is the product of those   *)
(* of the prime factors; both ways of inverting agree where there is an    *)
(* inverse; a prime never fails the test and for a composite number some   *)
(* base tells, so that the factors found are powers of primes unless the   *)
(* test erred; the next prime is not passed.  Only numbers too long to be  *)
(* tested are an AssertionError.  Not judged is the order modulo m of an   *)
(* x = 1 (mod m) other than 1: order_mod says 2, as its z is not reduced,  *)
(* and "the order of x in the multiplicative group mod m" is 1.            *)
NumbersExact ==
    LET n == call.n
        m == call.m
        untested(k) == k > LastSmall /\ 1 + BitLength[k] \notin PrimeBits
    IN CASE call.kind = "root" ->
              IF n \in Squares(m) THEN result.error = "" /\ (result.value ^ 2 - n) % m = 0
              ELSE result.error = "SquareRootError"
         [] call.kind = "jacobi" ->
              IF m < 3 \/ m % 2 = 0 THEN result.error = "JacobiError"
              ELSE LET symbols == {p \in OddPrimesOf(m) : Times[m, p] % 2 = 1 /\ Legendre(n, p) = -1}
                   IN result.value = IF \E p \in OddPrimesOf(m) : n % p = 0 THEN 0
                                     ELSE IF Cardinality(symbols) % 2 = 0 THEN 1 ELSE -1
         [] call.kind = "inverse" ->
              IF n = 0 THEN result = <<Number(0), 0>>
              ELSE IF Gcd[n % m, m] # 1 THEN result[1].error = "ValueError"
              ELSE (n * result[2] - 1) % m = 0 /\ result[1] = Number(result[2])
         [] call.kind = "prime" ->
              IF IsPrime[n] = {} THEN untested(n)
              ELSE IF Prime(n) THEN result = TRUE ELSE FALSE \in IsPrime[n]
         [] call.kind = "next" ->
              IF NextPrime[n] = {} THEN \E k \in n + 1 .. 2 * n : untested(k)
              ELSE
              /\ result > n /\ \A i \in n + 1 .. result - 1 : ~ Prime(i)
              /\ Prime(result) \/ FALSE \in IsPrime[result]
         [] call.kind = "factors" ->
              IF Factorization[n] = {} THEN untested(Rough[n])
              ELSE
              n > 0 => /\ IsFactorization(result, n)
                       /\ \A i \in 1 .. Len(result) :
                            Prime(result[i][1]) \/ TRUE \in IsPrime[result[i][1]]
         [] call.kind = "totient" ->
              IF Factorization[n] = {} THEN untested(Rough[n])
              ELSE n > 0 => result = <<Cardinality(Units(n)), Min(Exponents(n))>>
         [] call.kind = "order" ->
              LET part == result[2]
                  modulus == IF result[1].error = "" THEN m ELSE part
                  order == IF result[1].error = "" THEN result[1] ELSE result[3]
              IN /\ part = Max({d \in 1 .. m : m % d = 0 /\ Gcd[d, n] = 1})
                 /\ (n = 1 \/ (n - 1) % modulus # 0) =>
                      order.value = IF modulus = 1 THEN 0
                                    ELSE Min({e \in 1 .. modulus : PowMod[n, e, modulus] = 1})
         [] OTHER -> TRUE

(* Random numbers are in range and uniform: of the bits that may be drawn  *)
(* as many make each number as any other, and at least half of all draws   *)
(* end the loop, "Worst case should be a mean of 2 loops".                 *)
DrawsUniform ==
    call.kind = "randrange" =>
      LET order == call.n
          draws == 0 .. 2 ^ RandrangeBits(order) - 1
          bytes == TryBits(order) \div 8
          extra == TryBits(order) % 8
          numbers(k) == {(k - 1) % 256 ^ bytes, k % 256 ^ bytes}
      IN /\ result \in 0 .. order - 1
         /\ result = 0 =>
              /\ 2 * (order - 1) >= Cardinality(draws)
              /\ \A k \in 1 .. order - 1 :
                   /\ Cardinality({bits \in draws : Randrange(bits, order) = k}) = 1
                   /\ \A number \in numbers(k) :
                        Cardinality({byte \in 0 .. 255 : TryAgain(byte, number, order) = k}) =
                          IF number # (k - 1) % 256 ^ bytes THEN 0 ELSE 256 \div 2 ^ extra
              /\ \A number \in 0 .. 2 * order : OvershootModulo(number, order) \in 1 .. order - 1

(* What was written is read back, and what is read was written so: an      *)
(* altered string is refused, or it is the encoding of what it is read as, *)
(* with the rest returned.  Signatures are read whole.  The length of      *)
(* octet strings, bit strings and of tagged values may exceed the string:  *)
(* they are read as what there is, and nothing is left.                    *)
WireStrict ==
    string # <<>> =>
      LET again == Encoded(CallOf(call, result.value))
          cut   == call.kind \in {"octets", "constructed", "implicit", "bits"} /\ TooLong[string]
      IN IF altered = 0
         THEN result = Read(CASE call.kind = "integer" -> call.n
                              [] call.kind \in {"constructed", "implicit", "bits"} -> <<call.n, call.s>>
                              [] call.kind \in {"oid", "octets", "sequence"} -> call.s
                              [] OTHER -> <<call.s[1], SOf(call)>>, <<>>)
         ELSE IF result.error = ""
         THEN \/ again.error = "" /\ again.value \o result.rest = string
              \/ cut /\ result.rest = <<>>
         ELSE \/ result.error = (IF call.kind \in {"raw", "raw_canonize"}
                                 THEN "MalformedSignature" ELSE "UnexpectedDER")
              \/ result.error = "IndexError" /\ call.kind = "bits" /\ cut
=============================================================================
