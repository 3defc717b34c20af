# A TLA+ verification project for python-ecdsa

This directory holds TLA+ models of `src/src/ecdsa`, the TLC runs that check
them and the TLAPS proofs about them. Paths below are relative to the root of
the repository's checkout; `ellipticcurve.py` stands for
`src/src/ecdsa/ellipticcurve.py` and so on.

`PROJECT.json` is the index: which definition stands for which lines, which run
checks which property, which change of a definition breaks each property, the
hazards of the code at their lines, the disagreements found, the theorems.

    tlc -workers 2 -config SharedPoint.cfg MCSharedPoint
    tlapm SharedPointProofs.tla

1. [The system](#1-the-system)
2. [The modules](#2-the-modules)
3. [The runs](#3-the-runs)
4. [The proofs](#4-the-proofs)
5. [Disagreements between the code and its documents](#5-disagreements-between-the-code-and-its-documents)
6. [What is not modelled](#6-what-is-not-modelled)
7. [The plan](#7-the-plan)

## 1. The system

python-ecdsa is a library: it has no process or network of its own. Its state
is in the objects callers hold, and most of it never changes once made. What
makes it hard is of three kinds: a few objects that are **mutable under the
hood and shared by threads without a lock**; **arithmetic with many special
cases** (representations of points, INFINITY, digits of multipliers, lengths
in bits and in bytes), each of which random tests on large curves practically
never meet; and **error paths and retries** whose inputs cannot be produced on
purpose with a real hash function.

| Component | State | Operations | What is hard | What makes it right |
|---|---|---|---|---|
| **Shared points**: `PointJacobi` (`ellipticcurve.py`), `VerifyingKey.pubkey.point` (`keys.py`) | `__coords` (rewritten by `scale()`), `__precompute` (filled lazily), `__generator`, `__order`; the point of a key, replaced by `precompute()` | `scale`, `x`, `y`, `to_affine`, `__eq__`, `*`, `mul_add`, pickling, `VerifyingKey.precompute`, `verify` | threads interleave at every attribute access; attributes are read twice; a call may be interrupted by KeyboardInterrupt; `__dict__` is copied while it changes | callers see immutable values: every answer is that of the values the objects were made with; tables are complete or absent |
| **Point arithmetic**: `PointJacobi`, `Point` | coordinates of an object, not always reduced | `double`, `+`, `-`, `scale`, `to_affine`, `from_affine`, `==`, `*`, `mul_add` | five formulas of addition chosen by Z; unreduced values compared with 0; two classes mixed | the group law, whatever the representations |
| **Scalar multiplication** | table of powers of two, digit lists | `_naf`, `_mul_precompute`, `_maybe_precompute`, `__mul__`, `mul_add` | the table must be long enough for a multiplier that was reduced modulo *twice* the order; lists of different lengths; opposite points | the sum asked for |
| **Public keys and point encodings** (`ellipticcurve.py`, `ecdsa.py`, `keys.py`) | `VerifyingKey.pubkey` | `from_bytes`, `to_bytes`, `Public_key`, `from_string`, `from_public_point`, `to_string` | four encodings told apart by length and first byte; `y = 0`; cofactors | keys are multiples of the generator, read back as what was written, spelt one way |
| **ECDSA** (`ecdsa.py`, `keys.py`, `util.py`, `rfc6979.py`) | `SigningKey.privkey`, `VerifyingKey.pubkey`; while signing: the position in the stream of nonces | `sign_number`, `sign_digest`, `sign_digest_deterministic`, `verify_digest`, `from_public_key_recovery_with_digest`, `generate_k` | retries after `r = 0` or `s = 0`; digests cut to length in two places; negative `y` in recovery; INFINITY in verification | what is signed verifies; what verifies satisfies the equation; a nonce is used for one number |
| **ECDH** (`ecdh.py`) | `curve`, `private_key`, `public_key` of a session | `set_curve`, `generate_private_key`, `load_…` (8 of them), `generate_sharedsecret` | calls in any order, some fail half way; the curve comes from whichever key is loaded first | the keys are on the session's curve; both parties get one secret |
| **DER, PEM, signature and key encodings** (`der.py`, `util.py`, `keys.py`, `ssh.py`) | none | `remove_*`, `encode_*`, `sigencode_*`, `sigdecode_*`, `from_der`, `to_der`, … | lengths that exceed the buffer, long forms, leading zeros; optional and ignored fields; PEM files of several sections | what is read was written so; what is written is read back; a damaged file is not read as another key |
| **Curve registry** (`curves.py`) | module-level curves | `find_curve`, `Curve.from_der`, `to_der`, `__eq__` | explicit parameters against named curves | an equal curve is the same group |
| **Number theory and random numbers** (`numbertheory.py`, `util.py`) | `PRNG` stream | `inverse_mod`, `square_root_mod_prime`, `jacobi`, `polynomial_*`, `randrange`, `randrange_from_seed__*` | residue classes of the prime; loops that end only with luck | the root is a root, the draw is in range and uniform |
| **Edwards curves and EdDSA** (`ellipticcurve.py`, `eddsa.py`, `_sha3.py`) | as shared points, with a fourth coordinate; a cached public key | as above, `sign`, `verify` | points of order 2 and 4; caching | the group law; what is signed verifies |
| **Compatibility layer, package** (`_compat.py`, `__init__.py`, `_version.py`, `errors.py`) | none | conversions | | |

How they interact: `VerifyingKey.verify` → `Public_key.verifies` →
`PointJacobi.mul_add` → `_maybe_precompute`, `scale`, `_naf`. `SigningKey.sign`
→ `Private_key.sign` → `PointJacobi.__mul__` of the curve's generator, *an
object at module level that all threads and all keys share*. `precompute()`
replaces the point of a key by one with a table. Everything that reads bytes
goes through `AbstractPoint.from_bytes` and `Public_key`. An `ECDH` session
holds a `SigningKey` and a `VerifyingKey`, which it makes, is given, or reads by
`from_string`, `from_der` and `from_pem`; these read curves by `Curve.from_der`,
elements by `der.remove_*`, and prefer a curve of the library to explicit
parameters that are equal to it by `Curve.__eq__`. `eddsa.PublicKey` keeps bytes
and a `PointEdwards`, of which `VerifyingKey.precompute` replaces the latter.
Everything above rests on `numbertheory.inverse_mod` and
`square_root_mod_prime`, and `SigningKey.generate` and `sign` on `randrange`.

## 2. The modules

| Module | Lines | What it is |
|---|---|---|
| `PointCalls` | 66 | vocabulary: values, calls, answers |
| `ImmutablePoint` | 74 | abstract specification: immutable points |
| `SharedPoint` | 589 | the mutable points under threads; implements `ImmutablePoint` |
| `MCSharedPoint` | | symmetries for TLC |
| `ProofBasics` | | facts about numbers that all proofs share |
| `SharedPointProofs` | | theorems about `SharedPoint` |
| `ScalarMultiplication` | 349 | how multipliers become digits, doublings and additions |
| `ScalarMultiplicationProofs` | | theorems about it |
| `Jacobian` | 382 | every formula on points, as operators and functions |
| `JacobianProofs` | | theorems about the formulas and the multiplications |
| `PointArithmetic`, `MCPointArithmetic` | 150 | programs that compute with points, against the group law |
| `KeyEncoding`, `MCKeyEncoding` | 234 | points, keys and their bytes; uses `Jacobian` |
| `PointProofs` | | theorems about these two; uses `JacobianProofs` |
| `Ecdsa`, `MCEcdsa` | 431 | signing, verifying, recovering; uses `Jacobian` |
| `EcdsaProofs` | | theorems about signing, verifying and recovering; uses `JacobianProofs` |
| `Edwards` | 224 | the formulas, multiplication and encoding of `PointEdwards` |
| `EdDSA` | 203 | programs with such points, and keys and signatures; uses `Edwards` |
| `EdDSAProofs` | | theorems about both |
| `KeyFiles` | 376 | curves, keys and their DER and PEM forms: what is written and how it is read |
| `KeyTransfer` | 181 | a key is written, perhaps damaged, read, and written again; uses `KeyFiles` |
| `Ecdh` | 134 | one session of `ECDH`; uses `KeyFiles` |
| `KeyExchange`, `MCKeyExchange` | 112 | composes `KeyTransfer` and `Ecdh` |
| `KeyExchangeProofs` | | theorems about it |
| `NumberTheory` | 215 | every function of `numbertheory.py` |
| `DerStrings` | 184 | every writer and reader of `der.py`, byte by byte |
| `Signatures` | 91 | signatures as strings, numbers from random bits (`util.py`) |
| `LibraryCalls`, `MCLibraryCalls` | 293 | calls of these three modules, against reference definitions |

The three views of `PointJacobi` divide the work. `SharedPoint` knows what each
attribute access reads and writes and takes a point for the multiple of the
base point it is. `ScalarMultiplication` knows every round of every loop and
takes points for formal sums. `Jacobian` knows every formula and every
reduction, and the functions of the other two are its pure operators. What one
assumes another checks: that a table entry is the double of the entry before it
(`SharedPoint`, proved) is what `ScalarMultiplication` starts from; that adding
formal sums is adding points is what `PointArithmetic` checks.

### SharedPoint

One action is **one access to a shared attribute** with the thread-local work up
to the next one: under CPython an attribute load or store is atomic and threads
switch between them. `pc[t]` says which access thread `t` executes next, `loc[t]`
is its frame (`cur` and `k` are the object and multiplier of the running
subroutine, `ret` and `mret` where it returns to), `req[t]` its call and
`res[t]` the last answer.

| State | Code |
|---|---|
| `coords[o]` | `o.__coords`: the value of the point, and whether Z = 1 |
| `table[o]` | `o.__precompute`, as a list of values |
| `gen[o]` | `o.__generator` |
| `order[o]` | `o.__order`, 0 for None: the point of a key that was loaded from bytes or a file has none, and `precompute()` and pickling hand that on |
| `key` | `VerifyingKey.pubkey.point` |
| `live` | the objects that exist |

`MulEnter`, `MulChoose`, `MulTable`, `MulRound`, `MulTableEnd` and `MulLoop` are
`__mul__`; `MaybePrecompute`, `AssertOrder`, `PrecomputeRead`, `PrecomputeDouble` and
`PrecomputeStore` are `_maybe_precompute`; `ScaleRead` and `ScaleStore` are
`scale`; `MulAdd…` are `mul_add` with each of its four ways; `Pre…` are
`VerifyingKey.precompute`; `Copy…` are `__getstate__` and `__setstate__`. A
verification is the call `mul_add` of the generator with the point of the key.
`AssertOrder` is the failure of `assert order`, which ends the call with
`Failed`: nothing on the way up catches an AssertionError. `Interrupt` ends the
call of any thread at any access.

Reading `X` and `Y` of a triple whose Z is not 1 as if it were gives `Garbage`,
a value of its own that no operation turns into a right answer. So a missing
`scale()` shows as a wrong answer.

Simplifications: no shared object is at INFINITY (`scale`, `x` and `y` of
INFINITY return before they touch anything; keys are never INFINITY);
`__dict__.copy()` is two reads with other threads between them, which is more
than the global lock of CPython allows; other implementations of Python may
show it. The sum in `MulAddReadOther` is one step since it is thread-local.

### ImmutablePoint

What callers are promised: `val[o]` is set once, when the object is made; a
call is answered with `Answer(call, val)`, or is interrupted and has no answer,
or, where it multiplies by a generator that does not know its order, may fail
(`Fail`).
The refinement mapping in `SharedPoint` takes `coords[o].v` for `val[o]`, `req`
for `call` and `res` for `ans`; everything in between is a stutter.

### ScalarMultiplication

Point 1 is `self`, point 2 `other`; an accumulator is the pair of integers that
says how often it contains each. `PrepareBuild`, `PrepareTables`,
`PrepareOpposite` and `PrepareBoth` are the four ways through the beginning of
`mul_add` (build a table, use tables, opposite points, both digit lists);
`BuildRound` is a round of `_maybe_precompute`, `TableRound` of
`_mul_precompute`, `NafRound` of `_naf`, `LoopRound` of the loop in `__mul__`
and `BothLoopRound` of that in `mul_add`. `trail` is a ghost: the values the
multiplier has had in `_naf`. `Order = 0` stands for points without an order.
Multipliers are naturals: the only callers that could pass a negative one
are the user's own.

### Jacobian and PointArithmetic

`Jacobian` transcribes each formula with exactly the reductions the code makes:
`AddWithZ1`, `AddWithZEq`, `AddWithZ21`, `AddWithZNe`, `DoubleWithZ1`, …, and
the methods that choose between them. `PointArithmetic` has a set of registers
that hold objects of either class; each action computes one method of them into
a register. A ghost `val` beside each register has the affine point that the
textbook group law gives, computed from the definition of chord and tangent.
`Represents` says the objects stay representations of their ghosts.
The loops of the multiplications are recursive functions: `Digit` is the least
significant digit that `_naf` puts into its list and `Beyond` the multiplier that
is left, so that the loop over the reversed list (`MulTriple`) doubles what the
digits beyond make and adds the last one; `MulAddTriple` does so for two lists,
where a multiplier of 0 gives the zeros in front of the shorter. `MulTable` takes
the entries of the table as the rounds of `_mul_precompute` come to them, and
`AMulLoop` is the loop of `Point.__mul__` over the bits of `e` and of `3e`. A
flag in each triple, `twin`, is a ghost: it says that a `Twin` was added on the
way (section 5).
`CurveAssumption` has the modulus a prime above 3, as those of all curves of
the library are.

### KeyEncoding

One item takes its forms in turn: a point in some representation (`Compute`,
`Rescale` change it), bytes in one of four encodings (`ToBytes`), any bytes at
all (`Data`), a key (`FromString`, `FromPublicPoint`, `EncodeKey`). Bytes are a
length class, a first byte and one or two integers, which may be `P` or more.
The model takes the three lengths that `from_bytes` tells apart (`2n`, `2n + 1`,
`n + 1`) as distinct, which they are when `P` has two bytes or more, as on every
curve of the library.

### Ecdsa

`Init` chooses a secret and makes its key, and in `Kinds` which of two mixes of
calls this behaviour makes: calls with any nonce, or deterministic ones. `Sign` is `sign_digest` with any
nonce; `SignDeterministic` starts the deterministic loop, `GenerateK` is a call
of `generate_k` in it, and `SignNumber` the attempt to sign with its nonce,
which ends the call or goes around again with `retry` one higher; `Verify` is
`verify_digest` for any pair; `Recover` is
`from_public_key_recovery_with_digest`; `Precomputation` is `precompute()`,
which changes the way `mul_add` goes. HMAC is **an arbitrary generator**: what
stream of candidates a seed yields is chosen when the seed is first used and
kept (`Seeds`, `Outputs`), so that two calls with the same seed meet the same
candidates. `MaxStream` is after how many candidates it yields one that can be
used. A byte has `ByteBits` bits, so that lengths in bytes and in bits differ
on an order of three bits as they do on NIST521p.

### Edwards and EdDSA

`Edwards` is to `PointEdwards` what `Jacobian` is to `PointJacobi`: `AddCoords`
has the branch of `_add` that doubles when H is zero, `FromCoords` the test of
`not X3 or not T3`, `Scale` the coordinates that are not reduced when Z is 1,
`FromBytes` a y that may be P or more. The object `INFINITY`, of another class,
is a point with all coordinates zero. `Ladder` is the loop of `__mul__` over the
digits `_naf` makes (`Digit`, `Beyond`), `MulTable` that of `_mul_precompute`,
which takes the entries of `_maybe_precompute` as it comes to them, up to
`TableEnd`. `SquaresAssumption` has A a square and D none, as RFC 8032 has it of
the two curves of the library. In `EdDSA` a program holds two points;
`p` may become the point of a `PublicKey`, whose bytes are then in `encoded`
(`PublicKeyFromBytes` from any bytes, `PublicKeyFromPoint` by `to_bytes`), and
`Precompute` is `VerifyingKey.precompute`, which assigns the point and leaves
the bytes. `Sign` is `public_key()` and `sign()` with any secret the pruning
leaves and any two hashes; `Verify` is `verify()` of any R, S and hash. The
ghosts `logp` and `logq` say which multiple of the generator a point must be, or
that it is outside of the generator's group: the methods "assume sane
parameters", and addition of such points is not modelled, verification with
them is. A hash is a number; since R and the key are hashed as bytes,
`SignatureAccepted` asks that signer and verifier hash the same bytes.

### KeyFiles, KeyTransfer, Ecdh and KeyExchange

A DER string is the list of its elements in the order of their first bytes,
each with its depth. `Wrap` puts elements into another, `Body` and `Rest` are
what a `remove_` function returns. A number has its length in bytes of `Byte`
values, since readers compare lengths and pad. `PublicToDer`, `PrivateToDer` and
`CurveToDer` are the writers, `ReadPublic`, `ReadPrivate` and `ReadCurve` the
readers, with every refusal in the order of the code. The points of a curve are
a cyclic group, a point is its place in it; so cofactors, points of order two
and INFINITY are there, and the arithmetic, which other modules check, is not.

In `KeyTransfer` a key is made (`MakeKey`), written in some form (`WritePublic`,
`WritePrivate`, which may put curve parameters before it as OpenSSL does), may
be damaged (`Damage`: an element lost, repeated, exchanged with the next, or of
another type), and read (`ReadPublicKey`, `ReadPrivateKey`) with any
`valid_encodings`; the reader may write the key again (`Adopt`). `Ecdh` has one
action for each method; `read` is what the loaded string, file or object
amounts to. `KeyExchange` puts the two together: sessions load the keys, strings
and files of the keys of all curves, by every reader, also files of the wrong
kind. `load_private_key_der` and `_pem` are `LoadPrivate` with what
`ReadPrivate` makes of a file; the constructor with keys is loading them after
it.

### NumberTheory, DerStrings, Signatures and LibraryCalls

The first three have no state: loops are recursive functions of the variables of
the loop, a reader returns a record of value, rest and what was raised. What
`is_prime` may return is a set, for the bases it may draw; it is empty where the
length of the number fails its assertion (`PrimeBits`, 11 to 16384 in the code).
`RoundedUp` are the orders of which the logarithm in `bits_and_bytes`, a float,
rounds up to an integer, so that there is one bit more (`TryBits`). `LibraryCalls` calls
them: a number is asked for, a random number is drawn until it is in range (a
behaviour of several steps), a value is written, altered and read. The reference
definitions are its own: primality by division, the Legendre symbol by squares,
the totient by counting.

## 3. The runs

Every invariant and property listed is the whole of what the run checks.

### Expected to pass

| Run | Bounds | What it shows |
|---|---|---|
| `SharedPoint` | 2 threads; the generator, a point that is not scaled, up to 2 new objects; order 5, which the key's point knows or not; multipliers 1, 7; no interruptions | the assertion of `to_affine` holds in every interleaving (`ScaledWhereAssumed`), generators are multiplied with their table (`GeneratorIsFast`), every answer is right (`AnswersCorrect`), the unlocked writes are idempotent (`WritesAreIdempotent`), after overlapping `precompute()` the key's point has its table if it knows its order, and none if it does not (`PrecomputedWhenQuiet`), types |
| `SharedPointRefine` | 2 threads, one new object, multipliers 0, 8; lazy precomputation, pickling, interruptions anywhere | no half-built table is visible (`TablesComplete`); `RefinesImmutable`, safety and liveness: every call ends, with the right answer, interrupted, or failed for a generator without an order |
| `PointArithmetic` | curve y² = x³ + 3x + 5 over F₇, 7 points, 2 registers, 4 multipliers | every sequence of operations agrees with the group law (`Represents`), and `==` with equality of points (`EqualityIsExact`) |
| `ScalarMultiplication` | order 7; no, one or two generators; 13 multipliers up to 45 | `SumIsCorrect`, `NonAdjacent`, `TableSuffices`, `Terminates`, types, on each of the four ways of `mul_add` |
| `KeyEncoding` | F₇, 10 points, order 5, cofactor 2 | `KeyValid`: no sequence makes a checked key that is not a multiple of the generator, but for the point with `y = 0`; `RoundTrip`; `Canonical`: a checked key has one spelling in each encoding |
| `Ecdsa` | F₁₁, 7 points, order 7; all nonces, 2 secrets, 3 digests, all `r` and `s` up to the order; deterministic calls with up to 3 candidates of one seed | `SignatureAccepted`; `RecoveredValid`; `AcceptsEquation`: accepted exactly when the equation of ECDSA holds for the key's value, in every representation that recovery and precomputation leave; `FirstGood`: the first candidate that gives `r ≠ 0`, `s ≠ 0` is used; `NonceOnce`: deterministic signatures of truncated digests that share a nonce sign the same number; `DeterministicReturns`; types |
| `EdDSA` | −x² + y² = 1 + 6x²y² over F₁₃, 20 points, order 5, cofactor 4; multipliers and hashes up to 11, all pruned secrets, y up to 15 | `GroupLaw` in the group of the generator; `VerifiesExactly`: `verify()` is true exactly for `S < order` and `S·G = R + k·A`; `SignatureAccepted` by the key made, read from its bytes, and precomputed; `KeyMatchesBytes`; types with the equation of the curve |
| `KeyExchange` | 6 curves (cofactors 1, 4 and none, an Edwards curve, a curve equal to one of the library, one with another generator, an unknown one), numbers 0 to 5, one damage | `ReadBack`: an undamaged file is read as the key it was written from, by DER and PEM, if the reader allows its encodings, and refused otherwise; `DamageTold`: no field is taken for another; `KeysOnCurve`, until `set_curve` is called with a key loaded; `SecretShared`: a secret is made of keys on one curve, and the other party computes the same; types |
| `LibraryCalls` | 148 numbers, of which one has too many bits for `is_prime`, moduli up to 113, 47 orders, two of which round up; strings of up to 260 bytes with one byte altered; the list of small primes ends at 13 | `NumbersExact`: the functions of `numbertheory.py` are the textbook's; `DrawsUniform`: as many draws make each number, and at least half of them end the loop; `WireStrict`: an altered string is refused, or is what its value is written as |

Why the bounds are enough:

* *Two threads* give every race between two accesses, and the proofs cover any
  number. *Order 5* makes tables of six entries, of which an interrupted or
  early publication shows any proper prefix; a multiplier of 7 exceeds the order
  and stays below twice the order, where a shorter table fails. *Two new
  objects* are what two overlapping calls of `precompute()` make.
* *The curves* are the smallest that have each case. `PointArithmetic` has a
  prime order and so no point with `y = 0`; all pairs of points in all the
  representations that programs produce meet (Z of 1, equal Z, one Z of 1,
  different Z; negative Y). `KeyEncoding` has points of orders 2, 5 and 10, so
  that the test of the order matters. The curve of `Ecdsa` has a point with
  `x = 7 ≡ 0`, one with `x = 10` beyond the order, and ordinary ones.
* *Multipliers* of `ScalarMultiplication` include zero, one, the order and
  twice the order with their neighbours, numbers of dense bits and of digits
  -1, and more than twice the order (reduced once, twice or not at all); the
  proofs cover all others, other orders, and points without an order.
* `Twins = FALSE` in `PointArithmetic` restricts additions to operands that are
  not the same point with Y coordinates that differ by P: that case goes wrong
  in the code and has its own run (`PointTwins`).
* `Limit` in `KeyEncoding` is the number of values that fit in a coordinate,
  larger than `P + 1` so that `x + P` can be spelt for some `x`.
* The curve of `EdDSA` has points of orders 1, 2, 4, 5, 10 and 20, `MaxY` lets
  y be P or more, and pruned secrets are multiples of the cofactor with the
  highest bit set, as in the code. Multipliers to 11 exceed twice the order.
  Keys are made and used while `q` is INFINITY, which only keeps the number of
  states down: no operation on keys looks at `q`.
* In `KeyExchange` the secret numbers include 0 and one that is the order of most
  curves, and some that need leading zeros; one damage suffices for each field
  to be missing, repeated or another's. Files travel while there is no session,
  and sessions load files as they were written: loading is one call that sees
  the file only. `Byte = 4` makes lengths of one to three bytes.
* `LibraryCalls` has primes of all classes modulo 8, products of two and three
  primes beyond the list of small primes, pseudoprimes to some base of that
  list, and prime powers; orders around the lengths of whole bytes; integers and
  bodies at which the length or the sign needs another byte. With `MaxAlter = 1`
  and the first nine bytes and the last, every byte of a header is altered once.
* `MaxStream = 3`: a first, a bad one after it, and a good one. `MaxSeeds = 1`:
  calls with different seeds share no nonce, and different digests have one
  seed.
* `Mixes` splits the behaviours of `Ecdsa` by the calls that are made: the
  deterministic calls share no state with the others but the key.

### Expected to be violated

Each refutes one sentence of the repository; see section 5: `PointTwins`,
`KeyOrderTwo`, `EcdsaWholeDigest`.

### Fairness

* `SharedPoint`: `WF_vars(Step(t))` for every thread: a thread that can execute
  its next access does so in the end. The interpreter schedules its threads
  and no access waits for another thread (there are no locks), so weak
  fairness is all a call needs. Calls and interruptions are not fair: nobody
  has to make them. The abstract specification has
  `WF(Respond(t) \/ Abort(t) \/ Fail(t))`, which says that a call ends.
* `ScalarMultiplication`: `WF_vars(Next /\ pc # "idle")`: a sequential program
  goes on; it need not start another multiplication.
* `Ecdsa`: `WF` of `GenerateK` and of `SignNumber`: the steps of a running call.
  That the generator yields a good candidate in the end is not fairness but
  the assumption `MaxStream` on HMAC.

`EdDSA`, `KeyExchange` and `LibraryCalls` state no fairness and check no
liveness: their actions are whole calls, whose loops are functions.

Deadlock is checked in every run.

## 4. The proofs

All proofs are checked by `tlapm` with Z3, Zenon and LS4.

### SharedPointProofs

For any set of threads, any set of objects, any odd order above 2 and its
table length, keys that know their order or not, any multipliers, all kinds of
calls:

| Theorem | Statement |
|---|---|
| `TypeCorrect` | `Spec => []TypeOK` |
| `TablesAreComplete` | `Spec => []TablesComplete` |
| `ScaleIsStable` | `Spec => []ScaledWhereAssumed` |
| `GeneratorUsesTable` | `Spec => []GeneratorIsFast` |
| `WritesIdempotent` | `Spec => WritesAreIdempotent` |
| `AnswersAreCorrect` | `Spec => []AnswersCorrect` |
| `RefinesImmutableSafety` | `Spec => Abs!AInit /\ [][Abs!ANext]_(Abs!avars)` |
| `KeyPrecomputedWhenQuiet` | `Spec => []PrecomputedWhenQuiet`, without interruptions and lazy precomputation |

Assumed: the named assumptions of `PointCalls` and `SharedPoint` on their
constants (`OrderAssumption`, `QAssumption`, `TableLenAssumption`, …).

None of the invariants is inductive: whether a stored table is right depends on
what the thread that stores it has in its frame, built from coordinates it
read long before. `IInv` adds to `TypeOK` and `TablesComplete` one
predicate `FrameOK(p, l, r)` for each thread, which says what its frame `l`
means at its label `p`: a list being built is the first part of the table of the
value that its object has *now*; coordinates that were read have the value the
object has now; a thread past `scale()` finds the object scaled; a thread that
chose double-and-add has no generator. Two facts make these stable under the
other threads: no step changes the value of an object, and `scaled`
and non-empty tables are never undone. So the proof has one lemma per action
for the thread that moves, and the general lemmas `ThreadStep`, `LocalStep` and
`HeapStep` for all the others. `WritesIdempotent` follows from the invariant;
its one hard case is `PrecomputeStore` when the table was filled by another
thread in the meantime, where `TableUnique` says that there is only one complete
table of a value.

`AnswersAreCorrect` needs a second invariant, `AInv`: what a running
multiplication has in its accumulator and what it still owes add up to what its
call asked for, whichever of the ways it goes (`WorkInv`), and what its callers
have put aside is the value of the object they read it from. It is an invariant
because `IInv` says what the coordinates a thread reads stand for at the time it
reads them, not at the time its call began. `RefinesImmutableSafety` then goes
through the actions: each is a call, an answer computed from the values the
objects were made with, an abort, a failure, the birth of an object, or a stutter
of `ImmutablePoint`. For failures `WorkOK` has it that the object a thread
multiplies is one its call names, or for `precompute()` one made from it, with
its order (`Named`, `OfKey`). For `KeyPrecomputedWhenQuiet`, `QuietInv` says which
thread is on the way to store the table that the key's point lacks. That a
key whose point has no order never gets a table (section 5) is `TablesOrdered`, a
part of `IInv`: only points with an order have tables.

### ScalarMultiplicationProofs

For every order (or none), all multipliers and every choice of generators:

| Theorem | Statement |
|---|---|
| `TypeCorrect` | `Spec => []TypeOK` |
| `SumCorrect` | `Spec => []SumIsCorrect` |
| `Adjacency` | `Spec => []NonAdjacent` |
| `TableLongEnough` | `Spec => []TableSuffices` |

Assumed: `GeneratorsAssumption` and `MultipliersAssumption`. The parts of
`IInv`: `TablesInv` (tables are powers of two, the last not below the bound),
`TableInv` (the accumulator plus what is left of the multiplier, times the
weight of the next entry, is the multiplier), `LinksInv` (each value in the
trail is twice the next plus its digit, and an odd one is followed by an even
one), `LoopInv` and `BothInv` (the accumulator is the value in the trail where
the loop stands) and `OwedInv` (what was computed and what is owed add up to
what was asked for, modulo the order). The trail is why `_naf` can be undone by
a loop from the other end without induction over the list.
That the table suffices is the arithmetic of `TableRoundArithmetic`: the rest of
a multiplier is always less than the multiplier over the weight, plus one, and
the weight ends above four times the order.

### JacobianProofs

For every prime above 3 and all coefficients:

| Theorem | Statement |
|---|---|
| `AdditionIsGroupLaw` | `_add()` of two triples yields the sum of their points, in either order, unless they are a `Twin` |
| `DoublingIsGroupLaw` | `_double()` of a triple yields the double of its point |
| `GroupLawAssociates` | `Smooth => Associative`: the group law is associative on a curve without singular points |
| `MultiplicationIsGroupLaw` | `PointJacobi.__mul__` yields the multiple, by a table and without, for every multiplier |
| `AffineMultiplicationIsGroupLaw` | so does `Point.__mul__` |
| `DoubleMultiplicationIsGroupLaw` | `mul_add` yields the sum of the two multiples |

Assumed: `CurveAssumption`. A triple is `At` a point of the curve when its X is
the square of Z times x and its Y the cube of Z times y, modulo P: no division
is left, and what a formula computes is compared with the chord or the tangent
by congruences, in which each reduction of the code is one step
(`Congruent…`). The chord and the tangent are there because every number that
is not 0 has an inverse, which is Euclid's algorithm (`ProofBasics`), and their
third intersection is on the curve since the polynomial left on the line has two
roots already (`RAddClosed`). Which formula is taken, and which of its tests
for zero see a number that is not reduced, is where the condition on twins comes
from: `_add_with_z_1` is the one formula that compares Y as it is. `ReadBack`
says that dividing by Z gives the point again.

The theorems about multiplications assume besides, each where it is used:

* `Annihilates(n)`, where a point comes with the order n: the code multiplies by
  remainders modulo 2n or n.
* `NoOrderTwo` for `PointJacobi` and `NoFlatTangent` for `Point`, which take
  such points and tangents for INFINITY; curves of odd order have the first
  (`OddOrder`).
* that the result has no `twin` flag: no `Twin` was added on the way. The
  theorems say nothing of a multiplication that adds one, nor could they.

That the group law is associative is not assumed. As one identity of
polynomials it is too large for the provers here, so the proof never writes down
a sum of three points. A line meets the curve in the roots of a cubic, with their
multiplicities (`OnLine`, `Collinear`), and three points on one are those whose
sum is O (`SumCollinear`, `CollinearSum`); from this alone a sum can be rotated
and a summand cancelled (`SumRotates`, `SumCancels`). Of four points take the
lines through two and through the other two: when their third points are opposite,
the four lie on a parabola with its axis along y (`OneParabola`,
`ParabolaAcross`), and then the lines that pair them the other way have
opposite third points too (`CrossLinesMeet`; where the slopes are opposite there is
no parabola, and one line is the other reflected: `ParallelLines`). So of four points whose sum is O any
two may be paired (`SumsOfFour`), which for q, r, s and the opposite of
(q + r) + s is the theorem. The only hypothesis, `Smooth`, follows from
`NoOrderTwo` (`SmoothIs`).

From the associative law follow the rules of multiples by integers (`ZAdd`,
`ZMulDistributes`, `ZPeriod`). A loop is then a recursion on the number that is
left: `Carries` says of an accumulator that it stands for the multiple by the
digits done (`MulTripleCarries`, `MulAddTripleCarries`, `AMulLoopGood`), by the
least number for which it does not. For the table the invariant of the rounds is
that the accumulator plus the multiplier that is left times the entry is the sum
asked for (`MulTableCarries`), and `LastRound` that nothing is left when the table
ends: a multiplier below 2n with a signed digit per entry is done when the
entry's multiple reaches 4n.

### PointProofs: PointArithmetic

For every prime, every curve, any set of registers, inputs of any coordinates in
the field, programs of any length: `CoordinatesInRange`
(`ProgramSpec => []ProgramTypeOK`), `ComputationsRepresent`
(`ProgramSpec => []Represents`) and `EqualityExact`
(`ProgramSpec => []EqualityIsExact`). Assumed, besides the named
assumptions of the module:

* `NoFlatTangent`, that the tangent is horizontal at no point: there
  `Point.double()` goes wrong (section 5).
* `OrdersRight`, that the orders callers give are multiples of that of every
  point. TLC checks both for the curve of the run (`MCAssumption`).
* `Twins = FALSE`, that twins are not added: the run `PointTwins` shows that the
  theorem is false otherwise.

`PInv` says of every register that its coordinates have the ranges the methods
leave (Y may be negative or beyond P), are `At` the point of its ghost, and that
the order it carries is right.

### PointProofs: KeyEncoding

For every prime, curve, order and cofactor, and any bytes:

| Theorem | Statement |
|---|---|
| `KeyTypes` | `Spec => []TypeOK` |
| `KeysHaveOneSpelling` | `Spec => []Canonical` |
| `KeysReadBack` | `Spec => []RoundTrip` |
| `KeysOnTheCurve` | `Spec => [](form = "key" /\ checked => Residues(point) \in CurvePoints)` |
| `KeysAreMultiples` | `Spec => []((Cofactor # 1 => ~ Mul(point, Order, FALSE).twin) => KeyValid)` |

Assumed: the named assumptions; for `KeysAreMultiples` also `Smooth` and, with
cofactor 1, `Annihilates(Order)`, which is what `Public_key` relies on when it makes
no product. The invariant `KInv` says in which form the
coordinates of a point may be after each operation, and of a checked key that
it passed the test of `Public_key`. A key is not always scaled and carries the
order of where it comes from, while the one that is read back is scaled and has
the order of the curve; so the work is to show that `Public_key` and `to_bytes`
see only what `Scale` leaves, and that `Mul`, which tests the order, does not
depend on the rest (`MulOfScale` and the lemmas before it). That a compressed
key is read back as the same of the two points rests on P being odd: the two
square roots have different parity.

`KeysOnTheCurve` and the rest speak of checked keys: the points of `from_bytes`,
and the keys of callers that turn `validate_point` off, are on the curve only if
their bytes are.

`KeysAreMultiples` asks neither for a curve of odd order nor for a point that is
in the generator's group: `MulLoopGood` says of any point of the curve what the
loop computes, so that INFINITY is told only of those that the order takes to O
(`ProductTells`). It speaks of products that add no `Twin`, and must: on
y² = x³ + 4 over F₁₃ (21 points, generator (7, 3) of order 7, cofactor 3) the
loop comes, for the point (0, 11) of order 3, to 8·q = −q with Z = 1, adds −q to it,
does not see that they are equal, and returns INFINITY. The code accepts that
point as a key; so does the model with these constants, where TLC finds `KeyValid`
violated. A twin is only met by points
of odd order there, and the library's curves with a cofactor (4) have none but the
multiples of their generators. On the
instance of the run no product adds a `Twin` (`MCAssumption`).

### EcdsaProofs

For every curve of prime order, any digests, secrets, and whatever HMAC yields:

| Theorem | Statement |
|---|---|
| `FirstGoodCandidate` | `Spec => []FirstGood` |
| `NonceUsedOnce` | `Spec => []NonceOnce` |
| `SignaturesVerify` | `Spec => [](SignedWithoutTwin => SignatureAccepted)` |
| `RecoveredKeysVerify` | `Spec => [](RecoveredWithoutTwin => RecoveredValid)` |
| `AcceptsExactly` | `Spec /\ [][TwinFreeStep]_vars => []AcceptsEquation` |
| `EcdsaTypes` | `Spec /\ [][TwinFreeStep]_vars => []TypeOK` |

Assumed: `EcdsaAssumption`, `DigestAssumption`, `CandidatesAssumption`; for the
first two nothing about the arithmetic of points. `FirstGood` is not inductive:
`generate_k` starts at the beginning of its stream at every retry and skips as
many candidates as `retry` says. The invariant `EInv` counts: the candidates in
range that were passed are `retry - left`, and each of the first `retry` of them
was tried and gave no signature. `NonceOnce` is arithmetic of bits: what is signed
is the leftmost bits of a digest cut to whole bytes, what the nonce is derived
from the leftmost bits of the whole digest, and cutting twice is cutting once
(`CutTwice`); lengths in bits are those of a recursive function, of which
`ProofBasics` shows that it exists.

The other four rest on `JacobianProofs` and assume `CurveSound`: the order
of the generator annihilates every point (the curves the library uses for ECDSA
have cofactor 1; that no point then has order two, and none is singular, is
`OddOrder`), and the generator is multiplied without a `Twin`. Verification and recovery compute with
points that depend on the signature, so the theorems except the computations
that do add a `Twin`: there the code computes a wrong sum (section 5), and they
would be false. `VerifierTwin` says that a verification does, `RecoverySound` that
a recovery does not, and that r is less than P. What is excepted is rare: on the
curve of the run no signature that satisfies the equation, with either key, and
no key that is recovered from any pair of numbers is computed by way of a `Twin`
(`MCWithoutTwin`, which TLC evaluates); some verifications of numbers that are no
signature are.

`VerifiesIs` is the heart: by `MultiplicationIsGroupLaw` and
`DoubleMultiplicationIsGroupLaw`, whichever way `mul_add` goes, `verifies()`
returns true exactly if `Equation` holds for the point the key stands for.
`SignedEquation` then says that the numbers `sign()` makes satisfy it: modulo the
order what `verifies()` computes is the nonce, or its negative when s was made
canonical (`NonceRecovered`), and a point and its opposite have one x.
`RecoveredEquation` says that each recovered key satisfies the equation for the
point at r it was made from, and `RecoversSigner` that from the point of the
signature it is the signer's key. In the state, `SigInv` adds to `EInv` that a
signature not yet verified is one `sign()` makes of the number of the digest at
hand, with some nonce; `KeyInv`, that the verifier's key, given, recovered, scaled
or precomputed, is a well-formed object with the order of the curve at a point
that is not INFINITY. All of these together are inductive (`VInv`), which
`AcceptsEquation` alone is not: that a step keeps it depends on what the key
became in the steps before.

### EdDSAProofs

For every odd prime, every twisted Edwards curve on it whose A is a square and
whose D is none, a generator of any odd order, any sizes of secrets and any hashes:

| Theorem | Statement |
|---|---|
| `EdwardsAssociative` | `Associative` |
| `PointsOnTheCurve` | `Spec => []TypeOK` |
| `EdwardsGroupLaw` | `Spec => []GroupLaw` |
| `EdwardsVerifiesExactly` | `Spec => []VerifiesExactly` |
| `EdwardsSignatureAccepted` | `Spec => []SignatureAccepted` |
| `EdwardsKeyMatchesBytes` | `Spec => []KeyMatchesBytes` |

Assumed: `EdwardsAssumption`, `SquaresAssumption`, `GeneratorAssumption` and
`EdDSAAssumption`, nothing else. TLC evaluates all of them on the curve of the run.

* *The group.* `Complete`: no denominator of the group law is 0, else D would be a
  square (`RootOfD`). So sums are on the curve (`RAddClosed`), are the only
  solutions of their equations (`RAddUnique`), and multiples of the generator add as their
  numbers do (`TimesSum`, `TimesDiffer`). `EdwardsAssociative`: each coordinate of
  (u + v) + w is one fraction in the coordinates of the three points
  (`TripleParts`), and that of u + (v + w) is the same one by the equation of the
  curve at each of them (`SameFraction`).
* *The formulas.* `_add` does not compute with D. Its formulas are those of the
  group law's dual form (`Dual`), which agrees with it where its own
  denominators are not 0: for points that differ (`Differences`). It takes points
  for equal when the products of their t with the other's z are; two different
  points with equal t exist, but not among the multiples of a generator of odd
  order, of which none but O has x = 0 (`XIsZero`) and none has y = 0
  (`YIsNotZero`). Hence `DoubleAt`, `AddAt`, and `InfinityTold`: x = 0 or t = 0
  tells O. This is what "sane parameters" means in the class.
* *Multiplication.* `LadderAt` and `MulTableAt` go by the least multiplier for which
  they would fail. `Adequate` is the invariant of the rounds: of a multiplier below
  twice the order nothing is left when the entry is 4 times the order, and the
  table reaches twice as far. No entry is INFINITY, since the order is odd (`EntryAt`).
* *Encodings.* `RootOnCurve`: an x whose square is `XSquared` is on the curve, also for
  a y beyond P. `RootUnique`: the two roots differ in parity, so that the sign tells
  which. `Reads` and `WrittenHeld`: from_bytes inverts to_bytes.
* *States.* The invariants are not inductive: what `Verify` says depends on what
  the point of the key became by reading, scaling and precomputing.
  `IInv` says that each point is `Held`: INFINITY, or a z that is not 0, with
  coordinates for the multiple its ghost names and the order 0 or that of the
  generator (`Placed`, `Located`); that a key's point
  has the bytes kept beside it (`KeyOf`) and the form `_maybe_precompute` wants if
  it has a table (`Tabled`); that a signature is one `sign()` makes (`SignedBy`) and the
  verdict that of `Verifies` (`CheckedBy`).

### KeyExchangeProofs

For all fields, curves, numbers and files:

| Theorem | Statement |
|---|---|
| `KeysStayOnCurve` | `Spec => []KeysOnCurve` |
| `PartiesAgree` | `Spec => [](OddGenerator(curve) => SecretShared)` |
| `FilesReadBack` | `Spec => []ReadBack` |

Assumed: `CurvesAssumption`, that curves are on fields there are, `""` being
none; for `FilesReadBack` also `GroupsAssumption` and `LibraryAssumption`, below.
`KeysOnCurve` is inductive; the work is in the lemmas, which follow every path through the readers of keys and curves:
`CurveReads`, `PublicFiles`, `ECPrivateKeys` and `PrivateFiles` say that what
each returns without an error is on a curve, whatever the string holds. A reader
that returned a key without a curve would leave the session unset with a key in
it, and the next key would bring a curve of its own. `PrivateKeyStep` and
`PublicKeyStep` are the two methods all loading ends in.

`SecretShared` holds in the state after `generate_sharedsecret()` because of what
the private key is, wherever it was read: a multiple of the generator of its
curve by its own secret (`SecretFits`, which `ReadingFits` says of every reader).
`SessionInv` adds that a secret is still the one that the keys of the session
make. That both parties then compute the same point is commutativity; that both
or neither get INFINITY is not: `__mul__` takes a point whose y is 0 for INFINITY,
and if the order of the generator is even a public key may be such a point while
the shared point is another. `OddGenerator`, of which
every curve of prime order is an example, excludes it (`OddOrder`). It is stated
of the curve of the session, since a curve that was read from a file is whatever
the file says; TLC checks it for all curves of its instance (`MCAssumption`).

`FilesReadBack` is about every key on every curve, every form of points, every
encoding of curves and both formats, before and after any number of keys read and
written again; `written` and `damage` say what a file was written as. Its
argument goes from the string up:

* *Elements.* `Lift(s, n)` is a string n levels deeper. An element at the front
  of a string, at any depth, is what the readers take it for: its tag and
  values, `Body` its contents one level deeper, `Rest` what was written after it
  (`FirstElement`, `SeqFirst`, `Parses`). Contents never end too early or late, since
  all of them are deeper than the element and what follows is not.
* *Curves.* `CurveBack`: `ReadCurve` makes of what `CurveToDer` writes a curve
  that is `Same`, or refuses the encoding. An explicit curve comes back without
  its OID, or as the curve of the library it is equal to, so that keys live on
  `Known` curves: those there are, and their copies without a name. Equal
  curves have the same order, because each is the order of the same generator
  (`SameGroup`), and with it the same length of secrets.
* *Keys.* `GoodKey`: a public point has the order of the curve, so that
  `Public_key` accepts it on every equal curve, whatever cofactor that one has;
  a private key is what `from_string` makes of its string, so that reading it
  computes the same point. `PublicBack`, `SsleayBack`, `Pkcs8Back` and their twins for
  EdDSA follow the readers through what the writers made.
* *Files.* `PublicFile` and `PrivateFile` are the sections of PEM. A reader of the
  other kind of key must not succeed on a file, or it would read a key that was
  never written: `NoPublicKey` and `ParametersNoKey` exclude it.

The inductive invariant is `FileInv`: keys and what was read are good, and an
undamaged file is what some writer makes of the writer's key. `ReadBack` itself
is not inductive: that the key read from a file is like the one written does not
say that it can be written and read again.

`GroupsAssumption` says that the groups have a size and that the order of every
curve is that of its generator, as `curves.py` states of the curves it has and any other
program must of its own: `Public_key` and `from_secret_exponent` rely on it. The bytes of a
coordinate are two or more: with one, a compressed point would be as long as a
raw one, which `VerifyingKey.from_der` refuses by its length. `LibraryAssumption`: the
OIDs of the library differ, are not those of algorithms, and curves of other programs have
none and are not Edwards curves, for there is no other way to write those. TLC
evaluates the three on its instance.

### How they are done

Induction over the naturals is by the least counterexample (`NatMin` of
`ProofBasics`), since the library's theorems of induction take an operator as
parameter, which the provers cannot instantiate; recursive functions (the length
in bits) are shown to exist from their restrictions to an interval. That
exponents add up is counted on sets of subsets (`SubsetsOfUnion`). Where a
property of the points rests on products of more than two numbers, the proof
keeps the products under names and lets the prover see one identity at a time.

### Only model-checked

* Liveness: `Terminates`, `DeterministicReturns` and the liveness half of
  `RefinesImmutable`; the prover does not reason about fairness and `ENABLED`.
* `KeyValid` without the exception of products that add a `Twin`, on the curve of
  the run, where there are none.
* `DamageTold` and the types of `KeyExchange`: they are about what damage makes of
  the strings of the writers, element by element, for each of which the readers
  refuse in a place of their own; the run tries all of them on each kind of file.
* `LibraryCalls`: what recursive functions compute for every input needs an
  induction over data, which is out of the prover's reach.

## 5. Disagreements between the code and its documents

Each was met while modelling, is shown by a run and quoted in `PROJECT.json`.

| Run | What the code does |
|---|---|
| `PointTwins` | `_add_with_z_1` compares `H` and `r` with zero unreduced. After `__neg__` a Y is negative, and adding equal points whose Y differ by P gives INFINITY instead of the double. |
| `KeyOrderTwo` | `PointJacobi.__mul__` returns INFINITY for every multiplier when `y = 0`, so that the test of `Public_key` accepts a point of order two as a key when the cofactor is even. |
| `EcdsaWholeDigest` | `sign_digest_deterministic` without truncation signs all bits of a digest but derives the nonce from the leftmost ones: on NIST521p two digests of 66 bytes can share the nonce. |

The models follow the code in these further points, for which no run of their
own is kept:

* The point of a key loaded by `from_string`, `from_der` or `from_pem` has no
  order (`keys.py:275`), and `precompute()` makes a generator without an order of
  it (`keys.py:209`). There `assert order` fails (`ellipticcurve.py:602`):
  `precompute()` raises AssertionError, or with `lazy` returns, no table is made,
  and every later verification with that key raises AssertionError
  (`AssertOrder` of `SharedPoint`; `PrecomputedWhenQuiet` says that there is no table).
* `bits_and_bytes` takes a length from a logarithm in floats (`util.py:147`): for
  orders just below a power of two (NIST192p, NIST224p, NIST384p, NIST521p,
  SECP256k1, Ed448) it is one bit too long, and `randrange_from_seed__trytryagain`
  draws again more often than not, which a comment says it avoids
  (`util.py:196`). Its numbers stay uniform (`TryBits`, `DrawsUniform`).
* `Point.double()` returns INFINITY when the slope of the tangent is 0, also
  where y is not 0 (`ellipticcurve.py:1272`; `ADouble` in `Jacobian`).
* `assert self * order == INFINITY` in `Point.__init__` cannot fail, since
  `__mul__` reduces by the order it is to test (`ellipticcurve.py:1109`).
* On a curve whose cofactor has an odd factor, an addition of twins in
  `n * point` can let `Public_key` accept a point that is no multiple of the
  generator (the example above, at `KeysAreMultiples`).
* `PointJacobi.from_bytes` does not check that raw, uncompressed or hybrid
  coordinates are on the curve; `Public_key` does (`PointFromBytes`).
* `verify_digest` raises TypeError, not BadSignatureError, when the sum of the
  products is INFINITY (`ecdsa.py:206`; `Verifies`).
* `y()` is not reduced when Z is 1, so that the compressed encoding of a negated
  point has the wrong parity (`ellipticcurve.py:697`; `ToBytes` of
  `KeyEncoding`).
* `load_received_public_key_bytes` passes `valid_encodings` where `hashfunc` is
  expected: every encoding is accepted; without a curve it raises
  AttributeError, not NoCurveError (`ecdh.py:260`; `LoadPublicBytes`).
* An ECDH session with EdDSA keys raises AttributeError when the secret is asked
  for (`Agreed`).
* `set_curve` with keys loaded is not refused, the secret is
  (`InvalidCurveError`; the ghost `switched`).
* An explicit curve that is equal to one of the library is that curve, whatever
  order and cofactor the file had (`Prefer`). A curve that is not keeps them; its
  order stands for its cofactor's test (`PublicOf`).
* `SigningKey.from_pem` cuts off what is before the key; `Curve.from_pem` does
  not cut off what comes after, which only works when the base64 of the
  parameters ends with padding (`ReadCurvePem`, `Unpem`).
* Readers of octet strings, bit strings and tagged values accept a length beyond
  the end of the string (`TooLong`), a truncated bit string may raise
  IndexError, as an empty octet string or tagged value does.
* `PointEdwards.from_bytes` accepts y of P and more, and a sign for x = 0; a key
  at INFINITY or a nonce with R at INFINITY raises AttributeError from
  `to_bytes` (`FromBytes`, `Sign`).
* `order_mod` returns 2 for an x that is 1 modulo m but not 1, since `z` starts
  unreduced (`numbertheory.py:495`), which `NumbersExact` leaves alone, and
  `largest_factor_relatively_prime` does not end for a = 0; both are deprecated.
  `inverse_mod(m, m)` is 1 by Euclid's algorithm and a
  ValueError by `pow`.

The passing runs keep clear of what goes wrong where they must:
`Twins = FALSE`, and a curve of prime order without horizontal tangents
(`NoFlatTangent`), in `PointArithmetic`; `KeyValid` excepts `y = 0`, and its
curve has no product with a twin; a generator with an even y in
`Ecdsa` (with an odd one, recovery would meet `PointTwins`); `NonceOnce` speaks
of truncated digests; `WireStrict` takes what the
buffer cuts short as the code does; for `AcceptsEquation` a TypeError is a refusal.

## 6. What is not modelled

* Timing, blinding and side channels: they are not behaviour of a state machine.
* `gmpy2`: its integers compute what Python's do. Python 2: the code paths for
  it differ in conversions only.
* `_sha3.py`: a pure function of bits, best checked by its test vectors; hashes
  and HMAC are arbitrary functions here. So are the bytes of `PRNG`.
* `randrange_from_seed__truncate_bytes` and `__truncate_bits`: on Python 3 they
  raise TypeError for every seed.
* Base64 and line breaking of PEM, `ssh.py`'s framing, versioning
  (`_version.py`, `versioneer.py`), `_compat.py`: text conversions without state.
* `curve_by_name`, and the constants of the curves: data.
* `SigningKey.sign`, `sign_deterministic` and `VerifyingKey.verify`: they hash,
  and call what `Ecdsa` models. The choice of hash functions: a digest is a value.
* Threads that share `PointEdwards` objects, or the cached public key of an EdDSA
  private key (`eddsa.py:222`): the accesses are those of `SharedPoint`, in which
  coordinates are stored at once and tables when they are complete; a cached key
  is computed from the same bytes by every thread.
* Additions of Edwards points outside of the generator's group: the class says
  it assumes sane parameters. There `_add` doubles some points that differ.

## 7. The plan

Done: every module of the first plan, with runs: `SharedPoint` with its
refinement, `ScalarMultiplication` with its proofs, `Jacobian`,
`PointArithmetic`, `KeyEncoding`, `Ecdsa`, `Edwards`, `EdDSA`, `KeyFiles`,
`KeyTransfer`, `Ecdh`, `KeyExchange`, `NumberTheory`, `DerStrings`,
`Signatures`, `LibraryCalls`.

Proved: `SharedPoint` with the safety of its refinement, `ScalarMultiplication`,
the formulas and multiplications of `Jacobian` with the associative law, `PointArithmetic`, `KeyEncoding`,
all safety properties of `Ecdsa`, all of `EdDSA`, and `KeysOnCurve`,
`SecretShared` and `ReadBack` of `KeyExchange`.

Left, in order of importance:

1. `DamageTold`, from what `FileInv` says of a file and each kind of damage in turn.
2. `EdDSA` under threads, in the manner of `SharedPoint`.
