----------------------------- MODULE Signatures -----------------------------
(***************************************************************************)
(* Numbers from random bytes, and signatures as byte strings:              *)
(* src/src/ecdsa/util.py.                                                  *)
(***************************************************************************)
EXTENDS DerStrings

CONSTANT RoundedUp  \* the orders for which log2(order - 1), a float, rounds up

ASSUME RoundedUpAssumption == RoundedUp \subseteq Nat

(* bit_length, which is 1 for 0                                            *)
BitLength[n \in Nat] == IF n < 2 THEN 1 ELSE 1 + BitLength[n \div 2]

OrderLen(order) == Len(BytesOf[order])

(* Where the loop of randrange ends: what it returns for the first bits    *)
(* that were drawn, or 0 if it draws again.                                *)
RandrangeBits(order) == BitLength[order - 2]

(* A mutant: the order itself is returned.                                 *)
RandrangeInclusive(bits, order) == IF bits + 1 <= order THEN bits + 1 ELSE 0

Randrange(bits, order) == IF bits + 1 < order THEN bits + 1 ELSE 0

(* randrange_from_seed__overshoot_modulo, of what the PRNG made of a seed  *)
OvershootModulo(number, order) == (number % (order - 1)) + 1

(* randrange_from_seed__trytryagain: the bits the logarithm asks for, of   *)
(* which those beyond whole bytes are the lowest of a byte of their own.   *)
(* The logarithm of an order just below a power of two may round up to an  *)
(* integer, which gives one bit more.                                      *)
TryBits(order) == BitLength[order - 1] + (IF order \in RoundedUp THEN 1 ELSE 0)
LsbOfOnes(numbits) == 2 ^ numbits - 1
TryAgain(extrabyte, number, order) ==
    LET bits == TryBits(order)
        high == IF bits % 8 = 0 THEN 0 ELSE extrabyte % (LsbOfOnes(bits % 8) + 1)
        guess == high * 256 ^ (bits \div 8) + number + 1
    IN IF guess < order THEN guess ELSE 0

----------------------------------------------------------------------------
(* number_to_string: binascii refuses an odd number of digits.             *)
NumberToString[num \in Nat, order \in Nat] ==
    LET l == OrderLen(order)
        s == BytesOf[num]
    IN IF Len(s) > l
       THEN Raise(IF s[1] < 16 THEN "Error" ELSE "AssertionError")
       ELSE Read([i \in 1 .. l |-> IF i <= l - Len(s) THEN 0 ELSE s[i - (l - Len(s))]], <<>>)

(* number_to_string_crop                                                   *)
NumberToStringCrop(num, order) ==
    LET s == BytesOf[num] IN
    IF Len(s) > OrderLen(order)
    THEN IF s[1] < 16 THEN Raise("Error") ELSE Read(SubSeq(s, 1, OrderLen(order)), <<>>)
    ELSE NumberToString[num, order]

Canonize(s, order) == IF s > order \div 2 THEN order - s ELSE s

(* sigencode_string                                                        *)
SigencodeString[r \in Nat, s \in Nat, order \in Nat] ==
    LET rs == NumberToString[r, order]
        ss == NumberToString[s, order]
    IN IF rs.error # "" THEN rs ELSE IF ss.error # "" THEN ss
       ELSE Read(rs.value \o ss.value, <<>>)

(* sigencode_der                                                           *)
SigencodeDer(r, s, order) == Read(EncodeSequence(EncodeInteger[r] \o EncodeInteger[s]), <<>>)

(* sigdecode_strings                                                       *)
SigdecodeStrings(strings, order) ==
    IF Len(strings) # 2 \/ \E i \in 1 .. Len(strings) : Len(strings[i]) # OrderLen(order)
    THEN Raise("MalformedSignature")
    ELSE Read(<<NumberOf[strings[1]], NumberOf[strings[2]]>>, <<>>)

(* sigdecode_string                                                        *)
SigdecodeString[signature \in ByteStrings, order \in Nat] ==
    LET l == OrderLen(order) IN
    IF Len(signature) # 2 * l THEN Raise("MalformedSignature")
    ELSE SigdecodeStrings(<<SubSeq(signature, 1, l), From(signature, l + 1)>>, order)

(* sigdecode_der                                                           *)
SigdecodeDer[signature \in ByteStrings] ==
    LET rs == RemoveSequence[signature]
        r == RemoveInteger[rs.value]
        s == RemoveInteger[r.rest]
    IN IF rs.error # "" THEN rs ELSE IF rs.rest # <<>> THEN UnexpectedDER
       ELSE IF r.error # "" THEN r
       ELSE IF s.error # "" THEN s
       ELSE IF s.rest # <<>> THEN UnexpectedDER
       ELSE Read(<<r.value, s.value>>, <<>>)
=============================================================================
