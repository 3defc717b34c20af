----------------------------- MODULE DerStrings -----------------------------
(***************************************************************************)
(* Writing and reading DER byte by byte: src/src/ecdsa/der.py.  A byte     *)
(* string is a sequence of 0 .. 255.  A reader, a function of byte strings, *)
(* returns what it found and the rest, or says what it raises.             *)
(***************************************************************************)
EXTENDS Integers, Sequences

ByteStrings == Seq(0 .. 255)

Read(value, rest) == [error |-> "", value |-> value, rest |-> rest]
Raise(e)          == [error |-> e, value |-> <<>>, rest |-> <<>>]
UnexpectedDER     == Raise("UnexpectedDER")

(* The bytes of a number, without leading zeros, big endian.               *)
BytesOf[n \in Nat] == IF n < 256 THEN <<n>> ELSE Append(BytesOf[n \div 256], n % 256)

(* Bound: numbers of four bytes and more count as one that is longer than  *)
(* any string.                                                             *)
Large == 2 ^ 24

NumberOf[s \in ByteStrings] ==
    LET number[i \in 0 .. Len(s)] ==
          IF i = 0 THEN 0
          ELSE IF number[i - 1] >= Large \div 256 THEN Large
          ELSE number[i - 1] * 256 + s[i]
    IN number[Len(s)]

(* string[i - 1 : j] of Python, which ends where the string ends.          *)
Slice(s, i, j) == SubSeq(s, i, IF j < Len(s) THEN j ELSE Len(s))
From(s, i)     == SubSeq(s, i, Len(s))

----------------------------------------------------------------------------
EncodeLength[l \in Nat] ==
    IF l < 128 THEN <<l>> ELSE <<128 + Len(BytesOf[l])>> \o BytesOf[l]

Encode(tag, body) == <<tag>> \o EncodeLength[Len(body)] \o body

EncodeConstructed(tag, value) == Encode(160 + tag, value)

(* Tag classes: 1 application, 2 context-specific, 3 private.              *)
EncodeImplicit(tag, value, class) ==
    IF class \notin 1 .. 3 \/ tag > 31 THEN Raise("ValueError")
    ELSE Read(Encode(64 * class + tag, value), <<>>)

EncodeInteger[r \in Nat] ==
    Encode(2, IF BytesOf[r][1] < 128 THEN BytesOf[r] ELSE <<0>> \o BytesOf[r])

(* unused is one of these, or a number of bits.                            *)
None   == -1
Sentry == -2

EncodeBitstring[s \in ByteStrings, unused \in Int] ==
    IF unused \in {None, Sentry} THEN Read(Encode(3, s), <<>>)
    ELSE IF \/ unused \notin 0 .. 7
            \/ unused # 0 /\ (s = <<>> \/ s[Len(s)] % 2 ^ unused # 0)
    THEN Raise("ValueError")
    ELSE Read(Encode(3, <<unused>> \o s), <<>>)

EncodeOctetString(s) == Encode(4, s)

EncodeNumber[n \in Nat] ==
    LET digits[k \in Nat] ==
          (IF k < 128 THEN <<>> ELSE digits[k \div 128]) \o <<128 + (k % 128)>>
        s == digits[n]
    IN [s EXCEPT ![Len(s)] = @ - 128]

EncodeOid[numbers \in Seq(Nat)] ==
    LET body[i \in 2 .. Len(numbers)] ==
          IF i = 2 THEN EncodeNumber[40 * numbers[1] + numbers[2]]
          ELSE body[i - 1] \o EncodeNumber[numbers[i]]
    IN IF \/ numbers[1] \in {0, 1} /\ numbers[2] <= 39
          \/ numbers[1] = 2
       THEN Read(Encode(6, body[Len(numbers)]), <<>>)
       ELSE Raise("AssertionError")

EncodeSequence(pieces) == Encode(48, pieces)

----------------------------------------------------------------------------
(* A mutant: a long form is not compared with the short one.               *)
IsMinimalLong(s, llen) == s[2] # 0

(* The length in llen bytes is in as few bytes as can be.                  *)
IsMinimal(s, llen) == s[2] # 0 /\ (llen = 1 => s[2] >= 128)

(* read_length: the length and how many bytes it takes                     *)
ReadLength[s \in ByteStrings] ==
    LET llen == s[1] - 128 IN
    IF s = <<>> THEN UnexpectedDER
    ELSE IF s[1] < 128 THEN Read(<<s[1], 1>>, <<>>)
    ELSE IF llen = 0 \/ llen > Len(s) - 1 \/ ~ IsMinimal(s, llen) THEN UnexpectedDER
    ELSE Read(<<NumberOf[SubSeq(s, 2, 1 + llen)], 1 + llen>>, <<>>)

(* The body of the first element, cut off where the string ends.           *)
Element[s \in ByteStrings] ==
    LET l == ReadLength[Tail(s)]
        first == 2 + l.value[2]
        last == first + l.value[1] - 1
    IN IF l.error # "" THEN l ELSE Read(Slice(s, first, last), From(s, last + 1))

(* Whether its length is more than there is.                               *)
TooLong[s \in ByteStrings] ==
    LET l == ReadLength[Tail(s)] IN
    l.error = "" /\ l.value[1] > Len(s) - 1 - l.value[2]

RemoveConstructed[s \in ByteStrings] ==
    LET e == Element[s] IN
    IF s = <<>> THEN Raise("IndexError")
    ELSE IF s[1] \div 32 # 5 THEN UnexpectedDER
    ELSE IF e.error # "" THEN e
    ELSE Read(<<s[1] % 32, e.value>>, e.rest)

RemoveImplicit[s \in ByteStrings, class \in 1 .. 3] ==
    LET e == Element[s] IN
    IF s = <<>> THEN Raise("IndexError")
    ELSE IF s[1] \div 64 # class \/ (s[1] \div 32) % 2 # 0 THEN UnexpectedDER
    ELSE IF e.error # "" THEN e
    ELSE Read(<<s[1] % 32, e.value>>, e.rest)

RemoveSequence[s \in ByteStrings] ==
    IF s = <<>> THEN UnexpectedDER
    ELSE IF s[1] # 48 \/ TooLong[s] THEN UnexpectedDER
    ELSE Element[s]

RemoveOctetString[s \in ByteStrings] ==
    IF s = <<>> THEN Raise("IndexError")
    ELSE IF s[1] # 4 THEN UnexpectedDER
    ELSE Element[s]

(* read_number: the number and how many bytes it takes                     *)
ReadNumber[s \in ByteStrings] ==
    LET read[llen \in 0 .. Len(s), number \in Nat] ==
          IF llen = Len(s) THEN UnexpectedDER
          ELSE LET d == s[llen + 1]
                   n == number * 128 + (d % 128)
               IN IF d < 128 THEN Read(<<n, llen + 1>>, <<>>) ELSE read[llen + 1, n]
    IN IF s[1] = 128 THEN UnexpectedDER ELSE read[0, 0]

RemoveObject[s \in ByteStrings] ==
    LET e == Element[s]
        numbers[i \in 1 .. Len(e.value) + 1] ==  \* of the bytes from i on
          IF i > Len(e.value) THEN Read(<<>>, <<>>)
          ELSE LET n == ReadNumber[From(e.value, i)]
                   more == numbers[i + n.value[2]]
               IN IF n.error # "" THEN n
                  ELSE IF more.error # "" THEN more
                  ELSE Read(<<n.value[1]>> \o more.value, <<>>)
        all == numbers[1]
        n0 == all.value[1]
        first == IF n0 < 80 THEN n0 \div 40 ELSE 2
    IN IF s = <<>> THEN UnexpectedDER
       ELSE IF s[1] # 6 THEN UnexpectedDER
       ELSE IF e.error # "" THEN e
       ELSE IF e.value = <<>> \/ TooLong[s] THEN UnexpectedDER
       ELSE IF all.error # "" THEN all
       ELSE Read(<<first, n0 - 40 * first>> \o Tail(all.value), e.rest)

RemoveInteger[s \in ByteStrings] ==
    LET e == Element[s] IN
    IF s = <<>> THEN UnexpectedDER
    ELSE IF s[1] # 2 THEN UnexpectedDER
    ELSE IF e.error # "" THEN e
    ELSE IF \/ TooLong[s] \/ e.value = <<>>
            \/ e.value[1] >= 128
            \/ Len(e.value) > 1 /\ e.value[1] = 0 /\ e.value[2] < 128
    THEN UnexpectedDER
    ELSE Read(NumberOf[e.value], e.rest)

(* remove_bitstring: with None the value goes with the unused bits.        *)
RemoveBitstring[s \in ByteStrings, expect \in Sentry .. 7] ==
    LET e == Element[s]
        unused == e.value[1]
        body == Tail(e.value)
    IN IF s = <<>> THEN UnexpectedDER
       ELSE IF s[1] # 3 THEN UnexpectedDER
       ELSE IF e.error # "" THEN e
       ELSE IF ReadLength[Tail(s)].value[1] = 0 THEN UnexpectedDER
       ELSE IF expect = Sentry THEN e
       ELSE IF e.value = <<>> THEN Raise("IndexError")
       ELSE IF \/ unused > 7 \/ (expect # None /\ expect # unused)
               \/ unused # 0 /\ (body = <<>> \/ body[Len(body)] % 2 ^ unused # 0)
       THEN UnexpectedDER
       ELSE Read(IF expect = None THEN <<unused, body>> ELSE body, e.rest)
=============================================================================
