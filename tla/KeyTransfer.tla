---------------------------- MODULE KeyTransfer ----------------------------
(***************************************************************************)
(* A key is made, written to a file, the file is damaged on its way, and   *)
(* someone reads it, who may then write the key he has read.               *)
(***************************************************************************)
EXTENDS KeyFiles, FiniteSets

CONSTANTS SecretNumbers,  \* the numbers keys are made from
          Forms,          \* the point forms asked for when writing
          MaxDamage       \* how often a file is damaged

ASSUME TransferAssumption ==
    SecretNumbers \subseteq Nat /\ MaxDamage \in Nat

Asked == {"None", "named_curve", "explicit"}

(* The valid_encodings of curves and of points that readers insist on.     *)
ValidCurves == {{}, {"named_curve"}, {"explicit"}}
ValidForms  == {{}, {"compressed"}, {"uncompressed", "hybrid"}}

VARIABLES key,      \* the key of the writer
          file,     \* PEM sections; the last is also the DER file
          written,  \* ghost: kind, curve encoding and form of what is in it
          damage,   \* how often it was damaged
          result    \* what the last operation returned or raised

transfer == <<key, file, written, damage, result>>

What(kind, encoding, form) == [kind |-> kind, encoding |-> encoding, form |-> form]
Nothing == What("none", "", "")

NoResult == KeyError("none")

TransferInit ==
    /\ key = NoKey /\ file = <<>> /\ written = Nothing
    /\ damage = 0 /\ result = NoResult

(* SigningKey.from_secret_exponent and from_string                         *)
Made(num, c) ==
    {FromSecretExponent(num, c)} \cup
    (IF num < Byte ^ BaseLen(c)
     THEN {PrivateFromString([num |-> num, len |-> BaseLen(c)], c)} ELSE {})

MakeKey ==
    /\ key = NoKey /\ result = NoResult
    /\ \E c \in Curves, num \in SecretNumbers : result' \in Made(num, c)
    /\ UNCHANGED <<key, file, written, damage>>

(* The file is written, or there is none.                                  *)
Writes(w, what, header, before) ==
    /\ key # NoKey /\ file = <<>>
    /\ IF w.error = ""
       THEN /\ file' = before \o <<Section(header, w.string)>>
            /\ written' = what /\ result' = NoResult
       ELSE result' = KeyError(w.error) /\ UNCHANGED <<file, written>>
    /\ UNCHANGED <<key, damage>>

(* VerifyingKey.to_der, to_pem                                             *)
WritePublic ==
    \E form \in Forms, asked \in Asked :
      Writes(PublicToDer(VerifyingKey(key), form, asked),
             What("public", IF Edwards(key.curve) THEN "edwards" ELSE Encoding(key.curve, asked),
                  form),
             "PUBLIC KEY", <<>>)

(* Other programs put the curve before a key, as Curve.to_pem writes it.   *)
Parameters(c) ==
    {<<>>} \cup
    {<<Section("EC PARAMETERS", CurveToDer(c, asked, "uncompressed").string)>> :
       asked \in {a \in Asked : CurveToDer(c, a, "uncompressed").error = ""}}

(* SigningKey.to_der, to_pem                                               *)
WritePrivate ==
    /\ key.kind = "private"
    /\ \E form \in Forms, asked \in Asked, format \in {"ssleay", "pkcs8"},
          before \in Parameters(key.curve) :
         Writes(PrivateToDer(key, form, format, asked),
                What("private", IF Edwards(key.curve) THEN "edwards"
                                ELSE Encoding(key.curve, asked), form),
                IF format = "ssleay" THEN "EC PRIVATE KEY" ELSE "PRIVATE KEY", before)

(* One element of the DER file is lost, repeated, swapped with the next,   *)
(* or has the type of another.                                             *)
Without(s, i)  == SubSeq(s, 1, i - 1) \o SubSeq(s, Last(s, i) + 1, Len(s))
Repeated(s, i) == SubSeq(s, 1, Last(s, i)) \o SubSeq(s, i, Len(s))
Swapped(s, i)  ==
    LET j == Last(s, i) + 1
        k == Last(s, j)
    IN SubSeq(s, 1, i - 1) \o SubSeq(s, j, k) \o SubSeq(s, i, j - 1) \o SubSeq(s, k + 1, Len(s))
Siblings(s, i) == Last(s, i) < Len(s) /\ s[Last(s, i) + 1].depth = s[i].depth

Tags == {"seq", "oct", "oid", "int", "bit", "c0", "c1"}

Damaged(s) ==
    UNION {{Without(s, i), Repeated(s, i)}
             \cup {[s EXCEPT ![i].tag = tag] : tag \in Tags \ {s[i].tag}}
             \cup (IF Siblings(s, i) THEN {Swapped(s, i)} ELSE {}) : i \in 1 .. Len(s)}

(* Bound: only files without parameters before the key are damaged.        *)
Damage ==
    /\ Len(file) = 1 /\ damage < MaxDamage /\ result = NoResult
    /\ \E s \in Damaged(file[1].string) : file' = <<[file[1] EXCEPT !.string = s]>>
    /\ damage' = damage + 1
    /\ UNCHANGED <<key, written, result>>

Der == file[Len(file)].string

(* VerifyingKey.from_der, from_pem                                         *)
PublicResults(forms, valid) ==
    {ReadPublic(Der, forms, valid)}
      \cup {ReadPublicPem(file, padding, forms, valid) : padding \in BOOLEAN}

(* SigningKey.from_der, from_pem                                           *)
PrivateResults(valid) ==
    {ReadPrivate(Der, valid)} \cup {ReadPrivatePem(file, padding, valid) : padding \in BOOLEAN}

(* Bound: what is read from damaged files is only looked at.               *)
Reads ==
    /\ file # <<>> /\ damage = 0 /\ result = NoResult
    /\ UNCHANGED <<key, file, written, damage>>

ReadPublicKey ==
    Reads /\ \E forms \in ValidForms, valid \in ValidCurves :
               result' \in PublicResults(forms, valid)

ReadPrivateKey ==
    Reads /\ \E valid \in ValidCurves : result' \in PrivateResults(valid)

(* The reader is the next writer, or the file is thrown away.              *)
Adopt ==
    /\ result # NoResult \/ damage > 0
    /\ key' = IF result.error = "" THEN result.key ELSE key
    /\ file' = <<>> /\ written' = Nothing /\ damage' = 0 /\ result' = NoResult

TransferNext ==
    \/ MakeKey \/ WritePublic \/ WritePrivate \/ Damage
    \/ ReadPublicKey \/ ReadPrivateKey \/ Adopt

----------------------------------------------------------------------------
Kinds == {"private", "public", "none"}

TransferTypes ==
    /\ key.kind \in Kinds /\ result.key.kind \in Kinds /\ damage \in 0 .. MaxDamage
    /\ \A i \in 1 .. Len(file) : \A j \in 1 .. Len(file[i].string) :
         /\ file[i].string[j].tag \in Tags
         /\ j > 1 => file[i].string[j].depth <= file[i].string[j - 1].depth + 1

(* What a file was written from.                                           *)
Original == IF written.kind = "public" THEN VerifyingKey(key) ELSE key

(* A file that was not damaged is read back as the same key, from DER and  *)
(* from PEM, also behind curve parameters if their base64 ends with        *)
(* padding or they are not what is looked for; unless the reader does not  *)
(* allow the encoding of the curve or the form of the point.               *)
ReadBack ==
    written # Nothing /\ damage = 0 =>
      \A valid \in ValidCurves, forms \in ValidForms :
        LET allowed == \/ written.encoding = "edwards" \/ valid = {} \/ written.encoding \in valid
            formAllowed == written.encoding = "edwards" \/ forms = {} \/ written.form \in forms
        IN IF written.kind = "private"
           THEN \A r \in PrivateResults(valid) :
                  IF allowed THEN r.error = "" /\ SameKey(r.key, key)
                  ELSE r.error = "UnexpectedDER"
           ELSE \A r \in PublicResults(forms, valid) :
                  IF allowed /\ formAllowed THEN r.error = "" /\ SameKey(r.key, Original)
                  ELSE r.error \in {"UnexpectedDER", "MalformedPointError"}

(* A file that lacks an element, has one twice or in another place, or one *)
(* of another type, is refused or read as the key it was written from: no  *)
(* field is taken for another.  If the curve is equal to one of the        *)
(* library it is that curve, with its order and cofactor, whatever is left *)
(* of the explicit parameters: Curve.__eq__ looks at neither.              *)
DamageTold ==
    damage > 0 =>
      \A r \in {ReadPublic(Der, {}, {}), ReadPrivate(Der, {})} :
        IF r.error = ""
        THEN /\ SameKey(r.key, Original)
             /\ \A c \in Library : Same(r.key.curve, c) => r.key.curve = c
        ELSE r.error \in {"UnexpectedDER", "MalformedPointError", "UnknownCurveError",
                          "IndexError"}
=============================================================================
