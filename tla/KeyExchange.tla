---------------------------- MODULE KeyExchange ----------------------------
(***************************************************************************)
(* Keys that are written to files and read back, and a session of ECDH     *)
(* that loads keys as objects, as byte strings and from such files.        *)
(***************************************************************************)
EXTENDS KeyTransfer, Ecdh

CONSTANTS PartyNumbers,  \* the numbers the keys of a session are made from
          PartyPoints    \* the points whose strings are loaded

ASSUME PartyAssumption ==
    PartyNumbers \subseteq SecretNumbers /\ PartyPoints \subseteq Nat /\ Forms \subseteq AllForms

vars == <<transfer, session>>

Init == TransferInit /\ EcdhInit

(* Bound: files travel, and may be damaged, while there is no session; a   *)
(* session loads files as they were written.                               *)
NoSession == curve = NoCurve /\ private_key = NoKey /\ public_key = NoKey /\ outcome = Done

Transfer == NoSession /\ TransferNext /\ UNCHANGED session

Session == key = NoKey /\ result = NoResult /\ UNCHANGED transfer

(* The keys of a session, and the byte strings of the private ones.        *)
OtherKeys ==
    {made.key : made \in UNION {Made(num, c) : num \in PartyNumbers, c \in Curves}} \ {NoKey}

PrivateBytes == {[num |-> k.secret, len |-> BaseLen(k.curve)] : k \in OtherKeys}

(* What is loaded: these keys, and what is read from a file of either kind *)
(* written for them.                                                       *)
Files ==
    {w \in {PrivateToDer(k, "uncompressed", format, asked) :
              k \in OtherKeys, format \in {"ssleay", "pkcs8"}, asked \in Asked}
           \cup {PublicToDer(VerifyingKey(k), "uncompressed", asked) :
                   k \in OtherKeys, asked \in Asked} : w.error = ""}

PrivateReads ==
    {KeyRead(k) : k \in OtherKeys} \cup {ReadPrivate(w.string, {}) : w \in Files}

PublicReads ==
    {KeyRead(VerifyingKey(k)) : k \in OtherKeys} \cup {ReadPublic(w.string, {}, {}) : w \in Files}

PointStrings ==
    UNION {{PointString("oct", fp, point, form)[1] :
              point \in {n \in PartyPoints : n < Params[fp].size},
              form \in AllForms \cup {"edwards"}} : fp \in Fields}

(* Bound: of the strings of points of other curves those of one.           *)
StringsOf(c) ==
    {n \in PointStrings : n.name \in {c.fp, CHOOSE fp \in Fields : TRUE}}

Set == Session /\ SetCurve

Generate == Session /\ GeneratePrivateKey(PartyNumbers)

LoadPrivate == Session /\ \E read \in PrivateReads : LoadPrivateKey(read)

LoadPublic == Session /\ \E read \in PublicReads : LoadPublicKey(read)

LoadPrivateString == Session /\ \E bytes \in PrivateBytes : LoadPrivateBytes(bytes)

LoadPublicString ==
    Session /\ \E node \in StringsOf(curve) : LoadPublicBytes(node)

Agree == Session /\ GenerateSharedsecret

Next ==
    \/ Transfer \/ Set \/ Generate \/ LoadPrivate \/ LoadPublic
    \/ LoadPrivateString \/ LoadPublicString \/ Agree

Spec == Init /\ [][Next]_vars

----------------------------------------------------------------------------
(* The types of the keys and of the files.                                 *)
TypeOK ==
    /\ TransferTypes
    /\ curve = NoCurve \/ curve.fp \in Fields
    /\ private_key = NoKey \/ private_key.kind = "private"
    /\ public_key = NoKey \/ public_key.kind = "public"
    /\ outcome.error = "" => outcome.secret \in 1 .. Size(curve) \div 2
=============================================================================
