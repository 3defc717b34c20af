------------------------------ MODULE MCEcdsa ------------------------------
(* Instances of Ecdsa for TLC.  Bytes have two bits, the order is 7, and   *)
(* the curve has points at x = 6, 7 and 10: an ordinary one, one with      *)
(* r = 0 and one whose x is beyond the order.                              *)
EXTENDS Ecdsa

(* Digests of two or three bytes, as long as the order and too long; the   *)
(* last bits of the first two agree, and the second is a number that the   *)
(* order divides.                                                          *)
MCDigests == {Digest(2, 6), Digest(2, 14), Digest(3, 61)}

(* Two digests whose first bits agree.                                     *)
TwinDigests == {Digest(2, 6), Digest(2, 7)}

(* The curve of these instances is one the theorems are about.             *)
ASSUME MCAssumption == CurveSound

(* No signature of these instances is verified, and no key recovered from  *)
(* any two numbers, by way of a Twin.                                      *)
ASSUME MCWithoutTwin ==
    \A g \in Digests, t \in Truncations, r, s \in 1 .. Order - 1 :
      LET e == Number(g, t) IN
      /\ \A d \in Secrets, table \in BOOLEAN :
           Equation(Residues(KeyOf[d]), e, r, s) => ~ VerifierTwin(KeyOf[d], table, e, r, s)
      /\ \A q \in Recovered(e, r, s) :
           RecoverySound(e, r, s) /\ ~ VerifierTwin(q, FALSE, e, r, s)
=============================================================================
