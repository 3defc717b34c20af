----------------------------- MODULE PointCalls -----------------------------
(***************************************************************************)
(* What the callers of PointJacobi see: values of points, the calls a      *)
(* thread makes and the answer each call is to have.  It is the common     *)
(* ground of ImmutablePoint, which promises those answers, and of          *)
(* SharedPoint, which computes them on mutable objects.                    *)
(***************************************************************************)
EXTENDS Naturals, FiniteSets

CONSTANTS Threads,   \* the threads that call methods of the points
          Objects,   \* the PointJacobi instances there can be
          G,         \* the generator of the curve, a module-level object
          Q,         \* the point of the public key when the key is loaded
          QValue,    \* the value of Q, that of G being 1
          Order,     \* the order of the group
          QOrders,   \* what Q may have for its order, 0 if it has none
          Scalars    \* the multipliers callers use

ASSUME ObjectsAssumption == {G, Q} \subseteq Objects /\ G # Q
ASSUME OrderAssumption   == Order \in Nat /\ Order > 2 /\ Order % 2 = 1
ASSUME QAssumption       == QValue \in 1 .. Order - 1
ASSUME QOrdersAssumption == QOrders \subseteq {0, Order}
ASSUME ScalarsAssumption == Scalars \subseteq Nat

(* A point of the group is the multiple of the base point it is; the point *)
(* at infinity is 0.                                                       *)
Value == 0 .. Order - 1

(* What a computation yields that took the X and Y of a triple with Z # 1  *)
(* for affine coordinates.                                                 *)
Garbage == Order

Times(k, v) == IF v = Garbage THEN Garbage ELSE (k * v) % Order
Plus(v, w)  == IF Garbage \in {v, w} THEN Garbage ELSE (v + w) % Order

(* The answers that are no value: none yet, KeyboardInterrupt, None, and   *)
(* AssertionError.                                                         *)
Nothing     == Order + 1
Interrupted == Order + 2
Done        == Order + 3
Failed      == Order + 4

(* Calls that make a new object with the value of an old one.              *)
Allocators == {"precompute", "precompute_lazy", "pickle"}

CallOf(kind, o, k, o2, k2) ==
    [kind |-> kind, obj |-> o, k |-> k, other |-> o2, k2 |-> k2]

NoCall == CallOf("none", G, 0, G, 0)

CallKinds == {"mul", "mul_add", "to_affine", "xy", "eq"} \cup Allocators

Multipliers == Scalars \cup {0}

Requests == [kind : CallKinds \cup {"none"}, obj : Objects, k : Multipliers,
             other : Objects, k2 : Multipliers]

(* The answer to call r when the value of object o is val[o].              *)
Answer(r, val) ==
    CASE r.kind = "mul"     -> Times(r.k, val[r.obj])
      [] r.kind = "mul_add" -> Plus(Times(r.k, val[r.obj]),
                                    Times(r.k2, val[r.other]))
      [] r.kind \in {"to_affine", "xy", "pickle"} -> val[r.obj]
      [] r.kind = "eq"      -> IF val[r.obj] = val[r.other] THEN 1 ELSE 0
      [] OTHER              -> Done
=============================================================================
