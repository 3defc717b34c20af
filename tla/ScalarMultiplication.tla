------------------------ MODULE ScalarMultiplication ------------------------
(***************************************************************************)
(* PointJacobi.__mul__ and mul_add (src/src/ecdsa/ellipticcurve.py): how a *)
(* multiplier becomes a sequence of doublings and additions, with a table  *)
(* of precomputed points or with the digits of its non-adjacent form, one  *)
(* multiplier alone or two at a time.                                      *)
(*                                                                         *)
(* A computation only ever adds multiples of self and of the other point.  *)
(* Point 1 is self, point 2 is other, and an accumulator is the pair of    *)
(* integers that says how often it contains each.  What the points are     *)
(* does not matter then; the formulas are the subject of Jacobian, and the *)
(* sharing of points by threads that of SharedPoint.                       *)
(***************************************************************************)
EXTENDS Integers, Sequences

CONSTANTS Order,       \* the order both points were made with, 0 for None
          Choices,     \* which of the points may be made with generator=True
          Multipliers  \* the multipliers callers use

Points == {1, 2}

(* `assert order' in _maybe_precompute.                                    *)
ASSUME GeneratorsAssumption ==
    /\ Order \in Nat /\ Choices \subseteq SUBSET Points
    /\ Order = 0 => Choices \subseteq {{}}

ASSUME MultipliersAssumption == Multipliers \subseteq Nat

(* `order*2 as a protection for Minerva'; mul_add reduces by the order.    *)
Reduce(k, modulus) == IF modulus = 0 THEN k ELSE k % modulus

(* Mutants of Digit: a threshold too low; no negative digits.              *)
DigitWide(n) == IF n % 2 = 0 THEN 0 ELSE (n % 4) - 4

DigitBinary(n) == n % 2

(* The least significant signed digit of a number.                         *)
Digit(n) == IF n % 2 = 0 THEN 0 ELSE IF n % 4 >= 2 THEN (n % 4) - 4 ELSE n % 4

(* Digit i of a list, zero beyond its end: mul_add pads the shorter list.  *)
At(list, i) == IF i <= Len(list) THEN list[i] ELSE 0

VARIABLES Generators, \* which of the points were made with generator=True
          pc,       \* what is executed next
          goal,     \* how often the caller wants each point
          owed,     \* the products still to be computed, a multiplier each
          out,      \* the sum of the products computed so far
          table,    \* __precompute of each point, as multiples of the point
          power,    \* i in _maybe_precompute
          list,     \* the table being built
          entry,    \* how many entries of the table have been used
          mult,     \* for each point, what is left of its multiplier
          digits,   \* for each point, the digits found so far
          trail,    \* for each point, the values mult has had (a ghost)
          left,     \* how many digits the loop still has to use
          acc       \* the accumulator

vars == <<Generators, pc, goal, owed, out, table, power, list, entry, mult, digits,
          trail, left, acc>>

scratch == <<power, list, entry, mult, digits, trail, left, acc>>

Labels == {"idle", "next", "prepare", "build", "table", "naf", "loop",
           "bothNaf", "bothLoop"}

Zero == [b \in Points |-> 0]

Init ==
    /\ Generators \in Choices
    /\ pc = "idle"
    /\ goal = Zero
    /\ owed = Zero
    /\ out = Zero
    /\ table = [b \in Points |-> <<>>]
    /\ power = 1 /\ list = <<>> /\ entry = 0
    /\ mult = Zero
    /\ digits = [b \in Points |-> <<>>]
    /\ trail = [b \in Points |-> <<0>>]
    /\ left = 0
    /\ acc = Zero

Lacking == {b \in Generators : table[b] = <<>>}

(* The point whose product is being computed, and its multiplier.          *)
Cur == IF owed[1] # 0 THEN 1 ELSE 2
K   == owed[Cur]

----------------------------------------------------------------------------
(* self * k                                                                *)
CallMul ==
    /\ pc = "idle"
    /\ \E k \in Multipliers :
         /\ goal' = [Zero EXCEPT ![1] = k]
         /\ owed' = [Zero EXCEPT ![1] = k]
    /\ pc' = "next"
    /\ out' = Zero
    /\ UNCHANGED <<table, scratch>>

(* self.mul_add(k, other, m)                                               *)
CallMulAdd ==
    /\ pc = "idle"
    /\ \E k, m \in Multipliers :
         /\ goal' = [Zero EXCEPT ![1] = k, ![2] = m]
         /\ owed' = IF m = 0 THEN [Zero EXCEPT ![1] = k]
                    ELSE IF k = 0 THEN [Zero EXCEPT ![2] = m] ELSE Zero
         /\ pc' = IF m = 0 \/ k = 0 THEN "next" ELSE "prepare"
    /\ out' = Zero
    /\ UNCHANGED <<table, scratch>>

(* The local variables of a method that has returned.                      *)
Forget ==
    /\ power' = 1 /\ list' = <<>> /\ entry' = 0
    /\ mult' = Zero
    /\ digits' = [b \in Points |-> <<>>]
    /\ trail' = [b \in Points |-> <<0>>]
    /\ left' = 0
    /\ acc' = Zero

(* A product is done, and the local variables with it.                     *)
Product(b, n) ==
    /\ Forget
    /\ out' = [out EXCEPT ![b] = @ + n]
    /\ owed' = [owed EXCEPT ![b] = 0]
    /\ pc' = "next"

Return ==
    /\ pc = "next" /\ owed = Zero
    /\ pc' = "idle"
    /\ UNCHANGED <<goal, owed, out, table, scratch>>

(* __mul__ up to the choice of the method; a product by 0 adds nothing.    *)
MulTrivial ==
    /\ pc = "next" /\ owed # Zero /\ K = 1
    /\ Product(Cur, 1)
    /\ UNCHANGED <<goal, table>>

StartBuild ==
    /\ power' = 1 /\ list' = <<1>>
    /\ UNCHANGED <<entry, mult, digits, trail, left, acc>>

StartTable(b, k) ==
    /\ entry' = 0
    /\ mult' = [mult EXCEPT ![b] = k]
    /\ acc' = Zero
    /\ UNCHANGED <<power, list, digits, trail, left>>

StartNaf(m) ==
    /\ mult' = m
    /\ trail' = [b \in Points |-> <<m[b]>>]
    /\ digits' = [b \in Points |-> <<>>]
    /\ UNCHANGED <<power, list, entry, left, acc>>

MulChoose ==
    /\ pc = "next" /\ owed # Zero /\ K # 1
    /\ IF Cur \in Lacking
       THEN pc' = "build" /\ StartBuild
       ELSE LET k == Reduce(K, 2 * Order) IN
            IF Cur \in Generators THEN pc' = "table" /\ StartTable(Cur, k)
            ELSE pc' = "naf" /\ StartNaf([Zero EXCEPT ![Cur] = k])
    /\ UNCHANGED <<goal, owed, out, table>>

(* The point a table is built for: that of the running product, or the     *)
(* first of the two in mul_add.                                            *)
Target == IF owed # Zero THEN Cur ELSE IF 1 \in Lacking THEN 1 ELSE 2

(* A mutant: the table only reaches to the order itself.                   *)
TableBoundOnce == Order

(* `order *= 2', twice.                                                    *)
TableBound == 4 * Order

(* The loop of _maybe_precompute: `while i < order'.                       *)
BuildRound ==
    /\ pc = "build" /\ power < TableBound
    /\ power' = 2 * power
    /\ list' = Append(list, 2 * list[Len(list)])
    /\ UNCHANGED <<pc, goal, owed, out, table, entry, mult, digits, trail, left, acc>>

BuildEnd ==
    /\ pc = "build" /\ power >= TableBound
    /\ table' = [table EXCEPT ![Target] = list]
    /\ pc' = IF owed # Zero THEN "next" ELSE "prepare"
    /\ UNCHANGED <<goal, owed, out, scratch>>

(* A mutant: the next entry is only taken when one has been used.          *)
TableRoundPop ==
    /\ pc = "table" /\ entry < Len(table[Cur])
    /\ LET n == mult[Cur]
           e == table[Cur][entry + 1]
       IN /\ entry' = entry + (n % 2)
          /\ mult' = [mult EXCEPT ![Cur] = (n - Digit(n)) \div 2]
          /\ acc' = [acc EXCEPT ![Cur] = @ + Digit(n) * e]
    /\ UNCHANGED <<pc, goal, owed, out, table, power, list, digits, trail, left>>

(* The loop of _mul_precompute.                                            *)
TableRound ==
    /\ pc = "table" /\ entry < Len(table[Cur])
    /\ entry' = entry + 1
    /\ LET n == mult[Cur]
           e == table[Cur][entry + 1]
       IN IF n % 2 = 0
          THEN /\ mult' = [mult EXCEPT ![Cur] = n \div 2]
               /\ acc' = acc
          ELSE IF n % 4 >= 2
          THEN /\ mult' = [mult EXCEPT ![Cur] = (n + 1) \div 2]
               /\ acc' = [acc EXCEPT ![Cur] = @ - e]
          ELSE /\ mult' = [mult EXCEPT ![Cur] = (n - 1) \div 2]
               /\ acc' = [acc EXCEPT ![Cur] = @ + e]
    /\ UNCHANGED <<pc, goal, owed, out, table, power, list, digits, trail, left>>

TableEnd ==
    /\ pc = "table" /\ entry = Len(table[Cur])
    /\ Product(Cur, acc[Cur])
    /\ UNCHANGED <<goal, table>>

----------------------------------------------------------------------------
(* One round of the loop of _naf for point b.                              *)
FindDigit(b) ==
    LET n == mult[b]
        rest == (n - Digit(n)) \div 2
    IN /\ mult[b] # 0
       /\ digits' = [digits EXCEPT ![b] = Append(@, Digit(n))]
       /\ mult' = [mult EXCEPT ![b] = rest]
       /\ trail' = [trail EXCEPT ![b] = Append(@, rest)]
       /\ UNCHANGED <<pc, goal, owed, out, table, power, list, entry, left, acc>>

(* A mutant: the lists are not padded, and zip truncates the longer one.   *)
Shortest == IF Len(digits[1]) < Len(digits[2]) THEN Len(digits[1]) ELSE Len(digits[2])

(* The length of the padded lists.                                         *)
Longest == IF Len(digits[1]) < Len(digits[2]) THEN Len(digits[2]) ELSE Len(digits[1])

StartLoop(label) ==
    /\ pc' = label
    /\ left' = Longest
    /\ acc' = Zero
    /\ UNCHANGED <<goal, owed, out, table, power, list, entry, mult, digits, trail>>

NafRound == pc = "naf" /\ FindDigit(Cur)
NafEnd   == pc = "naf" /\ mult[Cur] = 0 /\ StartLoop("loop")

(* The loop of __mul__ over the digits, most significant first.            *)
LoopRound ==
    /\ pc = "loop" /\ left > 0
    /\ LET doubled == [b \in Points |-> 2 * acc[b]]
           d == digits[Cur][left]
       IN acc' = IF d = 0 THEN doubled
                 ELSE IF d < 0 THEN [doubled EXCEPT ![Cur] = @ - 1]
                 ELSE [doubled EXCEPT ![Cur] = @ + 1]
    /\ left' = left - 1
    /\ UNCHANGED <<pc, goal, owed, out, table, power, list, entry, mult, digits, trail>>

LoopEnd ==
    /\ pc = "loop" /\ left = 0
    /\ Product(Cur, acc[Cur])
    /\ UNCHANGED <<goal, table>>

----------------------------------------------------------------------------
(* mul_add: both tables are brought about first.                           *)
PrepareBuild ==
    /\ pc = "prepare" /\ Lacking # {}
    /\ pc' = "build" /\ StartBuild
    /\ UNCHANGED <<goal, owed, out, table>>

(* `if self.__precompute and other.__precompute'                           *)
PrepareTables ==
    /\ pc = "prepare" /\ Generators = Points /\ Lacking = {}
    /\ owed' = goal
    /\ pc' = "next"
    /\ UNCHANGED <<goal, out, table, scratch>>

(* `if not pApB_Z': the points are each other's negative.                  *)
PrepareOpposite ==
    /\ pc = "prepare" /\ Generators # Points /\ Lacking = {}
    /\ owed' = [b \in Points |-> Reduce(goal[b], Order)]
    /\ pc' = "next"
    /\ UNCHANGED <<goal, out, table, scratch>>

PrepareBoth ==
    /\ pc = "prepare" /\ Generators # Points /\ Lacking = {}
    /\ pc' = "bothNaf"
    /\ StartNaf([b \in Points |-> Reduce(goal[b], Order)])
    /\ UNCHANGED <<goal, owed, out, table>>

BothNafRound(b) == pc = "bothNaf" /\ (b = 2 => mult[1] = 0) /\ FindDigit(b)
BothNafEnd      == pc = "bothNaf" /\ mult = Zero /\ StartLoop("bothLoop")

(* The loop of mul_add over the pairs of digits.                           *)
BothLoopRound ==
    /\ pc = "bothLoop" /\ left > 0
    /\ acc' = [b \in Points |-> 2 * acc[b] + At(digits[b], left)]
    /\ left' = left - 1
    /\ UNCHANGED <<pc, goal, owed, out, table, power, list, entry, mult, digits, trail>>

BothLoopEnd ==
    /\ pc = "bothLoop" /\ left = 0
    /\ out' = acc
    /\ Forget
    /\ pc' = "idle"
    /\ UNCHANGED <<goal, owed, table>>

Step ==
    \/ CallMul \/ CallMulAdd \/ Return \/ MulTrivial \/ MulChoose
    \/ BuildRound \/ BuildEnd \/ TableRound \/ TableEnd
    \/ NafRound \/ NafEnd \/ LoopRound \/ LoopEnd
    \/ PrepareBuild \/ PrepareTables \/ PrepareOpposite \/ PrepareBoth
    \/ (\E b \in Points : BothNafRound(b)) \/ BothNafEnd
    \/ BothLoopRound \/ BothLoopEnd

(* Whether a point is a generator is decided when it is made.             *)
Next == Step /\ UNCHANGED Generators

(* The code runs to its end once it has been called.                       *)
Spec == Init /\ [][Next]_vars /\ WF_vars(Next /\ pc # "idle")

----------------------------------------------------------------------------
(* The types; no multiplier becomes negative while digits are taken off it. *)
TypeOK ==
    /\ Generators \in Choices
    /\ pc \in Labels
    /\ goal \in [Points -> Nat]
    /\ owed \in [Points -> Nat]
    /\ out \in [Points -> Int]
    /\ table \in [Points -> Seq(Nat)]
    /\ power \in Nat /\ list \in Seq(Nat) /\ entry \in Nat
    /\ mult \in [Points -> Nat]
    /\ digits \in [Points -> Seq({-1, 0, 1})]
    /\ trail \in [Points -> Seq(Nat)]
    /\ left \in Nat
    /\ acc \in [Points -> Int]

(* Whatever method was taken, the sum returned contains each point as      *)
(* often as the caller asked for, up to multiples of its order.            *)
SumIsCorrect ==
    pc = "idle" => \A b \in Points : Reduce(out[b], Order) = Reduce(goal[b], Order)

(* No two neighbouring digits are both non-zero: an addition is followed   *)
(* by at least two doublings, in each of the two lists.                    *)
NonAdjacent ==
    \A b \in Points :
      \A i \in 1 .. Len(digits[b]) - 1 : digits[b][i] = 0 \/ digits[b][i + 1] = 0

(* When the table is used up, so is the multiplier: `_mul_precompute' has  *)
(* no test of that, the length of the table has to guarantee it.           *)
TableSuffices == pc = "table" /\ entry = Len(table[Cur]) => mult[Cur] = 0

(* Every multiplication comes to its end.                                  *)
Terminates == pc # "idle" ~> pc = "idle"
=============================================================================
