---------------------- MODULE ScalarMultiplicationProofs ----------------------
(***************************************************************************)
(* The sum that __mul__ and mul_add return is the one asked for, for every *)
(* order, every multiplier and every choice of the method.                 *)
(***************************************************************************)
EXTENDS ScalarMultiplication, ProofBasics

----------------------------------------------------------------------------
(* The inductive invariant.                                                *)

(* 1, 2, 4, ...                                                            *)
IsPowers(l) ==
    /\ Len(l) > 0 /\ l[1] = 1
    /\ \A i \in 1 .. Len(l) - 1 : l[i + 1] = 2 * l[i]

TablesInv ==
    \A b \in Points :
      \/ table[b] = <<>>
      \/ /\ b \in Generators /\ IsPowers(table[b])
         /\ table[b][Len(table[b])] >= TableBound

BuildInv ==
    pc = "build" => /\ Order > 0 /\ Target \in Generators
                    /\ IsPowers(list) /\ power = list[Len(list)]

MethodInv ==
    /\ pc \in {"table", "naf", "loop"} => owed # Zero
    /\ pc = "table" => Cur \in Generators /\ table[Cur] # <<>>
    /\ pc = "idle" => owed = Zero

(* The multiple that the next digit of the multiplier counts.              *)
Weight(tbl) == IF entry < Len(tbl) THEN tbl[entry + 1] ELSE 2 * tbl[Len(tbl)]

TableInv ==
    pc = "table" =>
      /\ entry <= Len(table[Cur])
      /\ acc[Cur] + mult[Cur] * Weight(table[Cur]) = Reduce(K, 2 * Order)
      /\ mult[Cur] = 0 \/ (mult[Cur] - 1) * Weight(table[Cur]) < Reduce(K, 2 * Order)
      /\ entry = Len(table[Cur]) => mult[Cur] = 0

(* Each value the multiplier had is twice the next one plus the digit.     *)
Linked(b, i) ==
    /\ trail[b][i] = 2 * trail[b][i + 1] + digits[b][i]
    /\ digits[b][i] = 0 \/ trail[b][i + 1] % 2 = 0
    /\ trail[b][i] % 2 = 0 => digits[b][i] = 0

LinksInv ==
    \A b \in Points :
      /\ Len(trail[b]) = Len(digits[b]) + 1
      /\ \A i \in 1 .. Len(digits[b]) : Linked(b, i)

(* The trail leads from m to what is left of the multiplier.               *)
Trail(b, m) == trail[b][1] = m /\ trail[b][Len(trail[b])] = mult[b]

NafInv == pc \in {"naf", "loop"} => /\ Trail(Cur, Reduce(K, 2 * Order))
                                    /\ \A b \in Points \ {Cur} : digits[b] = <<>>

LoopInv == pc = "loop" => /\ mult[Cur] = 0
                          /\ left <= Len(digits[Cur])
                          /\ acc[Cur] = trail[Cur][left + 1]

InMulAdd == pc \in {"prepare", "bothNaf", "bothLoop"} \/ (pc = "build" /\ owed = Zero)

BothInv ==
    /\ InMulAdd => owed = Zero /\ out = Zero
    /\ pc \in {"bothNaf", "bothLoop"} => \A b \in Points : Trail(b, Reduce(goal[b], Order))
    /\ pc = "bothLoop" =>
         \A b \in Points :
           /\ mult[b] = 0
           /\ acc[b] = IF left < Len(trail[b]) THEN trail[b][left + 1] ELSE 0

OwedInv ==
    ~ InMulAdd =>
      \A b \in Points : Reduce(out[b] + owed[b], Order) = Reduce(goal[b], Order)

IInv ==
    /\ TypeOK /\ TablesInv /\ BuildInv /\ MethodInv /\ TableInv
    /\ LinksInv /\ NafInv /\ LoopInv /\ BothInv /\ OwedInv

----------------------------------------------------------------------------
(* Reduction.                                                              *)

(* What the assumption says of the generators of any state.                *)
LEMMA GeneratorsType ==
  /\ Order \in Nat
  /\ TypeOK => Generators \subseteq Points /\ (Order = 0 => Generators = {})
  BY GeneratorsAssumption DEF TypeOK

LEMMA ReduceType ==
  ASSUME NEW k \in Nat, NEW m \in Nat
  PROVE  Reduce(k, m) \in Nat /\ (m > 0 => Reduce(k, m) < m)
  <1>1. CASE m = 0
    BY <1>1 DEF Reduce
  <1>2. CASE m \in Nat \ {0}
    BY <1>2, DivMod DEF Reduce
  <1> QED BY <1>1, <1>2

(* Reducing one addend does not change the class of a sum modulo Order.    *)
LEMMA ReduceAddend ==
  ASSUME NEW a \in Int, NEW k \in Nat, NEW m \in {Order, 2 * Order}
  PROVE  Reduce(a + Reduce(k, m), Order) = Reduce(a + k, Order)
  <1>1. CASE Order = 0
    BY <1>1 DEF Reduce
  <1>2. CASE Order # 0
    <2>1. Order \in Nat \ {0} /\ m \in Nat \ {0}
      BY <1>2, GeneratorsType
    <2> DEFINE q == k \div m  r == k % m
    <2>2. q \in Int /\ r \in Int /\ k = m * q + r
      BY <2>1, DivMod
    <2> HIDE DEF q, r
    <2>3. \E c \in Int : a + k = (a + r) + c * Order
      <3>1. CASE m = Order
        <4>1. a + k = (a + r) + q * Order
          BY <2>1, <2>2, <3>1, SMT
        <4> QED BY <4>1, <2>2
      <3>2. CASE m = 2 * Order
        <4>1. a + k = (a + r) + (2 * q) * Order
          BY <2>1, <2>2, <3>2, SMT
        <4>2. 2 * q \in Int
          BY <2>2
        <4> QED BY <4>1, <4>2
      <3> QED BY <3>1, <3>2
    <2>4. a + k \in Int /\ a + r \in Int
      BY <2>2
    <2>5. (a + k) % Order = (a + r) % Order
      BY <2>1, <2>3, <2>4, SameRemainder
    <2> QED BY <2>1, <2>5 DEF Reduce, r
  <1> QED BY <1>1, <1>2

----------------------------------------------------------------------------
(* Digits.                                                                 *)

LEMMA DigitProperties ==
  ASSUME NEW n \in Nat
  PROVE  /\ Digit(n) \in {-1, 0, 1}
         /\ (n - Digit(n)) \div 2 \in Nat
         /\ n = 2 * ((n - Digit(n)) \div 2) + Digit(n)
         /\ Digit(n) = 0 \/ ((n - Digit(n)) \div 2) % 2 = 0
         /\ n % 2 = 0 => Digit(n) = 0
  <1>1. n % 4 \in {0, 1, 2, 3} /\ n % 2 \in {0, 1}
    OBVIOUS
  <1> QED BY <1>1 DEF Digit

----------------------------------------------------------------------------
(* Initially.                                                              *)

LEMMA InitIInv == Init => IInv
  <1> SUFFICES ASSUME Init PROVE IInv
    OBVIOUS
  <1>1. TypeOK
    BY DEF Init, TypeOK, Zero, Points, Labels
  <1>2. TablesInv /\ BuildInv /\ MethodInv /\ TableInv /\ NafInv /\ LoopInv
    BY DEF Init, TablesInv, BuildInv, MethodInv, TableInv, NafInv, LoopInv
  <1>3. LinksInv
    BY DEF Init, LinksInv
  <1>4. BothInv
    BY DEF Init, BothInv, InMulAdd
  <1>5. OwedInv
    BY DEF Init, OwedInv, Zero
  <1> QED BY <1>1, <1>2, <1>3, <1>4, <1>5 DEF IInv

----------------------------------------------------------------------------
(* The actions, one lemma each, after two facts several of them share.     *)

LEMMA ZeroType == Zero \in [Points -> Nat] /\ \A b \in Points : Zero[b] = 0
  BY DEF Zero

(* Both points, one changed.                                               *)
LEMMA PutType ==
  ASSUME NEW f \in [Points -> Nat], NEW b \in Points, NEW k \in Nat
  PROVE  /\ [f EXCEPT ![b] = k] \in [Points -> Nat]
         /\ \A c \in Points : [f EXCEPT ![b] = k][c] = IF c = b THEN k ELSE f[c]
  OBVIOUS

LEMMA ForgetType ==
  Forget => /\ power' \in Nat /\ list' \in Seq(Nat) /\ entry' \in Nat
            /\ mult' \in [Points -> Nat] /\ digits' \in [Points -> Seq({-1, 0, 1})]
            /\ trail' \in [Points -> Seq(Nat)] /\ left' \in Nat
            /\ acc' \in [Points -> Int] /\ LinksInv'
  <1> SUFFICES ASSUME Forget
               PROVE  /\ digits' \in [Points -> Seq({-1, 0, 1})]
                      /\ trail' \in [Points -> Seq(Nat)] /\ LinksInv'
    BY DEF Forget, Zero
  <1>1. <<>> \in Seq({-1, 0, 1}) /\ <<0>> \in Seq(Nat)
    OBVIOUS
  <1>2. LinksInv'
    BY DEF LinksInv, Forget
  <1> QED BY <1>1, <1>2 DEF Forget

(* A product that counts as its multiplier does is added.                  *)
LEMMA ProductStep ==
  ASSUME IInv, owed # Zero, ~ InMulAdd, NEW n \in Int, Product(Cur, n),
         UNCHANGED <<goal, table>>, UNCHANGED Generators,
         \A a \in Int : Reduce(a + n, Order) = Reduce(a + K, Order)
  PROVE  IInv'
  <1>1. TypeOK
    BY DEF IInv
  <1>2. Cur \in Points /\ K \in Nat
    BY <1>1 DEF TypeOK, Points, Cur, K
  <1>3. TypeOK'
    <2>1. pc' \in Labels /\ goal' \in [Points -> Nat] /\ table' \in [Points -> Seq(Nat)]
      BY <1>1 DEF TypeOK, Product, Labels
    <2>2. owed' \in [Points -> Nat] /\ out' \in [Points -> Int]
      BY <1>1, <1>2 DEF TypeOK, Product
    <2>3. Forget
      BY DEF Product
    <2>4. Generators' \in Choices
      BY <1>1 DEF TypeOK
    <2> QED BY <1>1, <2>1, <2>2, <2>3, <2>4, ForgetType DEF TypeOK
  <1>4. TablesInv' /\ BuildInv' /\ MethodInv' /\ TableInv' /\ NafInv' /\ LoopInv'
    BY DEF IInv, TablesInv, IsPowers, BuildInv, MethodInv, TableInv, NafInv, LoopInv,
           Product
  <1>5. LinksInv'
    BY ForgetType DEF Product
  <1>6. BothInv'
    BY DEF BothInv, InMulAdd, Product
  <1>7. OwedInv'
    <2>1. ASSUME NEW b \in Points
          PROVE  Reduce(out'[b] + owed'[b], Order) = Reduce(goal'[b], Order)
      <3>1. Reduce(out[b] + owed[b], Order) = Reduce(goal[b], Order)
        BY DEF IInv, OwedInv
      <3>2. out[b] \in Int /\ owed[b] \in Nat
        BY <1>1 DEF TypeOK
      <3>3. CASE Cur = b
        <4>1. out'[b] = out[b] + n /\ owed'[b] = 0 /\ goal' = goal /\ K = owed[b]
          BY <1>1, <3>3 DEF TypeOK, Product, K
        <4>2. out'[b] + owed'[b] = out[b] + n
          BY <3>2, <4>1
        <4> QED BY <3>1, <3>2, <4>1, <4>2
      <3>4. CASE Cur # b
        BY <1>1, <1>2, <3>1, <3>4 DEF TypeOK, Product
      <3> QED BY <3>3, <3>4
    <2> QED BY <2>1 DEF OwedInv
  <1> QED BY <1>3, <1>4, <1>5, <1>6, <1>7 DEF IInv

LEMMA CallStep == IInv /\ (CallMul \/ CallMulAdd \/ Return) /\ UNCHANGED Generators => IInv'
  <1> SUFFICES ASSUME IInv, CallMul \/ CallMulAdd \/ Return, UNCHANGED Generators PROVE IInv'
    OBVIOUS
  <1>1. UNCHANGED <<table, scratch>>
    BY DEF CallMul, CallMulAdd, Return
  <1>2. pc \in {"idle", "next"} /\ owed \in [Points -> Nat] /\ goal \in [Points -> Nat]
        /\ out \in [Points -> Int] /\ TypeOK
    BY DEF IInv, TypeOK, CallMul, CallMulAdd, Return
  <1>3. /\ pc' \in {"idle", "next", "prepare"}
        /\ goal' \in [Points -> Nat] /\ owed' \in [Points -> Nat]
        /\ out' \in [Points -> Int]
        /\ pc' = "idle" => owed' = Zero
        /\ pc' = "prepare" => owed' = Zero /\ out' = Zero
        /\ pc' # "prepare" =>
             \A b \in Points : Reduce(out'[b] + owed'[b], Order) = Reduce(goal'[b], Order)
    <2>1. CASE CallMul
      <3>1. PICK k \in Multipliers : goal' = [Zero EXCEPT ![1] = k] /\ owed' = goal'
        BY <2>1 DEF CallMul
      <3>2. out' = Zero /\ pc' = "next"
        BY <2>1 DEF CallMul
      <3>3. goal' \in [Points -> Nat] /\ out' \in [Points -> Int]
        BY <3>1, <3>2, MultipliersAssumption, ZeroType, PutType, 1 \in Points DEF Points
      <3>4. \A b \in Points : out'[b] + owed'[b] = goal'[b]
        BY <3>1, <3>2, <3>3 DEF Zero
      <3> QED BY <3>1, <3>2, <3>3, <3>4
    <2>2. CASE CallMulAdd
      <3>1. PICK k \in Multipliers, m \in Multipliers :
              /\ goal' = [Zero EXCEPT ![1] = k, ![2] = m]
              /\ owed' = IF m = 0 THEN [Zero EXCEPT ![1] = k]
                         ELSE IF k = 0 THEN [Zero EXCEPT ![2] = m] ELSE Zero
              /\ pc' = IF m = 0 \/ k = 0 THEN "next" ELSE "prepare"
        BY <2>2 DEF CallMulAdd
      <3>2. k \in Nat /\ m \in Nat /\ out' = Zero
        BY <2>2, MultipliersAssumption DEF CallMulAdd
      <3> DEFINE a == [Zero EXCEPT ![1] = k]  c == [Zero EXCEPT ![2] = m]
                 ac == [a EXCEPT ![2] = m]
      <3>3. /\ a \in [Points -> Nat] /\ c \in [Points -> Nat]
            /\ a[1] = k /\ a[2] = 0 /\ c[1] = 0 /\ c[2] = m
        BY <3>2, ZeroType, PutType DEF Points
      <3>4. ac \in [Points -> Nat] /\ ac[1] = k /\ ac[2] = m
        <4> HIDE DEF a
        <4> QED BY <3>2, <3>3, PutType DEF Points
      <3>5. goal' = ac
        BY <3>1
      <3>6. owed' = (IF m = 0 THEN a ELSE IF k = 0 THEN c ELSE Zero)
        BY <3>1
      <3> HIDE DEF a, c, ac
      <3>7. /\ goal' \in [Points -> Nat] /\ owed' \in [Points -> Nat]
            /\ out' \in [Points -> Int]
        BY <3>2, <3>3, <3>4, <3>5, <3>6, ZeroType
      <3>8. pc' # "prepare" => \A b \in Points : out'[b] + owed'[b] = goal'[b]
        BY <3>1, <3>2, <3>3, <3>4, <3>5, <3>6, ZeroType DEF Points
      <3>9. pc' = "prepare" => owed' = Zero
        BY <3>1, <3>6
      <3> QED BY <3>1, <3>2, <3>7, <3>8, <3>9
    <2>3. CASE Return
      <3>1. ~ InMulAdd
        BY <2>3 DEF Return, InMulAdd
      <3> QED BY <1>2, <2>3, <3>1 DEF Return, IInv, OwedInv
    <2> QED BY <2>1, <2>2, <2>3
  <1>4. TypeOK'
    BY <1>1, <1>2, <1>3 DEF TypeOK, scratch, Labels
  <1>5. TablesInv' /\ LinksInv'
    BY <1>1 DEF IInv, TablesInv, IsPowers, LinksInv, Linked, scratch
  <1>6. BuildInv' /\ MethodInv' /\ TableInv' /\ NafInv' /\ LoopInv' /\ BothInv'
    BY <1>3 DEF BuildInv, MethodInv, TableInv, NafInv, LoopInv, BothInv, InMulAdd
  <1>7. OwedInv'
    BY <1>3 DEF OwedInv, InMulAdd
  <1> QED BY <1>4, <1>5, <1>6, <1>7 DEF IInv

LEMMA MulTrivialStep == IInv /\ MulTrivial /\ UNCHANGED Generators => IInv'
  <1> SUFFICES ASSUME IInv, MulTrivial, UNCHANGED Generators PROVE IInv'
    OBVIOUS
  <1>1. owed # Zero /\ ~ InMulAdd /\ Product(Cur, 1) /\ UNCHANGED <<goal, table>> /\ K = 1
    BY DEF MulTrivial, InMulAdd
  <1>2. 1 \in Int /\ \A a \in Int : Reduce(a + 1, Order) = Reduce(a + K, Order)
    BY <1>1
  <1> QED BY <1>1, <1>2, ProductStep

LEMMA TableEndStep == IInv /\ TableEnd /\ UNCHANGED Generators => IInv'
  <1> SUFFICES ASSUME IInv, TableEnd, UNCHANGED Generators PROVE IInv'
    OBVIOUS
  <1>1. owed # Zero /\ ~ InMulAdd /\ Product(Cur, acc[Cur]) /\ UNCHANGED <<goal, table>>
        /\ pc = "table" /\ entry = Len(table[Cur])
    BY DEF TableEnd, InMulAdd, IInv, MethodInv
  <1>2. Cur \in Points /\ K \in Nat /\ acc[Cur] \in Int /\ table[Cur] \in Seq(Nat)
    BY DEF IInv, TypeOK, Cur, K, Points
  <1>3. mult[Cur] = 0 /\ acc[Cur] + mult[Cur] * Weight(table[Cur]) = Reduce(K, 2 * Order)
    BY <1>1 DEF IInv, TableInv
  <1>4. acc[Cur] = Reduce(K, 2 * Order)
    <2>1. Weight(table[Cur]) \in Int
      <3>1. table[Cur] # <<>>
        BY <1>1 DEF IInv, MethodInv
      <3> QED BY <1>1, <1>2, <3>1 DEF Weight
    <2> QED BY <1>2, <1>3, <2>1
  <1>5. \A a \in Int : Reduce(a + acc[Cur], Order) = Reduce(a + K, Order)
    BY <1>2, <1>4, ReduceAddend, 2 * Order \in {Order, 2 * Order}
  <1> QED BY <1>1, <1>2, <1>5, ProductStep

LEMMA LoopEndStep == IInv /\ LoopEnd /\ UNCHANGED Generators => IInv'
  <1> SUFFICES ASSUME IInv, LoopEnd, UNCHANGED Generators PROVE IInv'
    OBVIOUS
  <1>1. owed # Zero /\ ~ InMulAdd /\ Product(Cur, acc[Cur]) /\ UNCHANGED <<goal, table>>
        /\ pc = "loop" /\ left = 0
    BY DEF LoopEnd, InMulAdd, IInv, MethodInv
  <1>2. Cur \in Points /\ K \in Nat /\ acc[Cur] \in Int
    BY DEF IInv, TypeOK, Cur, K, Points
  <1>3. acc[Cur] = trail[Cur][1] /\ trail[Cur][1] = Reduce(K, 2 * Order)
    BY <1>1 DEF IInv, LoopInv, NafInv, Trail
  <1>5. \A a \in Int : Reduce(a + acc[Cur], Order) = Reduce(a + K, Order)
    BY <1>2, <1>3, ReduceAddend, 2 * Order \in {Order, 2 * Order}
  <1> QED BY <1>1, <1>2, <1>5, ProductStep

LEMMA LinksKept == LinksInv /\ UNCHANGED <<digits, trail>> => LinksInv'
  BY DEF LinksInv, Linked

(* Both lists are as _naf finds them when it is entered.                   *)
LEMMA StartNafStep ==
  ASSUME TypeOK, NEW m \in [Points -> Nat], StartNaf(m)
  PROVE  /\ power' \in Nat /\ list' \in Seq(Nat) /\ entry' \in Nat
         /\ mult' \in [Points -> Nat] /\ digits' \in [Points -> Seq({-1, 0, 1})]
         /\ trail' \in [Points -> Seq(Nat)] /\ left' \in Nat /\ acc' \in [Points -> Int]
         /\ LinksInv'
         /\ \A b \in Points : Trail(b, m[b])' /\ digits'[b] = <<>>
  <1>1. <<>> \in Seq({-1, 0, 1}) /\ \A b \in Points : <<m[b]>> \in Seq(Nat)
    OBVIOUS
  <1>2. /\ digits' = [b \in Points |-> <<>>] /\ trail' = [b \in Points |-> <<m[b]>>]
        /\ mult' = m /\ UNCHANGED <<power, list, entry, left, acc>>
    BY DEF StartNaf
  <1>3. LinksInv'
    BY <1>2 DEF LinksInv
  <1>4. \A b \in Points : Trail(b, m[b])' /\ digits'[b] = <<>>
    BY <1>2 DEF Trail
  <1> QED BY <1>1, <1>2, <1>3, <1>4 DEF TypeOK

LEMMA MulChooseStep == IInv /\ MulChoose /\ UNCHANGED Generators => IInv'
  <1> SUFFICES ASSUME IInv, MulChoose, UNCHANGED Generators PROVE IInv'
    OBVIOUS
  <1>1. /\ pc = "next" /\ owed # Zero /\ UNCHANGED <<goal, owed, out, table>> /\ TypeOK
        /\ ~ InMulAdd
    BY DEF MulChoose, IInv, InMulAdd
  <1>2. Cur \in Points /\ K \in Nat /\ Cur' = Cur /\ K' = K
    BY <1>1 DEF TypeOK, Cur, K, Points
  <1>3. Reduce(K, 2 * Order) \in Nat
    BY <1>2, ReduceType, GeneratorsType
  <1>4. TablesInv'
    BY <1>1 DEF IInv, TablesInv, IsPowers
  <1>5. pc' \in {"build", "table", "naf"}
    BY DEF MulChoose
  <1>6. ~ InMulAdd' /\ OwedInv' /\ BothInv' /\ LoopInv'
    BY <1>1, <1>5 DEF IInv, InMulAdd, OwedInv, BothInv, LoopInv
  <1>7. CASE Cur \in Lacking
    <2>1. pc' = "build" /\ StartBuild
      BY <1>7 DEF MulChoose
    <2>2. TypeOK' /\ LinksInv'
      <3>1. <<1>> \in Seq(Nat)
        OBVIOUS
      <3> QED BY <1>1, <2>1, <3>1 DEF IInv, TypeOK, LinksInv, Linked, StartBuild, Labels
    <2>3. BuildInv'
      <3>1. Target' = Cur /\ Cur \in Generators
        BY <1>1, <1>2, <1>7 DEF Target, Lacking
      <3>2. Order > 0
        BY <1>1, <3>1, GeneratorsType
      <3>3. IsPowers(list)' /\ power' = list'[Len(list')]
        BY <2>1 DEF StartBuild, IsPowers
      <3> QED BY <3>1, <3>2, <3>3 DEF BuildInv
    <2>4. MethodInv' /\ TableInv' /\ NafInv'
      BY <2>1 DEF MethodInv, TableInv, NafInv
    <2> QED BY <1>4, <1>6, <2>2, <2>3, <2>4 DEF IInv
  <1>8. CASE Cur \notin Lacking /\ Cur \in Generators
    <2> DEFINE k == Reduce(K, 2 * Order)
    <2>1. pc' = "table" /\ StartTable(Cur, k)
      BY <1>8 DEF MulChoose
    <2>2. TypeOK' /\ LinksInv'
      <3>1. Zero \in [Points -> Int]
        BY DEF Zero
      <3>2. [mult EXCEPT ![Cur] = k] \in [Points -> Nat]
        BY <1>1, <1>2, <1>3 DEF TypeOK
      <3>3. TypeOK'
        BY <1>1, <2>1, <3>1, <3>2 DEF TypeOK, StartTable, Labels
      <3>4. LinksInv'
        BY <2>1, LinksKept DEF StartTable, IInv
      <3> QED BY <3>3, <3>4
    <2>3. table[Cur] # <<>> /\ IsPowers(table[Cur]) /\ table[Cur] \in Seq(Nat)
      BY <1>1, <1>2, <1>8 DEF Lacking, IInv, TablesInv, TypeOK
    <2>4. MethodInv' /\ BuildInv' /\ NafInv'
      BY <1>1, <1>2, <1>8, <2>1, <2>3 DEF MethodInv, BuildInv, NafInv
    <2>5. TableInv'
      <3>1. entry' = 0 /\ mult'[Cur] = k /\ acc'[Cur] = 0
        BY <1>1, <1>2, <2>1 DEF StartTable, TypeOK, Zero
      <3>2. Weight(table[Cur])' = 1
        <4>1. Len(table[Cur]) > 0 /\ table[Cur][1] = 1 /\ Len(table[Cur]) \in Nat
          BY <2>3 DEF IsPowers
        <4>2. table'[Cur'] = table[Cur] /\ entry' + 1 = 1
          BY <1>1, <1>2, <3>1
        <4> QED BY <3>1, <4>1, <4>2 DEF Weight
      <3>3. Len(table[Cur]) > 0 /\ Len(table[Cur]) \in Nat
        BY <2>3 DEF IsPowers
      <3>4. acc'[Cur] + mult'[Cur] * Weight(table[Cur])' = k
            /\ (mult'[Cur] - 1) * Weight(table[Cur])' < k
            /\ entry' <= Len(table[Cur]) /\ entry' # Len(table[Cur])
        BY <1>3, <2>3, <3>1, <3>2, <3>3
      <3> QED BY <1>1, <1>2, <3>4 DEF TableInv
    <2> QED BY <1>4, <1>6, <2>2, <2>4, <2>5 DEF IInv
  <1>9. CASE Cur \notin Generators
    <2> DEFINE m == [Zero EXCEPT ![Cur] = Reduce(K, 2 * Order)]
    <2>1. pc' = "naf" /\ StartNaf(m)
      BY <1>9 DEF MulChoose, Lacking
    <2>2. m \in [Points -> Nat] /\ m[Cur] = Reduce(K, 2 * Order)
      BY <1>2, <1>3, ZeroType, PutType
    <2> HIDE DEF m
    <2>3. TypeOK' /\ LinksInv'
      BY <1>1, <2>1, <2>2, StartNafStep DEF TypeOK, Labels
    <2>4. NafInv'
      BY <1>1, <1>2, <2>1, <2>2, StartNafStep DEF NafInv, Trail
    <2>5. MethodInv' /\ BuildInv' /\ TableInv'
      BY <1>1, <2>1 DEF MethodInv, BuildInv, TableInv
    <2> QED BY <1>4, <1>6, <2>3, <2>4, <2>5 DEF IInv
  <1> QED BY <1>7, <1>8, <1>9

LEMMA AppendPowers ==
  ASSUME NEW l \in Seq(Nat), IsPowers(l)
  PROVE  LET a == Append(l, 2 * l[Len(l)])
         IN a \in Seq(Nat) /\ IsPowers(a) /\ a[Len(a)] = 2 * l[Len(l)]
  <1> DEFINE n == Len(l)  e == 2 * l[Len(l)]  a == Append(l, e)
  <1>1. n \in Nat /\ n > 0 /\ l[1] = 1 /\ \A i \in 1 .. n : l[i] \in Nat
    BY DEF IsPowers
  <1>2. e \in Nat
    BY <1>1
  <1>3. a \in Seq(Nat) /\ Len(a) = n + 1 /\ a[n + 1] = e /\ \A i \in 1 .. n : a[i] = l[i]
    BY <1>2
  <1>4. \A i \in 1 .. Len(a) - 1 : a[i + 1] = 2 * a[i]
    <2> SUFFICES ASSUME NEW i \in 1 .. n PROVE a[i + 1] = 2 * a[i]
      BY <1>1, <1>3
    <2>1. CASE i = n
      BY <1>1, <1>3, <2>1
    <2>2. CASE i # n
      BY <1>1, <1>3, <2>2 DEF IsPowers
    <2> QED BY <2>1, <2>2
  <1>5. Len(a) > 0 /\ a[1] = 1
    BY <1>1, <1>3
  <1> QED BY <1>3, <1>4, <1>5 DEF IsPowers

LEMMA BuildRoundStep == IInv /\ BuildRound /\ UNCHANGED Generators => IInv'
  <1> SUFFICES ASSUME IInv, BuildRound, UNCHANGED Generators PROVE IInv'
    OBVIOUS
  <1>1. /\ pc = "build" /\ power' = 2 * power /\ list' = Append(list, 2 * list[Len(list)])
        /\ UNCHANGED <<pc, goal, owed, out, table, entry, mult, digits, trail, left, acc>>
        /\ TypeOK
    BY DEF BuildRound, IInv
  <1>2. Order > 0 /\ Target \in Generators /\ IsPowers(list) /\ power = list[Len(list)]
    BY <1>1 DEF IInv, BuildInv
  <1>3. list' \in Seq(Nat) /\ IsPowers(list)' /\ power' = list'[Len(list')]
    BY <1>1, <1>2, AppendPowers DEF TypeOK, IsPowers
  <1>4. power' \in Nat
    BY <1>1 DEF TypeOK
  <1>5. TypeOK'
    BY <1>1, <1>3, <1>4 DEF TypeOK
  <1>6. Target' = Target
    BY <1>1 DEF Target, Lacking, Cur
  <1>7. BuildInv'
    BY <1>2, <1>3, <1>6 DEF BuildInv
  <1>8. TablesInv' /\ LinksInv' /\ OwedInv' /\ BothInv'
    BY <1>1, LinksKept DEF IInv, TablesInv, IsPowers, OwedInv, BothInv, InMulAdd
  <1>9. MethodInv' /\ TableInv' /\ NafInv' /\ LoopInv'
    BY <1>1 DEF MethodInv, TableInv, NafInv, LoopInv
  <1> QED BY <1>5, <1>7, <1>8, <1>9 DEF IInv

LEMMA BuildEndStep == IInv /\ BuildEnd /\ UNCHANGED Generators => IInv'
  <1> SUFFICES ASSUME IInv, BuildEnd, UNCHANGED Generators PROVE IInv'
    OBVIOUS
  <1>1. /\ pc = "build" /\ power >= TableBound /\ table' = [table EXCEPT ![Target] = list]
        /\ pc' = IF owed # Zero THEN "next" ELSE "prepare"
        /\ UNCHANGED <<goal, owed, out, power, list, entry, mult, digits, trail, left, acc>>
        /\ TypeOK
    BY DEF BuildEnd, IInv, scratch
  <1>2. /\ Order > 0 /\ Target \in Generators /\ Target \in Points
        /\ IsPowers(list) /\ power = list[Len(list)] /\ list \in Seq(Nat)
    BY <1>1 DEF IInv, BuildInv, Target, TypeOK, Cur, Points
  <1>3. TypeOK'
    BY <1>1, <1>2 DEF TypeOK, Labels
  <1>4. TablesInv'
    BY <1>1, <1>2 DEF IInv, TablesInv, IsPowers, TypeOK
  <1>5. LinksInv' /\ OwedInv' /\ BothInv'
    BY <1>1, LinksKept DEF IInv, OwedInv, BothInv, InMulAdd
  <1>6. BuildInv' /\ MethodInv' /\ TableInv' /\ NafInv' /\ LoopInv'
    BY <1>1 DEF BuildInv, MethodInv, TableInv, NafInv, LoopInv
  <1> QED BY <1>3, <1>4, <1>5, <1>6 DEF IInv

(* One round over the table, in numbers: the multiplier n becomes n2 and   *)
(* the accumulator a becomes a2; the weight w of n doubles.                *)
RoundFrom(n, w, a, m, n2, a2) ==
    /\ n \in Nat /\ w \in Nat /\ a \in Int /\ m \in Nat /\ n2 \in Int /\ a2 \in Int
    /\ a + n * w = m
    /\ n = 0 \/ (n - 1) * w < m
    /\ \/ n % 2 = 0 /\ n2 = n \div 2 /\ a2 = a
       \/ n % 2 # 0 /\ n % 4 >= 2 /\ n2 = (n + 1) \div 2 /\ a2 = a - w
       \/ n % 2 # 0 /\ ~ n % 4 >= 2 /\ n2 = (n - 1) \div 2 /\ a2 = a + w

RoundTo(w, m, n2, a2) ==
    /\ n2 \in Nat
    /\ a2 + n2 * (2 * w) = m
    /\ n2 = 0 \/ (n2 - 1) * (2 * w) < m
    /\ w > m => n2 = 0

LEMMA TableRoundArithmetic ==
  ASSUME NEW n, NEW w, NEW a, NEW m, NEW n2, NEW a2, RoundFrom(n, w, a, m, n2, a2)
  PROVE  RoundTo(w, m, n2, a2)
  <1> USE DEF RoundFrom
  <1>1. n2 \in Nat
    BY SMT
  <1>2. \/ n = 2 * n2 /\ a2 = a
        \/ n = 2 * n2 - 1 /\ a2 = a - w /\ n >= 3
        \/ n = 2 * n2 + 1 /\ a2 = a + w
    BY SMT
  <1>3. a2 + n2 * (2 * w) = m
    BY <1>1, <1>2, SMT
  <1>4. n2 = 0 \/ (n2 - 1) * (2 * w) < m
    <2>1. CASE n = 2 * n2 /\ n2 # 0
      <3>1. (n2 - 1) * (2 * w) = (n - 1) * w - w
        BY <1>1, <2>1, SMT
      <3> QED BY <1>1, <2>1, <3>1, SMT
    <2>2. CASE n = 2 * n2 - 1
      <3>1. (n2 - 1) * (2 * w) = (n - 1) * w
        BY <1>1, <2>2, SMT
      <3>2. n # 0
        BY <1>1, <2>2
      <3> QED BY <3>1, <3>2
    <2>3. CASE n = 2 * n2 + 1
      <3>1. (n2 - 1) * (2 * w) = (n - 1) * w - 2 * w
        BY <1>1, <2>3, SMT
      <3> QED BY <1>1, <2>3, <3>1, SMT
    <2> QED BY <1>2, <2>1, <2>2, <2>3
  <1>5. w > m => n2 = 0
    <2> SUFFICES ASSUME w > m, n >= 2 PROVE FALSE
      BY <1>1, <1>2, SMT
    <2>1. (n - 1) * w >= w
      BY SMT
    <2> QED BY <2>1, SMT
  <1> QED BY <1>1, <1>3, <1>4, <1>5 DEF RoundTo

LEMMA TableRoundStep == IInv /\ TableRound /\ UNCHANGED Generators => IInv'
  <1> SUFFICES ASSUME IInv, TableRound, UNCHANGED Generators PROVE IInv'
    OBVIOUS
  <1> DEFINE T == table[Cur]  n == mult[Cur]  w == T[entry + 1]  a == acc[Cur]
             m == Reduce(K, 2 * Order)  n2 == mult'[Cur]  a2 == acc'[Cur]
  <1>1. /\ pc = "table" /\ entry < Len(T) /\ entry' = entry + 1
        /\ UNCHANGED <<pc, goal, owed, out, table, power, list, digits, trail, left>>
        /\ TypeOK
    BY DEF TableRound, IInv
  <1>2. /\ Cur \in Points /\ K \in Nat /\ Cur' = Cur /\ K' = K
        /\ T \in Seq(Nat) /\ n \in Nat /\ a \in Int /\ entry \in Nat
    BY <1>1 DEF TypeOK, Cur, K, Points
  <1>3. Cur \in Generators /\ T # <<>> /\ IsPowers(T) /\ T[Len(T)] >= TableBound
    BY <1>1, <1>2 DEF IInv, MethodInv, TablesInv
  <1>4. Order \in Nat /\ Order > 0 /\ m \in Nat /\ m < 2 * Order
    <2>1. Order \in Nat /\ Order > 0
      BY <1>1, <1>3, GeneratorsType
    <2>2. 2 * Order \in Nat /\ 2 * Order > 0
      BY <2>1
    <2> QED BY <1>2, <2>1, <2>2, ReduceType
  <1>5. w \in Nat /\ Weight(T) = w /\ Len(T) \in Nat
    BY <1>1, <1>2 DEF Weight
  <1>6. a + n * w = m /\ (n = 0 \/ (n - 1) * w < m)
    BY <1>1, <1>5 DEF IInv, TableInv
  <1>7. \/ n % 2 = 0 /\ mult' = [mult EXCEPT ![Cur] = n \div 2] /\ acc' = acc
        \/ /\ n % 2 # 0 /\ n % 4 >= 2 /\ mult' = [mult EXCEPT ![Cur] = (n + 1) \div 2]
           /\ acc' = [acc EXCEPT ![Cur] = @ - w]
        \/ /\ n % 2 # 0 /\ ~ n % 4 >= 2 /\ mult' = [mult EXCEPT ![Cur] = (n - 1) \div 2]
           /\ acc' = [acc EXCEPT ![Cur] = @ + w]
    BY DEF TableRound
  <1>8. /\ \/ n % 2 = 0 /\ n2 = n \div 2 /\ a2 = a
           \/ n % 2 # 0 /\ n % 4 >= 2 /\ n2 = (n + 1) \div 2 /\ a2 = a - w
           \/ n % 2 # 0 /\ ~ n % 4 >= 2 /\ n2 = (n - 1) \div 2 /\ a2 = a + w
        /\ mult' = [mult EXCEPT ![Cur] = n2] /\ acc' = [acc EXCEPT ![Cur] = a2]
    BY <1>1, <1>2, <1>7 DEF TypeOK
  <1>9. n2 \in Int /\ a2 \in Int
    <2> HIDE DEF n2, a2, n, w, a
    <2> QED BY <1>2, <1>5, <1>8
  <1>10. RoundTo(w, m, n2, a2)
    <2> HIDE DEF n2, a2, n, w, a, m
    <2>1. RoundFrom(n, w, a, m, n2, a2)
      BY <1>2, <1>4, <1>5, <1>6, <1>8, <1>9 DEF RoundFrom
    <2> QED BY <2>1, TableRoundArithmetic
  <1>11. TypeOK'
    <2>1. mult' \in [Points -> Nat] /\ acc' \in [Points -> Int]
      BY <1>1, <1>2, <1>8, <1>9, <1>10 DEF TypeOK, RoundTo
    <2> QED BY <1>1, <2>1 DEF TypeOK
  <1>12. TableInv'
    <2>1. Weight(T)' = 2 * w
      <3>1. Weight(T)' = IF entry + 1 < Len(T) THEN T[entry + 1 + 1] ELSE 2 * T[Len(T)]
        BY <1>1, <1>2 DEF Weight
      <3>2. CASE entry + 1 < Len(T)
        BY <1>2, <1>3, <1>5, <3>1, <3>2 DEF IsPowers
      <3>3. CASE entry + 1 = Len(T)
        BY <1>2, <3>1, <3>3
      <3> QED BY <1>1, <1>2, <1>5, <3>2, <3>3
    <2>2. entry' = Len(T) => n2 = 0
      BY <1>1, <1>2, <1>3, <1>4, <1>5, <1>10 DEF RoundTo, TableBound
    <2>3. entry' <= Len(T)
      BY <1>1, <1>2, <1>5
    <2> QED BY <1>1, <1>2, <1>10, <2>1, <2>2, <2>3 DEF TableInv, RoundTo
  <1>13. TablesInv' /\ LinksInv' /\ OwedInv' /\ BothInv'
    BY <1>1, LinksKept DEF IInv, TablesInv, IsPowers, OwedInv, BothInv, InMulAdd
  <1>14. BuildInv' /\ NafInv' /\ LoopInv'
    BY <1>1 DEF BuildInv, NafInv, LoopInv
  <1>15. MethodInv'
    <2>1. table'[Cur'] # <<>> /\ Cur' \in Generators
      BY <1>1, <1>2, <1>3
    <2> QED BY <1>1, <2>1 DEF IInv, MethodInv
  <1> QED BY <1>11, <1>12, <1>13, <1>14, <1>15 DEF IInv

----------------------------------------------------------------------------
(* Non-adjacent forms.                                                     *)

LEMMA FindDigitStep ==
  ASSUME TypeOK, LinksInv, NEW b \in Points, FindDigit(b), UNCHANGED Generators,
         NEW m, Trail(b, m)
  PROVE  /\ TypeOK' /\ LinksInv' /\ Trail(b, m)'
         /\ \A c \in Points \ {b} :
              digits'[c] = digits[c] /\ trail'[c] = trail[c] /\ mult'[c] = mult[c]
  <1> DEFINE n == mult[b]  d == Digit(n)  rest == (n - d) \div 2
             D == digits[b]  T == trail[b]
  <1>1. /\ digits' = [digits EXCEPT ![b] = Append(D, d)]
        /\ mult' = [mult EXCEPT ![b] = rest]
        /\ trail' = [trail EXCEPT ![b] = Append(T, rest)]
        /\ UNCHANGED <<pc, goal, owed, out, table, power, list, entry, left, acc>>
    BY DEF FindDigit
  <1>2. n \in Nat /\ D \in Seq({-1, 0, 1}) /\ T \in Seq(Nat)
    BY DEF TypeOK
  <1>3. /\ d \in {-1, 0, 1} /\ rest \in Nat /\ n = 2 * rest + d
        /\ d = 0 \/ rest % 2 = 0
        /\ n % 2 = 0 => d = 0
    BY <1>2, DigitProperties
  <1> HIDE DEF d, rest
  <1>4. Append(D, d) \in Seq({-1, 0, 1}) /\ Append(T, rest) \in Seq(Nat)
    BY <1>2, <1>3
  <1>5. TypeOK'
    BY <1>1, <1>3, <1>4 DEF TypeOK
  <1>6. /\ digits'[b] = Append(D, d) /\ trail'[b] = Append(T, rest) /\ mult'[b] = rest
        /\ \A c \in Points \ {b} :
             digits'[c] = digits[c] /\ trail'[c] = trail[c] /\ mult'[c] = mult[c]
    BY <1>1 DEF TypeOK
  <1>7. Len(T) = Len(D) + 1 /\ T[Len(T)] = n /\ T[1] = m /\ Len(D) \in Nat
    BY <1>2 DEF LinksInv, Trail
  <1> DEFINE D2 == digits'[b]  T2 == trail'[b]  k == Len(D)
  <1>8. /\ Len(D2) = k + 1 /\ Len(T2) = k + 2
        /\ \A i \in 1 .. k : D2[i] = D[i]
        /\ \A i \in 1 .. k + 1 : T2[i] = T[i]
        /\ D2[k + 1] = d /\ T2[k + 2] = rest
    <2>1. D2 = Append(D, d) /\ T2 = Append(T, rest) /\ Len(T) = k + 1 /\ k \in Nat
      BY <1>6, <1>7
    <2> HIDE DEF D2, T2, D, T
    <2>2. Len(D2) = k + 1 /\ D2[k + 1] = d /\ \A i \in 1 .. k : D2[i] = D[i]
      BY <1>2, <1>3, <2>1
    <2>3. Len(T2) = k + 2 /\ T2[k + 2] = rest /\ \A i \in 1 .. k + 1 : T2[i] = T[i]
      BY <1>2, <1>3, <2>1
    <2> QED BY <2>2, <2>3
  <1>9. Trail(b, m)'
    BY <1>6, <1>7, <1>8 DEF Trail
  <1>10. \A i \in 1 .. k + 1 : Linked(b, i)'
    <2> SUFFICES ASSUME NEW i \in 1 .. k + 1 PROVE Linked(b, i)'
      OBVIOUS
    <2>1. CASE i \in 1 .. k
      <3>1. Linked(b, i)
        BY <2>1 DEF LinksInv
      <3>2. D2[i] = D[i] /\ T2[i] = T[i] /\ T2[i + 1] = T[i + 1]
        <4>1. i \in 1 .. k /\ i \in 1 .. k + 1 /\ i + 1 \in 1 .. k + 1
          BY <1>7, <2>1
        <4> QED BY <1>8, <4>1
      <3> QED BY <3>1, <3>2 DEF Linked
    <2>2. CASE i = k + 1
      <3>1. D2[i] = d /\ T2[i] = n /\ T2[i + 1] = rest
        BY <1>7, <1>8, <2>2
      <3> QED BY <1>3, <3>1 DEF Linked
    <2> QED BY <1>7, <2>1, <2>2
  <1>11. LinksInv'
    <2> SUFFICES ASSUME NEW c \in Points
                 PROVE  /\ Len(trail'[c]) = Len(digits'[c]) + 1
                        /\ \A i \in 1 .. Len(digits'[c]) : Linked(c, i)'
      BY DEF LinksInv
    <2>1. CASE c = b
      BY <1>7, <1>8, <1>10, <2>1
    <2>2. CASE c # b
      BY <1>6, <2>2 DEF LinksInv, Linked
    <2> QED BY <2>1, <2>2
  <1> QED BY <1>5, <1>6, <1>9, <1>11

LEMMA NafRoundStep == IInv /\ NafRound /\ UNCHANGED Generators => IInv'
  <1> SUFFICES ASSUME IInv, NafRound, UNCHANGED Generators PROVE IInv'
    OBVIOUS
  <1>1. /\ pc = "naf" /\ FindDigit(Cur) /\ TypeOK /\ LinksInv /\ Cur \in Points
        /\ UNCHANGED <<pc, goal, owed, out, table, power, list, entry, left, acc>>
    BY DEF NafRound, IInv, FindDigit, Cur, Points
  <1>2. Cur' = Cur /\ K' = K
    BY <1>1 DEF Cur, K
  <1>3. Trail(Cur, Reduce(K, 2 * Order))
    BY <1>1 DEF IInv, NafInv
  <1>4. /\ TypeOK' /\ LinksInv' /\ (Trail(Cur, Reduce(K, 2 * Order)))'
        /\ \A c \in Points \ {Cur} : digits'[c] = digits[c]
    <2> DEFINE b == Cur  m == Reduce(K, 2 * Order)
    <2>1. Trail(b, m) /\ b \in Points /\ FindDigit(b) /\ b' = b /\ m' = m
      BY <1>1, <1>2, <1>3
    <2>2. /\ TypeOK' /\ LinksInv' /\ trail'[b][1] = m
          /\ trail'[b][Len(trail'[b])] = mult'[b]
          /\ \A c \in Points \ {b} : digits'[c] = digits[c]
      BY <1>1, <2>1, FindDigitStep DEF Trail
    <2> QED BY <2>1, <2>2 DEF Trail
  <1>5. NafInv'
    BY <1>1, <1>2, <1>4 DEF NafInv, IInv
  <1>6. TablesInv' /\ OwedInv' /\ BothInv'
    BY <1>1 DEF IInv, TablesInv, IsPowers, OwedInv, BothInv, InMulAdd
  <1>7. BuildInv' /\ MethodInv' /\ TableInv' /\ LoopInv'
    BY <1>1 DEF IInv, BuildInv, MethodInv, TableInv, LoopInv
  <1> QED BY <1>4, <1>5, <1>6, <1>7 DEF IInv

LEMMA LongestType ==
  ASSUME TypeOK
  PROVE  Longest \in Nat /\ \A b \in Points : Len(digits[b]) <= Longest
  <1>1. \A b \in Points : Len(digits[b]) \in Nat
    BY DEF TypeOK
  <1> QED BY <1>1 DEF Longest, Points

LEMMA NafEndStep == IInv /\ NafEnd /\ UNCHANGED Generators => IInv'
  <1> SUFFICES ASSUME IInv, NafEnd, UNCHANGED Generators PROVE IInv'
    OBVIOUS
  <1>1. /\ pc = "naf" /\ mult[Cur] = 0 /\ pc' = "loop" /\ left' = Longest /\ acc' = Zero
        /\ UNCHANGED <<goal, owed, out, table, power, list, entry, mult, digits, trail>>
        /\ TypeOK /\ LinksInv /\ Cur \in Points
    BY DEF NafEnd, StartLoop, IInv, Cur, Points
  <1>2. Cur' = Cur /\ K' = K
    BY <1>1 DEF Cur, K
  <1>3. Trail(Cur, Reduce(K, 2 * Order)) /\ \A b \in Points \ {Cur} : digits[b] = <<>>
    BY <1>1 DEF IInv, NafInv
  <1>4. Longest = Len(digits[Cur]) /\ Longest \in Nat
    <2>1. \A b \in Points : Len(digits[b]) \in Nat
      BY <1>1 DEF TypeOK
    <2>2. Cur = 1 => Len(digits[2]) = 0
      BY <1>3 DEF Points
    <2>3. Cur = 2 => Len(digits[1]) = 0
      BY <1>3 DEF Points
    <2> QED BY <1>1, <2>1, <2>2, <2>3 DEF Longest, Points
  <1>5. TypeOK'
    BY <1>1, <1>4, ZeroType DEF TypeOK, Labels
  <1>6. NafInv'
    BY <1>1, <1>2, <1>3 DEF NafInv, Trail
  <1>7. LoopInv'
    <2>1. trail[Cur][Longest + 1] = 0
      BY <1>1, <1>3, <1>4 DEF LinksInv, Trail
    <2>2. acc'[Cur] = 0
      BY <1>1, ZeroType
    <2> QED BY <1>1, <1>2, <1>4, <2>1, <2>2 DEF LoopInv
  <1>8. TablesInv' /\ LinksInv' /\ OwedInv' /\ BothInv'
    BY <1>1, LinksKept DEF IInv, TablesInv, IsPowers, OwedInv, BothInv, InMulAdd
  <1>9. BuildInv' /\ MethodInv' /\ TableInv'
    BY <1>1 DEF IInv, BuildInv, MethodInv, TableInv
  <1> QED BY <1>5, <1>6, <1>7, <1>8, <1>9 DEF IInv

LEMMA LoopRoundStep == IInv /\ LoopRound /\ UNCHANGED Generators => IInv'
  <1> SUFFICES ASSUME IInv, LoopRound, UNCHANGED Generators PROVE IInv'
    OBVIOUS
  <1> DEFINE D == digits[Cur]  T == trail[Cur]  d == D[left]
             doubled == [b \in Points |-> 2 * acc[b]]
  <1>1. /\ pc = "loop" /\ left > 0 /\ left' = left - 1
        /\ acc' = IF d = 0 THEN doubled
                  ELSE IF d < 0 THEN [doubled EXCEPT ![Cur] = @ - 1]
                  ELSE [doubled EXCEPT ![Cur] = @ + 1]
        /\ UNCHANGED <<pc, goal, owed, out, table, power, list, entry, mult, digits, trail>>
        /\ TypeOK /\ LinksInv
    BY DEF LoopRound, IInv
  <1>2. Cur \in Points /\ Cur' = Cur /\ K' = K /\ left \in Nat
    BY <1>1 DEF Cur, K, Points, TypeOK
  <1>3. left <= Len(D) /\ acc[Cur] = T[left + 1] /\ mult[Cur] = 0 /\ left \in 1 .. Len(D)
    <2>1. left <= Len(D) /\ acc[Cur] = T[left + 1] /\ mult[Cur] = 0
      BY <1>1 DEF IInv, LoopInv
    <2>2. D \in Seq({-1, 0, 1})
      BY <1>1, <1>2 DEF TypeOK
    <2> QED BY <1>1, <1>2, <2>1, <2>2
  <1>4. d \in {-1, 0, 1}
    <2>1. D \in Seq({-1, 0, 1})
      BY <1>1, <1>2 DEF TypeOK
    <2> QED BY <1>3, <2>1
  <1>5. acc' \in [Points -> Int] /\ acc'[Cur] = 2 * acc[Cur] + d
    <2>1. doubled \in [Points -> Int] /\ doubled[Cur] = 2 * acc[Cur] /\ acc[Cur] \in Int
      BY <1>1, <1>2 DEF TypeOK
    <2> HIDE DEF doubled, d
    <2> QED BY <1>1, <1>2, <1>4, <2>1
  <1>6. TypeOK'
    <2>1. left' \in Nat
      <3>1. left > 0 /\ left' = left - 1 /\ left \in Nat
        BY <1>1, <1>2
      <3> QED BY <3>1
    <2> HIDE DEF d, doubled
    <2>2. acc' \in [Points -> Int]
      BY <1>5
    <2>3. /\ TypeOK
          /\ UNCHANGED <<pc, goal, owed, out, table, power, list, entry, mult, digits, trail>>
      BY <1>1
    <2> QED BY <2>1, <2>2, <2>3 DEF TypeOK
  <1>7. LoopInv'
    <2>1. T[left] = 2 * T[left + 1] + d
      BY <1>1, <1>2, <1>3 DEF LinksInv, Linked
    <2>2. left' + 1 = left /\ left' <= Len(D)
      <3>1. left' = left - 1
        BY <1>1
      <3>2. left \in 1 .. Len(D)
        BY <1>3
      <3>3. Len(D) \in Nat
        BY <1>1, <1>2 DEF TypeOK
      <3> QED BY <3>1, <3>2, <3>3
    <2>3. acc'[Cur] = T[left' + 1]
      BY <1>3, <1>5, <2>1, <2>2
    <2> QED BY <1>1, <1>2, <1>3, <2>2, <2>3 DEF LoopInv
  <1>8. NafInv'
    BY <1>1, <1>2 DEF IInv, NafInv, Trail
  <1>9. TablesInv' /\ LinksInv' /\ OwedInv' /\ BothInv'
    BY <1>1, LinksKept DEF IInv, TablesInv, IsPowers, OwedInv, BothInv, InMulAdd
  <1>10. BuildInv' /\ MethodInv' /\ TableInv'
    BY <1>1 DEF IInv, BuildInv, MethodInv, TableInv
  <1> QED BY <1>6, <1>7, <1>8, <1>9, <1>10 DEF IInv

----------------------------------------------------------------------------
(* The actions of mul_add.                                                 *)

LEMMA PrepareBuildStep == IInv /\ PrepareBuild /\ UNCHANGED Generators => IInv'
  <1> SUFFICES ASSUME IInv, PrepareBuild, UNCHANGED Generators PROVE IInv'
    OBVIOUS
  <1>1. /\ pc = "prepare" /\ pc' = "build" /\ Lacking # {} /\ power' = 1 /\ list' = <<1>>
        /\ UNCHANGED <<goal, owed, out, table, entry, mult, digits, trail, left, acc>>
        /\ TypeOK /\ owed = Zero /\ out = Zero
    BY DEF PrepareBuild, StartBuild, IInv, BothInv, InMulAdd
  <1>2. TypeOK'
    <2>1. <<1>> \in Seq(Nat)
      OBVIOUS
    <2> QED BY <1>1, <2>1 DEF TypeOK, Labels
  <1>3. BuildInv'
    <2>1. Target' = Target /\ Target \in Lacking
      BY <1>1, GeneratorsType DEF Target, Lacking, Points
    <2>2. Order > 0
      BY <1>1, GeneratorsType DEF Lacking
    <2> QED BY <1>1, <2>1, <2>2 DEF BuildInv, IsPowers, Lacking
  <1>4. TablesInv' /\ LinksInv' /\ OwedInv' /\ BothInv'
    BY <1>1, LinksKept DEF IInv, TablesInv, IsPowers, OwedInv, BothInv, InMulAdd
  <1>5. MethodInv' /\ TableInv' /\ NafInv' /\ LoopInv'
    BY <1>1 DEF MethodInv, TableInv, NafInv, LoopInv
  <1> QED BY <1>2, <1>3, <1>4, <1>5 DEF IInv

(* Two products of their own, each counting as the caller wants.           *)
LEMMA PrepareTablesStep == IInv /\ PrepareTables /\ UNCHANGED Generators => IInv'
  <1> SUFFICES ASSUME IInv, PrepareTables, UNCHANGED Generators PROVE IInv'
    OBVIOUS
  <1>1. /\ pc = "prepare" /\ pc' = "next" /\ owed' = goal
        /\ UNCHANGED <<goal, out, table, scratch>>
        /\ TypeOK /\ out = Zero
    BY DEF PrepareTables, IInv, BothInv, InMulAdd
  <1>2. TypeOK'
    BY <1>1 DEF TypeOK, Labels, scratch
  <1>3. OwedInv'
    <2>1. \A b \in Points : out'[b] + owed'[b] = goal'[b]
      BY <1>1, ZeroType DEF TypeOK
    <2> QED BY <2>1 DEF OwedInv
  <1>4. TablesInv' /\ LinksInv'
    BY <1>1, LinksKept DEF IInv, TablesInv, IsPowers, scratch
  <1>5. BuildInv' /\ MethodInv' /\ TableInv' /\ NafInv' /\ LoopInv' /\ BothInv'
    BY <1>1 DEF BuildInv, MethodInv, TableInv, NafInv, LoopInv, BothInv, InMulAdd
  <1> QED BY <1>2, <1>3, <1>4, <1>5 DEF IInv

LEMMA ReducedGoal ==
  ASSUME TypeOK
  PROVE  [b \in Points |-> Reduce(goal[b], Order)] \in [Points -> Nat]
  <1>1. \A b \in Points : Reduce(goal[b], Order) \in Nat
    BY ReduceType, GeneratorsType DEF TypeOK
  <1> QED BY <1>1

LEMMA PrepareOppositeStep == IInv /\ PrepareOpposite /\ UNCHANGED Generators => IInv'
  <1> SUFFICES ASSUME IInv, PrepareOpposite, UNCHANGED Generators PROVE IInv'
    OBVIOUS
  <1>1. /\ pc = "prepare" /\ pc' = "next"
        /\ owed' = [b \in Points |-> Reduce(goal[b], Order)]
        /\ UNCHANGED <<goal, out, table, scratch>>
        /\ TypeOK /\ out = Zero
    BY DEF PrepareOpposite, IInv, BothInv, InMulAdd
  <1>2. TypeOK'
    BY <1>1, ReducedGoal DEF TypeOK, Labels, scratch
  <1>3. OwedInv'
    <2> SUFFICES ASSUME NEW b \in Points
                 PROVE  Reduce(out'[b] + owed'[b], Order) = Reduce(goal'[b], Order)
      BY DEF OwedInv
    <2>1. goal[b] \in Nat /\ out'[b] = 0 /\ owed'[b] = Reduce(goal[b], Order)
          /\ goal'[b] = goal[b]
      BY <1>1, ZeroType DEF TypeOK
    <2>2. Reduce(0 + Reduce(goal[b], Order), Order) = Reduce(0 + goal[b], Order)
      BY <2>1, ReduceAddend, 0 \in Int, Order \in {Order, 2 * Order}
    <2> QED BY <2>1, <2>2
  <1>4. TablesInv' /\ LinksInv'
    BY <1>1, LinksKept DEF IInv, TablesInv, IsPowers, scratch
  <1>5. BuildInv' /\ MethodInv' /\ TableInv' /\ NafInv' /\ LoopInv' /\ BothInv'
    BY <1>1 DEF BuildInv, MethodInv, TableInv, NafInv, LoopInv, BothInv, InMulAdd
  <1> QED BY <1>2, <1>3, <1>4, <1>5 DEF IInv

LEMMA PrepareBothStep == IInv /\ PrepareBoth /\ UNCHANGED Generators => IInv'
  <1> SUFFICES ASSUME IInv, PrepareBoth, UNCHANGED Generators PROVE IInv'
    OBVIOUS
  <1> DEFINE m == [b \in Points |-> Reduce(goal[b], Order)]
  <1>1. /\ pc = "prepare" /\ pc' = "bothNaf" /\ StartNaf(m)
        /\ UNCHANGED <<goal, owed, out, table>>
        /\ TypeOK /\ owed = Zero /\ out = Zero
    BY DEF PrepareBoth, IInv, BothInv, InMulAdd
  <1>2. m \in [Points -> Nat] /\ \A b \in Points : m[b] = Reduce(goal[b], Order)
    BY <1>1, ReducedGoal
  <1> HIDE DEF m
  <1>3. TypeOK' /\ LinksInv'
    BY <1>1, <1>2, StartNafStep DEF TypeOK, Labels
  <1>4. BothInv'
    <2>1. m' = m /\ \A b \in Points : trail'[b][1] = m[b] /\ trail'[b][Len(trail'[b])] = mult'[b]
      <3>1. /\ trail' = [b \in Points |-> <<m[b]>>] /\ mult' = m
        BY <1>1 DEF StartNaf
      <3>2. m' = m
        BY <1>1 DEF m
      <3> QED BY <3>1, <3>2
    <2>2. \A b \in Points : trail'[b][1] = Reduce(goal'[b], Order)
      BY <1>1, <1>2, <2>1
    <2> QED BY <1>1, <2>1, <2>2 DEF BothInv, InMulAdd, Trail
  <1>5. TablesInv'
    BY <1>1 DEF IInv, TablesInv, IsPowers
  <1>6. BuildInv' /\ MethodInv' /\ TableInv' /\ NafInv' /\ LoopInv' /\ OwedInv'
    BY <1>1 DEF BuildInv, MethodInv, TableInv, NafInv, LoopInv, OwedInv, InMulAdd
  <1> QED BY <1>3, <1>4, <1>5, <1>6 DEF IInv

LEMMA BothNafRoundStep ==
  ASSUME IInv, NEW b \in Points, BothNafRound(b), UNCHANGED Generators
  PROVE  IInv'
  <1>1. /\ pc = "bothNaf" /\ FindDigit(b) /\ TypeOK /\ LinksInv
        /\ UNCHANGED <<pc, goal, owed, out, table, power, list, entry, left, acc>>
    BY DEF BothNafRound, FindDigit, IInv
  <1>2. owed = Zero /\ out = Zero /\ \A c \in Points : Trail(c, Reduce(goal[c], Order))
    BY <1>1 DEF IInv, BothInv, InMulAdd
  <1> DEFINE m == Reduce(goal[b], Order)
  <1>3. /\ TypeOK' /\ LinksInv'
        /\ trail'[b][1] = m /\ trail'[b][Len(trail'[b])] = mult'[b]
        /\ \A c \in Points \ {b} :
             digits'[c] = digits[c] /\ trail'[c] = trail[c] /\ mult'[c] = mult[c]
    <2>1. Trail(b, m) /\ m' = m
      BY <1>1, <1>2
    <2> HIDE DEF m
    <2> QED BY <1>1, <2>1, FindDigitStep DEF Trail
  <1>4. BothInv'
    <2>1. \A c \in Points : Trail(c, Reduce(goal[c], Order))'
      BY <1>1, <1>2, <1>3 DEF Trail
    <2> QED BY <1>1, <1>2, <2>1 DEF BothInv, InMulAdd
  <1>5. TablesInv'
    BY <1>1 DEF IInv, TablesInv, IsPowers
  <1>6. BuildInv' /\ MethodInv' /\ TableInv' /\ NafInv' /\ LoopInv' /\ OwedInv'
    BY <1>1 DEF BuildInv, MethodInv, TableInv, NafInv, LoopInv, OwedInv, InMulAdd
  <1> QED BY <1>3, <1>4, <1>5, <1>6 DEF IInv

LEMMA BothNafEndStep == IInv /\ BothNafEnd /\ UNCHANGED Generators => IInv'
  <1> SUFFICES ASSUME IInv, BothNafEnd, UNCHANGED Generators PROVE IInv'
    OBVIOUS
  <1>1. /\ pc = "bothNaf" /\ mult = Zero /\ pc' = "bothLoop" /\ left' = Longest
        /\ acc' = Zero
        /\ UNCHANGED <<goal, owed, out, table, power, list, entry, mult, digits, trail>>
        /\ TypeOK /\ LinksInv
    BY DEF BothNafEnd, StartLoop, IInv
  <1>2. owed = Zero /\ out = Zero /\ \A c \in Points : Trail(c, Reduce(goal[c], Order))
    BY <1>1 DEF IInv, BothInv, InMulAdd
  <1>3. TypeOK'
    BY <1>1, ZeroType, LongestType DEF TypeOK, Labels
  <1>4. BothInv'
    <2>1. ASSUME NEW b \in Points
          PROVE  /\ mult'[b] = 0 /\ acc'[b] = 0
                 /\ left' < Len(trail'[b]) => trail'[b][left' + 1] = 0
      <3>1. mult'[b] = 0 /\ acc'[b] = 0 /\ mult[b] = 0
        BY <1>1, ZeroType
      <3>2. Len(trail[b]) = Len(digits[b]) + 1 /\ Len(digits[b]) \in Nat
            /\ Len(digits[b]) <= Longest /\ Longest \in Nat
        BY <1>1, LongestType DEF LinksInv, TypeOK
      <3>3. Longest < Len(trail[b]) => Longest + 1 = Len(trail[b])
        BY <3>2
      <3>4. trail[b][Len(trail[b])] = 0
        BY <1>2, <3>1 DEF Trail
      <3> QED BY <1>1, <3>1, <3>3, <3>4
    <2>2. \A c \in Points : Trail(c, Reduce(goal[c], Order))'
      BY <1>1, <1>2 DEF Trail
    <2> QED BY <1>1, <1>2, <2>1, <2>2 DEF BothInv, InMulAdd
  <1>5. TablesInv' /\ LinksInv'
    BY <1>1, LinksKept DEF IInv, TablesInv, IsPowers
  <1>6. BuildInv' /\ MethodInv' /\ TableInv' /\ NafInv' /\ LoopInv' /\ OwedInv'
    BY <1>1 DEF BuildInv, MethodInv, TableInv, NafInv, LoopInv, OwedInv, InMulAdd
  <1> QED BY <1>3, <1>4, <1>5, <1>6 DEF IInv

LEMMA BothLoopRoundStep == IInv /\ BothLoopRound /\ UNCHANGED Generators => IInv'
  <1> SUFFICES ASSUME IInv, BothLoopRound, UNCHANGED Generators PROVE IInv'
    OBVIOUS
  <1>1. /\ pc = "bothLoop" /\ left > 0 /\ left' = left - 1
        /\ acc' = [b \in Points |-> 2 * acc[b] + At(digits[b], left)]
        /\ UNCHANGED <<pc, goal, owed, out, table, power, list, entry, mult, digits, trail>>
        /\ TypeOK /\ LinksInv
    BY DEF BothLoopRound, IInv
  <1>2. /\ owed = Zero /\ out = Zero
        /\ \A c \in Points : Trail(c, Reduce(goal[c], Order)) /\ mult[c] = 0
        /\ \A b \in Points :
             acc[b] = IF left < Len(trail[b]) THEN trail[b][left + 1] ELSE 0
    BY <1>1 DEF IInv, BothInv, InMulAdd
  <1>3. left \in Nat /\ left' \in Nat /\ left' + 1 = left
    <2>1. left \in Nat /\ left > 0 /\ left' = left - 1
      BY <1>1 DEF TypeOK
    <2> QED BY <2>1
  <1>4. ASSUME NEW b \in Points
        PROVE  /\ acc'[b] \in Int
               /\ acc'[b] = IF left' < Len(trail'[b]) THEN trail'[b][left' + 1] ELSE 0
    <2> DEFINE k == Len(digits[b])
    <2>1. /\ digits[b] \in Seq({-1, 0, 1}) /\ trail[b] \in Seq(Nat) /\ acc[b] \in Int
          /\ k \in Nat /\ Len(trail[b]) = k + 1
          /\ acc'[b] = 2 * acc[b] + At(digits[b], left) /\ trail' = trail
      BY <1>1 DEF TypeOK, LinksInv
    <2>2. CASE left <= k
      <3>1. left \in 1 .. k
        BY <1>1, <1>3, <2>1, <2>2
      <3>2. trail[b][left] = 2 * trail[b][left + 1] + digits[b][left]
        BY <1>1, <3>1 DEF LinksInv, Linked
      <3>3. acc[b] = trail[b][left + 1] /\ At(digits[b], left) = digits[b][left]
        BY <1>2, <1>3, <2>1, <2>2 DEF At
      <3>4. digits[b][left] \in {-1, 0, 1}
        BY <2>1, <3>1
      <3>5. acc'[b] = 2 * acc[b] + digits[b][left]
        BY <2>1, <3>3
      <3>6. acc'[b] = trail[b][left]
        BY <3>2, <3>3, <3>5
      <3>7. acc'[b] \in Int
        BY <2>1, <3>4, <3>5
      <3>8. left' < Len(trail'[b]) /\ trail'[b][left' + 1] = trail[b][left]
        <4>1. trail'[b] = trail[b]
          BY <2>1
        <4>2. Len(trail[b]) = k + 1 /\ k \in Nat
          BY <2>1
        <4>3. left' < k + 1
          <5>1. left \in Nat /\ left' = left - 1
            BY <1>1, <1>3
          <5> QED BY <5>1, <2>2, <4>2
        <4> QED BY <1>3, <4>1, <4>2, <4>3
      <3> QED BY <3>6, <3>7, <3>8
    <2>3. CASE left = k + 1
      <3>1. acc'[b] = 0 /\ left' = k
        BY <1>2, <1>3, <2>1, <2>3 DEF At
      <3>2. trail[b][k + 1] = 0
        BY <1>2, <2>1 DEF Trail
      <3> QED BY <2>1, <3>1, <3>2
    <2>4. CASE left > k + 1
      <3>1. acc[b] = 0 /\ At(digits[b], left) = 0 /\ ~ (left' < k + 1)
        <4>1. ~ (left < k + 1) /\ ~ (left <= k) /\ ~ (left' < k + 1)
          BY <1>3, <2>1, <2>4
        <4>2. acc[b] = IF left < k + 1 THEN trail[b][left + 1] ELSE 0
          BY <1>2, <2>1
        <4> QED BY <4>1, <4>2 DEF At
      <3>2. acc'[b] = 0
        BY <2>1, <3>1
      <3> QED BY <2>1, <3>1, <3>2
    <2> QED BY <1>3, <2>1, <2>2, <2>3, <2>4
  <1>5. acc' \in [Points -> Int]
    BY <1>1, <1>4
  <1>6. TypeOK'
    BY <1>1, <1>3, <1>5 DEF TypeOK
  <1>7. BothInv'
    <2>1. \A c \in Points : Trail(c, Reduce(goal[c], Order))' /\ mult'[c] = 0
      BY <1>1, <1>2 DEF Trail
    <2> QED BY <1>1, <1>2, <1>4, <2>1 DEF BothInv, InMulAdd
  <1>8. TablesInv' /\ LinksInv'
    BY <1>1, LinksKept DEF IInv, TablesInv, IsPowers
  <1>9. BuildInv' /\ MethodInv' /\ TableInv' /\ NafInv' /\ LoopInv' /\ OwedInv'
    BY <1>1 DEF BuildInv, MethodInv, TableInv, NafInv, LoopInv, OwedInv, InMulAdd
  <1> QED BY <1>6, <1>7, <1>8, <1>9 DEF IInv

LEMMA BothLoopEndStep == IInv /\ BothLoopEnd /\ UNCHANGED Generators => IInv'
  <1> SUFFICES ASSUME IInv, BothLoopEnd, UNCHANGED Generators PROVE IInv'
    OBVIOUS
  <1>1. /\ pc = "bothLoop" /\ left = 0 /\ out' = acc /\ Forget /\ pc' = "idle"
        /\ UNCHANGED <<goal, owed, table>> /\ TypeOK /\ LinksInv
    BY DEF BothLoopEnd, IInv
  <1>2. /\ owed = Zero
        /\ \A c \in Points : Trail(c, Reduce(goal[c], Order))
        /\ \A b \in Points :
             acc[b] = IF left < Len(trail[b]) THEN trail[b][left + 1] ELSE 0
    BY <1>1 DEF IInv, BothInv, InMulAdd
  <1>3. TypeOK' /\ LinksInv'
    BY <1>1, ForgetType DEF TypeOK, Labels
  <1>4. OwedInv'
    <2> SUFFICES ASSUME NEW b \in Points
                 PROVE  Reduce(out'[b] + owed'[b], Order) = Reduce(goal'[b], Order)
      BY DEF OwedInv
    <2>1. 0 < Len(trail[b])
      BY <1>1 DEF TypeOK, LinksInv
    <2>2. goal[b] \in Nat /\ acc[b] \in Int
      BY <1>1 DEF TypeOK
    <2>3. acc[b] = trail[b][1]
      BY <1>1, <1>2, <2>1
    <2>4. acc[b] = Reduce(goal[b], Order)
      BY <1>2, <2>3 DEF Trail
    <2>5. out'[b] + owed'[b] = 0 + Reduce(goal[b], Order) /\ goal'[b] = 0 + goal[b]
      BY <1>1, <1>2, <2>2, <2>4, ZeroType
    <2>6. Reduce(0 + Reduce(goal[b], Order), Order) = Reduce(0 + goal[b], Order)
      BY <2>2, ReduceAddend, 0 \in Int, Order \in {Order, 2 * Order}
    <2> QED BY <2>5, <2>6
  <1>5. TablesInv'
    BY <1>1 DEF IInv, TablesInv, IsPowers
  <1>6. BuildInv' /\ MethodInv' /\ TableInv' /\ NafInv' /\ LoopInv' /\ BothInv'
    BY <1>1, <1>2 DEF BuildInv, MethodInv, TableInv, NafInv, LoopInv, BothInv, InMulAdd
  <1> QED BY <1>3, <1>4, <1>5, <1>6 DEF IInv

----------------------------------------------------------------------------
(* The invariant, and what it implies.                                     *)

LEMMA StutterStep == IInv /\ UNCHANGED vars => IInv'
  <1> SUFFICES ASSUME IInv, UNCHANGED vars PROVE IInv'
    OBVIOUS
  <1>1. TypeOK'
    BY DEF IInv, TypeOK, vars
  <1>2. TablesInv' /\ BuildInv' /\ MethodInv' /\ TableInv' /\ OwedInv'
    BY DEF IInv, TablesInv, BuildInv, IsPowers, MethodInv, TableInv, Weight, OwedInv,
           InMulAdd, Cur, K, Target, Lacking, vars
  <1>3. LinksInv' /\ NafInv' /\ LoopInv' /\ BothInv'
    BY LinksKept DEF IInv, NafInv, LoopInv, BothInv, Trail, InMulAdd, Cur, K, vars
  <1> QED BY <1>1, <1>2, <1>3 DEF IInv

LEMMA NextStep == IInv /\ [Next]_vars => IInv'
  <1> SUFFICES ASSUME IInv, [Next]_vars PROVE IInv'
    OBVIOUS
  <1>1. CASE (CallMul \/ CallMulAdd \/ Return) /\ UNCHANGED Generators
    BY <1>1, CallStep
  <1>2. CASE (MulTrivial \/ MulChoose) /\ UNCHANGED Generators
    BY <1>2, MulTrivialStep, MulChooseStep
  <1>3. CASE (BuildRound \/ BuildEnd) /\ UNCHANGED Generators
    BY <1>3, BuildRoundStep, BuildEndStep
  <1>4. CASE (TableRound \/ TableEnd) /\ UNCHANGED Generators
    BY <1>4, TableRoundStep, TableEndStep
  <1>5. CASE (NafRound \/ NafEnd) /\ UNCHANGED Generators
    BY <1>5, NafRoundStep, NafEndStep
  <1>6. CASE (LoopRound \/ LoopEnd) /\ UNCHANGED Generators
    BY <1>6, LoopRoundStep, LoopEndStep
  <1>7. CASE (PrepareBuild \/ PrepareTables \/ PrepareOpposite \/ PrepareBoth) /\ UNCHANGED Generators
    BY <1>7, PrepareBuildStep, PrepareTablesStep, PrepareOppositeStep, PrepareBothStep
  <1>8. CASE ((\E b \in Points : BothNafRound(b)) \/ BothNafEnd) /\ UNCHANGED Generators
    BY <1>8, BothNafRoundStep, BothNafEndStep
  <1>9. CASE (BothLoopRound \/ BothLoopEnd) /\ UNCHANGED Generators
    BY <1>9, BothLoopRoundStep, BothLoopEndStep
  <1>10. CASE UNCHANGED vars
    BY <1>10, StutterStep
  <1> QED BY <1>1, <1>2, <1>3, <1>4, <1>5, <1>6, <1>7, <1>8, <1>9, <1>10 DEF Next, Step

(* IInv holds in every state of __mul__ and mul_add.                       *)
THEOREM Invariant == Spec => []IInv
  <1>1. Init => IInv
    BY InitIInv
  <1>2. IInv /\ [Next]_vars => IInv'
    BY NextStep
  <1> QED BY <1>1, <1>2, PTL DEF Spec

(* Every variable keeps its type; no multiplier becomes negative.          *)
THEOREM TypeCorrect == Spec => []TypeOK
  <1>1. IInv => TypeOK
    BY DEF IInv
  <1> QED BY <1>1, Invariant, PTL

(* Whatever the order, the multipliers and the method taken, `*' and       *)
(* mul_add return the sum that was asked for, up to multiples of the order.*)
THEOREM SumCorrect == Spec => []SumIsCorrect
  <1>1. IInv => SumIsCorrect
    <2> SUFFICES ASSUME IInv, pc = "idle", NEW b \in Points
                 PROVE  Reduce(out[b], Order) = Reduce(goal[b], Order)
      BY DEF SumIsCorrect
    <2>1. owed = Zero /\ ~ InMulAdd /\ out[b] \in Int
      BY DEF IInv, MethodInv, InMulAdd, TypeOK
    <2>2. Reduce(out[b] + owed[b], Order) = Reduce(goal[b], Order)
      BY <2>1 DEF IInv, OwedInv
    <2>3. out[b] + owed[b] = out[b]
      BY <2>1, ZeroType
    <2> QED BY <2>2, <2>3
  <1> QED BY <1>1, Invariant, PTL

(* The lists that _naf returns are non-adjacent forms, whatever the number *)
(* it is called with.                                                      *)
THEOREM Adjacency == Spec => []NonAdjacent
  <1>1. IInv => NonAdjacent
    <2> SUFFICES ASSUME IInv, NEW b \in Points, NEW i \in 1 .. Len(digits[b]) - 1
                 PROVE  digits[b][i] = 0 \/ digits[b][i + 1] = 0
      BY DEF NonAdjacent
    <2>1. Len(digits[b]) \in Nat
      BY DEF IInv, TypeOK
    <2>2. i \in 1 .. Len(digits[b]) /\ i + 1 \in 1 .. Len(digits[b])
      BY <2>1
    <2>3. Linked(b, i) /\ Linked(b, i + 1)
      BY <2>2 DEF IInv, LinksInv
    <2> QED BY <2>3 DEF Linked
  <1> QED BY <1>1, Invariant, PTL

(* A table reaching to four times the order is long enough for every       *)
(* multiplier below twice the order: nothing of it is left at the end.     *)
THEOREM TableLongEnough == Spec => []TableSuffices
  <1>1. IInv => TableSuffices
    BY DEF IInv, TableInv, TableSuffices
  <1> QED BY <1>1, Invariant, PTL
=============================================================================
