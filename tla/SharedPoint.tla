---------------------------- MODULE SharedPoint ----------------------------
(***************************************************************************)
(* Points of src/src/ecdsa/ellipticcurve.py (class PointJacobi) shared by  *)
(* several threads without a lock.  A PointJacobi is mutable under the     *)
(* hood: scale() rewrites the private __coords, _maybe_precompute() fills  *)
(* the private __precompute lazily, and VerifyingKey.precompute() replaces *)
(* the point of a public key by a new object while others verify with it.  *)
(*                                                                         *)
(* One action is one access to a shared attribute, together with the       *)
(* thread-local work that follows it: an attribute load or store is what   *)
(* the interpreter makes atomic, so threads interleave exactly there.      *)
(*                                                                         *)
(* The data are abstracted to what the properties tell apart.  A point of  *)
(* the group of prime order Order is the multiple of the base point it     *)
(* is, an element of Value; the Jacobian triple (X, Y, Z) of such a point  *)
(* is that value and whether Z = 1.  The formulas on triples are the       *)
(* subject of module Jacobian.                                             *)
(***************************************************************************)
EXTENDS PointCalls, Sequences

CONSTANTS QScaled,   \* whether Z = 1 in Q (FALSE after an arithmetic result)
          TableLen,  \* the length of a complete precomputation table
          Kinds      \* the calls that are made (to split the runs)

ASSUME QScaledAssumption == QScaled \in BOOLEAN
ASSUME KindsAssumption   == Kinds \subseteq CallKinds \cup {"interrupt"}

(* `while i < order: i *= 2' runs with order = 4 * Order, and one entry is *)
(* appended before it: the table has the first length whose last power of  *)
(* two is not below 4 * Order.                                             *)
ASSUME TableLenAssumption ==
    /\ TableLen \in Nat /\ TableLen > 2
    /\ 2 ^ (TableLen - 2) < 4 * Order /\ 4 * Order <= 2 ^ (TableLen - 1)

----------------------------------------------------------------------------
(* Values and their representations.                                       *)

Coords == [v : 1 .. Order - 1, scaled : BOOLEAN]

(* mutant: the entries are not reduced.                                    *)
DblUnreduced(v) == 2 * v
Dbl(v) == (2 * v) % Order

(* X and Y of a triple read as if Z were 1.                                *)
AsAffine(c) == IF c.scaled THEN c.v ELSE Garbage

(* A complete table for the point v: v, 2v, 4v, ...                        *)
IsTable(tbl, v) ==
    /\ Len(tbl) = TableLen
    /\ tbl[1] = v
    /\ \A i \in 1 .. TableLen - 1 : tbl[i + 1] = Dbl(tbl[i])

(* mutant: a negative digit does not carry.                                *)
TableRoundNoCarry(k, out, e) ==
    IF k % 2 = 0 THEN [k |-> k \div 2, out |-> out]
    ELSE [k |-> (k - 1) \div 2,
          out |-> Plus(out, IF k % 4 >= 2 THEN Order - e ELSE e)]

(* One round of the loop of _mul_precompute(): the lowest signed digit of  *)
(* k, and the sum out with the entry e added as often as the digit says.   *)
TableRound(k, out, e) ==
    IF k % 2 = 0 THEN [k |-> k \div 2, out |-> out]
    ELSE IF k % 4 >= 2
         THEN [k |-> (k + 1) \div 2, out |-> Plus(out, Order - e)]
         ELSE [k |-> (k - 1) \div 2, out |-> Plus(out, e)]

----------------------------------------------------------------------------
VARIABLES live,    \* the objects that exist
          coords,  \* __coords of each object
          table,   \* __precompute of each object
          gen,     \* __generator of each object
          order,   \* __order of each object, 0 for None
          key,     \* VerifyingKey.pubkey.point
          pc,      \* what each thread does next
          req,     \* the call each thread executes
          loc,     \* the local variables of each thread
          res      \* what the last call of each thread returned

heap == <<live, coords, table, gen, order, key>>
vars == <<live, coords, table, gen, order, key, pc, req, loc, res>>

Labels == {"idle", "return", "mul", "mulChoose", "mulTable", "mulRound", "mulLoop",
           "mpTest", "mpRead", "mpBuild", "scRead", "scStore",
           "affZ", "affRead", "getX", "getY", "preKey", "preStore", "preMul",
           "maTest", "maOther", "maBothSelf", "maBothOther", "maReadSelf",
           "maReadOther", "maMulSelf", "maMulOther", "maSum",
           "eqSelf", "eqOther", "copy", "copyCoords", "copyTable", "copyMake"}

NoCoords == [v |-> 1, scaled |-> TRUE]

(* cur and k: the object and multiplier of the running subroutine; ret and *)
(* mret: where scale()/_maybe_precompute() and __mul__ return to; snap and *)
(* snap2: coordinates read; list: a table read or being built; acc: the    *)
(* first product of two; out: the value to be returned.                    *)
NewFrame(o, k, ret, mret) ==
    [cur |-> o, k |-> k, ret |-> ret, mret |-> mret, snap |-> NoCoords,
     snap2 |-> NoCoords, list |-> <<>>, acc |-> 0, out |-> 0]

IdleFrame == NewFrame(G, 0, "return", "return")

(* A key that was computed has the order of the generator for its point,   *)
(* one that was loaded from bytes or a file has none.                      *)
Init ==
    /\ live = {G, Q}
    /\ coords = [o \in Objects |->
                   IF o = Q THEN [v |-> QValue, scaled |-> QScaled]
                            ELSE [v |-> 1, scaled |-> TRUE]]
    /\ table = [o \in Objects |-> <<>>]
    /\ gen = [o \in Objects |-> o = G]
    /\ \E n \in QOrders :
         order = [o \in Objects |-> CASE o = G -> Order
                                      [] o = Q -> n
                                      [] OTHER -> 0]
    /\ key = Q
    /\ pc = [t \in Threads |-> "idle"]
    /\ req = [t \in Threads |-> NoCall]
    /\ loc = [t \in Threads |-> IdleFrame]
    /\ res = [t \in Threads |-> Nothing]

Goto(t, label) == pc' = [pc EXCEPT ![t] = label]

(* The step of a thread that only reads the heap.                          *)
Local(t, label, frame) ==
    /\ Goto(t, label)
    /\ loc' = [loc EXCEPT ![t] = frame]
    /\ UNCHANGED <<heap, req, res>>

Jump(t, label) == Local(t, label, loc[t])

----------------------------------------------------------------------------
(* Mutants: plausible mistakes in the steps below, each of which breaks a  *)
(* property.                                                               *)

(* mutant: a thread leaves the work to another that is at it.              *)
MaybePrecomputeElsewhere(t) ==
    LET l == loc[t] IN
    /\ pc[t] = "mpTest"
    /\ Jump(t, IF \/ ~ gen[l.cur] \/ table[l.cur] # <<>>
                  \/ \E u \in Threads : pc[u] = "mpBuild" /\ loc[u].cur = l.cur
               THEN l.ret ELSE "mpRead")

(* mutant: self.__precompute is emptied before it is computed.             *)
PrecomputeReset(t) ==
    LET l == loc[t] IN
    /\ pc[t] = "mpRead"
    /\ order[l.cur] # 0
    /\ table' = [table EXCEPT ![l.cur] = <<>>]
    /\ Goto(t, "mpBuild")
    /\ loc' = [loc EXCEPT ![t].list = <<coords[l.cur].v>>]
    /\ UNCHANGED <<live, coords, gen, order, key, req, res>>

(* mutant: the entries are appended to self.__precompute itself.           *)
PrecomputeInPlace(t) ==
    LET l == loc[t]  next == Dbl(l.list[Len(l.list)]) IN
    /\ pc[t] = "mpBuild"
    /\ Len(l.list) < TableLen
    /\ table' = [table EXCEPT ![l.cur] = Append(l.list, next)]
    /\ loc' = [loc EXCEPT ![t].list = Append(@, next)]
    /\ Goto(t, "mpBuild")
    /\ UNCHANGED <<live, coords, gen, order, key, req, res>>

(* mutant: the coordinates are used without scale().                       *)
MulChooseUnscaled(t) ==
    LET l == loc[t] IN
    /\ pc[t] = "mulChoose"
    /\ Jump(t, IF table[l.cur] # <<>> THEN "mulTable" ELSE "mulLoop")

(* mutant: the point that was read first is multiplied.                    *)
PreMulStale(t) ==
    /\ pc[t] = "preMul"
    /\ Local(t, "mul", NewFrame(loc[t].cur, 2, "mulChoose", "return"))

(* mutant: the coordinates of self are read for those of other.            *)
MulAddReadOtherSelf(t) ==
    LET l == loc[t]  r == req[t]
        v1 == l.snap2.v
        v2 == coords[r.obj].v IN
    /\ pc[t] = "maReadOther"
    /\ IF Plus(v1, v2) = 0 THEN Jump(t, "maMulSelf")
       ELSE Local(t, "return",
                  [l EXCEPT !.out = Plus(Times(r.k, v1), Times(r.k2, v2))])

----------------------------------------------------------------------------
(* Calls and returns.                                                      *)

Begin(t, r, label, ret) ==
    /\ pc[t] = "idle"
    /\ r.kind \in Kinds
    /\ req' = [req EXCEPT ![t] = r]
    /\ loc' = [loc EXCEPT ![t] = NewFrame(r.obj, r.k, ret, "return")]
    /\ res' = [res EXCEPT ![t] = Nothing]
    /\ Goto(t, label)
    /\ UNCHANGED heap

End(t, answer) ==
    /\ res' = [res EXCEPT ![t] = answer]
    /\ req' = [req EXCEPT ![t] = NoCall]
    /\ loc' = [loc EXCEPT ![t] = IdleFrame]
    /\ Goto(t, "idle")
    /\ UNCHANGED heap

(* point * k                                                               *)
CallMul(t) == \E o \in live, k \in Scalars :
    Begin(t, CallOf("mul", o, k, o, 0), "mul", "mulChoose")

(* generator.mul_add(u1, self.point, u2), as Public_key.verifies calls it: *)
(* the point of the key is read when the argument is evaluated.            *)
CallMulAdd(t) == \E k, k2 \in Scalars :
    Begin(t, CallOf("mul_add", G, k, key, k2), "maTest", "maOther")

CallToAffine(t) == \E o \in live :
    Begin(t, CallOf("to_affine", o, 0, o, 0), "affZ", "affRead")

(* x() and then y(), as the encoders and Public_key.__init__ do.           *)
CallXY(t) == \E o \in live :
    Begin(t, CallOf("xy", o, 0, o, 0), "getX", "return")

CallEq(t) == \E o, o2 \in live :
    Begin(t, CallOf("eq", o, 0, o2, 0), "eqSelf", "return")

(* Bound: objects are allocated while Objects has room for all who do.     *)
Room == Cardinality({t \in Threads : req[t].kind \in Allocators})
          < Cardinality(Objects \ live)

CallPrecompute(t) == Room /\ \E kind \in {"precompute", "precompute_lazy"} :
    Begin(t, CallOf(kind, key, 0, key, 0), "preKey", "preStore")

CallPickle(t) == Room /\ \E o \in live :
    Begin(t, CallOf("pickle", o, 0, o, 0), "copy", "return")

(* precompute() itself returns None.                                       *)
Return(t) ==
    /\ pc[t] = "return"
    /\ End(t, IF req[t].kind \in {"precompute", "precompute_lazy"}
              THEN Done ELSE loc[t].out)

(* KeyboardInterrupt, raised between any two steps of a call.              *)
Interrupt(t) ==
    /\ "interrupt" \in Kinds
    /\ pc[t] # "idle"
    /\ End(t, Interrupted)

----------------------------------------------------------------------------
(* scale()                                                                 *)

ScaleRead(t) ==
    LET l == loc[t]  c == coords[l.cur] IN
    /\ pc[t] = "scRead"
    /\ IF c.scaled THEN Jump(t, l.ret)
       ELSE Local(t, "scStore", [l EXCEPT !.snap = c])

ScaleStore(t) ==
    /\ pc[t] = "scStore"
    /\ coords' = [coords EXCEPT ![loc[t].cur] =
                    [v |-> loc[t].snap.v, scaled |-> TRUE]]
    /\ Goto(t, loc[t].ret)
    /\ loc' = [loc EXCEPT ![t].snap = NoCoords]
    /\ UNCHANGED <<live, table, gen, order, key, req, res>>

(* _maybe_precompute(): the test, `assert order', the read of the          *)
(* coordinates, one entry of the local list after the other, and the       *)
(* assignment that publishes it.                                           *)

MaybePrecompute(t) ==
    LET l == loc[t] IN
    /\ pc[t] = "mpTest"
    /\ Jump(t, IF ~ gen[l.cur] \/ table[l.cur] # <<>> THEN l.ret ELSE "mpRead")

AssertOrder(t) ==
    /\ pc[t] = "mpRead"
    /\ order[loc[t].cur] = 0
    /\ End(t, Failed)

PrecomputeRead(t) ==
    LET l == loc[t] IN
    /\ pc[t] = "mpRead"
    /\ order[l.cur] # 0
    /\ Local(t, "mpBuild", [l EXCEPT !.list = <<coords[l.cur].v>>])

PrecomputeDouble(t) ==
    LET l == loc[t] IN
    /\ pc[t] = "mpBuild"
    /\ Len(l.list) < TableLen
    /\ Local(t, "mpBuild",
             [l EXCEPT !.list = Append(@, Dbl(l.list[Len(l.list)]))])

PrecomputeStore(t) ==
    LET l == loc[t] IN
    /\ pc[t] = "mpBuild"
    /\ Len(l.list) >= TableLen
    /\ table' = [table EXCEPT ![l.cur] = l.list]
    /\ Goto(t, l.ret)
    /\ loc' = [loc EXCEPT ![t] = [l EXCEPT !.list = <<>>]]
    /\ UNCHANGED <<live, coords, gen, order, key, req, res>>

----------------------------------------------------------------------------
(* __mul__: `if self.__order', the multiplier is reduced.                  *)

MulEnter(t) ==
    LET l == loc[t]
        n == order[l.cur] IN
    /\ pc[t] = "mul"
    /\ CASE l.k = 0 -> Local(t, l.mret, [l EXCEPT !.out = 0])
         [] l.k = 1 -> Local(t, l.mret, [l EXCEPT !.out = coords[l.cur].v])
         [] OTHER   -> Local(t, "mpTest",
                            [l EXCEPT !.k = IF n = 0 THEN @ ELSE @ % (2 * n),
                                      !.ret = "mulChoose"])

MulChoose(t) ==
    LET l == loc[t] IN
    /\ pc[t] = "mulChoose"
    /\ IF table[l.cur] # <<>> THEN Jump(t, "mulTable")
       ELSE Local(t, "scRead", [l EXCEPT !.ret = "mulLoop"])

(* _mul_precompute(): the table is looked up once, its entries are used    *)
(* one after the other, and what is then left of the multiplier is dropped.*)
MulTable(t) ==
    LET l == loc[t] IN
    /\ pc[t] = "mulTable"
    /\ Local(t, "mulRound", [l EXCEPT !.list = table[l.cur], !.out = 0])

MulRound(t) ==
    LET l == loc[t] IN
    /\ pc[t] = "mulRound"
    /\ l.list # <<>>
    /\ LET a == TableRound(l.k, l.out, Head(l.list)) IN
       Local(t, "mulRound", [l EXCEPT !.k = a.k, !.out = a.out, !.list = Tail(@)])

MulTableEnd(t) ==
    /\ pc[t] = "mulRound"
    /\ loc[t].list = <<>>
    /\ Jump(t, loc[t].mret)

(* `X2, Y2, _ = self.__coords' after scale(): Z is not looked at.          *)
MulLoop(t) ==
    LET l == loc[t] IN
    /\ pc[t] = "mulLoop"
    /\ Local(t, l.mret, [l EXCEPT !.out = Times(l.k, AsAffine(coords[l.cur]))])

----------------------------------------------------------------------------
(* to_affine(), x() and y(), __eq__, __getstate__                          *)

(* No object here is at infinity, so the test of z is passed.              *)
ToAffine(t) == pc[t] = "affZ" /\ Jump(t, "scRead")

ToAffineRead(t) ==
    LET l == loc[t] IN
    /\ pc[t] = "affRead"
    /\ Local(t, "return", [l EXCEPT !.out = AsAffine(coords[l.cur])])

GetX(t) ==
    LET l == loc[t] IN
    /\ pc[t] = "getX"
    /\ Local(t, "getY", [l EXCEPT !.snap = coords[l.cur]])

(* Coordinates of two different points make no point.                      *)
GetY(t) ==
    LET l == loc[t]  v == coords[l.cur].v IN
    /\ pc[t] = "getY"
    /\ Local(t, l.ret, [l EXCEPT !.out = IF l.snap.v = v THEN v ELSE Garbage])

EqSelf(t) ==
    LET l == loc[t] IN
    /\ pc[t] = "eqSelf"
    /\ Local(t, "eqOther", [l EXCEPT !.snap = coords[l.cur]])

EqOther(t) ==
    LET l == loc[t] IN
    /\ pc[t] = "eqOther"
    /\ Local(t, "return",
             [l EXCEPT !.out = IF l.snap.v = coords[req[t].other].v
                               THEN 1 ELSE 0])

(* A new object, of a set that bounds how many there are.                  *)
Allocate(o, c, g, n, tbl) ==
    /\ o \notin live
    /\ live' = live \cup {o}
    /\ coords' = [coords EXCEPT ![o] = c]
    /\ gen' = [gen EXCEPT ![o] = g]
    /\ order' = [order EXCEPT ![o] = n]
    /\ table' = [table EXCEPT ![o] = tbl]

(* __dict__.copy(): the attributes are taken one after the other, in       *)
(* either order, and __setstate__ puts them in a new object.               *)
CopyCoords(t) ==
    LET l == loc[t] IN
    /\ pc[t] \in {"copy", "copyCoords"}
    /\ Local(t, IF pc[t] = "copy" THEN "copyTable" ELSE "copyMake",
             [l EXCEPT !.snap = coords[l.cur]])

CopyTable(t) ==
    LET l == loc[t] IN
    /\ pc[t] \in {"copy", "copyTable"}
    /\ Local(t, IF pc[t] = "copy" THEN "copyCoords" ELSE "copyMake",
             [l EXCEPT !.list = table[l.cur]])

CopyMake(t) ==
    LET l == loc[t] IN
    /\ pc[t] = "copyMake"
    /\ \E o \in Objects : Allocate(o, l.snap, gen[l.cur], order[l.cur], l.list)
    /\ loc' = [loc EXCEPT ![t] = [l EXCEPT !.out = l.snap.v, !.list = <<>>]]
    /\ Goto(t, "return")
    /\ UNCHANGED <<key, req, res>>

----------------------------------------------------------------------------
(* VerifyingKey.precompute(lazy)                                           *)

PreKey(t) == pc[t] = "preKey" /\ Local(t, "getX", [loc[t] EXCEPT !.cur = key])

(* from_affine(point, True) has read x and y, and takes over the order of  *)
(* the point, or that it has none; the new object replaces the point of    *)
(* the key.                                                                *)
PreStore(t) ==
    LET l == loc[t] IN
    /\ pc[t] = "preStore"
    /\ \E o \in Objects :
         /\ Allocate(o, [v |-> l.out, scaled |-> TRUE], TRUE, order[l.cur], <<>>)
         /\ key' = o
    /\ Goto(t, IF req[t].kind = "precompute_lazy" THEN "return" ELSE "preMul")
    /\ UNCHANGED <<req, loc, res>>

(* `self.pubkey.point * 2' reads the point of the key again.               *)
PreMul(t) ==
    /\ pc[t] = "preMul"
    /\ Local(t, "mul", NewFrame(key, 2, "mulChoose", "return"))

----------------------------------------------------------------------------
(* mul_add()                                                               *)

MulAddEnter(t) ==
    LET l == loc[t]  r == req[t] IN
    /\ pc[t] = "maTest"
    /\ CASE r.k2 = 0 -> Jump(t, "mul")
         [] r.k2 # 0 /\ r.k = 0 ->
              Local(t, "mul", [l EXCEPT !.cur = r.other, !.k = r.k2])
         [] OTHER -> Jump(t, "mpTest")

MulAddOther(t) ==
    /\ pc[t] = "maOther"
    /\ Local(t, "mpTest",
             [loc[t] EXCEPT !.cur = req[t].other, !.ret = "maBothSelf"])

(* Without both tables the points are scaled, self first; the multipliers  *)
(* are then reduced by the order, which Times does too.                    *)
ScaleSelf(t) ==
    Local(t, "scRead", [loc[t] EXCEPT !.cur = req[t].obj, !.ret = "maReadSelf"])

MulAddBothSelf(t) ==
    /\ pc[t] = "maBothSelf"
    /\ IF table[req[t].obj] # <<>> THEN Jump(t, "maBothOther") ELSE ScaleSelf(t)

MulAddBothOther(t) ==
    /\ pc[t] = "maBothOther"
    /\ IF table[req[t].other] # <<>> THEN Jump(t, "maMulSelf") ELSE ScaleSelf(t)

MulAddReadSelf(t) ==
    LET l == loc[t]  r == req[t] IN
    /\ pc[t] = "maReadSelf"
    /\ Local(t, "scRead", [l EXCEPT !.snap2 = coords[r.obj],
                                    !.cur = r.other, !.ret = "maReadOther"])

(* The loop uses Z1 and Z2.  It is not entered when the points are each    *)
(* other's negatives: their sum is then one of its operands.               *)
MulAddReadOther(t) ==
    LET l == loc[t]  r == req[t]
        v1 == l.snap2.v
        v2 == coords[r.other].v IN
    /\ pc[t] = "maReadOther"
    /\ IF Plus(v1, v2) = 0 THEN Jump(t, "maMulSelf")
       ELSE Local(t, "return",
                  [l EXCEPT !.out = Plus(Times(r.k, v1), Times(r.k2, v2))])

MulAddMulSelf(t) ==
    /\ pc[t] = "maMulSelf"
    /\ Local(t, "mul", [loc[t] EXCEPT !.cur = req[t].obj, !.k = req[t].k,
                                      !.mret = "maMulOther"])

MulAddMulOther(t) ==
    LET l == loc[t] IN
    /\ pc[t] = "maMulOther"
    /\ Local(t, "mul", [l EXCEPT !.cur = req[t].other, !.k = req[t].k2,
                                 !.mret = "maSum", !.acc = l.out])

MulAddSum(t) ==
    LET l == loc[t] IN
    /\ pc[t] = "maSum"
    /\ Local(t, "return", [l EXCEPT !.out = Plus(l.acc, l.out)])

----------------------------------------------------------------------------
Calls(t) ==
    \/ CallMul(t) \/ CallMulAdd(t) \/ CallToAffine(t) \/ CallXY(t)
    \/ CallEq(t) \/ CallPrecompute(t) \/ CallPickle(t)

Step(t) ==
    \/ Return(t)
    \/ ScaleRead(t) \/ ScaleStore(t)
    \/ MaybePrecompute(t) \/ AssertOrder(t) \/ PrecomputeRead(t)
    \/ PrecomputeDouble(t) \/ PrecomputeStore(t)
    \/ MulEnter(t) \/ MulChoose(t) \/ MulTable(t) \/ MulRound(t)
    \/ MulTableEnd(t) \/ MulLoop(t)
    \/ ToAffine(t) \/ ToAffineRead(t) \/ GetX(t) \/ GetY(t)
    \/ EqSelf(t) \/ EqOther(t)
    \/ CopyCoords(t) \/ CopyTable(t) \/ CopyMake(t)
    \/ PreKey(t) \/ PreStore(t) \/ PreMul(t)
    \/ MulAddEnter(t) \/ MulAddOther(t)
    \/ MulAddBothSelf(t) \/ MulAddBothOther(t)
    \/ MulAddReadSelf(t) \/ MulAddReadOther(t)
    \/ MulAddMulSelf(t) \/ MulAddMulOther(t) \/ MulAddSum(t)

Next == \E t \in Threads : Calls(t) \/ Step(t) \/ Interrupt(t)

(* The interpreter lets a thread that can run go on; nobody has to call.   *)
Spec == Init /\ [][Next]_vars /\ \A t \in Threads : WF_vars(Step(t))

----------------------------------------------------------------------------
(* Properties.                                                             *)

Results == Value \cup {Garbage}

Frames == [cur : Objects, k : Nat, ret : Labels, mret : Labels,
           snap : Coords, snap2 : Coords, list : Seq(Value),
           acc : Results, out : Results]

(* Every variable has its type.                                            *)
TypeOK ==
    /\ live \subseteq Objects
    /\ coords \in [Objects -> Coords]
    /\ table \in [Objects -> Seq(Value)]
    /\ gen \in [Objects -> BOOLEAN]
    /\ order \in [Objects -> {0, Order}]
    /\ {G, Q, key} \subseteq live
    /\ pc \in [Threads -> Labels]
    /\ req \in [Threads -> Requests]
    /\ loc \in [Threads -> Frames]
    /\ res \in [Threads -> Results \cup {Nothing, Interrupted, Done, Failed}]

(* A table other threads can see is complete and is that of its point:     *)
(* "depend on atomicity of the last assignment to switch from empty        *)
(* self.__precompute to filled one" (_maybe_precompute), with interrupted  *)
(* threads, and in the objects that pickling or precompute() made.         *)
TablesComplete ==
    \A o \in live : table[o] # <<>> => IsTable(table[o], coords[o].v)

(* Where the code goes on from scale() as if Z were 1 (to_affine asserts   *)
(* it, __mul__ drops Z unread), it is, although the coordinates are read   *)
(* again after scale() has returned and other threads ran in between.      *)
ScaledWhereAssumed ==
    \A t \in Threads : pc[t] \in {"affRead", "mulLoop"} => coords[loc[t].cur].scaled

(* No multiplication by a generator takes the double-and-add path: once    *)
(* _maybe_precompute() has returned, the second look at __precompute finds *)
(* the table, whoever filled it.                                           *)
GeneratorIsFast ==
    \A t \in Threads : pc[t] = "mulLoop" => ~ gen[loc[t].cur]

(* What a thread computes is what its call asks for, whichever             *)
(* representations, tables and objects it met on the way.                  *)
AnswersCorrect ==
    \A t \in Threads :
       pc[t] = "return" /\ req[t].kind \notin {"precompute", "precompute_lazy"}
          => loc[t].out = Answer(req[t], [o \in Objects |-> coords[o].v])

(* An object keeps its value, stays scaled once it is, and keeps the table *)
(* that was published: "they will set __coords to the same value"          *)
(* (scale), "it won't lead to inconsistent __precompute".                  *)
Idempotent ==
    \A o \in live :
       /\ coords'[o].v = coords[o].v
       /\ coords[o].scaled => coords'[o].scaled
       /\ table[o] # <<>> => table'[o] = table[o]
WritesAreIdempotent == [][Idempotent]_vars

(* When all calls of precompute() have ended, the point the key is left    *)
(* with has its table, "to preserve the behaviour" of computing it now,    *)
(* however the calls overlapped, if the key was computed.  A key that was  *)
(* loaded never gets a table: its point has no order, and the assertion of *)
(* _maybe_precompute() fails.  (Lazy or interrupted calls leave no table.) *)
Quiet == \A t \in Threads : pc[t] = "idle"
PrecomputedWhenQuiet ==
    Quiet => key = Q \/ (table[key] # <<>> <=> order[key] # 0)

(* The points implement the promise of immutable values, and every call    *)
(* ends.                                                                   *)
Abs == INSTANCE ImmutablePoint WITH
         val  <- [o \in Objects |-> IF o \in live THEN coords[o].v ELSE Nothing],
         call <- req,
         ans  <- res
RefinesImmutable == Abs!ASpec
=============================================================================
