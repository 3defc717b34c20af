------------------------- MODULE SharedPointProofs -------------------------
(***************************************************************************)
(* Theorems about SharedPoint for any number of threads and objects, any   *)
(* odd order and any interleaving.                                         *)
(***************************************************************************)
EXTENDS SharedPoint, ProofBasics

(* The first entries of a table for v.                                     *)
TableSoFar(tbl, v) ==
    /\ tbl \in Seq(Value)
    /\ Len(tbl) \in 1 .. TableLen
    /\ tbl[1] = v
    /\ \A i \in 1 .. Len(tbl) - 1 : tbl[i + 1] = Dbl(tbl[i])

(* What holds of a thread at label p with the frame l and the call r: the  *)
(* strengthening that makes the invariants inductive.                      *)
FrameOK(p, l, r) ==
    /\ p # "idle" => {l.cur, r.obj, r.other} \subseteq live
    /\ l.mret \in {"return", "maMulOther", "maSum"}
    /\ p \in {"mpTest", "mpRead", "mpBuild"} =>
          l.ret \in {"mulChoose", "maOther", "maBothSelf"}
    /\ p = "maTest" => l.ret = "maOther" /\ l.cur = r.obj
    /\ p \in {"mpRead", "mpBuild"} => gen[l.cur]
    /\ p = "mpBuild" => TableSoFar(l.list, coords[l.cur].v) /\ order[l.cur] # 0
    /\ p = "mulChoose" => ~ gen[l.cur] \/ table[l.cur] # <<>>
    /\ p = "mulTable" => table[l.cur] # <<>>
    /\ p \in {"scRead", "scStore"} =>
          /\ l.ret \in {"mulLoop", "affRead", "maReadSelf", "maReadOther"}
          /\ l.ret = "mulLoop" => ~ gen[l.cur]
    /\ p = "scStore" => l.snap.v = coords[l.cur].v
    /\ p = "affZ" => l.ret = "affRead"
    /\ p \in {"affRead", "mulLoop"} => coords[l.cur].scaled
    /\ p = "mulLoop" => ~ gen[l.cur]
    /\ p \in {"getX", "getY"} => l.ret \in {"return", "preStore"}
    /\ p = "getY" => l.snap.v = coords[l.cur].v
    /\ p = "preKey" => l.ret = "preStore"
    /\ p = "preStore" => l.out = coords[l.cur].v
    /\ p \in {"copyTable", "copyMake"} => l.snap.v = coords[l.cur].v
    /\ p \in {"copyCoords", "copyMake"} =>
          (l.list # <<>> => IsTable(l.list, coords[l.cur].v) /\ order[l.cur] # 0)

(* Only a point that knows its order has a table.                          *)
TablesOrdered == \A o \in live : table[o] # <<>> => order[o] # 0

IInv ==
    /\ TypeOK
    /\ TablesComplete
    /\ TablesOrdered
    /\ \A t \in Threads : FrameOK(pc[t], loc[t], req[t])

----------------------------------------------------------------------------
(* The arithmetic of values stays among the values.                        *)

LEMMA ModInValue == ASSUME NEW a \in Nat PROVE a % Order \in Value
  BY OrderAssumption DEF Value

LEMMA DblType == ASSUME NEW v \in Value PROVE Dbl(v) \in Value
  <1>1. 2 * v \in Nat
    BY OrderAssumption DEF Value
  <1> QED BY <1>1, ModInValue DEF Dbl

LEMMA TimesType ==
  ASSUME NEW k \in Nat, NEW v \in Results PROVE Times(k, v) \in Results
  <1>1. CASE v = Garbage
    BY <1>1 DEF Times, Results
  <1>2. CASE v # Garbage
    <2>1. v \in Nat
      BY OrderAssumption DEF Results, Value, Garbage
    <2>2. k * v \in Nat
      BY <2>1
    <2> QED BY <1>2, <2>2, ModInValue DEF Times, Results
  <1> QED BY <1>1, <1>2

LEMMA PlusType ==
  ASSUME NEW v \in Results, NEW w \in Results PROVE Plus(v, w) \in Results
  <1>1. CASE Garbage \in {v, w}
    BY <1>1 DEF Plus, Results
  <1>2. CASE Garbage \notin {v, w}
    <2>1. v + w \in Nat
      BY OrderAssumption DEF Results, Value, Garbage
    <2> QED BY <1>2, <2>1, ModInValue DEF Plus, Results
  <1> QED BY <1>1, <1>2

LEMMA TableRoundType ==
  ASSUME NEW k \in Nat, NEW out \in Results, NEW e \in Value
  PROVE  /\ TableRound(k, out, e).k \in Nat
         /\ TableRound(k, out, e).out \in Results
  <1>1. e \in Results /\ Order - e \in Results
    BY OrderAssumption DEF Results, Value, Garbage
  <1>2. Plus(out, e) \in Results /\ Plus(out, Order - e) \in Results
    BY <1>1, PlusType
  <1>3. CASE k % 2 = 0
    BY <1>3 DEF TableRound
  <1>4. CASE k % 2 # 0 /\ k % 4 >= 2
    BY <1>2, <1>4 DEF TableRound
  <1>5. CASE k % 2 # 0 /\ ~ (k % 4 >= 2)
    BY <1>2, <1>5 DEF TableRound
  <1> QED BY <1>3, <1>4, <1>5

----------------------------------------------------------------------------
(* A step that leaves the heap alone and takes its thread to a good frame. *)

LEMMA ThreadStep ==
  ASSUME IInv, NEW t \in Threads,
         NEW label \in Labels, NEW f \in Frames, NEW r \in Requests,
         pc' = [pc EXCEPT ![t] = label],
         loc' = [loc EXCEPT ![t] = f],
         req' = [req EXCEPT ![t] = r],
         res' \in [Threads -> Results \cup {Nothing, Interrupted, Done, Failed}],
         UNCHANGED heap,
         FrameOK(label, f, r)
  PROVE  IInv'
  <1>1. TypeOK'
    BY DEF IInv, TypeOK, heap
  <1>2. TablesComplete' /\ TablesOrdered'
    BY DEF IInv, TablesComplete, TablesOrdered, heap
  <1>3. ASSUME NEW u \in Threads PROVE FrameOK(pc[u], loc[u], req[u])'
    <2>1. CASE u = t
      <3>1. pc'[u] = label /\ loc'[u] = f /\ req'[u] = r
        BY <2>1 DEF IInv, TypeOK
      <3> QED BY <3>1 DEF FrameOK, heap
    <2>2. CASE u # t
      <3>1. pc'[u] = pc[u] /\ loc'[u] = loc[u] /\ req'[u] = req[u]
        BY <2>2 DEF IInv, TypeOK
      <3>2. FrameOK(pc[u], loc[u], req[u])
        BY DEF IInv
      <3> QED BY <3>1, <3>2 DEF FrameOK, heap
    <2> QED BY <2>1, <2>2
  <1> QED BY <1>1, <1>2, <1>3 DEF IInv

LEMMA LocalStep ==
  ASSUME IInv, NEW t \in Threads, NEW label \in Labels, NEW f \in Frames,
         Local(t, label, f), FrameOK(label, f, req[t])
  PROVE  IInv'
  <1>1. req[t] \in Requests /\ req' = [req EXCEPT ![t] = req[t]]
    BY DEF IInv, TypeOK, Local
  <1>2. /\ pc' = [pc EXCEPT ![t] = label]
        /\ loc' = [loc EXCEPT ![t] = f]
        /\ res' \in [Threads -> Results \cup {Nothing, Interrupted, Done, Failed}]
        /\ UNCHANGED heap
    BY DEF IInv, TypeOK, Local, Goto
  <1> QED BY <1>1, <1>2, ThreadStep

(* A step that writes the heap in a way the frames of others cannot see:   *)
(* values and flags stay, scaled stays scaled, a table stays a table.      *)
HeapGrows ==
    /\ live \subseteq live'
    /\ \A o \in live :
          /\ coords'[o].v = coords[o].v
          /\ coords[o].scaled => coords'[o].scaled
          /\ gen'[o] = gen[o]
          /\ order'[o] = order[o]
          /\ table[o] # <<>> => table'[o] # <<>>

LEMMA HeapStep ==
  ASSUME IInv, HeapGrows, TypeOK', TablesComplete', TablesOrdered', NEW t \in Threads,
         \A u \in Threads \ {t} :
            pc'[u] = pc[u] /\ loc'[u] = loc[u] /\ req'[u] = req[u],
         FrameOK(pc[t], loc[t], req[t])'
  PROVE  IInv'
  <1>1. ASSUME NEW u \in Threads \ {t}
        PROVE  FrameOK(pc[u], loc[u], req[u])'
    <2>1. FrameOK(pc[u], loc[u], req[u])
      BY DEF IInv
    <2>2. CASE pc[u] = "idle"
      BY <2>1, <2>2 DEF FrameOK
    <2>3. CASE pc[u] # "idle"
      <3>1. loc[u].cur \in live
        BY <2>1, <2>3 DEF FrameOK
      <3> QED BY <2>1, <2>3, <3>1 DEF FrameOK, HeapGrows
    <2> QED BY <2>2, <2>3
  <1> QED BY <1>1 DEF IInv

----------------------------------------------------------------------------
(* The facts every step starts from.                                       *)

LEMMA ThreadFacts ==
  ASSUME IInv, NEW t \in Threads
  PROVE  /\ loc[t] \in Frames /\ req[t] \in Requests /\ pc[t] \in Labels
         /\ FrameOK(pc[t], loc[t], req[t])
         /\ key \in live /\ live \subseteq Objects
         /\ \A o \in live : /\ coords[o] \in Coords
                            /\ table[o] \in Seq(Value)
                            /\ gen[o] \in BOOLEAN
                            /\ order[o] \in {0, Order}
                            /\ table[o] # <<>> => /\ IsTable(table[o], coords[o].v)
                                                  /\ order[o] # 0
  BY DEF IInv, TypeOK, TablesComplete, TablesOrdered

LEMMA BlankTypes == NoCoords \in Coords /\ <<>> \in Seq(Value)
  <1>1. NoCoords \in Coords
    BY OrderAssumption DEF NoCoords, Coords
  <1>2. <<>> \in Seq(Value)
    OBVIOUS
  <1> QED BY <1>1, <1>2

LEMMA NewFrameType ==
  ASSUME NEW o \in Objects, NEW k \in Nat, NEW ret \in Labels, NEW mret \in Labels
  PROVE  NewFrame(o, k, ret, mret) \in Frames
  <1>1. 0 \in Results
    BY OrderAssumption DEF Results, Value
  <1> QED BY <1>1, BlankTypes DEF NewFrame, Frames

(* Calls: the new frame is the first of its kind.                          *)
LEMMA BeginStep ==
  ASSUME IInv, NEW t \in Threads, NEW r \in Requests,
         r.obj \in live, r.other \in live,
         NEW label \in Labels, NEW ret \in Labels,
         Begin(t, r, label, ret),
         FrameOK(label, NewFrame(r.obj, r.k, ret, "return"), r)
  PROVE  IInv'
  <1> DEFINE f == NewFrame(r.obj, r.k, ret, "return")
  <1>1. f \in Frames
    <2>1. r.obj \in Objects /\ r.k \in Nat
      <3>1. r.obj \in Objects /\ r.k \in Multipliers
        BY DEF Requests
      <3>2. Multipliers \subseteq Nat
        BY ScalarsAssumption DEF Multipliers
      <3> QED BY <3>1, <3>2
    <2>2. "return" \in Labels
      BY DEF Labels
    <2> QED BY <2>1, <2>2, NewFrameType
  <1>2. /\ pc' = [pc EXCEPT ![t] = label]
        /\ loc' = [loc EXCEPT ![t] = f]
        /\ req' = [req EXCEPT ![t] = r]
        /\ UNCHANGED heap
    BY DEF Begin, Goto
  <1>3. res' \in [Threads -> Results \cup {Nothing, Interrupted, Done, Failed}]
    BY DEF Begin, IInv, TypeOK
  <1> HIDE DEF f
  <1>4. FrameOK(label, f, r)
    BY DEF f
  <1> QED BY <1>1, <1>2, <1>3, <1>4, ThreadStep

LEMMA CallsStep == ASSUME IInv, NEW t \in Threads, Calls(t) PROVE IInv'
  <1>1. {G, key} \subseteq live /\ live \subseteq Objects
    BY DEF IInv, TypeOK
  <1>2. \A kind \in CallKinds, o, o2 \in live, k, k2 \in Multipliers :
          LET r == CallOf(kind, o, k, o2, k2) IN
          r \in Requests /\ r.obj = o /\ r.other = o2 /\ r.k = k
    BY <1>1 DEF CallOf, Requests
  <1>3. Scalars \subseteq Multipliers /\ 0 \in Multipliers
    BY DEF Multipliers
  <1> DEFINE Mine == {"mul", "mul_add", "to_affine", "xy", "eq", "precompute",
                      "precompute_lazy", "pickle"}
  <1>k. Mine \subseteq CallKinds
    BY DEF CallKinds, Allocators
  <1>4. CASE CallMul(t)
    <2>1. PICK o \in live, k \in Scalars :
            Begin(t, CallOf("mul", o, k, o, 0), "mul", "mulChoose")
      BY <1>4 DEF CallMul
    <2> DEFINE r == CallOf("mul", o, k, o, 0)
    <2>2. r \in Requests /\ r.obj = o /\ r.other = o /\ r.k = k
      BY <1>2, <1>3, <1>k
    <2>3. FrameOK("mul", NewFrame(o, k, "mulChoose", "return"), r)
      BY <2>2 DEF FrameOK, NewFrame
    <2> QED BY <2>1, <2>2, <2>3, BeginStep DEF Labels
  <1>5. CASE CallMulAdd(t)
    <2>1. PICK k, k2 \in Scalars :
            Begin(t, CallOf("mul_add", G, k, key, k2), "maTest", "maOther")
      BY <1>5 DEF CallMulAdd
    <2> DEFINE r == CallOf("mul_add", G, k, key, k2)
    <2>2. r \in Requests /\ r.obj = G /\ r.other = key /\ r.k = k
      BY <1>1, <1>2, <1>3, <1>k
    <2>3. FrameOK("maTest", NewFrame(G, k, "maOther", "return"), r)
      BY <1>1, <2>2 DEF FrameOK, NewFrame
    <2> QED BY <1>1, <2>1, <2>2, <2>3, BeginStep DEF Labels
  <1>6. CASE CallToAffine(t)
    <2>1. PICK o \in live :
            Begin(t, CallOf("to_affine", o, 0, o, 0), "affZ", "affRead")
      BY <1>6 DEF CallToAffine
    <2> DEFINE r == CallOf("to_affine", o, 0, o, 0)
    <2>2. r \in Requests /\ r.obj = o /\ r.other = o /\ r.k = 0
      BY <1>2, <1>3, <1>k
    <2>3. FrameOK("affZ", NewFrame(o, 0, "affRead", "return"), r)
      BY <2>2 DEF FrameOK, NewFrame
    <2> QED BY <2>1, <2>2, <2>3, BeginStep DEF Labels
  <1>7. CASE CallXY(t)
    <2>1. PICK o \in live : Begin(t, CallOf("xy", o, 0, o, 0), "getX", "return")
      BY <1>7 DEF CallXY
    <2> DEFINE r == CallOf("xy", o, 0, o, 0)
    <2>2. r \in Requests /\ r.obj = o /\ r.other = o /\ r.k = 0
      BY <1>2, <1>3, <1>k
    <2>3. FrameOK("getX", NewFrame(o, 0, "return", "return"), r)
      BY <2>2 DEF FrameOK, NewFrame
    <2> QED BY <2>1, <2>2, <2>3, BeginStep DEF Labels
  <1>8. CASE CallEq(t)
    <2>1. PICK o, o2 \in live :
            Begin(t, CallOf("eq", o, 0, o2, 0), "eqSelf", "return")
      BY <1>8 DEF CallEq
    <2> DEFINE r == CallOf("eq", o, 0, o2, 0)
    <2>2. r \in Requests /\ r.obj = o /\ r.other = o2 /\ r.k = 0
      BY <1>2, <1>3, <1>k
    <2>3. FrameOK("eqSelf", NewFrame(o, 0, "return", "return"), r)
      BY <2>2 DEF FrameOK, NewFrame
    <2> QED BY <2>1, <2>2, <2>3, BeginStep DEF Labels
  <1>9. CASE CallPrecompute(t)
    <2>1. PICK kind \in {"precompute", "precompute_lazy"} :
            Begin(t, CallOf(kind, key, 0, key, 0), "preKey", "preStore")
      BY <1>9 DEF CallPrecompute
    <2> DEFINE r == CallOf(kind, key, 0, key, 0)
    <2>2. r \in Requests /\ r.obj = key /\ r.other = key /\ r.k = 0
      BY <1>1, <1>2, <1>3, <1>k
    <2>3. FrameOK("preKey", NewFrame(key, 0, "preStore", "return"), r)
      BY <1>1, <2>2 DEF FrameOK, NewFrame
    <2> QED BY <1>1, <2>1, <2>2, <2>3, BeginStep DEF Labels
  <1>10. CASE CallPickle(t)
    <2>1. PICK o \in live :
            Begin(t, CallOf("pickle", o, 0, o, 0), "copy", "return")
      BY <1>10 DEF CallPickle
    <2> DEFINE r == CallOf("pickle", o, 0, o, 0)
    <2>2. r \in Requests /\ r.obj = o /\ r.other = o /\ r.k = 0
      BY <1>2, <1>3, <1>k
    <2>3. FrameOK("copy", NewFrame(o, 0, "return", "return"), r)
      BY <2>2 DEF FrameOK, NewFrame
    <2> QED BY <2>1, <2>2, <2>3, BeginStep DEF Labels
  <1> QED
    BY <1>4, <1>5, <1>6, <1>7, <1>8, <1>9, <1>10 DEF Calls

----------------------------------------------------------------------------
(* The steps that only read the heap, one method after the other.          *)

LEMMA ScaleReadStep ==
  ASSUME IInv, NEW t \in Threads, ScaleRead(t) PROVE IInv'
  <1> DEFINE l == loc[t]
  <1>1. /\ l \in Frames /\ req[t] \in Requests
        /\ FrameOK(pc[t], l, req[t])
        /\ live \subseteq Objects
        /\ \A o \in live : /\ coords[o] \in Coords
                           /\ table[o] \in Seq(Value)
                           /\ table[o] # <<>> => IsTable(table[o], coords[o].v)
    BY ThreadFacts
  <1> DEFINE c == coords[l.cur]
  <1>2. pc[t] = "scRead" /\ l.cur \in live
    BY <1>1 DEF ScaleRead, FrameOK
  <1>3. CASE c.scaled
    <2>1. Local(t, l.ret, l)
      BY <1>2, <1>3 DEF ScaleRead, Jump
    <2>2. FrameOK(l.ret, l, req[t])
      BY <1>1, <1>2, <1>3 DEF FrameOK
    <2>3. l.ret \in Labels
      BY <1>1 DEF Frames
    <2> QED BY <1>1, <2>1, <2>2, <2>3, LocalStep
  <1>4. CASE ~ c.scaled
    <2> DEFINE f == [l EXCEPT !.snap = c]
    <2>1. Local(t, "scStore", f)
      BY <1>2, <1>4 DEF ScaleRead
    <2>2. FrameOK("scStore", f, req[t])
      BY <1>1, <1>2 DEF FrameOK, Frames
    <2>3. f \in Frames
      BY <1>1, <1>2 DEF Frames
    <2> QED BY <2>1, <2>2, <2>3, LocalStep DEF Labels
  <1> QED BY <1>3, <1>4

LEMMA MaybePrecomputeStep ==
  ASSUME IInv, NEW t \in Threads, MaybePrecompute(t) PROVE IInv'
  <1> DEFINE l == loc[t]
  <1>1. /\ l \in Frames /\ req[t] \in Requests
        /\ FrameOK(pc[t], l, req[t])
        /\ live \subseteq Objects
        /\ \A o \in live : /\ coords[o] \in Coords
                           /\ table[o] \in Seq(Value)
                           /\ table[o] # <<>> => IsTable(table[o], coords[o].v)
    BY ThreadFacts
  <1>2. pc[t] = "mpTest" /\ l.cur \in live
    BY <1>1 DEF MaybePrecompute, FrameOK
  <1>3. CASE ~ gen[l.cur] \/ table[l.cur] # <<>>
    <2>1. Local(t, l.ret, l)
      BY <1>2, <1>3 DEF MaybePrecompute, Jump
    <2>2. FrameOK(l.ret, l, req[t])
      BY <1>1, <1>2, <1>3 DEF FrameOK
    <2>3. l.ret \in Labels
      BY <1>1 DEF Frames
    <2> QED BY <1>1, <2>1, <2>2, <2>3, LocalStep
  <1>4. CASE ~ (~ gen[l.cur] \/ table[l.cur] # <<>>)
    <2>1. Local(t, "mpRead", l)
      BY <1>2, <1>4 DEF MaybePrecompute, Jump
    <2>2. FrameOK("mpRead", l, req[t])
      BY <1>1, <1>2, <1>4 DEF FrameOK
    <2> QED BY <1>1, <2>1, <2>2, LocalStep DEF Labels
  <1> QED BY <1>3, <1>4

LEMMA PrecomputeReadStep ==
  ASSUME IInv, NEW t \in Threads, PrecomputeRead(t) PROVE IInv'
  <1> DEFINE l == loc[t]
  <1>1. /\ l \in Frames /\ req[t] \in Requests
        /\ FrameOK(pc[t], l, req[t])
        /\ live \subseteq Objects
        /\ \A o \in live : /\ coords[o] \in Coords
                           /\ table[o] \in Seq(Value)
                           /\ table[o] # <<>> => IsTable(table[o], coords[o].v)
    BY ThreadFacts
  <1>2. pc[t] = "mpRead" /\ l.cur \in live /\ order[l.cur] # 0
    BY <1>1 DEF PrecomputeRead, FrameOK
  <1> DEFINE v == coords[l.cur].v
             f == [l EXCEPT !.list = <<v>>]
  <1>3. v \in Value
    BY <1>1, <1>2, OrderAssumption DEF Coords, Value
  <1>4. <<v>> \in Seq(Value) /\ TableSoFar(<<v>>, v)
    BY <1>3, TableLenAssumption DEF TableSoFar
  <1>5. f \in Frames /\ f.list = <<v>> /\ f.cur = l.cur
    BY <1>1, <1>4 DEF Frames
  <1>6. FrameOK("mpBuild", f, req[t])
    BY <1>1, <1>2, <1>4, <1>5 DEF FrameOK, Frames
  <1>7. Local(t, "mpBuild", f)
    BY DEF PrecomputeRead
  <1> QED BY <1>5, <1>6, <1>7, LocalStep DEF Labels

LEMMA PrecomputeDoubleStep ==
  ASSUME IInv, NEW t \in Threads, PrecomputeDouble(t) PROVE IInv'
  <1> DEFINE l == loc[t]
  <1>1. /\ l \in Frames /\ req[t] \in Requests
        /\ FrameOK(pc[t], l, req[t])
        /\ live \subseteq Objects
        /\ \A o \in live : /\ coords[o] \in Coords
                           /\ table[o] \in Seq(Value)
                           /\ table[o] # <<>> => IsTable(table[o], coords[o].v)
    BY ThreadFacts
  <1>2. pc[t] = "mpBuild" /\ l.cur \in live /\ Len(l.list) < TableLen
    BY <1>1 DEF PrecomputeDouble, FrameOK
  <1> DEFINE v == coords[l.cur].v
             new == Append(l.list, Dbl(l.list[Len(l.list)]))
             f == [l EXCEPT !.list = new]
  <1>3. TableSoFar(l.list, v)
    BY <1>1, <1>2 DEF FrameOK
  <1>4. Dbl(l.list[Len(l.list)]) \in Value
    BY <1>3, DblType DEF TableSoFar
  <1>5. TableSoFar(new, v)
    <2> DEFINE list == l.list
               e == Dbl(list[Len(list)])
    <2>1. e = Dbl(list[Len(list)])
      OBVIOUS
    <2>2. e \in Value /\ TableSoFar(list, v) /\ Len(list) < TableLen
      BY <1>2, <1>3, <1>4
    <2> HIDE DEF list, e, v
    <2>3. /\ list \in Seq(Value) /\ list[1] = v
          /\ \A i \in 1 .. Len(list) - 1 : list[i + 1] = Dbl(list[i])
      BY <2>2 DEF TableSoFar
    <2>4. Len(list) \in 1 .. TableLen - 1
      BY <2>2, TableLenAssumption DEF TableSoFar
    <2>5. /\ list \in Seq(Value) /\ Len(list) \in 1 .. TableLen - 1 /\ e \in Value
          /\ list[1] = v /\ \A i \in 1 .. Len(list) - 1 : list[i + 1] = Dbl(list[i])
      BY <2>2, <2>3, <2>4
    <2>6. /\ Append(list, e) \in Seq(Value)
          /\ Len(Append(list, e)) = Len(list) + 1
          /\ Append(list, e)[Len(list) + 1] = e
          /\ \A i \in 1 .. Len(list) : Append(list, e)[i] = list[i]
      BY <2>5
    <2>7. TableSoFar(Append(list, e), v)
      BY <2>5, <2>1, <2>6, TableLenAssumption DEF TableSoFar
    <2> QED BY <2>7 DEF list, e
  <1>6. f \in Frames /\ f.list = new /\ f.cur = l.cur
    BY <1>1, <1>5 DEF Frames, TableSoFar
  <1>7. FrameOK("mpBuild", f, req[t])
    BY <1>1, <1>2, <1>5, <1>6 DEF FrameOK, Frames
  <1>8. Local(t, "mpBuild", f)
    BY DEF PrecomputeDouble
  <1> QED BY <1>6, <1>7, <1>8, LocalStep DEF Labels

LEMMA MulEnterStep ==
  ASSUME IInv, NEW t \in Threads, MulEnter(t) PROVE IInv'
  <1> DEFINE l == loc[t]
  <1>1. /\ l \in Frames /\ req[t] \in Requests
        /\ FrameOK(pc[t], l, req[t])
        /\ live \subseteq Objects
        /\ \A o \in live : /\ coords[o] \in Coords
                           /\ table[o] \in Seq(Value)
                           /\ table[o] # <<>> => IsTable(table[o], coords[o].v)
    BY ThreadFacts
  <1>2. pc[t] = "mul" /\ l.cur \in live /\ l.mret \in Labels /\ l.k \in Nat
    BY <1>1 DEF MulEnter, FrameOK, Frames
  <1>3. CASE l.k = 0
    <2> DEFINE f == [l EXCEPT !.out = 0]
    <2>1. Local(t, l.mret, f)
      BY <1>3 DEF MulEnter
    <2>2. f \in Frames
      BY <1>1, OrderAssumption DEF Frames, Results, Value
    <2>3. FrameOK(l.mret, f, req[t])
      BY <1>1, <1>2 DEF FrameOK, Frames
    <2> QED BY <1>2, <2>1, <2>2, <2>3, LocalStep
  <1>4. CASE l.k = 1
    <2> DEFINE f == [l EXCEPT !.out = coords[l.cur].v]
    <2>1. Local(t, l.mret, f)
      BY <1>4 DEF MulEnter
    <2>2. coords[l.cur].v \in Results
      BY <1>1, <1>2, OrderAssumption DEF Coords, Results, Value
    <2>3. f \in Frames
      BY <1>1, <2>2 DEF Frames
    <2>4. FrameOK(l.mret, f, req[t])
      BY <1>1, <1>2 DEF FrameOK, Frames
    <2> QED BY <1>2, <2>1, <2>3, <2>4, LocalStep
  <1>5. CASE l.k # 0 /\ l.k # 1
    <2> DEFINE n == order[l.cur]
               k == IF n = 0 THEN l.k ELSE l.k % (2 * n)
               f == [l EXCEPT !.k = k, !.ret = "mulChoose"]
    <2>1. Local(t, "mpTest", f)
      BY <1>5 DEF MulEnter
    <2>2. k \in Nat
      <3>1. n \in {0, Order}
        BY <1>2, ThreadFacts
      <3> QED BY <1>2, <3>1, OrderAssumption
    <2> HIDE DEF k
    <2>3. f \in Frames
      BY <1>1, <2>2 DEF Frames, Labels
    <2>4. FrameOK("mpTest", f, req[t])
      BY <1>1, <1>2 DEF FrameOK, Frames
    <2> QED BY <2>1, <2>3, <2>4, LocalStep DEF Labels
  <1> QED BY <1>3, <1>4, <1>5

LEMMA MulChooseStep ==
  ASSUME IInv, NEW t \in Threads, MulChoose(t) PROVE IInv'
  <1> DEFINE l == loc[t]
  <1>1. /\ l \in Frames /\ req[t] \in Requests
        /\ FrameOK(pc[t], l, req[t])
        /\ live \subseteq Objects
        /\ \A o \in live : /\ coords[o] \in Coords
                           /\ table[o] \in Seq(Value)
                           /\ table[o] # <<>> => IsTable(table[o], coords[o].v)
    BY ThreadFacts
  <1>2. pc[t] = "mulChoose" /\ l.cur \in live
    BY <1>1 DEF MulChoose, FrameOK
  <1>3. CASE table[l.cur] # <<>>
    <2>1. Local(t, "mulTable", l)
      BY <1>3 DEF MulChoose, Jump
    <2>2. FrameOK("mulTable", l, req[t])
      BY <1>1, <1>2, <1>3 DEF FrameOK
    <2> QED BY <1>1, <2>1, <2>2, LocalStep DEF Labels
  <1>4. CASE table[l.cur] = <<>>
    <2> DEFINE f == [l EXCEPT !.ret = "mulLoop"]
    <2>1. Local(t, "scRead", f)
      BY <1>4 DEF MulChoose
    <2>2. f \in Frames
      BY <1>1 DEF Frames, Labels
    <2>3. FrameOK("scRead", f, req[t])
      BY <1>1, <1>2, <1>4 DEF FrameOK, Frames
    <2> QED BY <2>1, <2>2, <2>3, LocalStep DEF Labels
  <1> QED BY <1>3, <1>4

LEMMA MulTableStep ==
  ASSUME IInv, NEW t \in Threads, MulTable(t) \/ MulRound(t) \/ MulTableEnd(t) PROVE IInv'
  <1> DEFINE l == loc[t]
  <1>1. /\ l \in Frames /\ req[t] \in Requests
        /\ FrameOK(pc[t], l, req[t])
        /\ live \subseteq Objects
        /\ \A o \in live : /\ coords[o] \in Coords
                           /\ table[o] \in Seq(Value)
                           /\ table[o] # <<>> => IsTable(table[o], coords[o].v)
    BY ThreadFacts
  <1>2. CASE MulTable(t)
    <2> DEFINE f == [l EXCEPT !.list = table[l.cur], !.out = 0]
    <2>1. pc[t] = "mulTable" /\ l.cur \in live /\ Local(t, "mulRound", f)
      BY <1>1, <1>2 DEF MulTable, FrameOK
    <2>2. 0 \in Results
      BY OrderAssumption DEF Results, Value
    <2>3. f \in Frames
      BY <1>1, <2>1, <2>2 DEF Frames
    <2>4. FrameOK("mulRound", f, req[t])
      BY <1>1, <2>1 DEF FrameOK, Frames
    <2> QED BY <2>1, <2>3, <2>4, LocalStep DEF Labels
  <1>3. CASE MulRound(t)
    <2> DEFINE a == TableRound(l.k, l.out, Head(l.list))
               f == [l EXCEPT !.k = a.k, !.out = a.out, !.list = Tail(@)]
    <2>1. pc[t] = "mulRound" /\ l.list # <<>> /\ Local(t, "mulRound", f)
      BY <1>3 DEF MulRound
    <2>2. l.list \in Seq(Value) /\ l.k \in Nat /\ l.out \in Results
      BY <1>1 DEF Frames
    <2>3. Head(l.list) \in Value /\ Tail(l.list) \in Seq(Value)
      BY <2>1, <2>2
    <2>4. a.k \in Nat /\ a.out \in Results
      BY <2>2, <2>3, TableRoundType
    <2>5. f \in Frames
      BY <1>1, <2>3, <2>4 DEF Frames
    <2>6. FrameOK("mulRound", f, req[t])
      BY <1>1, <2>1 DEF FrameOK, Frames
    <2> QED BY <2>1, <2>5, <2>6, LocalStep DEF Labels
  <1>4. CASE MulTableEnd(t)
    <2>1. pc[t] = "mulRound" /\ Local(t, l.mret, l)
      BY <1>4 DEF MulTableEnd, Jump
    <2>2. FrameOK(l.mret, l, req[t]) /\ l.mret \in Labels
      BY <1>1, <2>1 DEF FrameOK, Frames
    <2> QED BY <1>1, <2>1, <2>2, LocalStep
  <1> QED BY <1>2, <1>3, <1>4

LEMMA MulLoopStep ==
  ASSUME IInv, NEW t \in Threads, MulLoop(t) PROVE IInv'
  <1> DEFINE l == loc[t]
  <1>1. /\ l \in Frames /\ req[t] \in Requests
        /\ FrameOK(pc[t], l, req[t])
        /\ live \subseteq Objects
        /\ \A o \in live : /\ coords[o] \in Coords
                           /\ table[o] \in Seq(Value)
                           /\ table[o] # <<>> => IsTable(table[o], coords[o].v)
    BY ThreadFacts
  <1> DEFINE f == [l EXCEPT !.out = Times(l.k, AsAffine(coords[l.cur]))]
  <1>2. pc[t] = "mulLoop" /\ l.cur \in live /\ Local(t, l.mret, f)
    BY <1>1 DEF MulLoop, FrameOK
  <1>3. AsAffine(coords[l.cur]) \in Results /\ l.k \in Nat
    BY <1>1, <1>2, OrderAssumption DEF AsAffine, Coords, Results, Value, Frames
  <1>4. f \in Frames
    BY <1>1, <1>3, TimesType DEF Frames
  <1>5. FrameOK(l.mret, f, req[t]) /\ l.mret \in Labels
    BY <1>1, <1>2 DEF FrameOK, Frames
  <1> QED BY <1>2, <1>4, <1>5, LocalStep

LEMMA AffineStep ==
  ASSUME IInv, NEW t \in Threads, ToAffine(t) \/ ToAffineRead(t) PROVE IInv'
  <1> DEFINE l == loc[t]
             r == req[t]
  <1>1. /\ l \in Frames /\ r \in Requests
        /\ FrameOK(pc[t], l, r)
        /\ key \in live /\ live \subseteq Objects
        /\ \A o \in live : /\ coords[o] \in Coords
                           /\ table[o] \in Seq(Value)
                           /\ table[o] # <<>> => IsTable(table[o], coords[o].v)
    BY ThreadFacts
  <1>2. CASE ToAffine(t)
    <2>1. pc[t] = "affZ" /\ Local(t, "scRead", l)
      BY <1>2 DEF ToAffine, Jump
    <2>2. FrameOK("scRead", l, r)
      BY <1>1, <2>1 DEF FrameOK
    <2> QED BY <1>1, <2>1, <2>2, LocalStep DEF Labels
  <1>3. CASE ToAffineRead(t)
    <2> DEFINE f == [l EXCEPT !.out = AsAffine(coords[l.cur])]
    <2>1. pc[t] = "affRead" /\ l.cur \in live /\ Local(t, "return", f)
      BY <1>1, <1>3 DEF ToAffineRead, FrameOK
    <2>2. AsAffine(coords[l.cur]) \in Results
      BY <1>1, <2>1, OrderAssumption DEF AsAffine, Coords, Results, Value
    <2>3. f \in Frames
      BY <1>1, <2>2 DEF Frames
    <2>4. FrameOK("return", f, r)
      BY <1>1, <2>1 DEF FrameOK, Frames
    <2> QED BY <2>1, <2>3, <2>4, LocalStep DEF Labels
  <1> QED BY <1>2, <1>3

LEMMA CoordinatesStep ==
  ASSUME IInv, NEW t \in Threads, GetX(t) \/ GetY(t) PROVE IInv'
  <1> DEFINE l == loc[t]
             r == req[t]
  <1>1. /\ l \in Frames /\ r \in Requests
        /\ FrameOK(pc[t], l, r)
        /\ key \in live /\ live \subseteq Objects
        /\ \A o \in live : /\ coords[o] \in Coords
                           /\ table[o] \in Seq(Value)
                           /\ table[o] # <<>> => IsTable(table[o], coords[o].v)
    BY ThreadFacts
  <1>2. CASE GetX(t)
    <2> DEFINE f == [l EXCEPT !.snap = coords[l.cur]]
    <2>1. pc[t] = "getX" /\ Local(t, "getY", f)
      BY <1>2 DEF GetX
    <2>2. {l.cur, r.obj, r.other} \subseteq live
      BY <1>1, <2>1 DEF FrameOK
    <2>3. f \in Frames
      BY <1>1, <2>2 DEF Frames
    <2>4. FrameOK("getY", f, r)
      BY <1>1, <2>1, <2>2 DEF FrameOK, Frames
    <2> QED BY <2>1, <2>3, <2>4, LocalStep DEF Labels
  <1>3. CASE GetY(t)
    <2> DEFINE v == coords[l.cur].v
               f == [l EXCEPT !.out = IF l.snap.v = v THEN v ELSE Garbage]
    <2>1. pc[t] = "getY" /\ l.cur \in live /\ Local(t, l.ret, f)
      BY <1>1, <1>3 DEF GetY, FrameOK
    <2>2. l.snap.v = v /\ v \in Results
      BY <1>1, <2>1, OrderAssumption DEF FrameOK, Coords, Results, Value
    <2>3. f \in Frames /\ f.out = v
      BY <1>1, <2>2 DEF Frames
    <2>4. FrameOK(l.ret, f, r) /\ l.ret \in Labels
      BY <1>1, <2>1, <2>3 DEF FrameOK, Frames
    <2> QED BY <2>1, <2>3, <2>4, LocalStep
  <1> QED BY <1>2, <1>3

LEMMA EqStep ==
  ASSUME IInv, NEW t \in Threads, EqSelf(t) \/ EqOther(t) PROVE IInv'
  <1> DEFINE l == loc[t]
             r == req[t]
  <1>1. /\ l \in Frames /\ r \in Requests
        /\ FrameOK(pc[t], l, r)
        /\ key \in live /\ live \subseteq Objects
        /\ \A o \in live : /\ coords[o] \in Coords
                           /\ table[o] \in Seq(Value)
                           /\ table[o] # <<>> => IsTable(table[o], coords[o].v)
    BY ThreadFacts
  <1>2. CASE EqSelf(t)
    <2> DEFINE f == [l EXCEPT !.snap = coords[l.cur]]
    <2>1. pc[t] = "eqSelf" /\ Local(t, "eqOther", f)
      BY <1>2 DEF EqSelf
    <2>2. {l.cur, r.obj, r.other} \subseteq live
      BY <1>1, <2>1 DEF FrameOK
    <2>3. f \in Frames
      BY <1>1, <2>2 DEF Frames
    <2>4. FrameOK("eqOther", f, r)
      BY <1>1, <2>1, <2>2 DEF FrameOK, Frames
    <2> QED BY <2>1, <2>3, <2>4, LocalStep DEF Labels
  <1>3. CASE EqOther(t)
    <2> DEFINE b == IF l.snap.v = coords[r.other].v THEN 1 ELSE 0
               f == [l EXCEPT !.out = b]
    <2>1. pc[t] = "eqOther" /\ Local(t, "return", f)
      BY <1>3 DEF EqOther
    <2>2. b \in Results
      BY OrderAssumption DEF Results, Value
    <2> HIDE DEF b
    <2>3. f \in Frames
      BY <1>1, <2>2 DEF Frames
    <2>4. FrameOK("return", f, r)
      BY <1>1, <2>1 DEF FrameOK, Frames
    <2> QED BY <2>1, <2>3, <2>4, LocalStep DEF Labels
  <1> QED BY <1>2, <1>3

LEMMA CopyStep ==
  ASSUME IInv, NEW t \in Threads, CopyCoords(t) \/ CopyTable(t) PROVE IInv'
  <1> DEFINE l == loc[t]
             r == req[t]
  <1>1. /\ l \in Frames /\ r \in Requests
        /\ FrameOK(pc[t], l, r)
        /\ key \in live /\ live \subseteq Objects
        /\ \A o \in live : /\ coords[o] \in Coords
                           /\ table[o] \in Seq(Value)
                           /\ table[o] # <<>> => /\ IsTable(table[o], coords[o].v)
                                                 /\ order[o] # 0
    BY ThreadFacts
  <1>2. CASE CopyCoords(t)
    <2> DEFINE next == IF pc[t] = "copy" THEN "copyTable" ELSE "copyMake"
               f == [l EXCEPT !.snap = coords[l.cur]]
    <2>1. /\ pc[t] \in {"copy", "copyCoords"}
          /\ l.cur \in live /\ Local(t, next, f)
      BY <1>1, <1>2 DEF CopyCoords, FrameOK
    <2>2. f \in Frames
      BY <1>1, <2>1 DEF Frames
    <2>3. FrameOK(next, f, r)
      BY <1>1, <2>1 DEF FrameOK, Frames
    <2>4. next \in Labels
      BY DEF Labels
    <2> QED BY <2>1, <2>2, <2>3, <2>4, LocalStep
  <1>3. CASE CopyTable(t)
    <2> DEFINE next == IF pc[t] = "copy" THEN "copyCoords" ELSE "copyMake"
               f == [l EXCEPT !.list = table[l.cur]]
    <2>1. /\ pc[t] \in {"copy", "copyTable"}
          /\ l.cur \in live /\ Local(t, next, f)
      BY <1>1, <1>3 DEF CopyTable, FrameOK
    <2>2. f \in Frames
      BY <1>1, <2>1 DEF Frames
    <2>3. FrameOK(next, f, r)
      BY <1>1, <2>1 DEF FrameOK, Frames
    <2>4. next \in Labels
      BY DEF Labels
    <2> QED BY <2>1, <2>2, <2>3, <2>4, LocalStep
  <1> QED BY <1>2, <1>3

LEMMA KeyStep ==
  ASSUME IInv, NEW t \in Threads, PreKey(t) \/ PreMul(t) PROVE IInv'
  <1> DEFINE l == loc[t]
             r == req[t]
  <1>1. /\ l \in Frames /\ r \in Requests
        /\ FrameOK(pc[t], l, r)
        /\ key \in live /\ live \subseteq Objects
        /\ \A o \in live : /\ coords[o] \in Coords
                           /\ table[o] \in Seq(Value)
                           /\ table[o] # <<>> => IsTable(table[o], coords[o].v)
    BY ThreadFacts
  <1>2. CASE PreKey(t)
    <2> DEFINE f == [l EXCEPT !.cur = key]
    <2>1. pc[t] = "preKey" /\ Local(t, "getX", f)
      BY <1>2 DEF PreKey
    <2>2. {l.cur, r.obj, r.other} \subseteq live
      BY <1>1, <2>1 DEF FrameOK
    <2>3. f \in Frames
      BY <1>1, <2>2 DEF Frames
    <2>4. FrameOK("getX", f, r)
      BY <1>1, <2>1, <2>2 DEF FrameOK, Frames
    <2> QED BY <2>1, <2>3, <2>4, LocalStep DEF Labels
  <1>3. CASE PreMul(t)
    <2> DEFINE f == NewFrame(key, 2, "mulChoose", "return")
    <2>1. pc[t] = "preMul" /\ Local(t, "mul", f)
      BY <1>3 DEF PreMul
    <2>2. {l.cur, r.obj, r.other} \subseteq live
      BY <1>1, <2>1 DEF FrameOK
    <2>3. f \in Frames
      BY <1>1, NewFrameType DEF Labels
    <2>4. FrameOK("mul", f, r)
      BY <1>1, <2>2 DEF FrameOK, NewFrame
    <2> QED BY <2>1, <2>3, <2>4, LocalStep DEF Labels
  <1> QED BY <1>2, <1>3

LEMMA MultiplierType == ASSUME NEW r \in Requests PROVE r.k \in Nat /\ r.k2 \in Nat
  <1>1. r.k \in Multipliers /\ r.k2 \in Multipliers
    BY DEF Requests
  <1>2. Multipliers \subseteq Nat
    BY ScalarsAssumption DEF Multipliers
  <1> QED BY <1>1, <1>2

LEMMA MulAddEnterStep ==
  ASSUME IInv, NEW t \in Threads, MulAddEnter(t) PROVE IInv'
  <1> DEFINE l == loc[t]
             r == req[t]
  <1>1. /\ l \in Frames /\ r \in Requests
        /\ FrameOK(pc[t], l, r)
        /\ key \in live /\ live \subseteq Objects
        /\ \A o \in live : /\ coords[o] \in Coords
                           /\ table[o] \in Seq(Value)
                           /\ table[o] # <<>> => IsTable(table[o], coords[o].v)
    BY ThreadFacts
  <1>2. CASE MulAddEnter(t) /\ r.k2 = 0
    <2>1. pc[t] = "maTest" /\ Local(t, "mul", l)
      BY <1>2 DEF MulAddEnter, Jump
    <2>2. FrameOK("mul", l, r)
      BY <1>1, <2>1 DEF FrameOK
    <2> QED BY <1>1, <2>1, <2>2, LocalStep DEF Labels
  <1>3. CASE MulAddEnter(t) /\ r.k2 # 0 /\ r.k = 0
    <2> DEFINE f == [l EXCEPT !.cur = r.other, !.k = r.k2]
    <2>1. pc[t] = "maTest" /\ Local(t, "mul", f)
      BY <1>3 DEF MulAddEnter
    <2>2. {l.cur, r.obj, r.other} \subseteq live
      BY <1>1, <2>1 DEF FrameOK
    <2>3. f \in Frames
      BY <1>1, <2>2, MultiplierType DEF Frames, Labels
    <2>4. FrameOK("mul", f, r)
      BY <1>1, <2>1, <2>2 DEF FrameOK, Frames
    <2> QED BY <2>1, <2>3, <2>4, LocalStep DEF Labels
  <1>4. CASE MulAddEnter(t) /\ r.k2 # 0 /\ r.k # 0
    <2>1. pc[t] = "maTest" /\ Local(t, "mpTest", l)
      BY <1>4 DEF MulAddEnter, Jump
    <2>2. FrameOK("mpTest", l, r)
      BY <1>1, <2>1 DEF FrameOK
    <2> QED BY <1>1, <2>1, <2>2, LocalStep DEF Labels
  <1> QED BY <1>2, <1>3, <1>4

LEMMA MulAddBothStep ==
  ASSUME IInv, NEW t \in Threads, MulAddOther(t) \/ MulAddBothSelf(t) \/ MulAddBothOther(t) PROVE IInv'
  <1> DEFINE l == loc[t]
             r == req[t]
  <1>1. /\ l \in Frames /\ r \in Requests
        /\ FrameOK(pc[t], l, r)
        /\ key \in live /\ live \subseteq Objects
        /\ \A o \in live : /\ coords[o] \in Coords
                           /\ table[o] \in Seq(Value)
                           /\ table[o] # <<>> => IsTable(table[o], coords[o].v)
    BY ThreadFacts
  <1>2. CASE MulAddOther(t)
    <2> DEFINE f == [l EXCEPT !.cur = r.other, !.ret = "maBothSelf"]
    <2>1. pc[t] = "maOther" /\ Local(t, "mpTest", f)
      BY <1>2 DEF MulAddOther
    <2>2. {l.cur, r.obj, r.other} \subseteq live
      BY <1>1, <2>1 DEF FrameOK
    <2>3. f \in Frames
      BY <1>1, <2>2 DEF Frames, Labels
    <2>4. FrameOK("mpTest", f, r)
      BY <1>1, <2>1, <2>2 DEF FrameOK, Frames
    <2> QED BY <2>1, <2>3, <2>4, LocalStep DEF Labels
  <1>3. CASE MulAddBothSelf(t) /\ table[r.obj] # <<>>
    <2>1. pc[t] = "maBothSelf" /\ Local(t, "maBothOther", l)
      BY <1>3 DEF MulAddBothSelf, Jump
    <2>2. FrameOK("maBothOther", l, r)
      BY <1>1, <2>1 DEF FrameOK
    <2> QED BY <1>1, <2>1, <2>2, LocalStep DEF Labels
  <1>4. CASE MulAddBothSelf(t) /\ table[r.obj] = <<>>
    <2> DEFINE f == [l EXCEPT !.cur = r.obj, !.ret = "maReadSelf"]
    <2>1. pc[t] = "maBothSelf" /\ Local(t, "scRead", f)
      BY <1>4 DEF MulAddBothSelf, ScaleSelf
    <2>2. {l.cur, r.obj, r.other} \subseteq live
      BY <1>1, <2>1 DEF FrameOK
    <2>3. f \in Frames
      BY <1>1, <2>2 DEF Frames, Labels
    <2>4. FrameOK("scRead", f, r)
      BY <1>1, <2>1, <2>2 DEF FrameOK, Frames
    <2> QED BY <2>1, <2>3, <2>4, LocalStep DEF Labels
  <1>5. CASE MulAddBothOther(t) /\ table[r.other] # <<>>
    <2>1. pc[t] = "maBothOther" /\ Local(t, "maMulSelf", l)
      BY <1>5 DEF MulAddBothOther, Jump
    <2>2. FrameOK("maMulSelf", l, r)
      BY <1>1, <2>1 DEF FrameOK
    <2> QED BY <1>1, <2>1, <2>2, LocalStep DEF Labels
  <1>6. CASE MulAddBothOther(t) /\ table[r.other] = <<>>
    <2> DEFINE f == [l EXCEPT !.cur = r.obj, !.ret = "maReadSelf"]
    <2>1. pc[t] = "maBothOther" /\ Local(t, "scRead", f)
      BY <1>6 DEF MulAddBothOther, ScaleSelf
    <2>2. {l.cur, r.obj, r.other} \subseteq live
      BY <1>1, <2>1 DEF FrameOK
    <2>3. f \in Frames
      BY <1>1, <2>2 DEF Frames, Labels
    <2>4. FrameOK("scRead", f, r)
      BY <1>1, <2>1, <2>2 DEF FrameOK, Frames
    <2> QED BY <2>1, <2>3, <2>4, LocalStep DEF Labels
  <1> QED BY <1>2, <1>3, <1>4, <1>5, <1>6

LEMMA MulAddReadStep ==
  ASSUME IInv, NEW t \in Threads, MulAddReadSelf(t) \/ MulAddReadOther(t) PROVE IInv'
  <1> DEFINE l == loc[t]
             r == req[t]
  <1>1. /\ l \in Frames /\ r \in Requests
        /\ FrameOK(pc[t], l, r)
        /\ key \in live /\ live \subseteq Objects
        /\ \A o \in live : /\ coords[o] \in Coords
                           /\ table[o] \in Seq(Value)
                           /\ table[o] # <<>> => IsTable(table[o], coords[o].v)
    BY ThreadFacts
  <1>2. CASE MulAddReadSelf(t)
    <2> DEFINE f == [l EXCEPT !.snap2 = coords[r.obj],
                           !.cur = r.other, !.ret = "maReadOther"]
    <2>1. pc[t] = "maReadSelf" /\ Local(t, "scRead", f)
      BY <1>2 DEF MulAddReadSelf
    <2>2. {l.cur, r.obj, r.other} \subseteq live
      BY <1>1, <2>1 DEF FrameOK
    <2>3. f \in Frames
      BY <1>1, <2>2 DEF Frames, Labels
    <2>4. FrameOK("scRead", f, r)
      BY <1>1, <2>1, <2>2 DEF FrameOK, Frames
    <2> QED BY <2>1, <2>3, <2>4, LocalStep DEF Labels
  <1> DEFINE v1 == l.snap2.v
             v2 == coords[r.other].v
             sum == Plus(Times(r.k, v1), Times(r.k2, v2))
  <1>3. CASE MulAddReadOther(t) /\ Plus(v1, v2) = 0
    <2>1. pc[t] = "maReadOther" /\ Local(t, "maMulSelf", l)
      BY <1>3 DEF MulAddReadOther, Jump
    <2>2. FrameOK("maMulSelf", l, r)
      BY <1>1, <2>1 DEF FrameOK
    <2> QED BY <1>1, <2>1, <2>2, LocalStep DEF Labels
  <1>4. CASE MulAddReadOther(t) /\ Plus(v1, v2) # 0
    <2> DEFINE f == [l EXCEPT !.out = sum]
    <2>1. pc[t] = "maReadOther" /\ Local(t, "return", f)
      BY <1>4 DEF MulAddReadOther
    <2>2. {l.cur, r.obj, r.other} \subseteq live
      BY <1>1, <2>1 DEF FrameOK
    <2>a. v1 \in Results /\ v2 \in Results
      BY <1>1, <2>2, OrderAssumption DEF Frames, Coords, Results, Value
    <2>b. sum \in Results
      <3>1. r.k \in Nat /\ r.k2 \in Nat
        BY <1>1, MultiplierType
      <3>2. Times(r.k, v1) \in Results /\ Times(r.k2, v2) \in Results
        BY <2>a, <3>1, TimesType
      <3> QED BY <3>2, PlusType
    <2>3. f \in Frames
      BY <1>1, <2>2, <2>b DEF Frames, Labels
    <2>4. FrameOK("return", f, r)
      BY <1>1, <2>1, <2>2 DEF FrameOK, Frames
    <2> QED BY <2>1, <2>3, <2>4, LocalStep DEF Labels
  <1> QED BY <1>2, <1>3, <1>4

LEMMA MulAddSumStep ==
  ASSUME IInv, NEW t \in Threads, MulAddMulSelf(t) \/ MulAddMulOther(t) \/ MulAddSum(t) PROVE IInv'
  <1> DEFINE l == loc[t]
             r == req[t]
  <1>1. /\ l \in Frames /\ r \in Requests
        /\ FrameOK(pc[t], l, r)
        /\ key \in live /\ live \subseteq Objects
        /\ \A o \in live : /\ coords[o] \in Coords
                           /\ table[o] \in Seq(Value)
                           /\ table[o] # <<>> => IsTable(table[o], coords[o].v)
    BY ThreadFacts
  <1>2. CASE MulAddMulSelf(t)
    <2> DEFINE f == [l EXCEPT !.cur = r.obj, !.k = r.k,
                           !.mret = "maMulOther"]
    <2>1. pc[t] = "maMulSelf" /\ Local(t, "mul", f)
      BY <1>2 DEF MulAddMulSelf
    <2>2. {l.cur, r.obj, r.other} \subseteq live
      BY <1>1, <2>1 DEF FrameOK
    <2>3. f \in Frames
      BY <1>1, <2>2, MultiplierType DEF Frames, Labels
    <2>4. FrameOK("mul", f, r)
      BY <1>1, <2>1, <2>2 DEF FrameOK, Frames
    <2> QED BY <2>1, <2>3, <2>4, LocalStep DEF Labels
  <1>3. CASE MulAddMulOther(t)
    <2> DEFINE f == [l EXCEPT !.cur = r.other, !.k = r.k2,
                           !.mret = "maSum", !.acc = l.out]
    <2>1. pc[t] = "maMulOther" /\ Local(t, "mul", f)
      BY <1>3 DEF MulAddMulOther
    <2>2. {l.cur, r.obj, r.other} \subseteq live
      BY <1>1, <2>1 DEF FrameOK
    <2>3. f \in Frames
      BY <1>1, <2>2, MultiplierType DEF Frames, Labels
    <2>4. FrameOK("mul", f, r)
      BY <1>1, <2>1, <2>2 DEF FrameOK, Frames
    <2> QED BY <2>1, <2>3, <2>4, LocalStep DEF Labels
  <1>4. CASE MulAddSum(t)
    <2> DEFINE f == [l EXCEPT !.out = Plus(l.acc, l.out)]
    <2>1. pc[t] = "maSum" /\ Local(t, "return", f)
      BY <1>4 DEF MulAddSum
    <2>2. {l.cur, r.obj, r.other} \subseteq live
      BY <1>1, <2>1 DEF FrameOK
    <2>a. Plus(l.acc, l.out) \in Results
      BY <1>1, PlusType DEF Frames
    <2>3. f \in Frames
      BY <1>1, <2>2, <2>a DEF Frames, Labels
    <2>4. FrameOK("return", f, r)
      BY <1>1, <2>1, <2>2 DEF FrameOK, Frames
    <2> QED BY <2>1, <2>3, <2>4, LocalStep DEF Labels
  <1> QED BY <1>2, <1>3, <1>4

----------------------------------------------------------------------------
(* The steps that write the heap.                                          *)

LEMMA ScaleStoreStep ==
  ASSUME IInv, NEW t \in Threads, ScaleStore(t) PROVE IInv'
  <1> DEFINE l == loc[t]
             r == req[t]
  <1>1. /\ l \in Frames /\ r \in Requests
        /\ FrameOK(pc[t], l, r)
        /\ key \in live /\ live \subseteq Objects
        /\ \A o \in live : /\ coords[o] \in Coords
                           /\ table[o] \in Seq(Value)
                           /\ table[o] # <<>> => IsTable(table[o], coords[o].v)
    BY ThreadFacts
  <1> DEFINE v == l.snap.v
             f == [l EXCEPT !.snap = NoCoords]
  <1>2. /\ pc[t] = "scStore" /\ l.cur \in live
        /\ coords' = [coords EXCEPT ![l.cur] = [v |-> v, scaled |-> TRUE]]
        /\ pc' = [pc EXCEPT ![t] = l.ret] /\ loc' = [loc EXCEPT ![t] = f]
        /\ UNCHANGED <<live, table, gen, order, key, req, res>>
    BY <1>1 DEF ScaleStore, Goto, FrameOK
  <1>3. v = coords[l.cur].v /\ [v |-> v, scaled |-> TRUE] \in Coords
    BY <1>1, <1>2 DEF FrameOK, Coords
  <1>4. HeapGrows
    BY <1>1, <1>2, <1>3 DEF HeapGrows, IInv, TypeOK
  <1>5. f \in Frames /\ l.ret \in Labels
    BY <1>1, BlankTypes DEF Frames
  <1>6. TypeOK'
    BY <1>2, <1>3, <1>5 DEF IInv, TypeOK
  <1>7. TablesComplete' /\ TablesOrdered'
    BY <1>1, <1>2, <1>3, <1>4 DEF HeapGrows, IInv, TablesComplete, TablesOrdered
  <1>8. pc'[t] = l.ret /\ loc'[t] = f /\ req'[t] = r /\ coords'[l.cur].scaled
    BY <1>1, <1>2 DEF IInv, TypeOK
  <1>9. FrameOK(pc[t], loc[t], req[t])'
    BY <1>1, <1>2, <1>8 DEF FrameOK, Frames
  <1>10. \A u \in Threads \ {t} :
            pc'[u] = pc[u] /\ loc'[u] = loc[u] /\ req'[u] = req[u]
    BY <1>2 DEF IInv, TypeOK
  <1> QED BY <1>4, <1>6, <1>7, <1>9, <1>10, HeapStep

LEMMA PrecomputeStoreStep ==
  ASSUME IInv, NEW t \in Threads, PrecomputeStore(t) PROVE IInv'
  <1> DEFINE l == loc[t]
             r == req[t]
  <1>1. /\ l \in Frames /\ r \in Requests
        /\ FrameOK(pc[t], l, r)
        /\ key \in live /\ live \subseteq Objects
        /\ \A o \in live : /\ coords[o] \in Coords
                           /\ table[o] \in Seq(Value)
                           /\ table[o] # <<>> => IsTable(table[o], coords[o].v)
    BY ThreadFacts
  <1> DEFINE f == [l EXCEPT !.list = <<>>]
  <1>2. /\ pc[t] = "mpBuild" /\ l.cur \in live /\ Len(l.list) >= TableLen
        /\ table' = [table EXCEPT ![l.cur] = l.list]
        /\ pc' = [pc EXCEPT ![t] = l.ret] /\ loc' = [loc EXCEPT ![t] = f]
        /\ UNCHANGED <<live, coords, gen, order, key, req, res>>
    BY <1>1 DEF PrecomputeStore, Goto, FrameOK
  <1>3. TableSoFar(l.list, coords[l.cur].v) /\ order[l.cur] # 0
    BY <1>1, <1>2 DEF FrameOK
  <1>4. IsTable(l.list, coords[l.cur].v) /\ l.list # <<>> /\ l.list \in Seq(Value)
    BY <1>2, <1>3, TableLenAssumption DEF TableSoFar, IsTable
  <1>5. HeapGrows
    BY <1>1, <1>2, <1>4 DEF HeapGrows, IInv, TypeOK
  <1>6. f \in Frames /\ l.ret \in Labels
    BY <1>1, BlankTypes DEF Frames
  <1>7. TypeOK'
    BY <1>2, <1>4, <1>6 DEF IInv, TypeOK
  <1>8. TablesComplete' /\ TablesOrdered'
    BY <1>1, <1>2, <1>3, <1>4 DEF IInv, TypeOK, TablesComplete, TablesOrdered
  <1>9. pc'[t] = l.ret /\ loc'[t] = f /\ req'[t] = r /\ table'[l.cur] # <<>>
    BY <1>1, <1>2, <1>4 DEF IInv, TypeOK
  <1>10. FrameOK(pc[t], loc[t], req[t])'
    BY <1>1, <1>2, <1>9 DEF FrameOK, Frames
  <1>11. \A u \in Threads \ {t} :
            pc'[u] = pc[u] /\ loc'[u] = loc[u] /\ req'[u] = req[u]
    BY <1>2 DEF IInv, TypeOK
  <1> QED BY <1>5, <1>7, <1>8, <1>10, <1>11, HeapStep

LEMMA AllocateGrows ==
  ASSUME IInv, NEW o \in Objects, NEW c \in Coords, NEW g \in BOOLEAN,
         NEW n \in {0, Order},
         NEW tbl \in Seq(Value), tbl # <<>> => IsTable(tbl, c.v) /\ n # 0,
         Allocate(o, c, g, n, tbl)
  PROVE  /\ HeapGrows
         /\ TablesComplete' /\ TablesOrdered'
         /\ o \in live' /\ coords'[o] = c
         /\ live' \subseteq Objects
         /\ coords' \in [Objects -> Coords]
         /\ gen' \in [Objects -> BOOLEAN]
         /\ order' \in [Objects -> {0, Order}]
         /\ table' \in [Objects -> Seq(Value)]
  <1>1. /\ live \subseteq Objects /\ o \notin live /\ live' = live \cup {o}
        /\ coords \in [Objects -> Coords] /\ coords' = [coords EXCEPT ![o] = c]
        /\ gen \in [Objects -> BOOLEAN] /\ gen' = [gen EXCEPT ![o] = g]
        /\ order \in [Objects -> {0, Order}] /\ order' = [order EXCEPT ![o] = n]
        /\ table \in [Objects -> Seq(Value)] /\ table' = [table EXCEPT ![o] = tbl]
    BY DEF Allocate, IInv, TypeOK
  <1>2. HeapGrows
    BY <1>1 DEF HeapGrows
  <1>3. TablesComplete' /\ TablesOrdered'
    BY <1>1 DEF IInv, TablesComplete, TablesOrdered
  <1> QED BY <1>1, <1>2, <1>3

LEMMA CopyMakeStep ==
  ASSUME IInv, NEW t \in Threads, CopyMake(t) PROVE IInv'
  <1> DEFINE l == loc[t]
             r == req[t]
  <1>1. /\ l \in Frames /\ r \in Requests
        /\ FrameOK(pc[t], l, r)
        /\ key \in live /\ live \subseteq Objects
        /\ \A o \in live : /\ coords[o] \in Coords
                           /\ table[o] \in Seq(Value)
                           /\ table[o] # <<>> => IsTable(table[o], coords[o].v)
    BY ThreadFacts
  <1> DEFINE f == [l EXCEPT !.out = l.snap.v, !.list = <<>>]
  <1>2. /\ pc[t] = "copyMake" /\ l.cur \in live
        /\ pc' = [pc EXCEPT ![t] = "return"] /\ loc' = [loc EXCEPT ![t] = f]
        /\ UNCHANGED <<key, req, res>>
    BY <1>1 DEF CopyMake, Goto, FrameOK
  <1>3. PICK o \in Objects : Allocate(o, l.snap, gen[l.cur], order[l.cur], l.list)
    BY DEF CopyMake
  <1>4. /\ l.snap \in Coords /\ gen[l.cur] \in BOOLEAN /\ l.list \in Seq(Value)
        /\ order[l.cur] \in {0, Order}
    BY <1>1, <1>2 DEF Frames, IInv, TypeOK
  <1>5. l.list # <<>> => IsTable(l.list, l.snap.v) /\ order[l.cur] # 0
    BY <1>1, <1>2 DEF FrameOK
  <1>6. /\ HeapGrows /\ TablesComplete' /\ TablesOrdered' /\ live' \subseteq Objects
        /\ coords' \in [Objects -> Coords] /\ gen' \in [Objects -> BOOLEAN]
        /\ order' \in [Objects -> {0, Order}] /\ table' \in [Objects -> Seq(Value)]
    BY <1>3, <1>4, <1>5, AllocateGrows
  <1>7. l.snap.v \in Results
    BY <1>4, OrderAssumption DEF Coords, Results, Value
  <1>8. f \in Frames
    BY <1>1, <1>7, BlankTypes DEF Frames
  <1>9. TypeOK'
    BY <1>2, <1>6, <1>8 DEF IInv, TypeOK, HeapGrows, Labels
  <1>10. pc'[t] = "return" /\ loc'[t] = f /\ req'[t] = r
    BY <1>2 DEF IInv, TypeOK
  <1>11. FrameOK(pc[t], loc[t], req[t])'
    BY <1>1, <1>2, <1>6, <1>10 DEF FrameOK, Frames, HeapGrows
  <1>12. \A u \in Threads \ {t} :
            pc'[u] = pc[u] /\ loc'[u] = loc[u] /\ req'[u] = req[u]
    BY <1>2 DEF IInv, TypeOK
  <1> QED BY <1>6, <1>9, <1>11, <1>12, HeapStep

LEMMA PreStoreStep ==
  ASSUME IInv, NEW t \in Threads, PreStore(t) PROVE IInv'
  <1> DEFINE l == loc[t]
             r == req[t]
  <1>1. /\ l \in Frames /\ r \in Requests
        /\ FrameOK(pc[t], l, r)
        /\ key \in live /\ live \subseteq Objects
        /\ \A o \in live : /\ coords[o] \in Coords
                           /\ table[o] \in Seq(Value)
                           /\ table[o] # <<>> => IsTable(table[o], coords[o].v)
    BY ThreadFacts
  <1> DEFINE label == IF r.kind = "precompute_lazy" THEN "return" ELSE "preMul"
             c == [v |-> l.out, scaled |-> TRUE]
             n == order[l.cur]
  <1>2. /\ pc[t] = "preStore" /\ l.cur \in live
        /\ pc' = [pc EXCEPT ![t] = label] /\ UNCHANGED <<req, loc, res>>
    BY <1>1 DEF PreStore, Goto, FrameOK
  <1>3. PICK o \in Objects : Allocate(o, c, TRUE, n, <<>>) /\ key' = o
    BY DEF PreStore
  <1>4. c \in Coords /\ n \in {0, Order}
    BY <1>1, <1>2, ThreadFacts DEF FrameOK, Coords
  <1> HIDE DEF c, n
  <1>5. /\ HeapGrows /\ TablesComplete' /\ TablesOrdered' /\ live' \subseteq Objects
        /\ coords' \in [Objects -> Coords] /\ gen' \in [Objects -> BOOLEAN]
        /\ order' \in [Objects -> {0, Order}] /\ table' \in [Objects -> Seq(Value)]
        /\ o \in live'
    BY <1>3, <1>4, BlankTypes, AllocateGrows
  <1>6. TypeOK'
    BY <1>2, <1>3, <1>5 DEF IInv, TypeOK, HeapGrows, Labels
  <1>7. pc'[t] = label /\ loc'[t] = l /\ req'[t] = r
    BY <1>2 DEF IInv, TypeOK
  <1>8. FrameOK(pc[t], loc[t], req[t])'
    BY <1>1, <1>2, <1>5, <1>7 DEF FrameOK, Frames, HeapGrows
  <1>9. \A u \in Threads \ {t} :
            pc'[u] = pc[u] /\ loc'[u] = loc[u] /\ req'[u] = req[u]
    BY <1>2 DEF IInv, TypeOK
  <1> QED BY <1>5, <1>6, <1>8, <1>9, HeapStep

----------------------------------------------------------------------------
(* The end of a call, interrupted or not, and then every step.             *)

LEMMA EndStep ==
  ASSUME IInv, NEW t \in Threads, pc[t] # "idle",
         NEW answer \in Results \cup {Interrupted, Done, Failed}, End(t, answer)
  PROVE  IInv'
  <1>1. {G, key} \subseteq live /\ live \subseteq Objects
    BY DEF IInv, TypeOK
  <1>2. NoCall \in Requests
    BY ObjectsAssumption DEF NoCall, CallOf, Requests, Multipliers
  <1>3. IdleFrame \in Frames
    BY ObjectsAssumption, NewFrameType DEF IdleFrame, Labels
  <1>4. FrameOK("idle", IdleFrame, NoCall)
    BY DEF FrameOK, IdleFrame, NewFrame
  <1>5. /\ pc' = [pc EXCEPT ![t] = "idle"]
        /\ loc' = [loc EXCEPT ![t] = IdleFrame]
        /\ req' = [req EXCEPT ![t] = NoCall]
        /\ UNCHANGED heap
    BY DEF End, Goto
  <1>6. res' \in [Threads -> Results \cup {Nothing, Interrupted, Done, Failed}]
    BY DEF End, IInv, TypeOK
  <1> QED BY <1>2, <1>3, <1>4, <1>5, <1>6, ThreadStep DEF Labels

LEMMA ReturnStep ==
  ASSUME IInv, NEW t \in Threads, Return(t) \/ Interrupt(t) \/ AssertOrder(t)
  PROVE  IInv'
  <1>1. loc[t].out \in Results
    BY ThreadFacts DEF Frames
  <1>2. CASE Return(t)
    <2>1. PICK answer \in Results \cup {Interrupted, Done, Failed} :
            pc[t] = "return" /\ End(t, answer)
      BY <1>1, <1>2 DEF Return
    <2> QED BY <2>1, EndStep
  <1>3. CASE Interrupt(t)
    BY <1>3, EndStep DEF Interrupt
  <1>4. CASE AssertOrder(t)
    BY <1>4, EndStep DEF AssertOrder
  <1> QED BY <1>2, <1>3, <1>4

LEMMA StepStep == ASSUME IInv, NEW t \in Threads, Step(t) PROVE IInv'
  <1>1. CASE Return(t) \/ AssertOrder(t)
    BY <1>1, ReturnStep
  <1>2. CASE ScaleRead(t) \/ ScaleStore(t)
    BY <1>2, ScaleReadStep, ScaleStoreStep
  <1>3. CASE \/ MaybePrecompute(t) \/ PrecomputeRead(t)
             \/ PrecomputeDouble(t) \/ PrecomputeStore(t)
    BY <1>3, MaybePrecomputeStep, PrecomputeReadStep, PrecomputeDoubleStep,
       PrecomputeStoreStep
  <1>4. CASE \/ MulEnter(t) \/ MulChoose(t) \/ MulTable(t) \/ MulRound(t)
             \/ MulTableEnd(t) \/ MulLoop(t)
    BY <1>4, MulEnterStep, MulChooseStep, MulTableStep, MulLoopStep
  <1>5. CASE \/ ToAffine(t) \/ ToAffineRead(t) \/ GetX(t) \/ GetY(t)
             \/ EqSelf(t) \/ EqOther(t)
    BY <1>5, AffineStep, CoordinatesStep, EqStep
  <1>6. CASE CopyCoords(t) \/ CopyTable(t) \/ CopyMake(t)
    BY <1>6, CopyStep, CopyMakeStep
  <1>7. CASE PreKey(t) \/ PreStore(t) \/ PreMul(t)
    BY <1>7, KeyStep, PreStoreStep
  <1>8. CASE \/ MulAddEnter(t) \/ MulAddOther(t)
             \/ MulAddBothSelf(t) \/ MulAddBothOther(t)
             \/ MulAddReadSelf(t) \/ MulAddReadOther(t)
             \/ MulAddMulSelf(t) \/ MulAddMulOther(t) \/ MulAddSum(t)
    BY <1>8, MulAddEnterStep, MulAddBothStep, MulAddReadStep, MulAddSumStep
  <1> QED
    BY <1>1, <1>2, <1>3, <1>4, <1>5, <1>6, <1>7, <1>8 DEF Step

LEMMA InitInvariant == Init => IInv
  <1> SUFFICES ASSUME Init PROVE IInv
    OBVIOUS
  <1>1. NoCall \in Requests
    BY ObjectsAssumption DEF NoCall, CallOf, Requests, Multipliers
  <1>2. IdleFrame \in Frames
    BY ObjectsAssumption, NewFrameType DEF IdleFrame, Labels
  <1>3. [v |-> QValue, scaled |-> QScaled] \in Coords
    BY QAssumption, QScaledAssumption DEF Coords
  <1>4. [v |-> 1, scaled |-> TRUE] \in Coords
    BY OrderAssumption DEF Coords
  <1>a. order \in [Objects -> {0, Order}]
    BY QOrdersAssumption DEF Init
  <1>5. TypeOK
    BY <1>1, <1>2, <1>3, <1>4, <1>a, ObjectsAssumption DEF Init, TypeOK, Labels
  <1>6. TablesComplete /\ TablesOrdered
    BY ObjectsAssumption DEF Init, TablesComplete, TablesOrdered
  <1>7. ASSUME NEW t \in Threads PROVE FrameOK(pc[t], loc[t], req[t])
    BY DEF Init, FrameOK, IdleFrame, NewFrame
  <1> QED BY <1>5, <1>6, <1>7 DEF IInv

LEMMA NextInvariant == IInv /\ [Next]_vars => IInv'
  <1> SUFFICES ASSUME IInv, [Next]_vars PROVE IInv'
    OBVIOUS
  <1>1. CASE UNCHANGED vars
    BY <1>1 DEF vars, IInv, TypeOK, TablesComplete, TablesOrdered, FrameOK
  <1>2. CASE Next
    <2>1. PICK t \in Threads : Calls(t) \/ Step(t) \/ Interrupt(t)
      BY <1>2 DEF Next
    <2> QED BY <2>1, CallsStep, StepStep, ReturnStep
  <1> QED BY <1>1, <1>2

(* The inductive invariant holds in every reachable state.                 *)
THEOREM Invariant == Spec => []IInv
  BY InitInvariant, NextInvariant, PTL DEF Spec

----------------------------------------------------------------------------
(* What follows from it.                                                   *)

(* Every variable keeps its type, however many threads call whatever       *)
(* methods, and wherever they are interrupted.                             *)
THEOREM TypeCorrect == Spec => []TypeOK
  <1>1. IInv => TypeOK
    BY DEF IInv
  <1> QED BY Invariant, <1>1, PTL

(* No thread ever sees an incomplete or foreign precomputation table.      *)
THEOREM TablesAreComplete == Spec => []TablesComplete
  <1>1. IInv => TablesComplete
    BY DEF IInv
  <1> QED BY Invariant, <1>1, PTL

(* The assertion of to_affine() holds, and __mul__ reads affine            *)
(* coordinates, in every interleaving.                                     *)
THEOREM ScaleIsStable == Spec => []ScaledWhereAssumed
  <1>1. IInv => ScaledWhereAssumed
    BY DEF IInv, ScaledWhereAssumed, FrameOK
  <1> QED BY Invariant, <1>1, PTL

(* A generator is multiplied with its table, never by double-and-add.      *)
THEOREM GeneratorUsesTable == Spec => []GeneratorIsFast
  <1>1. IInv => GeneratorIsFast
    BY DEF IInv, GeneratorIsFast, FrameOK
  <1> QED BY Invariant, <1>1, PTL

(* There is one complete table for a value.                                *)
LEMMA TableUnique ==
  ASSUME NEW v \in Value, NEW a \in Seq(Value), NEW b \in Seq(Value),
         IsTable(a, v), IsTable(b, v)
  PROVE  a = b
  <1> DEFINE T == {i \in 1 .. TableLen : a[i] # b[i]}
  <1>1. CASE T = {}
    <2>1. Len(a) = Len(b) /\ \A i \in 1 .. Len(a) : a[i] = b[i]
      BY <1>1 DEF IsTable
    <2> QED BY <2>1
  <1>2. CASE T # {}
    <2>1. T \in SUBSET Nat
      BY TableLenAssumption
    <2> HIDE DEF T
    <2>2. PICK m \in T : \A n \in T : m <= n
      BY <1>2, <2>1, NatMin
    <2> USE DEF T
    <2>3. m # 1
      BY DEF IsTable
    <2>4. m - 1 \in 1 .. TableLen - 1 /\ m - 1 \notin T
      BY <2>2, <2>3, TableLenAssumption
    <2>5. a[m - 1] = b[m - 1]
      BY <2>4, TableLenAssumption
    <2>6. a[(m - 1) + 1] = Dbl(a[m - 1]) /\ b[(m - 1) + 1] = Dbl(b[m - 1])
      BY <2>4 DEF IsTable
    <2>7. (m - 1) + 1 = m
      BY TableLenAssumption
    <2> QED BY <2>5, <2>6, <2>7
  <1> QED BY <1>1, <1>2

LEMMA HeapUntouched == UNCHANGED heap => Idempotent
  BY DEF heap, Idempotent

LEMMA ReadersLeaveHeap ==
  ASSUME NEW t \in Threads,
         \/ Calls(t) \/ Interrupt(t) \/ Return(t) \/ AssertOrder(t)
         \/ ScaleRead(t) \/ MaybePrecompute(t) \/ PrecomputeRead(t)
         \/ PrecomputeDouble(t)
         \/ MulEnter(t) \/ MulChoose(t) \/ MulTable(t) \/ MulRound(t)
         \/ MulTableEnd(t) \/ MulLoop(t)
         \/ ToAffine(t) \/ ToAffineRead(t) \/ GetX(t) \/ GetY(t)
         \/ EqSelf(t) \/ EqOther(t) \/ CopyCoords(t) \/ CopyTable(t)
         \/ PreKey(t) \/ PreMul(t)
         \/ MulAddEnter(t) \/ MulAddOther(t)
         \/ MulAddBothSelf(t) \/ MulAddBothOther(t)
         \/ MulAddReadSelf(t) \/ MulAddReadOther(t)
         \/ MulAddMulSelf(t) \/ MulAddMulOther(t) \/ MulAddSum(t)
  PROVE  UNCHANGED heap
  <1>1. CASE Calls(t)
    BY <1>1 DEF Calls, CallMul, CallMulAdd, CallToAffine, CallXY, CallEq,
                CallPrecompute, CallPickle, Begin
  <1>2. CASE Interrupt(t) \/ Return(t) \/ AssertOrder(t)
    BY <1>2 DEF Interrupt, Return, AssertOrder, End
  <1>3. CASE \/ ScaleRead(t) \/ MaybePrecompute(t) \/ PrecomputeRead(t)
             \/ PrecomputeDouble(t)
    BY <1>3 DEF ScaleRead, MaybePrecompute, PrecomputeRead, PrecomputeDouble,
                Jump, Local
  <1>4. CASE \/ MulEnter(t) \/ MulChoose(t) \/ MulTable(t) \/ MulRound(t)
             \/ MulTableEnd(t) \/ MulLoop(t)
    BY <1>4 DEF MulEnter, MulChoose, MulTable, MulRound, MulTableEnd, MulLoop,
                Jump, Local
  <1>5. CASE \/ ToAffine(t) \/ ToAffineRead(t) \/ GetX(t) \/ GetY(t)
             \/ EqSelf(t) \/ EqOther(t) \/ CopyCoords(t) \/ CopyTable(t)
             \/ PreKey(t) \/ PreMul(t)
    BY <1>5 DEF ToAffine, ToAffineRead, GetX, GetY, EqSelf, EqOther, CopyCoords,
                CopyTable, PreKey, PreMul, Jump, Local
  <1>6. CASE \/ MulAddEnter(t) \/ MulAddOther(t)
             \/ MulAddBothSelf(t) \/ MulAddBothOther(t)
             \/ MulAddReadSelf(t) \/ MulAddReadOther(t)
             \/ MulAddMulSelf(t) \/ MulAddMulOther(t) \/ MulAddSum(t)
    BY <1>6 DEF MulAddEnter, MulAddOther, MulAddBothSelf, MulAddBothOther,
                MulAddReadSelf, MulAddReadOther, MulAddMulSelf, MulAddMulOther,
                MulAddSum, ScaleSelf, Jump, Local
  <1> QED BY <1>1, <1>2, <1>3, <1>4, <1>5, <1>6

(* The four writes: scale() stores the value it read, _maybe_precompute()  *)
(* can only store the table that is there already, and the objects that    *)
(* copies and precompute() fill are new.                                   *)
LEMMA WritersAreIdempotent ==
  ASSUME IInv, NEW t \in Threads,
         ScaleStore(t) \/ PrecomputeStore(t) \/ CopyMake(t) \/ PreStore(t)
  PROVE  Idempotent
  <1> DEFINE l == loc[t]
  <1>1. /\ FrameOK(pc[t], l, req[t]) /\ l \in Frames /\ live \subseteq Objects
        /\ \A o \in live : /\ coords[o] \in Coords
                           /\ table[o] \in Seq(Value)
                           /\ table[o] # <<>> => IsTable(table[o], coords[o].v)
    BY ThreadFacts
  <1>2. CASE ScaleStore(t)
    <2>1. /\ l.snap.v = coords[l.cur].v
          /\ coords' = [coords EXCEPT ![l.cur] = [v |-> l.snap.v, scaled |-> TRUE]]
          /\ table' = table
      BY <1>1, <1>2 DEF ScaleStore, FrameOK
    <2> QED BY <2>1 DEF Idempotent, IInv, TypeOK
  <1>3. CASE PrecomputeStore(t)
    <2>1. /\ pc[t] = "mpBuild" /\ l.cur \in live /\ Len(l.list) >= TableLen
          /\ table' = [table EXCEPT ![l.cur] = l.list] /\ coords' = coords
      BY <1>1, <1>3 DEF PrecomputeStore, FrameOK
    <2> DEFINE v == coords[l.cur].v
    <2>2. v \in Value
      BY <1>1, <2>1, OrderAssumption DEF Coords, Value
    <2>3. TableSoFar(l.list, v)
      BY <1>1, <2>1 DEF FrameOK
    <2>4. IsTable(l.list, v) /\ l.list \in Seq(Value)
      BY <2>1, <2>3, TableLenAssumption DEF TableSoFar, IsTable
    <2>5. table[l.cur] # <<>> => table[l.cur] = l.list
      BY <1>1, <2>1, <2>2, <2>4, TableUnique
    <2> QED BY <2>1, <2>5 DEF Idempotent, IInv, TypeOK
  <1>4. CASE CopyMake(t) \/ PreStore(t)
    <2>1. PICK o \in Objects, c \in {l.snap, [v |-> l.out, scaled |-> TRUE]},
               g \in {TRUE, gen[l.cur]}, tbl \in {<<>>, l.list} :
            Allocate(o, c, g, order[l.cur], tbl)
      BY <1>4 DEF CopyMake, PreStore
    <2> QED BY <2>1 DEF Allocate, Idempotent, IInv, TypeOK
  <1> QED BY <1>2, <1>3, <1>4

(* No step changes the value of an object, unscales it or changes a        *)
(* published table: what the comments in scale() and _maybe_precompute()   *)
(* claim of two threads that do the work at the same time.                 *)
THEOREM WritesIdempotent == Spec => WritesAreIdempotent
  <1>1. IInv /\ [Next]_vars => [Idempotent]_vars
    <2> SUFFICES ASSUME IInv, Next PROVE Idempotent
      OBVIOUS
    <2>1. PICK t \in Threads : Calls(t) \/ Step(t) \/ Interrupt(t)
      BY DEF Next
    <2>2. CASE ScaleStore(t) \/ PrecomputeStore(t) \/ CopyMake(t) \/ PreStore(t)
      BY <2>2, WritersAreIdempotent
    <2>3. CASE ~ (ScaleStore(t) \/ PrecomputeStore(t) \/ CopyMake(t) \/ PreStore(t))
      BY <2>1, <2>3, ReadersLeaveHeap, HeapUntouched DEF Step
    <2> QED BY <2>2, <2>3
  <1> QED BY <1>1, Invariant, PTL DEF Spec, WritesAreIdempotent, Idempotent

----------------------------------------------------------------------------
(***************************************************************************)
(* The answers: what a call returns is what its values ask for, and so     *)
(* SharedPoint implements the safety of ImmutablePoint.                    *)
(***************************************************************************)

V(o)   == coords[o].v
Values == [o \in Objects |-> V(o)]

(* An object made from the key as it was when it was loaded.               *)
OfKey(o) == V(o) = QValue /\ order[o] = order[Q]

Precomputes == {"precompute", "precompute_lazy"}

InPrecompute == {"mpTest", "mpRead", "mpBuild"}
InScale      == {"scRead", "scStore"}

(* Where a multiplication of the point cur by k is still to be done.       *)
Multiplying(p, ret) ==
    \/ p \in {"mul", "mulChoose", "mulTable", "mulLoop"}
    \/ p \in InPrecompute /\ ret = "mulChoose"
    \/ p \in InScale /\ ret = "mulLoop"

(* Where mul_add() does its own work.                                      *)
Adding(p, ret) ==
    \/ p \in {"maTest", "maOther", "maBothSelf", "maBothOther", "maReadSelf",
              "maReadOther", "maMulSelf", "maMulOther", "maSum"}
    \/ p \in InPrecompute /\ ret \in {"maOther", "maBothSelf"}
    \/ p \in InScale /\ ret \in {"maReadSelf", "maReadOther"}

(* A point that call r multiplies: one it names, or the new one of the key. *)
Named(o, r) ==
    \/ r.kind \in {"mul", "mul_add"} /\ o \in {r.obj, r.other}
    \/ r.kind = "precompute" /\ order[o] = order[r.obj]

(* The product of the running multiplication is the one its caller, to     *)
(* which it returns by mret, goes on with; acc is the other product.       *)
Owed(product, mret, acc, r) ==
    /\ mret # "return" => r.kind = "mul_add"
    /\ mret = "maMulOther" => product = Times(r.k, V(r.obj))
    /\ mret = "maSum" => acc = Times(r.k, V(r.obj)) /\ product = Times(r.k2, V(r.other))
    /\ mret = "return" /\ r.kind \notin Precomputes => product = Answer(r, Values)

(* The entries that are left: each is the double of the one before it.     *)
Doubling(list) ==
    /\ list # <<>> => list[1] # 0
    /\ \A i \in 1 .. Len(list) - 1 : list[i + 1] = Dbl(list[i])

(* What is left of the multiplier is used up when the list is.             *)
RoundOK(l, r) ==
    /\ l.out \in Value
    /\ Doubling(l.list)
    /\ l.list = <<>> => Owed(l.out, l.mret, l.acc, r)
    /\ l.list # <<>> => /\ l.k <= 2 ^ (Len(l.list) - 1)
                        /\ Owed(Plus(l.out, Times(l.k, Head(l.list))), l.mret, l.acc, r)

(* What a thread has computed so far, at label p with frame l and call r.  *)
WorkOK(p, l, r) ==
    /\ p = "idle" <=> r = NoCall
    /\ r.kind \in Precomputes => OfKey(r.obj)
    /\ Multiplying(p, l.ret) \/ p \in InPrecompute => Named(l.cur, r)
    /\ Multiplying(p, l.ret) => Owed(Times(l.k, V(l.cur)), l.mret, l.acc, r)
    /\ p \in {"mulChoose", "mulTable"} \/ (p \in InPrecompute /\ l.ret = "mulChoose") =>
          order[l.cur] = 0 \/ l.k < 2 * Order
    /\ p = "mulRound" => RoundOK(l, r)
    /\ p = "return" /\ r.kind \notin Precomputes => l.out = Answer(r, Values)
    /\ Adding(p, l.ret) => r.kind = "mul_add"
    /\ p = "maTest" => l.k = r.k /\ l.mret = "return"
    /\ p \in {"maMulOther", "maSum"} => l.mret = p /\ Owed(l.out, l.mret, l.acc, r)
    /\ p = "maReadOther" \/ (p \in InScale /\ l.ret = "maReadOther") =>
          l.snap2.v = V(r.obj)
    /\ p \in {"affZ", "affRead"} \/ (p \in InScale /\ l.ret = "affRead") =>
          r.kind = "to_affine" /\ l.cur = r.obj
    /\ p \in {"getX", "getY"} /\ l.ret = "return" => r.kind = "xy" /\ l.cur = r.obj
    /\ p \in {"getX", "getY"} /\ l.ret = "preStore" =>
          r.kind \in Precomputes /\ OfKey(l.cur)
    /\ p \in {"preKey", "preStore"} => r.kind \in Precomputes
    /\ p = "preMul" => r.kind = "precompute"
    /\ p = "preStore" => l.out = QValue /\ OfKey(l.cur)
    /\ p \in {"eqSelf", "eqOther"} => r.kind = "eq" /\ l.cur = r.obj
    /\ p = "eqOther" => l.snap.v = V(r.obj)
    /\ p \in {"copy", "copyCoords", "copyTable", "copyMake"} =>
          r.kind = "pickle" /\ l.cur = r.obj

WorkInv ==
    /\ OfKey(key)
    /\ \A t \in Threads : WorkOK(pc[t], loc[t], req[t])

AInv == IInv /\ WorkInv

----------------------------------------------------------------------------
(* Sums and multiples modulo the order.                                    *)

LEMMA ModSum ==
  ASSUME NEW n \in Nat \ {0}, NEW a \in Int, NEW b \in Int
  PROVE  ((a % n) + b) % n = (a + b) % n
  <1>1. /\ a % n \in Int /\ a \div n \in Int /\ a = n * (a \div n) + (a % n)
    BY DivMod
  <1> DEFINE r == a % n
             q == a \div n
  <1>2. r \in Int /\ q \in Int /\ a = n * q + r
    BY <1>1
  <1> HIDE DEF r, q
  <1>3. a + b = (r + b) + q * n
    BY <1>2, SMT
  <1>4. a + b \in Int /\ r + b \in Int
    BY <1>2
  <1>5. (a + b) % n = (r + b) % n
    BY <1>2, <1>3, <1>4, SameRemainder
  <1> QED BY <1>5 DEF r

LEMMA ModSumRight ==
  ASSUME NEW n \in Nat \ {0}, NEW a \in Int, NEW b \in Int
  PROVE  (b + (a % n)) % n = (b + a) % n
  <1>1. a % n \in Int
    BY DivMod
  <1> DEFINE r == a % n
  <1>2. r + b = b + r /\ a + b = b + a
    BY <1>1
  <1>3. (r + b) % n = (a + b) % n
    BY ModSum
  <1> HIDE DEF r
  <1>4. (b + r) % n = (b + a) % n
    BY <1>2, <1>3
  <1> QED BY <1>4 DEF r

LEMMA ModProduct ==
  ASSUME NEW n \in Nat \ {0}, NEW k \in Int, NEW a \in Int
  PROVE  (k * (a % n)) % n = (k * a) % n
  <1>1. /\ a % n \in Int /\ a \div n \in Int /\ a = n * (a \div n) + (a % n)
    BY DivMod
  <1> DEFINE r == a % n
             q == a \div n
  <1>2. r \in Int /\ q \in Int /\ a = n * q + r
    BY <1>1
  <1> HIDE DEF r, q
  <1>3. k * a = k * r + (k * q) * n
    BY <1>2, SMT
  <1>4. k * a \in Int /\ k * r \in Int /\ k * q \in Int
    BY <1>2, SMT
  <1>5. (k * a) % n = (k * r) % n
    BY <1>3, <1>4, SameRemainder
  <1> QED BY <1>5 DEF r

LEMMA OrderFacts == Order \in Nat \ {0} /\ 2 * Order \in Nat \ {0} /\ Value \subseteq Nat
  BY OrderAssumption DEF Value

LEMMA OrderSum ==
  ASSUME NEW a \in Int, NEW b \in Int
  PROVE  (b + (a % Order)) % Order = (b + a) % Order
  BY OrderFacts, ModSumRight, Zenon

LEMMA OrderProduct ==
  ASSUME NEW k \in Int, NEW a \in Int
  PROVE  (k * (a % Order)) % Order = (k * a) % Order
  BY OrderFacts, ModProduct, Zenon

LEMMA OrderRemainder ==
  ASSUME NEW a \in Int, NEW b \in Int, NEW q \in Int, a = b + q * Order
  PROVE  a % Order = b % Order
  BY OrderFacts, SameRemainder, Zenon

LEMMA SmallMod == ASSUME NEW v \in Value PROVE v % Order = v /\ v # Garbage /\ v \in Nat
  BY OrderAssumption DEF Value, Garbage

LEMMA TimesValue ==
  ASSUME NEW k \in Nat, NEW v \in Value
  PROVE  Times(k, v) = (k * v) % Order /\ Times(k, v) \in Value
  <1>1. v # Garbage /\ v \in Nat
    BY SmallMod
  <1>2. k * v \in Nat
    BY <1>1
  <1> QED BY <1>1, <1>2, ModInValue DEF Times

LEMMA PlusValue ==
  ASSUME NEW v \in Value, NEW w \in Value
  PROVE  Plus(v, w) = (v + w) % Order /\ Plus(v, w) \in Value
  <1>1. v # Garbage /\ v \in Nat /\ w # Garbage /\ w \in Nat
    BY SmallMod
  <1>2. v + w \in Nat
    BY <1>1
  <1> QED BY <1>1, <1>2, ModInValue DEF Plus

LEMMA TimesSmall ==
  ASSUME NEW v \in Value PROVE Times(0, v) = 0 /\ Times(1, v) = v
  <1>1. v \in Nat /\ v % Order = v
    BY SmallMod
  <1>2. 0 * v = 0 /\ 1 * v = v /\ 0 % Order = 0
    BY <1>1, OrderAssumption
  <1> QED BY <1>1, <1>2, TimesValue

LEMMA PlusZero ==
  ASSUME NEW v \in Value PROVE Plus(v, 0) = v /\ Plus(0, v) = v
  <1>1. v \in Nat /\ v % Order = v /\ 0 \in Value
    BY SmallMod, OrderAssumption DEF Value
  <1>2. v + 0 = v /\ 0 + v = v
    BY <1>1
  <1> QED BY <1>1, <1>2, PlusValue

(* Reducing the multiplier by twice the order changes no product.          *)
LEMMA TimesReduced ==
  ASSUME NEW k \in Nat, NEW v \in Value
  PROVE  Times(k % (2 * Order), v) = Times(k, v)
  <1> DEFINE m == 2 * Order
             r == k % m
             q == k \div m
  <1>1. /\ r \in Int /\ 0 <= r /\ r < m /\ q \in Int /\ k = m * q + r
    BY OrderFacts, k \in Int, DivMod, Zenon
  <1>2. r \in Nat
    BY <1>1
  <1>3. v \in Nat /\ Order \in Nat \ {0} /\ m = 2 * Order
    BY SmallMod, OrderFacts
  <1> HIDE DEF r, q, m
  <1>4. k * v = r * v + (2 * q * v) * Order
    BY <1>1, <1>3, SMT
  <1>5. k * v \in Int /\ r * v \in Int /\ 2 * q * v \in Int
    BY <1>1, <1>3, SMT
  <1>6. (k * v) % Order = (r * v) % Order
    BY <1>3, <1>4, <1>5, SameRemainder
  <1>7. Times(r, v) = Times(k, v)
    BY <1>2, <1>6, TimesValue
  <1> QED BY <1>7 DEF r, m

LEMMA DblNonzero ==
  ASSUME NEW e \in Value, e # 0 PROVE Dbl(e) \in Value /\ Dbl(e) # 0
  <1>1. 2 * e \in Nat /\ 2 * e # Order /\ 2 * e # 0 /\ 2 * e < 2 * Order
    BY OrderAssumption DEF Value
  <1>2. (2 * e) % Order # 0
    <2>1. CASE 2 * e < Order
      BY <1>1, <2>1, OrderAssumption
    <2>2. CASE 2 * e > Order
      <3>1. 2 * e - Order \in Nat /\ 2 * e - Order < Order /\ 2 * e - Order # 0
        BY <1>1, <2>2, OrderAssumption
      <3>2. 2 * e = (2 * e - Order) + 1 * Order
        BY <1>1, OrderAssumption
      <3>3. (2 * e) % Order = (2 * e - Order) % Order
        BY <1>1, <3>1, <3>2, 2 * e \in Int, 2 * e - Order \in Int, 1 \in Int,
           OrderRemainder, Zenon
      <3>4. (2 * e - Order) % Order = 2 * e - Order
        BY <3>1, OrderAssumption
      <3> QED BY <3>1, <3>3, <3>4
    <2> QED BY <1>1, <2>1, <2>2, OrderAssumption
  <1> QED BY <1>2, DblType DEF Dbl

(* The sum out + k * e written with the entry's double.                    *)
LEMMA SumOfDouble ==
  ASSUME NEW k \in Nat, NEW out \in Value, NEW e \in Value
  PROVE  Plus(out, Times(k, Dbl(e))) = (out + 2 * k * e) % Order
  <1>1. Dbl(e) \in Value /\ Dbl(e) = (2 * e) % Order /\ out \in Nat /\ e \in Nat
    BY DblType, SmallMod DEF Dbl
  <1>2. Times(k, Dbl(e)) = (k * (2 * e)) % Order
    <2>1. Times(k, Dbl(e)) = (k * ((2 * e) % Order)) % Order
      BY <1>1, TimesValue
    <2>2. k \in Int /\ 2 * e \in Int
      BY <1>1
    <2> QED BY <2>1, <2>2, OrderProduct, Zenon
  <1>3. k * (2 * e) = 2 * k * e /\ k * (2 * e) \in Int
    BY <1>1, SMT
  <1> DEFINE p == 2 * k * e
             w == Times(k, Dbl(e))
  <1>4. w = p % Order /\ w \in Value
    BY <1>1, <1>2, <1>3, TimesValue
  <1>5. p \in Int
    BY <1>3
  <1> HIDE DEF p, w
  <1>7. Plus(out, w) = (out + (p % Order)) % Order
    BY <1>4, PlusValue
  <1>6. (out + (p % Order)) % Order = (out + p) % Order
    BY <1>1, <1>5, out \in Int, OrderSum, Zenon
  <1> QED BY <1>6, <1>7 DEF p, w

(* A round of _mul_precompute() keeps the sum that is aimed at.            *)
LEMMA RoundKeepsSum ==
  ASSUME NEW k \in Nat, NEW out \in Value, NEW e \in Value, e # 0
  PROVE  LET a == TableRound(k, out, e) IN
         /\ a.k \in Nat /\ a.out \in Value
         /\ Plus(a.out, Times(a.k, Dbl(e))) = Plus(out, Times(k, e))
  <1> DEFINE a == TableRound(k, out, e)
  <1>1. k % 2 \in {0, 1} /\ k % 4 \in {0, 1, 2, 3} /\ out \in Nat /\ e \in Nat
    BY SmallMod
  <1>2. Plus(out, Times(k, e)) = (out + k * e) % Order
    <2>1. k * e \in Int
      BY <1>1, SMT
    <2>2. Plus(out, Times(k, e)) = (out + ((k * e) % Order)) % Order
      BY TimesValue, PlusValue
    <2> DEFINE p == k * e
    <2>3. p \in Int
      BY <2>1
    <2> HIDE DEF p
    <2>4. (out + (p % Order)) % Order = (out + p) % Order
      BY <1>1, <2>3, out \in Int, OrderSum, Zenon
    <2> QED BY <2>2, <2>4 DEF p
  <1>3. CASE k % 2 = 0
    <2>1. a.k = k \div 2 /\ a.out = out
      BY <1>3 DEF TableRound
    <2>2. a.k \in Nat /\ k = 2 * a.k
      BY <1>3, <2>1
    <2>3. Plus(a.out, Times(a.k, Dbl(e))) = (out + 2 * a.k * e) % Order
      BY <2>1, <2>2, SumOfDouble
    <2> QED BY <1>2, <2>1, <2>2, <2>3
  <1>4. CASE k % 2 # 0 /\ k % 4 >= 2
    <2>1. a.k = (k + 1) \div 2 /\ a.out = Plus(out, Order - e)
      BY <1>4 DEF TableRound
    <2>2. a.k \in Nat /\ k = 2 * a.k - 1
      BY <1>4, <2>1
    <2>3. Order - e \in Value
      BY OrderAssumption DEF Value
    <2>4. a.out = (out + (Order - e)) % Order /\ a.out \in Value
      BY <2>1, <2>3, PlusValue
    <2>5. Plus(a.out, Times(a.k, Dbl(e))) = (a.out + 2 * a.k * e) % Order
      BY <2>2, <2>4, SumOfDouble
    <2> DEFINE m == a.k
    <2>6. m \in Nat /\ k = 2 * m - 1
      BY <2>2
    <2> HIDE DEF m, a
    <2>7. /\ out + (Order - e) \in Int /\ 2 * m * e \in Int /\ out + k * e \in Int
          /\ (out + (Order - e)) + 2 * m * e \in Int
      BY <1>1, <2>6, OrderFacts, SMT
    <2>8. (a.out + 2 * m * e) % Order = ((out + (Order - e)) + 2 * m * e) % Order
      BY <2>4, <2>7, OrderFacts, ModSum
    <2>9. (out + (Order - e)) + 2 * m * e = (out + k * e) + 1 * Order
      BY <1>1, <2>6, OrderFacts, SMT
    <2>10. ((out + (Order - e)) + 2 * m * e) % Order = (out + k * e) % Order
      <3> DEFINE x == (out + (Order - e)) + 2 * m * e
                 y == out + k * e
      <3>1. x \in Int /\ y \in Int /\ x = y + 1 * Order
        BY <2>7, <2>9
      <3> HIDE DEF x, y
      <3>2. x % Order = y % Order
        BY <3>1, 1 \in Int, OrderRemainder, Zenon
      <3> QED BY <3>2 DEF x, y
    <2> QED BY <1>2, <2>2, <2>4, <2>5, <2>8, <2>10 DEF m, a
  <1>5. CASE k % 2 # 0 /\ ~ (k % 4 >= 2)
    <2>1. a.k = (k - 1) \div 2 /\ a.out = Plus(out, e)
      BY <1>5 DEF TableRound
    <2>2. a.k \in Nat /\ k = 2 * a.k + 1
      BY <1>1, <1>5, <2>1
    <2>4. a.out = (out + e) % Order /\ a.out \in Value
      BY <2>1, PlusValue
    <2>5. Plus(a.out, Times(a.k, Dbl(e))) = (a.out + 2 * a.k * e) % Order
      BY <2>2, <2>4, SumOfDouble
    <2> DEFINE m == a.k
    <2>6. m \in Nat /\ k = 2 * m + 1
      BY <2>2
    <2> HIDE DEF m, a
    <2>7. out + e \in Int /\ 2 * m * e \in Int
      BY <1>1, <2>6, SMT
    <2>8. (a.out + 2 * m * e) % Order = ((out + e) + 2 * m * e) % Order
      BY <2>4, <2>7, OrderFacts, ModSum
    <2>9. (out + e) + 2 * m * e = out + k * e
      BY <1>1, <2>6, SMT
    <2> QED BY <1>2, <2>2, <2>4, <2>5, <2>8, <2>9 DEF m, a
  <1> QED BY <1>3, <1>4, <1>5

(* It halves the multiplier, and the last one uses it up.                  *)
LEMMA RoundHalves ==
  ASSUME NEW k \in Nat, NEW out, NEW e, NEW n \in Nat \ {0}, k <= 2 ^ (n - 1)
  PROVE  LET a == TableRound(k, out, e) IN
         IF n = 1 THEN a.k = 0 ELSE a.k <= 2 ^ (n - 2)
  <1> DEFINE a == TableRound(k, out, e)
  <1>1. k % 2 \in {0, 1} /\ k % 4 \in {0, 1, 2, 3}
    OBVIOUS
  <1>2. \/ k % 2 = 0 /\ a.k = k \div 2
        \/ k % 2 # 0 /\ k % 4 >= 2 /\ a.k = (k + 1) \div 2
        \/ k % 2 # 0 /\ ~ (k % 4 >= 2) /\ a.k = (k - 1) \div 2
    BY DEF TableRound
  <1> HIDE DEF a
  <1>3. CASE n = 1
    <2>1. k <= 1
      BY <1>3, PowerZero
    <2> QED BY <1>2, <1>3, <2>1 DEF a
  <1>4. CASE n # 1
    <2>1. n - 2 \in Nat /\ (n - 2) + 1 = n - 1
      BY <1>4
    <2>2. 2 ^ (n - 1) = 2 * 2 ^ (n - 2) /\ 2 ^ (n - 2) \in Nat
      BY <2>1, PowerNext, PowerPositive
    <2> DEFINE h == 2 ^ (n - 2)
    <2>3. k <= 2 * h /\ h \in Nat
      BY <2>2
    <2> HIDE DEF h
    <2>4. a.k <= h
      BY <1>1, <1>2, <2>3
    <2> QED BY <1>4, <2>4 DEF a, h
  <1> QED BY <1>3, <1>4

----------------------------------------------------------------------------
(* The work of a thread is as good after a step of another.                *)

Kept(o) == coords'[o].v = coords[o].v /\ order'[o] = order[o]

HeapKeeps ==
    /\ live \subseteq live'
    /\ \A o \in live : Kept(o) /\ gen'[o] = gen[o]

LEMMA AnswerFrom ==
  ASSUME NEW r, NEW a, NEW b, a[r.obj] = b[r.obj], a[r.other] = b[r.other]
  PROVE  Answer(r, a) = Answer(r, b)
  BY DEF Answer

LEMMA KeptValues ==
  ASSUME IInv, HeapKeeps, NEW u \in Threads, pc[u] # "idle", req'[u] = req[u]
  PROVE  /\ Kept(loc[u].cur) /\ Kept(req[u].obj) /\ Kept(req[u].other) /\ Kept(Q)
         /\ Answer(req[u], Values') = Answer(req[u], Values)
  <1>1. /\ {loc[u].cur, req[u].obj, req[u].other, Q} \subseteq live
        /\ live \subseteq Objects
    BY ThreadFacts DEF FrameOK, IInv, TypeOK
  <1>2. Kept(loc[u].cur) /\ Kept(req[u].obj) /\ Kept(req[u].other) /\ Kept(Q)
    BY <1>1 DEF HeapKeeps
  <1>3. /\ Values'[req[u].obj] = Values[req[u].obj]
        /\ Values'[req[u].other] = Values[req[u].other]
    BY <1>1, <1>2 DEF Kept, Values, V
  <1>4. Answer(req[u], Values') = Answer(req[u], Values)
    BY <1>3, AnswerFrom
  <1> QED BY <1>2, <1>4

LEMMA MovedWork ==
  ASSUME NEW t, NEW p, NEW f, NEW r, pc'[t] = p, loc'[t] = f, req'[t] = r,
         Kept(f.cur), Kept(r.obj), Kept(r.other), Kept(Q),
         Answer(r, Values') = Answer(r, Values), WorkOK(p, f, r)
  PROVE  WorkOK(pc[t], loc[t], req[t])'
  <1>1. p = "mulRound" => RoundOK(f, r)'
    BY DEF WorkOK, RoundOK, Owed, V, Kept
  <1>2. Multiplying(p, f.ret) => Owed(Times(f.k, V(f.cur)), f.mret, f.acc, r)'
    BY DEF WorkOK, Owed, V, Kept
  <1>3. p \in {"maMulOther", "maSum"} => Owed(f.out, f.mret, f.acc, r)'
    BY DEF WorkOK, Owed, V, Kept
  <1>4. WorkOK(p, f, r)'
    BY <1>1, <1>2, <1>3 DEF WorkOK, OfKey, Named, V, Kept
  <1> QED BY <1>4 DEF WorkOK, OfKey, Named, RoundOK, Owed, V

LEMMA OthersWork ==
  ASSUME IInv, HeapKeeps, NEW u \in Threads, WorkOK(pc[u], loc[u], req[u]),
         pc'[u] = pc[u], loc'[u] = loc[u], req'[u] = req[u]
  PROVE  WorkOK(pc[u], loc[u], req[u])'
  <1>1. CASE pc[u] = "idle"
    <2>1. req[u] = NoCall
      BY <1>1 DEF WorkOK
    <2> QED BY <1>1, <2>1 DEF WorkOK, Multiplying, Adding, InPrecompute, InScale,
               NoCall, CallOf, Precomputes
  <1>2. CASE pc[u] # "idle"
    <2>1. /\ Kept(loc[u].cur) /\ Kept(req[u].obj) /\ Kept(req[u].other) /\ Kept(Q)
          /\ Answer(req[u], Values') = Answer(req[u], Values)
      BY <1>2, KeptValues
    <2> QED BY <2>1, MovedWork
  <1> QED BY <1>1, <1>2

(* So a step only has to account for its own thread.                       *)
LEMMA HeapWork ==
  ASSUME IInv, WorkInv, HeapKeeps, OfKey(key)', NEW t \in Threads,
         \A u \in Threads \ {t} :
            pc'[u] = pc[u] /\ loc'[u] = loc[u] /\ req'[u] = req[u],
         WorkOK(pc[t], loc[t], req[t])'
  PROVE  WorkInv'
  <1>1. ASSUME NEW u \in Threads \ {t} PROVE WorkOK(pc[u], loc[u], req[u])'
    <2>1. WorkOK(pc[u], loc[u], req[u])
      BY DEF WorkInv
    <2> QED BY <2>1, OthersWork
  <1> QED BY <1>1 DEF WorkInv

LEMMA StoredWork ==
  ASSUME IInv, WorkInv, HeapKeeps, OfKey(key)', NEW t \in Threads,
         pc[t] # "idle", NEW label, NEW f, f.cur = loc[t].cur,
         pc' = [pc EXCEPT ![t] = label], loc' = [loc EXCEPT ![t] = f], req' = req,
         WorkOK(label, f, req[t])
  PROVE  WorkInv'
  <1>1. /\ pc'[t] = label /\ loc'[t] = f /\ req'[t] = req[t]
        /\ \A u \in Threads \ {t} :
             pc'[u] = pc[u] /\ loc'[u] = loc[u] /\ req'[u] = req[u]
    BY DEF IInv, TypeOK
  <1>2. /\ Kept(loc[t].cur) /\ Kept(req[t].obj) /\ Kept(req[t].other) /\ Kept(Q)
        /\ Answer(req[t], Values') = Answer(req[t], Values)
    BY <1>1, KeptValues
  <1>3. WorkOK(pc[t], loc[t], req[t])'
    BY <1>1, <1>2, MovedWork
  <1> QED BY <1>1, <1>3, HeapWork

LEMMA SameHeap ==
  ASSUME UNCHANGED heap
  PROVE  /\ HeapKeeps /\ \A o : V(o)' = V(o)
         /\ OfKey(key)' = OfKey(key) /\ Values' = Values
  BY DEF heap, HeapKeeps, Kept, V, Values, OfKey

LEMMA ThreadWork ==
  ASSUME IInv, WorkInv, NEW t \in Threads, NEW label, NEW f, NEW r,
         pc' = [pc EXCEPT ![t] = label],
         loc' = [loc EXCEPT ![t] = f],
         req' = [req EXCEPT ![t] = r],
         UNCHANGED heap,
         WorkOK(label, f, r)
  PROVE  WorkInv'
  <1>1. /\ pc'[t] = label /\ loc'[t] = f /\ req'[t] = r
        /\ \A u \in Threads \ {t} :
             pc'[u] = pc[u] /\ loc'[u] = loc[u] /\ req'[u] = req[u]
    BY DEF IInv, TypeOK
  <1>2. WorkOK(pc[t], loc[t], req[t])'
    BY <1>1 DEF heap, WorkOK, OfKey, Named, RoundOK, Owed, Values, V
  <1>3. OfKey(key)'
    BY SameHeap DEF WorkInv
  <1> QED BY <1>1, <1>2, <1>3, SameHeap, HeapWork

LEMMA LocalWork ==
  ASSUME IInv, WorkInv, NEW t \in Threads, NEW label, NEW f,
         Local(t, label, f), WorkOK(label, f, req[t])
  PROVE  WorkInv'
  <1>1. /\ pc' = [pc EXCEPT ![t] = label]
        /\ loc' = [loc EXCEPT ![t] = f]
        /\ req' = [req EXCEPT ![t] = req[t]]
        /\ UNCHANGED heap
    BY DEF Local, Goto, IInv, TypeOK
  <1> QED BY <1>1, ThreadWork

----------------------------------------------------------------------------
(* The steps, one method after the other.                                  *)

LEMMA WorkFacts ==
  ASSUME IInv, WorkInv, NEW t \in Threads
  PROVE  /\ loc[t] \in Frames /\ req[t] \in Requests
         /\ FrameOK(pc[t], loc[t], req[t]) /\ WorkOK(pc[t], loc[t], req[t])
         /\ OfKey(key) /\ {key, Q} \subseteq live /\ live \subseteq Objects
         /\ \A o \in live : /\ V(o) \in Value /\ V(o) # 0
                            /\ coords[o].v = V(o)
                            /\ order[o] \in {0, Order}
                            /\ table[o] \in Seq(Value)
                            /\ table[o] # <<>> => IsTable(table[o], V(o)) /\ order[o] # 0
  <1>1. \A o \in live : coords[o].v \in Value /\ coords[o].v # 0
    BY ThreadFacts, OrderAssumption DEF Coords, Value
  <1>2. Q \in live
    BY DEF IInv, TypeOK
  <1> QED BY <1>1, <1>2, ThreadFacts DEF WorkInv, V

LEMMA ScaleReadWork ==
  ASSUME IInv, WorkInv, NEW t \in Threads, ScaleRead(t) PROVE WorkInv'
  <1> DEFINE l == loc[t]
             r == req[t]
             c == coords[l.cur]
  <1>1. /\ l \in Frames /\ FrameOK(pc[t], l, r) /\ WorkOK(pc[t], l, r)
    BY WorkFacts
  <1>2. pc[t] = "scRead"
    BY DEF ScaleRead
  <1>3. CASE c.scaled
    <2>1. Local(t, l.ret, l)
      BY <1>3 DEF ScaleRead, Jump
    <2>2. WorkOK(l.ret, l, r)
      BY <1>1, <1>2 DEF FrameOK, WorkOK, Multiplying, Adding, InPrecompute, InScale
    <2> QED BY <2>1, <2>2, LocalWork
  <1>4. CASE ~ c.scaled
    <2> DEFINE f == [l EXCEPT !.snap = c]
    <2>1. Local(t, "scStore", f)
      BY <1>4 DEF ScaleRead
    <2>2. WorkOK("scStore", f, r)
      BY <1>1, <1>2 DEF Frames, WorkOK, Multiplying, Adding, InPrecompute, InScale
    <2> QED BY <2>1, <2>2, LocalWork
  <1> QED BY <1>3, <1>4

LEMMA MaybePrecomputeWork ==
  ASSUME IInv, WorkInv, NEW t \in Threads, MaybePrecompute(t) PROVE WorkInv'
  <1> DEFINE l == loc[t]
             r == req[t]
  <1>1. /\ l \in Frames /\ FrameOK(pc[t], l, r) /\ WorkOK(pc[t], l, r)
    BY WorkFacts
  <1>2. pc[t] = "mpTest"
    BY DEF MaybePrecompute
  <1>3. WorkOK(l.ret, l, r) /\ WorkOK("mpRead", l, r)
    BY <1>1, <1>2 DEF FrameOK, WorkOK, Multiplying, Adding, InPrecompute, InScale
  <1>4. Local(t, l.ret, l) \/ Local(t, "mpRead", l)
    BY DEF MaybePrecompute, Jump
  <1> QED BY <1>3, <1>4, LocalWork

LEMMA PrecomputeWork ==
  ASSUME IInv, WorkInv, NEW t \in Threads, PrecomputeRead(t) \/ PrecomputeDouble(t)
  PROVE  WorkInv'
  <1> DEFINE l == loc[t]
             r == req[t]
  <1>1. /\ l \in Frames /\ FrameOK(pc[t], l, r) /\ WorkOK(pc[t], l, r)
    BY WorkFacts
  <1>2. pc[t] \in {"mpRead", "mpBuild"}
    BY DEF PrecomputeRead, PrecomputeDouble
  <1>3. \A list : WorkOK("mpBuild", [l EXCEPT !.list = list], r)
    BY <1>1, <1>2 DEF Frames, WorkOK, Multiplying, Adding, InPrecompute, InScale
  <1>4. CASE PrecomputeRead(t)
    <2>1. Local(t, "mpBuild", [l EXCEPT !.list = <<coords[l.cur].v>>])
      BY <1>4 DEF PrecomputeRead
    <2> QED BY <1>3, <2>1, LocalWork
  <1>5. CASE PrecomputeDouble(t)
    <2>1. Local(t, "mpBuild",
                [l EXCEPT !.list = Append(@, Dbl(l.list[Len(l.list)]))])
      BY <1>5 DEF PrecomputeDouble
    <2> QED BY <1>3, <2>1, LocalWork
  <1> QED BY <1>4, <1>5

LEMMA MulEnterWork ==
  ASSUME IInv, WorkInv, NEW t \in Threads, MulEnter(t) PROVE WorkInv'
  <1> DEFINE l == loc[t]
             r == req[t]
             v == V(l.cur)
  <1>1. /\ l \in Frames /\ FrameOK(pc[t], l, r) /\ WorkOK(pc[t], l, r)
        /\ pc[t] = "mul" /\ r \in Requests
    BY WorkFacts DEF MulEnter
  <1>2. v \in Value /\ v = coords[l.cur].v /\ l.k \in Nat
    BY <1>1, WorkFacts DEF FrameOK, Frames
  <1>3. Owed(Times(l.k, v), l.mret, l.acc, r)
    BY <1>1 DEF WorkOK, Multiplying
  <1>4. CASE l.k \in {0, 1}
    <2> DEFINE f == [l EXCEPT !.out = Times(l.k, v)]
    <2>1. Local(t, l.mret, f)
      <3>1. Times(l.k, v) = IF l.k = 0 THEN 0 ELSE v
        BY <1>2, <1>4, TimesSmall
      <3> QED BY <1>2, <1>4, <3>1 DEF MulEnter
    <2>2. WorkOK(l.mret, f, r)
      BY <1>1, <1>3 DEF Frames, FrameOK, WorkOK, Multiplying, Adding,
         InPrecompute, InScale, Owed
    <2> QED BY <2>1, <2>2, LocalWork
  <1>5. CASE l.k \notin {0, 1}
    <2> DEFINE n == order[l.cur]
               k == IF n = 0 THEN l.k ELSE l.k % (2 * n)
               f == [l EXCEPT !.k = k, !.ret = "mulChoose"]
    <2>1. Local(t, "mpTest", f)
      BY <1>5 DEF MulEnter
    <2>2. Times(k, v) = Times(l.k, v) /\ (n = 0 \/ k < 2 * Order)
      <3>0. n \in {0, Order}
        BY <1>1, WorkFacts DEF FrameOK
      <3>1. Times(l.k % (2 * Order), v) = Times(l.k, v)
        BY <1>2, TimesReduced
      <3>2. l.k \in Int
        BY <1>2
      <3>3. l.k % (2 * Order) < 2 * Order
        BY <3>2, OrderFacts, DivMod, Zenon
      <3> QED BY <3>0, <3>1, <3>3
    <2>3. f.k = k /\ f.cur = l.cur /\ f.ret = "mulChoose" /\ f.mret = l.mret /\ f.acc = l.acc
      BY <1>1 DEF Frames
    <2> HIDE DEF k, f
    <2>4. WorkOK("mpTest", f, r)
      BY <1>1, <1>3, <2>2, <2>3 DEF WorkOK, Multiplying, Adding, InPrecompute, InScale
    <2> QED BY <2>1, <2>4, LocalWork
  <1> QED BY <1>4, <1>5

LEMMA MulChooseWork ==
  ASSUME IInv, WorkInv, NEW t \in Threads, MulChoose(t) PROVE WorkInv'
  <1> DEFINE l == loc[t]
             r == req[t]
             f == [l EXCEPT !.ret = "mulLoop"]
  <1>1. /\ l \in Frames /\ FrameOK(pc[t], l, r) /\ WorkOK(pc[t], l, r)
        /\ pc[t] = "mulChoose"
    BY WorkFacts DEF MulChoose
  <1>2. WorkOK("mulTable", l, r) /\ WorkOK("scRead", f, r)
    BY <1>1 DEF Frames, WorkOK, Multiplying, Adding, InPrecompute, InScale
  <1>3. Local(t, "mulTable", l) \/ Local(t, "scRead", f)
    BY DEF MulChoose, Jump
  <1> QED BY <1>2, <1>3, LocalWork

LEMMA MulLoopWork ==
  ASSUME IInv, WorkInv, NEW t \in Threads, MulLoop(t) PROVE WorkInv'
  <1> DEFINE l == loc[t]
             r == req[t]
             f == [l EXCEPT !.out = Times(l.k, V(l.cur))]
  <1>1. /\ l \in Frames /\ FrameOK(pc[t], l, r) /\ WorkOK(pc[t], l, r)
        /\ pc[t] = "mulLoop"
    BY WorkFacts DEF MulLoop
  <1>2. AsAffine(coords[l.cur]) = V(l.cur)
    BY <1>1 DEF FrameOK, AsAffine, V
  <1>3. WorkOK(l.mret, f, r)
    BY <1>1 DEF Frames, FrameOK, WorkOK, Multiplying, Adding, InPrecompute,
       InScale, Owed
  <1>4. Local(t, l.mret, f)
    BY <1>2 DEF MulLoop
  <1> QED BY <1>3, <1>4, LocalWork

LEMMA MulTableWork ==
  ASSUME IInv, WorkInv, NEW t \in Threads, MulTable(t) PROVE WorkInv'
  <1> DEFINE l == loc[t]
             r == req[t]
             v == V(l.cur)
             list == table[l.cur]
             f == [l EXCEPT !.list = list, !.out = 0]
  <1>1. /\ l \in Frames /\ FrameOK(pc[t], l, r) /\ WorkOK(pc[t], l, r)
        /\ pc[t] = "mulTable" /\ Local(t, "mulRound", f)
    BY WorkFacts DEF MulTable
  <1>2. l.cur \in live /\ list # <<>> /\ l.k \in Nat /\ l.k < 2 * Order
    <2>1. l.cur \in live /\ list # <<>> /\ l.k \in Nat
      BY <1>1 DEF FrameOK, Frames
    <2>2. order[l.cur] # 0
      BY <2>1, WorkFacts
    <2> QED BY <1>1, <2>1, <2>2 DEF WorkOK
  <1>3. v \in Value /\ v # 0 /\ list \in Seq(Value) /\ IsTable(list, v)
    BY <1>2, WorkFacts
  <1>4. Owed(Times(l.k, v), l.mret, l.acc, r)
    BY <1>1 DEF WorkOK, Multiplying
  <1>5. Doubling(list) /\ Head(list) = v /\ Len(list) = TableLen
    BY <1>2, <1>3, TableLenAssumption DEF Doubling, IsTable
  <1>6. Plus(0, Times(l.k, v)) = Times(l.k, v)
    BY <1>2, <1>3, TimesValue, PlusZero
  <1>7. l.k <= 2 ^ (TableLen - 1)
    <2>1. TableLen - 1 \in Nat
      BY TableLenAssumption
    <2>2. 2 ^ (TableLen - 1) \in Nat
      BY <2>1, PowerPositive
    <2> QED BY <1>2, <2>2, TableLenAssumption, OrderAssumption
  <1>8. f.list = list /\ f.out = 0 /\ f.k = l.k /\ f.mret = l.mret /\ f.acc = l.acc
    BY <1>1 DEF Frames
  <1>9. 0 \in Value
    BY OrderAssumption DEF Value
  <1> HIDE DEF f, list, v
  <1>10. RoundOK(f, r)
    BY <1>2, <1>4, <1>5, <1>6, <1>7, <1>8, <1>9 DEF RoundOK
  <1>11. WorkOK("mulRound", f, r)
    BY <1>1, <1>10 DEF WorkOK, Multiplying, Adding, InPrecompute, InScale
  <1> QED BY <1>1, <1>11, LocalWork

LEMMA MulRoundWork ==
  ASSUME IInv, WorkInv, NEW t \in Threads, MulRound(t) PROVE WorkInv'
  <1> DEFINE l == loc[t]
             r == req[t]
             n == Len(l.list)
             e == Head(l.list)
             rest == Tail(l.list)
             a == TableRound(l.k, l.out, e)
             f == [l EXCEPT !.k = a.k, !.out = a.out, !.list = rest]
  <1>1. /\ l \in Frames /\ WorkOK(pc[t], l, r)
        /\ pc[t] = "mulRound" /\ l.list # <<>> /\ Local(t, "mulRound", f)
    BY WorkFacts DEF MulRound
  <1>2. l.list \in Seq(Value) /\ l.k \in Nat
    BY <1>1 DEF Frames
  <1>3. RoundOK(l, r)
    BY <1>1 DEF WorkOK
  <1>4. /\ n \in Nat \ {0} /\ e \in Value /\ e = l.list[1] /\ l.out \in Value
        /\ rest \in Seq(Value) /\ Len(rest) = n - 1
        /\ \A i \in 1 .. Len(rest) : rest[i] = l.list[i + 1]
    BY <1>1, <1>2, <1>3 DEF RoundOK
  <1>5. e # 0 /\ \A i \in 1 .. n - 1 : l.list[i + 1] = Dbl(l.list[i])
    BY <1>1, <1>3, <1>4 DEF RoundOK, Doubling
  <1>6. l.k <= 2 ^ (n - 1) /\ Owed(Plus(l.out, Times(l.k, e)), l.mret, l.acc, r)
    BY <1>1, <1>3 DEF RoundOK
  <1>7. /\ a.k \in Nat /\ a.out \in Value
        /\ Plus(a.out, Times(a.k, Dbl(e))) = Plus(l.out, Times(l.k, e))
    BY <1>2, <1>4, <1>5, RoundKeepsSum
  <1>8. IF n = 1 THEN a.k = 0 ELSE a.k <= 2 ^ (n - 2)
    BY <1>2, <1>4, <1>6, RoundHalves
  <1>9. /\ f.list = rest /\ f.out = a.out /\ f.k = a.k
        /\ f.mret = l.mret /\ f.acc = l.acc
    BY <1>1 DEF Frames
  <1>10. Dbl(e) \in Value /\ Dbl(e) # 0
    BY <1>4, <1>5, DblNonzero
  <1>11. rest # <<>> => rest[1] = Dbl(e) /\ Head(rest) = Dbl(e) /\ n >= 2
    BY <1>4, <1>5
  <1>12. Doubling(rest)
    BY <1>4, <1>5, <1>10, <1>11 DEF Doubling
  <1> HIDE DEF f, a, rest, e, n
  <1>13. rest = <<>> => Plus(l.out, Times(l.k, e)) = a.out
    <2>1. rest = <<>> => n = 1
      BY <1>4
    <2>2. n = 1 => Times(a.k, Dbl(e)) = 0
      BY <1>8, <1>10, TimesSmall
    <2> QED BY <1>7, <2>1, <2>2, PlusZero
  <1>14. rest # <<>> => a.k <= 2 ^ (Len(rest) - 1)
    <2>1. Len(rest) - 1 = n - 2
      BY <1>4
    <2>2. rest # <<>> => n # 1
      BY <1>11
    <2> QED BY <1>8, <2>1, <2>2
  <1>15. RoundOK(f, r)
    BY <1>6, <1>7, <1>9, <1>11, <1>12, <1>13, <1>14 DEF RoundOK
  <1>16. WorkOK("mulRound", f, r)
    BY <1>1, <1>15 DEF WorkOK, Multiplying, Adding, InPrecompute, InScale
  <1> QED BY <1>1, <1>16, LocalWork

LEMMA MulTableEndWork ==
  ASSUME IInv, WorkInv, NEW t \in Threads, MulTableEnd(t) PROVE WorkInv'
  <1> DEFINE l == loc[t]
             r == req[t]
  <1>1. /\ l \in Frames /\ FrameOK(pc[t], l, r) /\ WorkOK(pc[t], l, r)
        /\ pc[t] = "mulRound" /\ l.list = <<>> /\ Local(t, l.mret, l)
    BY WorkFacts DEF MulTableEnd, Jump
  <1>2. Owed(l.out, l.mret, l.acc, r)
    BY <1>1 DEF WorkOK, RoundOK
  <1>3. WorkOK(l.mret, l, r)
    BY <1>1, <1>2 DEF FrameOK, WorkOK, Multiplying, Adding, InPrecompute,
       InScale, Owed
  <1> QED BY <1>1, <1>3, LocalWork

LEMMA AffineWork ==
  ASSUME IInv, WorkInv, NEW t \in Threads, ToAffine(t) \/ ToAffineRead(t)
  PROVE  WorkInv'
  <1> DEFINE l == loc[t]
             r == req[t]
             f == [l EXCEPT !.out = V(l.cur)]
  <1>1. /\ l \in Frames /\ r \in Requests /\ live \subseteq Objects
        /\ FrameOK(pc[t], l, r) /\ WorkOK(pc[t], l, r)
    BY WorkFacts
  <1>2. CASE ToAffine(t)
    <2>1. pc[t] = "affZ" /\ Local(t, "scRead", l)
      BY <1>2 DEF ToAffine, Jump
    <2>2. WorkOK("scRead", l, r)
      BY <1>1, <2>1 DEF FrameOK, WorkOK, Multiplying, Adding, InPrecompute, InScale
    <2> QED BY <2>1, <2>2, LocalWork
  <1>3. CASE ToAffineRead(t)
    <2>1. pc[t] = "affRead" /\ coords[l.cur].scaled
      BY <1>1, <1>3 DEF ToAffineRead, FrameOK
    <2>2. Local(t, "return", f)
      BY <1>3, <2>1 DEF ToAffineRead, AsAffine, V
    <2>3. V(l.cur) = Answer(r, Values)
      BY <1>1, <2>1 DEF WorkOK, Answer, Values, Requests
    <2>4. WorkOK("return", f, r)
      BY <1>1, <2>1, <2>3 DEF Frames, WorkOK, Multiplying, Adding, InPrecompute, InScale
    <2> QED BY <2>2, <2>4, LocalWork
  <1> QED BY <1>2, <1>3

LEMMA CoordinatesWork ==
  ASSUME IInv, WorkInv, NEW t \in Threads, GetX(t) \/ GetY(t) PROVE WorkInv'
  <1> DEFINE l == loc[t]
             r == req[t]
             g == [l EXCEPT !.snap = coords[l.cur]]
             f == [l EXCEPT !.out = V(l.cur)]
  <1>1. /\ l \in Frames /\ r \in Requests
        /\ FrameOK(pc[t], l, r) /\ WorkOK(pc[t], l, r)
    BY WorkFacts
  <1>2. CASE GetX(t)
    <2>1. pc[t] = "getX" /\ Local(t, "getY", g)
      BY <1>2 DEF GetX
    <2>2. WorkOK("getY", g, r)
      BY <1>1, <2>1 DEF Frames, WorkOK, Multiplying, Adding, InPrecompute, InScale
    <2> QED BY <2>1, <2>2, LocalWork
  <1>3. CASE GetY(t)
    <2>1. pc[t] = "getY" /\ l.snap.v = coords[l.cur].v
      BY <1>1, <1>3 DEF GetY, FrameOK
    <2>2. Local(t, l.ret, f)
      BY <1>3, <2>1 DEF GetY, V
    <2>3. l.ret = "return" => V(l.cur) = Answer(r, Values)
      BY <1>1, <2>1 DEF WorkOK, Answer, Values, Requests
    <2>4. WorkOK(l.ret, f, r)
      BY <1>1, <2>1, <2>3 DEF Frames, FrameOK, WorkOK, OfKey, Multiplying, Adding,
         InPrecompute, InScale
    <2> QED BY <2>2, <2>4, LocalWork
  <1> QED BY <1>2, <1>3

LEMMA EqWork ==
  ASSUME IInv, WorkInv, NEW t \in Threads, EqSelf(t) \/ EqOther(t) PROVE WorkInv'
  <1> DEFINE l == loc[t]
             r == req[t]
             g == [l EXCEPT !.snap = coords[l.cur]]
             f == [l EXCEPT !.out = Answer(r, Values)]
  <1>1. /\ l \in Frames /\ r \in Requests
        /\ FrameOK(pc[t], l, r) /\ WorkOK(pc[t], l, r)
    BY WorkFacts
  <1>2. CASE EqSelf(t)
    <2>1. pc[t] = "eqSelf" /\ Local(t, "eqOther", g)
      BY <1>2 DEF EqSelf
    <2>2. g.snap.v = V(l.cur)
      BY <1>1 DEF Frames, V
    <2>3. WorkOK("eqOther", g, r)
      BY <1>1, <2>1, <2>2 DEF Frames, WorkOK, Multiplying, Adding, InPrecompute, InScale
    <2> QED BY <2>1, <2>3, LocalWork
  <1>3. CASE EqOther(t)
    <2>1. pc[t] = "eqOther" /\ l.snap.v = V(r.obj) /\ r.kind = "eq"
      BY <1>1, <1>3 DEF EqOther, WorkOK
    <2>2. Answer(r, Values) = IF V(r.obj) = V(r.other) THEN 1 ELSE 0
      BY <1>1, <2>1 DEF Answer, Values, Requests
    <2>3. Local(t, "return", f)
      BY <1>3, <2>1, <2>2 DEF EqOther, V
    <2>4. WorkOK("return", f, r)
      BY <1>1, <2>1 DEF Frames, WorkOK, Multiplying, Adding, InPrecompute, InScale
    <2> QED BY <2>3, <2>4, LocalWork
  <1> QED BY <1>2, <1>3

LEMMA CopyWork ==
  ASSUME IInv, WorkInv, NEW t \in Threads, CopyCoords(t) \/ CopyTable(t)
  PROVE  WorkInv'
  <1> DEFINE l == loc[t]
             r == req[t]
             f == [l EXCEPT !.snap = coords[l.cur]]
             g == [l EXCEPT !.list = table[l.cur]]
  <1>1. l \in Frames /\ WorkOK(pc[t], l, r)
    BY WorkFacts
  <1>2. /\ pc[t] \in {"copy", "copyCoords", "copyTable"}
        /\ \E label \in {"copyCoords", "copyTable", "copyMake"} :
             Local(t, label, f) \/ Local(t, label, g)
    BY DEF CopyCoords, CopyTable
  <1>3. \A label \in {"copyCoords", "copyTable", "copyMake"} :
          WorkOK(label, f, r) /\ WorkOK(label, g, r)
    BY <1>1, <1>2 DEF Frames, WorkOK, Multiplying, Adding, InPrecompute, InScale
  <1> QED BY <1>2, <1>3, LocalWork

LEMMA KeyWork ==
  ASSUME IInv, WorkInv, NEW t \in Threads, PreKey(t) \/ PreMul(t) PROVE WorkInv'
  <1> DEFINE l == loc[t]
             r == req[t]
             f == [l EXCEPT !.cur = key]
             g == NewFrame(key, 2, "mulChoose", "return")
  <1>1. /\ l \in Frames /\ FrameOK(pc[t], l, r) /\ WorkOK(pc[t], l, r)
        /\ OfKey(key)
    BY WorkFacts
  <1>2. CASE PreKey(t)
    <2>1. pc[t] = "preKey" /\ Local(t, "getX", f)
      BY <1>2 DEF PreKey
    <2>2. WorkOK("getX", f, r)
      BY <1>1, <2>1 DEF Frames, FrameOK, WorkOK, Multiplying, Adding, InPrecompute, InScale
    <2> QED BY <2>1, <2>2, LocalWork
  <1>3. CASE PreMul(t)
    <2>1. pc[t] = "preMul" /\ Local(t, "mul", g)
      BY <1>3 DEF PreMul
    <2>2. WorkOK("mul", g, r)
      BY <1>1, <2>1 DEF NewFrame, WorkOK, Owed, Named, OfKey, Multiplying, Adding,
         InPrecompute, InScale, Precomputes
    <2> QED BY <2>1, <2>2, LocalWork
  <1> QED BY <1>2, <1>3

----------------------------------------------------------------------------
(* mul_add()                                                               *)

LEMMA MulAddAnswer ==
  ASSUME IInv, NEW t \in Threads, req[t].kind = "mul_add"
  PROVE  Answer(req[t], Values) = Plus(Times(req[t].k, V(req[t].obj)),
                                       Times(req[t].k2, V(req[t].other)))
  BY ThreadFacts DEF Answer, Values, Requests

LEMMA MulAddEnterWork ==
  ASSUME IInv, WorkInv, NEW t \in Threads, MulAddEnter(t) \/ MulAddOther(t)
  PROVE  WorkInv'
  <1> DEFINE l == loc[t]
             r == req[t]
  <1>1. /\ l \in Frames /\ r \in Requests
        /\ FrameOK(pc[t], l, r) /\ WorkOK(pc[t], l, r)
    BY WorkFacts
  <1>2. CASE MulAddEnter(t)
    <2>1. /\ pc[t] = "maTest" /\ l.cur = r.obj /\ l.ret = "maOther" /\ l.k = r.k
          /\ r.kind = "mul_add" /\ l.mret = "return" /\ {r.obj, r.other} \subseteq live
      BY <1>1, <1>2 DEF MulAddEnter, FrameOK, WorkOK, Adding
    <2>2. /\ V(r.obj) \in Value /\ V(r.other) \in Value
          /\ r.k \in Nat /\ r.k2 \in Nat
      <3>1. r.k \in Nat /\ r.k2 \in Nat
        <4>1. r.k \in Multipliers /\ r.k2 \in Multipliers
          BY <1>1 DEF Requests
        <4>2. Multipliers \subseteq Nat
          BY ScalarsAssumption DEF Multipliers
        <4> QED BY <4>1, <4>2
      <3> QED BY <2>1, <3>1, WorkFacts
    <2>3. Answer(r, Values) = Plus(Times(r.k, V(r.obj)), Times(r.k2, V(r.other)))
      BY <2>1, MulAddAnswer
    <2>4. CASE r.k2 = 0
      <3>1. Answer(r, Values) = Times(r.k, V(r.obj))
        BY <2>2, <2>3, <2>4, TimesSmall, TimesValue, PlusZero
      <3>2. Local(t, "mul", l)
        BY <1>2, <2>4 DEF MulAddEnter, Jump
      <3>3. WorkOK("mul", l, r)
        BY <1>1, <2>1, <3>1 DEF WorkOK, Named, Owed, Multiplying, Adding, InPrecompute, InScale
      <3> QED BY <3>2, <3>3, LocalWork
    <2>5. CASE r.k2 # 0 /\ r.k = 0
      <3> DEFINE f == [l EXCEPT !.cur = r.other, !.k = r.k2]
      <3>1. Answer(r, Values) = Times(r.k2, V(r.other))
        BY <2>2, <2>3, <2>5, TimesSmall, TimesValue, PlusZero
      <3>2. Local(t, "mul", f)
        BY <1>2, <2>5 DEF MulAddEnter
      <3>3. WorkOK("mul", f, r)
        BY <1>1, <2>1, <3>1 DEF Frames, WorkOK, Named, Owed, Multiplying, Adding,
           InPrecompute, InScale
      <3> QED BY <3>2, <3>3, LocalWork
    <2>6. CASE r.k2 # 0 /\ r.k # 0
      <3>1. Local(t, "mpTest", l)
        BY <1>2, <2>6 DEF MulAddEnter, Jump
      <3>2. WorkOK("mpTest", l, r)
        BY <1>1, <2>1 DEF WorkOK, Named, Multiplying, Adding, InPrecompute, InScale
      <3> QED BY <3>1, <3>2, LocalWork
    <2> QED BY <2>4, <2>5, <2>6
  <1>3. CASE MulAddOther(t)
    <2> DEFINE f == [l EXCEPT !.cur = r.other, !.ret = "maBothSelf"]
    <2>1. pc[t] = "maOther" /\ Local(t, "mpTest", f)
      BY <1>3 DEF MulAddOther
    <2>2. WorkOK("mpTest", f, r)
      BY <1>1, <2>1 DEF Frames, WorkOK, Named, Multiplying, Adding, InPrecompute, InScale
    <2> QED BY <2>1, <2>2, LocalWork
  <1> QED BY <1>2, <1>3

LEMMA MulAddBothWork ==
  ASSUME IInv, WorkInv, NEW t \in Threads, MulAddBothSelf(t) \/ MulAddBothOther(t)
  PROVE  WorkInv'
  <1> DEFINE l == loc[t]
             r == req[t]
             f == [l EXCEPT !.cur = r.obj, !.ret = "maReadSelf"]
  <1>1. l \in Frames /\ WorkOK(pc[t], l, r)
    BY WorkFacts
  <1>2. /\ pc[t] \in {"maBothSelf", "maBothOther"}
        /\ \/ Local(t, "maBothOther", l) \/ Local(t, "maMulSelf", l)
           \/ Local(t, "scRead", f)
    BY DEF MulAddBothSelf, MulAddBothOther, ScaleSelf, Jump
  <1>3. /\ WorkOK("maBothOther", l, r) /\ WorkOK("maMulSelf", l, r)
        /\ WorkOK("scRead", f, r)
    BY <1>1, <1>2 DEF Frames, WorkOK, Named, Multiplying, Adding, InPrecompute, InScale
  <1> QED BY <1>2, <1>3, LocalWork

LEMMA MulAddReadWork ==
  ASSUME IInv, WorkInv, NEW t \in Threads, MulAddReadSelf(t) \/ MulAddReadOther(t)
  PROVE  WorkInv'
  <1> DEFINE l == loc[t]
             r == req[t]
  <1>1. l \in Frames /\ WorkOK(pc[t], l, r)
    BY WorkFacts
  <1>2. CASE MulAddReadSelf(t)
    <2> DEFINE f == [l EXCEPT !.snap2 = coords[r.obj],
                              !.cur = r.other, !.ret = "maReadOther"]
    <2>1. pc[t] = "maReadSelf" /\ Local(t, "scRead", f)
      BY <1>2 DEF MulAddReadSelf
    <2>2. f.snap2.v = V(r.obj)
      BY <1>1 DEF Frames, V
    <2>3. WorkOK("scRead", f, r)
      BY <1>1, <2>1, <2>2 DEF Frames, WorkOK, Named, Multiplying, Adding, InPrecompute, InScale
    <2> QED BY <2>1, <2>3, LocalWork
  <1>3. CASE MulAddReadOther(t)
    <2> DEFINE f == [l EXCEPT !.out = Answer(r, Values)]
    <2>1. pc[t] = "maReadOther" /\ l.snap2.v = V(r.obj) /\ r.kind = "mul_add"
      BY <1>1, <1>3 DEF MulAddReadOther, WorkOK, Adding
    <2>2. Answer(r, Values) = Plus(Times(r.k, V(r.obj)), Times(r.k2, V(r.other)))
      BY <2>1, MulAddAnswer
    <2>3. Local(t, "maMulSelf", l) \/ Local(t, "return", f)
      BY <1>3, <2>1, <2>2 DEF MulAddReadOther, Jump, V
    <2>4. WorkOK("maMulSelf", l, r) /\ WorkOK("return", f, r)
      BY <1>1, <2>1 DEF Frames, WorkOK, Named, Multiplying, Adding, InPrecompute, InScale
    <2> QED BY <2>3, <2>4, LocalWork
  <1> QED BY <1>2, <1>3

LEMMA MulAddSumWork ==
  ASSUME IInv, WorkInv, NEW t \in Threads,
         MulAddMulSelf(t) \/ MulAddMulOther(t) \/ MulAddSum(t)
  PROVE  WorkInv'
  <1> DEFINE l == loc[t]
             r == req[t]
  <1>1. l \in Frames /\ WorkOK(pc[t], l, r)
    BY WorkFacts
  <1>2. CASE MulAddMulSelf(t)
    <2> DEFINE f == [l EXCEPT !.cur = r.obj, !.k = r.k, !.mret = "maMulOther"]
    <2>1. pc[t] = "maMulSelf" /\ Local(t, "mul", f)
      BY <1>2 DEF MulAddMulSelf
    <2>2. WorkOK("mul", f, r)
      BY <1>1, <2>1 DEF Frames, WorkOK, Named, Owed, Multiplying, Adding, InPrecompute, InScale
    <2> QED BY <2>1, <2>2, LocalWork
  <1>3. CASE MulAddMulOther(t)
    <2> DEFINE f == [l EXCEPT !.cur = r.other, !.k = r.k2, !.mret = "maSum",
                              !.acc = l.out]
    <2>1. pc[t] = "maMulOther" /\ Local(t, "mul", f)
      BY <1>3 DEF MulAddMulOther
    <2>2. l.out = Times(r.k, V(r.obj)) /\ r.kind = "mul_add"
      BY <1>1, <2>1 DEF WorkOK, Owed
    <2>3. WorkOK("mul", f, r)
      BY <1>1, <2>1, <2>2 DEF Frames, WorkOK, Named, Owed, Multiplying, Adding,
         InPrecompute, InScale
    <2> QED BY <2>1, <2>3, LocalWork
  <1>4. CASE MulAddSum(t)
    <2> DEFINE f == [l EXCEPT !.out = Answer(r, Values)]
    <2>1. pc[t] = "maSum" /\ Local(t, "return", [l EXCEPT !.out = Plus(l.acc, l.out)])
      BY <1>4 DEF MulAddSum
    <2>2. /\ l.acc = Times(r.k, V(r.obj)) /\ l.out = Times(r.k2, V(r.other))
          /\ r.kind = "mul_add"
      BY <1>1, <2>1 DEF WorkOK, Owed
    <2>3. Local(t, "return", f)
      BY <2>1, <2>2, MulAddAnswer
    <2>4. WorkOK("return", f, r)
      BY <1>1, <2>1 DEF Frames, WorkOK, Multiplying, Adding, InPrecompute, InScale
    <2> QED BY <2>3, <2>4, LocalWork
  <1> QED BY <1>2, <1>3, <1>4

----------------------------------------------------------------------------
(* The steps that write to the heap.                                       *)

LEMMA StoreWork ==
  ASSUME IInv, WorkInv, NEW t \in Threads, ScaleStore(t) \/ PrecomputeStore(t)
  PROVE  WorkInv'
  <1> DEFINE l == loc[t]
             r == req[t]
             g == [l EXCEPT !.snap = NoCoords]
             h == [l EXCEPT !.list = <<>>]
  <1>1. /\ l \in Frames /\ FrameOK(pc[t], l, r) /\ WorkOK(pc[t], l, r)
        /\ OfKey(key) /\ {key, Q} \subseteq live
    BY WorkFacts
  <1>2. /\ live' = live /\ key' = key /\ req' = req /\ pc' = [pc EXCEPT ![t] = l.ret]
        /\ gen' = gen /\ order' = order
    BY DEF ScaleStore, PrecomputeStore, Goto
  <1>3. HeapKeeps
    BY <1>2, WritersAreIdempotent DEF Idempotent, HeapKeeps, Kept
  <1>4. OfKey(key)'
    BY <1>1, <1>2, <1>3 DEF HeapKeeps, Kept, V, OfKey
  <1>5. CASE ScaleStore(t)
    <2>1. pc[t] = "scStore" /\ loc' = [loc EXCEPT ![t] = g]
      BY <1>1, <1>5 DEF ScaleStore
    <2>2. WorkOK(l.ret, g, r) /\ g.cur = l.cur
      BY <1>1, <2>1 DEF Frames, FrameOK, WorkOK, Multiplying, Adding,
         InPrecompute, InScale
    <2> QED BY <1>2, <1>3, <1>4, <2>1, <2>2, StoredWork
  <1>6. CASE PrecomputeStore(t)
    <2>1. pc[t] = "mpBuild" /\ loc' = [loc EXCEPT ![t] = h]
      BY <1>6 DEF PrecomputeStore
    <2>2. WorkOK(l.ret, h, r) /\ h.cur = l.cur
      BY <1>1, <2>1 DEF Frames, FrameOK, WorkOK, Multiplying, Adding,
         InPrecompute, InScale
    <2> QED BY <1>2, <1>3, <1>4, <2>1, <2>2, StoredWork
  <1> QED BY <1>5, <1>6

LEMMA AllocateKeeps ==
  ASSUME IInv, NEW o \in Objects, NEW c, NEW g, NEW n, NEW tbl,
         Allocate(o, c, g, n, tbl)
  PROVE  HeapKeeps /\ coords'[o] = c /\ order'[o] = n
  BY DEF Allocate, HeapKeeps, Kept, IInv, TypeOK

LEMMA CopyMakeWork ==
  ASSUME IInv, WorkInv, NEW t \in Threads, CopyMake(t) PROVE WorkInv'
  <1> DEFINE l == loc[t]
             r == req[t]
             f == [l EXCEPT !.out = l.snap.v, !.list = <<>>]
  <1>1. /\ l \in Frames /\ r \in Requests
        /\ FrameOK(pc[t], l, r) /\ WorkOK(pc[t], l, r)
        /\ OfKey(key) /\ {key, Q} \subseteq live /\ live \subseteq Objects
    BY WorkFacts
  <1>2. /\ pc[t] = "copyMake" /\ pc' = [pc EXCEPT ![t] = "return"]
        /\ loc' = [loc EXCEPT ![t] = f] /\ key' = key /\ req' = req
    BY DEF CopyMake, Goto
  <1>3. PICK o \in Objects : Allocate(o, l.snap, gen[l.cur], order[l.cur], l.list)
    BY DEF CopyMake
  <1>4. HeapKeeps
    BY <1>3, AllocateKeeps
  <1>5. OfKey(key)'
    BY <1>1, <1>2, <1>4 DEF HeapKeeps, Kept, V, OfKey
  <1>6. r.kind = "pickle" /\ l.snap.v = V(r.obj)
    BY <1>1, <1>2 DEF FrameOK, WorkOK, V
  <1>7. Answer(r, Values) = V(r.obj)
    BY <1>1, <1>6 DEF Answer, Values, Requests
  <1>8. WorkOK("return", f, r) /\ f.cur = l.cur
    BY <1>1, <1>2, <1>6, <1>7 DEF Frames, WorkOK, Multiplying, Adding,
       InPrecompute, InScale
  <1> QED BY <1>2, <1>4, <1>5, <1>8, StoredWork

LEMMA PreStoreWork ==
  ASSUME IInv, WorkInv, NEW t \in Threads, PreStore(t) PROVE WorkInv'
  <1> DEFINE l == loc[t]
             r == req[t]
             label == IF r.kind = "precompute_lazy" THEN "return" ELSE "preMul"
             c == [v |-> l.out, scaled |-> TRUE]
             n == order[l.cur]
  <1>1. WorkOK(pc[t], l, r) /\ Q \in live
    BY WorkFacts
  <1>2. /\ pc[t] = "preStore" /\ pc' = [pc EXCEPT ![t] = label]
        /\ req' = req /\ loc' = loc
    BY DEF PreStore, Goto
  <1>3. PICK o \in Objects : Allocate(o, c, TRUE, n, <<>>) /\ key' = o
    BY DEF PreStore
  <1>4. HeapKeeps /\ coords'[o] = c /\ order'[o] = n
    <2> HIDE DEF c, n
    <2> QED BY <1>3, AllocateKeeps
  <1>5. OfKey(key)'
    BY <1>1, <1>2, <1>3, <1>4 DEF V, WorkOK, OfKey, HeapKeeps, Kept
  <1>6. WorkOK(label, l, r)
    BY <1>1, <1>2 DEF WorkOK, Multiplying, Adding, InPrecompute, InScale, Precomputes
  <1>7. loc' = [loc EXCEPT ![t] = l]
    BY <1>2 DEF IInv, TypeOK
  <1> QED BY <1>2, <1>4, <1>5, <1>6, <1>7, StoredWork

----------------------------------------------------------------------------
(* Calls begin with nothing computed, and end with nothing kept.           *)

LEMMA BeginWork ==
  ASSUME IInv, WorkInv, NEW t \in Threads, NEW r, NEW label, NEW ret,
         Begin(t, r, label, ret),
         WorkOK(label, NewFrame(r.obj, r.k, ret, "return"), r)
  PROVE  WorkInv'
  <1>1. /\ pc' = [pc EXCEPT ![t] = label]
        /\ loc' = [loc EXCEPT ![t] = NewFrame(r.obj, r.k, ret, "return")]
        /\ req' = [req EXCEPT ![t] = r]
        /\ UNCHANGED heap
    BY DEF Begin, Goto
  <1> QED BY <1>1, ThreadWork

LEMMA CallsWork ==
  ASSUME IInv, WorkInv, NEW t \in Threads, Calls(t) PROVE WorkInv'
  <1>1. /\ G \in live /\ key \in live /\ live \subseteq Objects /\ OfKey(key)
    BY WorkFacts DEF IInv, TypeOK
  <1>2. \A kind, o, k, o2, k2 :
          LET r == CallOf(kind, o, k, o2, k2) IN
          /\ r.kind = kind /\ r.obj = o /\ r.k = k /\ r.other = o2 /\ r.k2 = k2
          /\ kind # "none" => r # NoCall
    BY DEF CallOf, NoCall
  <1>3. CASE CallMul(t)
    <2>1. PICK o \in live, k \in Scalars :
            Begin(t, CallOf("mul", o, k, o, 0), "mul", "mulChoose")
      BY <1>3 DEF CallMul
    <2> DEFINE r == CallOf("mul", o, k, o, 0)
    <2>2. r.kind = "mul" /\ r.obj = o /\ r.k = k /\ r # NoCall
      BY <1>2
    <2> HIDE DEF r
    <2>3. Answer(r, Values) = Times(k, V(o))
      BY <1>1, <2>2 DEF Answer, Values
    <2>4. WorkOK("mul", NewFrame(r.obj, r.k, "mulChoose", "return"), r)
      BY <2>2, <2>3 DEF NewFrame, WorkOK, Owed, Named, Multiplying, Adding,
         InPrecompute, InScale, Precomputes
    <2> QED BY <2>1, <2>4, BeginWork DEF r
  <1>4. CASE CallMulAdd(t)
    <2>1. PICK k, k2 \in Scalars :
            Begin(t, CallOf("mul_add", G, k, key, k2), "maTest", "maOther")
      BY <1>4 DEF CallMulAdd
    <2> DEFINE r == CallOf("mul_add", G, k, key, k2)
    <2>2. r.kind = "mul_add" /\ r # NoCall
      BY <1>2
    <2> HIDE DEF r
    <2>3. WorkOK("maTest", NewFrame(r.obj, r.k, "maOther", "return"), r)
      BY <2>2 DEF NewFrame, WorkOK, Multiplying, Adding, InPrecompute, InScale,
         Precomputes
    <2> QED BY <2>1, <2>3, BeginWork DEF r
  <1>5. CASE CallToAffine(t)
    <2>1. PICK o \in live :
            Begin(t, CallOf("to_affine", o, 0, o, 0), "affZ", "affRead")
      BY <1>5 DEF CallToAffine
    <2> DEFINE r == CallOf("to_affine", o, 0, o, 0)
    <2>2. r.kind = "to_affine" /\ r # NoCall
      BY <1>2
    <2> HIDE DEF r
    <2>3. WorkOK("affZ", NewFrame(r.obj, r.k, "affRead", "return"), r)
      BY <2>2 DEF NewFrame, WorkOK, Multiplying, Adding, InPrecompute, InScale,
         Precomputes
    <2> QED BY <2>1, <2>3, BeginWork DEF r
  <1>6. CASE CallXY(t)
    <2>1. PICK o \in live : Begin(t, CallOf("xy", o, 0, o, 0), "getX", "return")
      BY <1>6 DEF CallXY
    <2> DEFINE r == CallOf("xy", o, 0, o, 0)
    <2>2. r.kind = "xy" /\ r # NoCall
      BY <1>2
    <2> HIDE DEF r
    <2>3. WorkOK("getX", NewFrame(r.obj, r.k, "return", "return"), r)
      BY <2>2 DEF NewFrame, WorkOK, Multiplying, Adding, InPrecompute, InScale,
         Precomputes
    <2> QED BY <2>1, <2>3, BeginWork DEF r
  <1>7. CASE CallEq(t)
    <2>1. PICK o \in live, o2 \in live :
            Begin(t, CallOf("eq", o, 0, o2, 0), "eqSelf", "return")
      BY <1>7 DEF CallEq
    <2> DEFINE r == CallOf("eq", o, 0, o2, 0)
    <2>2. r.kind = "eq" /\ r # NoCall
      BY <1>2
    <2> HIDE DEF r
    <2>3. WorkOK("eqSelf", NewFrame(r.obj, r.k, "return", "return"), r)
      BY <2>2 DEF NewFrame, WorkOK, Multiplying, Adding, InPrecompute, InScale,
         Precomputes
    <2> QED BY <2>1, <2>3, BeginWork DEF r
  <1>8. CASE CallPrecompute(t)
    <2>1. PICK kind \in Precomputes :
            Begin(t, CallOf(kind, key, 0, key, 0), "preKey", "preStore")
      BY <1>8 DEF CallPrecompute, Precomputes
    <2> DEFINE r == CallOf(kind, key, 0, key, 0)
    <2>2. r.kind \in Precomputes /\ r # NoCall /\ r.obj = key
      BY <1>2 DEF Precomputes
    <2> HIDE DEF r
    <2>3. WorkOK("preKey", NewFrame(r.obj, r.k, "preStore", "return"), r)
      BY <1>1, <2>2 DEF NewFrame, WorkOK, Multiplying, Adding, InPrecompute, InScale
    <2> QED BY <2>1, <2>3, BeginWork DEF r
  <1>9. CASE CallPickle(t)
    <2>1. PICK o \in live :
            Begin(t, CallOf("pickle", o, 0, o, 0), "copy", "return")
      BY <1>9 DEF CallPickle
    <2> DEFINE r == CallOf("pickle", o, 0, o, 0)
    <2>2. r.kind = "pickle" /\ r # NoCall
      BY <1>2
    <2> HIDE DEF r
    <2>3. WorkOK("copy", NewFrame(r.obj, r.k, "return", "return"), r)
      BY <2>2 DEF NewFrame, WorkOK, Multiplying, Adding, InPrecompute, InScale,
         Precomputes
    <2> QED BY <2>1, <2>3, BeginWork DEF r
  <1> QED
    BY <1>3, <1>4, <1>5, <1>6, <1>7, <1>8, <1>9 DEF Calls

LEMMA IdleWork == WorkOK("idle", IdleFrame, NoCall)
  BY DEF WorkOK, Multiplying, Adding, InPrecompute, InScale, Precomputes, NoCall, CallOf

LEMMA EndWork ==
  ASSUME IInv, WorkInv, NEW t \in Threads, Return(t) \/ Interrupt(t) \/ AssertOrder(t)
  PROVE  WorkInv'
  <1>1. PICK answer : End(t, answer)
    BY DEF Return, Interrupt, AssertOrder
  <1>2. /\ pc' = [pc EXCEPT ![t] = "idle"]
        /\ loc' = [loc EXCEPT ![t] = IdleFrame]
        /\ req' = [req EXCEPT ![t] = NoCall]
        /\ UNCHANGED heap
    BY <1>1 DEF End, Goto
  <1> QED BY <1>2, IdleWork, ThreadWork

LEMMA NextWork == AInv /\ [Next]_vars => AInv'
  <1> SUFFICES ASSUME IInv, WorkInv, [Next]_vars PROVE AInv'
    BY DEF AInv
  <1>1. IInv'
    BY NextInvariant
  <1>2. CASE UNCHANGED vars
    BY <1>1, <1>2 DEF vars, AInv, WorkInv, WorkOK, OfKey, Named, RoundOK, Owed, Values, V
  <1>3. CASE Next
    <2>1. PICK t \in Threads : Calls(t) \/ Step(t) \/ Interrupt(t)
      BY <1>3 DEF Next
    <2>2. CASE Calls(t) \/ Interrupt(t) \/ Return(t) \/ AssertOrder(t)
      BY <2>2, CallsWork, EndWork, <1>1 DEF AInv
    <2>3. CASE \/ ScaleRead(t) \/ ScaleStore(t) \/ MaybePrecompute(t)
               \/ PrecomputeRead(t) \/ PrecomputeDouble(t) \/ PrecomputeStore(t)
      BY <2>3, ScaleReadWork, MaybePrecomputeWork, PrecomputeWork, StoreWork,
         <1>1 DEF AInv
    <2>4. CASE \/ MulEnter(t) \/ MulChoose(t) \/ MulTable(t) \/ MulRound(t)
               \/ MulTableEnd(t) \/ MulLoop(t)
      BY <2>4, MulEnterWork, MulChooseWork, MulTableWork, MulRoundWork,
         MulTableEndWork, MulLoopWork, <1>1 DEF AInv
    <2>5. CASE \/ ToAffine(t) \/ ToAffineRead(t) \/ GetX(t) \/ GetY(t)
               \/ EqSelf(t) \/ EqOther(t)
      BY <2>5, AffineWork, CoordinatesWork, EqWork, <1>1 DEF AInv
    <2>6. CASE \/ CopyCoords(t) \/ CopyTable(t) \/ CopyMake(t)
               \/ PreKey(t) \/ PreStore(t) \/ PreMul(t)
      BY <2>6, CopyWork, CopyMakeWork, KeyWork, PreStoreWork, <1>1 DEF AInv
    <2>7. CASE \/ MulAddEnter(t) \/ MulAddOther(t)
               \/ MulAddBothSelf(t) \/ MulAddBothOther(t)
               \/ MulAddReadSelf(t) \/ MulAddReadOther(t)
               \/ MulAddMulSelf(t) \/ MulAddMulOther(t) \/ MulAddSum(t)
      BY <2>7, MulAddEnterWork, MulAddBothWork, MulAddReadWork, MulAddSumWork,
         <1>1 DEF AInv
    <2> QED BY <2>1, <2>2, <2>3, <2>4, <2>5, <2>6, <2>7 DEF Step
  <1> QED BY <1>2, <1>3

LEMMA InitWork == Init => AInv
  <1> SUFFICES ASSUME Init PROVE AInv
    OBVIOUS
  <1>1. OfKey(key)
    BY ObjectsAssumption DEF Init, V, OfKey
  <1>2. ASSUME NEW t \in Threads PROVE WorkOK(pc[t], loc[t], req[t])
    BY IdleWork DEF Init
  <1> QED BY <1>1, <1>2, InitInvariant DEF AInv, WorkInv

(* What every thread has computed so far is right in every reachable state.*)
THEOREM AnswersInvariant == Spec => []AInv
  BY InitWork, NextWork, PTL DEF Spec

(* Every call returns what its values ask for, whichever representations,  *)
(* tables and objects it meets and however the threads interleave: with a  *)
(* table or by double-and-add, __mul__ computes the product, mul_add() the *)
(* sum of two products, and to_affine(), x(), y(), == and copies the value.*)
THEOREM AnswersAreCorrect == Spec => []AnswersCorrect
  <1>1. AInv => AnswersCorrect
    BY DEF AInv, WorkInv, WorkOK, AnswersCorrect, Precomputes, Values, V
  <1> QED BY AnswersInvariant, <1>1, PTL

----------------------------------------------------------------------------
(* SharedPoint implements ImmutablePoint, its safety: every step is one of *)
(* the abstract steps or changes nothing a caller sees.                    *)

AbsVal == [o \in Objects |-> IF o \in live THEN coords[o].v ELSE Nothing]

(* The definitions that ImmutablePoint and SharedPoint share.              *)
LEMMA AbsNames ==
  /\ Abs!Nothing = Nothing /\ Abs!Interrupted = Interrupted /\ Abs!Failed = Failed
  /\ Abs!CallKinds = CallKinds /\ Abs!Allocators = Allocators
  /\ Abs!Multipliers = Multipliers /\ Abs!NoCall = NoCall
  /\ \A kind, o, k, o2, k2 : Abs!CallOf(kind, o, k, o2, k2) = CallOf(kind, o, k, o2, k2)
  BY DEF Abs!Nothing, Nothing, Abs!Interrupted, Interrupted, Abs!Failed, Failed,
     Abs!CallKinds, CallKinds, Abs!Allocators, Allocators, Abs!Multipliers, Multipliers, Abs!NoCall, NoCall,
     Abs!CallOf, CallOf

LEMMA AbsAnswer == ASSUME NEW r, NEW a PROVE Abs!Answer(r, a) = Answer(r, a)
  <1>1. /\ \A k, v : Abs!Times(k, v) = Times(k, v)
        /\ \A v, w : Abs!Plus(v, w) = Plus(v, w)
        /\ Abs!Done = Done
    BY DEF Abs!Times, Times, Abs!Plus, Plus, Abs!Garbage, Garbage, Abs!Done, Done
  <1> QED BY <1>1 DEF Abs!Answer, Answer

LEMMA AbsValues ==
  ASSUME IInv
  PROVE  /\ \A o \in live : AbsVal[o] = V(o) /\ AbsVal[o] # Nothing
         /\ \A o \in Objects : AbsVal[o] # Nothing => o \in live
         /\ Abs!Existing = live
  <1>1. live \subseteq Objects /\ \A o \in live : coords[o].v \in 1 .. Order - 1
    BY DEF IInv, TypeOK, Coords
  <1>2. /\ \A o \in live : AbsVal[o] = V(o) /\ AbsVal[o] # Nothing
        /\ \A o \in Objects : AbsVal[o] # Nothing => o \in live
    BY <1>1, OrderAssumption DEF AbsVal, V, Nothing
  <1>3. Abs!Existing = {o \in Objects : AbsVal[o] # Nothing}
    BY AbsNames DEF Abs!Existing, AbsVal
  <1> QED BY <1>1, <1>2, <1>3

LEMMA HiddenStep ==
  ASSUME IInv, HeapKeeps, live' = live, gen' = gen, order' = order,
         req' = req, res' = res
  PROVE  UNCHANGED Abs!avars
  <1>1. AbsVal' = AbsVal
    BY DEF HeapKeeps, Kept, AbsVal
  <1> QED BY <1>1 DEF Abs!avars, AbsVal

LEMMA SameAbsVal ==
  ASSUME UNCHANGED heap PROVE AbsVal' = AbsVal /\ order' = order /\ gen' = gen
  BY DEF heap, AbsVal

LEMMA CallRefines ==
  ASSUME AInv, NEW t \in Threads, Calls(t) PROVE Abs!Invoke(t)
  <1>1. /\ {G, key} \subseteq live /\ V(key) = QValue /\ IInv /\ WorkInv
        /\ AbsVal[key] = QValue /\ Abs!Existing = live
    BY WorkFacts, AbsValues DEF AInv, IInv, TypeOK, OfKey
  <1>2. Scalars \subseteq Multipliers /\ 0 \in Multipliers
    BY DEF Multipliers
  <1>3. PICK kind \in CallKinds, o \in live, o2 \in live, k \in Multipliers,
             k2 \in Multipliers :
          /\ kind = "mul_add" => o = G /\ o2 = key
          /\ \E label, ret : Begin(t, CallOf(kind, o, k, o2, k2), label, ret)
    <2>1. {"mul", "mul_add", "to_affine", "xy", "eq", "precompute",
           "precompute_lazy", "pickle"} \subseteq CallKinds
      BY DEF CallKinds, Allocators
    <2> QED BY <1>1, <1>2, <2>1 DEF Calls, CallMul, CallMulAdd, CallToAffine, CallXY,
               CallEq, CallPrecompute, CallPickle
  <1>4. /\ pc[t] = "idle" /\ UNCHANGED heap
        /\ req' = [req EXCEPT ![t] = CallOf(kind, o, k, o2, k2)]
        /\ res' = [res EXCEPT ![t] = Nothing]
    BY <1>3 DEF Begin
  <1>5. req[t] = NoCall
    BY <1>1, <1>4 DEF WorkInv, WorkOK
  <1>6. AbsVal' = AbsVal /\ order' = order /\ gen' = gen
    BY <1>4, SameAbsVal
  <1>7. kind = "mul_add" => o = G /\ AbsVal[o2] = QValue
    BY <1>1, <1>3
  <1> QED BY <1>1, <1>4, <1>5, <1>6, <1>7, AbsNames DEF Abs!Invoke, AbsVal

LEMMA EndRefines ==
  ASSUME AInv, NEW t \in Threads, Return(t) \/ Interrupt(t) \/ AssertOrder(t)
  PROVE  Abs!Respond(t) \/ Abs!Abort(t) \/ Abs!Fail(t)
  <1> DEFINE r == req[t]
  <1>1. /\ IInv /\ WorkInv /\ WorkOK(pc[t], loc[t], r) /\ FrameOK(pc[t], loc[t], r)
        /\ r \in Requests
    BY WorkFacts DEF AInv
  <1>2. /\ pc[t] # "idle" /\ UNCHANGED heap /\ req' = [req EXCEPT ![t] = NoCall]
    BY DEF Return, Interrupt, AssertOrder, End
  <1>3. r # NoCall /\ {r.obj, r.other} \subseteq live
    BY <1>1, <1>2 DEF WorkOK, FrameOK
  <1>4. AbsVal' = AbsVal /\ order' = order /\ gen' = gen
    BY <1>2, SameAbsVal
  <1>5. CASE Return(t)
    <2>1. /\ pc[t] = "return"
          /\ res' = [res EXCEPT ![t] = IF r.kind \in Precomputes THEN Done
                                       ELSE loc[t].out]
      BY <1>5 DEF Return, End, Precomputes
    <2>2. Answer(r, Values) = Answer(r, AbsVal)
      <3>1. /\ Values[r.obj] = AbsVal[r.obj] /\ Values[r.other] = AbsVal[r.other]
        BY <1>1, <1>3, AbsValues, ThreadFacts DEF Values
      <3> QED BY <3>1, AnswerFrom
    <2>3. r.kind \in Precomputes => Answer(r, AbsVal) = Done
      BY DEF Answer, Precomputes
    <2>4. res' = [res EXCEPT ![t] = Answer(r, AbsVal)]
      BY <1>1, <2>1, <2>2, <2>3 DEF WorkOK
    <2> QED BY <1>2, <1>3, <1>4, <2>4, AbsNames, AbsAnswer DEF Abs!Respond, Abs!Finish, AbsVal
  <1>6. CASE Interrupt(t)
    <2>1. res' = [res EXCEPT ![t] = Interrupted]
      BY <1>6 DEF Interrupt, End
    <2> QED BY <1>2, <1>3, <1>4, <2>1, AbsNames DEF Abs!Abort, Abs!Finish, AbsVal
  <1>7. CASE AssertOrder(t)
    <2>1. /\ pc[t] = "mpRead" /\ order[loc[t].cur] = 0
          /\ res' = [res EXCEPT ![t] = Failed]
      BY <1>7 DEF AssertOrder, End
    <2>2. gen[loc[t].cur] /\ Named(loc[t].cur, r)
      BY <1>1, <2>1 DEF FrameOK, WorkOK, InPrecompute
    <2> QED BY <1>2, <1>3, <1>4, <2>1, <2>2, AbsNames DEF Named, Abs!Fail, Abs!Finish, AbsVal
  <1> QED BY <1>5, <1>6, <1>7

LEMMA AllocateRefines ==
  ASSUME AInv, NEW t \in Threads, NEW o \in Objects, NEW c, NEW g, NEW n, NEW tbl,
         Allocate(o, c, g, n, tbl), req[t].kind \in Allocators, req[t].obj \in live,
         c.v = V(req[t].obj), n = order[req[t].obj],
         g = (req[t].kind = "pickle" => gen[req[t].obj]), req' = req, res' = res
  PROVE  Abs!Create(t)
  <1>1. /\ IInv /\ live \subseteq Objects /\ coords \in [Objects -> Coords]
        /\ AbsVal[req[t].obj] = V(req[t].obj) /\ Abs!Existing = live
    BY AbsValues DEF AInv, IInv, TypeOK
  <1>2. /\ o \in Objects \ live /\ live' = live \cup {o}
        /\ coords' = [coords EXCEPT ![o] = c]
        /\ gen' = [gen EXCEPT ![o] = g] /\ order' = [order EXCEPT ![o] = n]
    BY DEF Allocate
  <1>3. AbsVal' = [AbsVal EXCEPT ![o] = c.v]
    BY <1>1, <1>2 DEF AbsVal
  <1>4. AbsVal' = [AbsVal EXCEPT ![o] = AbsVal[req[t].obj]]
    BY <1>1, <1>3
  <1> QED BY <1>1, <1>2, <1>4, AbsNames DEF Abs!Create, AbsVal

LEMMA CopyRefines ==
  ASSUME AInv, NEW t \in Threads, CopyMake(t) \/ PreStore(t) PROVE Abs!Create(t)
  <1> DEFINE l == loc[t]
             r == req[t]
  <1>1. WorkOK(pc[t], l, r) /\ FrameOK(pc[t], l, r)
    BY WorkFacts DEF AInv
  <1>2. CASE CopyMake(t)
    <2>1. PICK o \in Objects : Allocate(o, l.snap, gen[l.cur], order[l.cur], l.list)
      BY <1>2 DEF CopyMake
    <2>2. pc[t] = "copyMake" /\ req' = req /\ res' = res
      BY <1>2 DEF CopyMake
    <2>3. /\ r.kind = "pickle" /\ r.obj \in live /\ l.snap.v = V(r.obj)
          /\ l.cur = r.obj /\ gen[r.obj] \in BOOLEAN
      BY <1>1, <2>2, ThreadFacts DEF AInv, FrameOK, WorkOK, V
    <2>4. gen[l.cur] = (r.kind = "pickle" => gen[r.obj])
      BY <2>3
    <2> QED BY <2>1, <2>2, <2>3, <2>4, AllocateRefines DEF Allocators
  <1>3. CASE PreStore(t)
    <2> DEFINE c == [v |-> l.out, scaled |-> TRUE]
    <2>1. PICK o \in Objects : Allocate(o, c, TRUE, order[l.cur], <<>>)
      BY <1>3 DEF PreStore
    <2>2. pc[t] = "preStore" /\ req' = req /\ res' = res
      BY <1>3 DEF PreStore
    <2>3. /\ r.kind \in Precomputes /\ r.obj \in live /\ l.out = V(r.obj)
          /\ order[l.cur] = order[r.obj]
      BY <1>1, <2>2 DEF FrameOK, WorkOK, OfKey
    <2>4. /\ r.kind \in Allocators /\ c.v = V(r.obj)
          /\ TRUE = (r.kind = "pickle" => gen[r.obj])
      BY <2>3 DEF Precomputes, Allocators
    <2> QED BY <2>1, <2>2, <2>3, <2>4, AllocateRefines
  <1> QED BY <1>2, <1>3

LEMMA OtherStepsHidden ==
  ASSUME AInv, NEW t \in Threads, Step(t),
         ~ (Return(t) \/ AssertOrder(t) \/ CopyMake(t) \/ PreStore(t))
  PROVE  UNCHANGED Abs!avars
  <1>1. IInv
    BY DEF AInv
  <1>2. CASE ScaleStore(t) \/ PrecomputeStore(t)
    <2>1. /\ live' = live /\ gen' = gen /\ order' = order
          /\ req' = req /\ res' = res
      BY <1>2 DEF ScaleStore, PrecomputeStore
    <2>2. HeapKeeps
      BY <1>1, <1>2, <2>1, WritersAreIdempotent DEF Idempotent, HeapKeeps, Kept
    <2> QED BY <1>1, <2>1, <2>2, HiddenStep
  <1>3. CASE ~ (ScaleStore(t) \/ PrecomputeStore(t))
    <2>1. UNCHANGED heap
      BY <1>3, ReadersLeaveHeap DEF Step
    <2>2. HeapKeeps /\ live' = live /\ gen' = gen /\ order' = order
      BY <2>1, SameHeap DEF heap
    <2>3. req' = req /\ res' = res
      <3>1. CASE \/ ScaleRead(t) \/ MaybePrecompute(t) \/ PrecomputeRead(t)
                 \/ PrecomputeDouble(t) \/ MulEnter(t) \/ MulChoose(t)
                 \/ MulTable(t) \/ MulRound(t) \/ MulTableEnd(t) \/ MulLoop(t)
        BY <3>1 DEF ScaleRead, MaybePrecompute, PrecomputeRead, PrecomputeDouble,
           MulEnter, MulChoose, MulTable, MulRound, MulTableEnd, MulLoop, Jump, Local
      <3>2. CASE \/ ToAffine(t) \/ ToAffineRead(t) \/ GetX(t) \/ GetY(t)
                 \/ EqSelf(t) \/ EqOther(t) \/ CopyCoords(t) \/ CopyTable(t)
                 \/ PreKey(t) \/ PreMul(t)
        BY <3>2 DEF ToAffine, ToAffineRead, GetX, GetY, EqSelf, EqOther, CopyCoords,
           CopyTable, PreKey, PreMul, Jump, Local
      <3>3. CASE \/ MulAddEnter(t) \/ MulAddOther(t)
                 \/ MulAddBothSelf(t) \/ MulAddBothOther(t)
                 \/ MulAddReadSelf(t) \/ MulAddReadOther(t)
                 \/ MulAddMulSelf(t) \/ MulAddMulOther(t) \/ MulAddSum(t)
        BY <3>3 DEF MulAddEnter, MulAddOther, MulAddBothSelf, MulAddBothOther,
           MulAddReadSelf, MulAddReadOther, MulAddMulSelf, MulAddMulOther,
           MulAddSum, ScaleSelf, Jump, Local
      <3> QED BY <1>3, <3>1, <3>2, <3>3 DEF Step
    <2> QED BY <1>1, <2>2, <2>3, HiddenStep
  <1> QED BY <1>2, <1>3

LEMMA StepRefines == AInv /\ [Next]_vars => [Abs!ANext]_(Abs!avars)
  <1> SUFFICES ASSUME AInv, [Next]_vars PROVE [Abs!ANext]_(Abs!avars)
    OBVIOUS
  <1>1. CASE UNCHANGED vars
    BY <1>1 DEF vars, Abs!avars
  <1>2. CASE Next
    <2>1. PICK t \in Threads : Calls(t) \/ Step(t) \/ Interrupt(t)
      BY <1>2 DEF Next
    <2>2. CASE Calls(t)
      BY <2>2, CallRefines DEF Abs!ANext
    <2>3. CASE Return(t) \/ Interrupt(t) \/ AssertOrder(t)
      BY <2>3, EndRefines DEF Abs!ANext
    <2>4. CASE CopyMake(t) \/ PreStore(t)
      BY <2>4, CopyRefines DEF Abs!ANext
    <2>5. CASE Step(t) /\ ~ (Return(t) \/ AssertOrder(t) \/ CopyMake(t) \/ PreStore(t))
      BY <2>5, OtherStepsHidden
    <2> QED BY <2>1, <2>2, <2>3, <2>4, <2>5
  <1> QED BY <1>1, <1>2

LEMMA InitRefines == Init => Abs!AInit
  <1> SUFFICES ASSUME Init PROVE Abs!AInit
    OBVIOUS
  <1>1. AbsVal = [o \in Objects |-> CASE o = G -> 1
                                     [] o = Q -> QValue
                                     [] OTHER -> Nothing]
    <2>1. ASSUME NEW o \in Objects
          PROVE  (IF o \in live THEN coords[o].v ELSE Nothing)
                   = CASE o = G -> 1 [] o = Q -> QValue [] OTHER -> Nothing
      <3>1. CASE o = G
        BY <3>1, ObjectsAssumption DEF Init
      <3>2. CASE o = Q
        BY <3>2, ObjectsAssumption DEF Init
      <3>3. CASE o # G /\ o # Q
        BY <3>3 DEF Init
      <3> QED BY <3>1, <3>2, <3>3
    <2> QED BY <2>1 DEF AbsVal
  <1>2. /\ req = [t \in Threads |-> NoCall] /\ res = [t \in Threads |-> Nothing]
        /\ gen = [o \in Objects |-> o = G]
        /\ \E n \in QOrders :
             order = [o \in Objects |-> CASE o = G -> Order
                                          [] o = Q -> n
                                          [] OTHER -> 0]
    BY DEF Init
  <1> QED BY <1>1, <1>2, AbsNames DEF Abs!AInit, AbsVal

(* The mutable points keep the promise of immutable values: under the      *)
(* mapping of RefinesImmutable, the state begins as the abstract one does, *)
(* and each access to a shared attribute is the beginning of a call, the   *)
(* creation of an object with the value of another, the right answer to a  *)
(* call, an interrupt, or invisible.                                       *)
THEOREM RefinesImmutableSafety == Spec => Abs!AInit /\ [][Abs!ANext]_(Abs!avars)
  BY AnswersInvariant, StepRefines, InitRefines, PTL DEF Spec

----------------------------------------------------------------------------
(* When all calls of precompute() have ended, the key has its table.       *)

(* A thread that will fill the table of the point the key now has.         *)
Filling(t) ==
    \/ pc[t] = "preMul"
    \/ pc[t] = "mul" /\ loc[t].cur = key /\ loc[t].k = 2
    \/ pc[t] \in InPrecompute /\ loc[t].cur = key

QuietInv ==
    /\ AInv
    /\ \A t \in Threads : req[t].kind # "precompute_lazy"
    /\ key # Q => gen[key]
    /\ key # Q /\ order[key] # 0 /\ table[key] = <<>> => \E t \in Threads : Filling(t)

LEMMA FillingSteps ==
  ASSUME NEW t \in Threads, Filling(t), Calls(t) \/ Step(t)
  PROVE  \/ PreMul(t) \/ MulEnter(t) \/ MaybePrecompute(t) \/ AssertOrder(t)
         \/ PrecomputeRead(t) \/ PrecomputeDouble(t) \/ PrecomputeStore(t)
  <1>1. pc[t] \in {"preMul", "mul", "mpTest", "mpRead", "mpBuild"}
    BY DEF Filling, InPrecompute
  <1>2. CASE Calls(t)
    BY <1>1, <1>2 DEF Calls, CallMul, CallMulAdd, CallToAffine, CallXY, CallEq,
       CallPrecompute, CallPickle, Begin
  <1>3. CASE Return(t) \/ ScaleRead(t) \/ ScaleStore(t)
    BY <1>1, <1>3 DEF Return, ScaleRead, ScaleStore
  <1>4. CASE \/ MulChoose(t) \/ MulTable(t) \/ MulRound(t) \/ MulTableEnd(t)
             \/ MulLoop(t)
    BY <1>1, <1>4 DEF MulChoose, MulTable, MulRound, MulTableEnd, MulLoop
  <1>5. CASE \/ ToAffine(t) \/ ToAffineRead(t) \/ GetX(t) \/ GetY(t)
             \/ EqSelf(t) \/ EqOther(t) \/ CopyCoords(t) \/ CopyTable(t)
             \/ CopyMake(t) \/ PreKey(t) \/ PreStore(t)
    BY <1>1, <1>5 DEF ToAffine, ToAffineRead, GetX, GetY, EqSelf, EqOther,
       CopyCoords, CopyTable, CopyMake, PreKey, PreStore
  <1>6. CASE \/ MulAddEnter(t) \/ MulAddOther(t)
             \/ MulAddBothSelf(t) \/ MulAddBothOther(t)
             \/ MulAddReadSelf(t) \/ MulAddReadOther(t)
             \/ MulAddMulSelf(t) \/ MulAddMulOther(t) \/ MulAddSum(t)
    BY <1>1, <1>6 DEF MulAddEnter, MulAddOther, MulAddBothSelf, MulAddBothOther,
       MulAddReadSelf, MulAddReadOther, MulAddMulSelf, MulAddMulOther, MulAddSum
  <1> QED BY <1>2, <1>3, <1>4, <1>5, <1>6 DEF Step

(* It goes on filling until the table is there.                            *)
LEMMA FillingGoesOn ==
  ASSUME IInv, NEW t \in Threads, Filling(t), Calls(t) \/ Step(t),
         gen[key], order[key] # 0, table[key] = <<>>, table'[key] = <<>>, key' = key
  PROVE  Filling(t)'
  <1> DEFINE l == loc[t]
  <1>1. /\ l \in Frames /\ pc \in [Threads -> Labels] /\ loc \in [Threads -> Frames]
        /\ key \in Objects /\ table \in [Objects -> Seq(Value)]
    BY DEF IInv, TypeOK
  <1>2. CASE PreMul(t)
    <2>1. pc'[t] = "mul" /\ loc'[t] = NewFrame(key, 2, "mulChoose", "return")
      BY <1>1, <1>2 DEF PreMul, Local, Goto
    <2> QED BY <2>1 DEF Filling, NewFrame
  <1>3. CASE MulEnter(t)
    <2>1. pc[t] = "mul" /\ l.cur = key /\ l.k = 2
      BY <1>3 DEF MulEnter, Filling, InPrecompute
    <2> DEFINE n == order[key]
               k == IF n = 0 THEN 2 ELSE 2 % (2 * n)
    <2>2. Local(t, "mpTest", [l EXCEPT !.k = k, !.ret = "mulChoose"])
      BY <1>1, <1>3, <2>1 DEF MulEnter, Frames
    <2> HIDE DEF k
    <2>3. pc'[t] = "mpTest" /\ loc'[t] = [l EXCEPT !.k = k, !.ret = "mulChoose"]
      BY <1>1, <2>2 DEF Local, Goto
    <2>4. loc'[t].cur = key
      BY <1>1, <2>1, <2>3 DEF Frames
    <2> QED BY <2>3, <2>4 DEF Filling, InPrecompute
  <1>4. CASE MaybePrecompute(t)
    <2>1. pc[t] = "mpTest" /\ l.cur = key
      BY <1>4 DEF MaybePrecompute, Filling, InPrecompute
    <2>2. pc'[t] = "mpRead" /\ loc'[t] = l
      BY <1>1, <1>4, <2>1 DEF MaybePrecompute, Jump, Local, Goto
    <2> QED BY <2>1, <2>2 DEF Filling, InPrecompute
  <1>5. CASE PrecomputeRead(t) \/ PrecomputeDouble(t)
    <2>1. l.cur = key
      BY <1>5 DEF PrecomputeRead, PrecomputeDouble, Filling, InPrecompute
    <2>2. pc'[t] = "mpBuild" /\ loc'[t].cur = key
      BY <1>1, <1>5, <2>1 DEF PrecomputeRead, PrecomputeDouble, Local, Goto, Frames
    <2> QED BY <2>2 DEF Filling, InPrecompute
  <1>6. CASE PrecomputeStore(t)
    <2>1. l.cur = key /\ Len(l.list) >= TableLen
      BY <1>6 DEF PrecomputeStore, Filling, InPrecompute
    <2>2. table'[key] = l.list
      BY <1>1, <1>6, <2>1 DEF PrecomputeStore
    <2>3. Len(<<>>) = 0
      OBVIOUS
    <2> QED BY <2>1, <2>2, <2>3, TableLenAssumption
  <1>7. ~ AssertOrder(t)
    BY DEF AssertOrder, Filling, InPrecompute
  <1> QED BY <1>2, <1>3, <1>4, <1>5, <1>6, <1>7, FillingSteps

(* What a step leaves of the key and of the other threads.                 *)
LEMMA KeyKept ==
  ASSUME IInv, NEW t \in Threads, Calls(t) \/ Step(t), ~ PreStore(t)
  PROVE  /\ key' = key /\ gen'[key] = gen[key] /\ order'[key] = order[key]
         /\ table[key] # <<>> => table'[key] # <<>>
         /\ \A u \in Threads \ {t} :
              pc'[u] = pc[u] /\ loc'[u] = loc[u] /\ req'[u] = req[u]
  <1>1. key \in live /\ live \subseteq Objects
    BY DEF IInv, TypeOK
  <1>2. CASE ScaleStore(t) \/ PrecomputeStore(t)
    <2>1. Idempotent
      BY <1>2, WritersAreIdempotent
    <2> QED BY <1>1, <1>2, <2>1 DEF ScaleStore, PrecomputeStore, Goto, Idempotent,
               IInv, TypeOK
  <1>3. CASE CopyMake(t)
    <2>1. PICK o \in Objects :
              Allocate(o, loc[t].snap, gen[loc[t].cur], order[loc[t].cur], loc[t].list)
      BY <1>3 DEF CopyMake
    <2>2. /\ gen'[key] = gen[key] /\ order'[key] = order[key]
          /\ table'[key] = table[key]
      BY <1>1, <2>1 DEF Allocate, IInv, TypeOK
    <2> QED BY <1>3, <2>2 DEF CopyMake, Goto, IInv, TypeOK
  <1>4. CASE ~ (ScaleStore(t) \/ PrecomputeStore(t) \/ CopyMake(t))
    <2>1. UNCHANGED heap
      BY <1>4, ReadersLeaveHeap DEF Step
    <2>2. \A u \in Threads \ {t} :
            pc'[u] = pc[u] /\ loc'[u] = loc[u] /\ req'[u] = req[u]
      <3> DEFINE Others == \A u \in Threads \ {t} :
                   pc'[u] = pc[u] /\ loc'[u] = loc[u] /\ req'[u] = req[u]
      <3>1. ASSUME NEW label, NEW f, Local(t, label, f) PROVE Others
        BY <3>1 DEF Local, Goto, IInv, TypeOK
      <3>2. ASSUME NEW r, NEW label, NEW ret, Begin(t, r, label, ret) PROVE Others
        BY <3>2 DEF Begin, Goto, IInv, TypeOK
      <3>3. ASSUME NEW answer, End(t, answer) PROVE Others
        BY <3>3 DEF End, Goto, IInv, TypeOK
      <3> SUFFICES Others
        OBVIOUS
      <3> HIDE DEF Others
      <3>4. CASE Calls(t) \/ Return(t) \/ AssertOrder(t)
        BY <3>2, <3>3, <3>4 DEF Calls, CallMul, CallMulAdd, CallToAffine, CallXY,
           CallEq, CallPrecompute, CallPickle, Return, AssertOrder
      <3>5. CASE \/ ScaleRead(t) \/ MaybePrecompute(t) \/ PrecomputeRead(t)
                 \/ PrecomputeDouble(t)
        BY <3>1, <3>5 DEF ScaleRead, MaybePrecompute, PrecomputeRead,
           PrecomputeDouble, Jump
      <3>6. CASE \/ MulChoose(t) \/ MulTable(t) \/ MulRound(t)
                 \/ MulTableEnd(t) \/ MulLoop(t)
        BY <3>1, <3>6 DEF MulChoose, MulTable, MulRound, MulTableEnd, MulLoop, Jump
      <3>7. CASE MulEnter(t)
        BY <3>1, <3>7 DEF MulEnter
      <3>8. CASE \/ ToAffine(t) \/ ToAffineRead(t) \/ GetX(t) \/ GetY(t)
                 \/ EqSelf(t) \/ EqOther(t) \/ CopyCoords(t) \/ CopyTable(t)
                 \/ PreKey(t) \/ PreMul(t)
        BY <3>1, <3>8 DEF ToAffine, ToAffineRead, GetX, GetY, EqSelf, EqOther,
           CopyCoords, CopyTable, PreKey, PreMul, Jump
      <3>9. CASE MulAddEnter(t)
        BY <3>1, <3>9 DEF MulAddEnter, Jump
      <3>10. CASE \/ MulAddOther(t)
                  \/ MulAddBothSelf(t) \/ MulAddBothOther(t)
                  \/ MulAddReadSelf(t) \/ MulAddReadOther(t)
                  \/ MulAddMulSelf(t) \/ MulAddMulOther(t) \/ MulAddSum(t)
        BY <3>1, <3>10 DEF MulAddOther, MulAddBothSelf, MulAddBothOther,
           MulAddReadSelf, MulAddReadOther, MulAddMulSelf, MulAddMulOther,
           MulAddSum, ScaleSelf, Jump
      <3> QED BY <1>4, <3>4, <3>5, <3>6, <3>7, <3>8, <3>9, <3>10 DEF Step
    <2> QED BY <2>1, <2>2 DEF heap
  <1> QED BY <1>2, <1>3, <1>4

LEMMA QuietStep ==
  ASSUME Kinds \cap {"precompute_lazy", "interrupt"} = {}, QuietInv, [Next]_vars
  PROVE  QuietInv'
  <1>1. AInv' /\ IInv /\ WorkInv /\ IInv'
    BY NextWork DEF QuietInv, AInv
  <1>2. CASE UNCHANGED vars
    BY <1>1, <1>2 DEF vars, QuietInv, Filling
  <1>3. CASE Next
    <2>1. PICK t \in Threads : Calls(t) \/ Step(t)
      BY <1>3 DEF Next, Interrupt
    <2>2. \A u \in Threads : req'[u].kind # "precompute_lazy"
      <3>1. req' = req \/ req' = [req EXCEPT ![t] = NoCall]
              \/ \E r : r.kind \in Kinds /\ req' = [req EXCEPT ![t] = r]
        <4>1. CASE Calls(t)
          BY <4>1 DEF Calls, CallMul, CallMulAdd, CallToAffine, CallXY, CallEq,
             CallPrecompute, CallPickle, Begin
        <4>2. CASE Step(t) /\ (Return(t) \/ AssertOrder(t))
          BY <4>2 DEF Return, AssertOrder, End
        <4>3. CASE Step(t) /\ (CopyMake(t) \/ PreStore(t))
          BY <4>3 DEF CopyMake, PreStore
        <4>4. CASE Step(t) /\ ~ (Return(t) \/ AssertOrder(t) \/ CopyMake(t) \/ PreStore(t))
          BY <4>4, OtherStepsHidden DEF QuietInv, Abs!avars
        <4> QED BY <2>1, <4>1, <4>2, <4>3, <4>4
      <3>2. NoCall.kind # "precompute_lazy"
        BY DEF NoCall, CallOf
      <3> QED BY <3>1, <3>2 DEF QuietInv, AInv, IInv, TypeOK
    <2>3. CASE PreStore(t)
      <3>1. pc[t] = "preStore" /\ WorkOK(pc[t], loc[t], req[t])
        BY <1>1, <2>3, WorkFacts DEF PreStore
      <3>2. req[t].kind = "precompute"
        BY <3>1 DEF WorkOK, Precomputes, QuietInv
      <3>3. pc'[t] = "preMul"
        BY <1>1, <2>3, <3>2 DEF PreStore, Goto, IInv, TypeOK
      <3>4. gen'[key']
        BY <1>1, <2>3 DEF PreStore, Allocate, IInv, TypeOK
      <3> QED BY <1>1, <2>2, <3>3, <3>4 DEF QuietInv, Filling
    <2>4. CASE ~ PreStore(t)
      <3>1. /\ key' = key /\ gen'[key] = gen[key] /\ order'[key] = order[key]
            /\ table[key] # <<>> => table'[key] # <<>>
            /\ \A u \in Threads \ {t} :
                 pc'[u] = pc[u] /\ loc'[u] = loc[u] /\ req'[u] = req[u]
        BY <1>1, <2>1, <2>4, KeyKept
      <3>2. ASSUME key # Q, order[key] # 0, table'[key] = <<>>
            PROVE  \E u \in Threads : Filling(u)'
        <4>1. PICK u \in Threads : Filling(u)
          BY <3>1, <3>2 DEF QuietInv
        <4>2. CASE u = t
          BY <1>1, <2>1, <3>1, <3>2, <4>1, <4>2, FillingGoesOn DEF QuietInv
        <4>3. CASE u # t
          BY <3>1, <4>1, <4>3 DEF Filling
        <4> QED BY <4>2, <4>3
      <3> QED BY <1>1, <2>2, <3>1, <3>2 DEF QuietInv
    <2> QED BY <2>3, <2>4
  <1> QED BY <1>2, <1>3

LEMMA InitQuiet == Init => QuietInv
  <1> SUFFICES ASSUME Init PROVE QuietInv
    OBVIOUS
  <1>1. key = Q /\ \A t \in Threads : req[t].kind # "precompute_lazy"
    BY DEF Init, NoCall, CallOf
  <1> QED BY <1>1, InitWork DEF QuietInv

(* However the calls of precompute() overlap, with each other and with the *)
(* calls that use the key: when all have ended, the point that the key is  *)
(* left with has its table, if the point of the key knew its order when    *)
(* the key was made, and has none, if it did not, as with keys that were   *)
(* loaded: each precompute() of those fails.  That is so where no call is  *)
(* lazy and none is interrupted, as each of the two is allowed to leave    *)
(* the table unmade.                                                       *)
THEOREM KeyPrecomputedWhenQuiet ==
  ASSUME Kinds \cap {"precompute_lazy", "interrupt"} = {}
  PROVE  Spec => []PrecomputedWhenQuiet
  <1>1. QuietInv => PrecomputedWhenQuiet
    BY DEF QuietInv, AInv, IInv, TypeOK, TablesOrdered, PrecomputedWhenQuiet, Quiet,
           Filling, InPrecompute
  <1>2. QuietInv /\ [Next]_vars => QuietInv'
    BY QuietStep
  <1> QED BY InitQuiet, <1>1, <1>2, PTL DEF Spec

=============================================================================
