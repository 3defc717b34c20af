--------------------------- MODULE ImmutablePoint ---------------------------
(***************************************************************************)
(* The promise of the points to their callers: an object has one value     *)
(* from its creation on, and every call is answered from the values of the *)
(* objects it names, whatever other threads do.  A call that is            *)
(* interrupted has no answer and no effect on any other.  Nor has a        *)
(* multiplication by a point that is marked as a generator but does not    *)
(* know its order, as precompute() makes them of keys that were loaded: it *)
(* fails, and no other call does.                                          *)
(***************************************************************************)
EXTENDS PointCalls

VARIABLES val,    \* the value of each object, Nothing before it exists
          order,  \* the order it was made with, 0 for none
          gen,    \* whether it was made as a generator
          call,   \* the call each thread executes
          ans     \* the answer to the last call of each thread

avars == <<val, order, gen, call, ans>>

Existing == {o \in Objects : val[o] # Nothing}

AInit ==
    /\ val = [o \in Objects |-> CASE o = G -> 1
                                  [] o = Q -> QValue
                                  [] OTHER -> Nothing]
    /\ \E n \in QOrders :
         order = [o \in Objects |-> CASE o = G -> Order
                                      [] o = Q -> n
                                      [] OTHER -> 0]
    /\ gen = [o \in Objects |-> o = G]
    /\ call = [t \in Threads |-> NoCall]
    /\ ans = [t \in Threads |-> Nothing]

(* A verification multiplies the generator and the point of the key, which *)
(* may be any object made from it.                                         *)
Invoke(t) ==
    /\ call[t] = NoCall
    /\ \E kind \in CallKinds, o, o2 \in Existing, k, k2 \in Multipliers :
         /\ kind = "mul_add" => o = G /\ val[o2] = QValue
         /\ call' = [call EXCEPT ![t] = CallOf(kind, o, k, o2, k2)]
    /\ ans' = [ans EXCEPT ![t] = Nothing]
    /\ UNCHANGED <<val, order, gen>>

Create(t) ==
    LET r == call[t] IN
    /\ r.kind \in Allocators
    /\ \E o \in Objects \ Existing :
         /\ val' = [val EXCEPT ![o] = val[r.obj]]
         /\ order' = [order EXCEPT ![o] = order[r.obj]]
         /\ gen' = [gen EXCEPT ![o] = r.kind = "pickle" => gen[r.obj]]
    /\ UNCHANGED <<call, ans>>

Finish(t, answer) ==
    /\ call[t] # NoCall
    /\ ans' = [ans EXCEPT ![t] = answer]
    /\ call' = [call EXCEPT ![t] = NoCall]
    /\ UNCHANGED <<val, order, gen>>

Respond(t) == Finish(t, Answer(call[t], val))
Abort(t)   == Finish(t, Interrupted)

Fail(t) ==
    LET r == call[t] IN
    /\ \/ r.kind \in {"mul", "mul_add"} /\ \E o \in {r.obj, r.other} : gen[o] /\ order[o] = 0
       \/ r.kind = "precompute" /\ order[r.obj] = 0
    /\ Finish(t, Failed)

ANext == \E t \in Threads :
             Invoke(t) \/ Create(t) \/ Respond(t) \/ Abort(t) \/ Fail(t)

ASpec == /\ AInit /\ [][ANext]_avars
         /\ \A t \in Threads : WF_avars(Respond(t) \/ Abort(t) \/ Fail(t))
=============================================================================
