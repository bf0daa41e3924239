--------------------------- MODULE OperandValues ---------------------------
(***************************************************************************)
(* What an operand stack promises to the bytecode that uses it: a bounded  *)
(* last-in-first-out sequence of typed values, where a long or a double    *)
(* counts twice against the bound.  A push is refused exactly when the     *)
(* value does not fit, a pop exactly when there are not values enough, and *)
(* a value comes back as it went in.  OperandStack implements this with an *)
(* array of untyped slots (src/src/runtime/frame.c).                       *)
(***************************************************************************)
EXTENDS Integers, Sequences

CONSTANTS
  MaxSizes,  \* the bounds a stack may be created with
  Values     \* Values[k]: the values of kind k, for each kind

VARIABLES
  bound,     \* the bound of the stack
  used,      \* how much of it the values take
  values,    \* the values pushed and not popped, [kind, v], the newest last
  reply      \* what the last call answered

vars == <<bound, used, values, reply>>

Kinds   == DOMAIN Values
Need(k) == IF k \in {"long", "double"} THEN 2 ELSE 1

Done(call, k, v) == [call |-> call, kind |-> k, v |-> v, refused |-> FALSE]
Refusal(call, k) == [call |-> call, kind |-> k, v |-> -1, refused |-> TRUE]

Init ==
  /\ bound \in MaxSizes
  /\ used = 0
  /\ values = <<>>
  /\ reply = Done("new", "none", 0)

Push(k, v) ==
  /\ used + Need(k) <= bound
  /\ used' = used + Need(k)
  /\ values' = Append(values, [kind |-> k, v |-> v])
  /\ reply' = Done("push", k, v)
  /\ UNCHANGED bound

RefusePush(k) ==
  /\ used + Need(k) > bound
  /\ reply' = Refusal("push", k)
  /\ UNCHANGED <<bound, used, values>>

Pop(k) ==
  /\ values # <<>>
  /\ values[Len(values)].kind = k
  /\ used' = used - Need(k)
  /\ values' = SubSeq(values, 1, Len(values) - 1)
  /\ reply' = Done("pop", k, values[Len(values)].v)
  /\ UNCHANGED bound

RefusePop(k) ==
  /\ used < Need(k)
  /\ reply' = Refusal("pop", k)
  /\ UNCHANGED <<bound, used, values>>

Next ==
  \E k \in Kinds :
    \/ \E v \in Values[k] : Push(k, v)
    \/ RefusePush(k)
    \/ Pop(k)
    \/ RefusePop(k)

Spec == Init /\ [][Next]_vars
=============================================================================
