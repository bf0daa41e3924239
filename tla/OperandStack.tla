---------------------------- MODULE OperandStack ----------------------------
(***************************************************************************)
(* The operand stack of a frame (src/src/runtime/frame.c): an array of     *)
(* slots, each the union of an int32_t and a pointer, and an unsigned      *)
(* number of slots in use.                                                 *)
(*                                                                         *)
(* A number is its bit pattern: a word is one of 0 .. Word - 1, a long,    *)
(* a double and a pointer are two words.  The floating point kinds differ  *)
(* from the integral ones only by a cast of bits (src/src/utils.c).        *)
(*                                                                         *)
(* The user of the stack is bytecode that passed the JVM's verifier: a pop *)
(* asks for the kind of the value on top.  The stack itself keeps no kinds *)
(* and the answer to a pop it refuses is -1, a number like any other.      *)
(***************************************************************************)
EXTENDS Integers, Sequences

CONSTANTS
  MaxSizes,  \* the sizes OperandStack_New may be called with
  Uint,      \* the modulus of the unsigned int that counts slots (2^32)
  Word,      \* the modulus of an int32_t (2^32)
  Values     \* Values[k]: the values of kind k that are pushed, for the kinds
             \*   "int", "float", "long", "double" and "ref"

ASSUME UintAssumption == Uint \in Nat \ {0}
ASSUME WordAssumption == Word \in Nat \ {0}
(* max_stack of a Code attribute has 16 bits, so size + 1 does not wrap. *)
ASSUME SizesAssumption == MaxSizes \subseteq 0 .. Uint - 2
ASSUME KindsAssumption == DOMAIN Values = {"int", "float", "long", "double", "ref"}
ASSUME ValuesAssumption ==
  /\ \A k \in {"int", "float"} : Values[k] \subseteq 0 .. Word - 1
  /\ \A k \in {"long", "double", "ref"} : Values[k] \subseteq 0 .. Word * Word - 1

VARIABLES
  maxSize,  \* OperandStack.maxSize
  size,     \* OperandStack.size
  data,     \* OperandStack.data: the low and the high word of each slot
  reply,    \* what the last call answered
  values,   \* history: the values pushed and not popped since
  used      \* history: the slots they take

vars == <<maxSize, size, data, reply, values, used>>

OV == INSTANCE OperandValues WITH bound <- maxSize

(* GC_malloc clears the slots. *)
Cleared == [lo |-> 0, hi |-> 0]

Init ==
  /\ maxSize \in MaxSizes
  /\ size = 0
  /\ data = [i \in 0 .. maxSize - 1 |-> Cleared]
  /\ reply = OV!Done("new", "none", 0)
  /\ values = <<>>
  /\ used = 0

-----------------------------------------------------------------------------
(* The two words of a value, and the value of two words. *)
Low(v)       == v % Word
High(v)      == (v \div Word) % Word
Join(hi, lo) == hi * Word + lo

(* Writing num leaves the other word of the union as it was. *)
WriteNum(d, i, n) == [d EXCEPT ![i].lo = n]

Pushed(k, v) ==
  /\ values' = Append(values, [kind |-> k, v |-> v])
  /\ used' = used + OV!Need(k)
  /\ reply' = OV!Done("push", k, v)
  /\ UNCHANGED maxSize

Popped(k, v) ==
  /\ values # <<>> /\ values[Len(values)].kind = k
  /\ values' = SubSeq(values, 1, Len(values) - 1)
  /\ used' = used - OV!Need(k)
  /\ reply' = OV!Done("pop", k, v)
  /\ UNCHANGED maxSize

(* The definitions with a suffix are faulty variants: each breaks a        *)
(* property below and takes no part in the specification.                  *)

(* Faulty: room for one slot too many. *)
Overflows_OneMore(k) ==
  IF OV!Need(k) = 2 THEN (size + 1) % Uint > maxSize ELSE size > maxSize

(* The tests that come first, in the arithmetic of an unsigned int. *)
Overflows(k) ==
  IF OV!Need(k) = 2 THEN (size + 1) % Uint >= maxSize ELSE size >= maxSize
Underflows(k) == IF OV!Need(k) = 2 THEN 1 >= size ELSE 0 >= size

(* OperandStack_PushInt and, after ieee754_float2bin, _PushFloat. *)
OperandStack_PushInt(k, v) ==
  /\ ~Overflows(k)
  /\ data' = WriteNum(data, size, v)
  /\ size' = (size + 1) % Uint
  /\ Pushed(k, v)

(* OperandStack_PushLong: the low word first, so the high one is on top;   *)
(* _PushDouble after ieee754_double2bin.                                   *)
OperandStack_PushLong(k, v) ==
  /\ ~Overflows(k)
  /\ data' = WriteNum(WriteNum(data, size, Low(v)),
                      (size + 1) % Uint, High(v))
  /\ size' = (size + 2) % Uint
  /\ Pushed(k, v)

(* OperandStack_PushRef writes the whole slot. *)
OperandStack_PushRef(v) ==
  /\ ~Overflows("ref")
  /\ data' = [data EXCEPT ![size] = [lo |-> Low(v), hi |-> High(v)]]
  /\ size' = (size + 1) % Uint
  /\ Pushed("ref", v)

(* OperandStack_PopInt and _PopFloat. *)
OperandStack_PopInt(k) ==
  /\ ~Underflows(k)
  /\ size' = size - 1
  /\ Popped(k, data[size - 1].lo)
  /\ UNCHANGED data

(* Faulty: the words come back in the order they were pushed. *)
OperandStack_PopLong_Swapped(k) ==
  /\ ~Underflows(k)
  /\ size' = size - 2
  /\ Popped(k, Join(data[size - 2].lo, data[size - 1].lo))
  /\ UNCHANGED data

(* OperandStack_PopLong, and the function after _PushDouble, which is also *)
(* named OperandStack_PopLong but returns a double.                        *)
OperandStack_PopLong(k) ==
  /\ ~Underflows(k)
  /\ size' = size - 2
  /\ Popped(k, Join(data[size - 1].lo, data[size - 2].lo))
  /\ UNCHANGED data

(* The int32_t that a word is: the words of the upper half are negative. *)
Signed(w) == IF 2 * w < Word THEN w ELSE w - Word

(* Faulty: the pointer is left in its slot. *)
OperandStack_PopRef_Kept ==
  /\ ~Underflows("ref")
  /\ size' = size - 1
  /\ data' = data
  /\ Popped("ref", Signed(data[size - 1].lo))

(* OperandStack_PopRef clears the slot; its result is an int32_t, so the   *)
(* high word of the pointer is lost on the way to the caller, who takes    *)
(* the low one for a signed number.                                        *)
OperandStack_PopRef ==
  /\ ~Underflows("ref")
  /\ size' = size - 1
  /\ data' = [data EXCEPT ![size - 1] = Cleared]
  /\ Popped("ref", Signed(data[size - 1].lo))

(* Any push or pop the test at its beginning refuses: it returns -1. *)
PushRefused(k) ==
  /\ Overflows(k)
  /\ reply' = OV!Refusal("push", k)
  /\ UNCHANGED <<maxSize, size, data, values, used>>

PopRefused(k) ==
  /\ Underflows(k)
  /\ reply' = OV!Refusal("pop", k)
  /\ UNCHANGED <<maxSize, size, data, values, used>>

Next ==
  \/ \E k \in {"int", "float"} :
       (\E v \in Values[k] : OperandStack_PushInt(k, v)) \/ OperandStack_PopInt(k)
  \/ \E k \in {"long", "double"} :
       (\E v \in Values[k] : OperandStack_PushLong(k, v)) \/ OperandStack_PopLong(k)
  \/ (\E v \in Values["ref"] : OperandStack_PushRef(v)) \/ OperandStack_PopRef
  \/ \E k \in DOMAIN Values : PushRefused(k) \/ PopRefused(k)

Spec == Init /\ [][Next]_vars

-----------------------------------------------------------------------------
(* The values a verified program has on the stack. *)
TypedValues == UNION {[kind : {k}, v : Values[k]] : k \in DOMAIN Values}

(* The slots in use are within the array and its slots hold two words. *)
TypeOK ==
  /\ maxSize \in MaxSizes
  /\ size \in 0 .. maxSize
  /\ data \in [0 .. maxSize - 1 -> [lo : 0 .. Word - 1, hi : 0 .. Word - 1]]
  /\ values \in Seq(TypedValues)
  /\ used \in Nat

(* Every call is answered as OperandValues answers it: values of one and   *)
(* of two slots pushed on each other come back whole and in order, from    *)
(* slots that other values were in before.                                 *)
ImplementsOperandValues == OV!Spec

(* A slot above the top holds no pointer, so a popped object can be        *)
(* collected: PopRef clears its slot and no other pop leaves a pointer.    *)
NoStaleRef ==
  \A i \in size .. maxSize - 1 :
    Join(data[i].hi, data[i].lo) \notin Values["ref"] \ {0}

(* Value r is in the slots from p on.  Only the low words of the slots     *)
(* count: a pop of any kind reads no more.                                 *)
Stored(r, p) ==
  IF OV!Need(r.kind) = 2
  THEN data[p].lo = Low(r.v) /\ data[p + 1].lo = High(r.v)
  ELSE data[p].lo = Low(r.v)

(* The values lie in the slots one behind the other, in the order they     *)
(* were pushed, value i from slot at[i] on; the last ends at the top.      *)
Placed(at) ==
  /\ \A i, j \in 1 .. Len(values) :
       i < j => at[i] + OV!Need(values[i].kind) <= at[j]
  /\ \A i \in 1 .. Len(values) - 1 :
       at[i + 1] = at[i] + OV!Need(values[i].kind)
  /\ values # <<>> =>
       at[Len(values)] + OV!Need(values[Len(values)].kind) = size
  /\ \A i \in 1 .. Len(values) : Stored(values[i], at[i])

(* The inductive invariant. *)
IInv ==
  /\ TypeOK
  /\ used = size
  /\ \E at \in [1 .. Len(values) -> 0 .. maxSize] : Placed(at)
=============================================================================
