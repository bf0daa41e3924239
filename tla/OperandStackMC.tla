--------------------------- MODULE OperandStackMC ---------------------------
(***************************************************************************)
(* Words of three bits: 0 and 7 (the -1 of the refusals) for the numbers,  *)
(* every combination of them for the long ones, and two pointers.          *)
(***************************************************************************)
EXTENDS OperandStack

Numbers(refs) ==
  [int |-> {0, 7}, float |-> {7}, long |-> {0, 7, 56, 63}, double |-> {56},
   ref |-> refs]

(* Pointers that are an int32_t, none of which is negative, and one that   *)
(* has more bits.                                                          *)
LowValues  == Numbers({0, 1, 2})
HighValues == Numbers({10})
=============================================================================
