--------------------------- MODULE StreamReaderOp ---------------------------
(***************************************************************************)
(* The interface of the streams (src/src/include/stream.h): the reads by   *)
(* the slot they are called through, and what a call gives its caller.  A  *)
(* number is kept as its big-endian bytes.                                 *)
(***************************************************************************)
EXTENDS Integers, Sequences

CONSTANTS
  Byte,      \* the values of a byte
  Blocks,    \* the sizes asked of ReadBytes
  Distances  \* the distances asked of Skip

ASSUME BlocksAssumption    == Blocks \subseteq Nat
ASSUME DistancesAssumption == Distances \subseteq Int

(* The bytes each slot is named for, uint8_t* to uint64_t*. *)
Widths == [ReadUint8 |-> 1, ReadUint16 |-> 2, ReadUint32 |-> 4, ReadUint64 |-> 8]

(* Everything a user calls; a stream is made and closed by its own module. *)
Slots == DOMAIN Widths \cup
         {"start", "Open", "Close", "ReadBytes", "Position", "Skip", "Reset"}

EOF == -1

(* The int a call of op returned, and the bytes it wrote. *)
Answer(op, ret, bytes) == [op |-> op, ret |-> ret, bytes |-> bytes]

(* What that tells the user, by the convention the readers share: EOF is a *)
(* failed read; Skip and Reset return a truth value, and so, as far as it  *)
(* is a pointer or NULL, does what makes a stream.                         *)
Succeeded(a) ==
  IF a.op \in {"Open", "Skip", "Reset"} THEN a.ret = 1 ELSE a.ret # EOF
Told(op, ok, bytes) == [op |-> op, ok |-> ok, bytes |-> bytes]
Reported(a) == Told(a.op, Succeeded(a), IF Succeeded(a) THEN a.bytes ELSE <<>>)
=============================================================================
