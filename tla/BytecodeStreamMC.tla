-------------------------- MODULE BytecodeStreamMC --------------------------
(***************************************************************************)
(* A memory for BytecodeStream.                                            *)
(***************************************************************************)
EXTENDS BytecodeStream

CodeAndMore == {<<1, 1, 0, 0, 0, 0>>}
=============================================================================
