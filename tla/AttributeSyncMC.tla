-------------------------- MODULE AttributeSyncMC --------------------------
(***************************************************************************)
(* AttributeSync for the attributes whose parsers follow the layout, the   *)
(* pool entries, the members and a class, and for the attributes whose     *)
(* parsers do not.                                                         *)
(***************************************************************************)
EXTENDS AttributeSync

(* The reads' results are the ones the tests of classfile.c take for       *)
(* success and failure.                                                    *)
Negative == {-1}

(* A byte stands for each name. *)
ByteNUL  == "00"
ByteCont == {"80"}
Spellings == [name \in DOMAIN AttributeParser |-> <<name>>]
=============================================================================
