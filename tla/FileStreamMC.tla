---------------------------- MODULE FileStreamMC ----------------------------
(***************************************************************************)
(* FileStream with a file that is long enough for every read, and the      *)
(* calls that are looked at.                                               *)
(***************************************************************************)
EXTENDS FileStream

CONSTANT Calls

LongFile == {<<1, 0, 0, 1, 1, 0, 1, 0>>}

(* What the messages of filereader.c and of its users say of a call ("Empty *)
(* file handler.", "Reading file error", "at position %ld", "Unable to open *)
(* file for reading") is so.                                               *)
AnswersAreRight == [][answer'.op \in Calls => AnswerIsRight]_fileVars
=============================================================================
