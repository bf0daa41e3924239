-------------------------- MODULE LoaderOverStreams --------------------------
(***************************************************************************)
(* LoadClassFile over the repository's own streams: the loader calls the   *)
(* reads of FileStream or of BytecodeStream through the function pointers, *)
(* and sees the ints they return.  The user calls the stream too, before,  *)
(* between and after its loads.                                            *)
(***************************************************************************)
EXTENDS FileStream, BytecodeStream

CONSTANTS
  Meaning,      \* what the bytes of a stream may mean to the loader
  Spelling, NUL, Continuation,  \* as in ClassFileLoader
  WholeClasses  \* class files without a fault: a set of sequences of bytes

VARIABLES
  reader,  \* the stream the user works with: "file" or "code"
  stack, phase, pool, count, short,  \* the loader, as in ClassFileLoader
  given    \* history: the bytes of the file the loader was called for

loaderVars == <<stack, phase, pool, count, short>>
allVars    == <<fileVars, codeVars, loaderVars, reader, given>>

(* The bytes that are left to the loader.  A bytecode reader never ends,   *)
(* so these are what can be read.                                          *)
Left == IF reader = "file" THEN Rest ELSE Len(memory) - codeLen

(* A read that answers 1 or a size may have delivered its value, or, as    *)
(* the functions in the slots of ReadUint32 do, only a part of it.         *)
L == INSTANCE ClassFileLoader WITH
       left <- Left, file <- Meaning, Files <- {Meaning},
       OkReturns <- {1} \cup Blocks, EofReturns <- {EOF, 1} \cup Blocks

Init ==
  /\ FileInit /\ CodeInit
  /\ reader \in {"file", "code"}
  /\ stack = <<>> /\ phase = "idle" /\ pool = <<>> /\ count = 0 /\ short = FALSE
  /\ given = <<>>

Running == running /\ alive
Loading == phase \in {"parsing", "null"}

-----------------------------------------------------------------------------
(* The user's own calls. *)
UserCalls ==
  /\ Running /\ ~Loading
  /\ \/ reader = "file" /\ FileNext /\ UNCHANGED codeVars
     \/ reader = "code" /\ CodeNext /\ UNCHANGED fileVars
  /\ UNCHANGED <<loaderVars, reader, given>>

(* LoadClassFile(stream), also on a stream that is closed or half read. *)
LoadClassFile ==
  /\ Running /\ ~Loading
  /\ IF reader = "file" THEN fp # NoStream ELSE held
  /\ stack' = <<L!Frame("LoadClassFile", 1)>>
  /\ phase' = "parsing"
  /\ pool' = <<>> /\ count' = 0 /\ short' = FALSE
  /\ given' = IF reader = "file" /\ fp \in Handles
              THEN SubSeq(content, offset + 1, Len(content)) ELSE <<>>
  /\ UNCHANGED <<fileVars, codeVars, reader>>

(* The loader's next read, through the slot for its width. *)
Reading ==
  /\ phase = "parsing" /\ L!This.todo # <<>>
  /\ L!Ins.op \notin {"call", "skip", "store"}
Slot    == CHOOSE op \in DOMAIN Widths : Widths[op] = L!Ins.w

ReadThrough ==
  \/ /\ reader = "file"
     /\ IF L!Ins.what = "bytes" THEN FileReadBytes(L!Ins.w) ELSE FileReadUint(Slot)
     /\ UNCHANGED codeVars
  \/ /\ reader = "code"
     /\ IF L!Ins.what = "bytes" THEN CodeReadBytes(L!Ins.w) ELSE CodeReadUint(Slot)
     /\ UNCHANGED fileVars
Returned == IF reader = "file" THEN answer.ret ELSE said.ret

SkipThrough ==
  \/ reader = "file" /\ FileSkip(L!This.keep) /\ UNCHANGED codeVars
  \/ reader = "code" /\ bytecode_skip(L!This.keep) /\ UNCHANGED fileVars

(* One step of the loader.  A read that ends the program ends the loader.  *)
LoaderStep ==
  /\ Running /\ Loading
  /\ UNCHANGED <<reader, given>>
  /\ \/ /\ Reading
        /\ ReadThrough
        /\ IF ~Running' THEN UNCHANGED loaderVars
           ELSE IF L!Refused(Returned') THEN L!ReadRefused ELSE L!ReadAccepted
     \/ /\ ~Reading
        /\ IF phase = "parsing" /\ L!Doing("skip")
           THEN SkipThrough /\ (IF Running' THEN L!SkipBytes ELSE UNCHANGED loaderVars)
           ELSE UNCHANGED <<fileVars, codeVars>> /\ L!Compute

(* Nothing runs after undefined behaviour has ended the program. *)
Ended == ~Running /\ UNCHANGED allVars

Next == UserCalls \/ LoadClassFile \/ LoaderStep \/ Ended

(* The loader waits for nothing; nobody has to call it. *)
Spec == Init /\ [][Next]_allVars /\ WF_allVars(LoaderStep)

-----------------------------------------------------------------------------
(* No class is ever loaded from the repository's streams, whatever they    *)
(* hold and wherever they stand: the loader takes the answers of the reads *)
(* for their opposites, and no read delivers the four bytes of the magic.  *)
NothingLoads == L!NothingLoads

(* A call of LoadClassFile comes back with NULL, unless a read has ended   *)
(* the program: it neither hangs on a stream that is closed, at its end or *)
(* behind it, nor crashes by itself.                                       *)
LoadEnds == phase = "parsing" ~> (phase = "failed" \/ ~Running)

(* "Reading ClassFile Error" is not reported for a class file without a    *)
(* fault whose bytes are all there.                                        *)
WholeClassLoads == phase = "failed" => given \notin WholeClasses
=============================================================================
