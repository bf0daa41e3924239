---------------------- MODULE LoaderOverStreams_proof ----------------------
(***************************************************************************)
(* The loader over the repository's own streams, for any files, memories,  *)
(* codes and calls: nothing is loaded.  The loader is always at its first  *)
(* read, on its way back from it, or not running: what it compares with    *)
(* the magic number is the zero of GC_malloc, since the reads that are     *)
(* accepted are those whose result is EOF.  And the composition uses each  *)
(* stream by the stream's own steps, so that what was proved of the        *)
(* streams alone holds in it.                                              *)
(***************************************************************************)
EXTENDS LoaderOverStreams, FileStream_proof, BytecodeStream_proof

(* The loader is never further than in front of its first read. *)
IInv ==
  /\ phase \in {"idle", "parsing", "null", "failed"}
  /\ Loading => stack = <<L!Frame("LoadClassFile", 1)>>

(* The first instruction of the loader is the test of the magic number. *)
LEMMA FirstInstruction ==
  ASSUME stack = <<L!Frame("LoadClassFile", 1)>>
  PROVE  /\ L!This.todo # <<>>
         /\ L!Ins = L!Test(4, "magic")
         /\ Len(stack) = 1
<1> DEFINE body == L!LoadClassFile
<1>1. L!Script["LoadClassFile"] = body
  BY DEF L!Script
<1>2. /\ body \in Seq({body[i] : i \in 1 .. 11})
      /\ Len(body) = 11 /\ body[1] = L!Test(4, "magic")
  BY DEF L!LoadClassFile
<1> HIDE DEF body
<1>3. L!Copies(body, 1) = [i \in 1 .. 11 |-> body[((i - 1) % 11) + 1]]
  BY <1>2 DEF L!Copies
<1>4. L!Copies(body, 1)[1] = body[1] /\ L!Copies(body, 1) # <<>>
  BY <1>3
<1>5. L!This.todo = L!Copies(body, 1) /\ Len(stack) = 1
  BY <1>1 DEF L!This, L!Frame
<1>6. Head(L!This.todo) = L!This.todo[1]
  BY <1>5, <1>3
<1>7. QED
  BY <1>2, <1>4, <1>5, <1>6 DEF L!Ins

(* What such an instruction leaves the loader to do. *)
LEMMA AtTheMagic ==
  ASSUME IInv, phase = "parsing"
  PROVE  /\ stack = <<L!Frame("LoadClassFile", 1)>>
         /\ L!This.todo # <<>> /\ L!Ins.op = "test" /\ L!Ins.what = "magic"
<1>1. stack = <<L!Frame("LoadClassFile", 1)>>
  BY DEF IInv, Loading
<1>2. QED
  BY <1>1, FirstInstruction DEF L!Test, L!Instr

(* A read of the magic number whose result is accepted did not deliver it. *)
LEMMA MagicNotDelivered ==
  ASSUME IInv, phase = "parsing", NEW v, L!Accept(v)
  PROVE  ~L!Passes(L!Ins.what, v)
<1>1. PICK wrote \in BOOLEAN :
        /\ L!MayReturn(wrote, FALSE)
        /\ v \in (IF wrote THEN L!Held(L!Ins.what) ELSE L!Unwritten(L!Ins.what))
  BY DEF L!Accept
<1>2. wrote = FALSE
  <2> SUFFICES ASSUME wrote = TRUE
               PROVE  FALSE
    OBVIOUS
  <2>1. PICK ret \in {1} \cup Blocks : L!Refused(ret) = FALSE
    BY <1>1 DEF L!MayReturn
  <2>2. QED
    BY <2>1, BlocksAssumption DEF L!Refused
<1>3. v = 0
  BY <1>1, <1>2, AtTheMagic DEF L!Unwritten
<1>4. L!Ins.what = "magic" /\ v # 1
  BY <1>3, AtTheMagic
<1>5. QED
  BY <1>4 DEF L!Passes

(* There it is refused the magic, or reads none, and returns. *)
LEMMA StepLoader ==
  ASSUME IInv, LoaderStep
  PROVE  IInv'
<1>1. CASE phase = "parsing"
  <2>1. Reading /\ ~L!Doing("skip")
    BY <1>1, AtTheMagic DEF Reading, L!Doing
  <2>2. CASE UNCHANGED loaderVars
    BY <2>2 DEF loaderVars, IInv, Loading
  <2>3. CASE L!ReadRefused
    BY <1>1, <2>3, AtTheMagic DEF L!ReadRefused, IInv, Loading
  <2>4. CASE L!ReadAccepted
    <3>1. L!ReadTested
      BY <1>1, <2>4, AtTheMagic
      DEF L!ReadAccepted, L!Doing, L!ReadStored, L!ReadKept, L!ReadCount, L!ReadMembers,
          L!ReadPoolCount, L!ReadEntry, L!ReadVariant, L!ReadAttribute
    <3>2. PICK v : L!Accept(v) /\ IF L!Passes(L!Ins.what, v)
                                 THEN stack' = L!Goto(<<>>) /\ phase' = phase
                                 ELSE stack' = stack /\ phase' = "null"
      BY <3>1 DEF L!ReadTested
    <3>3. QED
      BY <1>1, <3>2, MagicNotDelivered, AtTheMagic DEF IInv, Loading
  <2>5. QED
    BY <2>1, <2>2, <2>3, <2>4 DEF LoaderStep
<1>2. CASE phase = "null"
  <2>1. L!Compute
    BY <1>2 DEF LoaderStep, Reading
  <2>2. L!ReturnNull
    BY <1>2, <2>1
    DEF L!Compute, L!Doing, L!StoreEntry, L!CallParser, L!Return, L!ReturnNothing
  <2>3. stack = <<L!Frame("LoadClassFile", 1)>>
    BY <1>2 DEF IInv, Loading
  <2>4. L!Caller = <<>>
    <3>1. Len(stack) - 1 = 0
      BY <2>3
    <3>2. SubSeq(stack, 1, 0) = <<>>
      BY <2>3, SubSeqEmpty
    <3>3. QED
      BY <3>1, <3>2 DEF L!Caller
  <2>5. phase' = "failed"
    BY <2>2, <2>4 DEF L!ReturnNull
  <2>6. QED
    BY <2>5 DEF IInv, Loading
<1>3. QED
  BY <1>1, <1>2 DEF LoaderStep, Loading

(* Nobody has called the loader yet. *)
LEMMA InitIInv == Init => IInv
  BY DEF Init, IInv, Loading

(* Calls of the user and steps of the loader keep the invariant. *)
LEMMA StepIInv == IInv /\ [Next]_allVars => IInv'
<1> SUFFICES ASSUME IInv, [Next]_allVars
             PROVE  IInv'
  OBVIOUS
<1>1. CASE UserCalls
  BY <1>1 DEF UserCalls, loaderVars, IInv, Loading
<1>2. CASE LoadClassFile
  BY <1>2 DEF LoadClassFile, IInv, Loading
<1>3. CASE LoaderStep
  BY <1>3, StepLoader
<1>4. CASE Ended
  BY <1>4 DEF Ended, allVars, loaderVars, IInv, Loading
<1>5. CASE UNCHANGED allVars
  BY <1>5 DEF allVars, loaderVars, IInv, Loading
<1>6. QED
  BY <1>1, <1>2, <1>3, <1>4, <1>5 DEF Next

(* Over filereader.c and bytecode.c LoadClassFile never gets past the magic. *)
THEOREM InductiveInvariant == Spec => []IInv
<1>1. QED
  BY InitIInv, StepIInv, PTL DEF Spec

(* Whatever the user calls, in whatever order, and whatever the stream     *)
(* holds, LoadClassFile never returns a class.                             *)
THEOREM NothingIsLoaded == Spec => []NothingLoads
<1>1. IInv => NothingLoads
  BY DEF IInv, NothingLoads, L!NothingLoads
<1>2. QED
  BY <1>1, InductiveInvariant, PTL

-----------------------------------------------------------------------------
(* The loader's reads are steps of the stream that is read. *)
LEMMA StepStreams ==
  ASSUME IInv, [Next]_allVars
  PROVE  [FileNext]_fileVars /\ [CodeNext]_codeVars
<1>1. CASE UserCalls
  BY <1>1 DEF UserCalls
<1>2. CASE LoadClassFile
  BY <1>2 DEF LoadClassFile
<1>3. CASE LoaderStep
  <2>1. CASE phase = "parsing"
    <3>1. Slot = "ReadUint32" /\ L!Ins.what # "bytes"
      <4>1. stack = <<L!Frame("LoadClassFile", 1)>>
        BY <2>1, AtTheMagic
      <4>2. L!Ins.w = 4 /\ L!Ins.what = "magic"
        BY <4>1, FirstInstruction DEF L!Test, L!Instr
      <4>3. \A op \in DOMAIN Widths : Widths[op] = 4 <=> op = "ReadUint32"
        BY DEF Widths
      <4>4. "ReadUint32" \in DOMAIN Widths
        BY DEF Widths
      <4>5. QED
        BY <4>2, <4>3, <4>4 DEF Slot
    <3>2. ReadThrough
      BY <1>3, <2>1, AtTheMagic DEF LoaderStep, Reading
    <3>3. "ReadUint32" \in DOMAIN newFileStreamReaderOp /\ "ReadUint32" \in DOMAIN Widths
      BY DEF newFileStreamReaderOp, Widths
    <3>4. CASE FileReadUint("ReadUint32") /\ UNCHANGED codeVars
      BY <3>3, <3>4 DEF FileNext
    <3>5. CASE CodeReadUint("ReadUint32") /\ UNCHANGED fileVars
      BY <3>3, <3>5 DEF CodeNext
    <3>6. QED
      BY <3>1, <3>2, <3>4, <3>5 DEF ReadThrough
  <2>2. CASE phase = "null"
    BY <1>3, <2>2 DEF LoaderStep, Reading
  <2>3. QED
    BY <1>3, <2>1, <2>2 DEF LoaderStep, Loading
<1>4. CASE Ended
  BY <1>4 DEF Ended, allVars
<1>5. CASE UNCHANGED allVars
  BY <1>5 DEF allVars
<1>6. QED
  BY <1>1, <1>2, <1>3, <1>4, <1>5 DEF Next

(* The program uses its streams as their own modules say: a file or a code *)
(* of the composition behaves as one of FileStream or BytecodeStream does. *)
THEOREM StreamsAreUsedByTheirCalls == Spec => FileSpec /\ CodeSpec
<1>1. Init => FileInit /\ CodeInit
  BY DEF Init
<1>2. QED
  BY <1>1, StepStreams, InductiveInvariant, PTL DEF Spec, FileSpec, CodeSpec

(* Under the loader too no FILE is used after it was closed, what a file   *)
(* reader reports as read are the next bytes of its file, and a bytecode   *)
(* reader stays out of its code.                                           *)
THEOREM StreamsUnderTheLoader ==
  Spec => /\ [](FileTypeOK /\ NoDanglingHandle) /\ ImplementsByteStream
          /\ [](CodeTypeOK /\ CodeIsNeverRead)
<1>1. QED
  BY StreamsAreUsedByTheirCalls, FileTypeCorrect, ClosedIsForgotten, FileRefinement,
     CodeTypeCorrect, CodeUnread, PTL
=============================================================================
