------------------------ MODULE BytecodeStream_proof ------------------------
(***************************************************************************)
(* The bytecode reader, for any memories and any codes in them: its fields *)
(* stay in the memory that can be read, and no byte of the code is ever    *)
(* read.  The invariant adds to the two that code_len, which the reads use *)
(* for their index, never falls below the length it started from.          *)
(***************************************************************************)
EXTENDS BytecodeStream, SequenceTheorems, TLAPS

(* code_len starts at the length and only grows: no read is below it. *)
CodeIInv ==
  /\ CodeTypeOK
  /\ CodeIsNeverRead
  /\ codeLen >= size
  /\ held = FALSE => touched = {} /\ size = 0

(* The parts of an answer. *)
LEMMA CodeAnswerParts ==
  /\ \A op, ret, b : Answer(op, ret, b).op = op /\ Answer(op, ret, b).bytes = b
  /\ \A op, ret : Answer(op, ret, <<>>).bytes \in Seq(Byte)
  BY DEF Answer

(* The names of the slots. *)
LEMMA CodeSlotNames ==
  /\ {"start", "Open", "ReadBytes", "Position", "Skip", "Reset"} \subseteq Slots
  /\ DOMAIN Widths \subseteq Slots
  BY DEF Slots

(* Before BytecodeReader_New there is neither memory nor a read. *)
LEMMA CodeInitIInv == CodeInit => CodeIInv
<1> SUFFICES ASSUME CodeInit
             PROVE  CodeIInv
  OBVIOUS
<1>1. said.op \in Slots /\ said.bytes \in Seq(Byte)
  BY CodeAnswerParts, CodeSlotNames DEF CodeInit
<1>2. memory \in Seq(Byte) /\ Len(memory) = 0
  BY DEF CodeInit
<1>3. CodeTypeOK
  <2>1. held \in BOOLEAN /\ alive \in BOOLEAN
    BY DEF CodeInit
  <2>2. size = 0 /\ codeLen = 0 /\ pc = 0 /\ touched = {}
    BY DEF CodeInit
  <2>3. QED
    BY <1>1, <1>2, <2>1, <2>2 DEF CodeTypeOK
<1>4. QED
  BY <1>3 DEF CodeInit, CodeIInv, CodeIsNeverRead

(* A call that moves nothing but pc, inside the code. *)
LEMMA CodeOnlyPc ==
  ASSUME CodeIInv, NEW op \in {"Open", "ReadBytes", "ReadUint8", "ReadUint16", "ReadUint32",
                           "ReadUint64", "Position", "Skip", "Reset"},
         NEW ret, said' = Answer(op, ret, <<>>),
         pc' \in 0 .. size,
         UNCHANGED <<memory, size, codeLen, held, alive, touched>>
  PROVE  CodeIInv'
<1>1. op \in Slots
  BY DEF Slots, Widths
<1>2. said'.op \in Slots /\ said'.bytes \in Seq(Byte)
  BY <1>1, CodeAnswerParts
<1>3. QED
  BY <1>2 DEF CodeIInv, CodeTypeOK, CodeIsNeverRead

(* Every call keeps the invariant. *)
LEMMA CodeStepIInv == CodeIInv /\ [CodeNext]_codeVars => CodeIInv'
<1> SUFFICES ASSUME CodeIInv, [CodeNext]_codeVars
             PROVE  CodeIInv'
  OBVIOUS
<1>1. pc \in 0 .. size /\ size \in Nat /\ 0 \in 0 .. size
  BY DEF CodeIInv, CodeTypeOK
<1>2. CASE BytecodeReader_New
  <2>1. CASE UNCHANGED <<memory, size, codeLen, pc, held>> /\ said' = Answer("Open", 0, <<>>)
    BY <1>1, <1>2, <2>1, CodeOnlyPc DEF BytecodeReader_New
  <2>2. CASE /\ memory' \in Memories
             /\ size' \in CodeLengths \cap (0 .. Len(memory'))
             /\ codeLen' = size'
             /\ pc' \in 0 .. size'
             /\ held' = TRUE
             /\ said' = Answer("Open", 1, <<>>)
    <3>1. memory' \in Seq(Byte) /\ Len(memory') \in Nat
      BY <2>2, MemoriesAssumption
    <3>2. touched' = {} /\ alive' \in BOOLEAN
      BY <1>2 DEF BytecodeReader_New, CodeIInv, CodeTypeOK
    <3>3. said'.op \in Slots /\ said'.bytes \in Seq(Byte)
      BY <2>2, CodeAnswerParts, CodeSlotNames
    <3>4. CodeTypeOK'
      BY <2>2, <3>1, <3>2, <3>3 DEF CodeTypeOK
    <3>5. CodeIsNeverRead' /\ (codeLen >= size)'
      BY <2>2, <3>1, <3>2 DEF CodeIsNeverRead
    <3>6. QED
      BY <2>2, <3>4, <3>5 DEF CodeIInv
  <2>3. QED
    BY <1>2, <2>1, <2>2 DEF BytecodeReader_New
<1>3. ASSUME NEW op \in DOMAIN Widths, CodeReadUint(op)
      PROVE  CodeIInv'
  <2>1. CASE op \in DOMAIN newBytecodeReaderOp
    <3> DEFINE w == newBytecodeReaderOp[op]
    <3>1. w \in Nat /\ w >= 1
      BY <2>1 DEF newBytecodeReaderOp
    <3>2. bytecode_readUint(op, w)
      BY <1>3, <2>1 DEF CodeReadUint
    <3> HIDE DEF w
    <3>3. CASE codeLen + w <= Len(memory)
      <4>1. /\ said' = Answer(op, 1, SubSeq(memory, codeLen + 1, codeLen + w))
            /\ touched' = touched \cup (codeLen .. codeLen + w - 1)
            /\ codeLen' = codeLen + w
            /\ UNCHANGED <<memory, size, pc, held, alive>>
            /\ held
        BY <3>2, <3>3 DEF bytecode_readUint
      <4>2. /\ memory \in Seq(Byte) /\ Len(memory) \in Nat
            /\ codeLen \in Nat /\ codeLen >= size /\ size \in Nat
        BY DEF CodeIInv, CodeTypeOK
      <4>3. said'.op \in Slots /\ said'.bytes \in Seq(Byte)
        <5>1. \A i \in codeLen + 1 .. codeLen + w : memory[i] \in Byte
          BY <3>1, <3>3, <4>2
        <5>2. SubSeq(memory, codeLen + 1, codeLen + w) \in Seq(Byte)
          BY <3>1, <3>3, <4>2, <5>1, SubSeqProperties
        <5>3. PICK b \in Seq(Byte) : b = SubSeq(memory, codeLen + 1, codeLen + w)
          BY <5>2
        <5>4. said' = Answer(op, 1, b)
          BY <4>1, <5>3
        <5>5. QED
          BY <5>4, CodeAnswerParts, CodeSlotNames
      <4>4. CodeTypeOK'
        <5>1. touched' \subseteq 0 .. Len(memory) - 1
          BY <3>1, <3>3, <4>1, <4>2 DEF CodeIInv, CodeTypeOK
        <5>2. codeLen' \in 0 .. Len(memory)
          BY <3>1, <3>3, <4>1, <4>2
        <5>3. QED
          BY <4>1, <4>3, <5>1, <5>2 DEF CodeIInv, CodeTypeOK
      <4>5. CodeIsNeverRead' /\ (codeLen >= size)'
        BY <3>1, <4>1, <4>2 DEF CodeIInv, CodeIsNeverRead
      <4>6. QED
        BY <4>1, <4>4, <4>5 DEF CodeIInv
    <3>4. CASE ~(codeLen + w <= Len(memory))
      BY <3>2, <3>4 DEF bytecode_readUint, CodeIInv, CodeTypeOK, CodeIsNeverRead
    <3>5. QED
      BY <3>3, <3>4
  <2>2. CASE op \notin DOMAIN newBytecodeReaderOp
    <3>1. op \in {"ReadUint8", "ReadUint16", "ReadUint32", "ReadUint64"}
      BY <1>3 DEF Widths
    <3>2. bytecode_refuse(op)
      BY <1>3, <2>2 DEF CodeReadUint
    <3>3. QED
      BY <1>1, <3>1, <3>2, CodeOnlyPc DEF bytecode_refuse
  <2>3. QED
    BY <2>1, <2>2
<1>4. ASSUME NEW n \in Blocks, CodeReadBytes(n)
      PROVE  CodeIInv'
  BY <1>1, <1>4, CodeOnlyPc DEF CodeReadBytes, bytecode_refuse
<1>5. CASE bytecode_position
  BY <1>1, <1>5, CodeOnlyPc DEF bytecode_position
<1>6. ASSUME NEW d \in Distances, bytecode_skip(d)
      PROVE  CodeIInv'
  BY <1>1, <1>6, CodeOnlyPc DEF bytecode_skip
<1>7. CASE bytecode_reset
  BY <1>1, <1>7, CodeOnlyPc DEF bytecode_reset
<1>8. CASE UNCHANGED codeVars
  BY <1>8 DEF codeVars, CodeIInv, CodeTypeOK, CodeIsNeverRead
<1>9. QED
  BY <1>2, <1>3, <1>4, <1>5, <1>6, <1>7, <1>8 DEF CodeNext

(* No call of bytecode.c moves code_len below the length of the code. *)
THEOREM CodeInductive == CodeSpec => []CodeIInv
<1>1. QED
  BY CodeInitIInv, CodeStepIInv, PTL DEF CodeSpec

(* code_len stays in the memory that can be read and pc in the code.       *)
THEOREM CodeTypeCorrect == CodeSpec => []CodeTypeOK
<1>1. CodeIInv => CodeTypeOK
  BY DEF CodeIInv
<1>2. QED
  BY <1>1, CodeInductive, PTL

(* Whatever is called in whatever order, no byte of the code the reader    *)
(* was made for is ever looked at.                                         *)
THEOREM CodeUnread == CodeSpec => []CodeIsNeverRead
<1>1. CodeIInv => CodeIsNeverRead
  BY DEF CodeIInv
<1>2. QED
  BY <1>1, CodeInductive, PTL
=============================================================================
