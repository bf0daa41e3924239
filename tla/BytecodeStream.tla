--------------------------- MODULE BytecodeStream ---------------------------
(***************************************************************************)
(* The bytecode reader (src/src/stream/bytecode.c): an array of code, its  *)
(* length and a pc behind the function pointers of StreamReaderOp.  One    *)
(* action is one call.                                                     *)
(*                                                                         *)
(* The array is part of the memory, and a read beside it finds what lies   *)
(* there.  A read behind the last byte that can be read ends the program.  *)
(***************************************************************************)
EXTENDS StreamReaderOp

CONSTANTS
  Memories,    \* what memory holds from the code on: a set of sequences of bytes
  CodeLengths  \* the lengths of code

ASSUME MemoriesAssumption    == Memories \subseteq Seq(Byte)
ASSUME CodeLengthsAssumption == CodeLengths \subseteq Nat

VARIABLES
  memory,   \* what can be read from BytecodeReader.code on
  size,     \* history: the length of the code
  codeLen,  \* BytecodeReader.code_len
  pc,       \* BytecodeReader.pc
  held,     \* whether the user holds the stream
  alive,    \* FALSE once a read has ended the program
  touched,  \* history: the indexes that were read
  said      \* what the last call returned and wrote

codeVars == <<memory, size, codeLen, pc, held, alive, touched, said>>

CodeInit ==
  /\ memory = <<>> /\ size = 0 /\ codeLen = 0 /\ pc = 0
  /\ held = FALSE
  /\ alive = TRUE
  /\ touched = {}
  /\ said = Answer("start", 0, <<>>)

-----------------------------------------------------------------------------
(* BytecodeReader_New.  It ends without "return stream": the user may be   *)
(* left with something that is no stream.  It stores any pc; that it is a  *)
(* place in the code is what the user has to see to.                       *)
BytecodeReader_New ==
  /\ alive /\ ~held
  /\ \/ /\ memory' \in Memories
        /\ size' \in CodeLengths \cap (0 .. Len(memory'))
        /\ codeLen' = size'
        /\ pc' \in 0 .. size'
        /\ held' = TRUE
        /\ said' = Answer("Open", 1, <<>>)
     \/ /\ said' = Answer("Open", 0, <<>>)
        /\ UNCHANGED <<memory, size, codeLen, pc, held>>
  /\ UNCHANGED <<alive, touched>>

(* bytecode_readUint8, 16 and 32: w times code[code_len++].                *)
bytecode_readUint(op, w) ==
  /\ alive /\ held
  /\ IF codeLen + w <= Len(memory)
     THEN /\ said' = Answer(op, 1, SubSeq(memory, codeLen + 1, codeLen + w))
          /\ touched' = touched \cup (codeLen .. codeLen + w - 1)
          /\ codeLen' = codeLen + w
          /\ UNCHANGED alive
     ELSE /\ alive' = FALSE
          /\ UNCHANGED <<said, touched, codeLen>>
  /\ UNCHANGED <<memory, size, pc, held>>

(* bytecode_readUint64 and bytecode_readBytes return EOF and nothing else. *)
bytecode_refuse(op) ==
  /\ alive /\ held
  /\ said' = Answer(op, EOF, <<>>)
  /\ UNCHANGED <<memory, size, codeLen, pc, held, alive, touched>>

bytecode_position ==
  /\ alive /\ held
  /\ said' = Answer("Position", pc, <<>>)
  /\ UNCHANGED <<memory, size, codeLen, pc, held, alive, touched>>

(* The definitions with a suffix are faulty variants: each breaks a        *)
(* property below and takes no part in the specification.                  *)

(* Faulty: a skip that moves pc without a look at where to. *)
bytecode_skip_Anywhere(d) ==
  /\ alive /\ held
  /\ pc' = pc + d
  /\ said' = Answer("Skip", 1, <<>>)
  /\ UNCHANGED <<memory, size, codeLen, held, alive, touched>>

(* bytecode_skip does nothing. *)
bytecode_skip(d) ==
  /\ alive /\ held
  /\ said' = Answer("Skip", 0, <<>>)
  /\ UNCHANGED <<memory, size, codeLen, pc, held, alive, touched>>

(* Faulty: the field the reads use is set back too. *)
bytecode_reset_Both ==
  /\ alive /\ held
  /\ pc' = 0 /\ codeLen' = 0
  /\ said' = Answer("Reset", 1, <<>>)
  /\ UNCHANGED <<memory, size, held, alive, touched>>

bytecode_reset ==
  /\ alive /\ held
  /\ pc' = 0
  /\ said' = Answer("Reset", 1, <<>>)
  /\ UNCHANGED <<memory, size, codeLen, held, alive, touched>>

-----------------------------------------------------------------------------
(* newBytecodeReaderOp: the bytes read by the function in each slot that   *)
(* reads.  The slot of ReadUint32 holds bytecode_readUint16.               *)
newBytecodeReaderOp == [ReadUint8 |-> 1, ReadUint16 |-> 2, ReadUint32 |-> 2]

CodeReadUint(op) ==
  IF op \in DOMAIN newBytecodeReaderOp
  THEN bytecode_readUint(op, newBytecodeReaderOp[op])
  ELSE bytecode_refuse(op)
CodeReadBytes(n) == bytecode_refuse("ReadBytes")

CodeNext ==
  \/ BytecodeReader_New
  \/ \E op \in DOMAIN Widths : CodeReadUint(op)
  \/ \E n \in Blocks : CodeReadBytes(n)
  \/ bytecode_position
  \/ \E d \in Distances : bytecode_skip(d)
  \/ bytecode_reset

CodeSpec == CodeInit /\ [][CodeNext]_codeVars

-----------------------------------------------------------------------------
(* The fields of the BytecodeReader stay in the memory that can be read.   *)
CodeTypeOK ==
  /\ memory \in Seq(Byte)
  /\ size \in 0 .. Len(memory)
  /\ codeLen \in 0 .. Len(memory)
  /\ pc \in 0 .. size
  /\ held \in BOOLEAN
  /\ alive \in BOOLEAN
  /\ touched \subseteq 0 .. Len(memory) - 1
  /\ said.op \in Slots
  /\ said.bytes \in Seq(Byte)

(* No read of the bytecode reader ever looks at the code it was made for,  *)
(* whatever is called in whatever order: the index is code_len, which      *)
(* starts at the end of the code, only grows, and is not what Reset resets.*)
CodeIsNeverRead == \A i \in touched : i >= size

(* BytecodeReader_New(code, code_len, pc) makes a stream of the code's     *)
(* bytes that stands at pc, as a user of StreamReaderOp understands it.    *)
CodeStream == INSTANCE ByteStream WITH
                content <- SubSeq(memory, 1, size), offset <- pc,
                open <- held, usable <- alive, reply <- Reported(said)
ReadsItsCode == CodeStream!Spec
=============================================================================
