-------------------------- MODULE FileStream_proof --------------------------
(***************************************************************************)
(* The file reader, for any files, handles, block sizes and distances: it  *)
(* never uses a FILE it has closed, and it implements ByteStream.  The one *)
(* invariant is FileTypeOK with NoDanglingHandle; what takes an argument   *)
(* is that fread's answer, a number of items, equals the size that was     *)
(* asked for only if that is all or nothing of at most one byte.           *)
(***************************************************************************)
EXTENDS FileStream, TLAPS

(* The parts of an answer, and what is reported of it. *)
LEMMA FileAnswerParts ==
  /\ \A op, ret, b : /\ Answer(op, ret, b).op = op
                     /\ Answer(op, ret, b).ret = ret
                     /\ Answer(op, ret, b).bytes = b
  /\ \A op, ret : Answer(op, ret, <<>>).bytes \in Seq(Byte)
  /\ \A op, ret : \A b \in Seq(Byte) : Answer(op, ret, b).bytes \in Seq(Byte)
  BY DEF Answer

TruthValued == {"Open", "Skip", "Reset"}

(* What an answer tells the user. *)
LEMMA WhatIsReported ==
  /\ \A op \in TruthValued : \A b :
       /\ Reported(Answer(op, 1, b)) = BS!Told(op, TRUE, b)
       /\ Reported(Answer(op, 0, b)) = BS!Told(op, FALSE, <<>>)
  /\ \A op, b : Reported(Answer(op, EOF, b)) = BS!Told(op, FALSE, <<>>)
  /\ \A op, ret, b : op \notin TruthValued /\ ret # EOF
       => Reported(Answer(op, ret, b)) = BS!Told(op, TRUE, b)
<1>1. \A op \in TruthValued : \A b :
        /\ Succeeded(Answer(op, 1, b)) = TRUE
        /\ Succeeded(Answer(op, 0, b)) = FALSE
  BY FileAnswerParts DEF Succeeded, TruthValued
<1>2. \A op, b : Succeeded(Answer(op, EOF, b)) = FALSE
  BY FileAnswerParts DEF Succeeded, EOF
<1>3. \A op, ret, b : op \notin TruthValued /\ ret # EOF => Succeeded(Answer(op, ret, b)) = TRUE
  BY FileAnswerParts DEF Succeeded, TruthValued
<1>4. \A op, ret, b : /\ Succeeded(Answer(op, ret, b)) = TRUE
                        => Reported(Answer(op, ret, b)) = Told(op, TRUE, b)
                      /\ Succeeded(Answer(op, ret, b)) = FALSE
                        => Reported(Answer(op, ret, b)) = Told(op, FALSE, <<>>)
  <2>1. TAKE op, ret, b
  <2>2. Reported(Answer(op, ret, b))
          = Told(op, Succeeded(Answer(op, ret, b)),
                 IF Succeeded(Answer(op, ret, b)) THEN b ELSE <<>>)
    BY FileAnswerParts DEF Reported
  <2>3. QED
    BY <2>2
<1>5. \A op, ok, b : Told(op, ok, b) = BS!Told(op, ok, b)
  BY DEF Told, BS!Told
<1> HIDE DEF TruthValued
<1>6. ASSUME NEW op, NEW ret, NEW b
      PROVE  /\ Succeeded(Answer(op, ret, b)) = TRUE
                => Reported(Answer(op, ret, b)) = BS!Told(op, TRUE, b)
             /\ Succeeded(Answer(op, ret, b)) = FALSE
                => Reported(Answer(op, ret, b)) = BS!Told(op, FALSE, <<>>)
  BY <1>4, <1>5
<1>7. ASSUME NEW op \in TruthValued, NEW b
      PROVE  /\ Reported(Answer(op, 1, b)) = BS!Told(op, TRUE, b)
             /\ Reported(Answer(op, 0, b)) = BS!Told(op, FALSE, <<>>)
  BY <1>1, <1>6
<1>8. ASSUME NEW op, NEW b
      PROVE  Reported(Answer(op, EOF, b)) = BS!Told(op, FALSE, <<>>)
  BY <1>2, <1>6
<1>9. ASSUME NEW op, NEW ret, NEW b, op \notin TruthValued, ret # EOF
      PROVE  Reported(Answer(op, ret, b)) = BS!Told(op, TRUE, b)
  BY <1>3, <1>6, <1>9
<1>10. QED
  BY <1>7, <1>8, <1>9

(* A size is never taken for EOF. *)
LEMMA NoNumberIsEOF == \A n \in Nat : n # EOF
  BY DEF EOF

(* The names of the slots. *)
LEMMA FileSlotNames ==
  /\ {"start", "Open", "Close", "ReadBytes", "Position", "Skip", "Reset"} \subseteq Slots
  /\ {"ReadUint8", "ReadUint16", "ReadUint32", "ReadUint64"} \subseteq Slots
  /\ DOMAIN Widths = {"ReadUint8", "ReadUint16", "ReadUint32", "ReadUint64"}
  /\ DOMAIN newFileStreamReaderOp = DOMAIN Widths
  BY DEF Slots, Widths, newFileStreamReaderOp

(* Of w bytes that make up one item, the number of items is w only when w  *)
(* is one byte that was taken, or no byte.                                 *)
LEMMA ItemsAreNotBytes ==
  ASSUME NEW w \in Nat, NEW taken \in 0 .. w, Items(w, taken) = w
  PROVE  w \in {0, 1} /\ taken = w
<1>1. CASE w = 0
  BY <1>1
<1>2. CASE w # 0
  <2>1. taken \div w <= 1
    <3>1. CASE taken = w
      BY <1>2, <3>1, w \div w = 1
    <3>2. CASE taken < w
      BY <1>2, <3>2, taken \div w = 0
    <3>3. QED
      BY <3>1, <3>2
  <2>2. w = 1
    BY <1>2, <2>1 DEF Items
  <2>3. taken = 1
    BY <2>2 DEF Items
  <2>4. QED
    BY <2>2, <2>3
<1>3. QED
  BY <1>1, <1>2

(* What fread may take lies in the file. *)
LEMMA TakenIsThere ==
  ASSUME FileTypeOK, NEW n \in Nat, NEW taken \in Taken(n, 1)
  PROVE  /\ taken \in 0 .. n
         /\ taken = 0 \/ offset + taken <= Len(content)
<1>1. Len(content) \in Nat /\ offset \in Nat
  BY DEF FileTypeOK
<1>2. n * 1 = n
  OBVIOUS
<1>3. AtMost(n) \in 0 .. n /\ (AtMost(n) = 0 \/ offset + AtMost(n) <= Len(content))
  BY <1>1 DEF AtMost, Rest
<1>4. taken \in 0 .. AtMost(n)
  BY <1>2, <1>3 DEF Taken
<1>5. QED
  BY <1>1, <1>3, <1>4

(* A piece of the file is a sequence of bytes. *)
LEMMA PieceIsBytes ==
  ASSUME FileTypeOK, NEW taken \in Nat,
         taken = 0 \/ offset + taken <= Len(content)
  PROVE  SubSeq(content, offset + 1, offset + taken) \in Seq(Byte)
  BY DEF FileTypeOK

-----------------------------------------------------------------------------
(* The types and the handles together are inductive. *)
FileIInv == FileTypeOK /\ NoDanglingHandle

(* Before FileReader_New no file is open. *)
LEMMA FileInitIInv == FileInit => FileIInv
  BY HandlesAssumption, FileSlotNames, FileAnswerParts DEF FileInit, FileIInv, FileTypeOK, NoDanglingHandle

(* Every call keeps the invariant. *)
LEMMA FileStepIInv ==
  ASSUME FileIInv, [FileNext]_fileVars
  PROVE  FileIInv'
<1> USE DEF FileIInv, FileTypeOK, NoDanglingHandle
<1>1. CASE FileReader_New
  BY FileAnswerParts, FileSlotNames, <1>1, HandlesAssumption, ContentsAssumption DEF FileReader_New
<1>2. CASE FileReader_Distroy
  BY FileAnswerParts, FileSlotNames, <1>2, HandlesAssumption DEF FileReader_Distroy
<1>3. ASSUME NEW op \in DOMAIN newFileStreamReaderOp, FileReadUint(op)
      PROVE  FileIInv'
  <2> DEFINE w == newFileStreamReaderOp[op]
  <2>1. op \in DOMAIN Widths /\ w \in {1, 2, 8}
    BY FileSlotNames DEF newFileStreamReaderOp
  <2> HIDE DEF w
  <2>2. CASE filestream_readUint(op, w)
    <3>1. PICK taken \in Taken(w, 1) :
            /\ offset' = offset + taken
            /\ \/ /\ Items(w, taken) # w
                  /\ answer' = Answer(op, EOF, <<>>)
               \/ /\ Items(w, taken) = w
                  /\ \E v \in Assembled(w, SubSeq(content, offset + 1, offset + taken)) :
                       answer' = Answer(op, 1, v)
      BY <2>2 DEF filestream_readUint
    <3>2. taken \in 0 .. w /\ (taken = 0 \/ offset + taken <= Len(content))
      BY <2>1, TakenIsThere
    <3>3. offset' \in Nat
      BY <3>1, <3>2, <2>1
    <3>4. answer'.op \in Slots /\ answer'.ret \in {EOF, 0, 1} /\ answer'.bytes \in Seq(Byte)
      <4>1. CASE Items(w, taken) # w
        BY FileAnswerParts, FileSlotNames, <3>1, <2>1, <4>1
      <4>2. CASE Items(w, taken) = w
        <5>1. w = 1 /\ taken = 1
          BY <2>1, <3>2, <4>2, ItemsAreNotBytes
        <5>2. answer' = Answer(op, 1, SubSeq(content, offset + 1, offset + taken))
          BY <3>1, <4>2, <5>1 DEF Assembled
        <5>3. SubSeq(content, offset + 1, offset + taken) \in Seq(Byte)
          BY <2>1, <3>2, PieceIsBytes
        <5>4. PICK b \in Seq(Byte) : answer' = Answer(op, 1, b)
          BY <5>2, <5>3
        <5>5. QED
          BY FileAnswerParts, FileSlotNames, <5>4, <2>1
      <4>3. QED
        BY <4>1, <4>2
    <3>5. QED
      BY <2>2, <3>3, <3>4 DEF filestream_readUint
  <2>3. CASE Refuse(op)
    BY FileAnswerParts, FileSlotNames, <2>1, <2>3 DEF  Refuse
  <2>4. QED
    BY <1>3, <2>2, <2>3 DEF FileReadUint, w
<1>4. ASSUME NEW n \in Blocks, FileReadBytes(n)
      PROVE  FileIInv'
  <2>1. n \in Nat
    BY BlocksAssumption
  <2>2. CASE filestream_readBytes(n)
    <3>1. PICK taken \in Taken(n, 1) :
            /\ offset' = offset + taken
            /\ answer' = Answer("ReadBytes", IF Items(n, taken) = n THEN n ELSE EOF,
                                SubSeq(content, offset + 1, offset + taken))
      BY <2>2 DEF filestream_readBytes
    <3>2. taken \in 0 .. n /\ (taken = 0 \/ offset + taken <= Len(content))
      BY <2>1, TakenIsThere
    <3>3. SubSeq(content, offset + 1, offset + taken) \in Seq(Byte)
      BY <3>2, PieceIsBytes
    <3>4. answer'.op \in Slots /\ answer'.ret \in {EOF} \cup Blocks /\ answer'.bytes \in Seq(Byte)
      <4>1. PICK b \in Seq(Byte), ret \in {EOF, n} : answer' = Answer("ReadBytes", ret, b)
        BY <3>1, <3>3
      <4>2. QED
        BY FileAnswerParts, FileSlotNames, <4>1
    <3>5. offset' \in Nat
      BY <2>1, <3>1, <3>2
    <3>6. QED
      BY <2>2, <3>4, <3>5 DEF filestream_readBytes
  <2>3. CASE Refuse("ReadBytes")
    BY FileAnswerParts, FileSlotNames, <2>3 DEF Refuse
  <2>4. QED
    BY <1>4, <2>2, <2>3 DEF FileReadBytes
<1>5. CASE FilePosition
  <2>1. running' \in BOOLEAN
    BY <1>5 DEF FilePosition, filestream_position, Refuse
  <2>2. answer'.op \in Slots /\ answer'.ret \in {EOF, 0, 1} /\ answer'.bytes \in Seq(Byte)
    BY <1>5, FileAnswerParts, FileSlotNames DEF FilePosition, filestream_position, Refuse
  <2>3. QED
    BY <1>5, <2>1, <2>2 DEF FilePosition, filestream_position, Refuse
<1>6. ASSUME NEW d \in Distances, FileSkip(d)
      PROVE  FileIInv'
  <2>1. running' \in BOOLEAN
    BY <1>6 DEF FileSkip, filestream_skip, Crash
  <2>2. offset' \in Nat
    BY <1>6, LongMaxAssumption DEF FileSkip, filestream_skip, Crash
  <2>3. answer'.op \in Slots /\ answer'.ret \in {EOF, 0, 1} /\ answer'.bytes \in Seq(Byte)
    BY <1>6, FileAnswerParts, FileSlotNames DEF FileSkip, filestream_skip, Crash
  <2>4. QED
    BY <1>6, <2>1, <2>2, <2>3 DEF FileSkip, filestream_skip, Crash
<1>7. CASE FileReset
  <2>1. running' \in BOOLEAN
    BY <1>7 DEF FileReset, filestream_reset, Crash
  <2>2. answer'.op \in Slots /\ answer'.ret \in {EOF, 0, 1} /\ answer'.bytes \in Seq(Byte)
    BY <1>7, FileAnswerParts, FileSlotNames DEF FileReset, filestream_reset, Crash
  <2>3. QED
    BY <1>7, <2>1, <2>2 DEF FileReset, filestream_reset, Crash
<1>8. CASE UNCHANGED fileVars
  BY <1>8 DEF fileVars
<1>9. QED
  BY <1>1, <1>2, <1>3, <1>4, <1>5, <1>6, <1>7, <1>8 DEF FileNext

(* Every call of filereader.c keeps the position a number and an open handle. *)
THEOREM FileInductive == FileSpec => []FileIInv
<1>1. QED
  BY FileInitIInv, FileStepIInv, PTL DEF FileSpec

(* The file position is a natural number and answers stay in their ranges. *)
THEOREM FileTypeCorrect == FileSpec => []FileTypeOK
<1>1. FileIInv => FileTypeOK
  BY DEF FileIInv
<1>2. QED
  BY <1>1, FileInductive, PTL

(* No FILE is used after it was closed, however often the reader is closed *)
(* and whatever is called on it afterwards.                                *)
THEOREM ClosedIsForgotten == FileSpec => []NoDanglingHandle
<1>1. FileIInv => NoDanglingHandle
  BY DEF FileIInv
<1>2. QED
  BY <1>1, FileInductive, PTL

-----------------------------------------------------------------------------
(* No stream yet is a closed ByteStream. *)
LEMMA FileInitImplements == FileInit => BS!Init
<1> SUFFICES ASSUME FileInit
             PROVE  BS!Init
  OBVIOUS
<1>1. Reported(answer) = BS!Told("start", TRUE, <<>>)
  <2>1. answer = Answer("start", 0, <<>>)
    BY DEF FileInit
  <2>2. 0 # EOF /\ "start" \notin TruthValued
    BY NoNumberIsEOF DEF TruthValued
  <2>3. QED
    BY <2>1, <2>2, WhatIsReported
<1>2. content \in Seq(Byte) /\ offset \in 0 .. Len(content)
  BY DEF FileInit
<1>3. (fp \in Handles) \in BOOLEAN /\ running = TRUE
  BY DEF FileInit
<1>4. QED
  BY <1>1, <1>2, <1>3 DEF BS!Init

(* Every call is one that a ByteStream may answer so. *)
LEMMA FileStepImplements ==
  ASSUME FileIInv, [FileNext]_fileVars
  PROVE  [BS!Next]_BS!vars
<1> USE DEF FileIInv, FileTypeOK
<1>1. CASE FileReader_New
  <2>1. CASE fp' \in Handles
    <3>1. Reported(answer') = BS!Told("Open", TRUE, <<>>)
      <4>1. answer' = Answer("Open", 1, <<>>)
        BY <1>1, <2>1, HandlesAssumption DEF FileReader_New
      <4>2. QED
        BY <4>1, WhatIsReported DEF TruthValued
    <3>2. BS!Open
      BY <1>1, <2>1, <3>1, ContentsAssumption, HandlesAssumption DEF FileReader_New, BS!Open
    <3>3. QED
      BY <3>2 DEF BS!Next
  <2>2. CASE fp' \notin Handles
    <3>1. Reported(answer') = BS!Told("Open", FALSE, <<>>)
      <4>1. answer' = Answer("Open", 0, <<>>)
        BY <1>1, <2>2 DEF FileReader_New
      <4>2. QED
        BY <4>1, WhatIsReported DEF TruthValued
    <3>2. BS!OpenFails
      BY <1>1, <2>2, <3>1 DEF FileReader_New, BS!OpenFails
    <3>3. QED
      BY <3>2 DEF BS!Next
  <2>3. QED
    BY <2>1, <2>2
<1>2. CASE FileReader_Distroy
  <2>1. Reported(answer') = BS!Told("Close", TRUE, <<>>)
    <3>1. answer' = Answer("Close", 0, <<>>)
      BY <1>2 DEF FileReader_Distroy
    <3>2. 0 # EOF /\ "Close" \notin TruthValued
      BY NoNumberIsEOF DEF TruthValued
    <3>3. QED
      BY <3>1, <3>2, WhatIsReported
  <2>2. BS!Close
    <3>1. running /\ UNCHANGED <<content, offset, running>> /\ fp' \notin Handles
      BY <1>2, HandlesAssumption DEF FileReader_Distroy
    <3>2. (fp' \in Handles) = FALSE
      BY <3>1
    <3>3. QED
      BY <2>1, <3>1, <3>2 DEF BS!Close
  <2>3. QED
    BY <2>2 DEF BS!Next
<1>3. ASSUME NEW op \in DOMAIN newFileStreamReaderOp, FileReadUint(op)
      PROVE  BS!Next
  <2> DEFINE w == newFileStreamReaderOp[op]
  <2>1. /\ op \in DOMAIN Widths /\ op \notin {"Open", "Skip", "Reset"}
        /\ w \in {1, 2, 8} /\ Widths[op] \in Nat /\ w <= Widths[op]
        /\ w = 1 => Widths[op] = 1
        /\ BS!Widths = Widths
    BY DEF newFileStreamReaderOp, Widths, BS!Widths
  <2> HIDE DEF w
  <2>2. Reported(Answer(op, EOF, <<>>)) = BS!Told(op, FALSE, <<>>)
    BY WhatIsReported
  <2>3. BS!Fail(op, Widths[op]) \/ BS!Deliver(op, Widths[op]) => BS!Next
    BY <2>1 DEF BS!Next
  <2>4. CASE filestream_readUint(op, w)
    <3>1. PICK taken \in Taken(w, 1) :
            /\ offset' = offset + taken
            /\ \/ /\ Items(w, taken) # w
                  /\ answer' = Answer(op, EOF, <<>>)
               \/ /\ Items(w, taken) = w
                  /\ \E v \in Assembled(w, SubSeq(content, offset + 1, offset + taken)) :
                       answer' = Answer(op, 1, v)
      BY <2>4 DEF filestream_readUint
    <3>2. taken \in 0 .. w /\ (taken = 0 \/ offset + taken <= Len(content))
      BY <2>1, TakenIsThere
    <3>3. /\ running /\ fp \in Handles
          /\ UNCHANGED <<fp, content, running>>
      BY <2>4 DEF filestream_readUint
    <3>4. CASE Items(w, taken) # w
      <4>1. Reported(answer') = BS!Told(op, FALSE, <<>>)
        BY <3>1, <3>4, <2>2
      <4>2. BS!Fail(op, Widths[op])
        BY <3>1, <3>2, <3>3, <4>1, <2>1 DEF BS!Fail
      <4>3. QED
        BY <4>2, <2>3
    <3>5. CASE Items(w, taken) = w
      <4>1. w = 1 /\ taken = 1
        BY <2>1, <3>2, <3>5, ItemsAreNotBytes
      <4>2. answer' = Answer(op, 1, SubSeq(content, offset + 1, offset + taken))
        BY <3>1, <3>5, <4>1 DEF Assembled
      <4>3. Reported(answer') = BS!Told(op, TRUE, SubSeq(content, offset + 1, offset + taken))
        <5>1. 1 # EOF /\ op \notin TruthValued
          BY <2>1, NoNumberIsEOF DEF TruthValued
        <5>2. \A b : Reported(Answer(op, 1, b)) = BS!Told(op, TRUE, b)
          BY <5>1, WhatIsReported
        <5>3. QED
          BY <4>2, <5>2
      <4>4. BS!Deliver(op, Widths[op])
        BY <3>1, <3>2, <3>3, <4>1, <4>3, <2>1 DEF BS!Deliver
      <4>5. QED
        BY <4>4, <2>3
    <3>6. QED
      BY <3>4, <3>5
  <2>5. CASE Refuse(op)
    <3>1. Reported(answer') = BS!Told(op, FALSE, <<>>)
      BY <2>2, <2>5 DEF Refuse
    <3>2. BS!Fail(op, Widths[op])
      <4>1. running /\ UNCHANGED <<fp, content, offset, running>>
        BY <2>5 DEF Refuse
      <4>2. /\ 0 \in 0 .. Widths[op]
            /\ offset' = offset + 0
        BY <2>1, <4>1
      <4>3. QED
        BY <3>1, <4>1, <4>2 DEF BS!Fail
    <3>3. QED
      BY <3>2, <2>3
  <2>6. QED
    BY <1>3, <2>4, <2>5 DEF FileReadUint, w
<1>4. ASSUME NEW n \in Blocks, FileReadBytes(n)
      PROVE  BS!Next
  <2>1. n \in Nat
    BY BlocksAssumption
  <2>2. BS!Fail("ReadBytes", n) \/ BS!Deliver("ReadBytes", n) => BS!Next
    BY DEF BS!Next
  <2>3. \A b : Reported(Answer("ReadBytes", EOF, b)) = BS!Told("ReadBytes", FALSE, <<>>)
    BY WhatIsReported
  <2>4. CASE filestream_readBytes(n)
    <3>1. PICK taken \in Taken(n, 1) :
            /\ offset' = offset + taken
            /\ answer' = Answer("ReadBytes", IF Items(n, taken) = n THEN n ELSE EOF,
                                SubSeq(content, offset + 1, offset + taken))
      BY <2>4 DEF filestream_readBytes
    <3>2. taken \in 0 .. n /\ (taken = 0 \/ offset + taken <= Len(content))
      BY <2>1, TakenIsThere
    <3>3. /\ running /\ fp \in Handles
          /\ UNCHANGED <<fp, content, running>>
      BY <2>4 DEF filestream_readBytes
    <3>4. CASE Items(n, taken) # n
      <4>1. Reported(answer') = BS!Told("ReadBytes", FALSE, <<>>)
        BY <3>1, <3>4, <2>3
      <4>2. BS!Fail("ReadBytes", n)
        BY <3>1, <3>2, <3>3, <4>1, <2>1 DEF BS!Fail
      <4>3. QED
        BY <4>2, <2>2
    <3>5. CASE Items(n, taken) = n
      <4>1. taken = n
        BY <2>1, <3>2, <3>5, ItemsAreNotBytes
      <4>2. answer' = Answer("ReadBytes", n, SubSeq(content, offset + 1, offset + n))
        BY <3>1, <3>5, <4>1
      <4>3. Reported(answer') =
              BS!Told("ReadBytes", TRUE, SubSeq(content, offset + 1, offset + n))
        <5>1. n # EOF /\ "ReadBytes" \notin TruthValued
          BY <2>1, NoNumberIsEOF DEF TruthValued
        <5>2. \A b : Reported(Answer("ReadBytes", n, b)) = BS!Told("ReadBytes", TRUE, b)
          BY <5>1, WhatIsReported
        <5>3. QED
          BY <4>2, <5>2
      <4>4. BS!Deliver("ReadBytes", n)
        BY <3>1, <3>2, <3>3, <4>1, <4>3, <2>1 DEF BS!Deliver
      <4>5. QED
        BY <4>4, <2>2
    <3>6. QED
      BY <3>4, <3>5
  <2>5. CASE Refuse("ReadBytes")
    <3>1. Reported(answer') = BS!Told("ReadBytes", FALSE, <<>>)
      BY <2>3, <2>5 DEF Refuse
    <3>2. BS!Fail("ReadBytes", n)
      <4>1. running /\ UNCHANGED <<fp, content, offset, running>>
        BY <2>5 DEF Refuse
      <4>2. 0 \in 0 .. n /\ offset' = offset + 0
        BY <2>1, <4>1
      <4>3. QED
        BY <3>1, <4>1, <4>2 DEF BS!Fail
    <3>3. QED
      BY <3>2, <2>2
  <2>6. QED
    BY <1>4, <2>4, <2>5 DEF FileReadBytes
<1>5. CASE FilePosition
  <2>1. PICK ret : answer' = Answer("Position", ret, <<>>)
    BY <1>5 DEF FilePosition, filestream_position, Refuse
  <2>2. PICK ok \in BOOLEAN : Reported(answer') = BS!Told("Position", ok, <<>>)
    <3>1. "Position" \notin TruthValued
      BY DEF TruthValued
    <3>2. CASE ret = EOF
      BY <2>1, <3>2, WhatIsReported
    <3>3. CASE ret # EOF
      <4>1. PICK b : b = <<>>
        OBVIOUS
      <4>2. Reported(answer') = BS!Told("Position", TRUE, b)
        BY <2>1, <3>1, <3>3, <4>1, WhatIsReported
      <4>3. QED
        BY <4>1, <4>2
    <3>4. QED
      BY <3>2, <3>3
  <2>3. CASE running'
    <3>1. BS!Position
      BY <1>5, <2>2, <2>3 DEF FilePosition, filestream_position, Refuse, BS!Position
    <3>2. QED
      BY <3>1 DEF BS!Next
  <2>4. CASE ~running'
    <3>1. answer' = Answer("Position", EOF, <<>>)
      BY <1>5, <2>4 DEF FilePosition, filestream_position, Refuse
    <3>2. Reported(answer') = BS!Told("Position", FALSE, <<>>)
      BY <3>1, WhatIsReported
    <3>3. BS!Crash("Position")
      BY <1>5, <2>4, <3>2 DEF FilePosition, filestream_position, Refuse, BS!Crash
    <3>4. QED
      BY <3>3 DEF BS!Next
  <2>5. QED
    BY <2>3, <2>4
<1>6. ASSUME NEW op \in {"Skip", "Reset"}, running, fp = NULL, Crash(op)
      PROVE  BS!Next
  <2>1. Reported(answer') = BS!Told(op, FALSE, <<>>)
    BY <1>6, WhatIsReported DEF Crash
  <2>2. BS!Crash(op)
    BY <1>6, <2>1, HandlesAssumption DEF Crash, BS!Crash
  <2>3. QED
    BY <2>2 DEF BS!Next
<1>7. ASSUME NEW d \in Distances, FileSkip(d)
      PROVE  BS!Next
  <2>1. CASE filestream_skip(d)
    <3>1. CASE offset + d \in 0 .. LongMax
      <4>1. Reported(answer') = BS!Told("Skip", TRUE, <<>>)
        <5>1. answer' = Answer("Skip", 1, <<>>)
          BY <2>1, <3>1 DEF filestream_skip
        <5>2. QED
          BY <5>1, WhatIsReported DEF TruthValued
      <4>2. /\ running /\ fp \in Handles
            /\ offset' = offset + d /\ offset + d >= 0
            /\ UNCHANGED <<fp, content, running>>
        BY <2>1, <3>1 DEF filestream_skip
      <4>3. BS!Skip(d)
        BY <4>1, <4>2 DEF BS!Skip
      <4>4. QED
        BY <4>3 DEF BS!Next
    <3>2. CASE offset + d \notin 0 .. LongMax
      <4>1. Reported(answer') = BS!Told("Skip", FALSE, <<>>)
        <5>1. answer' = Answer("Skip", 0, <<>>)
          BY <2>1, <3>2 DEF filestream_skip
        <5>2. QED
          BY <5>1, WhatIsReported DEF TruthValued
      <4>2. /\ running /\ fp \in Handles
            /\ UNCHANGED <<fp, content, offset, running>>
        BY <2>1, <3>2 DEF filestream_skip
      <4>3. BS!Skip(d)
        BY <4>1, <4>2 DEF BS!Skip
      <4>4. QED
        BY <4>3 DEF BS!Next
    <3>3. QED
      BY <3>1, <3>2
  <2>2. QED
    BY <1>6, <1>7, <2>1 DEF FileSkip
<1>8. CASE FileReset
  <2>1. CASE filestream_reset
    <3>1. Reported(answer') = BS!Told("Reset", TRUE, <<>>)
      BY <2>1, WhatIsReported DEF filestream_reset, TruthValued
    <3>2. BS!Reset
      BY <2>1, <3>1 DEF filestream_reset, BS!Reset
    <3>3. QED
      BY <3>2 DEF BS!Next
  <2>2. QED
    BY <1>6, <1>8, <2>1 DEF FileReset
<1>9. CASE UNCHANGED fileVars
  BY <1>9 DEF fileVars, BS!vars
<1>10. QED
  BY <1>1, <1>2, <1>3, <1>4, <1>5, <1>7, <1>8, <1>9 DEF FileNext

(* Whatever is reported as read are the next bytes of the file, all that   *)
(* was asked for, through opens, closes and seeks in any order.            *)
THEOREM FileRefinement == FileSpec => ImplementsByteStream
<1>1. QED
  BY FileInitImplements, FileStepImplements, FileInductive, PTL
  DEF FileSpec, ImplementsByteStream, BS!Spec
=============================================================================
