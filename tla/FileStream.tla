----------------------------- MODULE FileStream -----------------------------
(***************************************************************************)
(* The file reader (src/src/stream/filereader.c): a FILE handle behind the *)
(* function pointers of StreamReaderOp.  One action is one call.           *)
(*                                                                         *)
(* The C library is external: fread takes up to size * nmemb bytes and     *)
(* answers how many items of the given size they make up; fseek refuses a  *)
(* place before the first byte or beyond the largest offset.  A call with  *)
(* undefined behaviour may end the program.                                *)
(***************************************************************************)
EXTENDS StreamReaderOp

CONSTANTS
  Contents,  \* what the files hold: a set of sequences of bytes
  Handles,   \* the FILE objects of the C library
  NULL,      \* the null pointer
  NoStream,  \* the user holds no stream
  LongMax,   \* the largest offset of a file
  MayFail    \* whether fread may stop before the end (an input error)

ASSUME ContentsAssumption  == Contents \subseteq Seq(Byte)
ASSUME HandlesAssumption   == NULL \notin Handles /\ NoStream \notin Handles
ASSUME LongMaxAssumption   == LongMax \in Nat
ASSUME MayFailAssumption   == MayFail \in BOOLEAN

VARIABLES
  fp,        \* FileStream.fp of the user's stream, NULL once it is closed
  openFiles, \* the FILE objects that are open
  content,   \* what the user's file holds
  offset,    \* its file position
  running,   \* FALSE once undefined behaviour has ended the program
  answer     \* what the last call returned and wrote: [op, ret, bytes]

fileVars == <<fp, openFiles, content, offset, running, answer>>

FileInit ==
  /\ fp = NoStream
  /\ openFiles = {}
  /\ content = <<>>
  /\ offset = 0
  /\ running = TRUE
  /\ answer = Answer("start", 0, <<>>)

-----------------------------------------------------------------------------
(* FileReader_New.  It ends without "return stream", so that the user may  *)
(* be left with something that is no stream; the file is open all the      *)
(* same.  A user has one stream at a time.                                 *)
FileReader_New ==
  /\ running /\ fp \notin Handles
  /\ \/ /\ fp' = NoStream            \* fopen has failed
        /\ answer' = Answer("Open", 0, <<>>)
        /\ UNCHANGED <<openFiles, content, offset>>
     \/ \E h \in Handles \ openFiles :
          /\ openFiles' = openFiles \cup {h}
          /\ \/ /\ fp' = h
                /\ content' \in Contents
                /\ offset' = 0
                /\ answer' = Answer("Open", 1, <<>>)
             \/ /\ fp' = NoStream    \* the stream is lost
                /\ answer' = Answer("Open", 0, <<>>)
                /\ UNCHANGED <<content, offset>>
  /\ UNCHANGED running

(* The definitions with a suffix are faulty variants: each breaks a        *)
(* property below and takes no part in the specification.                  *)

(* Faulty: the handle is kept. *)
FileReader_Distroy_Kept ==
  /\ running /\ fp # NoStream
  /\ openFiles' = openFiles \ {fp}
  /\ answer' = Answer("Close", 0, <<>>)
  /\ UNCHANGED <<fp, content, offset, running>>

(* FileReader_Distroy, which may be called again. *)
FileReader_Distroy ==
  /\ running /\ fp # NoStream
  /\ openFiles' = openFiles \ {fp}
  /\ fp' = NULL
  /\ answer' = Answer("Close", 0, <<>>)
  /\ UNCHANGED <<content, offset, running>>

(* A call of op on a stream whose handle is NULL: the reads and Position   *)
(* look at it, ...                                                         *)
Refuse(op) ==
  /\ running /\ fp = NULL
  /\ answer' = Answer(op, EOF, <<>>)
  /\ UNCHANGED <<fp, openFiles, content, offset, running>>

(* ... Skip and Reset hand it to fseek.                                    *)
Crash(op) ==
  /\ running' = FALSE
  /\ answer' = Answer(op, EOF, <<>>)
  /\ UNCHANGED <<fp, openFiles, content, offset>>

-----------------------------------------------------------------------------
(* fread(ptr, size, nmemb, fp): the bytes it may take, and its result.     *)
Rest == IF offset < Len(content) THEN Len(content) - offset ELSE 0
AtMost(n) == IF n < Rest THEN n ELSE Rest
Taken(size, nmemb) ==
  IF MayFail THEN 0 .. AtMost(size * nmemb) ELSE {AtMost(size * nmemb)}
(* Faulty: the number of bytes, as the callers take it. *)
Items_OfOne(size, taken) == taken
Items(size, taken) == IF size = 0 THEN 0 ELSE taken \div size

(* What a read of w bytes makes of buf: for one byte the byte.  For more,  *)
(* buf[0]<<8 + buf[1] and the longer sums shift by the sums of bytes,      *)
(* which is undefined as a rule; no call gets that far.                    *)
Assembled(w, buf) == IF w = 1 THEN {buf} ELSE [1 .. w -> Byte]

(* filestream_readUint8, 16, 32 and 64, which differ in the size of buf    *)
(* only: fread is asked for sizeof(uint8_t), one, item of w bytes, and its *)
(* result, the number of items, is compared with w.                        *)
filestream_readUint(op, w) ==
  /\ running /\ fp \in Handles
  /\ \E taken \in Taken(w, 1) :
       /\ offset' = offset + taken
       /\ \/ /\ Items(w, taken) # w
             /\ answer' = Answer(op, EOF, <<>>)
          \/ /\ Items(w, taken) = w
             /\ \E v \in Assembled(w, SubSeq(content, offset + 1, offset + taken)) :
                  answer' = Answer(op, 1, v)
  /\ UNCHANGED <<fp, openFiles, content, running>>

(* filestream_readBytes: the same comparison, but the user's own buffer    *)
(* takes the bytes, also when EOF is returned.                             *)
filestream_readBytes(n) ==
  /\ running /\ fp \in Handles
  /\ \E taken \in Taken(n, 1) :
       /\ offset' = offset + taken
       /\ answer' = Answer("ReadBytes", IF Items(n, taken) = n THEN n ELSE EOF,
                           SubSeq(content, offset + 1, offset + taken))
  /\ UNCHANGED <<fp, openFiles, content, running>>

(* filestream_position hands the Stream, which is no FILE, to ftell. *)
filestream_position ==
  /\ running /\ fp \in Handles
  /\ \/ /\ \E ret \in {EOF, 0} : answer' = Answer("Position", ret, <<>>)
        /\ UNCHANGED running
     \/ /\ answer' = Answer("Position", EOF, <<>>)
        /\ running' = FALSE
  /\ UNCHANGED <<fp, openFiles, content, offset>>

(* Faulty: the reader counts by itself. *)
filestream_skip_Anywhere(d) ==
  /\ running /\ fp \in Handles
  /\ offset' = offset + d
  /\ answer' = Answer("Skip", 1, <<>>)
  /\ UNCHANGED <<fp, openFiles, content, running>>

(* filestream_skip and filestream_reset return a truth value. *)
filestream_skip(d) ==
  /\ running /\ fp \in Handles
  /\ IF offset + d \in 0 .. LongMax
     THEN offset' = offset + d /\ answer' = Answer("Skip", 1, <<>>)
     ELSE offset' = offset /\ answer' = Answer("Skip", 0, <<>>)
  /\ UNCHANGED <<fp, openFiles, content, running>>

filestream_reset ==
  /\ running /\ fp \in Handles
  /\ offset' = 0
  /\ answer' = Answer("Reset", 1, <<>>)
  /\ UNCHANGED <<fp, openFiles, content, running>>

-----------------------------------------------------------------------------
(* newFileStreamReaderOp: the width of the function in each slot.  The     *)
(* slot of ReadUint32 holds filestream_readUint16.                         *)
newFileStreamReaderOp ==
  [ReadUint8 |-> 1, ReadUint16 |-> 2, ReadUint32 |-> 2, ReadUint64 |-> 8]

(* The user's calls through the function pointers. *)
FileReadUint(op) ==
  filestream_readUint(op, newFileStreamReaderOp[op]) \/ Refuse(op)
FileReadBytes(n) == filestream_readBytes(n) \/ Refuse("ReadBytes")
FilePosition     == filestream_position \/ Refuse("Position")
FileSkip(d)      == filestream_skip(d) \/ (running /\ fp = NULL /\ Crash("Skip"))
FileReset        == filestream_reset \/ (running /\ fp = NULL /\ Crash("Reset"))

FileNext ==
  \/ FileReader_New \/ FileReader_Distroy
  \/ \E op \in DOMAIN newFileStreamReaderOp : FileReadUint(op)
  \/ \E n \in Blocks : FileReadBytes(n)
  \/ FilePosition
  \/ \E d \in Distances : FileSkip(d)
  \/ FileReset

FileSpec == FileInit /\ [][FileNext]_fileVars

-----------------------------------------------------------------------------
(* The file position is never negative and the open files are FILEs.       *)
FileTypeOK ==
  /\ fp \in Handles \cup {NULL, NoStream}
  /\ openFiles \subseteq Handles
  /\ content \in Seq(Byte)
  /\ offset \in Nat
  /\ running \in BOOLEAN
  /\ answer.op \in Slots
  /\ answer.ret \in {EOF, 0, 1} \cup Blocks
  /\ answer.bytes \in Seq(Byte)

(* A stream that is not closed has an open file: filereader.c never hands  *)
(* a FILE to fread, fseek or fclose after it was closed, however often     *)
(* FileReader_Distroy is called and whatever is called afterwards.         *)
NoDanglingHandle == fp \in Handles => fp \in openFiles

(* A read answers EOF ("Reading file error") only if the file has not as    *)
(* many bytes left as the slot of the read is named for.                   *)
ReadErrorIsEndOfFile ==
  \A op \in DOMAIN Widths :
    fp \in Handles /\ answer'.op = op /\ answer'.ret = EOF => Rest < Widths[op]

(* A closed stream answers ("Empty file handler."): no call of it ends the *)
(* program.                                                                *)
ClosedStreamAnswers == fp = NULL => running'

(* Position tells where the stream is, as the error messages of            *)
(* classfile.c have it ("EOF of name_index at position %ld").              *)
PositionIsTheOffset ==
  fp \in Handles /\ answer'.op = "Position" => answer'.ret = offset

(* FileReader_New leaves its caller without a stream only after "Unable to *)
(* open file for reading", and then it has opened nothing.                 *)
FileComesWithStream ==
  answer'.op = "Open" /\ fp' = NoStream => openFiles' = openFiles

(* The calls do what their messages say of them. *)
AnswerIsRight ==
  /\ ReadErrorIsEndOfFile /\ ClosedStreamAnswers
  /\ PositionIsTheOffset /\ FileComesWithStream

BS == INSTANCE ByteStream WITH
        open <- fp \in Handles, usable <- running, reply <- Reported(answer)

(* Whatever the file reader reports as read are the next bytes of the      *)
(* file, all that was asked for and in order, with no byte lost between    *)
(* two reads that succeed, through opens, closes and seeks.                *)
ImplementsByteStream == BS!Spec
=============================================================================
