-------------------------- MODULE ClassFileLoader --------------------------
(***************************************************************************)
(* LoadClassFile and the parsers below it (src/src/classfile/classfile.c)  *)
(* as one sequential machine over a stream reader: a stack of C calls,     *)
(* each with what is left of its script, the constant pool, and the bytes  *)
(* left in the stream.  One step is one read (with the test of its result) *)
(* or one call or return.                                                  *)
(*                                                                         *)
(* The stream is any implementation of StreamReaderOp (include/stream.h).  *)
(* What a caller sees of it is the int a read returns and whether the      *)
(* value was written; which ints mean what is a convention between the     *)
(* two, given here by OkReturns and EofReturns.  The loader's side of it   *)
(* is the test 0 <= result, which it takes for a failure everywhere.       *)
(***************************************************************************)
EXTENDS ClassFileScript, NameEquality

CONSTANTS
  Files,      \* what the stream may hold: a set of records
              \*   bytes        its length
              \*   poolCounts   the values of constant_pool_count
              \*   counts       the other counts, the lengths of blobs
              \*   lengths      the attribute_length that is skipped over
              \*   tags, texts  the kinds of pool entries, the text of the Utf8 ones
              \*   names        the name_index of attributes
              \*   elements, targets   the tags of annotations
              \*   bad          whether a checked value may be a wrong one
  OkReturns,  \* the results of a read that delivered its value
  EofReturns, \* the results of a read that did not
  Spelling    \* the bytes of each text, and of the name of each attribute

ASSUME ReturnsAssumption == OkReturns \subseteq Int /\ EofReturns \subseteq Int

(* Counts, indices and lengths are not negative. *)
ASSUME FilesAssumption ==
  \A f \in Files :
    /\ f.bytes \in Nat /\ f.poolCounts \subseteq Nat /\ f.counts \subseteq Nat
    /\ f.lengths \subseteq Nat /\ f.names \subseteq Nat
    /\ f.tags \subseteq DOMAIN EntryParser /\ "crash" \notin f.texts
    /\ f.bad \in BOOLEAN

(* The names the parser compares with are different ASCII strings. *)
ASSUME SpellingAssumption ==
  /\ \A name \in DOMAIN AttributeParser :
       LET ascii == Spelling[name] IN
       WholeString(ascii) /\ \A i \in 1 .. Len(ascii) : ascii[i] \notin Continuation
  /\ \A n1, n2 \in DOMAIN AttributeParser : Spelling[n1] = Spelling[n2] => n1 = n2

VARIABLES
  stack,   \* the C calls: [fn, todo, keep], the running one last
  phase,   \* "parsing", "null" (the running function returns NULL),
           \*   "loaded", "failed" (LoadClassFile returned NULL), "crashed"
  pool,    \* classfile->constant_pool, elements 1 .. constant_pool_count - 1
  count,   \* classfile->constant_pool_count
  left,    \* the bytes not yet read
  short,   \* history: some read did not deliver its value
  file     \* what the stream holds

vars == <<stack, phase, pool, count, left, short, file>>

NoEntry == [tag |-> "none", text |-> "none"]

Frame(fn, n) == [fn |-> fn, todo |-> Copies(Script[fn], n), keep |-> 0]

Init ==
  /\ stack = <<Frame("LoadClassFile", 1)>>
  /\ phase = "parsing"
  /\ pool = <<>>
  /\ count = 0
  /\ file \in Files
  /\ left = file.bytes
  /\ short = FALSE

-----------------------------------------------------------------------------
(* The running call and its next instruction. *)
This      == stack[Len(stack)]
Ins       == Head(This.todo)
Doing(op) == phase = "parsing" /\ This.todo # <<>> /\ Ins.op = op

(* The stack after the instruction, with code to run before the rest. *)
Goto(code) == [stack EXCEPT ![Len(stack)].todo = code \o Tail(@)]

(* The same, calling fn. *)
Enter(code, fn, n) == Append(Goto(code), Frame(fn, n))

(* What the stream holds where a value is read ... *)
Held(what) ==
  CASE what \in {"any", "bytes"} -> {0}
    [] what = "magic"     -> IF file.bad THEN {0, 1} ELSE {1}
    [] what = "minor"     -> IF file.bad THEN {0, 3} ELSE {0}
    [] what = "major"     -> IF file.bad THEN {44, 45, 46, 52, 53} ELSE {45, 52}
    [] what = "zero"      -> IF file.bad THEN {0, 2} ELSE {0}
    [] what = "two"       -> IF file.bad THEN {0, 2} ELSE {2}
    [] what = "index"     -> IF file.bad THEN 0 .. count ELSE 1 .. count - 1
    [] what = "poolCount" -> file.poolCounts
    [] what = "count"     -> file.counts
    [] what = "length"    -> file.lengths
    [] what = "name"      -> file.names
    [] what = "tag"       -> file.tags \cup (IF file.bad THEN {"other"} ELSE {})
    [] what = "element"   -> file.elements \cup (IF file.bad THEN {"other"} ELSE {})
    [] what = "target"    -> file.targets

(* ... and what the variable holds if the read does not write it: the zero *)
(* of GC_malloc or of an initialiser (no known tag, but target_type 0x00), *)
(* or what was on the C stack for the name_index of parseAttributes.       *)
Unwritten(what) ==
  CASE what = "name"             -> file.names
    [] what \in {"tag", "element"} -> {"other"}
    [] what = "target"           -> {"parameter"}
    [] OTHER                     -> {0}

(* The checks of values: 1 stands for CONST_CLASSFILE_MAGIC. *)
Passes(what, v) ==
  CASE what = "magic" -> v = 1
    [] what = "major" -> v = 45 \/ (v \in 46 .. 52 /\ This.keep = 0)
    [] what = "zero"  -> v = 0
    [] what = "two"   -> v = 2
    [] what = "index" -> v # 0 /\ v < count

(* The definitions with a suffix are faulty variants: each breaks a        *)
(* property below and takes no part in the specification.                  *)

(* Faulty: the end of the stream is run over. *)
Consume_Unchecked(w, wrote) == left' = left - w

(* A read of w bytes delivers them if it can; one that does not may still  *)
(* have taken some of them.                                                *)
Delivers(w, wrote) == wrote \in (IF w <= left THEN BOOLEAN ELSE {FALSE})
Consume(w, wrote) ==
  \E taken \in (IF wrote THEN {w} ELSE 0 .. (IF w < left THEN w ELSE left)) :
    left' = left - taken

(* if(0<=reader->Read...(stream, ptr)): the test of every read. *)
Refused(ret) == 0 <= ret
MayReturn(wrote, refused) ==
  \E ret \in (IF wrote THEN OkReturns ELSE EofReturns) : Refused(ret) = refused

(* The next instruction reads v and the test lets the function go on. *)
Accept(v) ==
  \E wrote \in BOOLEAN :
    /\ Delivers(Ins.w, wrote)
    /\ MayReturn(wrote, FALSE)
    /\ v \in (IF wrote THEN Held(Ins.what) ELSE Unwritten(Ins.what))
    /\ Consume(Ins.w, wrote)
    /\ short' = (short \/ ~wrote)

-----------------------------------------------------------------------------
(* Faulty: a failed read is tried again. *)
ReadRefused_Retries ==
  /\ phase = "parsing" /\ This.todo # <<>>
  /\ Ins.op \notin {"call", "skip", "store"}
  /\ \E wrote \in BOOLEAN :
       /\ Delivers(Ins.w, wrote)
       /\ MayReturn(wrote, TRUE)
       /\ Consume(Ins.w, wrote)
       /\ short' = (short \/ ~wrote)
  /\ UNCHANGED <<stack, phase, pool, count, file>>

(* A read the test takes for a failure: the function returns NULL. *)
ReadRefused ==
  /\ phase = "parsing" /\ This.todo # <<>>
  /\ Ins.op \notin {"call", "skip", "store"}
  /\ \E wrote \in BOOLEAN :
       /\ Delivers(Ins.w, wrote)
       /\ MayReturn(wrote, TRUE)
       /\ Consume(Ins.w, wrote)
       /\ short' = (short \/ ~wrote)
  /\ phase' = "null"
  /\ UNCHANGED <<stack, pool, count, file>>

(* A value that is stored. *)
ReadStored ==
  /\ Doing("u")
  /\ Accept(0)
  /\ stack' = Goto(<<>>)
  /\ UNCHANGED <<phase, pool, count, file>>

(* A value a later instruction of the function needs. *)
ReadKept ==
  /\ Doing("keep")
  /\ \E v \in Held(Ins.what) \cup {0} :
       /\ Accept(v)
       /\ stack' = [Goto(<<>>) EXCEPT ![Len(stack)].keep = v]
  /\ UNCHANGED <<phase, pool, count, file>>

(* Faulty: a wrong value is read again. *)
ReadTested_Rereads ==
  /\ Doing("test")
  /\ \E v \in Held(Ins.what) \cup {0} :
       /\ Accept(v)
       /\ stack' = IF Passes(Ins.what, v) THEN Goto(<<>>) ELSE stack
  /\ UNCHANGED <<phase, pool, count, file>>

(* A value that is compared: magic, version, a fixed length, an index. *)
ReadTested ==
  /\ Doing("test")
  /\ \E v \in Held(Ins.what) \cup {0} :
       /\ Accept(v)
       /\ IF Passes(Ins.what, v)
          THEN stack' = Goto(<<>>) /\ phase' = phase
          ELSE stack' = stack /\ phase' = "null"
  /\ UNCHANGED <<pool, count, file>>

(* A count and the loop it bounds, or a length and the bytes after it. *)
Loop(n) ==
  CASE Ins.op = "blob"  -> <<Bytes(n)>>
    [] Ins.op = "many"  -> Copies(Ins.arg, n)
    [] Ins.op = "many1" -> Copies(Ins.arg, IF n = 0 THEN 0 ELSE n - 1)

ReadCount ==
  /\ Doing("blob") \/ Doing("many") \/ Doing("many1")
  /\ \E n \in file.counts \cup {0} :
       Accept(n) /\ stack' = Goto(Loop(n))
  /\ UNCHANGED <<phase, pool, count, file>>

(* A count handed to parseFields, parseMethods or parseAttributes. *)
ReadMembers ==
  /\ Doing("callN")
  /\ \E n \in file.counts \cup {0} :
       Accept(n) /\ stack' = Enter(<<>>, Ins.arg, n)
  /\ UNCHANGED <<phase, pool, count, file>>

(* Faulty: a loop that ends at the count only if it meets it. *)
Entries_Unequal(i, n) == IF i # n THEN <<Entry(i)>> ELSE <<>>

(* constant_pool_count, and parseConstantPool up to its loop. *)
Entries(i, n) == IF i < n THEN <<Entry(i)>> ELSE <<>>

ReadPoolCount ==
  /\ Doing("pool")
  /\ \E n \in file.poolCounts \cup {0} :
       /\ Accept(n)
       /\ count' = n
       /\ pool' = [i \in 1 .. n - 1 |-> NoEntry]
       /\ stack' = Append(Goto(<<>>), [fn |-> "parseConstantPool",
                                       todo |-> Entries(1, n), keep |-> 0])
  /\ UNCHANGED <<phase, file>>

(* The tag of an entry: a known one calls its parser. *)
ReadEntry ==
  /\ Doing("entry")
  /\ \E tag \in file.tags \cup {"other"} :
       /\ Accept(tag)
       /\ IF tag \in DOMAIN EntryParser
          THEN /\ stack' = Enter(<<Store(Ins.arg, tag)>>, EntryParser[tag], 1)
               /\ phase' = phase
          ELSE stack' = stack /\ phase' = "null"
  /\ UNCHANGED <<pool, count, file>>

(* array[i] = the entry, and the loop's increment: a Long or a Double      *)
(* takes two elements of the pool.                                         *)
Wide(tag) == tag \in {"Long", "Double"}

(* Faulty: the increment is left out. *)
StoreEntry_Narrow ==
  /\ Doing("store")
  /\ \E text \in (IF Ins.what = "Utf8" THEN file.texts ELSE {"none"}) :
       pool' = [pool EXCEPT ![Ins.arg] = [tag |-> Ins.what, text |-> text]]
  /\ stack' = Goto(Entries(Ins.arg + 1, count))
  /\ UNCHANGED <<phase, count, left, short, file>>

StoreEntry ==
  /\ Doing("store")
  /\ \E text \in (IF Ins.what = "Utf8" THEN file.texts ELSE {"none"}) :
       pool' = [pool EXCEPT ![Ins.arg] = [tag |-> Ins.what, text |-> text]]
  /\ stack' = Goto(Entries(Ins.arg + (IF Wide(Ins.what) THEN 2 ELSE 1), count))
  /\ UNCHANGED <<phase, count, left, short, file>>

(* The tag of an element value or the target type of an annotation. *)
ReadVariant ==
  /\ Doing("select")
  /\ \E tag \in Held(Ins.what) \cup Unwritten(Ins.what) :
       /\ Accept(tag)
       /\ IF tag \in DOMAIN Ins.arg
          THEN stack' = Goto(Ins.arg[tag]) /\ phase' = phase
          ELSE stack' = stack /\ phase' = "null"
  /\ UNCHANGED <<pool, count, file>>

(* CLZFILE_cp_getUTF8 of a name_index: it does not look at the tag.  The   *)
(* bytes field of what is not a Utf8 entry is NULL or past the entry, but  *)
(* for a Long or a Double it is the number, which could even be a pointer. *)
Texts(entry) ==
  CASE entry.tag = "Utf8" -> {entry.text}
    [] Wide(entry.tag)    -> file.texts \cup {"crash"}
    [] OTHER              -> {"crash"}

(* The attributes whose name the text is found to be. *)
Named(text) ==
  {name \in DOMAIN AttributeParser : utf8ascii_equals(Spelling[text], Spelling[name])}

(* One attribute: its name_index, the lookup, and the parser of the name. *)
ReadAttribute ==
  /\ Doing("attribute")
  /\ \E i \in file.names :
       /\ Accept(i)
       /\ IF i = 0 \/ i >= count
          THEN stack' = stack /\ phase' = "null"
          ELSE \E text \in Texts(pool[i]) :
                 \/ /\ text = "crash"
                    /\ stack' = stack /\ phase' = "crashed"
                 \/ /\ text # "crash"
                    /\ \E name \in Named(text) :
                         stack' = [Enter(<<>>, AttributeParser[name], 1)
                                     EXCEPT ![Len(stack)].keep = i]
                    /\ phase' = phase
                 \/ /\ text # "crash" /\ Named(text) = {}
                    /\ stack' = stack /\ phase' = "null"
  /\ UNCHANGED <<pool, count, file>>

(* reader->Skip: going past the end of the stream is no failure. *)
SkipBytes ==
  /\ Doing("skip")
  /\ \/ /\ stack' = Goto(<<>>)
        /\ left' = IF This.keep <= left THEN left - This.keep ELSE 0
        /\ UNCHANGED <<phase, short>>
     \/ /\ phase' = "null"
        /\ short' = TRUE
        /\ UNCHANGED <<stack, left>>
  /\ UNCHANGED <<pool, count, file>>

CallParser ==
  /\ Doing("call")
  /\ stack' = Enter(<<>>, Ins.arg, 1)
  /\ UNCHANGED <<phase, pool, count, left, short, file>>

Caller == SubSeq(stack, 1, Len(stack) - 1)

(* The end of a function: it returns what it allocated. *)
Return ==
  /\ phase = "parsing" /\ This.todo = <<>>
  /\ stack' = Caller
  /\ phase' = IF Len(stack) = 1 THEN "loaded" ELSE "parsing"
  /\ UNCHANGED <<pool, count, left, short, file>>

(* The end of a function that has no return statement there. *)
ReturnNothing ==
  /\ phase = "parsing" /\ This.todo = <<>> /\ This.fn \in FallingOff
  /\ phase' = "null"
  /\ UNCHANGED <<stack, pool, count, left, short, file>>

(* Faulty: the caller does not look. *)
ReturnNull_Ignored ==
  /\ phase = "null"
  /\ stack' = Caller
  /\ phase' = IF Caller = <<>> THEN "failed" ELSE "parsing"
  /\ UNCHANGED <<pool, count, left, short, file>>

(* Faulty: LoadClassFile returns what it has. *)
ReturnNull_Loaded ==
  /\ phase = "null"
  /\ stack' = Caller
  /\ phase' = IF Caller = <<>> THEN "loaded" ELSE "null"
  /\ UNCHANGED <<pool, count, left, short, file>>

(* A function returns NULL to its caller, which compares the result and    *)
(* returns NULL in its turn, or writes through it.                         *)
ReturnNull ==
  /\ phase = "null"
  /\ stack' = Caller
  /\ phase' = IF Caller = <<>> THEN "failed"
              ELSE IF stack[Len(stack) - 1].fn \in Dereferencing THEN "crashed"
              ELSE "null"
  /\ UNCHANGED <<pool, count, left, short, file>>

(* A read the test takes for a success. *)
ReadAccepted ==
  \/ ReadStored \/ ReadKept \/ ReadTested \/ ReadCount \/ ReadMembers
  \/ ReadPoolCount \/ ReadEntry \/ ReadVariant \/ ReadAttribute

(* What needs no stream. *)
Compute == StoreEntry \/ CallParser \/ Return \/ ReturnNothing \/ ReturnNull

Next == ReadRefused \/ ReadAccepted \/ SkipBytes \/ Compute

(* The loader is a sequential program nothing blocks: it takes its steps. *)
Spec == Init /\ [][Next]_vars /\ WF_vars(Next)

-----------------------------------------------------------------------------
Phases == {"parsing", "null", "loaded", "failed", "crashed"}
PoolEntries == [tag : DOMAIN EntryParser \cup {"none"},
           text : (UNION {f.texts : f \in Files}) \cup {"none"}]

(* The calls are those of functions of classfile.c, the pool has the size  *)
(* that was read and the stream never has more bytes than it began with.   *)
TypeOK ==
  /\ phase \in Phases
  /\ file \in Files
  /\ left \in 0 .. file.bytes
  /\ short \in BOOLEAN
  /\ count \in (UNION {f.poolCounts : f \in Files}) \cup {0}
  /\ DOMAIN pool = 1 .. count - 1
  /\ \A i \in DOMAIN pool : pool[i] \in PoolEntries
  /\ \A k \in 1 .. Len(stack) :
       stack[k].fn \in DOMAIN Script \cup {"parseConstantPool"}

(* A class is only returned if every read of it was delivered: a failed    *)
(* read in any parser reaches LoadClassFile as a NULL through all callers. *)
LoadedMeansAllRead == phase = "loaded" => ~short

(* The element after a Long or a Double is skipped over. *)
Shadow(i) == i > 1 /\ Wide(pool[i - 1].tag)

(* Attributes are looked up in a finished pool: when the fields, methods   *)
(* or attributes are parsed, each element was parsed, except the one after *)
(* each Long and Double, which is still NULL.                              *)
MembersSeeWholePool ==
  (\/ phase = "loaded"
   \/ \E k \in 1 .. Len(stack) :
        stack[k].fn \in {"parseFields", "parseMethods", "parseAttributes"})
  => \A i \in 1 .. count - 1 : pool[i] = NoEntry <=> Shadow(i)

(* The C stack is paid for by the stream: the parsers call each other in   *)
(* depth only after reading, so the depth is bounded by the bytes read.    *)
DepthPaidByBytes == 3 * Len(stack) <= (file.bytes - left) + 3

(* Each entry is written to an element the array has and that no entry was *)
(* written to before, also after a Long or a Double at the end of the pool.*)
EntriesHaveTheirElement ==
  Doing("store") => Ins.arg \in DOMAIN pool /\ pool[Ins.arg] = NoEntry

(* The loader crashes in two places only: in the parser of a method        *)
(* reference, after a read that was not delivered, and at the lookup of an *)
(* attribute's name, when name_index is not the index of a Utf8 entry.  No *)
(* other function uses the NULL that a parser it called has returned.      *)
MethodReferences == {"cp_parse_methodRefInfo", "cp_parse_interfaceMethodRefInfo"}
CrashHasAReason ==
  phase = "crashed" =>
    \/ short /\ This.fn \in MethodReferences
    \/ /\ This.fn = "parseAttributes"
       /\ \E i \in file.names \cap (1 .. count - 1) : pool[i].tag # "Utf8"

(* The parser of an attribute is the one its name asks for: the name in    *)
(* the pool is, as a whole, what parseAttributes found it equal to, not a  *)
(* part of it and not another name of as many characters.  Names with a    *)
(* NUL in them, which modified UTF-8 has not, are left out.                *)
ParsedByItsName ==
  \A k \in 1 .. Len(stack) - 1 :
    LET i == stack[k].keep IN
    (/\ stack[k].fn = "parseAttributes"
     /\ pool[i].tag = "Utf8" /\ WholeString(Spelling[pool[i].text]))
    => \E name \in DOMAIN AttributeParser :
         /\ Spelling[name] = Spelling[pool[i].text]
         /\ stack[k + 1].fn = AttributeParser[name]

(* The loader returns, whatever the stream holds. *)
Terminates == <>(phase \in {"loaded", "failed", "crashed"})

(* With readers whose results for success are not negative, which are the  *)
(* readers of filereader.c and bytecode.c, no stream is ever loaded: what  *)
(* is delivered is refused, and what is not delivered is not the magic.    *)
NothingLoads == phase # "loaded"

(* A NULL, and "Reading ClassFile Error." with it, is for a stream that    *)
(* failed or holds a bad value.                                            *)
FailedMeansBadFile == phase = "failed" => short \/ file.bad

(* A failed read is reported, through every function that sees its NULL,   *)
(* and never crashes the loader.                                           *)
ShortReadsReported == phase = "crashed" => ~short

(* An attribute whose name_index is not the index of a name is reported    *)
(* ("Invalid name_index"): the loader does not crash while its reads are   *)
(* delivered.                                                              *)
InvalidNamesReported == phase = "crashed" => short

(* LoadClassFile answers NULL with a message exactly where its messages    *)
(* say: for a stream that ends too early or is no class file, whatever     *)
(* function finds that out, and for no other.                              *)
OutcomeTellsTheFile ==
  FailedMeansBadFile /\ ShortReadsReported /\ InvalidNamesReported
=============================================================================
