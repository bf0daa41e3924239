----------------------- MODULE ClassFileLoader_proof -----------------------
(***************************************************************************)
(* What the convention between the loader and its reader decides, for any  *)
(* streams and any results of the reads: if no result of a failed read is  *)
(* negative, a loaded class was read in full, and the depth of the C stack *)
(* is bounded by the bytes that were read; if no result of a successful    *)
(* read is negative, nothing is loaded.                                    *)
(***************************************************************************)
EXTENDS ClassFileCalls_proof

(* The convention of the loader's tests, and that of the readers in        *)
(* filereader.c and bytecode.c, which return 1 or a size.                  *)
FailuresNotNegative  == \A ret \in EofReturns : 0 <= ret
SuccessesNotNegative == \A ret \in OkReturns : 0 <= ret

(* An accepted read was delivered, under the first convention: it took its *)
(* bytes, and its value is one that the stream holds.                      *)
LEMMA AcceptedIsDelivered ==
  ASSUME FailuresNotNegative, NEW v, Accept(v)
  PROVE  /\ short \in BOOLEAN => short' = short
         /\ left' = left - Ins.w /\ Ins.w <= left /\ v \in Held(Ins.what)
<1>1. PICK wrote \in BOOLEAN :
        /\ MayReturn(wrote, FALSE) /\ short' = (short \/ ~wrote)
        /\ Delivers(Ins.w, wrote) /\ Consume(Ins.w, wrote)
        /\ v \in (IF wrote THEN Held(Ins.what) ELSE Unwritten(Ins.what))
  BY DEF Accept
<1>2. wrote = TRUE
  <2> SUFFICES ASSUME wrote = FALSE
               PROVE  FALSE
    OBVIOUS
  <2>1. PICK ret \in EofReturns : Refused(ret) = FALSE
    BY <1>1 DEF MayReturn
  <2>2. QED
    BY <2>1 DEF FailuresNotNegative, Refused
<1>3. QED
  BY <1>1, <1>2 DEF Consume, Delivers

(* While the loader goes on, and when it has loaded a class, no read has   *)
(* failed; that short is a truth value is part of it.                      *)
ReadSoFar ==
  /\ short \in BOOLEAN
  /\ phase \in {"parsing", "loaded"} => short = FALSE

(* Every step keeps it. *)
LEMMA StepReadSoFar ==
  ASSUME FailuresNotNegative, ReadSoFar, [Next]_vars
  PROVE  ReadSoFar'
<1>1. ASSUME NEW v, Accept(v), phase = "parsing"
      PROVE  ReadSoFar'
  BY <1>1, AcceptedIsDelivered DEF ReadSoFar
<1>2. CASE ReadRefused
  BY <1>2 DEF ReadRefused, ReadSoFar
<1>3. CASE ReadStored
  BY <1>3, <1>1 DEF ReadStored, Doing
<1>4. CASE ReadKept
  BY <1>4, <1>1 DEF ReadKept, Doing
<1>5. CASE ReadTested
  BY <1>5, <1>1 DEF ReadTested, Doing
<1>6. CASE ReadCount
  BY <1>6, <1>1 DEF ReadCount, Doing
<1>7. CASE ReadMembers
  BY <1>7, <1>1 DEF ReadMembers, Doing
<1>8. CASE ReadPoolCount
  BY <1>8, <1>1 DEF ReadPoolCount, Doing
<1>9. CASE ReadEntry
  BY <1>9, <1>1 DEF ReadEntry, Doing
<1>10. CASE StoreEntry
  BY <1>10 DEF StoreEntry, ReadSoFar
<1>11. CASE ReadVariant
  BY <1>11, <1>1 DEF ReadVariant, Doing
<1>12. CASE ReadAttribute
  BY <1>12, <1>1 DEF ReadAttribute, Doing
<1>13. CASE SkipBytes
  BY <1>13 DEF SkipBytes, ReadSoFar
<1>14. CASE CallParser
  BY <1>14 DEF CallParser, ReadSoFar
<1>15. CASE Return
  BY <1>15 DEF Return, ReadSoFar
<1>16. CASE ReturnNothing
  BY <1>16 DEF ReturnNothing, ReadSoFar
<1>17. CASE ReturnNull
  BY <1>17 DEF ReturnNull, ReadSoFar
<1>18. CASE UNCHANGED vars
  BY <1>18 DEF vars, ReadSoFar
<1>19. QED
  BY <1>2, <1>3, <1>4, <1>5, <1>6, <1>7, <1>8, <1>9, <1>10, <1>11, <1>12,
     <1>13, <1>14, <1>15, <1>16, <1>17, <1>18 DEF Next, ReadAccepted, Compute

(* A class is returned only if every read was delivered: no parser of      *)
(* classfile.c goes on after a failed read, whatever the stream holds.     *)
THEOREM LoadedIsComplete ==
  ASSUME FailuresNotNegative
  PROVE  Spec => []LoadedMeansAllRead
<1>1. Init => ReadSoFar
  BY DEF Init, ReadSoFar
<1>2. ReadSoFar /\ [Next]_vars => ReadSoFar'
  BY StepReadSoFar
<1>3. ReadSoFar => LoadedMeansAllRead
  BY DEF ReadSoFar, LoadedMeansAllRead
<1>4. QED
  BY <1>1, <1>2, <1>3, PTL DEF Spec

-----------------------------------------------------------------------------
(* The first instruction of the loader is the test of the magic number. *)
LEMMA FirstInstruction ==
  ASSUME stack = <<Frame("LoadClassFile", 1)>>
  PROVE  /\ This.todo # <<>>
         /\ Ins = Test(4, "magic")
         /\ Len(stack) = 1
<1> DEFINE body == LoadClassFile
<1>1. Script["LoadClassFile"] = body
  BY DEF Script
<1>2. body \in Seq({body[i] : i \in 1 .. 11}) /\ Len(body) = 11 /\ body[1] = Test(4, "magic")
  BY DEF LoadClassFile
<1> HIDE DEF body
<1>3. Copies(body, 1) = [i \in 1 .. 11 |-> body[((i - 1) % 11) + 1]]
  BY <1>2 DEF Copies
<1>4. /\ Copies(body, 1)[1] = body[1]
      /\ Copies(body, 1) # <<>>
  BY <1>3
<1>5. This.todo = Copies(body, 1) /\ Len(stack) = 1
  BY <1>1 DEF This, Frame
<1>6. Head(This.todo) = This.todo[1]
  BY <1>5, <1>3
<1>7. QED
  BY <1>2, <1>4, <1>5, <1>6 DEF Ins

(* The loader never gets past its first read. *)
AtTheMagic ==
  /\ phase \in {"parsing", "null", "failed"}
  /\ phase # "failed" => stack = <<Frame("LoadClassFile", 1)>>

(* Every step keeps it. *)
LEMMA StepAtTheMagic ==
  ASSUME SuccessesNotNegative, AtTheMagic, [Next]_vars
  PROVE  AtTheMagic'
<1>1. CASE phase = "parsing"
  <2>1. /\ stack = <<Frame("LoadClassFile", 1)>>
        /\ This.todo # <<>>
        /\ Ins.op = "test" /\ Ins.what = "magic"
    BY <1>1, FirstInstruction DEF AtTheMagic, Test, Instr
  <2>2. CASE ReadRefused
    BY <2>1, <2>2 DEF ReadRefused, AtTheMagic
  <2>3. CASE ReadTested
    <3>1. PICK v : Accept(v) /\ IF Passes(Ins.what, v)
                               THEN stack' = Goto(<<>>) /\ phase' = phase
                               ELSE stack' = stack /\ phase' = "null"
      BY <2>3 DEF ReadTested
    <3>2. v = 0
      <4>1. PICK wrote \in BOOLEAN :
              /\ MayReturn(wrote, FALSE)
              /\ v \in (IF wrote THEN Held(Ins.what) ELSE Unwritten(Ins.what))
        BY <3>1 DEF Accept
      <4>2. wrote = FALSE
        <5> SUFFICES ASSUME wrote = TRUE
                     PROVE  FALSE
          OBVIOUS
        <5>1. PICK ret \in OkReturns : Refused(ret) = FALSE
          BY <4>1 DEF MayReturn
        <5>2. QED
          BY <5>1 DEF SuccessesNotNegative, Refused
      <4>3. QED
        BY <4>1, <4>2, <2>1 DEF Unwritten
    <3>3. ~Passes(Ins.what, v)
      BY <3>2, <2>1 DEF Passes
    <3>4. QED
      BY <3>1, <3>3, <2>1 DEF AtTheMagic
  <2>4. CASE UNCHANGED vars
    BY <2>4 DEF vars, AtTheMagic
  <2>5. QED
    BY <1>1, <2>1, <2>2, <2>3, <2>4
    DEF Next, ReadAccepted, Compute, Doing, ReadStored, ReadKept, ReadCount, ReadMembers,
        ReadPoolCount, ReadEntry, StoreEntry, ReadVariant, ReadAttribute,
        SkipBytes, CallParser, Return, ReturnNothing, ReturnNull
<1>2. CASE phase = "null"
  <2>1. stack = <<Frame("LoadClassFile", 1)>> /\ Caller = <<>>
    <3>1. stack = <<Frame("LoadClassFile", 1)>>
      BY <1>2 DEF AtTheMagic
    <3>2. Len(stack) - 1 = 0
      BY <3>1
    <3>3. SubSeq(stack, 1, 0) = <<>>
      BY SubSeqEmpty
    <3>4. QED
      BY <3>1, <3>2, <3>3 DEF Caller
  <2>2. ReturnNull \/ UNCHANGED vars
    BY <1>2
    DEF Next, ReadAccepted, Compute, Doing, ReadRefused, ReadStored, ReadKept, ReadTested, ReadCount,
        ReadMembers, ReadPoolCount, ReadEntry, StoreEntry, ReadVariant,
        ReadAttribute, SkipBytes, CallParser, Return, ReturnNothing
  <2>3. QED
    BY <1>2, <2>1, <2>2 DEF ReturnNull, AtTheMagic, vars
<1>3. CASE phase = "failed"
  <2>1. UNCHANGED vars
    BY <1>3
    DEF Next, ReadAccepted, Compute, Doing, ReadRefused, ReadStored, ReadKept, ReadTested, ReadCount,
        ReadMembers, ReadPoolCount, ReadEntry, StoreEntry, ReadVariant,
        ReadAttribute, SkipBytes, CallParser, Return, ReturnNothing, ReturnNull
  <2>2. QED
    BY <2>1 DEF vars, AtTheMagic
<1>4. QED
  BY <1>1, <1>2, <1>3 DEF AtTheMagic

(* With readers that return 1 or a size for success, LoadClassFile returns *)
(* NULL for every stream: a magic number that is delivered is refused, and *)
(* one that is not leaves the zero of GC_malloc to be compared.            *)
THEOREM NothingIsLoaded ==
  ASSUME SuccessesNotNegative
  PROVE  Spec => []NothingLoads
<1>1. Init => AtTheMagic
  BY DEF Init, AtTheMagic
<1>2. AtTheMagic /\ [Next]_vars => AtTheMagic'
  BY StepAtTheMagic
<1>3. AtTheMagic => NothingLoads
  BY DEF AtTheMagic, NothingLoads
<1>4. QED
  BY <1>1, <1>2, <1>3, PTL DEF Spec
-----------------------------------------------------------------------------
(* What the depth of the C stack costs.  Each call is paid with three of   *)
(* the bytes that were read before it, and an instruction is affordable    *)
(* with b unspent bytes if whatever it leads to can be paid: a loop over   *)
(* values is free, a function is called for three bytes and its fare, which *)
(* is what its first calls need more than its own reads bring.             *)
Free0 == {ins \in Reads : ins.op = "skip" => ins.w = 0}
Free1 == Free0 \cup LoopsOver(Free0)
Free2 == Free1 \cup LoopsOver(Free1)

AttributeParsers == {AttributeParser[name] : name \in DOMAIN AttributeParser}
Fare(fn) ==
  CASE fn \in {"cp_parse_methodRefInfo", "cp_parse_interfaceMethodRefInfo"} -> 3
    [] fn \in {"parseAttributes", "parseElementValue"} -> 2
    [] fn \in AttributeParsers -> 1
    [] OTHER -> 0

Elements == Many(2, <<Call("parseElementValue")>>)
Loopers  == {"parseFields", "parseMethods", "parseAttributes"}

Affords(b, ins) ==
  \/ ins \in Free2 \cup {Many(1, <<Annotations>>), parseTypeAnnotation[1]}
  \/ ins \in {Pairs, Annotations, TypeAnnotations} /\ 1 <= b
  \/ ins \in {Attribute, parseElementValue[1]} /\ 2 <= b
  \/ ins = Elements /\ 3 <= b
  \/ /\ ins.op = "call" /\ ins.w = 0 /\ ins.arg \in DOMAIN Script \ Loopers
     /\ 3 + Fare(ins.arg) <= b
  \/ ins.op = "callN" /\ ins.w = 2 /\ ins.arg \in Loopers /\ 1 + Fare(ins.arg) <= b
  \/ ins = Pool /\ 6 <= b
  \/ ins.op = "entry" /\ ins.w = 1 /\ 5 <= b
  \/ ins.op = "store" /\ ins.w = 0 /\ 5 <= b

(* What is sure to be read before instruction i: the first instruction's   *)
(* bytes, and the second's if the first makes no detour.                   *)
Simple == {"u", "keep", "test"}
Window(todo, i) ==
  (IF i > 1 THEN todo[1].w ELSE 0)
  + (IF i > 2 /\ todo[1].op \in Simple THEN todo[2].w ELSE 0)

Paid(b, todo) ==
  /\ b \in Nat /\ todo \in Seq({todo[i] : i \in 1 .. Len(todo)})
  /\ \A i \in 1 .. Len(todo) : Affords(b + Window(todo, i), todo[i])

(* The instructions that are free, by level. *)
LEMMA FreeLevels ==
  /\ Free0 \subseteq Free1 /\ Free1 \subseteq Free2
  /\ \A w \in Nat : U(w) \in Free0 /\ Bytes(w) \in Free0
  /\ \A w \in Nat : \A what \in Values : Test(w, what) \in Free0 /\ Blob(w, what) \in Free0
  /\ \A w \in Nat : \A what \in {"minor", "length"} : Keep(w, what) \in Free0
  /\ Skip \in Free0
  /\ \A w \in Nat : \A body \in Seq(Free0) : Many(w, body) \in Free1 /\ ManyFrom1(w, body) \in Free1
  /\ \A w \in Nat : \A body \in Seq(Free1) : Many(w, body) \in Free2 /\ ManyFrom1(w, body) \in Free2
<1>1. /\ \A w \in Nat : U(w) \in Free0 /\ Bytes(w) \in Free0
      /\ \A w \in Nat : \A what \in Values : Test(w, what) \in Free0 /\ Blob(w, what) \in Free0
      /\ \A w \in Nat : \A what \in {"minor", "length"} : Keep(w, what) \in Free0
      /\ Skip \in Free0
  BY Levels DEF Free0, U, Bytes, Test, Blob, Keep, Skip, Instr
<1>2. \A w \in Nat : \A code : \A body \in Seq(code) :
        Many(w, body) \in LoopsOver(code) /\ ManyFrom1(w, body) \in LoopsOver(code)
  BY DEF LoopsOver, Many, ManyFrom1, Instr, Values
<1>3. QED
  BY <1>1, <1>2 DEF Free1, Free2

(* What the free instructions are. *)
LEMMA FreeInstructions ==
  ASSUME NEW ins \in Free2
  PROVE  /\ ins.w \in Nat
         /\ ins.op \in {"u", "test", "blob", "keep", "skip", "many", "many1"}
         /\ ins.op = "skip" => ins.w = 0
         /\ ins.op \in {"many", "many1"} => ins.arg \in Seq(Free1)
<1>1. CASE ins \in Free0
  BY <1>1 DEF Free0, Reads
<1>2. Seq(Free0) \subseteq Seq(Free1)
  BY FreeLevels
<1>3. CASE ins \in LoopsOver(Free0) \/ ins \in LoopsOver(Free1)
  BY <1>2, <1>3 DEF LoopsOver
<1>4. QED
  BY <1>1, <1>3 DEF Free1, Free2

(* The instructions that are not, and their fields. *)
LEMMA PricedInstructions ==
  /\ \A ins \in {Pairs, Annotations, TypeAnnotations, Elements} : ins.op = "many" /\ ins.w = 2
  /\ Many(1, <<Annotations>>).op = "many" /\ Many(1, <<Annotations>>).w = 1
  /\ \A ins \in {parseElementValue[1], parseTypeAnnotation[1]} : ins.op = "select" /\ ins.w = 1
  /\ Attribute.op = "attribute" /\ Attribute.w = 2
  /\ Pool.op = "pool" /\ Pool.w = 2
<1>1. /\ \A ins \in {Pairs, Annotations, TypeAnnotations, Elements} : ins.op = "many" /\ ins.w = 2
      /\ Many(1, <<Annotations>>).op = "many" /\ Many(1, <<Annotations>>).w = 1
  BY DEF Pairs, Annotations, TypeAnnotations, Elements, Many, Instr
<1>2. \A ins \in {parseElementValue[1], parseTypeAnnotation[1]} : ins.op = "select" /\ ins.w = 1
  BY SwitchCode DEF Switches
<1>3. /\ Attribute.op = "attribute" /\ Attribute.w = 2
      /\ Pool.op = "pool" /\ Pool.w = 2
  BY DEF Attribute, Pool, Instr
<1>4. QED
  BY <1>1, <1>2, <1>3

(* An affordable instruction has a width, and is one of these.             *)
LEMMA AffordedInstructions ==
  ASSUME NEW b, NEW ins, Affords(b, ins)
  PROVE  /\ ins.w \in Nat
         /\ ins.op = "skip" => ins.w = 0
         /\ ins.op = "blob" => ins \in Free2
         /\ ins.op \in {"many", "many1"} =>
              \/ ins \in Free2 \cup {Many(1, <<Annotations>>)}
              \/ ins \in {Pairs, Annotations, TypeAnnotations} /\ 1 <= b
              \/ ins = Elements /\ 3 <= b
         /\ ins.op = "select" => \/ ins = parseElementValue[1] /\ 2 <= b
                                 \/ ins = parseTypeAnnotation[1]
         /\ ins.op = "attribute" => ins = Attribute /\ 2 <= b
         /\ ins.op = "call" => /\ ins.w = 0 /\ ins.arg \in DOMAIN Script \ Loopers
                               /\ 3 + Fare(ins.arg) <= b
         /\ ins.op = "callN" => ins.w = 2 /\ ins.arg \in Loopers /\ 1 + Fare(ins.arg) <= b
         /\ ins.op = "pool" => ins = Pool /\ 6 <= b
         /\ ins.op = "entry" => ins.w = 1 /\ 5 <= b
         /\ ins.op = "store" => ins.w = 0 /\ 5 <= b
<1>1. CASE ins \in Free2
  BY <1>1, FreeInstructions
<1>2. CASE ins = Many(1, <<Annotations>>) \/ ins = parseTypeAnnotation[1]
  BY <1>2, PricedInstructions
<1>3. CASE ins \in {Pairs, Annotations, TypeAnnotations} /\ 1 <= b
  BY <1>3, PricedInstructions
<1>4. CASE ins \in {Attribute, parseElementValue[1]} /\ 2 <= b
  BY <1>4, PricedInstructions
<1>5. CASE ins = Elements /\ 3 <= b
  BY <1>5, PricedInstructions
<1>6. CASE ins = Pool /\ 6 <= b
  BY <1>6, PricedInstructions
<1>7. QED
  BY <1>1, <1>2, <1>3, <1>4, <1>5, <1>6 DEF Affords

(* The functions that parse attributes.                                    *)
LEMMA AttributeFunctions ==
  AttributeParsers = {"attr_parse_constantValue", "attr_parse_code",
        "attr_parse_stackMapTable", "attr_parse_exceptions", "attr_parse_innerClasses",
        "attr_parse_enclosingMethod", "attr_parse_synthetic", "attr_parse_signature",
        "attr_parse_sourceFile", "attr_parse_sourceDebugExtention",
        "attr_parse_lineNumberTable", "attr_parse_localVariableTable",
        "attr_parse_localVariableTypeTable", "attr_parse_deprecated",
        "attr_parse_runtimeVisibleAnnotations", "attr_parse_runtimeInvisibleAnnotations",
        "attr_parse_runtimeVisibleParameterAnnotations",
        "attr_parse_runtimeInvisibleParameterAnnotations",
        "attr_parse_runtimeVisibleTypeAnnotations",
        "attr_parse_runtimeInvisibleTypeAnnotations",
        "attr_parse_annotationDefault", "attr_parse_bootstrapMethods",
        "attr_parse_methodParameters"}
<1>1. DOMAIN AttributeParser =
        {"ConstantValue", "Code", "StackMapTable", "Exceptions", "InnerClasses",
         "EnclosingMethod", "Synthetic", "Signature", "SourceFile", "SourceDebugExtention",
         "LineNumberTable", "LocalVariableTable", "LocalVariableTypeTable", "Deprecated",
         "RuntimeVisibleAnnotations", "RuntimeInvisibleAnnotations",
         "RuntimeVisibleParameterAnnotations", "RuntimeInvisibleParameterAnnotations",
         "RuntimeVisibleTypeAnnotations", "RuntimeInvisibleTypeAnnotations",
         "AnnotationDefault", "BootstrapMethods", "MethodParameters"}
  BY DEF AttributeParser
<1>2. QED
  BY <1>1 DEF AttributeParsers, AttributeParser

(* The fare of each function.                                              *)
LEMMA Fares ==
  /\ Fare("parseElementValue") = 2 /\ Fare("parseAnnotation") = 0
  /\ Fare("parseTypeAnnotation") = 0 /\ Fare("cp_parse_filedRefInfo") = 0
  /\ Fare("parseFields") = 0 /\ Fare("parseMethods") = 0 /\ Fare("parseAttributes") = 2
  /\ Fare("LoadClassFile") = 0
  /\ Fare("cp_parse_methodRefInfo") = 3 /\ Fare("cp_parse_interfaceMethodRefInfo") = 3
  /\ \A fn \in AttributeParsers : Fare(fn) = 1
  /\ \A fn : Fare(fn) \in 0 .. 3
  BY AttributeFunctions DEF Fare

(* What a number of bytes affords.                                         *)
LEMMA Prices ==
  ASSUME NEW c \in Int
  PROVE  /\ \A ins \in Free2 : Affords(c, ins)
         /\ Affords(c, Many(1, <<Annotations>>)) /\ Affords(c, parseTypeAnnotation[1])
         /\ 1 <= c => \A ins \in {Pairs, Annotations, TypeAnnotations} : Affords(c, ins)
         /\ 1 <= c => /\ Affords(c, CallN(2, "parseFields"))
                      /\ Affords(c, CallN(2, "parseMethods"))
         /\ 2 <= c => Affords(c, Attribute) /\ Affords(c, parseElementValue[1])
         /\ 3 <= c => Affords(c, Elements) /\ Affords(c, CallN(2, "parseAttributes"))
         /\ 3 <= c => \A fn \in {"parseAnnotation", "parseTypeAnnotation", "cp_parse_filedRefInfo"} :
                        Affords(c, Call(fn))
         /\ 5 <= c => Affords(c, Call("parseElementValue"))
         /\ 5 <= c => \A i, tag : Affords(c, Entry(i)) /\ Affords(c, Store(i, tag))
         /\ 6 <= c => Affords(c, Pool)
<1>1. /\ \A ins \in Free2 : Affords(c, ins)
      /\ Affords(c, Many(1, <<Annotations>>)) /\ Affords(c, parseTypeAnnotation[1])
      /\ 1 <= c => \A ins \in {Pairs, Annotations, TypeAnnotations} : Affords(c, ins)
      /\ 2 <= c => Affords(c, Attribute) /\ Affords(c, parseElementValue[1])
      /\ 3 <= c => Affords(c, Elements)
      /\ 6 <= c => Affords(c, Pool)
  BY DEF Affords
<1>2. /\ 1 <= c => /\ Affords(c, CallN(2, "parseFields"))
                   /\ Affords(c, CallN(2, "parseMethods"))
      /\ 3 <= c => Affords(c, CallN(2, "parseAttributes"))
  <2>1. \A fn : CallN(2, fn).op = "callN" /\ CallN(2, fn).w = 2 /\ CallN(2, fn).arg = fn
    BY DEF CallN, Instr
  <2>2. QED
    BY <2>1, Fares DEF Affords, Loopers
<1>3. /\ 3 <= c => \A fn \in {"parseAnnotation", "parseTypeAnnotation", "cp_parse_filedRefInfo"} :
                        Affords(c, Call(fn))
      /\ 5 <= c => Affords(c, Call("parseElementValue"))
  <2>1. \A fn : Call(fn).op = "call" /\ Call(fn).w = 0 /\ Call(fn).arg = fn
    BY DEF Call, Instr
  <2>2. {"parseAnnotation", "parseTypeAnnotation", "cp_parse_filedRefInfo", "parseElementValue"}
           \subseteq DOMAIN Script \ Loopers
    BY DEF Script, Loopers
  <2>3. QED
    BY <2>1, <2>2, Fares DEF Affords
<1>4. 5 <= c => \A i, tag : Affords(c, Entry(i)) /\ Affords(c, Store(i, tag))
  <2>1. \A i, tag : /\ Entry(i).op = "entry" /\ Entry(i).w = 1
                    /\ Store(i, tag).op = "store" /\ Store(i, tag).w = 0
    BY DEF Entry, Store, Instr
  <2>2. QED
    BY <2>1 DEF Affords
<1>5. QED
  BY <1>1, <1>2, <1>3, <1>4

-----------------------------------------------------------------------------
(* With more bytes as much is affordable, and what was paid stays paid.    *)
LEMMA AffordsMore ==
  ASSUME NEW b \in Int, NEW c \in Int, b <= c, NEW ins, Affords(b, ins)
  PROVE  Affords(c, ins)
<1>1. Fare(ins.arg) \in Int
  BY Fares
<1>2. \A m \in Int : m <= b => m <= c
  OBVIOUS
<1>3. 3 + Fare(ins.arg) <= b => 3 + Fare(ins.arg) <= c
  BY <1>1
<1>4. 1 + Fare(ins.arg) <= b => 1 + Fare(ins.arg) <= c
  BY <1>1
<1>5. QED
  BY <1>2, <1>3, <1>4 DEF Affords

(* The bytes sure to be read are a number.                                 *)
LEMMA WindowIsNat ==
  ASSUME NEW todo, NEW T, todo \in Seq(T), \A i \in 1 .. Len(todo) : todo[i].w \in Nat,
         NEW i \in 1 .. Len(todo)
  PROVE  Window(todo, i) \in Nat
<1>1. i > 1 => todo[1].w \in Nat
  OBVIOUS
<1>2. i > 2 => todo[2].w \in Nat
  OBVIOUS
<1> DEFINE a == todo[1].w  c == todo[2].w
<1> HIDE DEF a, c
<1>3. i > 1 => a \in Nat
  BY <1>1 DEF a
<1>4. i > 2 => c \in Nat
  BY <1>2 DEF c
<1>5. Window(todo, i) = (IF i > 1 THEN a ELSE 0)
                        + (IF i > 2 /\ todo[1].op \in Simple THEN c ELSE 0)
  BY DEF Window, a, c
<1>6. QED
  BY <1>3, <1>4, <1>5

(* What is paid has widths.                                                *)
LEMMA PaidTyped ==
  ASSUME NEW b, NEW todo, Paid(b, todo)
  PROVE  /\ b \in Nat
         /\ \A i \in 1 .. Len(todo) : todo[i].w \in Nat /\ Window(todo, i) \in Nat
<1>1. \A i \in 1 .. Len(todo) : todo[i].w \in Nat
  BY AffordedInstructions DEF Paid
<1>2. QED
  BY <1>1, WindowIsNat DEF Paid

(* With more bytes paid code stays paid. *)
LEMMA PaidMore ==
  ASSUME NEW b, NEW todo, Paid(b, todo), NEW c \in Nat, b <= c
  PROVE  Paid(c, todo)
<1>1. ASSUME NEW i \in 1 .. Len(todo)
      PROVE  Affords(c + Window(todo, i), todo[i])
  <2>1. Affords(b + Window(todo, i), todo[i]) /\ Window(todo, i) \in Nat /\ b \in Nat
    BY PaidTyped DEF Paid
  <2>2. \A w \in Nat : b + w \in Int /\ c + w \in Int /\ b + w <= c + w
    BY <2>1
  <2>3. QED
    BY <2>1, <2>2, AffordsMore
<1>2. QED
  BY <1>1 DEF Paid

(* What follows an instruction whose bytes were read is paid with them.    *)
LEMMA PaidTail ==
  ASSUME NEW b, NEW todo, Paid(b, todo), todo # <<>>,
         NEW code, Paid(b + Head(todo).w, code),
         code = <<>> \/ Head(todo).op \notin Simple
  PROVE  Paid(b + Head(todo).w, code \o Tail(todo))
<1> DEFINE w == Head(todo).w
           r == code \o Tail(todo)
           T == {code[i] : i \in 1 .. Len(code)} \cup {todo[i] : i \in 1 .. Len(todo)}
           m == Len(code)
<1>1. code \in Seq(T) /\ todo \in Seq(T) /\ m \in Nat /\ Len(todo) \in Nat /\ Len(todo) >= 1
  BY DEF Paid
<1>2. Head(todo) = todo[1] /\ w \in Nat /\ b \in Nat
  BY <1>1, PaidTyped
<1> HIDE DEF T
<1>3. /\ r \in Seq(T) /\ Len(r) = m + Len(todo) - 1
      /\ \A i \in 1 .. m : r[i] = code[i]
      /\ \A i \in m + 1 .. Len(r) : r[i] = todo[i - m + 1] /\ i - m + 1 \in 2 .. Len(todo)
  <2>1. Tail(todo) \in Seq(T) /\ Len(Tail(todo)) = Len(todo) - 1
        /\ \A i \in 1 .. Len(todo) - 1 : Tail(todo)[i] = todo[i + 1]
    BY <1>1
  <2> DEFINE t == Tail(todo)
  <2> HIDE DEF t
  <2>2. /\ code \o t \in Seq(T) /\ Len(code \o t) = m + Len(t)
        /\ \A i \in 1 .. m : (code \o t)[i] = code[i]
        /\ \A i \in m + 1 .. m + Len(t) : (code \o t)[i] = t[i - m]
    BY <1>1, <2>1 DEF t
  <2>3. QED
    BY <1>1, <2>1, <2>2 DEF t
<1> HIDE DEF r, m
<1>4. \A i \in 1 .. Len(r) : i \in 1 .. m \/ i \in m + 1 .. Len(r)
  BY <1>1, <1>3
<1>5. /\ \A i \in 1 .. Len(code) : code[i].w \in Nat
      /\ \A i \in 1 .. Len(todo) : todo[i].w \in Nat
  BY PaidTyped
<1>6. \A i \in 1 .. Len(r) : r[i].w \in Nat
  <2>1. \A i \in 1 .. m : r[i].w \in Nat
    BY <1>3, <1>5 DEF m
  <2>2. \A i \in m + 1 .. Len(r) : r[i].w \in Nat
    <3>1. \A j \in 2 .. Len(todo) : todo[j].w \in Nat
      BY <1>1, <1>5
    <3>2. QED
      BY <1>3, <3>1
  <2>3. QED
    BY <2>1, <2>2, <1>4
<1>7. \A i \in 1 .. Len(r) : Window(r, i) \in Nat
  BY <1>3, <1>6, WindowIsNat
<1>8. ASSUME NEW i \in 1 .. m
      PROVE  Affords(b + w + Window(r, i), r[i])
  <2>1. Window(r, i) = Window(code, i)
    <3>1. i > 1 => r[1] = code[1]
      BY <1>1, <1>3
    <3>2. i > 2 => r[1] = code[1] /\ r[2] = code[2]
      BY <1>1, <1>3
    <3>3. QED
      BY <3>1, <3>2 DEF Window
  <2>2. QED
    BY <2>1, <1>3 DEF Paid, m
<1>9. ASSUME NEW i \in m + 1 .. Len(r)
      PROVE  Affords(b + w + Window(r, i), r[i])
  <2> DEFINE j == i - m + 1
  <2>1. j \in 2 .. Len(todo) /\ r[i] = todo[j] /\ i \in 1 .. Len(r) /\ j \in 1 .. Len(todo)
    BY <1>1, <1>3
  <2>2. Affords(b + Window(todo, j), todo[j])
    BY <2>1 DEF Paid
  <2>3. Window(todo, j) = w + (IF j > 2 /\ todo[1].op \in Simple THEN todo[2].w ELSE 0)
    BY <1>2, <2>1 DEF Window
  <2>4. Window(todo, j) <= w + Window(r, i)
    <3>1. CASE j > 2 /\ todo[1].op \in Simple
      <4>1. code = <<>> /\ m = 0 /\ j = i + 1
        BY <3>1, <1>1, <1>2 DEF m
      <4>2. i > 1 /\ r[1] = todo[2] /\ 2 \in 1 .. Len(todo)
        BY <3>1, <4>1, <1>1, <1>3, <2>1
      <4>3. Window(r, i) = todo[2].w + (IF i > 2 /\ r[1].op \in Simple THEN r[2].w ELSE 0)
        BY <4>2 DEF Window
      <4>4. i > 2 => r[2].w \in Nat
        BY <1>6, <1>3
      <4>5. todo[2].w \in Nat
        BY <4>2, <1>5
      <4>6. Window(todo, j) = w + todo[2].w
        BY <2>3, <3>1
      <4> DEFINE p == todo[2].w  q == r[2].w
      <4> HIDE DEF p, q, w
      <4>7. Window(r, i) = p + (IF i > 2 /\ r[1].op \in Simple THEN q ELSE 0)
        BY <4>3 DEF p, q
      <4>8. p \in Nat /\ (i > 2 => q \in Nat) /\ Window(todo, j) = w + p
        BY <4>4, <4>5, <4>6 DEF p, q
      <4>9. QED
        BY <4>7, <4>8, <1>2
    <3>2. CASE ~(j > 2 /\ todo[1].op \in Simple)
      <4>1. Window(todo, j) = w + 0
        BY <2>3, <3>2
      <4>2. Window(r, i) \in Nat
        BY <1>7, <2>1
      <4>3. QED
        BY <4>1, <4>2, <1>2
    <3>3. QED
      BY <3>1, <3>2
  <2>5. Window(todo, j) \in Nat /\ Window(r, i) \in Nat
    BY <1>7, <2>1, PaidTyped
  <2> HIDE DEF j, w
  <2>6. b + Window(todo, j) \in Int /\ b + w + Window(r, i) \in Int
        /\ b + Window(todo, j) <= b + w + Window(r, i)
    BY <1>2, <2>4, <2>5
  <2>7. QED
    BY <2>1, <2>2, <2>6, AffordsMore
<1>10. b + w \in Nat /\ r \in Seq({r[i] : i \in 1 .. Len(r)})
  BY <1>2, <1>3, OwnElements
<1>11. QED
  BY <1>4, <1>8, <1>9, <1>10 DEF Paid, r

-----------------------------------------------------------------------------
(* Code that is paid as it stands, after its first instruction, or after   *)
(* its second.                                                             *)
LEMMA PaidNow ==
  ASSUME NEW b \in Nat, NEW T, NEW s \in Seq(T), \A i \in 1 .. Len(s) : Affords(b, s[i])
  PROVE  Paid(b, s)
<1>1. \A i \in 1 .. Len(s) : s[i].w \in Nat
  BY AffordedInstructions
<1>2. \A i \in 1 .. Len(s) : Window(s, i) \in Nat
  BY <1>1, WindowIsNat
<1>3. \A m \in Nat : b \in Int /\ b + m \in Int /\ b <= b + m
  OBVIOUS
<1>4. \A i \in 1 .. Len(s) : Affords(b + Window(s, i), s[i])
  BY <1>2, <1>3, AffordsMore
<1>5. QED
  BY <1>4, OwnElements DEF Paid

(* The first instruction of code pays for the others. *)
LEMMA PaidAfterOne ==
  ASSUME NEW b \in Nat, NEW T, NEW s \in Seq(T),
         1 \in 1 .. Len(s) => Affords(b, s[1]),
         \A i \in 2 .. Len(s) : Affords(b + s[1].w, s[i])
  PROVE  Paid(b, s)
<1>1. \A i \in 1 .. Len(s) : i = 1 \/ i \in 2 .. Len(s)
  OBVIOUS
<1>2. \A i \in 1 .. Len(s) : s[i].w \in Nat
  BY <1>1, AffordedInstructions
<1>3. ASSUME NEW i \in 1 .. Len(s)
      PROVE  Affords(b + Window(s, i), s[i])
  <2>1. CASE i = 1
    BY <2>1 DEF Window
  <2>2. CASE i \in 2 .. Len(s)
    <3>1. PICK w \in Nat : w = s[1].w
      BY <1>2, <2>2
    <3>2. i > 2 => s[2].w \in Nat
      BY <1>2, <2>2
    <3>3. i > 1 /\ Window(s, i) = w + (IF i > 2 /\ s[1].op \in Simple THEN s[2].w ELSE 0)
      BY <2>2, <3>1 DEF Window
    <3>4. PICK m \in Nat : Window(s, i) = w + m
      BY <3>2, <3>3
    <3>5. b + w \in Int /\ b + (w + m) \in Int /\ b + w <= b + (w + m)
      OBVIOUS
    <3>6. QED
      BY <2>2, <3>1, <3>4, <3>5, AffordsMore
  <2>3. QED
    BY <1>1, <2>1, <2>2
<1>4. QED
  BY <1>3, OwnElements DEF Paid

(* The first two do. *)
LEMMA PaidAfterTwo ==
  ASSUME NEW b \in Nat, NEW T, NEW s \in Seq(T), NEW w \in Nat, NEW v \in Nat,
         1 \in 1 .. Len(s) => s[1].op \in Simple /\ s[1].w = w /\ Affords(b, s[1]),
         2 \in 1 .. Len(s) => s[2].w = v /\ Affords(b + w, s[2]),
         \A i \in 3 .. Len(s) : Affords(b + (w + v), s[i])
  PROVE  Paid(b, s)
<1>1. ASSUME NEW i \in 1 .. Len(s)
      PROVE  Affords(b + Window(s, i), s[i])
  <2>1. CASE i = 1
    BY <2>1 DEF Window
  <2>2. CASE i = 2
    BY <2>2 DEF Window
  <2>3. CASE i > 2
    <3>1. i \in 3 .. Len(s) /\ 1 \in 1 .. Len(s) /\ 2 \in 1 .. Len(s)
      BY <2>3
    <3>2. Window(s, i) = w + v
      BY <2>3, <3>1 DEF Window
    <3>3. QED
      BY <3>1, <3>2
  <2>4. QED
    BY <2>1, <2>2, <2>3
<1>2. QED
  BY <1>1, OwnElements DEF Paid

(* The instructions of code run several times over.                        *)
LEMMA CopiesElements ==
  ASSUME NEW T, NEW code \in Seq(T), NEW n \in Nat
  PROVE  /\ Copies(code, n) \in Seq(T)
         /\ \A i \in 1 .. Len(Copies(code, n)) :
              \E j \in 1 .. Len(code) : Copies(code, n)[i] = code[j]
         /\ 1 \in 1 .. Len(Copies(code, n)) => Copies(code, n)[1] = code[1]
         /\ Len(code) > 1 /\ 2 \in 1 .. Len(Copies(code, n)) => Copies(code, n)[2] = code[2]
<1> DEFINE l == Len(code)
           m == n * l
<1>1. Copies(code, n) \in Seq(T)
  BY CopiesOfCode
<1>2. m \in Nat /\ l \in Nat /\ (m >= 1 => l >= 1)
  <2>1. l = 0 => n * l = 0
    OBVIOUS
  <2>2. n * l \in Nat
    OBVIOUS
  <2>3. QED
    BY <2>1, <2>2
<1>3. Copies(code, n) = [i \in 1 .. m |-> code[((i - 1) % l) + 1]]
  BY DEF Copies
<1> HIDE DEF m
<1>4. Len(Copies(code, n)) = m
  BY <1>2, <1>3
<1>5. \A i \in 1 .. m : Copies(code, n)[i] = code[((i - 1) % l) + 1]
  BY <1>3
<1>6. \A i \in 1 .. m : ((i - 1) % l) + 1 \in 1 .. l
  BY <1>2
<1>7. 1 \in 1 .. m => ((1 - 1) % l) + 1 = 1
  BY <1>2
<1>8. l > 1 => ((2 - 1) % l) + 1 = 2
  BY <1>2
<1> HIDE DEF l
<1>9. \A i \in 1 .. m : \E j \in 1 .. l : Copies(code, n)[i] = code[j]
  BY <1>5, <1>6
<1>10. 1 \in 1 .. m => Copies(code, n)[1] = code[1]
  BY <1>5, <1>7
<1>11. l > 1 /\ 2 \in 1 .. m => Copies(code, n)[2] = code[2]
  BY <1>5, <1>8
<1>12. QED
  BY <1>1, <1>4, <1>9, <1>10, <1>11 DEF l

(* Loops over code that is paid. *)
LEMMA CopiesPaid ==
  ASSUME NEW b \in Nat, NEW T, NEW code \in Seq(T), NEW n \in Nat
  PROVE  /\ (\A j \in 1 .. Len(code) : Affords(b, code[j])) => Paid(b, Copies(code, n))
         /\ (/\ Affords(b, code[1])
             /\ \A j \in 1 .. Len(code) : Affords(b + code[1].w, code[j]))
            => Paid(b, Copies(code, n))
         /\ \A w, v \in Nat :
              (/\ Len(code) > 1 /\ code[1].op \in Simple /\ code[1].w = w /\ code[2].w = v
               /\ Affords(b, code[1]) /\ Affords(b + w, code[2])
               /\ \A j \in 1 .. Len(code) : Affords(b + (w + v), code[j]))
              => Paid(b, Copies(code, n))
<1>1. PICK s : s = Copies(code, n)
  OBVIOUS
<1>2. /\ s \in Seq(T)
      /\ \A i \in 1 .. Len(s) : \E j \in 1 .. Len(code) : s[i] = code[j]
      /\ 1 \in 1 .. Len(s) => s[1] = code[1]
      /\ Len(code) > 1 /\ 2 \in 1 .. Len(s) => s[2] = code[2]
  BY <1>1, CopiesElements
<1>3. (\A j \in 1 .. Len(code) : Affords(b, code[j])) => Paid(b, s)
  <2>1. SUFFICES ASSUME \A j \in 1 .. Len(code) : Affords(b, code[j])
                 PROVE  Paid(b, s)
    OBVIOUS
  <2>2. \A i \in 1 .. Len(s) : Affords(b, s[i])
    BY <2>1, <1>2
  <2>3. QED
    BY <2>2, <1>2, PaidNow
<1>4. (/\ Affords(b, code[1])
       /\ \A j \in 1 .. Len(code) : Affords(b + code[1].w, code[j]))
      => Paid(b, s)
  <2>1. SUFFICES ASSUME Affords(b, code[1]),
                        \A j \in 1 .. Len(code) : Affords(b + code[1].w, code[j])
                 PROVE  Paid(b, s)
    OBVIOUS
  <2>2. \A i \in 2 .. Len(s) : i \in 1 .. Len(s) /\ 1 \in 1 .. Len(s)
    OBVIOUS
  <2>3. \A i \in 2 .. Len(s) : Affords(b + s[1].w, s[i])
    BY <2>1, <2>2, <1>2
  <2>4. 1 \in 1 .. Len(s) => Affords(b, s[1])
    BY <2>1, <1>2
  <2>5. QED
    BY <2>3, <2>4, <1>2, PaidAfterOne
<1>5. ASSUME NEW w \in Nat, NEW v \in Nat,
             Len(code) > 1, code[1].op \in Simple, code[1].w = w, code[2].w = v,
             Affords(b, code[1]), Affords(b + w, code[2]),
             \A j \in 1 .. Len(code) : Affords(b + (w + v), code[j])
      PROVE  Paid(b, s)
  <2>1. \A i \in 3 .. Len(s) : i \in 1 .. Len(s)
    OBVIOUS
  <2>2. \A i \in 3 .. Len(s) : Affords(b + (w + v), s[i])
    BY <2>1, <1>2, <1>5
  <2>3. 1 \in 1 .. Len(s) => s[1].op \in Simple /\ s[1].w = w /\ Affords(b, s[1])
    BY <1>2, <1>5
  <2>4. 2 \in 1 .. Len(s) => s[2].w = v /\ Affords(b + w, s[2])
    BY <1>2, <1>5
  <2>5. QED
    BY <2>2, <2>3, <2>4, <1>2, PaidAfterTwo
<1>6. QED
  BY <1>1, <1>3, <1>4, <1>5

-----------------------------------------------------------------------------
(* The parsers of attributes: attribute_length, which pays for the rest.   *)
Lengths == {U(4), Test(4, "two"), Test(4, "zero"), Keep(4, "length")}
Bodies  == Free2 \cup {CallN(2, "parseAttributes"), Call("parseElementValue"), Annotations,
                       TypeAnnotations, Many(1, <<Annotations>>)}

(* attribute_length brings four bytes, one more than its parser costs. *)
LEMMA LengthsPay ==
  ASSUME NEW T, NEW s \in Seq(T), 1 \in 1 .. Len(s), s[1] \in Lengths,
         \A i \in 2 .. Len(s) : s[i] \in Bodies
  PROVE  Paid(1, s)
<1>1. \A ins \in Lengths : ins \in Free2 /\ ins.w = 4
  <2>1. \A ins \in Lengths : ins.w = 4
    BY DEF Lengths, U, Test, Keep, Instr
  <2>2. Lengths \subseteq Free0
    BY FreeLevels DEF Lengths, Values
  <2>3. QED
    BY <2>1, <2>2, FreeLevels
<1>2. Affords(1, s[1]) /\ s[1].w = 4
  BY <1>1, Prices
<1>3. \A ins \in Bodies : Affords(1 + 4, ins)
  <2>1. 1 + 4 \in Int /\ 3 <= 1 + 4 /\ 5 <= 1 + 4 /\ 1 <= 1 + 4
    OBVIOUS
  <2>2. PICK c \in Int : c = 1 + 4 /\ 3 <= c /\ 5 <= c /\ 1 <= c
    BY <2>1
  <2>3. \A ins \in Bodies : Affords(c, ins)
    BY <2>2, Prices DEF Bodies
  <2>4. QED
    BY <2>2, <2>3
<1>4. QED
  BY <1>2, <1>3, PaidAfterOne

(* The shapes that the parsers of attributes have. *)
LEMMA LengthFirst ==
  ASSUME NEW a \in Lengths, NEW b \in Bodies
  PROVE  /\ Paid(1, <<a>>) /\ Paid(1, <<a, b>>)
         /\ \A c \in Bodies : Paid(1, <<a, b, c>>)
         /\ \A c, d, e, f \in Bodies : Paid(1, <<a, b, c, d, e, f>>)
<1>1. PICK T : T = Lengths \cup Bodies
  OBVIOUS
<1>2. /\ a \in T /\ b \in T /\ \A c \in Bodies : c \in T
  BY <1>1
<1>3. /\ <<a>> \in Seq(T) /\ <<a, b>> \in Seq(T)
      /\ \A c \in Bodies : <<a, b, c>> \in Seq(T)
      /\ \A c, d, e, f \in Bodies : <<a, b, c, d, e, f>> \in Seq(T)
  BY <1>2, ShortSequences
<1>4. Paid(1, <<a>>)
  <2>1. PICK s : s = <<a>>
    OBVIOUS
  <2>2. s \in Seq(T) /\ Len(s) = 1 /\ s[1] = a
    BY <2>1, <1>3
  <2>3. 1 \in 1 .. Len(s) /\ \A i \in 2 .. Len(s) : s[i] \in Bodies
    BY <2>2
  <2>4. QED
    BY <2>1, <2>2, <2>3, LengthsPay
<1>5. Paid(1, <<a, b>>)
  <2>1. PICK s : s = <<a, b>>
    OBVIOUS
  <2>2. s \in Seq(T) /\ Len(s) = 2 /\ s[1] = a /\ s[2] = b
    BY <2>1, <1>3
  <2>3. 1 \in 1 .. Len(s) /\ \A i \in 2 .. Len(s) : s[i] \in Bodies
    BY <2>2
  <2>4. QED
    BY <2>1, <2>2, <2>3, LengthsPay
<1>6. ASSUME NEW c \in Bodies
      PROVE  Paid(1, <<a, b, c>>)
  <2>1. PICK s : s = <<a, b, c>>
    OBVIOUS
  <2>2. s \in Seq(T) /\ Len(s) = 3 /\ s[1] = a /\ s[2] = b /\ s[3] = c
    BY <2>1, <1>3
  <2>3. 1 \in 1 .. Len(s) /\ \A i \in 2 .. Len(s) : s[i] \in Bodies
    BY <2>2
  <2>4. QED
    BY <2>1, <2>2, <2>3, LengthsPay
<1>7. ASSUME NEW c \in Bodies, NEW d \in Bodies, NEW e \in Bodies, NEW f \in Bodies
      PROVE  Paid(1, <<a, b, c, d, e, f>>)
  <2>1. PICK s : s = <<a, b, c, d, e, f>>
    OBVIOUS
  <2>2. /\ s \in Seq(T) /\ Len(s) = 6 /\ s[1] = a /\ s[2] = b /\ s[3] = c
        /\ s[4] = d /\ s[5] = e /\ s[6] = f
    BY <2>1, <1>3
  <2>3. 1 \in 1 .. Len(s) /\ \A i \in 2 .. Len(s) : s[i] \in Bodies
    BY <2>2
  <2>4. QED
    BY <2>1, <2>2, <2>3, LengthsPay
<1>8. QED
  BY <1>4, <1>5, <1>6, <1>7

(* Each of them is one of these shapes, for one byte that is left. *)
LEMMA AttributesPaid ==
  \A fn \in AttributeParsers : Paid(1, Script[fn])
<1>1. /\ U(1) \in Free0 /\ U(2) \in Free0 /\ Bytes(2) \in Free0 /\ Skip \in Free0
      /\ Blob(4, "count") \in Free0 /\ Test(2, "index") \in Free0
  BY FreeLevels DEF Values
<1>2. /\ <<U(2)>> \in Seq(Free0) /\ <<U(2), U(2)>> \in Seq(Free0)
      /\ <<U(2), U(2), U(2), U(2)>> \in Seq(Free0)
      /\ <<U(2), U(2), U(2), U(2), U(2)>> \in Seq(Free0)
  BY <1>1, ShortSequences
<1>3. /\ Many(2, <<U(2)>>) \in Free1 /\ Many(2, <<U(2), U(2), U(2), U(2)>>) \in Free1
      /\ Many(1, <<U(2), U(2)>>) \in Free1 /\ ManyFrom1(2, <<U(2), U(2)>>) \in Free1
      /\ ManyFrom1(2, <<U(2), U(2), U(2), U(2), U(2)>>) \in Free1
  BY <1>2, FreeLevels
<1>4. Many(2, <<U(2), Many(2, <<U(2)>>)>>) \in Free2
  <2>1. <<U(2), Many(2, <<U(2)>>)>> \in Seq(Free1)
    BY <1>1, <1>3, FreeLevels, ShortSequences
  <2>2. QED
    BY <2>1, FreeLevels
<1>5. \A ins \in Free0 \cup Free1 \cup Free2 : ins \in Bodies
  BY FreeLevels DEF Bodies
<1>6. /\ U(2) \in Bodies /\ Bytes(2) \in Bodies /\ Skip \in Bodies
      /\ Blob(4, "count") \in Bodies /\ Test(2, "index") \in Bodies
      /\ Many(2, <<U(2)>>) \in Bodies /\ Many(2, <<U(2), U(2), U(2), U(2)>>) \in Bodies
      /\ Many(1, <<U(2), U(2)>>) \in Bodies /\ ManyFrom1(2, <<U(2), U(2)>>) \in Bodies
      /\ ManyFrom1(2, <<U(2), U(2), U(2), U(2), U(2)>>) \in Bodies
      /\ Many(2, <<U(2), Many(2, <<U(2)>>)>>) \in Bodies
  BY <1>1, <1>3, <1>4, <1>5
<1>7. /\ CallN(2, "parseAttributes") \in Bodies /\ Call("parseElementValue") \in Bodies
      /\ Annotations \in Bodies /\ TypeAnnotations \in Bodies
      /\ Many(1, <<Annotations>>) \in Bodies
  BY DEF Bodies
<1>8. U(4) \in Lengths /\ Test(4, "two") \in Lengths /\ Test(4, "zero") \in Lengths
      /\ Keep(4, "length") \in Lengths
  BY DEF Lengths
<1> DEFINE Pays(s) == Paid(1, s)
<1>9. Pays(attr_parse_constantValue) /\ Pays(attr_parse_stackMapTable)
      /\ Pays(attr_parse_enclosingMethod)
  BY <1>6, <1>8, LengthFirst
  DEF attr_parse_constantValue, attr_parse_stackMapTable, attr_parse_enclosingMethod
<1>10. Pays(attr_parse_synthetic) /\ Pays(attr_parse_signature) /\ Pays(attr_parse_sourceFile)
       /\ Pays(attr_parse_sourceDebugExtention) /\ Pays(attr_parse_deprecated)
  BY <1>6, <1>8, LengthFirst
  DEF attr_parse_synthetic, attr_parse_signature, attr_parse_sourceFile,
      attr_parse_sourceDebugExtention, attr_parse_deprecated
<1>11. Pays(attr_parse_code)
  BY <1>6, <1>7, <1>8, LengthFirst DEF attr_parse_code
<1>12. Pays(attr_parse_exceptions) /\ Pays(attr_parse_innerClasses)
       /\ Pays(attr_parse_lineNumberTable) /\ Pays(attr_parse_localVariableTable)
       /\ Pays(attr_parse_localVariableTypeTable) /\ Pays(attr_parse_methodParameters)
  BY <1>6, <1>8, LengthFirst
  DEF attr_parse_exceptions, attr_parse_innerClasses, attr_parse_lineNumberTable,
      attr_parse_localVariableTable, attr_parse_localVariableTypeTable, attr_parse_methodParameters
<1>13. Pays(attr_parse_runtimeVisibleAnnotations) /\ Pays(attr_parse_runtimeInvisibleAnnotations)
       /\ Pays(attr_parse_runtimeVisibleTypeAnnotations)
       /\ Pays(attr_parse_runtimeInvisibleTypeAnnotations)
  BY <1>7, <1>8, LengthFirst
  DEF attr_parse_runtimeVisibleAnnotations, attr_parse_runtimeInvisibleAnnotations,
      attr_parse_runtimeVisibleTypeAnnotations, attr_parse_runtimeInvisibleTypeAnnotations
<1>14. Pays(attr_parse_runtimeVisibleParameterAnnotations)
       /\ Pays(attr_parse_runtimeInvisibleParameterAnnotations)
       /\ Pays(attr_parse_bootstrapMethods) /\ Pays(attr_parse_annotationDefault)
  BY <1>6, <1>7, <1>8, LengthFirst
  DEF attr_parse_runtimeVisibleParameterAnnotations,
      attr_parse_runtimeInvisibleParameterAnnotations,
      attr_parse_bootstrapMethods, attr_parse_annotationDefault
<1> HIDE DEF Pays
<1>15. \A fn \in AttributeParsers : Pays(Script[fn])
  <2>1. \A name \in DOMAIN AttributeParser : Pays(Script[AttributeParser[name]])
    BY <1>9, <1>10, <1>11, <1>12, <1>13, <1>14 DEF Script, AttributeParser
  <2>2. QED
    BY <2>1 DEF AttributeParsers
<1>16. QED
  BY <1>15 DEF Pays

(* The other functions, each with its fare. *)
LEMMA PoolParsersPaid ==
  \A fn \in PoolParsers : Paid(3, Script[fn]) /\ Paid(Fare(fn), Script[fn])
<1>1. /\ U(1) \in Free2 /\ U(2) \in Free2 /\ U(4) \in Free2 /\ U(8) \in Free2
      /\ Blob(2, "count") \in Free2
  BY FreeLevels DEF Values
<1> DEFINE Pays(s) == Paid(0, s)
           Costs(s) == Paid(3, s)
<1>2. \A s \in Seq(Free2) : Pays(s)
  <2>1. \A ins \in Free2 : Affords(0, ins)
    BY Prices
  <2>2. QED
    BY <2>1, PaidNow
<1>3. /\ Pays(<<U(2)>>) /\ Pays(<<U(4)>>) /\ Pays(<<U(8)>>) /\ Pays(<<U(2), U(2)>>)
      /\ Pays(<<U(1), U(2)>>) /\ Pays(<<Blob(2, "count")>>)
  BY <1>1, <1>2, ShortSequences
<1>4. Costs(<<Call("cp_parse_filedRefInfo")>>)
  <2>1. Affords(3, Call("cp_parse_filedRefInfo"))
    BY Prices
  <2>2. PICK ins : ins = Call("cp_parse_filedRefInfo")
    OBVIOUS
  <2>3. <<ins>> \in Seq({ins}) /\ \A i \in 1 .. Len(<<ins>>) : Affords(3, <<ins>>[i])
    BY <2>1, <2>2
  <2>4. Paid(3, <<ins>>)
    BY <2>3, PaidNow
  <2>5. QED
    BY <2>2, <2>4
<1>5. \A s : Pays(s) => Costs(s)
  BY PaidMore
<1> HIDE DEF Pays, Costs
<1> DEFINE direct == PoolParsers \ {"cp_parse_methodRefInfo", "cp_parse_interfaceMethodRefInfo"}
<1>6. \A fn \in direct : Pays(Script[fn])
  BY <1>3, ParserNames
  DEF Script, cp_parse_classInfo, cp_parse_filedRefInfo, cp_parse_stringInfo,
      cp_parse_intergerInfo, cp_parse_floatInfo, cp_parse_longInfo, cp_parse_doubleInfo,
      cp_parse_nameAndTypeInfo, cp_parse_utf8Info, cp_parse_methodHandleInfo,
      cp_parse_methodTypeInfo, cp_parse_invokeDynamicInfo
<1>7. /\ Costs(Script["cp_parse_methodRefInfo"])
      /\ Costs(Script["cp_parse_interfaceMethodRefInfo"])
  BY <1>4 DEF Script, cp_parse_methodRefInfo, cp_parse_interfaceMethodRefInfo
<1>8. Fare("cp_parse_methodRefInfo") = 3 /\ Fare("cp_parse_interfaceMethodRefInfo") = 3
  BY Fares
<1>9. \A fn \in direct : Paid(Fare(fn), Script[fn])
  <2>1. \A fn \in direct : Paid(0, Script[fn]) /\ Fare(fn) \in Nat /\ 0 <= Fare(fn)
    BY <1>6, Fares DEF Pays
  <2>2. QED
    BY <2>1, PaidMore
<1>10. QED
  BY <1>5, <1>6, <1>7, <1>8, <1>9 DEF Costs

(* The loops of the members and of the attributes, however often they run. *)
LEMMA LoopersPaid ==
  ASSUME NEW n \in Nat, NEW fn \in Loopers
  PROVE  Paid(Fare(fn), Frame(fn, n).todo)
<1>1. U(2).op = "u" /\ U(2).w = 2 /\ U(2) \in Free2
  BY FreeLevels DEF U, Instr
<1>2. ASSUME NEW code, code = <<U(2), U(2), U(2), CallN(2, "parseAttributes")>>
      PROVE  Paid(0, Copies(code, n))
  <2>1. PICK u : u = U(2)
    OBVIOUS
  <2>2. PICK more : more = CallN(2, "parseAttributes")
    OBVIOUS
  <2>3. code = <<u, u, u, more>>
    BY <1>2, <2>1, <2>2
  <2>4. /\ code \in Seq({u, more}) /\ Len(code) = 4
        /\ code[1] = u /\ code[2] = u /\ code[3] = u /\ code[4] = more
    BY <2>3
  <2>5. Affords(0, u) /\ Affords(0 + 2, u) /\ Affords(0 + (2 + 2), u)
    BY <1>1, <2>1, Prices
  <2>6. Affords(0 + (2 + 2), more)
    <3>1. 0 + (2 + 2) \in Int /\ 3 <= 0 + (2 + 2)
      OBVIOUS
    <3>2. QED
      BY <2>2, <3>1, Prices
  <2>7. \A j \in 1 .. Len(code) : Affords(0 + (2 + 2), code[j])
    <3>1. \A j \in 1 .. 4 : j = 1 \/ j = 2 \/ j = 3 \/ j = 4
      OBVIOUS
    <3>2. QED
      BY <2>4, <2>5, <2>6, <3>1
  <2>8. /\ Len(code) > 1 /\ code[1].op \in Simple /\ code[1].w = 2 /\ code[2].w = 2
        /\ Affords(0, code[1]) /\ Affords(0 + 2, code[2])
    BY <1>1, <2>1, <2>4, <2>5 DEF Simple
  <2>9. 0 \in Nat /\ 2 \in Nat
    OBVIOUS
  <2>10. QED
    BY <2>4, <2>7, <2>8, <2>9, CopiesPaid
<1>3. CASE fn = "parseFields" \/ fn = "parseMethods"
  <2>1. Script[fn] = <<U(2), U(2), U(2), CallN(2, "parseAttributes")>> /\ Fare(fn) = 0
    BY <1>3, Fares DEF Script, parseFields, parseMethods
  <2>2. QED
    BY <2>1, <1>2 DEF Frame
<1>4. CASE fn = "parseAttributes"
  <2>1. PICK ins : ins = Attribute
    OBVIOUS
  <2>2. Script[fn] = <<ins>> /\ Fare(fn) = 2
    BY <1>4, <2>1, Fares DEF Script, parseAttributes
  <2>3. <<ins>> \in Seq({ins}) /\ \A j \in 1 .. Len(<<ins>>) : <<ins>>[j] = ins
    OBVIOUS
  <2>4. 2 \in Nat /\ Affords(2, ins)
    BY <2>1, Prices
  <2>5. Paid(2, Copies(<<ins>>, n))
    BY <2>3, <2>4, CopiesPaid
  <2>6. QED
    BY <2>2, <2>5 DEF Frame
<1>5. QED
  BY <1>3, <1>4 DEF Loopers

(* The parsers of annotations. *)
LEMMA AnnotationsPaid ==
  /\ Paid(2, parseElementValue) /\ Paid(0, parseAnnotation) /\ Paid(0, parseTypeAnnotation)
<1>1. U(2) \in Free2 /\ U(2).w = 2 /\ Many(1, <<U(1), U(1)>>) \in Free2
  <2>1. <<U(1), U(1)>> \in Seq(Free0)
    BY FreeLevels, ShortSequences
  <2>2. QED
    BY <2>1, FreeLevels DEF U, Instr
<1>2. Paid(2, parseElementValue)
  <2>1. PICK ins : ins = parseElementValue[1]
    OBVIOUS
  <2>2. parseElementValue = <<ins>>
    BY <2>1 DEF parseElementValue
  <2>3. <<ins>> \in Seq({ins}) /\ \A i \in 1 .. Len(<<ins>>) : <<ins>>[i] = ins
    OBVIOUS
  <2>4. Affords(2, ins)
    BY <2>1, Prices
  <2>5. QED
    BY <2>2, <2>3, <2>4, PaidNow
<1>3. Paid(0, parseAnnotation)
  <2>1. PICK u, pairs : u = U(2) /\ pairs = Pairs
    OBVIOUS
  <2>2. parseAnnotation = <<u, pairs>>
    BY <2>1 DEF parseAnnotation
  <2>3. PICK s : s = <<u, pairs>>
    OBVIOUS
  <2>4. s \in Seq({u, pairs}) /\ Len(s) = 2 /\ s[1] = u /\ s[2] = pairs
    BY <2>3
  <2>5. Affords(0, u) /\ u.w = 2 /\ Affords(0 + 2, pairs)
    BY <1>1, <2>1, Prices
  <2>6. \A i \in 2 .. Len(s) : Affords(0 + s[1].w, s[i])
    BY <2>4, <2>5
  <2>7. QED
    BY <2>2, <2>3, <2>4, <2>5, <2>6, PaidAfterOne
<1>4. Paid(0, parseTypeAnnotation)
  <2>1. PICK a, b, c, d : /\ a = parseTypeAnnotation[1] /\ b = Many(1, <<U(1), U(1)>>)
                          /\ c = U(2) /\ d = Pairs
    OBVIOUS
  <2>2. parseTypeAnnotation = <<a, b, c, d>>
    BY <2>1 DEF parseTypeAnnotation
  <2>3. PICK s : s = <<a, b, c, d>>
    OBVIOUS
  <2>4. /\ s \in Seq({a, b, c, d}) /\ Len(s) = 4
        /\ s[1] = a /\ s[2] = b /\ s[3] = c /\ s[4] = d
    BY <2>3
  <2>5. Affords(0, a) /\ a.w = 1
    BY <2>1, Prices, PricedInstructions
  <2>6. Affords(0 + 1, b) /\ Affords(0 + 1, c) /\ Affords(0 + 1, d)
    BY <1>1, <2>1, Prices
  <2>7. \A i \in 2 .. Len(s) : i = 2 \/ i = 3 \/ i = 4
    BY <2>4
  <2>8. \A i \in 2 .. Len(s) : Affords(0 + s[1].w, s[i])
    BY <2>4, <2>5, <2>6, <2>7
  <2>9. QED
    BY <2>2, <2>3, <2>4, <2>5, <2>8, PaidAfterOne
<1>5. QED
  BY <1>2, <1>3, <1>4

(* LoadClassFile, whose pool is paid by what it reads before.              *)
LEMMA LoaderPaid == Paid(0, LoadClassFile)
<1>1. PICK s : s = LoadClassFile
  OBVIOUS
<1>2. /\ s \in Seq({s[i] : i \in 1 .. 11}) /\ Len(s) = 11
      /\ s[1] = Test(4, "magic") /\ s[2] = Keep(2, "minor") /\ s[3] = Test(2, "major")
      /\ s[4] = Pool
  BY <1>1, LoaderScript
<1>3. /\ s[5] = U(2) /\ s[6] = U(2) /\ s[7] = U(2) /\ s[8] = Many(2, <<U(2)>>)
      /\ s[9] = CallN(2, "parseFields") /\ s[10] = CallN(2, "parseMethods")
      /\ s[11] = CallN(2, "parseAttributes")
  BY <1>1 DEF LoadClassFile
<1>4. /\ s[1] \in Free2 /\ s[2] \in Free2 /\ s[3] \in Free2 /\ s[5] \in Free2
      /\ s[6] \in Free2 /\ s[7] \in Free2 /\ s[8] \in Free2
  <2>1. <<U(2)>> \in Seq(Free0)
    BY FreeLevels, ShortSequences
  <2>2. QED
    BY <1>2, <1>3, <2>1, FreeLevels DEF Values
<1>5. s[1].op \in Simple /\ s[1].w = 4 /\ s[2].w = 2
  BY <1>2 DEF Test, Keep, Instr, Simple
<1>6. PICK c \in Int : c = 0 + (4 + 2)
  OBVIOUS
<1>7. \A i \in 3 .. Len(s) : Affords(c, s[i])
  <2>1. Affords(c, s[3]) /\ Affords(c, s[5]) /\ Affords(c, s[6]) /\ Affords(c, s[7])
        /\ Affords(c, s[8])
    BY <1>4, Prices
  <2>2. 1 <= c /\ 3 <= c /\ 6 <= c
    BY <1>6
  <2>3. Affords(c, s[4])
    BY <1>2, <2>2, Prices
  <2>4. Affords(c, s[9]) /\ Affords(c, s[10]) /\ Affords(c, s[11])
    BY <1>3, <2>2, Prices
  <2>5. \A i \in 3 .. 11 : \/ i = 3 \/ i = 4 \/ i = 5 \/ i = 6 \/ i = 7 \/ i = 8
                           \/ i = 9 \/ i = 10 \/ i = 11
    OBVIOUS
  <2>6. QED
    BY <1>2, <2>1, <2>3, <2>4, <2>5
<1>8. Affords(0, s[1]) /\ Affords(0 + 4, s[2])
  BY <1>4, Prices
<1>9. 0 \in Nat /\ 4 \in Nat /\ 2 \in Nat
  OBVIOUS
<1>10. Paid(0, s)
  BY <1>2, <1>5, <1>6, <1>7, <1>8, <1>9, PaidAfterTwo
<1>11. QED
  BY <1>1, <1>10

(* Each function is paid with its fare. *)
LEMMA ScriptsPaid ==
  /\ Paid(0, Frame("LoadClassFile", 1).todo)
  /\ \A fn \in DOMAIN Script \ (Loopers \cup {"LoadClassFile"}) :
       Paid(Fare(fn), Frame(fn, 1).todo)
<1>1. ASSUME NEW fn, NEW b, Paid(b, Script[fn])
      PROVE  Paid(b, Frame(fn, 1).todo)
  <2>1. PICK s : s = Script[fn]
    OBVIOUS
  <2>2. s \in Seq({s[i] : i \in 1 .. Len(s)})
    BY <1>1, <2>1 DEF Paid
  <2>3. Copies(s, 1) = s
    BY <2>2, CopiesOfCode
  <2>4. Frame(fn, 1).todo = Copies(s, 1)
    BY <2>1 DEF Frame
  <2>5. QED
    BY <1>1, <2>1, <2>3, <2>4
<1>2. Paid(0, Script["LoadClassFile"])
  BY LoaderPaid, LoaderScript
<1>3. \A fn \in {"parseElementValue", "parseAnnotation", "parseTypeAnnotation"} :
        Paid(Fare(fn), Script[fn])
  BY AnnotationsPaid, Fares DEF Script
<1>4. \A fn \in AttributeParsers : Paid(Fare(fn), Script[fn])
  BY AttributesPaid, Fares
<1>5. DOMAIN Script \ (Loopers \cup {"LoadClassFile"})
        \subseteq PoolParsers \cup AttributeParsers
                  \cup {"parseElementValue", "parseAnnotation", "parseTypeAnnotation"}
  BY AttributeFunctions, ParserNames DEF Script, Loopers
<1>6. QED
  BY <1>1, <1>2, <1>3, <1>4, <1>5, PoolParsersPaid

-----------------------------------------------------------------------------
(* What a loop or a switch goes on with is paid with the bytes it read.    *)
LEMMA LoopsPaid ==
  ASSUME NEW b \in Nat, Affords(b, Ins), Ins.op \in {"blob", "many", "many1"}, NEW n \in Nat
  PROVE  Paid(b + Ins.w, Loop(n))
<1>1. PICK c \in Nat : c = b + Ins.w
  <2>1. Ins.w \in Nat
    BY AffordedInstructions
  <2>2. QED
    BY <2>1
<1>2. CASE Ins.op = "blob"
  <2>1. PICK ins : ins = Bytes(n)
    OBVIOUS
  <2>2. ins \in Free2 /\ Loop(n) = <<ins>>
    BY <1>2, <2>1, FreeLevels DEF Loop
  <2>3. <<ins>> \in Seq({ins}) /\ \A i \in 1 .. Len(<<ins>>) : <<ins>>[i] = ins
    OBVIOUS
  <2>4. Affords(c, ins)
    BY <2>2, Prices
  <2>5. Paid(c, <<ins>>)
    BY <2>3, <2>4, PaidNow
  <2>6. QED
    BY <1>1, <2>2, <2>5
<1>3. CASE Ins.op \in {"many", "many1"}
  <2>1. PICK m \in Nat : Loop(n) = Copies(Ins.arg, m)
    <3>1. PICK less \in Nat : less = IF n = 0 THEN 0 ELSE n - 1
      OBVIOUS
    <3>2. CASE Ins.op = "many"
      BY <3>2 DEF Loop
    <3>3. CASE Ins.op = "many1"
      <4>1. Loop(n) = Copies(Ins.arg, IF n = 0 THEN 0 ELSE n - 1)
        BY <3>3 DEF Loop
      <4>2. QED
        BY <3>1, <4>1
    <3>4. QED
      BY <1>3, <3>2, <3>3
  <2>2. PICK body : body = Ins.arg
    OBVIOUS
  <2>3. ASSUME NEW ins, body = <<ins>>, Affords(c, ins)
        PROVE  Paid(c, Copies(body, m))
    <3>1. body \in Seq({ins}) /\ \A j \in 1 .. Len(body) : body[j] = ins
      BY <2>3
    <3>2. QED
      BY <2>3, <3>1, CopiesPaid
  <2>4. CASE Ins \in Free2
    <3>1. body \in Seq(Free1)
      BY <1>3, <2>2, <2>4, FreeInstructions
    <3>2. \A j \in 1 .. Len(body) : body[j] \in Free1
      BY <3>1
    <3>3. \A j \in 1 .. Len(body) : Affords(c, body[j])
      BY <3>2, FreeLevels, Prices
    <3>4. QED
      BY <1>1, <2>1, <2>2, <3>1, <3>3, CopiesPaid
  <2>5. CASE Ins = Many(1, <<Annotations>>)
    <3>1. body = <<Annotations>>
      BY <2>2, <2>5 DEF Many, Instr
    <3>2. 1 <= c /\ c \in Int
      BY <1>1, <2>5, PricedInstructions
    <3>3. Affords(c, Annotations)
      BY <3>2, Prices
    <3>4. QED
      BY <1>1, <2>1, <2>2, <2>3, <3>1, <3>3
  <2>6. CASE Ins = Pairs /\ 1 <= b
    <3>1. PICK u, value : u = U(2) /\ value = Call("parseElementValue")
      OBVIOUS
    <3>2. body = <<u, value>>
      BY <2>2, <2>6, <3>1 DEF Pairs, Many, Instr
    <3>3. body \in Seq({u, value}) /\ Len(body) = 2 /\ body[1] = u /\ body[2] = value
      BY <3>2
    <3>4. u \in Free2 /\ u.w = 2
      BY <3>1, FreeLevels DEF U, Instr
    <3>5. PICK d \in Int : d = c + 2 /\ 5 <= d
      BY <1>1, <2>6, PricedInstructions
    <3>6. Affords(c, u) /\ Affords(d, u) /\ Affords(d, value)
      BY <3>1, <3>4, <3>5, Prices
    <3>7. \A j \in 1 .. Len(body) : j = 1 \/ j = 2
      BY <3>3
    <3>8. \A j \in 1 .. Len(body) : Affords(c + body[1].w, body[j])
      BY <3>3, <3>4, <3>5, <3>6, <3>7
    <3>9. QED
      BY <1>1, <2>1, <2>2, <3>3, <3>6, <3>8, CopiesPaid
  <2>7. CASE Ins \in {Annotations, TypeAnnotations} /\ 1 <= b
    <3>1. PICK fn \in {"parseAnnotation", "parseTypeAnnotation"} : body = <<Call(fn)>>
      BY <2>2, <2>7 DEF Annotations, TypeAnnotations, Many, Instr
    <3>2. 3 <= c /\ c \in Int
      BY <1>1, <2>7, PricedInstructions
    <3>3. Affords(c, Call(fn))
      BY <3>2, Prices
    <3>4. QED
      BY <1>1, <2>1, <2>2, <2>3, <3>1, <3>3
  <2>8. CASE Ins = Elements /\ 3 <= b
    <3>1. body = <<Call("parseElementValue")>>
      BY <2>2, <2>8 DEF Elements, Many, Instr
    <3>2. 5 <= c /\ c \in Int
      BY <1>1, <2>8, PricedInstructions
    <3>3. Affords(c, Call("parseElementValue"))
      BY <3>2, Prices
    <3>4. QED
      BY <1>1, <2>1, <2>2, <2>3, <3>1, <3>3
  <2>9. QED
    BY <1>3, <2>4, <2>5, <2>6, <2>7, <2>8, AffordedInstructions
<1>4. QED
  BY <1>2, <1>3

(* What the two switches go on with. *)
LEMMA SwitchesPaid ==
  ASSUME NEW b \in Nat, NEW ins, Affords(b, ins), ins.op = "select", NEW tag \in DOMAIN ins.arg
  PROVE  Paid(b + ins.w, ins.arg[tag])
<1>1. PICK c \in Nat : c = b + ins.w
  <2>1. ins.w \in Nat
    BY AffordedInstructions
  <2>2. QED
    BY <2>1
<1>2. /\ U(1) \in Free2 /\ U(2) \in Free2 /\ Many(2, <<U(2), U(2), U(2)>>) \in Free2
  <2>1. <<U(2), U(2), U(2)>> \in Seq(Free0)
    BY FreeLevels, ShortSequences
  <2>2. QED
    BY <2>1, FreeLevels
<1>3. \A s \in Seq(Free2) : Paid(c, s)
  <2>1. \A i \in Free2 : Affords(c, i)
    BY Prices
  <2>2. QED
    BY <2>1, PaidNow
<1> DEFINE Pays(s) == Paid(c, s)
<1>4. /\ Pays(<<>>) /\ Pays(<<U(1)>>) /\ Pays(<<U(2)>>) /\ Pays(<<U(1), U(1)>>)
      /\ Pays(<<U(2), U(2)>>) /\ Pays(<<U(2), U(1)>>)
      /\ Pays(<<Many(2, <<U(2), U(2), U(2)>>)>>)
  BY <1>2, <1>3, ShortSequences
<1>5. ASSUME NEW i, Affords(c, i)
      PROVE  Pays(<<i>>)
  <2>1. PICK s : s = <<i>>
    OBVIOUS
  <2>2. s \in Seq({i}) /\ \A j \in 1 .. Len(s) : s[j] = i
    BY <2>1
  <2>3. \A j \in 1 .. Len(s) : Affords(c, s[j])
    BY <1>5, <2>2
  <2>4. QED
    BY <2>1, <2>2, <2>3, PaidNow
<1>6. CASE ins = parseElementValue[1] /\ 2 <= b
  <2>1. 3 <= c /\ c \in Int
    BY <1>1, <1>6, PricedInstructions
  <2>2. Pays(<<Call("parseAnnotation")>>) /\ Pays(<<Elements>>)
    BY <2>1, <1>5, Prices
  <2> DEFINE two == <<U(2)>>  twotwo == <<U(2), U(2)>>
             nested == <<Call("parseAnnotation")>>  array == <<Elements>>
  <2>3. ins.arg = [const |-> two, enum |-> twotwo, class |-> two,
                   annotation |-> nested, array |-> array]
    BY <1>6 DEF parseElementValue, Select, Instr, Elements
  <2>4. Pays(two) /\ Pays(twotwo) /\ Pays(nested) /\ Pays(array)
    BY <1>4, <2>2
  <2> HIDE DEF two, twotwo, nested, array, Pays
  <2>5. Pays(ins.arg[tag])
    BY <2>3, <2>4
  <2>6. QED
    BY <1>1, <2>5 DEF Pays
<1>7. CASE ins = parseTypeAnnotation[1]
  <2> DEFINE none == <<>>  one == <<U(1)>>  two == <<U(2)>>  oneone == <<U(1), U(1)>>
             twoone == <<U(2), U(1)>>  places == <<Many(2, <<U(2), U(2), U(2)>>)>>
  <2>1. ins.arg = [parameter |-> one, super |-> two, bound |-> oneone, empty |-> none,
                   formal |-> one, throws |-> two, localvar |-> places, catch |-> two,
                   offset |-> two, argument |-> twoone, other |-> none]
    BY <1>7 DEF parseTypeAnnotation, Select, Instr
  <2>2. Pays(none) /\ Pays(one) /\ Pays(two) /\ Pays(oneone) /\ Pays(twoone) /\ Pays(places)
    BY <1>4
  <2> HIDE DEF none, one, two, oneone, twoone, places, Pays
  <2>3. Pays(ins.arg[tag])
    BY <2>1, <2>2
  <2>4. QED
    BY <1>1, <2>3 DEF Pays
<1>8. QED
  BY <1>6, <1>7, AffordedInstructions

-----------------------------------------------------------------------------
(* Nothing costs nothing. *)
LEMMA NothingPaid == \A c \in Nat : Paid(c, <<>>)
<1> SUFFICES ASSUME NEW c \in Nat
             PROVE  Paid(c, <<>>)
  OBVIOUS
<1>1. PICK s : s = <<>>
  OBVIOUS
<1>2. s \in Seq({}) /\ Len(s) = 0
  BY <1>1
<1>3. \A i \in 1 .. Len(s) : Affords(c, s[i])
  BY <1>2
<1>4. QED
  BY <1>1, <1>2, <1>3, PaidNow

(* What a call begins with is paid with the bytes that were read for it,   *)
(* but for the three that are the call's price.                            *)
LEMMA BegunPaid ==
  ASSUME FailuresNotNegative, file \in Files, left \in Nat, NEW b \in Nat, Affords(b, Ins),
         NEW code, NEW call, Begun(code, call)
  PROVE  /\ left' = left - Ins.w
         /\ Ins.op \notin Simple /\ Paid(b + Ins.w, code) /\ Paid(b + Ins.w - 3, call.todo)
<1>1. /\ file.counts \cup {0} \subseteq Nat /\ file.poolCounts \cup {0} \subseteq Nat
  BY FilesAssumption
<1>2. \A c \in Nat : Paid(c, <<>>)
  BY NothingPaid
<1>3. ASSUME NEW c \in Nat, 5 <= c, NEW i, NEW tag
      PROVE  Paid(c, <<Entry(i)>>) /\ Paid(c, <<Store(i, tag)>>)
  <2>1. PICK e, s : e = <<Entry(i)>> /\ s = <<Store(i, tag)>>
    OBVIOUS
  <2>2. /\ e \in Seq({Entry(i)}) /\ \A j \in 1 .. Len(e) : e[j] = Entry(i)
        /\ s \in Seq({Store(i, tag)}) /\ \A j \in 1 .. Len(s) : s[j] = Store(i, tag)
    BY <2>1
  <2>3. Affords(c, Entry(i)) /\ Affords(c, Store(i, tag))
    BY <1>3, Prices
  <2>4. QED
    BY <2>1, <2>2, <2>3, PaidNow
<1>4. CASE Ins.op = "call"
  <2>1. left' = left /\ code = <<>> /\ call = Frame(Ins.arg, 1)
    BY <1>4 DEF Begun
  <2>2. Ins.w = 0 /\ Ins.arg \in DOMAIN Script \ Loopers /\ 3 + Fare(Ins.arg) <= b
    BY <1>4, AffordedInstructions
  <2>3. Paid(Fare(Ins.arg), call.todo)
    <3>1. CASE Ins.arg = "LoadClassFile"
      BY <2>1, <3>1, ScriptsPaid, Fares
    <3>2. CASE Ins.arg # "LoadClassFile"
      BY <2>1, <2>2, <3>2, ScriptsPaid
    <3>3. QED
      BY <3>1, <3>2
  <2>4. PICK fare \in Nat : fare = Fare(Ins.arg)
    BY Fares
  <2>5. b + Ins.w - 3 \in Nat /\ fare <= b + Ins.w - 3 /\ b + Ins.w \in Nat
    BY <2>2, <2>4
  <2>6. Paid(b + Ins.w - 3, call.todo)
    BY <2>3, <2>4, <2>5, PaidMore
  <2>7. QED
    BY <1>2, <1>4, <2>1, <2>2, <2>5, <2>6 DEF Simple
<1>5. CASE Ins.op = "callN"
  <2>1. PICK n \in Nat : Accept(n) /\ code = <<>> /\ call = Frame(Ins.arg, n)
    BY <1>1, <1>5 DEF Begun
  <2>2. Ins.w = 2 /\ Ins.arg \in Loopers /\ 1 + Fare(Ins.arg) <= b
    BY <1>5, AffordedInstructions
  <2>3. Paid(Fare(Ins.arg), call.todo)
    BY <2>1, <2>2, LoopersPaid
  <2>4. PICK fare \in Nat : fare = Fare(Ins.arg)
    BY Fares
  <2>5. b + Ins.w - 3 \in Nat /\ fare <= b + Ins.w - 3 /\ b + Ins.w \in Nat
    BY <2>2, <2>4
  <2>6. Paid(b + Ins.w - 3, call.todo)
    BY <2>3, <2>4, <2>5, PaidMore
  <2>7. QED
    BY <1>2, <1>5, <2>1, <2>5, <2>6, AcceptedIsDelivered DEF Simple
<1>6. CASE Ins.op = "pool"
  <2>1. PICK n \in Nat :
          Accept(n) /\ code = <<>> /\ call = ACall("parseConstantPool", Entries(1, n), 0)
    BY <1>1, <1>6 DEF Begun
  <2>2. Ins.w = 2 /\ 6 <= b
    BY <1>6, AffordedInstructions, PricedInstructions
  <2>3. b + Ins.w - 3 \in Nat /\ 5 <= b + Ins.w - 3 /\ b + Ins.w \in Nat
    BY <2>2
  <2>4. call.todo = <<Entry(1)>> \/ call.todo = <<>>
    BY <2>1, CallFields DEF Entries
  <2>5. Paid(b + Ins.w - 3, call.todo)
    BY <1>2, <1>3, <2>3, <2>4
  <2>6. QED
    BY <1>2, <1>6, <2>1, <2>3, <2>5, AcceptedIsDelivered DEF Simple
<1>7. CASE Ins.op = "entry"
  <2>1. PICK tag \in DOMAIN EntryParser :
          Accept(tag) /\ code = <<Store(Ins.arg, tag)>> /\ call = Frame(EntryParser[tag], 1)
    BY <1>7 DEF Begun
  <2>2. Ins.w = 1 /\ 5 <= b
    BY <1>7, AffordedInstructions
  <2>3. b + Ins.w - 3 \in Nat /\ 3 <= b + Ins.w - 3 /\ b + Ins.w \in Nat /\ 5 <= b + Ins.w
    BY <2>2
  <2>4. Paid(3, call.todo)
    <3>1. PICK fn \in PoolParsers : fn = EntryParser[tag]
      BY DEF PoolParsers
    <3>2. Paid(3, Script[fn])
      BY PoolParsersPaid
    <3>3. PICK s : s = Script[fn]
      OBVIOUS
    <3>4. s \in Seq({s[i] : i \in 1 .. Len(s)})
      BY <3>2, <3>3 DEF Paid
    <3>5. call.todo = Copies(s, 1) /\ Copies(s, 1) = s
      BY <2>1, <3>1, <3>3, <3>4, CopiesOfCode DEF Frame
    <3>6. QED
      BY <3>2, <3>3, <3>5
  <2>5. Paid(b + Ins.w - 3, call.todo)
    BY <2>3, <2>4, PaidMore
  <2>6. Paid(b + Ins.w, code)
    BY <1>3, <2>1, <2>3
  <2>7. QED
    BY <1>7, <2>1, <2>5, <2>6, AcceptedIsDelivered DEF Simple
<1>8. CASE Ins.op = "attribute"
  <2>1. PICK i, text, name :
          /\ Accept(i) /\ code = <<>> /\ name \in Named(text)
          /\ call = Frame(AttributeParser[name], 1)
    BY <1>8 DEF Begun
  <2>2. Ins.w = 2 /\ 2 <= b
    BY <1>8, AffordedInstructions, PricedInstructions
  <2>3. b + Ins.w - 3 \in Nat /\ 1 <= b + Ins.w - 3 /\ b + Ins.w \in Nat
    BY <2>2
  <2>4. PICK fn \in AttributeParsers : fn = AttributeParser[name]
    BY <2>1 DEF Named, AttributeParsers
  <2>5. fn \in DOMAIN Script \ (Loopers \cup {"LoadClassFile"}) /\ Fare(fn) = 1
    BY AttributeFunctions, Fares DEF Script, Loopers
  <2>6. Paid(1, call.todo)
    BY <2>1, <2>4, <2>5, ScriptsPaid
  <2>7. Paid(b + Ins.w - 3, call.todo)
    BY <2>3, <2>6, PaidMore
  <2>8. QED
    BY <1>2, <1>8, <2>1, <2>3, <2>7, AcceptedIsDelivered DEF Simple
<1>9. QED
  BY <1>4, <1>5, <1>6, <1>7, <1>8 DEF Begun

(* The bytes that are read and not yet spent on the calls below call k,    *)
(* and the inductive invariant: what every call has left to do is paid     *)
(* with them.                                                              *)
Credit(k) == file.bytes - left - 3 * (k - 1)
CallsPaid == \A k \in 1 .. Len(stack) : Paid(Credit(k), stack[k].todo)

(* The loader begins with nothing to pay. *)
LEMMA CallsPaidInit == Init => CallsPaid
<1> SUFFICES ASSUME Init
             PROVE  CallsPaid
  OBVIOUS
<1>1. PICK call : call = Frame("LoadClassFile", 1)
  OBVIOUS
<1>2. stack = <<call>> /\ left = file.bytes /\ file.bytes \in Nat
  BY <1>1, FilesAssumption DEF Init
<1>3. Len(stack) = 1 /\ stack[1] = call
  BY <1>2
<1>4. Credit(1) = 0
  BY <1>2 DEF Credit
<1>5. Paid(0, call.todo)
  BY <1>1, ScriptsPaid
<1>6. \A k \in 1 .. Len(stack) : k = 1
  BY <1>3
<1>7. QED
  BY <1>3, <1>4, <1>5, <1>6 DEF CallsPaid

(* Every step keeps it: the bytes an instruction reads pay for what it     *)
(* leads to.                                                               *)
LEMMA CallsPaidStep ==
  ASSUME FailuresNotNegative, Calls, CallsPaid, [Next]_vars
  PROVE  CallsPaid'
<1>1. CASE UNCHANGED vars
  BY <1>1 DEF vars, CallsPaid, Credit
<1>2. CASE Next
  <2>1. phase \in {"parsing", "null"}
    BY <1>2 DEF Next, ReadAccepted, Compute, Doing, ReadRefused, ReadStored, ReadKept,
       ReadTested, ReadCount, ReadMembers, ReadPoolCount, ReadEntry, StoreEntry, ReadVariant,
       ReadAttribute, SkipBytes, CallParser, Return, ReturnNothing, ReturnNull
  <2>2. PICK n \in Nat : n = Len(stack) /\ n >= 1 /\ IsStack(stack)
    <3>1. Stage /\ Running
      BY <2>1 DEF Calls, Running
    <3>2. \A f, fn, todo, keep : f = ACall(fn, todo, keep) => IsCall(f)
      BY DEF ACall, IsCall
    <3>3. QED
      BY <3>1, <3>2, CallsAreRecords DEF IsStack
  <2> DEFINE b == Credit(n)
  <2>3. /\ file \in Files /\ file.bytes \in Nat /\ left \in Nat /\ file' = file
        /\ left' \in Nat /\ left' <= left
    BY <1>2, StepLeft, FilesAssumption DEF Calls, Types
  <2>4. ASSUME NEW k \in 1 .. n
        PROVE  Paid(Credit(k)', stack[k].todo)
    <3>1. Paid(Credit(k), stack[k].todo) /\ Credit(k) \in Nat
      BY <2>2, PaidTyped DEF CallsPaid
    <3>2. Credit(k)' \in Nat /\ Credit(k) <= Credit(k)'
      BY <2>3, <3>1 DEF Credit
    <3>3. QED
      BY <3>1, <3>2, PaidMore
  <2>5. CASE stack' = stack
    BY <2>2, <2>4, <2>5 DEF CallsPaid
  <2>6. CASE Returned
    <3>1. \A k \in 1 .. n - 1 : k \in 1 .. n
      BY <2>2
    <3>2. Len(stack') = n - 1 /\ \A k \in 1 .. n - 1 : stack'[k] = stack[k]
      BY <2>2, <2>6 DEF Returned
    <3>3. \A k \in 1 .. n - 1 : Paid(Credit(k)', stack'[k].todo)
      BY <2>4, <3>1, <3>2
    <3>4. QED
      BY <3>2, <3>3 DEF CallsPaid
  <2>7. CASE phase = "null" \/ This.todo = <<>>
    BY <1>2, <2>1, <2>2, <2>5, <2>6, <2>7, ReturnShapes DEF Stops
  <2>8. CASE phase = "parsing" /\ This.todo # <<>>
    <3>1. /\ Paid(b, This.todo) /\ b \in Nat /\ Ins = Head(This.todo)
          /\ Affords(b, Ins) /\ Ins.w \in Nat
      <4>1. Paid(b, This.todo) /\ b \in Nat
        BY <2>2, PaidTyped DEF CallsPaid, This
      <4>2. PICK todo : todo = This.todo
        OBVIOUS
      <4>3. todo \in Seq({todo[i] : i \in 1 .. Len(todo)}) /\ todo # <<>>
        BY <2>8, <4>1, <4>2 DEF Paid
      <4>4. 1 \in 1 .. Len(todo) /\ Head(todo) = todo[1] /\ Window(todo, 1) = 0
        BY <4>3 DEF Window
      <4>5. Affords(b + 0, Ins) /\ b + 0 = b
        BY <4>1, <4>2, <4>4 DEF Paid, Ins
      <4>6. QED
        BY <4>1, <4>5, AffordedInstructions DEF Ins
    <3>2. \A w \in Nat : left' = left - w => Credit(n)' = b + w /\ Credit(n + 1)' = b + w - 3
      <4>1. /\ Credit(n) = file.bytes - left - 3 * (n - 1)
            /\ Credit(n)' = file.bytes - left' - 3 * (n - 1)
            /\ Credit(n + 1)' = file.bytes - left' - 3 * (n + 1 - 1)
        BY <2>3 DEF Credit
      <4>2. \A all, l, m, w \in Int : /\ all - (l - w) - 3 * (m - 1) = all - l - 3 * (m - 1) + w
                                      /\ all - (l - w) - 3 * (m + 1 - 1)
                                           = all - l - 3 * (m - 1) + w - 3
        OBVIOUS
      <4>3. QED
        BY <2>2, <2>3, <4>1, <4>2
    <3>3. ASSUME NEW code, Went(code) \/ \E call : Entered(code, call),
                 left' = left - Ins.w, Paid(b + Ins.w, code),
                 code = <<>> \/ Ins.op \notin Simple
          PROVE  \A k \in 1 .. n : Paid(Credit(k)', stack'[k].todo)
      <4>1. /\ \A k \in 1 .. n - 1 : stack'[k] = stack[k]
            /\ stack'[n].todo = code \o Tail(This.todo)
        BY <2>2, <3>3 DEF Went, Entered
      <4>2. Paid(b + Ins.w, code \o Tail(This.todo))
        BY <2>8, <3>1, <3>3, PaidTail
      <4>3. Paid(Credit(n)', stack'[n].todo)
        BY <3>1, <3>2, <3>3, <4>1, <4>2
      <4>4. \A k \in 1 .. n : k \in 1 .. n - 1 \/ k = n
        BY <2>2
      <4>5. QED
        BY <2>4, <4>1, <4>3, <4>4
    <3> HIDE DEF b
    <3>4. CASE Stops
      BY <2>5, <3>4 DEF Stops
    <3>5. CASE Proceeds
      <4>1. PICK v, code : Continues(v, code) /\ Went(code)
        BY <3>5 DEF Proceeds
      <4>2. left' = left - Ins.w
        BY <4>1, AcceptedIsDelivered DEF Continues
      <4>3. Paid(b + Ins.w, code) /\ (code = <<>> \/ Ins.op \notin Simple)
        <5>1. CASE Ins.op \in {"u", "keep", "test"} /\ code = <<>>
          <6>1. b + Ins.w \in Nat
            BY <3>1
          <6>2. Paid(b + Ins.w, <<>>)
            BY <6>1, NothingPaid
          <6>3. QED
            BY <5>1, <6>2
        <5>2. CASE /\ Ins.op \in {"blob", "many", "many1"}
                   /\ v \in file.counts \cup {0} /\ code = Loop(v)
          <6>1. v \in Nat
            BY <2>3, <5>2, FilesAssumption
          <6>2. QED
            BY <3>1, <5>2, <6>1, LoopsPaid DEF Simple
        <5>3. CASE Ins.op = "select" /\ v \in DOMAIN Ins.arg /\ code = Ins.arg[v]
          BY <3>1, <5>3, SwitchesPaid DEF Simple
        <5>4. QED
          BY <4>1, <5>1, <5>2, <5>3 DEF Continues
      <4>4. Len(stack') = n
        BY <2>2, <4>1 DEF Went
      <4>5. QED
        BY <3>3, <4>1, <4>2, <4>3, <4>4 DEF CallsPaid
    <3>6. CASE Invokes
      <4>1. PICK code, call : Begun(code, call) /\ Entered(code, call)
        BY <3>6 DEF Invokes
      <4>2. /\ left' = left - Ins.w /\ Ins.op \notin Simple
            /\ Paid(b + Ins.w, code) /\ Paid(b + Ins.w - 3, call.todo)
        BY <2>3, <3>1, <4>1, BegunPaid
      <4>3. \A k \in 1 .. n : Paid(Credit(k)', stack'[k].todo)
        BY <3>3, <4>1, <4>2
      <4>4. Len(stack') = n + 1 /\ stack'[n + 1] = call
        BY <2>2, <4>1 DEF Entered
      <4>5. Paid(Credit(n + 1)', stack'[n + 1].todo)
        BY <3>1, <3>2, <4>2, <4>4
      <4>6. \A k \in 1 .. n + 1 : k \in 1 .. n \/ k = n + 1
        BY <2>2
      <4>7. QED
        BY <4>3, <4>4, <4>5, <4>6 DEF CallsPaid
    <3>7. CASE Skips \/ Stores
      <4>1. PICK code :
              /\ Went(code) /\ Ins.w = 0 /\ Paid(b, code)
              /\ code = <<>> \/ Ins.op \notin Simple
        <5>1. Paid(b, <<>>)
          BY <3>1, NothingPaid
        <5>2. CASE Skips
          BY <3>1, <5>1, <5>2, AffordedInstructions DEF Skips
        <5>3. CASE Stores
          <6>1. PICK i : Went(Entries(i, count))
            BY <5>3 DEF Stores
          <6>2. Ins.op = "store" /\ Ins.w = 0 /\ 5 <= b
            BY <3>1, <5>3, AffordedInstructions DEF Stores
          <6>3. PICK s : s = <<Entry(i)>>
            OBVIOUS
          <6>4. s \in Seq({Entry(i)}) /\ \A j \in 1 .. Len(s) : s[j] = Entry(i)
            BY <6>3
          <6>5. Affords(b, Entry(i))
            BY <3>1, <6>2, Prices
          <6>6. Paid(b, s)
            BY <3>1, <6>4, <6>5, PaidNow
          <6>7. Paid(b, Entries(i, count))
            BY <5>1, <6>3, <6>6 DEF Entries
          <6>8. QED
            BY <6>1, <6>2, <6>7 DEF Simple
        <5>4. QED
          BY <3>7, <5>2, <5>3
      <4>2. Paid(b, code \o Tail(This.todo))
        <5>1. b + Ins.w = b
          BY <3>1, <4>1
        <5>2. QED
          BY <2>8, <3>1, <4>1, <5>1, PaidTail
      <4>3. /\ Len(stack') = n /\ \A k \in 1 .. n - 1 : stack'[k] = stack[k]
            /\ stack'[n].todo = code \o Tail(This.todo)
        BY <2>2, <4>1 DEF Went
      <4>4. Credit(n)' \in Nat /\ b <= Credit(n)'
        BY <2>2, <2>3, <3>1 DEF Credit, b
      <4>5. Paid(Credit(n)', stack'[n].todo)
        BY <4>2, <4>3, <4>4, PaidMore
      <4>6. \A k \in 1 .. n : k \in 1 .. n - 1 \/ k = n
        BY <2>2
      <4>7. QED
        BY <2>4, <4>3, <4>5, <4>6 DEF CallsPaid
    <3>8. QED
      BY <1>2, <2>2, <2>8, <3>4, <3>5, <3>6, <3>7, InstructionShapes
  <2>9. QED
    BY <2>1, <2>7, <2>8
<1>3. QED
  BY <1>1, <1>2

(* The C stack is never deeper than the bytes that were read pay for,      *)
(* three for each call: a class file cannot nest annotations, arrays or    *)
(* attributes so that the loader's recursion outruns its input.            *)
THEOREM DepthIsPaid ==
  ASSUME FailuresNotNegative
  PROVE  Spec => []DepthPaidByBytes
<1>1. Calls /\ CallsPaid => DepthPaidByBytes
  <2> SUFFICES ASSUME Calls, CallsPaid
               PROVE  DepthPaidByBytes
    OBVIOUS
  <2>1. file.bytes \in Nat /\ left \in Nat /\ left <= file.bytes
    BY FilesAssumption DEF Calls, Types
  <2>2. CASE Running
    <3>1. Len(stack) \in Nat /\ Len(stack) >= 1
      BY <2>2, CallsAreRecords DEF Calls
    <3>2. PICK n \in Nat : n = Len(stack) /\ n >= 1
      BY <3>1
    <3>3. Credit(n) \in Nat
      BY <3>2, PaidTyped DEF CallsPaid
    <3>4. QED
      BY <2>1, <3>2, <3>3 DEF Credit, DepthPaidByBytes
  <2>3. CASE ~Running
    <3>1. stack = <<>> \/ (Len(stack) \in Nat /\ Len(stack) >= 1)
      BY <2>3 DEF Calls, Stage, Begins, InPool, InMembers, Over, PoolStack, MemberStack
    <3>2. CASE stack = <<>>
      <4>1. Len(stack) = 0
        BY <3>2
      <4>2. QED
        BY <2>1, <4>1 DEF DepthPaidByBytes
    <3>3. CASE Len(stack) \in Nat /\ Len(stack) >= 1
      <4>1. PICK n \in Nat : n = Len(stack) /\ n >= 1
        BY <3>3
      <4>2. Credit(n) \in Nat
        BY <4>1, PaidTyped DEF CallsPaid
      <4>3. QED
        BY <2>1, <4>1, <4>2 DEF Credit, DepthPaidByBytes
    <3>4. QED
      BY <3>1, <3>2, <3>3
  <2>4. QED
    BY <2>2, <2>3
<1>2. Init => CallsPaid
  BY CallsPaidInit
<1>3. CallsPaid /\ Calls /\ [Next]_vars => CallsPaid'
  BY CallsPaidStep
<1>4. QED
  BY <1>1, <1>2, <1>3, CallsInductive, PTL DEF Spec
=============================================================================
