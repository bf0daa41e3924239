------------------------ MODULE ClassFileCalls_proof ------------------------
(***************************************************************************)
(* The C stack of the loader, for any streams: which parser calls which,   *)
(* what each has left to do, and what follows from it for the pool, the    *)
(* names of the attributes and the crashes.  First, how names are compared *)
(* with the ones that parseAttributes knows.                               *)
(***************************************************************************)
EXTENDS ClassFileLoader, SequenceTheorems, FiniteSetTheorems, TLAPS

(* utf8ascii_equals decides the equality of a name with an ASCII literal,  *)
(* for any bytes and any length, as long as neither has a NUL in it.  The  *)
(* comparison of the lengths in characters never stands in the way of      *)
(* equal strings: what is equal to an ASCII string has as many characters  *)
(* as bytes.                                                               *)

(* The numbers from 1 to n are n. *)
LEMMA IntervalCardinality ==
  ASSUME NEW n \in Nat
  PROVE  Cardinality(1 .. n) = n
<1>1. Cardinality(1 .. n) = IF 1 > n THEN 0 ELSE n - 1 + 1
  BY FS_Interval
<1>2. QED
  BY <1>1

(* A string without a NUL is its C string. *)
LEMMA WholeLength ==
  ASSUME NEW S, NEW s \in Seq(S), WholeString(s)
  PROVE  strlen(s) = Len(s) /\ CString(s) = s
<1> DEFINE P(k) == /\ \A i \in 1 .. k : s[i] # NUL
                   /\ k = Len(s) \/ s[k + 1] = NUL
<1>1. Len(s) \in 0 .. Len(s) /\ P(Len(s))
  BY DEF WholeString
<1>2. \A k \in 0 .. Len(s) : P(k) => k = Len(s)
  BY DEF WholeString
<1>3. strlen(s) = Len(s)
  BY <1>1, <1>2 DEF strlen
<1>4. SubSeq(s, 1, Len(s)) = s
  OBVIOUS
<1>5. QED
  BY <1>3, <1>4 DEF CString

(* A name is found equal to a literal exactly if it is that literal. *)
THEOREM EqualsIsEquality ==
  ASSUME NEW S, NEW utf8 \in Seq(S), NEW ascii \in Seq(S),
         WholeString(utf8), WholeString(ascii),
         \A i \in 1 .. Len(ascii) : ascii[i] \notin Continuation
  PROVE  utf8ascii_equals(utf8, ascii) <=> utf8 = ascii
<1>1. /\ strlen(utf8) = Len(utf8) /\ CString(utf8) = utf8
      /\ strlen(ascii) = Len(ascii) /\ CString(ascii) = ascii
  BY WholeLength
<1>2. ASSUME utf8 = ascii
      PROVE  strlen(ascii) = uft8_length(utf8)
  <2>1. {i \in 1 .. strlen(utf8) : utf8[i] \notin Continuation} = 1 .. Len(ascii)
    BY <1>1, <1>2
  <2>2. Cardinality(1 .. Len(ascii)) = Len(ascii)
    BY IntervalCardinality
  <2>3. uft8_length(utf8) = Cardinality(1 .. Len(ascii))
    BY <2>1 DEF uft8_length
  <2>4. QED
    BY <1>1, <2>2, <2>3
<1>3. QED
  BY <1>1, <1>2 DEF utf8ascii_equals

-----------------------------------------------------------------------------
(* The functions that parse the pool's entries, and those that parse what  *)
(* comes after the pool.                                                   *)
PoolParsers == {EntryParser[tag] : tag \in DOMAIN EntryParser}
Members     == DOMAIN Script \ ({"LoadClassFile"} \cup PoolParsers)

(* The instructions of their scripts.  Loops nest two deep.                *)
Values == {"any", "bytes", "magic", "minor", "major", "zero", "two", "index",
           "length", "count"}
Reads ==
  [op : {"u", "test", "blob"}, w : Nat, what : Values, arg : {<<>>}]
  \cup [op : {"keep"}, w : Nat, what : {"minor", "length"}, arg : {<<>>}]
  \cup [op : {"skip"}, w : Nat, what : Values, arg : {<<>>}]
CallsTo(fns)    == [op : {"call", "callN"}, w : Nat, what : Values, arg : fns]
LoopsOver(code) == [op : {"many", "many1"}, w : Nat, what : Values, arg : Seq(code)]

Code0 == Reads \cup CallsTo(Members)
Code1 == Code0 \cup LoopsOver(Code0)
Code2 == Code1 \cup LoopsOver(Code1)
Code  == Code2 \cup {parseElementValue[1], parseTypeAnnotation[1]}

PoolCode == [op : {"u", "blob"}, w : Nat, what : Values, arg : {<<>>}]
            \cup [op : {"call"}, w : Nat, what : Values, arg : {"cp_parse_filedRefInfo"}]
LoopCode == {Entry(i) : i \in Nat} \cup {Store(i, tag) : i \in Nat, tag \in DOMAIN EntryParser}

(* The parsers of the pool's entries are functions of the script.          *)
LEMMA ParserNames ==
  /\ PoolParsers = {"cp_parse_classInfo", "cp_parse_filedRefInfo", "cp_parse_methodRefInfo",
       "cp_parse_interfaceMethodRefInfo", "cp_parse_stringInfo", "cp_parse_intergerInfo",
       "cp_parse_floatInfo", "cp_parse_longInfo", "cp_parse_doubleInfo",
       "cp_parse_nameAndTypeInfo", "cp_parse_utf8Info", "cp_parse_methodHandleInfo",
       "cp_parse_methodTypeInfo", "cp_parse_invokeDynamicInfo"}
  /\ "parseConstantPool" \notin DOMAIN Script
  /\ PoolParsers \subseteq DOMAIN Script
<1>1. DOMAIN EntryParser = {"Class", "FieldRef", "MethodRef",
        "InterfaceMethodRef", "String", "Integer", "Float", "Long", "Double",
        "NameAndType", "Utf8", "MethodHandle", "MethodType", "InvokeDynamic"}
  BY DEF EntryParser
<1>2. PoolParsers = {"cp_parse_classInfo", "cp_parse_filedRefInfo", "cp_parse_methodRefInfo",
       "cp_parse_interfaceMethodRefInfo", "cp_parse_stringInfo", "cp_parse_intergerInfo",
       "cp_parse_floatInfo", "cp_parse_longInfo", "cp_parse_doubleInfo",
       "cp_parse_nameAndTypeInfo", "cp_parse_utf8Info", "cp_parse_methodHandleInfo",
       "cp_parse_methodTypeInfo", "cp_parse_invokeDynamicInfo"}
  BY <1>1 DEF PoolParsers, EntryParser
<1>3. "parseConstantPool" \notin DOMAIN Script
  BY DEF Script
<1>4. PoolParsers \subseteq DOMAIN Script
  BY <1>2 DEF Script
<1>5. QED
  BY <1>2, <1>3, <1>4

(* What comes after the pool is parsed by members only.                    *)
LEMMA MemberNames ==
  /\ {"parseFields", "parseMethods", "parseAttributes", "parseElementValue",
      "parseAnnotation", "parseTypeAnnotation"} \subseteq Members
  /\ \A name \in DOMAIN AttributeParser : AttributeParser[name] \in Members
  /\ \A name \in DOMAIN AttributeParser : AttributeParser[name] # "parseAttributes"
<1>1. {"parseFields", "parseMethods", "parseAttributes", "parseElementValue",
      "parseAnnotation", "parseTypeAnnotation"} \subseteq Members
  BY ParserNames DEF Members, Script
<1>2. \A name \in DOMAIN AttributeParser : AttributeParser[name] \in Members
  BY ParserNames DEF Members, Script, AttributeParser
<1>3. \A name \in DOMAIN AttributeParser : AttributeParser[name] # "parseAttributes"
  BY DEF AttributeParser
<1>4. QED
  BY <1>1, <1>2, <1>3

(* Each level of the instructions is part of the next.                     *)
LEMMA CodeLevels ==
  /\ Reads \subseteq Code0 /\ Code0 \subseteq Code1 /\ Code1 \subseteq Code2 /\ Code2 \subseteq Code
  /\ Seq(Code0) \subseteq Seq(Code1) /\ Seq(Code1) \subseteq Seq(Code2)
  /\ Seq(Code2) \subseteq Seq(Code)
<1>1. Reads \subseteq Code0 /\ Code0 \subseteq Code1 /\ Code1 \subseteq Code2 /\ Code2 \subseteq Code
  BY DEF Code0, Code1, Code2, Code
<1>2. QED
  BY <1>1

(* The instructions and the level each is of. *)
LEMMA Levels ==
  /\ \A w \in Nat : U(w) \in Reads /\ Bytes(w) \in Reads
  /\ \A w \in Nat : \A what \in Values : Test(w, what) \in Reads /\ Blob(w, what) \in Reads
  /\ \A w \in Nat : \A what \in {"minor", "length"} : Keep(w, what) \in Reads
  /\ Skip \in Reads
  /\ \A fn \in Members : Call(fn) \in Code0
  /\ \A w \in Nat : \A fn \in Members : CallN(w, fn) \in Code0
  /\ \A w \in Nat : \A body \in Seq(Code0) : Many(w, body) \in Code1 /\ ManyFrom1(w, body) \in Code1
  /\ \A w \in Nat : \A body \in Seq(Code1) : Many(w, body) \in Code2 /\ ManyFrom1(w, body) \in Code2
<1>1. /\ \A w \in Nat : U(w) \in Reads /\ Bytes(w) \in Reads
      /\ \A w \in Nat : \A what \in Values : Test(w, what) \in Reads /\ Blob(w, what) \in Reads
      /\ \A w \in Nat : \A what \in {"minor", "length"} : Keep(w, what) \in Reads
      /\ Skip \in Reads
  BY DEF Reads, U, Bytes, Test, Blob, Keep, Skip, Instr, Values
<1>2. /\ \A fn \in Members : Call(fn) \in Code0
      /\ \A w \in Nat : \A fn \in Members : CallN(w, fn) \in Code0
  BY DEF Code0, CallsTo, Call, CallN, Instr, Values
<1>3. \A w \in Nat : \A code : \A body \in Seq(code) :
        Many(w, body) \in LoopsOver(code) /\ ManyFrom1(w, body) \in LoopsOver(code)
  BY DEF LoopsOver, Many, ManyFrom1, Instr, Values
<1>4. QED
  BY <1>1, <1>2, <1>3 DEF Code1, Code2

(* The two switches, and what follows from the values they switch on. *)
Switches == {parseElementValue[1], parseTypeAnnotation[1]}

(* A switch reads one byte and goes on with code, whatever it read.        *)
LEMMA SwitchCode ==
  ASSUME NEW ins \in Switches
  PROVE  /\ ins.op = "select" /\ ins.w = 1 /\ ins.what \in {"element", "target"}
         /\ \A tag \in DOMAIN ins.arg : ins.arg[tag] \in Seq(Code2)
<1>1. /\ U(1) \in Code0 /\ U(2) \in Code0 /\ Call("parseAnnotation") \in Code0
      /\ Call("parseElementValue") \in Code0
  BY Levels, CodeLevels, MemberNames
<1>2. \A a, b, c \in Code0 :
        /\ <<>> \in Seq(Code0) /\ <<a>> \in Seq(Code0)
        /\ <<a, b>> \in Seq(Code0) /\ <<a, b, c>> \in Seq(Code0)
  OBVIOUS
<1>3. Many(2, <<Call("parseElementValue")>>) \in Code1 /\ Many(2, <<U(2), U(2), U(2)>>) \in Code1
  BY <1>1, <1>2, Levels
<1>4. <<Many(2, <<Call("parseElementValue")>>)>> \in Seq(Code2)
      /\ <<Many(2, <<U(2), U(2), U(2)>>)>> \in Seq(Code2)
  BY <1>3, CodeLevels
<1>5. \A s \in Seq(Code0) : s \in Seq(Code2)
  BY CodeLevels
<1>6. /\ <<>> \in Seq(Code2) /\ <<U(1)>> \in Seq(Code2) /\ <<U(2)>> \in Seq(Code2)
      /\ <<U(2), U(2)>> \in Seq(Code2) /\ <<U(1), U(1)>> \in Seq(Code2)
      /\ <<U(2), U(1)>> \in Seq(Code2) /\ <<Call("parseAnnotation")>> \in Seq(Code2)
  BY <1>1, <1>2, <1>5
<1> DEFINE none == <<>>  one == <<U(1)>>  two == <<U(2)>>  oneone == <<U(1), U(1)>>
           twotwo == <<U(2), U(2)>>  twoone == <<U(2), U(1)>>
           nested == <<Call("parseAnnotation")>>
           array == <<Many(2, <<Call("parseElementValue")>>)>>
           places == <<Many(2, <<U(2), U(2), U(2)>>)>>
<1>7. \A s \in {none, one, two, oneone, twotwo, twoone, nested, array, places} : s \in Seq(Code2)
  BY <1>4, <1>6
<1>8. CASE ins = parseElementValue[1]
  <2>1. ins.op = "select" /\ ins.w = 1 /\ ins.what = "element"
        /\ ins.arg = [const |-> two, enum |-> twotwo, class |-> two,
                      annotation |-> nested, array |-> array]
    BY <1>8 DEF parseElementValue, Select, Instr
  <2> HIDE DEF none, one, two, oneone, twotwo, twoone, nested, array, places
  <2>2. QED
    BY <2>1, <1>7
<1>9. CASE ins = parseTypeAnnotation[1]
  <2>1. ins.op = "select" /\ ins.w = 1 /\ ins.what = "target"
        /\ ins.arg = [parameter |-> one, super |-> two, bound |-> oneone, empty |-> none,
                      formal |-> one, throws |-> two, localvar |-> places, catch |-> two,
                      offset |-> two, argument |-> twoone, other |-> none]
    BY <1>9 DEF parseTypeAnnotation, Select, Instr
  <2> HIDE DEF none, one, two, oneone, twotwo, twoone, nested, array, places
  <2>2. QED
    BY <2>1, <1>7
<1>10. QED
  BY <1>8, <1>9 DEF Switches

(* Up to six elements of a set make a sequence over it.                    *)
LEMMA ShortSequences ==
  ASSUME NEW S
  PROVE  /\ <<>> \in Seq(S)
         /\ \A a \in S : <<a>> \in Seq(S)
         /\ \A a, b \in S : <<a, b>> \in Seq(S)
         /\ \A a, b, c \in S : <<a, b, c>> \in Seq(S)
         /\ \A a, b, c, d \in S : <<a, b, c, d>> \in Seq(S)
         /\ \A a, b, c, d, e \in S : <<a, b, c, d, e>> \in Seq(S)
         /\ \A a, b, c, d, e, f \in S : <<a, b, c, d, e, f>> \in Seq(S)
  OBVIOUS

(* The parsers of the members and of the attributes. *)
LEMMA MemberScripts ==
  \A fn \in Members \ {"parseAttributes"} : Script[fn] \in Seq(Code)
<1>1. \A i \in Reads \cup Code0 \cup Code1 \cup Code2 : i \in Code
  BY CodeLevels
<1>2. /\ U(1) \in Code /\ U(2) \in Code /\ U(4) \in Code /\ Bytes(2) \in Code /\ Skip \in Code
      /\ Blob(4, "count") \in Code /\ Keep(4, "length") \in Code
      /\ Test(4, "two") \in Code /\ Test(4, "zero") \in Code /\ Test(2, "index") \in Code
  BY <1>1, Levels DEF Values
<1>3. /\ CallN(2, "parseAttributes") \in Code /\ Call("parseElementValue") \in Code
  BY <1>1, Levels, MemberNames
<1>4. /\ U(2) \in Code0 /\ Call("parseElementValue") \in Code0 /\ Call("parseAnnotation") \in Code0
      /\ Call("parseTypeAnnotation") \in Code0 /\ U(1) \in Code0
  BY Levels, CodeLevels, MemberNames
<1>5. /\ <<U(2)>> \in Seq(Code0) /\ <<U(2), U(2)>> \in Seq(Code0) /\ <<U(1), U(1)>> \in Seq(Code0)
      /\ <<U(2), U(2), U(2), U(2)>> \in Seq(Code0)
      /\ <<U(2), U(2), U(2), U(2), U(2)>> \in Seq(Code0)
      /\ <<U(2), Call("parseElementValue")>> \in Seq(Code0)
      /\ <<Call("parseAnnotation")>> \in Seq(Code0)
      /\ <<Call("parseTypeAnnotation")>> \in Seq(Code0)
  BY <1>4, ShortSequences
<1>6. \A w \in Nat : \A body \in Seq(Code0) :
        Many(w, body) \in Code1 /\ ManyFrom1(w, body) \in Code1
  BY Levels
<1>7. /\ Many(2, <<U(2)>>) \in Code1 /\ Many(2, <<U(2), U(2), U(2), U(2)>>) \in Code1
      /\ Many(1, <<U(1), U(1)>>) \in Code1 /\ Many(1, <<U(2), U(2)>>) \in Code1
      /\ ManyFrom1(2, <<U(2), U(2)>>) \in Code1
      /\ ManyFrom1(2, <<U(2), U(2), U(2), U(2), U(2)>>) \in Code1
      /\ Pairs \in Code1 /\ Annotations \in Code1 /\ TypeAnnotations \in Code1
  BY <1>5, <1>6 DEF Pairs, Annotations, TypeAnnotations
<1>8. /\ <<Annotations>> \in Seq(Code1) /\ <<U(2), Many(2, <<U(2)>>)>> \in Seq(Code1)
  BY <1>4, <1>7, CodeLevels, ShortSequences
<1>9. Many(1, <<Annotations>>) \in Code2 /\ Many(2, <<U(2), Many(2, <<U(2)>>)>>) \in Code2
  BY <1>8, Levels
<1>10. parseElementValue[1] \in Code /\ parseTypeAnnotation[1] \in Code
  BY DEF Code
<1> DEFINE In(s) == s \in Seq(Code)
<1>11. /\ In(parseFields) /\ In(parseMethods)
  BY <1>2, <1>3, ShortSequences DEF parseFields, parseMethods
<1>12. In(parseElementValue)
  BY <1>10, ShortSequences DEF parseElementValue
<1>13. In(parseAnnotation)
  BY <1>1, <1>2, <1>7, ShortSequences DEF parseAnnotation
<1>14. In(parseTypeAnnotation)
  <2>1. parseTypeAnnotation
          = <<parseTypeAnnotation[1], Many(1, <<U(1), U(1)>>), U(2), Pairs>>
    BY DEF parseTypeAnnotation
  <2>2. Many(1, <<U(1), U(1)>>) \in Code /\ Pairs \in Code
    BY <1>1, <1>7
  <2>3. <<parseTypeAnnotation[1], Many(1, <<U(1), U(1)>>), U(2), Pairs>> \in Seq(Code)
    BY <2>2, <1>2, <1>10, ShortSequences
  <2>4. QED
    BY <2>1, <2>3
<1>15. In(attr_parse_constantValue) /\ In(attr_parse_stackMapTable)
       /\ In(attr_parse_enclosingMethod)
  BY <1>2, ShortSequences
  DEF attr_parse_constantValue, attr_parse_stackMapTable, attr_parse_enclosingMethod
<1>16. In(attr_parse_synthetic) /\ In(attr_parse_signature) /\ In(attr_parse_sourceFile)
       /\ In(attr_parse_sourceDebugExtention) /\ In(attr_parse_deprecated)
  BY <1>2, ShortSequences
  DEF attr_parse_synthetic, attr_parse_signature, attr_parse_sourceFile,
      attr_parse_sourceDebugExtention, attr_parse_deprecated
<1>17. In(attr_parse_code)
  BY <1>1, <1>2, <1>3, <1>7, ShortSequences DEF attr_parse_code
<1>18. In(attr_parse_exceptions) /\ In(attr_parse_innerClasses) /\ In(attr_parse_lineNumberTable)
       /\ In(attr_parse_localVariableTable) /\ In(attr_parse_localVariableTypeTable)
       /\ In(attr_parse_methodParameters)
  BY <1>1, <1>2, <1>7, ShortSequences
  DEF attr_parse_exceptions, attr_parse_innerClasses, attr_parse_lineNumberTable,
      attr_parse_localVariableTable, attr_parse_localVariableTypeTable, attr_parse_methodParameters
<1>19. In(attr_parse_runtimeVisibleAnnotations) /\ In(attr_parse_runtimeInvisibleAnnotations)
       /\ In(attr_parse_runtimeVisibleTypeAnnotations)
       /\ In(attr_parse_runtimeInvisibleTypeAnnotations)
  BY <1>1, <1>2, <1>7, ShortSequences
  DEF attr_parse_runtimeVisibleAnnotations, attr_parse_runtimeInvisibleAnnotations,
      attr_parse_runtimeVisibleTypeAnnotations, attr_parse_runtimeInvisibleTypeAnnotations
<1>20. In(attr_parse_runtimeVisibleParameterAnnotations)
       /\ In(attr_parse_runtimeInvisibleParameterAnnotations)
       /\ In(attr_parse_bootstrapMethods) /\ In(attr_parse_annotationDefault)
  BY <1>1, <1>2, <1>3, <1>9, ShortSequences
  DEF attr_parse_runtimeVisibleParameterAnnotations,
      attr_parse_runtimeInvisibleParameterAnnotations,
      attr_parse_bootstrapMethods, attr_parse_annotationDefault
<1> HIDE DEF In
<1>21. \A fn \in Members \ {"parseAttributes"} : In(Script[fn])
  BY <1>11, <1>12, <1>13, <1>14, <1>15, <1>16, <1>17, <1>18, <1>19, <1>20, ParserNames
  DEF Members, Script
<1>22. QED
  BY <1>21 DEF In

(* The parsers of the pool's entries.                                      *)
LEMMA PoolScripts == \A fn \in PoolParsers : Script[fn] \in Seq(PoolCode)
<1>1. \A w \in Nat : U(w) \in PoolCode
  BY DEF PoolCode, U, Instr, Values
<1>2. Blob(2, "count") \in PoolCode
  BY DEF PoolCode, Blob, Instr, Values
<1>3. Call("cp_parse_filedRefInfo") \in PoolCode
  BY DEF PoolCode, Call, Instr, Values
<1> DEFINE In(s) == s \in Seq(PoolCode)
<1>4. /\ In(<<U(2)>>) /\ In(<<U(4)>>) /\ In(<<U(8)>>) /\ In(<<U(2), U(2)>>) /\ In(<<U(1), U(2)>>)
      /\ In(<<Blob(2, "count")>>) /\ In(<<Call("cp_parse_filedRefInfo")>>)
  BY <1>1, <1>2, <1>3, ShortSequences
<1> HIDE DEF In
<1>5. \A fn \in PoolParsers : In(Script[fn])
  BY <1>4, ParserNames
  DEF Script, cp_parse_classInfo, cp_parse_filedRefInfo, cp_parse_methodRefInfo,
      cp_parse_interfaceMethodRefInfo, cp_parse_stringInfo, cp_parse_intergerInfo,
      cp_parse_floatInfo, cp_parse_longInfo, cp_parse_doubleInfo, cp_parse_nameAndTypeInfo,
      cp_parse_utf8Info, cp_parse_methodHandleInfo, cp_parse_methodTypeInfo,
      cp_parse_invokeDynamicInfo
<1>6. QED
  BY <1>5 DEF In

(* LoadClassFile: three values and the pool, and then only code. *)
Rest(p) == SubSeq(LoadClassFile, p, 11)

(* The script of LoadClassFile, instruction by instruction.                *)
LEMMA LoaderScript ==
  /\ Script["LoadClassFile"] = LoadClassFile
  /\ LoadClassFile \in Seq({LoadClassFile[i] : i \in 1 .. 11})
  /\ Len(LoadClassFile) = 11
  /\ LoadClassFile[1] = Test(4, "magic")
  /\ LoadClassFile[2] = Keep(2, "minor")
  /\ LoadClassFile[3] = Test(2, "major")
  /\ LoadClassFile[4] = Pool
  /\ \A i \in 5 .. 11 : LoadClassFile[i] \in Code
<1>1. /\ Len(LoadClassFile) = 11
      /\ LoadClassFile[1] = Test(4, "magic")
      /\ LoadClassFile[2] = Keep(2, "minor")
      /\ LoadClassFile[3] = Test(2, "major")
      /\ LoadClassFile[4] = Pool
  BY DEF LoadClassFile
<1>2. Script["LoadClassFile"] = LoadClassFile
  BY DEF Script
<1>3. LoadClassFile \in Seq({LoadClassFile[i] : i \in 1 .. 11})
  BY DEF LoadClassFile
<1>4. /\ U(2) \in Code /\ Many(2, <<U(2)>>) \in Code
      /\ CallN(2, "parseFields") \in Code /\ CallN(2, "parseMethods") \in Code
      /\ CallN(2, "parseAttributes") \in Code
  <2>1. U(2) \in Code0
    BY Levels, CodeLevels
  <2>2. <<U(2)>> \in Seq(Code0)
    BY <2>1, ShortSequences
  <2>3. QED
    BY <2>1, <2>2, Levels, CodeLevels, MemberNames
<1>5. \A i \in 5 .. 11 : LoadClassFile[i] \in Code
  <2>1. /\ LoadClassFile[5] = U(2) /\ LoadClassFile[6] = U(2) /\ LoadClassFile[7] = U(2)
        /\ LoadClassFile[8] = Many(2, <<U(2)>>) /\ LoadClassFile[9] = CallN(2, "parseFields")
        /\ LoadClassFile[10] = CallN(2, "parseMethods")
        /\ LoadClassFile[11] = CallN(2, "parseAttributes")
    BY DEF LoadClassFile
  <2>2. QED
    BY <2>1, <1>4
<1>6. QED
  BY <1>1, <1>2, <1>3, <1>5

(* What is left of it after each of the first four instructions.           *)
LEMMA RestOfLoader ==
  /\ \A p \in 1 .. 4 : /\ Rest(p) # <<>>
                       /\ Head(Rest(p)) = LoadClassFile[p]
                       /\ <<>> \o Tail(Rest(p)) = Rest(p + 1)
  /\ Rest(5) \in Seq(Code)
<1> DEFINE body == LoadClassFile
<1> DEFINE S == {body[i] : i \in 1 .. 11}
<1>1. body \in Seq(S)
  BY LoaderScript
<1>2. Len(body) = 11 /\ \A i \in 5 .. 11 : body[i] \in Code
  BY LoaderScript
<1> HIDE DEF body
<1>3. ASSUME NEW p \in 1 .. 4
      PROVE  /\ SubSeq(body, p, 11) # <<>>
             /\ Head(SubSeq(body, p, 11)) = body[p]
             /\ <<>> \o Tail(SubSeq(body, p, 11)) = SubSeq(body, p + 1, 11)
  <2>1. p \in 1 .. Len(body) /\ 11 \in p .. Len(body)
    BY <1>2
  <2>2. /\ Head(SubSeq(body, p, 11)) = body[p]
        /\ Tail(SubSeq(body, p, 11)) = SubSeq(body, p + 1, 11)
    BY <2>1, <1>1, HeadTailOfSubSeq
  <2>3. Len(SubSeq(body, p, 11)) = 12 - p /\ SubSeq(body, p + 1, 11) \in Seq(S)
    <3>1. (\A i \in p .. 11 : body[i] \in S) /\ (\A i \in p + 1 .. 11 : body[i] \in S)
      <4>1. \A i \in 1 .. 11 : body[i] \in S
        OBVIOUS
      <4>2. \A i \in Int : i \in p .. 11 \/ i \in p + 1 .. 11 => i \in 1 .. 11
        OBVIOUS
      <4>3. QED
        BY <4>1, <4>2
    <3>2. p <= 11 /\ 11 - p + 1 = 12 - p /\ p + 1 \in Int
      OBVIOUS
    <3>3. Len(SubSeq(body, p, 11)) = IF p <= 11 THEN 11 - p + 1 ELSE 0
      BY <3>1, SubSeqProperties
    <3>4. SubSeq(body, p + 1, 11) \in Seq(S)
      BY <3>1, <3>2, SubSeqProperties
    <3>5. QED
      BY <3>2, <3>3, <3>4
  <2>4. SubSeq(body, p, 11) # <<>>
    <3>1. \A r : Len(r) # 0 => r # <<>>
      OBVIOUS
    <3>2. 12 - p # 0
      OBVIOUS
    <3>3. QED
      BY <2>3, <3>1, <3>2
  <2>5. \A r \in Seq(S) : <<>> \o r = r
    OBVIOUS
  <2>6. QED
    BY <2>2, <2>3, <2>4, <2>5
<1>4. SubSeq(body, 5, 11) \in Seq(Code)
  BY <1>2, SubSeqProperties
<1>5. QED
  BY <1>3, <1>4 DEF Rest, body

(* A script run several times over has the same instructions, and one run  *)
(* once is itself.                                                         *)
LEMMA CopiesOfCode ==
  ASSUME NEW S, NEW code \in Seq(S)
  PROVE  /\ \A n \in Nat : Copies(code, n) \in Seq(S)
         /\ Copies(code, 1) = code
<1>1. ASSUME NEW n \in Nat
      PROVE  Copies(code, n) \in Seq(S)
  <2>1. n * Len(code) \in Nat
    OBVIOUS
  <2>2. \A i \in 1 .. n * Len(code) : ((i - 1) % Len(code)) + 1 \in 1 .. Len(code)
    <3>1. CASE Len(code) = 0
      <4>1. n * Len(code) = 0
        BY <3>1
      <4>2. \A m \in Nat : m > 2 => m # 2
        OBVIOUS
      <4>3. QED
        BY <4>1, <4>2
    <3>2. CASE Len(code) # 0
      BY <3>2
    <3>3. QED
      BY <3>1, <3>2
  <2>3. \A i \in 1 .. n * Len(code) : code[((i - 1) % Len(code)) + 1] \in S
    BY <2>2
  <2> DEFINE m == n * Len(code)
  <2> HIDE DEF m
  <2>4. [i \in 1 .. m |-> code[((i - 1) % Len(code)) + 1]] \in Seq(S)
    BY <2>1, <2>3 DEF m
  <2>5. QED
    BY <2>4 DEF Copies, m
<1>2. Copies(code, 1) = code
  <2>1. Copies(code, 1) = [i \in 1 .. Len(code) |-> code[((i - 1) % Len(code)) + 1]]
    BY DEF Copies
  <2>2. \A i \in 1 .. Len(code) : (i - 1) % Len(code) = i - 1
    OBVIOUS
  <2>3. [i \in 1 .. Len(code) |-> code[((i - 1) % Len(code)) + 1]]
          = [i \in 1 .. Len(code) |-> code[i]]
    BY <2>2
  <2>4. QED
    BY <2>1, <2>3
<1>3. QED
  BY <1>1, <1>2

-----------------------------------------------------------------------------
(* The calls on the stack, by what they have left to do.                   *)
ACall(fn, todo, keep) == [fn |-> fn, todo |-> todo, keep |-> keep]
CallsOf(fns, code) == [fn : fns, todo : Seq(code), keep : Nat]
LoaderCalls == CallsOf({"LoadClassFile"}, Code)
LoopCalls   == CallsOf({"parseConstantPool"}, LoopCode)
PoolCalls   == CallsOf(PoolParsers, PoolCode)
MemberCalls == CallsOf(Members \ {"parseAttributes"}, Code)
               \cup CallsOf({"parseAttributes"}, {Attribute})

(* While the pool is parsed, and afterwards. *)
PoolStack(s) ==
  /\ s \in Seq(LoaderCalls \cup LoopCalls \cup PoolCalls)
  /\ Len(s) >= 2 /\ s[1] \in LoaderCalls /\ s[2] \in LoopCalls
  /\ \A k \in 3 .. Len(s) : s[k] \in PoolCalls

MemberStack(s) ==
  /\ s \in Seq(LoaderCalls \cup MemberCalls)
  /\ Len(s) >= 1 /\ s[1] \in LoaderCalls
  /\ \A k \in 2 .. Len(s) : s[k] \in MemberCalls

(* A stack with its last call in a new state. *)
WithTop(s, top) == [s EXCEPT ![Len(s)] = top]

Below(s) == SubSeq(s, 1, Len(s) - 1)

(* What Goto does to it. *)
LEMMA GotoTop ==
  ASSUME Len(stack) \in DOMAIN stack,
         NEW fns, NEW code, This \in CallsOf(fns, code), This.todo # <<>>,
         NEW more \in Seq(code)
  PROVE  \E top \in CallsOf(fns, code) :
           /\ top.fn = This.fn /\ top.keep = This.keep
           /\ top.todo = more \o Tail(This.todo)
           /\ Goto(more) = WithTop(stack, top)
<1> DEFINE n == Len(stack)
           f == This
           rest == more \o Tail(f.todo)
           top == [f EXCEPT !.todo = rest]
<1>1. n \in DOMAIN stack /\ f = stack[n]
  BY DEF This
<1>2. f \in CallsOf(fns, code) /\ f.todo \in Seq(code) /\ f.keep \in Nat /\ f.fn \in fns
  BY DEF CallsOf
<1>3. Tail(f.todo) \in Seq(code)
  <2>1. \A s \in Seq(code) : s # <<>> => Tail(s) \in Seq(code)
    OBVIOUS
  <2>2. QED
    BY <2>1, <1>2
<1>4. rest \in Seq(code)
  <2>1. \A s, t \in Seq(code) : s \o t \in Seq(code)
    OBVIOUS
  <2>2. QED
    BY <2>1, <1>3
<1>5. Goto(more) = [stack EXCEPT ![n] = top]
  BY <1>1 DEF Goto
<1> HIDE DEF rest, f
<1>6. /\ top \in CallsOf(fns, code)
      /\ top.fn = f.fn /\ top.keep = f.keep /\ top.todo = rest
  BY <1>2, <1>4 DEF CallsOf
<1> HIDE DEF top
<1>7. QED
  BY <1>5, <1>6 DEF WithTop, f, rest

(* What the steps do to a sequence: the last element changed, one more,    *)
(* one less.                                                               *)
LEMMA LastChanged ==
  ASSUME NEW T, NEW s \in Seq(T), Len(s) >= 1, NEW e \in T
  PROVE  LET r == [s EXCEPT ![Len(s)] = e] IN
         /\ r \in Seq(T) /\ Len(r) = Len(s) /\ r[Len(s)] = e
         /\ \A k \in 1 .. Len(s) - 1 : r[k] = s[k]
  OBVIOUS

(* The element before the last changed.                                    *)
LEMMA ElementChanged ==
  ASSUME NEW T, NEW n \in Nat, n >= 1, NEW s \in Seq(T), Len(s) = n + 1, NEW e \in T
  PROVE  LET r == [s EXCEPT ![n] = e] IN
         /\ r \in Seq(T) /\ Len(r) = n + 1 /\ r[n + 1] = s[n + 1] /\ r[n] = e
         /\ \A k \in 1 .. n - 1 : r[k] = s[k]
  OBVIOUS

(* One more.                                                               *)
LEMMA OneMore ==
  ASSUME NEW T, NEW s \in Seq(T), NEW e \in T
  PROVE  LET r == Append(s, e) IN
         /\ r \in Seq(T) /\ Len(r) = Len(s) + 1 /\ r[Len(s) + 1] = e
         /\ \A k \in 1 .. Len(s) : r[k] = s[k]
  OBVIOUS

(* One less.                                                               *)
LEMMA OneLess ==
  ASSUME NEW T, NEW s \in Seq(T), Len(s) >= 1
  PROVE  LET r == SubSeq(s, 1, Len(s) - 1) IN
         /\ r \in Seq(T) /\ Len(r) = Len(s) - 1
         /\ \A k \in 1 .. Len(s) - 1 : r[k] = s[k]
<1>1. \A k \in 1 .. Len(s) - 1 : s[k] \in T
  OBVIOUS
<1> DEFINE m == Len(s) - 1
<1>2. m \in Nat /\ 1 \in Int /\ m - 1 + 1 = m
  OBVIOUS
<1> HIDE DEF m
<1>3. /\ SubSeq(s, 1, m) \in Seq(T)
      /\ Len(SubSeq(s, 1, m)) = IF 1 <= m THEN m - 1 + 1 ELSE 0
      /\ \A i \in 1 .. m - 1 + 1 : SubSeq(s, 1, m)[i] = s[1 + i - 1]
  <2>1. \A i \in 1 .. m : s[i] \in T
    BY <1>1 DEF m
  <2>2. QED
    BY <2>1, <1>2, SubSeqProperties
<1>4. Len(SubSeq(s, 1, m)) = m /\ \A i \in 1 .. m : SubSeq(s, 1, m)[i] = s[i]
  BY <1>2, <1>3
<1>5. QED
  BY <1>3, <1>4 DEF m

(* A sequence whose elements are all in a smaller set.                     *)
LEMMA Narrowed ==
  ASSUME NEW T, NEW S, NEW s \in Seq(T), \A k \in 1 .. Len(s) : s[k] \in S
  PROVE  s \in Seq(S)
  OBVIOUS

(* The stack of the members keeps its shape. *)
LEMMA MemberStackKept ==
  ASSUME NEW s, MemberStack(s)
  PROVE  /\ Len(s) = 1 => s[Len(s)] \in LoaderCalls
         /\ Len(s) > 1 => s[Len(s)] \in MemberCalls
         /\ \A top \in LoaderCalls \cup MemberCalls :
              (top \in LoaderCalls <=> s[Len(s)] \in LoaderCalls) => MemberStack(WithTop(s, top))
         /\ \A call \in MemberCalls : MemberStack(Append(s, call))
         /\ Len(s) > 1 => MemberStack(Below(s))
<1> DEFINE T == LoaderCalls \cup MemberCalls
           n == Len(s)
<1>1. s \in Seq(T) /\ n \in Nat /\ n >= 1
  BY DEF MemberStack
<1>2. LoaderCalls \cap MemberCalls = {}
  <2>1. \A f \in LoaderCalls : f.fn = "LoadClassFile"
    BY DEF LoaderCalls, CallsOf
  <2>2. \A f \in MemberCalls : f.fn # "LoadClassFile"
    BY MemberNames DEF MemberCalls, CallsOf, Members
  <2>3. QED
    BY <2>1, <2>2
<1>3. (n = 1 => s[Len(s)] \in LoaderCalls) /\ (n > 1 => s[Len(s)] \in MemberCalls)
  BY <1>1 DEF MemberStack
<1>4. ASSUME NEW top \in T, top \in LoaderCalls <=> s[Len(s)] \in LoaderCalls
      PROVE  MemberStack(WithTop(s, top))
  <2>1. PICK r : r = [s EXCEPT ![n] = top]
    OBVIOUS
  <2>2. /\ r \in Seq(T) /\ Len(r) = n /\ r[n] = top
        /\ \A k \in 1 .. n - 1 : r[k] = s[k]
    BY <2>1, <1>1, LastChanged
  <2>3. CASE n = 1
    <3>1. r[1] \in LoaderCalls /\ Len(r) = 1
      BY <2>2, <2>3, <1>3, <1>4
    <3>2. MemberStack(r)
      BY <2>2, <3>1 DEF MemberStack
    <3>3. QED
      BY <2>1, <3>2 DEF WithTop
  <2>4. CASE n > 1
    <3>1. top \in MemberCalls
      BY <2>4, <1>2, <1>3, <1>4
    <3>2. r[1] \in LoaderCalls
      BY <2>2, <2>4 DEF MemberStack
    <3>3. \A k \in 2 .. n : r[k] \in MemberCalls
      BY <2>2, <3>1, <1>1 DEF MemberStack
    <3>4. QED
      BY <2>1, <2>2, <3>2, <3>3, <1>1 DEF WithTop, MemberStack
  <2> HIDE DEF n, T
  <2>5. n = 1 \/ n > 1
    BY <1>1
  <2>6. QED
    BY <2>3, <2>4, <2>5
<1>5. ASSUME NEW call \in MemberCalls
      PROVE  MemberStack(Append(s, call))
  <2>1. PICK r : r = Append(s, call)
    OBVIOUS
  <2>2. /\ r \in Seq(T) /\ Len(r) = n + 1 /\ r[n + 1] = call
        /\ \A k \in 1 .. n : r[k] = s[k]
    BY <2>1, <1>1, OneMore
  <2>3. r[1] \in LoaderCalls
    BY <2>2, <1>1 DEF MemberStack
  <2>4. \A k \in 2 .. n + 1 : r[k] \in MemberCalls
    BY <2>2, <1>1, <1>5 DEF MemberStack
  <2>5. QED
    BY <2>1, <2>2, <2>3, <2>4, <1>1 DEF MemberStack
<1>6. ASSUME n > 1
      PROVE  MemberStack(Below(s))
  <2>1. PICK r : r = SubSeq(s, 1, n - 1)
    OBVIOUS
  <2>2. /\ r \in Seq(T) /\ Len(r) = n - 1
        /\ \A k \in 1 .. n - 1 : r[k] = s[k]
    BY <2>1, <1>1, OneLess
  <2>3. QED
    BY <2>1, <2>2, <1>1, <1>6 DEF Below, MemberStack
<1>7. QED
  BY <1>3, <1>4, <1>5, <1>6

(* So does the stack of the pool's parsers. *)
LEMMA PoolStackKept ==
  ASSUME NEW s, PoolStack(s)
  PROVE  /\ Len(s) = 2 => s[Len(s)] \in LoopCalls
         /\ Len(s) > 2 => s[Len(s)] \in PoolCalls
         /\ \A top \in LoopCalls : Len(s) = 2 =>
              PoolStack(WithTop(s, top)) /\ WithTop(s, top)[2] = top /\ Len(WithTop(s, top)) = 2
         /\ \A top \in PoolCalls : Len(s) > 2 =>
              /\ PoolStack(WithTop(s, top)) /\ WithTop(s, top)[2] = s[2]
              /\ Len(WithTop(s, top)) = Len(s)
         /\ \A call \in PoolCalls :
              /\ PoolStack(Append(s, call)) /\ Append(s, call)[2] = s[2]
              /\ Len(Append(s, call)) = Len(s) + 1
         /\ Len(s) > 2 => PoolStack(Below(s)) /\ Below(s)[2] = s[2]
         /\ Len(s) = 2 => MemberStack(Below(s))
         /\ Len(Below(s)) = Len(s) - 1
<1> DEFINE T == LoaderCalls \cup LoopCalls \cup PoolCalls
           n == Len(s)
<1>1. s \in Seq(T) /\ n \in Nat /\ n >= 2
  BY DEF PoolStack
<1>2. (n = 2 => s[Len(s)] \in LoopCalls) /\ (n > 2 => s[Len(s)] \in PoolCalls)
  BY <1>1 DEF PoolStack
<1>3. ASSUME NEW top \in T, (n = 2 /\ top \in LoopCalls) \/ (n > 2 /\ top \in PoolCalls)
      PROVE  /\ PoolStack(WithTop(s, top)) /\ Len(WithTop(s, top)) = n
             /\ n = 2 => WithTop(s, top)[2] = top
             /\ n > 2 => WithTop(s, top)[2] = s[2]
  <2>1. PICK r : r = [s EXCEPT ![n] = top]
    OBVIOUS
  <2>2. /\ r \in Seq(T) /\ Len(r) = n /\ r[n] = top
        /\ \A k \in 1 .. n - 1 : r[k] = s[k]
    BY <2>1, <1>1, LastChanged
  <2>3. r[1] \in LoaderCalls
    BY <2>2, <1>1 DEF PoolStack
  <2>4. r[2] \in LoopCalls
    BY <2>2, <1>1, <1>3 DEF PoolStack
  <2>5. \A k \in 3 .. n : r[k] \in PoolCalls
    BY <2>2, <1>1, <1>3 DEF PoolStack
  <2>6. PoolStack(r)
    BY <2>2, <2>3, <2>4, <2>5, <1>1 DEF PoolStack
  <2>7. (n = 2 => r[2] = top) /\ (n > 2 => r[2] = s[2])
    BY <2>2, <1>1
  <2>8. r = WithTop(s, top)
    BY <2>1 DEF WithTop
  <2>9. QED
    BY <2>2, <2>6, <2>7, <2>8
<1>4. ASSUME NEW call \in PoolCalls
      PROVE  /\ PoolStack(Append(s, call)) /\ Append(s, call)[2] = s[2]
             /\ Len(Append(s, call)) = n + 1
  <2>1. PICK r : r = Append(s, call)
    OBVIOUS
  <2>2. /\ r \in Seq(T) /\ Len(r) = n + 1 /\ r[n + 1] = call
        /\ \A k \in 1 .. n : r[k] = s[k]
    BY <2>1, <1>1, OneMore
  <2>3. r[1] \in LoaderCalls /\ r[2] = s[2] /\ r[2] \in LoopCalls
    BY <2>2, <1>1 DEF PoolStack
  <2>4. \A k \in 3 .. n + 1 : r[k] \in PoolCalls
    BY <2>2, <1>1, <1>4 DEF PoolStack
  <2>5. QED
    BY <2>1, <2>2, <2>3, <2>4, <1>1 DEF PoolStack
<1>5. /\ n > 2 => PoolStack(Below(s)) /\ Below(s)[2] = s[2]
      /\ n = 2 => MemberStack(Below(s))
      /\ Len(Below(s)) = n - 1
  <2>1. PICK r : r = SubSeq(s, 1, n - 1)
    OBVIOUS
  <2>2. /\ r \in Seq(T) /\ Len(r) = n - 1
        /\ \A k \in 1 .. n - 1 : r[k] = s[k]
    BY <2>1, <1>1, OneLess
  <2>3. n > 2 => PoolStack(r) /\ r[2] = s[2]
    BY <2>2, <1>1 DEF PoolStack
  <2>4. n = 2 => MemberStack(r)
    <3>1. SUFFICES ASSUME n = 2 PROVE MemberStack(r)
      OBVIOUS
    <3>2. r[1] \in LoaderCalls /\ Len(r) = 1
      BY <3>1, <2>2 DEF PoolStack
    <3>3. r \in Seq(LoaderCalls)
      <4>1. \A k \in 1 .. Len(r) : r[k] \in LoaderCalls
        BY <3>2
      <4>2. QED
        BY <4>1, <2>2, Narrowed
    <3>4. QED
      BY <3>2, <3>3 DEF MemberStack
  <2>5. QED
    BY <2>1, <2>2, <2>3, <2>4 DEF Below
<1>6. QED
  BY <1>2, <1>3, <1>4, <1>5

(* Goto in the parsers of the pool.                                        *)
LEMMA PoolGoto ==
  ASSUME PoolStack(stack), This.todo # <<>>
  PROVE  /\ Len(stack) = 2 => \A more \in Seq(LoopCode) : \E top \in LoopCalls :
              top.todo = more \o Tail(This.todo) /\ Goto(more) = WithTop(stack, top)
         /\ Len(stack) > 2 => \A more \in Seq(PoolCode) : \E top \in PoolCalls :
              top.todo = more \o Tail(This.todo) /\ Goto(more) = WithTop(stack, top)
<1>1. Len(stack) \in DOMAIN stack
  BY DEF PoolStack
<1>2. (Len(stack) = 2 => This \in LoopCalls) /\ (Len(stack) > 2 => This \in PoolCalls)
  BY DEF PoolStack, This
<1>3. ASSUME Len(stack) = 2, NEW more \in Seq(LoopCode)
      PROVE  \E top \in LoopCalls :
               top.todo = more \o Tail(This.todo) /\ Goto(more) = WithTop(stack, top)
  BY <1>1, <1>2, <1>3, GotoTop DEF LoopCalls
<1>4. ASSUME Len(stack) > 2, NEW more \in Seq(PoolCode)
      PROVE  \E top \in PoolCalls :
               top.todo = more \o Tail(This.todo) /\ Goto(more) = WithTop(stack, top)
  BY <1>1, <1>2, <1>4, GotoTop DEF PoolCalls
<1>5. QED
  BY <1>3, <1>4

(* Goto in LoadClassFile and in the parsers of the members.                *)
LEMMA MemberGoto ==
  ASSUME MemberStack(stack), This.todo # <<>>, This.fn # "parseAttributes",
         NEW more \in Seq(Code)
  PROVE  \E top \in LoaderCalls \cup MemberCalls :
           /\ top \in LoaderCalls <=> This \in LoaderCalls
           /\ top.fn = This.fn /\ top.keep = This.keep
           /\ top.todo = more \o Tail(This.todo) /\ Goto(more) = WithTop(stack, top)
<1>1. Len(stack) \in DOMAIN stack
  BY DEF MemberStack
<1>2. This \in LoaderCalls \/ This \in MemberCalls
  BY DEF MemberStack, This
<1>3. PICK fns : /\ This \in CallsOf(fns, Code)
                   /\ fns \in {{"LoadClassFile"}, Members \ {"parseAttributes"}}
  BY <1>2 DEF LoaderCalls, MemberCalls, CallsOf
<1>4. PICK top \in CallsOf(fns, Code) :
        /\ top.fn = This.fn /\ top.keep = This.keep
        /\ top.todo = more \o Tail(This.todo) /\ Goto(more) = WithTop(stack, top)
  BY <1>1, <1>3, GotoTop
<1>5. \A f \in CallsOf(fns, Code) : f \in LoaderCalls <=> fns = {"LoadClassFile"}
  <2>1. "LoadClassFile" \notin Members
    BY DEF Members
  <2>2. QED
    BY <2>1, <1>3 DEF LoaderCalls, CallsOf
<1>6. top \in LoaderCalls \cup MemberCalls
  BY <1>3, <1>4 DEF LoaderCalls, MemberCalls
<1>7. QED
  BY <1>3, <1>4, <1>5, <1>6

-----------------------------------------------------------------------------
(* What the instructions of a script may be. *)
LEMMA CodeInstructions ==
  ASSUME NEW ins \in Code
  PROVE  /\ ins.w \in Nat
         /\ ins.op \in {"u", "test", "blob", "keep", "skip", "call", "callN",
                        "many", "many1", "select"}
         /\ ins.op = "keep" => ins.what \in {"minor", "length"}
         /\ ins.op \in {"call", "callN"} => ins.arg \in Members
         /\ ins.op \in {"many", "many1"} => ins.arg \in Seq(Code)
         /\ ins.op = "select" => \A tag \in DOMAIN ins.arg : ins.arg[tag] \in Seq(Code)
<1>1. CASE ins \in Reads
  BY <1>1 DEF Reads
<1>2. CASE ins \in CallsTo(Members)
  BY <1>2 DEF CallsTo
<1>3. ASSUME NEW code, Seq(code) \subseteq Seq(Code), ins \in LoopsOver(code)
      PROVE  ins.w \in Nat /\ ins.op \in {"many", "many1"} /\ ins.arg \in Seq(Code)
  BY <1>3 DEF LoopsOver
<1>4. CASE ins \in LoopsOver(Code0) \/ ins \in LoopsOver(Code1)
  <2>1. Seq(Code0) \subseteq Seq(Code) /\ Seq(Code1) \subseteq Seq(Code)
    BY CodeLevels
  <2>2. ins.w \in Nat /\ ins.op \in {"many", "many1"} /\ ins.arg \in Seq(Code)
    BY <2>1, <1>3, <1>4
  <2>3. QED
    BY <2>2
<1>5. CASE ins \in Switches
  <2>1. \A s \in Seq(Code2) : s \in Seq(Code)
    BY CodeLevels
  <2>2. /\ ins.op = "select" /\ ins.w = 1
        /\ \A tag \in DOMAIN ins.arg : ins.arg[tag] \in Seq(Code2)
    BY <1>5, SwitchCode
  <2>3. QED
    BY <2>1, <2>2
<1>6. QED
  BY <1>1, <1>2, <1>4, <1>5 DEF Code, Code2, Code1, Code0, Switches

(* What the instructions of the pool's loop and its parsers may be.        *)
LEMMA PoolInstructions ==
  /\ \A ins \in PoolCode :
       /\ ins.w \in Nat /\ ins.op \in {"u", "blob", "call"}
       /\ ins.op = "call" => ins.arg \in PoolParsers
  /\ \A ins \in LoopCode : ins.w \in Nat /\ ins.op \in {"entry", "store"}
  /\ \A i \in Nat : Entry(i).op = "entry" /\ Entry(i).arg = i
  /\ \A i \in Nat : \A tag \in DOMAIN EntryParser :
       Store(i, tag).op = "store" /\ Store(i, tag).arg = i /\ Store(i, tag).what = tag
<1>1. "cp_parse_filedRefInfo" \in PoolParsers
  BY ParserNames
<1>2. \A ins \in PoolCode :
       /\ ins.w \in Nat /\ ins.op \in {"u", "blob", "call"}
       /\ ins.op = "call" => ins.arg \in PoolParsers
  BY <1>1 DEF PoolCode
<1>3. /\ \A i \in Nat : Entry(i).op = "entry" /\ Entry(i).arg = i /\ Entry(i).w = 1
      /\ \A i \in Nat : \A tag \in DOMAIN EntryParser :
           /\ Store(i, tag).op = "store" /\ Store(i, tag).arg = i
           /\ Store(i, tag).what = tag /\ Store(i, tag).w = 0
  BY DEF Entry, Store, Instr
<1>4. \A ins \in LoopCode : ins.w \in Nat /\ ins.op \in {"entry", "store"}
  BY <1>3 DEF LoopCode
<1>5. QED
  BY <1>2, <1>3, <1>4

(* The bytes after a length are code for both.                             *)
LEMMA BytesRead == \A n \in Nat : <<Bytes(n)>> \in Seq(Code) /\ <<Bytes(n)>> \in Seq(PoolCode)
<1>1. \A n \in Nat : Bytes(n) \in Code
  BY Levels, CodeLevels
<1>2. \A n \in Nat : Bytes(n) \in PoolCode
  BY DEF Bytes, Instr, PoolCode, Values
<1>3. QED
  BY <1>1, <1>2, ShortSequences

(* A call of a parser begins as the stack's shape asks for. *)
LEMMA NewCalls ==
  /\ \A fn \in PoolParsers : Frame(fn, 1) \in PoolCalls
  /\ \A fn \in Members : \A n \in Nat : Frame(fn, n) \in MemberCalls
  /\ Frame("LoadClassFile", 1) = ACall("LoadClassFile", Rest(1), 0)
<1>1. ASSUME NEW fn \in PoolParsers
      PROVE  Frame(fn, 1) \in PoolCalls
  <2>1. Copies(Script[fn], 1) \in Seq(PoolCode)
    BY PoolScripts, CopiesOfCode
  <2>2. QED
    BY <2>1 DEF Frame, PoolCalls, CallsOf
<1>2. ASSUME NEW fn \in Members, NEW n \in Nat
      PROVE  Frame(fn, n) \in MemberCalls
  <2>1. CASE fn = "parseAttributes"
    <3>1. Script[fn] \in Seq({Attribute})
      BY <2>1, ShortSequences DEF Script, parseAttributes
    <3>2. Copies(Script[fn], n) \in Seq({Attribute})
      BY <3>1, CopiesOfCode
    <3>3. QED
      BY <3>2, <2>1 DEF Frame, MemberCalls, CallsOf
  <2>2. CASE fn # "parseAttributes"
    <3>1. Copies(Script[fn], n) \in Seq(Code)
      BY <2>2, MemberScripts, CopiesOfCode
    <3>2. QED
      BY <3>1, <2>2 DEF Frame, MemberCalls, CallsOf
  <2>3. QED
    BY <2>1, <2>2
<1>3. Copies(LoadClassFile, 1) = LoadClassFile
  BY LoaderScript, CopiesOfCode
<1>4. Rest(1) = LoadClassFile
  BY LoaderScript, SubSeqFull DEF Rest
<1>5. QED
  BY <1>1, <1>2, <1>3, <1>4, LoaderScript DEF Frame, ACall

-----------------------------------------------------------------------------
(* LoadClassFile goes through three stages and then is over.  First the    *)
(* values before the pool.                                                 *)
Running == phase \in {"parsing", "null"}

Begins ==
  /\ Running /\ pool = <<>> /\ count = 0
  /\ \E p \in 1 .. 4, k \in Nat :
       stack = <<ACall("LoadClassFile", Rest(p), k)>>

(* Then the pool.  Its elements up to i are done, and the loop is at i; no *)
(* NULL comes from a parser of an entry whose reads were delivered.        *)
FailuresSpelled == \A ret \in OkReturns : ret < 0

PoolUpTo(i) ==
  /\ i > 1 /\ i < count => ~Shadow(i)
  /\ \A j \in 1 .. count - 1 :
       IF j < i THEN pool[j] = NoEntry <=> Shadow(j) ELSE pool[j] = NoEntry

LoopAt(i) ==
  \/ stack[2].todo = <<Entry(i)>> /\ i < count /\ Len(stack) = 2
  \/ /\ \E tag \in DOMAIN EntryParser : stack[2].todo = <<Store(i, tag)>>
     /\ i < count
  \/ stack[2].todo = <<>> /\ i >= count /\ Len(stack) = 2

InPool ==
  /\ Running /\ PoolStack(stack)
  /\ \E i \in Nat : i >= 1 /\ PoolUpTo(i) /\ LoopAt(i)
  /\ FailuresSpelled /\ phase = "null" /\ Len(stack) > 2 => short

(* Then the rest, with a pool that stays as it is. *)
WholePool == \A i \in 1 .. count - 1 : pool[i] = NoEntry <=> Shadow(i)

InMembers ==
  /\ Running /\ MemberStack(stack)
  /\ phase = "parsing" \/ Len(stack) > 1 => WholePool

(* At the end there are no calls, or those of the crash. *)
Over ==
  /\ phase \in {"loaded", "failed", "crashed"}
  /\ phase # "crashed" => stack = <<>>
  /\ phase = "loaded" => WholePool
  /\ phase = "crashed" => \/ /\ PoolStack(stack) /\ This.fn \in MethodReferences
                             /\ FailuresSpelled => short
                          \/ MemberStack(stack) /\ WholePool /\ CrashHasAReason

Stage == Begins \/ InPool \/ InMembers \/ Over

(* Nothing but NULLs is passed on while there is one. *)
LEMMA NullStep ==
  ASSUME phase = "null", Next
  PROVE  ReturnNull
BY DEF Next, ReadAccepted, Compute, Doing, ReadRefused, ReadStored, ReadKept,
       ReadTested, ReadCount,
       ReadMembers, ReadPoolCount, ReadEntry, StoreEntry, ReadVariant,
       ReadAttribute, SkipBytes, CallParser, Return, ReturnNothing

(* What a call with nothing left can do, and what one can that is at an    *)
(* instruction.                                                            *)
LEMMA ReturnStep ==
  ASSUME phase = "parsing", This.todo = <<>>, Next
  PROVE  Return \/ ReturnNothing
BY DEF Next, ReadAccepted, Compute, Doing, ReadRefused, ReadStored, ReadKept,
       ReadTested, ReadCount,
       ReadMembers, ReadPoolCount, ReadEntry, StoreEntry, ReadVariant,
       ReadAttribute, SkipBytes, CallParser, ReturnNull

(* A call at an instruction executes it.                                   *)
LEMMA InstructionStep ==
  ASSUME phase = "parsing", This.todo # <<>>, Next
  PROVE  \/ ReadRefused
         \/ Ins.op = "u" /\ ReadStored
         \/ Ins.op = "keep" /\ ReadKept
         \/ Ins.op = "test" /\ ReadTested
         \/ Ins.op \in {"blob", "many", "many1"} /\ ReadCount
         \/ Ins.op = "callN" /\ ReadMembers
         \/ Ins.op = "pool" /\ ReadPoolCount
         \/ Ins.op = "entry" /\ ReadEntry
         \/ Ins.op = "store" /\ StoreEntry
         \/ Ins.op = "select" /\ ReadVariant
         \/ Ins.op = "attribute" /\ ReadAttribute
         \/ Ins.op = "skip" /\ SkipBytes
         \/ Ins.op = "call" /\ CallParser
<1>1. /\ ReadStored => Ins.op = "u"
      /\ ReadKept => Ins.op = "keep"
      /\ ReadTested => Ins.op = "test"
  BY DEF ReadStored, ReadKept, ReadTested, Doing
<1>2. /\ ReadCount => Ins.op \in {"blob", "many", "many1"}
      /\ ReadMembers => Ins.op = "callN"
  BY DEF ReadCount, ReadMembers, Doing
<1>3. /\ ReadPoolCount => Ins.op = "pool"
      /\ ReadEntry => Ins.op = "entry"
      /\ StoreEntry => Ins.op = "store"
  BY DEF ReadPoolCount, ReadEntry, StoreEntry, Doing
<1>4. /\ ReadVariant => Ins.op = "select"
      /\ ReadAttribute => Ins.op = "attribute"
      /\ SkipBytes => Ins.op = "skip"
      /\ CallParser => Ins.op = "call"
  BY DEF ReadVariant, ReadAttribute, SkipBytes, CallParser, Doing
<1>5. ~Return /\ ~ReturnNothing /\ ~ReturnNull
  BY DEF Return, ReturnNothing, ReturnNull
<1>6. QED
  BY <1>1, <1>2, <1>3, <1>4, <1>5 DEF Next, ReadAccepted, Compute

-----------------------------------------------------------------------------
(* LoadClassFile alone on the stack has no caller in the model. *)
LEMMA EmptyCaller ==
  ASSUME NEW T, stack \in Seq(T), Len(stack) = 1
  PROVE  Caller = <<>>
<1>1. Len(stack) - 1 = 0
  OBVIOUS
<1>2. QED
  BY <1>1, SubSeqEmpty DEF Caller

(* The fields of a call.                                                   *)
LEMMA CallFields ==
  \A fn, todo, keep : /\ ACall(fn, todo, keep).fn = fn
                      /\ ACall(fn, todo, keep).todo = todo
                      /\ ACall(fn, todo, keep).keep = keep
  BY DEF ACall

(* A stack of two calls.                                                   *)
LEMMA TwoCalls ==
  ASSUME NEW a, NEW b
  PROVE  LET s == Append(<<a>>, b) IN
         s \in Seq({a, b}) /\ Len(s) = 2 /\ s[1] = a /\ s[2] = b
<1>1. <<a>> \in Seq({a, b}) /\ Len(<<a>>) = 1 /\ <<a>>[1] = a
  OBVIOUS
<1>2. QED
  BY <1>1, OneMore

(* From the values before the pool a step stays there or enters the pool.  *)
LEMMA StepBegins ==
  ASSUME Begins, file \in Files, Next
  PROVE  Stage'
<1>1. PICK p \in 1 .. 4, k \in Nat :
        stack = <<ACall("LoadClassFile", Rest(p), k)>>
  BY DEF Begins
<1> DEFINE call == ACall("LoadClassFile", Rest(p), k)
<1>2. /\ Len(stack) = 1 /\ stack[1] = call /\ This = call
      /\ This.fn = "LoadClassFile" /\ This.todo = Rest(p) /\ This.keep = k
      /\ \A c : WithTop(stack, c) = <<c>>
  BY <1>1, CallFields DEF This, WithTop
<1>3. This.todo # <<>> /\ Ins = LoadClassFile[p]
  BY <1>2, RestOfLoader DEF Ins
<1> DEFINE next(key) == ACall("LoadClassFile", Rest(p + 1), key)
<1>4. Goto(<<>>) = <<next(k)>>
  <2>1. PICK rest : rest = <<>> \o Tail(Rest(p))
    OBVIOUS
  <2>2. rest = Rest(p + 1)
    BY <2>1, RestOfLoader
  <2>3. Goto(<<>>) = [stack EXCEPT ![1] = [call EXCEPT !.todo = rest]]
    BY <1>2, <2>1 DEF Goto
  <2>4. [call EXCEPT !.todo = rest] = ACall("LoadClassFile", rest, k)
    BY DEF ACall
  <2>5. QED
    BY <1>1, <2>2, <2>3, <2>4
<1>5. \A v : [next(k) EXCEPT !.keep = v] = next(v)
  BY DEF ACall
<1> HIDE DEF next
<1>6. \A v \in Nat : p < 4 /\ pool' = pool /\ count' = count /\ Running'
          /\ (stack' = Goto(<<>>) \/ stack' = [Goto(<<>>) EXCEPT ![Len(stack)].keep = v]
              \/ stack' = stack)
        => Begins'
  <2> TAKE v \in Nat
  <2>1. [Goto(<<>>) EXCEPT ![Len(stack)].keep = v] = <<next(v)>>
    <3>1. [Goto(<<>>) EXCEPT ![Len(stack)].keep = v] = <<[next(k) EXCEPT !.keep = v]>>
      BY <1>2, <1>4
    <3>2. QED
      BY <3>1, <1>5
  <2>2. p < 4 => p + 1 \in 1 .. 4
    OBVIOUS
  <2>3. QED
    BY <2>1, <2>2, <1>1, <1>4 DEF Begins, Running, next
<1>7. CASE phase = "null"
  <2>1. ReturnNull
    BY <1>7, NullStep
  <2>2. Caller = <<>>
    <3>1. stack \in Seq({call})
      BY <1>1
    <3>2. QED
      BY <3>1, <1>2, EmptyCaller
  <2>3. stack' = <<>> /\ phase' = "failed"
    BY <2>1, <2>2 DEF ReturnNull
  <2>4. QED
    BY <2>3 DEF Stage, Over
<1>8. CASE phase = "parsing"
  <2>1. Ins.op = (IF p \in {1, 3} THEN "test" ELSE IF p = 2 THEN "keep" ELSE "pool")
        /\ (p = 2 => Ins.what = "minor")
    BY <1>3, LoaderScript DEF Test, Keep, Pool, Instr
  <2>2. CASE ReadRefused
    BY <2>2 DEF ReadRefused, Begins, Running, Stage
  <2>3. CASE p \in {1, 3} /\ ReadTested
    <3>1. pool' = pool /\ count' = count /\ phase' \in {phase, "null"}
          /\ (stack' = Goto(<<>>) \/ stack' = stack)
      BY <2>3 DEF ReadTested
    <3>2. Running' /\ p < 4
      BY <3>1, <1>8, <2>3 DEF Running
    <3>3. QED
      BY <3>1, <3>2, <1>6 DEF Stage
  <2>4. CASE p = 2 /\ ReadKept
    <3>1. PICK v \in {0, 3} :
            /\ stack' = [Goto(<<>>) EXCEPT ![Len(stack)].keep = v]
            /\ pool' = pool /\ count' = count /\ phase' = phase
      <4>1. Held(Ins.what) \subseteq {0, 3}
        BY <2>1, <2>4 DEF Held
      <4>2. QED
        BY <4>1, <2>4 DEF ReadKept
    <3>2. Running' /\ p < 4 /\ v \in Nat
      BY <3>1, <1>8, <2>4 DEF Running
    <3>3. QED
      BY <3>1, <3>2, <1>6 DEF Stage
  <2>5. CASE p = 4 /\ ReadPoolCount
    <3>1. PICK n \in file.poolCounts \cup {0} :
            /\ count' = n
            /\ pool' = [i \in 1 .. n - 1 |-> NoEntry]
            /\ stack' = Append(Goto(<<>>), [fn |-> "parseConstantPool",
                                            todo |-> Entries(1, n), keep |-> 0])
            /\ phase' = phase
      BY <2>5 DEF ReadPoolCount
    <3>2. n \in Nat
      BY FilesAssumption
    <3> DEFINE loader == ACall("LoadClassFile", Rest(5), k)
               loop == ACall("parseConstantPool", Entries(1, n), 0)
    <3>3. Goto(<<>>) = <<loader>>
      BY <1>4, <2>5 DEF next
    <3>4. loader \in LoaderCalls
      BY RestOfLoader DEF LoaderCalls, CallsOf, ACall
    <3>5. Entries(1, n) = (IF 1 < n THEN <<Entry(1)>> ELSE <<>>) /\ loop \in LoopCalls
      <4>1. Entry(1) \in LoopCode
        BY DEF LoopCode
      <4>2. <<Entry(1)>> \in Seq(LoopCode) /\ <<>> \in Seq(LoopCode)
        BY <4>1, ShortSequences
      <4>3. Entries(1, n) \in Seq(LoopCode)
        BY <4>2 DEF Entries
      <4>4. QED
        BY <4>3 DEF Entries, LoopCalls, CallsOf, ACall
    <3> HIDE DEF loader, loop
    <3>6. /\ stack' \in Seq({loader, loop}) /\ Len(stack') = 2
          /\ stack'[1] = loader /\ stack'[2] = loop
      <4>1. stack' = Append(<<loader>>, loop)
        BY <3>1, <3>3 DEF loop, ACall
      <4>2. QED
        BY <4>1, TwoCalls
    <3>7. PoolStack(stack')
      BY <3>4, <3>5, <3>6 DEF PoolStack
    <3>8. PoolUpTo(1)'
      BY <3>1, <3>2 DEF PoolUpTo, Shadow
    <3>9. LoopAt(1)'
      <4>1. stack'[2].todo = Entries(1, n) /\ Len(stack') = 2
        BY <3>6, CallFields DEF loop
      <4>2. 1 < n \/ 1 >= n
        BY <3>2
      <4>3. QED
        BY <4>1, <4>2, <3>1, <3>5 DEF LoopAt
    <3>10. Running' /\ ~(phase' = "null")
      BY <3>1, <1>8 DEF Running
    <3>11. QED
      BY <3>7, <3>8, <3>9, <3>10 DEF InPool, Stage
  <2>6. QED
    BY <2>1, <2>2, <2>3, <2>4, <2>5, <1>3, <1>8, InstructionStep
<1>9. QED
  BY <1>7, <1>8 DEF Begins, Running

(* The names of the functions, as far as the steps tell them apart. *)
LEMMA FunctionNames ==
  /\ \A f \in LoaderCalls : f.fn = "LoadClassFile" /\ f.todo \in Seq(Code) /\ f.keep \in Nat
  /\ \A f \in LoopCalls : f.fn = "parseConstantPool" /\ f.todo \in Seq(LoopCode) /\ f.keep \in Nat
  /\ \A f \in PoolCalls : f.fn \in PoolParsers /\ f.todo \in Seq(PoolCode) /\ f.keep \in Nat
  /\ \A f \in MemberCalls :
       /\ f.fn \in Members /\ f.keep \in Nat
       /\ f.todo \in (IF f.fn = "parseAttributes" THEN Seq({Attribute}) ELSE Seq(Code))
  /\ FallingOff \cap (PoolParsers \cup {"LoadClassFile", "parseConstantPool"}) = {}
  /\ Dereferencing \cap (Members \cup {"LoadClassFile", "parseConstantPool"}) = {}
<1>1. /\ \A f \in LoaderCalls : f.fn = "LoadClassFile" /\ f.todo \in Seq(Code) /\ f.keep \in Nat
      /\ \A f \in LoopCalls : f.fn = "parseConstantPool" /\ f.todo \in Seq(LoopCode) /\ f.keep \in Nat
      /\ \A f \in PoolCalls : f.fn \in PoolParsers /\ f.todo \in Seq(PoolCode) /\ f.keep \in Nat
  BY DEF LoaderCalls, LoopCalls, PoolCalls, CallsOf
<1>2. \A f \in MemberCalls :
       /\ f.fn \in Members /\ f.keep \in Nat
       /\ f.todo \in (IF f.fn = "parseAttributes" THEN Seq({Attribute}) ELSE Seq(Code))
  BY MemberNames DEF MemberCalls, CallsOf
<1>3. FallingOff \cap (PoolParsers \cup {"LoadClassFile", "parseConstantPool"}) = {}
  BY ParserNames DEF FallingOff
<1>4. Dereferencing \cap (Members \cup {"LoadClassFile", "parseConstantPool"}) = {}
  BY ParserNames DEF Dereferencing, Members, Script
<1>5. QED
  BY <1>1, <1>2, <1>3, <1>4

(* One instruction put in the place of the last one.                       *)
LEMMA SingleInstruction ==
  /\ \A x, y : <<x>> \o Tail(<<y>>) = <<x>> /\ <<>> \o Tail(<<y>>) = <<>>
  OBVIOUS

(* The pool's loop, at the tag of an entry. *)
LEMMA StepEntry ==
  ASSUME InPool, phase = "parsing", file \in Files, Len(stack) = 2,
         NEW i \in Nat, i >= 1, PoolUpTo(i), stack[2].todo = <<Entry(i)>>, i < count, Next
  PROVE  InPool'
<1>1. This = stack[2] /\ This \in LoopCalls /\ stack[2] \in LoopCalls
  BY DEF This, InPool, PoolStack
<1>2. This.todo # <<>> /\ Ins = Entry(i) /\ Ins.op = "entry" /\ Ins.arg = i
  BY <1>1, PoolInstructions DEF Ins
<1>3. ASSUME pool' = pool, count' = count, stack' = stack, phase' = "null"
      PROVE  InPool'
  <2>1. Len(stack') = 2 /\ Running'
    BY <1>3 DEF Running
  <2>2. PoolStack(stack')
    BY <1>3 DEF InPool
  <2>3. PoolUpTo(i)' /\ LoopAt(i)'
    BY <1>3 DEF PoolUpTo, LoopAt, Shadow
  <2>4. QED
    BY <2>1, <2>2, <2>3 DEF InPool
<1>4. CASE ReadRefused
  BY <1>3, <1>4 DEF ReadRefused
<1>5. CASE ReadEntry
  <2>1. PICK tag :
          /\ IF tag \in DOMAIN EntryParser
             THEN /\ stack' = Enter(<<Store(i, tag)>>, EntryParser[tag], 1)
                  /\ phase' = phase
             ELSE stack' = stack /\ phase' = "null"
          /\ pool' = pool /\ count' = count
    BY <1>2, <1>5 DEF ReadEntry
  <2>2. CASE tag \in DOMAIN EntryParser
    <3>1. <<Store(i, tag)>> \in Seq(LoopCode)
      <4>1. Store(i, tag) \in LoopCode
        BY <2>2 DEF LoopCode
      <4>2. QED
        BY <4>1, ShortSequences
    <3>4. PICK top \in LoopCalls :
            /\ top.todo = <<Store(i, tag)>> \o Tail(This.todo)
            /\ Goto(<<Store(i, tag)>>) = WithTop(stack, top)
      BY <3>1, <1>2, PoolGoto DEF InPool
    <3>5. top.todo = <<Store(i, tag)>>
      BY <3>4, <1>1, SingleInstruction, Zenon
    <3>6. EntryParser[tag] \in PoolParsers
      BY <2>2 DEF PoolParsers
    <3>7. Frame(EntryParser[tag], 1) \in PoolCalls
      BY <3>6, NewCalls
    <3>8. PICK mid : mid = WithTop(stack, top)
      OBVIOUS
    <3>9. PoolStack(mid) /\ mid[2] = top /\ Len(mid) = 2
      BY <3>8, PoolStackKept DEF InPool
    <3>10. stack' = Append(mid, Frame(EntryParser[tag], 1))
      BY <2>1, <2>2, <3>4, <3>8 DEF Enter
    <3>11. PoolStack(stack') /\ stack'[2] = top /\ Len(stack') = 3
      <4>1. \A call \in PoolCalls :
              /\ PoolStack(Append(mid, call)) /\ Append(mid, call)[2] = mid[2]
              /\ Len(Append(mid, call)) = Len(mid) + 1
        BY <3>9, PoolStackKept
      <4>2. QED
        BY <4>1, <3>7, <3>9, <3>10
    <3>text. PoolUpTo(i)'
      BY <2>1 DEF PoolUpTo, Shadow
    <3>13. LoopAt(i)'
      BY <3>5, <3>11, <2>1, <2>2 DEF LoopAt
    <3>14. Running' /\ phase' # "null"
      BY <2>1, <2>2 DEF Running
    <3>15. QED
      BY <3>11, <3>text, <3>13, <3>14 DEF InPool
  <2>3. CASE tag \notin DOMAIN EntryParser
    BY <2>1, <2>3, <1>3
  <2>4. QED
    BY <2>2, <2>3
<1>6. QED
  BY <1>2, <1>4, <1>5, InstructionStep

(* The pool's loop, when an entry is parsed. *)
LEMMA StepStore ==
  ASSUME InPool, phase = "parsing", DOMAIN pool = 1 .. count - 1, count \in Nat, Len(stack) = 2,
         NEW i \in Nat, i >= 1, PoolUpTo(i), i < count,
         NEW tag \in DOMAIN EntryParser, stack[2].todo = <<Store(i, tag)>>, Next
  PROVE  InPool'
<1>1. This = stack[2] /\ This \in LoopCalls /\ stack[2] \in LoopCalls
  BY DEF This, InPool, PoolStack
<1>2. This.todo # <<>> /\ Ins = Store(i, tag)
  <2>1. This.todo = <<Store(i, tag)>>
    BY <1>1
  <2>2. Ins = Head(<<Store(i, tag)>>)
    BY <2>1 DEF Ins
  <2>3. Head(<<Store(i, tag)>>) = Store(i, tag) /\ <<Store(i, tag)>> # <<>>
    OBVIOUS
  <2>4. QED
    BY <2>1, <2>2, <2>3
<1>3. Ins.op = "store" /\ Ins.arg = i /\ Ins.what = tag
  BY <1>2, PoolInstructions
<1>4. StoreEntry
  <2>1. ~ReadRefused
    BY <1>3 DEF ReadRefused
  <2>2. QED
    BY <1>2, <1>3, <2>1, InstructionStep
<1> DEFINE next == i + (IF Wide(tag) THEN 2 ELSE 1)
<1>5. PICK text :
        /\ pool' = [pool EXCEPT ![i] = [tag |-> tag, text |-> text]]
        /\ stack' = Goto(Entries(next, count))
        /\ UNCHANGED <<phase, count, left, short, file>>
  BY <1>3, <1>4 DEF StoreEntry
<1> DEFINE entry == [tag |-> tag, text |-> text]
<1>6. entry # NoEntry /\ entry.tag = tag /\ ~Wide(NoEntry.tag)
  BY DEF NoEntry, EntryParser, Wide
<1>7. /\ pool'[i] = entry
      /\ \A j \in 1 .. count - 1 : j # i => pool'[j] = pool[j]
  BY <1>5
<1> HIDE DEF entry
<1>8. PoolUpTo(next)'
  <2>1. count' = count
    BY <1>5
  <2>2. \A j \in 1 .. count - 1 : j <= i => (Shadow(j)' <=> Shadow(j))
    BY <1>7 DEF Shadow
  <2>3. ~Shadow(i)
    BY DEF PoolUpTo, Shadow
  <2>4. i + 1 <= count - 1 => (Shadow(i + 1)' <=> Wide(tag))
    BY <1>6, <1>7 DEF Shadow
  <2>5. i + 1 <= count - 1 => pool'[i + 1] = NoEntry
    BY <1>7 DEF PoolUpTo
  <2>6. i + 2 <= count - 1 => ~Shadow(i + 2)'
    BY <1>6, <2>5 DEF Shadow
  <2>7. \A j \in 1 .. count - 1 : j < i => (pool'[j] = NoEntry <=> Shadow(j)')
    BY <1>7, <2>2 DEF PoolUpTo
  <2>8. pool'[i] # NoEntry /\ ~Shadow(i)'
    BY <1>6, <1>7, <2>2, <2>3
  <2>9. \A j \in 1 .. count - 1 : j > i => pool'[j] = NoEntry
    BY <1>7 DEF PoolUpTo
  <2>10. CASE Wide(tag)
    <3>1. next = i + 2
      BY <2>10
    <3>2. \A j \in 1 .. count - 1 :
            IF j < i + 2 THEN pool'[j] = NoEntry <=> Shadow(j)' ELSE pool'[j] = NoEntry
      <4> TAKE j \in 1 .. count - 1
      <4>1. j < i \/ j = i \/ j = i + 1 \/ j >= i + 2
        OBVIOUS
      <4>2. CASE j < i
        BY <4>2, <2>7
      <4>3. CASE j = i
        BY <4>3, <2>8
      <4>4. CASE j = i + 1
        BY <4>4, <2>4, <2>5, <2>10
      <4>5. CASE j >= i + 2
        BY <4>5, <2>9
      <4>6. QED
        BY <4>1, <4>2, <4>3, <4>4, <4>5
    <3>3. QED
      BY <3>1, <3>2, <2>1, <2>6 DEF PoolUpTo
  <2>11. CASE ~Wide(tag)
    <3>1. next = i + 1
      BY <2>11
    <3>2. \A j \in 1 .. count - 1 :
            IF j < i + 1 THEN pool'[j] = NoEntry <=> Shadow(j)' ELSE pool'[j] = NoEntry
      BY <2>7, <2>8, <2>9
    <3>3. QED
      BY <3>1, <3>2, <2>1, <2>4, <2>11 DEF PoolUpTo
  <2>12. QED
    BY <2>10, <2>11
<1>9. next \in Nat /\ next >= 1
  OBVIOUS
<1> HIDE DEF next
<1>10. Entries(next, count) \in Seq(LoopCode)
  <2>1. Entry(next) \in LoopCode
    BY <1>9 DEF LoopCode
  <2>2. QED
    BY <2>1, ShortSequences DEF Entries
<1>11. PICK top \in LoopCalls :
         /\ top.todo = Entries(next, count) \o Tail(This.todo)
         /\ Goto(Entries(next, count)) = WithTop(stack, top)
  BY <1>2, <1>10, PoolGoto DEF InPool
<1>12. top.todo = Entries(next, count)
  <2>1. CASE next < count
    BY <2>1, <1>1, <1>11, SingleInstruction, Zenon DEF Entries
  <2>2. CASE ~(next < count)
    BY <2>2, <1>1, <1>11, SingleInstruction, Zenon DEF Entries
  <2>3. QED
    BY <2>1, <2>2
<1>13. PoolStack(stack') /\ stack'[2] = top /\ Len(stack') = 2
  <2>1. PICK r : r = WithTop(stack, top)
    OBVIOUS
  <2>2. PoolStack(r) /\ r[2] = top /\ Len(r) = 2
    BY <2>1, PoolStackKept DEF InPool
  <2>3. QED
    BY <2>1, <2>2, <1>5, <1>11
<1>14. LoopAt(next)'
  <2>1. next < count \/ next >= count
    BY <1>9
  <2>2. QED
    BY <2>1, <1>5, <1>12, <1>13 DEF LoopAt, Entries
<1>15. Running' /\ phase' # "null"
  BY <1>5 DEF Running
<1>16. QED
  BY <1>8, <1>9, <1>13, <1>14, <1>15 DEF InPool

(* A parser of an entry leaves the loop and the pool alone.  It returns    *)
(* NULL only after a read that was not delivered.                          *)
LEMMA LoopWaits ==
  ASSUME InPool, Len(stack) > 2, PoolStack(stack)', stack'[2] = stack[2],
         pool' = pool, count' = count, Running',
         FailuresSpelled /\ phase' = "null" /\ (Len(stack) > 2)' => short'
  PROVE  InPool'
<1>1. PICK i \in Nat : i >= 1 /\ PoolUpTo(i) /\ LoopAt(i)
  BY DEF InPool
<1>2. PoolUpTo(i)'
  BY <1>1 DEF PoolUpTo, Shadow
<1>3. LoopAt(i)'
  <2>1. i < count /\ \E tag \in DOMAIN EntryParser : stack[2].todo = <<Store(i, tag)>>
    <3>1. Len(stack) # 2
      <4>1. Len(stack) \in Nat
        BY DEF InPool, PoolStack
      <4>2. \A m \in Nat : m > 2 => m # 2
        OBVIOUS
      <4>3. QED
        BY <4>1, <4>2
    <3>2. QED
      BY <1>1, <3>1 DEF LoopAt
  <2>2. stack'[2].todo = stack[2].todo /\ i < count'
    BY <2>1
  <2>3. QED
    BY <2>1, <2>2 DEF LoopAt
<1>4. QED
  BY <1>1, <1>2, <1>3 DEF InPool

(* A refused read is one that was not delivered.                           *)
LEMMA RefusedIsShort ==
  ASSUME FailuresSpelled, short \in BOOLEAN, ReadRefused
  PROVE  short' = TRUE
<1>1. PICK wrote \in BOOLEAN : MayReturn(wrote, TRUE) /\ short' = (short \/ ~wrote)
  BY DEF ReadRefused
<1>2. ~wrote
  <2> SUFFICES ASSUME wrote = TRUE
               PROVE  FALSE
    OBVIOUS
  <2>1. PICK ret \in OkReturns : Refused(ret) = TRUE
    BY <1>1 DEF MayReturn
  <2>2. ret < 0 /\ ret \in Int
    BY <2>1, ReturnsAssumption DEF FailuresSpelled
  <2>3. QED
    BY <2>1, <2>2 DEF Refused
<1>3. QED
  BY <1>1, <1>2

(* A step of the parser of an entry.                                       *)
LEMMA StepPoolParser ==
  ASSUME InPool, phase = "parsing", file \in Files, short \in BOOLEAN, Len(stack) > 2, Next
  PROVE  InPool'
<1>1. PoolStack(stack) /\ This \in PoolCalls /\ Len(stack) \in Nat
  BY DEF InPool, PoolStack, This
<1>2. This.fn \in PoolParsers /\ This.todo \in Seq(PoolCode)
  BY <1>1, FunctionNames
<1>3. ASSUME NEW more \in Seq(PoolCode), This.todo # <<>>
      PROVE  PoolStack(Goto(more)) /\ Goto(more)[2] = stack[2] /\ Len(Goto(more)) = Len(stack)
  <2>1. PICK top \in PoolCalls : Goto(more) = WithTop(stack, top)
    BY <1>1, <1>3, PoolGoto
  <2>2. PICK r : r = WithTop(stack, top)
    OBVIOUS
  <2>3. PoolStack(r) /\ r[2] = stack[2] /\ Len(r) = Len(stack)
    BY <2>2, <1>1, PoolStackKept
  <2>4. QED
    BY <2>1, <2>2, <2>3
<1>4. <<>> \in Seq(PoolCode)
  OBVIOUS
<1>5. ASSUME NEW more \in Seq(PoolCode), This.todo # <<>>, stack' = Goto(more),
             pool' = pool, count' = count, phase' = phase
      PROVE  InPool'
  BY <1>3, <1>5, LoopWaits DEF Running
<1>6. CASE This.todo = <<>>
  <2>1. Return
    <3>1. This.fn \notin FallingOff
      BY <1>2, FunctionNames
    <3>2. QED
      BY <1>6, <3>1, ReturnStep DEF ReturnNothing
  <2>2. /\ stack' = Below(stack) /\ phase' = "parsing" /\ pool' = pool /\ count' = count
    BY <2>1, <1>1 DEF Return, Caller, Below
  <2>3. PoolStack(Below(stack)) /\ Below(stack)[2] = stack[2]
    BY <1>1, PoolStackKept
  <2>4. QED
    BY <2>2, <2>3, LoopWaits DEF Running
<1>7. CASE This.todo # <<>>
  <2>1. Ins \in PoolCode
    <3>1. \A s \in Seq(PoolCode) : s # <<>> => Head(s) \in PoolCode
      OBVIOUS
    <3>2. QED
      BY <3>1, <1>2, <1>7 DEF Ins
  <2>2. Ins.op \in {"u", "blob", "call"} /\ (Ins.op = "call" => Ins.arg \in PoolParsers)
    BY <2>1, PoolInstructions
  <2>3. CASE ReadRefused
    <3>1. UNCHANGED <<stack, pool, count>> /\ phase' = "null"
      BY <2>3 DEF ReadRefused
    <3>2. FailuresSpelled => short'
      BY <2>3, RefusedIsShort
    <3>3. QED
      BY <3>1, <3>2, <1>1, LoopWaits DEF Running
  <2>4. CASE ReadStored
    <3>1. stack' = Goto(<<>>) /\ UNCHANGED <<pool, count, phase>>
      BY <2>4 DEF ReadStored
    <3>2. QED
      BY <3>1, <1>4, <1>5, <1>7
  <2>5. CASE Ins.op = "blob" /\ ReadCount
    <3>1. PICK n \in file.counts \cup {0} :
            stack' = Goto(Loop(n)) /\ UNCHANGED <<pool, count, phase>>
      BY <2>5 DEF ReadCount
    <3>2. Loop(n) = <<Bytes(n)>>
      BY <2>5 DEF Loop
    <3>3. <<Bytes(n)>> \in Seq(PoolCode)
      BY FilesAssumption, BytesRead
    <3>4. QED
      BY <3>1, <3>2, <3>3, <1>5, <1>7
  <2>6. CASE Ins.op = "call" /\ CallParser
    <3>1. stack' = Append(Goto(<<>>), Frame(Ins.arg, 1)) /\ UNCHANGED <<pool, count, phase>>
      BY <2>6 DEF CallParser, Enter
    <3>2. Frame(Ins.arg, 1) \in PoolCalls
      BY <2>2, <2>6, NewCalls
    <3>3. PICK mid : mid = Goto(<<>>)
      OBVIOUS
    <3>4. PoolStack(mid) /\ mid[2] = stack[2]
      BY <3>3, <1>3, <1>4, <1>7
    <3>5. \A call \in PoolCalls : PoolStack(Append(mid, call)) /\ Append(mid, call)[2] = mid[2]
      BY <3>4, PoolStackKept
    <3>6. PoolStack(stack') /\ stack'[2] = stack[2]
      BY <3>1, <3>2, <3>3, <3>4, <3>5
    <3>7. QED
      BY <3>1, <3>6, LoopWaits DEF Running
  <2>7. QED
    BY <2>2, <2>3, <2>4, <2>5, <2>6, <1>7, InstructionStep
<1>8. QED
  BY <1>6, <1>7

(* The end of the pool's loop, and a NULL on its way through it. *)
LEMMA StepPool ==
  ASSUME InPool, file \in Files, short \in BOOLEAN, DOMAIN pool = 1 .. count - 1, count \in Nat,
         Next
  PROVE  Stage'
<1>1. PoolStack(stack) /\ Len(stack) \in Nat /\ Len(stack) >= 2
  BY DEF InPool, PoolStack
<1>2. PICK i \in Nat : i >= 1 /\ PoolUpTo(i) /\ LoopAt(i)
  BY DEF InPool
<1>3. CASE phase = "parsing" /\ Len(stack) > 2
  BY <1>3, StepPoolParser DEF Stage
<1>4. CASE phase = "parsing" /\ Len(stack) = 2
  <2>1. CASE stack[2].todo = <<Entry(i)>> /\ i < count
    BY <2>1, <1>2, <1>4, StepEntry DEF Stage
  <2>2. CASE i < count /\ \E tag \in DOMAIN EntryParser : stack[2].todo = <<Store(i, tag)>>
    BY <2>2, <1>2, <1>4, StepStore DEF Stage
  <2>3. CASE stack[2].todo = <<>> /\ i >= count
    <3>1. This = stack[2] /\ This.fn = "parseConstantPool" /\ This.todo = <<>>
      BY <1>1, <1>4, <2>3, FunctionNames DEF This, PoolStack
    <3>2. Return
      BY <3>1, <1>4, ReturnStep, FunctionNames DEF ReturnNothing
    <3>3. stack' = Below(stack) /\ phase' = "parsing" /\ pool' = pool /\ count' = count
      BY <3>2, <1>4 DEF Return, Caller, Below
    <3>4. MemberStack(Below(stack))
      BY <1>1, <1>4, PoolStackKept
    <3>5. WholePool'
      BY <3>3, <1>2, <2>3 DEF WholePool, PoolUpTo, Shadow
    <3>6. QED
      BY <3>3, <3>4, <3>5 DEF InMembers, Running, Stage
  <2>4. QED
    BY <1>2, <2>1, <2>2, <2>3 DEF LoopAt
<1>5. CASE phase = "null"
  <2>1. ReturnNull
    BY <1>5, NullStep
  <2>2. Len(Below(stack)) = Len(stack) - 1 /\ Caller = Below(stack) /\ Caller # <<>>
    <3>1. Len(Below(stack)) = Len(stack) - 1
      BY <1>1, PoolStackKept
    <3>2. Below(stack) # <<>>
      BY <3>1, <1>1
    <3>3. QED
      BY <3>1, <3>2 DEF Caller, Below
  <2>3. /\ stack' = Below(stack) /\ pool' = pool /\ count' = count /\ short' = short
        /\ phase' = IF stack[Len(stack) - 1].fn \in Dereferencing THEN "crashed" ELSE "null"
    BY <2>1, <2>2 DEF ReturnNull
  <2>4. CASE Len(stack) > 2
    <3>1. PoolStack(stack') /\ stack'[2] = stack[2]
      BY <2>3, <2>4, <1>1, PoolStackKept
    <3>2. FailuresSpelled => short
      BY <2>4, <1>5 DEF InPool
    <3>3. CASE phase' = "null"
      BY <3>1, <3>2, <3>3, <2>3, <2>4, LoopWaits DEF Running, Stage
    <3>4. CASE phase' = "crashed"
      <4>1. stack[Len(stack) - 1].fn \in MethodReferences
        BY <3>4, <2>3 DEF Dereferencing, MethodReferences
      <4>2. This' = stack[Len(stack) - 1]
        <5>1. This' = Below(stack)[Len(stack) - 1]
          BY <2>2, <2>3 DEF This
        <5>2. Len(stack) - 1 \in 1 .. Len(stack) - 1
          BY <1>1
        <5>3. \A m \in 1 .. Len(stack) - 1 : Below(stack)[m] = stack[m]
          BY <1>1 DEF Below
        <5>4. QED
          BY <5>1, <5>2, <5>3
      <4>3. This'.fn \in MethodReferences'
        BY <4>1, <4>2 DEF MethodReferences
      <4>4. QED
        BY <3>1, <3>2, <3>4, <2>3, <4>3 DEF Over, Stage
    <3>5. QED
      BY <3>3, <3>4, <2>3
  <2>5. CASE Len(stack) = 2
    <3>1. stack[Len(stack) - 1].fn \notin Dereferencing
      BY <2>5, <1>1, FunctionNames DEF PoolStack
    <3>2. phase' = "null"
      BY <3>1, <2>3
    <3>3. MemberStack(stack') /\ Len(stack') = 1
      BY <2>2, <2>3, <2>5, <1>1, PoolStackKept
    <3>4. QED
      BY <3>2, <3>3 DEF InMembers, Running, Stage
  <2>6. QED
    BY <2>4, <2>5, <1>1
<1>6. Len(stack) = 2 \/ Len(stack) > 2
  <2>1. \A m \in Nat : m >= 2 => m = 2 \/ m > 2
    OBVIOUS
  <2>2. QED
    BY <1>1, <2>1
<1>7. phase = "parsing" \/ phase = "null"
  BY DEF InPool, Running
<1>8. QED
  BY <1>3, <1>4, <1>5, <1>6, <1>7

-----------------------------------------------------------------------------
(* After the pool: any step that leaves the pool alone and keeps the shape *)
(* of the stack stays in the stage.                                        *)
LEMMA MembersGoOn ==
  ASSUME InMembers, phase = "parsing", MemberStack(stack)', pool' = pool, count' = count, Running'
  PROVE  InMembers'
<1>1. WholePool'
  BY DEF InMembers, WholePool, Shadow
<1>2. QED
  BY <1>1 DEF InMembers

(* The value a call keeps does not change its place.                       *)
LEMMA KeptLast ==
  ASSUME NEW s, MemberStack(s), s[Len(s)].fn # "parseAttributes", NEW v \in Nat
  PROVE  MemberStack([s EXCEPT ![Len(s)].keep = v])
<1> DEFINE f == s[Len(s)]
           top == [f EXCEPT !.keep = v]
<1>1. f \in LoaderCalls \/ f \in MemberCalls
  BY DEF MemberStack
<1>2. [s EXCEPT ![Len(s)].keep = v] = WithTop(s, top)
  BY DEF WithTop
<1>3. \A fns, code : f \in CallsOf(fns, code) => top \in CallsOf(fns, code)
  BY DEF CallsOf
<1>4. /\ f \in LoaderCalls => top \in LoaderCalls
      /\ f \in MemberCalls => top \in MemberCalls
  BY <1>3 DEF LoaderCalls, MemberCalls
<1>5. f \in LoaderCalls <=> top \in LoaderCalls
  <2>1. top \in LoaderCalls /\ f \in MemberCalls => FALSE
    <3>1. top.fn = f.fn \/ f \notin MemberCalls
      BY DEF MemberCalls, CallsOf
    <3>2. QED
      BY <3>1, FunctionNames, MemberNames DEF Members
  <2>2. QED
    BY <2>1, <1>1, <1>4
<1>6. MemberStack(WithTop(s, top))
  BY <1>1, <1>4, <1>5, MemberStackKept
<1>7. QED
  BY <1>2, <1>6

(* A parser of the members, and LoadClassFile itself, at an instruction. *)
LEMMA StepCode ==
  ASSUME InMembers, phase = "parsing", file \in Files,
         This.todo # <<>>, This.fn # "parseAttributes", Next
  PROVE  InMembers'
<1>1. MemberStack(stack) /\ (This \in LoaderCalls \/ This \in MemberCalls)
  BY DEF InMembers, MemberStack, This
<1>2. This.todo \in Seq(Code)
  BY <1>1, FunctionNames
<1>3. Ins \in Code
  <2>1. \A s \in Seq(Code) : s # <<>> => Head(s) \in Code
    OBVIOUS
  <2>2. QED
    BY <2>1, <1>2 DEF Ins
<1>4. \A more \in Seq(Code) : MemberStack(Goto(more))
  <2> TAKE more \in Seq(Code)
  <2>1. PICK top \in LoaderCalls \cup MemberCalls :
          (top \in LoaderCalls <=> This \in LoaderCalls) /\ Goto(more) = WithTop(stack, top)
    BY <1>1, MemberGoto
  <2>2. QED
    BY <2>1, <1>1, MemberStackKept DEF This
<1>5. <<>> \in Seq(Code)
  OBVIOUS
<1>6. ASSUME UNCHANGED <<stack, pool, count>>, Running'
      PROVE  InMembers'
  BY <1>1, <1>6, MembersGoOn
<1>7. ASSUME NEW more \in Seq(Code), stack' = Goto(more), UNCHANGED <<pool, count>>, Running'
      PROVE  InMembers'
  BY <1>4, <1>7, MembersGoOn
<1>8. ASSUME NEW fn \in Members, NEW n \in Nat,
             stack' = Enter(<<>>, fn, n), UNCHANGED <<phase, pool, count>>
      PROVE  InMembers'
  <2>1. PICK mid : mid = Goto(<<>>)
    OBVIOUS
  <2>2. PICK call : call = Frame(fn, n)
    OBVIOUS
  <2>3. call \in MemberCalls
    BY <2>2, NewCalls
  <2>4. MemberStack(Append(mid, call))
    BY <2>1, <2>3, <1>4, <1>5, MemberStackKept
  <2>5. QED
    BY <2>1, <2>2, <2>4, <1>8, MembersGoOn DEF Enter, Running
<1>9. CASE ReadRefused
  BY <1>6, <1>9 DEF ReadRefused, Running
<1>10. CASE ReadStored
  BY <1>5, <1>7, <1>10 DEF ReadStored, Running
<1>11. CASE Ins.op = "test" /\ ReadTested
  <2>1. UNCHANGED <<pool, count>> /\ (stack' = Goto(<<>>) \/ stack' = stack) /\ Running'
    BY <1>11 DEF ReadTested, Running
  <2>2. QED
    BY <2>1, <1>5, <1>6, <1>7
<1>12. CASE Ins.op = "keep" /\ ReadKept
  <2>1. PICK v \in Held(Ins.what) \cup {0} :
          stack' = [Goto(<<>>) EXCEPT ![Len(stack)].keep = v]
    BY <1>12 DEF ReadKept
  <2>2. v \in Nat
    <3>1. Ins.what \in {"minor", "length"}
      BY <1>3, <1>12, CodeInstructions
    <3>2. file.lengths \subseteq Nat
      BY FilesAssumption
    <3>3. Held(Ins.what) \subseteq {0, 3} \cup file.lengths
      BY <3>1 DEF Held
    <3>4. QED
      BY <3>2, <3>3
  <2>3. PICK top \in LoaderCalls \cup MemberCalls :
          /\ top \in LoaderCalls <=> This \in LoaderCalls
          /\ top.fn = This.fn /\ Goto(<<>>) = WithTop(stack, top)
    BY <1>1, <1>5, MemberGoto
  <2>4. PICK mid : mid = WithTop(stack, top)
    OBVIOUS
  <2>5. MemberStack(mid) /\ Len(mid) = Len(stack) /\ mid[Len(mid)] = top
    <3>1. MemberStack(mid)
      BY <2>3, <2>4, <1>1, MemberStackKept DEF This
    <3>2. stack \in Seq(LoaderCalls \cup MemberCalls) /\ Len(stack) >= 1
      BY <1>1 DEF MemberStack
    <3>3. Len(mid) = Len(stack) /\ mid[Len(stack)] = top
      BY <3>2, <2>4, LastChanged DEF WithTop
    <3>4. QED
      BY <3>1, <3>3
  <2>6. MemberStack([mid EXCEPT ![Len(mid)].keep = v])
    BY <2>2, <2>3, <2>5, KeptLast
  <2>7. stack' = [mid EXCEPT ![Len(mid)].keep = v]
    BY <2>1, <2>3, <2>4, <2>5
  <2>8. QED
    BY <2>6, <2>7, <1>12, MembersGoOn DEF ReadKept, Running
<1>13. CASE Ins.op \in {"blob", "many", "many1"} /\ ReadCount
  <2>1. PICK n \in file.counts \cup {0} :
          stack' = Goto(Loop(n)) /\ UNCHANGED <<phase, pool, count>>
    BY <1>13 DEF ReadCount
  <2>2. n \in Nat
    BY FilesAssumption
  <2>3. Loop(n) \in Seq(Code)
    <3>1. CASE Ins.op = "blob"
      BY <3>1, <2>2, BytesRead DEF Loop
    <3>2. CASE Ins.op = "many"
      <4>1. Ins.arg \in Seq(Code)
        BY <3>2, <1>3, CodeInstructions
      <4>2. QED
        BY <3>2, <4>1, <2>2, CopiesOfCode DEF Loop
    <3>3. CASE Ins.op = "many1"
      <4>1. Ins.arg \in Seq(Code)
        BY <3>3, <1>3, CodeInstructions
      <4>2. (IF n = 0 THEN 0 ELSE n - 1) \in Nat
        BY <2>2
      <4>3. QED
        BY <3>3, <4>1, <4>2, CopiesOfCode DEF Loop
    <3>4. QED
      BY <3>1, <3>2, <3>3, <1>13
  <2>4. QED
    BY <2>1, <2>3, <1>7 DEF Running
<1>14. CASE Ins.op = "callN" /\ ReadMembers
  <2>1. PICK n \in file.counts \cup {0} : stack' = Enter(<<>>, Ins.arg, n)
    BY <1>14 DEF ReadMembers
  <2>2. n \in Nat /\ Ins.arg \in Members
    BY <1>3, <1>14, FilesAssumption, CodeInstructions
  <2>3. QED
    BY <2>1, <2>2, <1>8, <1>14 DEF ReadMembers
<1>15. CASE Ins.op = "select" /\ ReadVariant
  <2>1. PICK tag : /\ IF tag \in DOMAIN Ins.arg
                      THEN stack' = Goto(Ins.arg[tag]) /\ phase' = phase
                      ELSE stack' = stack /\ phase' = "null"
                   /\ UNCHANGED <<pool, count>>
    BY <1>15 DEF ReadVariant
  <2>2. CASE tag \in DOMAIN Ins.arg
    <3>1. Ins.arg[tag] \in Seq(Code)
      BY <2>2, <1>3, <1>15, CodeInstructions
    <3>2. QED
      BY <2>1, <2>2, <3>1, <1>7 DEF Running
  <2>3. CASE tag \notin DOMAIN Ins.arg
    BY <2>1, <2>3, <1>6 DEF Running
  <2>4. QED
    BY <2>2, <2>3
<1>16. CASE SkipBytes
  <2>1. UNCHANGED <<pool, count>> /\ (stack' = Goto(<<>>) \/ stack' = stack) /\ Running'
    BY <1>16 DEF SkipBytes, Running
  <2>2. QED
    BY <2>1, <1>5, <1>6, <1>7
<1>17. CASE Ins.op = "call" /\ CallParser
  <2>1. Ins.arg \in Members
    BY <1>3, <1>17, CodeInstructions
  <2>2. QED
    BY <2>1, <1>8, <1>17 DEF CallParser
<1>18. QED
  <2>1. Ins.op \in {"u", "test", "blob", "keep", "skip", "call", "callN", "many", "many1", "select"}
    BY <1>3, CodeInstructions
  <2>2. QED
    BY <2>1, <1>9, <1>10, <1>11, <1>12, <1>13, <1>14, <1>15, <1>16, <1>17, InstructionStep

(* One attribute: a NULL, a crash, or the call of the parser of its name.  *)
PoolTyped == \A i \in 1 .. count - 1 : pool[i] \in PoolEntries

(* Only an entry that is no Utf8 can crash the lookup of a name.           *)
LEMMA TextsOfEntry ==
  ASSUME NEW entry \in PoolEntries, file \in Files, "crash" \in Texts(entry)
  PROVE  entry.tag # "Utf8"
<1> SUFFICES ASSUME entry.tag = "Utf8"
             PROVE  FALSE
  OBVIOUS
<1> DEFINE texts == UNION {f.texts : f \in Files}
<1>1. entry.text = "crash"
  BY DEF Texts, Wide
<1>2. entry.text \in texts \cup {"none"}
  <2> DEFINE others == texts \cup {"none"}
  <2>1. entry \in [tag : DOMAIN EntryParser \cup {"none"}, text : others]
    BY DEF PoolEntries
  <2> HIDE DEF others
  <2>2. entry.text \in others
    BY <2>1
  <2>3. QED
    BY <2>2 DEF others
<1>3. \A f \in Files : "crash" \notin f.texts
  BY FilesAssumption
<1>4. "crash" \notin texts
  BY <1>3
<1> HIDE DEF texts
<1>5. QED
  BY <1>1, <1>2, <1>4

(* What the loop of parseAttributes does to the stack.                     *)
LEMMA AttributeStep ==
  ASSUME MemberStack(stack), phase = "parsing", file \in Files, count \in Nat,
         This.todo # <<>>, This.fn = "parseAttributes", Next
  PROVE  /\ UNCHANGED <<pool, count, file>>
         /\ \/ UNCHANGED stack /\ phase' = "null"
            \/ /\ UNCHANGED stack /\ phase' = "crashed"
               /\ \E i \in file.names : i \in 1 .. count - 1 /\ "crash" \in Texts(pool[i])
            \/ /\ phase' = phase
               /\ \E i \in file.names : \E text \in Texts(pool[i]) : \E name \in Named(text) :
                    /\ i # 0 /\ ~(i >= count) /\ text # "crash"
                    /\ stack' = [Enter(<<>>, AttributeParser[name], 1)
                                   EXCEPT ![Len(stack)].keep = i]
<1>1. This \in MemberCalls
  <2>1. This \in LoaderCalls \/ This \in MemberCalls
    BY DEF MemberStack, This
  <2>2. QED
    BY <2>1, FunctionNames
<1>2. This.todo \in Seq({Attribute})
  BY <1>1, FunctionNames
<1>3. Ins = Attribute
  <2>1. \A s \in Seq({Attribute}) : s # <<>> => Head(s) = Attribute
    OBVIOUS
  <2>2. QED
    BY <2>1, <1>2 DEF Ins
<1>4. Ins.op = "attribute"
  BY <1>3 DEF Attribute, Instr
<1>5. CASE ReadRefused
  BY <1>5 DEF ReadRefused
<1>6. CASE ReadAttribute
  <2>1. PICK i \in file.names :
          IF i = 0 \/ i >= count
          THEN stack' = stack /\ phase' = "null"
          ELSE \E text \in Texts(pool[i]) :
                 \/ /\ text = "crash"
                    /\ stack' = stack /\ phase' = "crashed"
                 \/ /\ text # "crash"
                    /\ \E name \in Named(text) :
                         stack' = [Enter(<<>>, AttributeParser[name], 1)
                                     EXCEPT ![Len(stack)].keep = i]
                    /\ phase' = phase
                 \/ /\ text # "crash" /\ Named(text) = {}
                    /\ stack' = stack /\ phase' = "null"
    BY <1>6 DEF ReadAttribute
  <2>2. UNCHANGED <<pool, count, file>>
    BY <1>6 DEF ReadAttribute
  <2>3. CASE i = 0 \/ i >= count
    BY <2>1, <2>2, <2>3
  <2>4. CASE ~(i = 0 \/ i >= count)
    <3>1. PICK text \in Texts(pool[i]) :
                 \/ /\ text = "crash"
                    /\ stack' = stack /\ phase' = "crashed"
                 \/ /\ text # "crash"
                    /\ \E name \in Named(text) :
                         stack' = [Enter(<<>>, AttributeParser[name], 1)
                                     EXCEPT ![Len(stack)].keep = i]
                    /\ phase' = phase
                 \/ /\ text # "crash" /\ Named(text) = {}
                    /\ stack' = stack /\ phase' = "null"
      BY <2>1, <2>4
    <3>2. CASE text = "crash" /\ stack' = stack /\ phase' = "crashed"
      <4>1. i \in Nat
        BY FilesAssumption
      <4>2. i \in 1 .. count - 1
        BY <4>1, <2>4
      <4>3. QED
        BY <4>2, <3>1, <3>2, <2>2
    <3>3. CASE /\ text # "crash" /\ phase' = phase
               /\ \E name \in Named(text) :
                         stack' = [Enter(<<>>, AttributeParser[name], 1)
                                     EXCEPT ![Len(stack)].keep = i]
      BY <3>1, <3>3, <2>2, <2>4
    <3>4. CASE stack' = stack /\ phase' = "null"
      BY <3>4, <2>2
    <3>5. QED
      BY <3>1, <3>2, <3>3, <3>4
  <2>5. QED
    BY <2>3, <2>4
<1>7. QED
  BY <1>4, <1>5, <1>6, InstructionStep

(* The stack when it calls the parser of an attribute.                     *)
LEMMA AttributeEntered ==
  ASSUME MemberStack(stack), This.todo # <<>>, This.fn = "parseAttributes",
         NEW fn \in Members, NEW i \in Nat,
         stack' = [Enter(<<>>, fn, 1) EXCEPT ![Len(stack)].keep = i]
  PROVE  /\ MemberStack(stack')
         /\ Len(stack) \in Nat /\ Len(stack) >= 1 /\ Len(stack') = Len(stack) + 1
         /\ stack'[Len(stack)].fn = "parseAttributes" /\ stack'[Len(stack)].keep = i
         /\ stack'[Len(stack) + 1].fn = fn
         /\ \A k \in 1 .. Len(stack) - 1 : stack'[k] = stack[k]
<1> DEFINE n == Len(stack)
           T == LoaderCalls \cup MemberCalls
<1>1. stack \in Seq(T) /\ n \in Nat /\ n >= 1 /\ n \in DOMAIN stack
  BY DEF MemberStack
<1>2. This \in CallsOf({"parseAttributes"}, {Attribute})
  <2>1. This \in LoaderCalls \/ This \in MemberCalls
    BY DEF MemberStack, This
  <2>2. This \notin LoaderCalls
    BY FunctionNames
  <2>3. QED
    BY <2>1, <2>2 DEF MemberCalls, CallsOf
<1>3. <<>> \in Seq({Attribute})
  OBVIOUS
<1>4. PICK top \in CallsOf({"parseAttributes"}, {Attribute}) : Goto(<<>>) = WithTop(stack, top)
  BY <1>1, <1>2, <1>3, GotoTop
<1>5. top \in MemberCalls
  BY DEF MemberCalls
<1>6. n # 1
  BY <1>1, <1>2, FunctionNames DEF MemberStack, This
<1> DEFINE kept == [top EXCEPT !.keep = i]
<1>7. kept \in MemberCalls /\ kept.fn = "parseAttributes" /\ kept.keep = i
  BY <1>4 DEF MemberCalls, CallsOf
<1> HIDE DEF kept
<1>8. PICK call : call = Frame(fn, 1)
  OBVIOUS
<1>9. call \in MemberCalls /\ call.fn = fn
  BY <1>8, NewCalls DEF Frame
<1>10. PICK s : s = WithTop(stack, top)
  OBVIOUS
<1>11. s \in Seq(T) /\ Len(s) = n /\ s[n] = top /\ \A k \in 1 .. n - 1 : s[k] = stack[k]
  BY <1>1, <1>5, <1>10, LastChanged DEF WithTop
<1>12. PICK t : t = Append(s, call)
  OBVIOUS
<1>13. /\ t \in Seq(T) /\ Len(t) = n + 1 /\ t[n + 1] = call /\ t[n] = top
       /\ \A k \in 1 .. n - 1 : t[k] = stack[k]
  <2>1. /\ t \in Seq(T) /\ Len(t) = n + 1 /\ t[n + 1] = call
        /\ \A k \in 1 .. n : t[k] = s[k]
    BY <1>9, <1>11, <1>12, OneMore
  <2>2. QED
    BY <2>1, <1>1, <1>11
<1>14. stack' = [t EXCEPT ![n] = kept]
  <2>1. stack' = [t EXCEPT ![n].keep = i]
    BY <1>4, <1>8, <1>10, <1>12 DEF Enter
  <2>2. QED
    BY <2>1, <1>13 DEF kept
<1> HIDE DEF n, T
<1>15. PICK r : r = [t EXCEPT ![n] = kept]
  OBVIOUS
<1>16. /\ r \in Seq(T) /\ Len(r) = n + 1 /\ r[n + 1] = call /\ r[n] = kept
       /\ \A k \in 1 .. n - 1 : r[k] = stack[k]
  <2>1. kept \in T
    BY <1>7 DEF T
  <2>2. /\ r \in Seq(T) /\ Len(r) = n + 1 /\ r[n + 1] = t[n + 1] /\ r[n] = kept
        /\ \A k \in 1 .. n - 1 : r[k] = t[k]
    BY <2>1, <1>1, <1>13, <1>15, ElementChanged
  <2>3. QED
    BY <2>2, <1>13
<1>17. n > 1
  <2>1. \A m \in Nat : m >= 1 /\ m # 1 => m > 1
    OBVIOUS
  <2>2. QED
    BY <2>1, <1>1, <1>6
<1>18. r[1] \in LoaderCalls
  <2>1. \A m \in Nat : m > 1 => 1 \in 1 .. m - 1
    OBVIOUS
  <2>2. r[1] = stack[1]
    BY <2>1, <1>1, <1>16, <1>17
  <2>3. QED
    BY <2>2 DEF MemberStack
<1>19. \A k \in 2 .. n + 1 : r[k] \in MemberCalls
  <2>1. \A m \in Nat : \A k \in 2 .. m + 1 :
          (k \in 1 .. m - 1 /\ k \in 2 .. m) \/ k = m \/ k = m + 1
    OBVIOUS
  <2>2. \A k \in 2 .. n : stack[k] \in MemberCalls
    BY DEF MemberStack, n
  <2>3. SUFFICES ASSUME NEW k \in 2 .. n + 1
                 PROVE  r[k] \in MemberCalls
    OBVIOUS
  <2>4. (k \in 1 .. n - 1 /\ k \in 2 .. n) \/ k = n \/ k = n + 1
    BY <2>1, <1>1
  <2>5. CASE k \in 1 .. n - 1 /\ k \in 2 .. n
    BY <2>2, <2>5, <1>16
  <2>6. CASE k = n
    BY <2>6, <1>7, <1>16
  <2>7. CASE k = n + 1
    BY <2>7, <1>9, <1>16
  <2>8. QED
    BY <2>4, <2>5, <2>6, <2>7
<1>20. MemberStack(r)
  <2>1. Len(r) >= 1
    BY <1>1, <1>16
  <2>2. QED
    BY <2>1, <1>16, <1>18, <1>19 DEF MemberStack, T
<1>21. r = stack'
  BY <1>14, <1>15
<1>22. QED
  BY <1>1, <1>7, <1>9, <1>16, <1>20, <1>21 DEF n

(* From the members a step stays there or ends the load.                   *)
LEMMA StepMembers ==
  ASSUME InMembers, file \in Files, count \in Nat, PoolTyped, Next
  PROVE  Stage'
<1>1. MemberStack(stack) /\ Len(stack) \in Nat /\ Len(stack) >= 1
      /\ stack \in Seq(LoaderCalls \cup MemberCalls)
  BY DEF InMembers, MemberStack
<1>2. This \in LoaderCalls \/ This \in MemberCalls
  BY DEF InMembers, MemberStack, This
<1>3. CASE phase = "null"
  <2>1. ReturnNull
    BY <1>3, NullStep
  <2>2. CASE Len(stack) = 1
    <3>1. Caller = <<>>
      BY <1>1, <2>2, EmptyCaller
    <3>2. stack' = <<>> /\ phase' = "failed"
      BY <2>1, <3>1 DEF ReturnNull
    <3>3. QED
      BY <3>2 DEF Over, Stage
  <2>3. CASE Len(stack) > 1
    <3>1. Caller = Below(stack) /\ MemberStack(Below(stack))
      BY <1>1, <2>3, MemberStackKept DEF Caller, Below
    <3>2. Caller # <<>>
      BY <3>1 DEF MemberStack
    <3>3. stack[Len(stack) - 1].fn \notin Dereferencing
      <4>1. Len(stack) - 1 = 1 \/ Len(stack) - 1 \in 2 .. Len(stack)
        <5>1. \A m \in Nat : m > 1 => m - 1 = 1 \/ m - 1 \in 2 .. m
          OBVIOUS
        <5>2. QED
          BY <5>1, <1>1, <2>3
      <4>2. stack[Len(stack) - 1] \in LoaderCalls \/ stack[Len(stack) - 1] \in MemberCalls
        BY <4>1, <1>1 DEF MemberStack
      <4>3. QED
        BY <4>2, FunctionNames
    <3>4. stack' = Below(stack) /\ phase' = "null" /\ UNCHANGED <<pool, count>>
      BY <2>1, <3>1, <3>2, <3>3 DEF ReturnNull
    <3>5. WholePool'
      BY <3>4, <2>3 DEF InMembers, WholePool, Shadow
    <3>6. QED
      BY <3>1, <3>4, <3>5 DEF InMembers, Running, Stage
  <2>4. Len(stack) = 1 \/ Len(stack) > 1
    <3>1. \A m \in Nat : m >= 1 => m = 1 \/ m > 1
      OBVIOUS
    <3>2. QED
      BY <1>1, <3>1
  <2>5. QED
    BY <2>2, <2>3, <2>4
<1>4. CASE phase = "parsing" /\ This.todo = <<>>
  <2>1. CASE ReturnNothing
    <3>1. UNCHANGED <<stack, pool, count>> /\ Running'
      BY <2>1 DEF ReturnNothing, Running
    <3>2. QED
      BY <3>1, <1>1, <1>4, MembersGoOn DEF Stage
  <2>2. CASE Return /\ Len(stack) = 1
    <3>1. stack' = <<>> /\ phase' = "loaded" /\ UNCHANGED <<pool, count>>
      BY <1>1, <2>2, EmptyCaller DEF Return
    <3>2. WholePool'
      BY <3>1, <1>4 DEF InMembers, WholePool, Shadow
    <3>3. QED
      BY <3>1, <3>2 DEF Over, Stage
  <2>3. CASE Return /\ Len(stack) # 1
    <3>1. Len(stack) > 1
      <4>1. \A m \in Nat : m >= 1 /\ m # 1 => m > 1
        OBVIOUS
      <4>2. QED
        BY <1>1, <2>3, <4>1
    <3>2. MemberStack(Below(stack))
      BY <1>1, <3>1, MemberStackKept
    <3>3. stack' = Below(stack) /\ phase' = "parsing" /\ UNCHANGED <<pool, count>>
      BY <2>3 DEF Return, Caller, Below
    <3>4. QED
      BY <3>2, <3>3, <1>4, MembersGoOn DEF Running, Stage
  <2>4. QED
    BY <1>4, <2>1, <2>2, <2>3, ReturnStep
<1>5. CASE phase = "parsing" /\ This.todo # <<>> /\ This.fn # "parseAttributes"
  BY <1>5, StepCode DEF Stage
<1>6. CASE phase = "parsing" /\ This.todo # <<>> /\ This.fn = "parseAttributes"
  <2>1. UNCHANGED <<pool, count, file>>
    BY <1>1, <1>6, AttributeStep
  <2>2. CASE UNCHANGED stack /\ phase' = "null"
    <3>1. Running'
      BY <2>2 DEF Running
    <3>2. QED
      BY <3>1, <2>1, <2>2, <1>1, <1>6, MembersGoOn DEF Stage
  <2>3. CASE /\ UNCHANGED stack /\ phase' = "crashed"
             /\ \E i \in file.names : i \in 1 .. count - 1 /\ "crash" \in Texts(pool[i])
    <3>1. PICK i \in file.names : i \in 1 .. count - 1 /\ "crash" \in Texts(pool[i])
      BY <2>3
    <3>2. pool[i].tag # "Utf8"
      BY <3>1, TextsOfEntry DEF PoolTyped
    <3>3. CrashHasAReason'
      BY <3>1, <3>2, <2>1, <2>3, <1>6 DEF CrashHasAReason, This
    <3>4. WholePool'
      BY <2>1, <1>6 DEF InMembers, WholePool, Shadow
    <3>5. QED
      BY <3>3, <3>4, <2>3, <1>1 DEF Over, Stage
  <2>4. CASE /\ phase' = phase
             /\ \E i \in file.names : \E text \in Texts(pool[i]) : \E name \in Named(text) :
                    /\ i # 0 /\ ~(i >= count) /\ text # "crash"
                    /\ stack' = [Enter(<<>>, AttributeParser[name], 1)
                                   EXCEPT ![Len(stack)].keep = i]
    <3>1. PICK i \in file.names, name \in DOMAIN AttributeParser :
            stack' = [Enter(<<>>, AttributeParser[name], 1) EXCEPT ![Len(stack)].keep = i]
      BY <2>4 DEF Named
    <3>2. i \in Nat /\ AttributeParser[name] \in Members
      BY FilesAssumption, MemberNames
    <3>3. MemberStack(stack')
      BY <3>1, <3>2, <1>1, <1>6, AttributeEntered
    <3>4. QED
      BY <3>3, <2>1, <2>4, <1>6, MembersGoOn DEF Running, Stage
  <2>5. QED
    BY <1>1, <1>6, <2>2, <2>3, <2>4, AttributeStep
<1>7. QED
  BY <1>3, <1>4, <1>5, <1>6 DEF InMembers, Running

(* At the end there are no steps.                                          *)
LEMMA StepOver ==
  ASSUME Over
  PROVE  ~Next
BY DEF Over, Next, ReadAccepted, Compute, Doing, ReadRefused, ReadStored, ReadKept,
       ReadTested, ReadCount,
       ReadMembers, ReadPoolCount, ReadEntry, StoreEntry, ReadVariant,
       ReadAttribute, SkipBytes, CallParser, Return, ReturnNothing, ReturnNull
-----------------------------------------------------------------------------
(* The types.  The instruction of the running call has a width, and an     *)
(* entry that is stored has a known tag.                                   *)
Types ==
  /\ file \in Files /\ left \in 0 .. file.bytes /\ short \in BOOLEAN
  /\ count \in (UNION {f.poolCounts : f \in Files}) \cup {0}
  /\ DOMAIN pool = 1 .. count - 1
  /\ \A i \in DOMAIN pool : pool[i] \in PoolEntries
  /\ \A i \in DOMAIN pool : pool[i].tag = "Utf8" => pool[i].text \in file.texts

(* What the running call is at, in any stage.                              *)
LEMMA CallAtWork ==
  ASSUME Stage, phase = "parsing", This.todo # <<>>
  PROVE  /\ This.keep \in Nat /\ Ins.w \in Nat
         /\ Ins.op = "store" => Ins.what \in DOMAIN EntryParser
         /\ Ins.op = "attribute" => This.fn = "parseAttributes"
         /\ InMembers => Ins.op \notin {"pool", "store"}
<1>1. \A code : \A s \in Seq(code) : s # <<>> => Head(s) \in code
  OBVIOUS
<1>2. CASE Begins /\ ~InMembers
  <2>1. PICK p \in 1 .. 4, k \in Nat : stack = <<ACall("LoadClassFile", Rest(p), k)>>
    BY <1>2 DEF Begins
  <2>2. This = ACall("LoadClassFile", Rest(p), k)
    BY <2>1 DEF This
  <2>3. This.keep \in Nat /\ Ins = LoadClassFile[p]
    BY <2>2, CallFields, RestOfLoader DEF Ins
  <2>4. Ins.w \in Nat /\ Ins.op \notin {"store", "attribute"}
    BY <2>3, LoaderScript DEF Test, Keep, Pool, Instr
  <2>5. QED
    BY <1>2, <2>3, <2>4
<1>3. CASE InPool /\ ~InMembers
  <2>1. This \in LoopCalls \/ This \in PoolCalls
    BY <1>3 DEF InPool, PoolStack, This
  <2>2. /\ This.keep \in Nat
        /\ This.todo \in Seq(LoopCode) \/ This.todo \in Seq(PoolCode)
    BY <2>1, FunctionNames
  <2>3. Ins \in LoopCode \/ Ins \in PoolCode
    BY <2>2, <1>1 DEF Ins
  <2>4. CASE Ins \in LoopCode
    <3>1. (\E i \in Nat : Ins = Entry(i))
          \/ \E i \in Nat, tag \in DOMAIN EntryParser : Ins = Store(i, tag)
      BY <2>4 DEF LoopCode
    <3>2. /\ Ins.op = "store" => Ins.what \in DOMAIN EntryParser
          /\ Ins.w \in Nat /\ Ins.op # "attribute"
      BY <3>1, <2>4, PoolInstructions
    <3>3. QED
      BY <1>3, <2>2, <3>2
  <2>5. CASE Ins \in PoolCode
    <3>1. Ins.w \in Nat /\ Ins.op \notin {"store", "attribute"}
      BY <2>5, PoolInstructions
    <3>2. QED
      BY <1>3, <2>2, <3>1
  <2>6. QED
    BY <2>3, <2>4, <2>5
<1>4. CASE InMembers
  <2>1. This \in LoaderCalls \/ This \in MemberCalls
    BY <1>4 DEF InMembers, MemberStack, This
  <2>2. /\ This.keep \in Nat
        /\ This.fn # "parseAttributes" => This.todo \in Seq(Code)
        /\ This.fn = "parseAttributes" => This.todo \in Seq({Attribute})
    BY <2>1, FunctionNames
  <2>3. CASE This.fn # "parseAttributes"
    <3>1. Ins \in Code
      BY <2>2, <2>3, <1>1 DEF Ins
    <3>2. Ins.w \in Nat /\ Ins.op \notin {"pool", "store", "attribute"}
      BY <3>1, CodeInstructions
    <3>3. QED
      BY <2>2, <3>2
  <2>4. CASE This.fn = "parseAttributes"
    <3>1. Ins = Attribute
      BY <2>2, <2>4, <1>1 DEF Ins
    <3>2. Ins.w \in Nat /\ Ins.op = "attribute"
      BY <3>1 DEF Attribute, Instr
    <3>3. QED
      BY <2>2, <2>4, <3>2
  <2>5. QED
    BY <2>3, <2>4
<1>5. QED
  BY <1>2, <1>3, <1>4 DEF Stage, Over

(* The calls of a stage are those of functions of classfile.c. *)
LEMMA CallsAreNamed ==
  ASSUME Stage
  PROVE  /\ phase \in Phases
         /\ \A k \in 1 .. Len(stack) :
              stack[k].fn \in DOMAIN Script \cup {"parseConstantPool"}
<1> DEFINE OfClassFile(f) == f.fn \in DOMAIN Script \cup {"parseConstantPool"}
<1>1. "LoadClassFile" \in DOMAIN Script
  BY DEF Script
<1>2. \A f \in LoaderCalls \cup LoopCalls \cup PoolCalls \cup MemberCalls : OfClassFile(f)
  BY <1>1, FunctionNames, ParserNames DEF Members
<1>3. ASSUME PoolStack(stack) \/ MemberStack(stack), NEW k \in 1 .. Len(stack)
      PROVE  OfClassFile(stack[k])
  <2>1. stack[k] \in LoaderCalls \cup LoopCalls \cup PoolCalls \cup MemberCalls
    BY <1>3 DEF PoolStack, MemberStack
  <2>2. QED
    BY <2>1, <1>2
<1>4. ASSUME Begins, NEW k \in 1 .. Len(stack)
      PROVE  OfClassFile(stack[k])
  <2>1. PICK p \in 1 .. 4, keep \in Nat :
          stack = <<ACall("LoadClassFile", Rest(p), keep)>>
    BY <1>4 DEF Begins
  <2>2. k = 1
    BY <2>1
  <2>3. stack[k].fn = "LoadClassFile"
    BY <2>1, <2>2, CallFields
  <2>4. QED
    BY <2>3, <1>1
<1>5. ASSUME stack = <<>>, NEW k \in 1 .. Len(stack)
      PROVE  OfClassFile(stack[k])
  <2>1. FALSE
    BY <1>5
  <2>2. QED
    BY <2>1
<1> HIDE DEF OfClassFile
<1>6. \A k \in 1 .. Len(stack) : OfClassFile(stack[k])
  BY <1>3, <1>4, <1>5 DEF Stage, InPool, InMembers, Over
<1>7. phase \in Phases
  BY DEF Stage, Begins, InPool, InMembers, Over, Running, Phases
<1>8. QED
  BY <1>6, <1>7 DEF OfClassFile

(* A read takes no more than there is. *)
LEMMA BytesTaken ==
  ASSUME left \in Nat, NEW w \in Nat, NEW wrote \in BOOLEAN,
         Delivers(w, wrote), Consume(w, wrote)
  PROVE  left' \in 0 .. left
<1>1. CASE wrote = TRUE
  <2>1. w <= left
    BY <1>1 DEF Delivers
  <2>2. left' = left - w
    BY <1>1 DEF Consume
  <2>3. QED
    BY <2>1, <2>2
<1>2. CASE wrote = FALSE
  BY <1>2 DEF Delivers, Consume
<1>3. QED
  BY <1>1, <1>2

(* The bytes left only get fewer.                                          *)
LEMMA StepLeft ==
  ASSUME Types, Stage, Next
  PROVE  left' \in 0 .. left /\ short' \in BOOLEAN /\ file' = file
<1>1. left \in Nat /\ short \in BOOLEAN
  BY FilesAssumption DEF Types
<1>2. ASSUME phase = "parsing", This.todo # <<>>, NEW wrote \in BOOLEAN,
             Delivers(Ins.w, wrote), Consume(Ins.w, wrote)
      PROVE  left' \in 0 .. left
  BY <1>1, <1>2, CallAtWork, BytesTaken
<1>3. ASSUME ReadRefused \/ ReadAccepted
      PROVE  left' \in 0 .. left /\ short' \in BOOLEAN /\ file' = file
  <2>1. phase = "parsing" /\ This.todo # <<>> /\ file' = file
    BY <1>3 DEF ReadRefused, ReadAccepted, Doing, ReadStored, ReadKept, ReadTested, ReadCount,
                ReadMembers, ReadPoolCount, ReadEntry, ReadVariant, ReadAttribute
  <2>2. (\E v : Accept(v)) \/ ReadRefused
    BY <1>3 DEF ReadAccepted, ReadStored, ReadKept, ReadTested, ReadCount,
                ReadMembers, ReadPoolCount, ReadEntry, ReadVariant, ReadAttribute
  <2>3. PICK wrote \in BOOLEAN :
          /\ Delivers(Ins.w, wrote) /\ Consume(Ins.w, wrote)
          /\ short' = (short \/ ~wrote)
    BY <2>2 DEF Accept, ReadRefused
  <2>4. QED
    BY <2>1, <2>3, <1>1, <1>2
<1>4. CASE SkipBytes
  <2>1. phase = "parsing" /\ This.todo # <<>>
    BY <1>4 DEF SkipBytes, Doing
  <2>2. This.keep \in Nat
    BY <2>1, CallAtWork
  <2>3. PICK keep \in Nat : keep = This.keep
    BY <2>2
  <2>4. /\ left' = (IF keep <= left THEN left - keep ELSE 0) \/ left' = left
        /\ short' \in BOOLEAN /\ file' = file
    BY <2>3, <1>1, <1>4 DEF SkipBytes
  <2>5. \A m, k \in Nat : /\ m \in 0 .. m /\ 0 \in 0 .. m
                          /\ k <= m => m - k \in 0 .. m
    OBVIOUS
  <2>6. QED
    BY <2>3, <2>4, <2>5, <1>1
<1>5. CASE Compute
  BY <1>1, <1>5 DEF Compute, StoreEntry, CallParser, Return, ReturnNothing, ReturnNull
<1>6. QED
  BY <1>3, <1>4, <1>5 DEF Next

(* The pool keeps its size and its entries their types.                    *)
LEMMA StepPoolTypes ==
  ASSUME Types, Stage, Next
  PROVE  /\ count' \in (UNION {f.poolCounts : f \in Files}) \cup {0}
         /\ DOMAIN pool' = 1 .. count' - 1
         /\ \A i \in DOMAIN pool' : pool'[i] \in PoolEntries
         /\ \A i \in DOMAIN pool' : pool'[i].tag = "Utf8" => pool'[i].text \in file.texts
<1> DEFINE counts == (UNION {f.poolCounts : f \in Files}) \cup {0}
           texts == (UNION {f.texts : f \in Files}) \cup {"none"}
           tags == DOMAIN EntryParser \cup {"none"}
<1>1. /\ count \in counts /\ DOMAIN pool = 1 .. count - 1 /\ file \in Files
      /\ \A i \in DOMAIN pool : pool[i] \in PoolEntries
      /\ \A i \in DOMAIN pool : pool[i].tag = "Utf8" => pool[i].text \in file.texts
  BY DEF Types
<1>2. file.poolCounts \cup {0} \subseteq counts /\ file.texts \cup {"none"} \subseteq texts
  BY <1>1
<1> HIDE DEF counts, texts, tags
<1>3. PoolEntries = [tag : tags, text : texts]
  BY DEF PoolEntries, texts, tags
<1>4. NoEntry \in PoolEntries /\ NoEntry.tag # "Utf8"
  BY <1>2, <1>3 DEF NoEntry, tags
<1>5. CASE ReadPoolCount
  <2>1. PICK n \in file.poolCounts \cup {0} :
          count' = n /\ pool' = [i \in 1 .. n - 1 |-> NoEntry]
    BY <1>5 DEF ReadPoolCount
  <2>2. QED
    BY <2>1, <1>2, <1>4 DEF counts
<1>6. CASE StoreEntry
  <2>1. PICK text \in file.texts \cup {"none"} :
          /\ pool' = [pool EXCEPT ![Ins.arg] = [tag |-> Ins.what, text |-> text]]
          /\ Ins.what = "Utf8" => text \in file.texts
    BY <1>6 DEF StoreEntry
  <2>2. Ins.what \in tags
    BY <1>6, CallAtWork DEF StoreEntry, Doing, tags
  <2>3. [tag |-> Ins.what, text |-> text] \in PoolEntries
    BY <2>1, <2>2, <1>2, <1>3
  <2>4. count' = count
    BY <1>6 DEF StoreEntry
  <2>5. QED
    <3>1. PICK entry : entry = [tag |-> Ins.what, text |-> text]
      OBVIOUS
    <3>2. entry \in PoolEntries /\ (entry.tag = "Utf8" => entry.text \in file.texts)
      BY <2>1, <2>3, <3>1
    <3>3. pool' = [pool EXCEPT ![Ins.arg] = entry]
      BY <2>1, <3>1
    <3>4. QED
      BY <2>4, <3>2, <3>3, <1>1 DEF counts
<1>7. CASE UNCHANGED <<pool, count>>
  BY <1>7, <1>1 DEF counts
<1>8. ReadPoolCount \/ StoreEntry \/ UNCHANGED <<pool, count>>
  BY DEF Next, ReadAccepted, Compute, ReadRefused, ReadStored, ReadKept, ReadTested, ReadCount,
         ReadMembers, ReadEntry, ReadVariant, ReadAttribute, SkipBytes, CallParser, Return,
         ReturnNothing, ReturnNull
<1>9. QED
  BY <1>5, <1>6, <1>7, <1>8

-----------------------------------------------------------------------------
(* The inductive invariant: the stage, and the types that do not follow    *)
(* from it.                                                                *)
Calls == Types /\ Stage

(* The loader begins at the first instruction.                             *)
LEMMA CallsInit == Init => Calls
<1> SUFFICES ASSUME Init
             PROVE  Calls
  OBVIOUS
<1>1. stack = <<ACall("LoadClassFile", Rest(1), 0)>>
  BY NewCalls DEF Init
<1>2. 1 \in 1 .. 4 /\ 0 \in Nat
  OBVIOUS
<1>3. Begins
  BY <1>1, <1>2 DEF Init, Begins, Running
<1>4. Stage
  BY <1>3 DEF Stage
<1>5. file \in Files /\ file.bytes \in Nat
  BY FilesAssumption DEF Init
<1>6. pool = <<>> /\ count = 0 /\ DOMAIN <<>> = 1 .. 0 - 1
  BY DEF Init
<1>7. left \in 0 .. file.bytes /\ short \in BOOLEAN
  <2>1. left = file.bytes /\ short = FALSE
    BY DEF Init
  <2>2. \A m \in Nat : m \in 0 .. m
    OBVIOUS
  <2>3. QED
    BY <2>1, <2>2, <1>5
<1>8. Types
  BY <1>5, <1>6, <1>7 DEF Types
<1>9. QED
  BY <1>4, <1>8 DEF Calls

(* Every step keeps the stage and the types.                               *)
LEMMA CallsStep == Calls /\ [Next]_vars => Calls'
<1> SUFFICES ASSUME Calls, [Next]_vars
             PROVE  Calls'
  OBVIOUS
<1>1. CASE Next
  <2>1. /\ Types /\ Stage /\ file \in Files /\ short \in BOOLEAN
        /\ DOMAIN pool = 1 .. count - 1
    BY DEF Calls, Types
  <2>2. count \in Nat
    BY FilesAssumption DEF Calls, Types
  <2>3. PoolTyped
    BY <2>1 DEF Types, PoolTyped
  <2>4. Stage'
    BY <1>1, <2>1, <2>2, <2>3, StepBegins, StepPool, StepMembers, StepOver DEF Stage
  <2>5. left' \in 0 .. left /\ short' \in BOOLEAN /\ file' = file
    BY <1>1, <2>1, StepLeft
  <2>6. left' \in 0 .. file'.bytes
    <3>1. \A m, n \in Nat : \A l \in 0 .. m : m \in 0 .. n => l \in 0 .. n
      OBVIOUS
    <3>2. file.bytes \in Nat /\ left \in 0 .. file.bytes /\ left \in Nat
      BY <2>1, FilesAssumption DEF Types
    <3>3. QED
      BY <2>5, <3>1, <3>2
  <2>7. /\ count' \in (UNION {f.poolCounts : f \in Files}) \cup {0}
        /\ DOMAIN pool' = 1 .. count' - 1
        /\ \A i \in DOMAIN pool' : pool'[i] \in PoolEntries
        /\ \A i \in DOMAIN pool' : pool'[i].tag = "Utf8" => pool'[i].text \in file.texts
    BY <1>1, <2>1, StepPoolTypes
  <2>8. Types'
    BY <2>1, <2>5, <2>6, <2>7 DEF Types
  <2>9. QED
    BY <2>4, <2>8 DEF Calls
<1>2. CASE UNCHANGED vars
  <2>1. Types'
    BY <1>2 DEF Calls, Types, vars
  <2>2. Stage'
    BY <1>2 DEF Calls, Stage, Begins, InPool, InMembers, Over, Running, PoolUpTo, LoopAt,
                WholePool, Shadow, CrashHasAReason, This, vars
  <2>3. QED
    BY <2>1, <2>2 DEF Calls
<1>3. QED
  BY <1>1, <1>2

(* The stages and the types are an invariant of the loader.                *)
THEOREM CallsInductive == Spec => []Calls
<1>1. QED
  BY CallsInit, CallsStep, PTL DEF Spec

-----------------------------------------------------------------------------
(* What a step does to the calls below the last one.  Each stays what it   *)
(* is; only parseAttributes, which calls the parser of the name, also has  *)
(* to remember what it called it for.                                      *)
LEMMA CallsAreRecords ==
  ASSUME Stage, Running
  PROVE  /\ Len(stack) \in Nat /\ Len(stack) >= 1
         /\ stack \in Seq({stack[k] : k \in 1 .. Len(stack)})
         /\ \A k \in 1 .. Len(stack) :
              stack[k] = ACall(stack[k].fn, stack[k].todo, stack[k].keep)
         /\ InMembers \/ \A k \in 1 .. Len(stack) : stack[k].fn # "parseAttributes"
<1> DEFINE record(f) == f = ACall(f.fn, f.todo, f.keep)
<1>1. \A f \in LoaderCalls \cup LoopCalls \cup PoolCalls \cup MemberCalls : record(f)
  BY DEF LoaderCalls, LoopCalls, PoolCalls, MemberCalls, CallsOf, ACall
<1>2. \A f \in LoaderCalls \cup LoopCalls \cup PoolCalls : f.fn # "parseAttributes"
  BY FunctionNames, ParserNames
<1> HIDE DEF record
<1>3. \A T : \A r \in Seq(T) : r \in Seq({r[k] : k \in 1 .. Len(r)})
  OBVIOUS
<1>4. CASE Begins
  <2>1. PICK p \in 1 .. 4, keep \in Nat :
          stack = <<ACall("LoadClassFile", Rest(p), keep)>>
    BY <1>4 DEF Begins
  <2>2. PICK call : call = ACall("LoadClassFile", Rest(p), keep)
    OBVIOUS
  <2>3. record(call) /\ call.fn = "LoadClassFile"
    BY <2>2, CallFields DEF record
  <2>4. /\ stack \in Seq({call}) /\ Len(stack) = 1
        /\ \A k \in 1 .. Len(stack) : stack[k] = call
    BY <2>1, <2>2
  <2>5. QED
    BY <2>3, <2>4, <1>3 DEF record
<1>5. CASE InPool
  <2>1. stack \in Seq(LoaderCalls \cup LoopCalls \cup PoolCalls) /\ Len(stack) >= 2
    BY <1>5 DEF InPool, PoolStack
  <2>2. \A k \in 1 .. Len(stack) : stack[k] \in LoaderCalls \cup LoopCalls \cup PoolCalls
    BY <2>1
  <2>3. Len(stack) \in Nat /\ Len(stack) >= 1
    BY <2>1
  <2>4. QED
    BY <2>1, <2>2, <2>3, <1>1, <1>2, <1>3 DEF record
<1>6. CASE InMembers
  <2>1. stack \in Seq(LoaderCalls \cup MemberCalls) /\ Len(stack) >= 1
    BY <1>6 DEF InMembers, MemberStack
  <2>2. \A k \in 1 .. Len(stack) : stack[k] \in LoaderCalls \cup MemberCalls
    BY <2>1
  <2>3. Len(stack) \in Nat
    BY <2>1
  <2>4. QED
    BY <2>1, <2>2, <2>3, <1>1, <1>3, <1>6 DEF record
<1>7. QED
  BY <1>4, <1>5, <1>6 DEF Stage, Over, Running

-----------------------------------------------------------------------------
(* What each step does to the C stack, whatever is on it: the running call *)
(* goes on with other code, it calls a function, or it returns.            *)
IsCall(f)  == f \in [fn : {f.fn}, todo : {f.todo}, keep : {f.keep}]
IsStack(s) == /\ s \in Seq({s[k] : k \in 1 .. Len(s)})
              /\ \A k \in 1 .. Len(s) : IsCall(s[k])

Went(code) ==
  /\ Len(stack') = Len(stack)
  /\ \A k \in 1 .. Len(stack) - 1 : stack'[k] = stack[k]
  /\ stack'[Len(stack)].fn = This.fn
  /\ stack'[Len(stack)].todo = code \o Tail(This.todo)

Entered(code, call) ==
  /\ Len(stack') = Len(stack) + 1
  /\ \A k \in 1 .. Len(stack) - 1 : stack'[k] = stack[k]
  /\ stack'[Len(stack)].fn = This.fn
  /\ stack'[Len(stack)].todo = code \o Tail(This.todo)
  /\ stack'[Len(stack) + 1] = call

Recoded(f, todo) == [f EXCEPT !.todo = todo]
Keeping(f, v)    == [f EXCEPT !.keep = v]

Returned ==
  /\ Len(stack') = Len(stack) - 1
  /\ \A k \in 1 .. Len(stack) - 1 : stack'[k] = stack[k]

(* A sequence is one over its own elements. *)
LEMMA OwnElements == \A T : \A r \in Seq(T) : r \in Seq({r[k] : k \in 1 .. Len(r)})
  OBVIOUS

(* A call with other code. *)
LEMMA CallRecoded ==
  ASSUME NEW f, IsCall(f), NEW todo
  PROVE  IsCall(Recoded(f, todo)) /\ Recoded(f, todo).fn = f.fn /\ Recoded(f, todo).todo = todo
<1> DEFINE fn == f.fn  old == f.todo  keep == f.keep  g == Recoded(f, todo)
<1>1. f \in [fn : {fn}, todo : {old}, keep : {keep}]
  BY DEF IsCall
<1> HIDE DEF fn, old, keep
<1>2. g \in [fn : {fn}, todo : {todo}, keep : {keep}]
  BY <1>1 DEF Recoded
<1> HIDE DEF g
<1>3. QED
  BY <1>2 DEF IsCall, fn, g

(* A call with another kept value. *)
LEMMA CallKeeping ==
  ASSUME NEW f, IsCall(f), NEW v
  PROVE  IsCall(Keeping(f, v)) /\ Keeping(f, v).fn = f.fn /\ Keeping(f, v).todo = f.todo
<1> DEFINE fn == f.fn  todo == f.todo  keep == f.keep  g == Keeping(f, v)
<1>1. f \in [fn : {fn}, todo : {todo}, keep : {keep}]
  BY DEF IsCall
<1> HIDE DEF fn, todo, keep
<1>2. g \in [fn : {fn}, todo : {todo}, keep : {v}]
  BY <1>1 DEF Keeping
<1> HIDE DEF g
<1>3. QED
  BY <1>2 DEF IsCall, fn, todo, g

(* The running call with new code and a new kept value, and a call on top. *)
LEMMA StackShapes ==
  ASSUME IsStack(stack), Len(stack) >= 1, NEW code, NEW v, NEW call, IsCall(call)
  PROVE  LET s    == Goto(code)
             kept == [s EXCEPT ![Len(stack)].keep = v]
             more == Append(s, call)
         IN
         /\ stack' = s => Went(code) /\ IsStack(stack')
         /\ stack' = kept => Went(code) /\ IsStack(stack')
         /\ stack' = more => Entered(code, call) /\ IsStack(stack')
         /\ stack' = [more EXCEPT ![Len(stack)].keep = v]
              => Entered(code, call) /\ IsStack(stack')
         /\ stack' = Caller => Returned /\ IsStack(stack')
<1> DEFINE n == Len(stack)
           todo == code \o Tail(This.todo)
           top == Recoded(This, todo)
           top2 == Keeping(top, v)
           S == {stack[k] : k \in 1 .. n} \cup {top, top2, call}
<1>1. stack \in Seq(S) /\ n \in Nat /\ n >= 1 /\ n \in 1 .. n /\ n \in DOMAIN stack
  BY DEF IsStack
<1>2. This = stack[n] /\ IsCall(This)
  BY <1>1 DEF This, IsStack
<1>3. /\ IsCall(top) /\ top.fn = This.fn /\ top.todo = todo
      /\ IsCall(top2) /\ top2.fn = This.fn /\ top2.todo = todo
  <2>1. IsCall(This)
    BY <1>2
  <2>2. IsCall(top) /\ top.fn = This.fn /\ top.todo = todo
    BY <2>1, CallRecoded
  <2> HIDE DEF top, todo
  <2>3. IsCall(top2) /\ top2.fn = top.fn /\ top2.todo = top.todo
    BY <2>2, CallKeeping
  <2>4. QED
    BY <2>2, <2>3
<1>4. Goto(code) = [stack EXCEPT ![n] = top]
  BY <1>1, <1>2 DEF Goto, Recoded
<1>5. \A s : s[n] = top /\ n \in DOMAIN s
             => [s EXCEPT ![n].keep = v] = [s EXCEPT ![n] = top2]
  BY DEF Keeping
<1>6. top \in S /\ top2 \in S /\ call \in S
  OBVIOUS
<1> HIDE DEF top, top2, todo
<1>7. \A k \in 1 .. n : IsCall(stack[k])
  BY DEF IsStack
<1> HIDE DEF S
<1>8. PICK s : s = Goto(code)
  OBVIOUS
<1>9. /\ s \in Seq(S) /\ Len(s) = n /\ s[n] = top
      /\ \A k \in 1 .. n - 1 : s[k] = stack[k]
  BY <1>1, <1>4, <1>6, <1>8, LastChanged
<1>10. PICK kept : kept = [s EXCEPT ![n].keep = v]
  OBVIOUS
<1>11. /\ kept \in Seq(S) /\ Len(kept) = n /\ kept[n] = top2
       /\ \A k \in 1 .. n - 1 : kept[k] = stack[k]
  <2>1. kept = [s EXCEPT ![n] = top2]
    BY <1>1, <1>5, <1>9, <1>10
  <2>2. /\ kept \in Seq(S) /\ Len(kept) = n /\ kept[n] = top2
        /\ \A k \in 1 .. n - 1 : kept[k] = s[k]
    BY <2>1, <1>1, <1>6, <1>9, LastChanged
  <2>3. QED
    BY <2>2, <1>9
<1>12. PICK more : more = Append(s, call)
  OBVIOUS
<1>13. /\ more \in Seq(S) /\ Len(more) = n + 1 /\ more[n + 1] = call /\ more[n] = top
       /\ \A k \in 1 .. n - 1 : more[k] = stack[k]
  <2>1. /\ more \in Seq(S) /\ Len(more) = n + 1 /\ more[n + 1] = call
        /\ \A k \in 1 .. n : more[k] = s[k]
    BY <1>6, <1>9, <1>12, OneMore
  <2>2. QED
    BY <2>1, <1>1, <1>9
<1>14. PICK moreKept : moreKept = [more EXCEPT ![n].keep = v]
  OBVIOUS
<1>15. /\ moreKept \in Seq(S) /\ Len(moreKept) = n + 1
       /\ moreKept[n + 1] = call /\ moreKept[n] = top2
       /\ \A k \in 1 .. n - 1 : moreKept[k] = stack[k]
  <2>1. n \in DOMAIN more
    BY <1>1, <1>13
  <2>2. moreKept = [more EXCEPT ![n] = top2]
    BY <2>1, <1>5, <1>13, <1>14
  <2>3. /\ moreKept \in Seq(S) /\ Len(moreKept) = n + 1 /\ moreKept[n + 1] = more[n + 1]
        /\ moreKept[n] = top2 /\ \A k \in 1 .. n - 1 : moreKept[k] = more[k]
    BY <2>2, <1>1, <1>6, <1>13, ElementChanged
  <2>4. QED
    BY <2>3, <1>13
<1>16. PICK less : less = Caller
  OBVIOUS
<1>17. less \in Seq(S) /\ Len(less) = n - 1 /\ \A k \in 1 .. n - 1 : less[k] = stack[k]
  BY <1>1, <1>16, OneLess DEF Caller
<1> HIDE DEF n
<1>18. \A r : /\ r \in Seq(S) /\ \A k \in 1 .. Len(r) : IsCall(r[k])
              => IsStack(r)
  BY OwnElements DEF IsStack
<1>19. \A m \in Nat : \A k \in 1 .. m + 1 : k \in 1 .. m - 1 \/ k = m \/ k = m + 1
  OBVIOUS
<1>20. \A m \in Nat : \A k \in 1 .. m : k \in 1 .. m - 1 \/ k = m
  OBVIOUS
<1>21. \A m \in Nat : \A k \in 1 .. m - 1 : k \in 1 .. m
  OBVIOUS
<1>22. IsStack(s) /\ IsStack(kept)
  <2>1. \A k \in 1 .. n : IsCall(s[k]) /\ IsCall(kept[k])
    BY <1>1, <1>3, <1>7, <1>9, <1>11, <1>20, <1>21
  <2>2. QED
    BY <2>1, <1>9, <1>11, <1>18
<1>23. IsStack(more) /\ IsStack(moreKept)
  <2>1. \A k \in 1 .. n + 1 : IsCall(more[k]) /\ IsCall(moreKept[k])
    BY <1>1, <1>3, <1>7, <1>13, <1>15, <1>19, <1>21
  <2>2. QED
    BY <2>1, <1>13, <1>15, <1>18
<1>24. IsStack(less)
  <2>1. \A k \in 1 .. n - 1 : IsCall(less[k])
    BY <1>1, <1>7, <1>17, <1>21
  <2>2. QED
    BY <2>1, <1>17, <1>18
<1>25. stack' = s => Went(code) /\ IsStack(stack')
  BY <1>3, <1>9, <1>22 DEF Went, n, todo
<1>26. stack' = kept => Went(code) /\ IsStack(stack')
  BY <1>3, <1>11, <1>22 DEF Went, n, todo
<1>27. stack' = more => Entered(code, call) /\ IsStack(stack')
  BY <1>3, <1>13, <1>23 DEF Entered, n, todo
<1>28. stack' = moreKept => Entered(code, call) /\ IsStack(stack')
  BY <1>3, <1>15, <1>23 DEF Entered, n, todo
<1>29. stack' = less => Returned /\ IsStack(stack')
  BY <1>17, <1>24 DEF Returned, n
<1>30. QED
  BY <1>8, <1>10, <1>12, <1>14, <1>16, <1>25, <1>26, <1>27, <1>28, <1>29 DEF n

(* A call that begins is a call. *)
LEMMA NewCallsAreCalls ==
  ASSUME NEW fn, NEW todo, NEW n
  PROVE  IsCall(Frame(fn, n)) /\ IsCall(ACall(fn, todo, 0)) /\ ACall(fn, todo, 0).todo = todo
  BY DEF IsCall, Frame, ACall

(* What an accepted read is followed by in the same call ... *)
Continues(v, code) ==
  /\ Accept(v)
  /\ \/ Ins.op \in {"u", "keep", "test"} /\ code = <<>>
     \/ /\ Ins.op \in {"blob", "many", "many1"}
        /\ v \in file.counts \cup {0} /\ code = Loop(v)
     \/ Ins.op = "select" /\ v \in DOMAIN Ins.arg /\ code = Ins.arg[v]

(* ... and the calls there are: of a function, with the count of its loop, *)
(* of the loop over the pool, of an entry's parser and of an attribute's.  *)
Begun(code, call) ==
  \/ /\ Ins.op = "call" /\ left' = left
     /\ code = <<>> /\ call = Frame(Ins.arg, 1)
  \/ /\ Ins.op = "callN" /\ code = <<>>
     /\ \E n \in file.counts \cup {0} : Accept(n) /\ call = Frame(Ins.arg, n)
  \/ /\ Ins.op = "pool" /\ code = <<>>
     /\ \E n \in file.poolCounts \cup {0} :
          /\ Accept(n) /\ count' = n
          /\ call = ACall("parseConstantPool", Entries(1, n), 0)
  \/ /\ Ins.op = "entry"
     /\ \E tag \in (file.tags \cup {"other"}) \cap DOMAIN EntryParser :
          /\ Accept(tag)
          /\ code = <<Store(Ins.arg, tag)>> /\ call = Frame(EntryParser[tag], 1)
  \/ /\ Ins.op = "attribute" /\ code = <<>>
     /\ \E i \in file.names :
          /\ Accept(i) /\ ~(i = 0 \/ i >= count)
          /\ \E text \in Texts(pool[i]) \ {"crash"} : \E name \in Named(text) :
               call = Frame(AttributeParser[name], 1)

(* The step of a call at an instruction: it gives up, or goes on.          *)
Stops    == stack' = stack /\ phase' \in {"null", "crashed"}
Proceeds == phase' = "parsing" /\ \E v, code : Continues(v, code) /\ Went(code)
Invokes  == phase' = "parsing" /\ \E code, call : Begun(code, call) /\ Entered(code, call)
Skips    == /\ Ins.op = "skip" /\ phase' = "parsing" /\ Went(<<>>)
            /\ left' = IF This.keep <= left THEN left - This.keep ELSE 0
Stores   == /\ Ins.op = "store" /\ phase' = "parsing" /\ left' = left
            /\ Went(Entries(Ins.arg + (IF Wide(Ins.what) THEN 2 ELSE 1), count))

(* There is no other step at an instruction. *)
LEMMA InstructionShapes ==
  ASSUME IsStack(stack), Len(stack) >= 1, phase = "parsing", This.todo # <<>>, Next
  PROVE  /\ Stops \/ Proceeds \/ Invokes \/ Skips \/ Stores
         /\ IsStack(stack')
<1> DEFINE going == Stops \/ Proceeds \/ Invokes \/ Skips \/ Stores
           goal == going /\ IsStack(stack')
<1>1. ASSUME stack' = stack, phase' \in {"null", "crashed"}
      PROVE  goal
  BY <1>1 DEF Stops, IsStack
<1>2. ASSUME NEW v, NEW code, Continues(v, code), phase' = "parsing",
             \/ stack' = Goto(code)
             \/ \E w : stack' = [Goto(code) EXCEPT ![Len(stack)].keep = w]
      PROVE  goal
  <2>1. PICK call : IsCall(call)
    BY NewCallsAreCalls
  <2>2. Went(code) /\ IsStack(stack')
    BY <1>2, <2>1, StackShapes
  <2>3. QED
    BY <1>2, <2>2 DEF Proceeds
<1>3. ASSUME NEW code, NEW call, Begun(code, call), IsCall(call), phase' = "parsing",
             \/ stack' = Append(Goto(code), call)
             \/ \E w : stack' = [Append(Goto(code), call) EXCEPT ![Len(stack)].keep = w]
      PROVE  goal
  <2>1. Entered(code, call) /\ IsStack(stack')
    BY <1>3, StackShapes
  <2>2. QED
    BY <1>3, <2>1 DEF Invokes
<1>4. ASSUME NEW code, stack' = Goto(code)
      PROVE  Went(code) /\ IsStack(stack')
  <2>1. PICK call : IsCall(call)
    BY NewCallsAreCalls
  <2>2. QED
    BY <1>4, <2>1, StackShapes
<1> SUFFICES goal
  OBVIOUS
<1> HIDE DEF goal
<1>5. CASE ReadRefused
  <2>1. stack' = stack /\ phase' = "null"
    BY <1>5 DEF ReadRefused
  <2>2. QED
    BY <2>1, <1>1
<1>6. CASE Ins.op = "u" /\ ReadStored
  <2>1. Continues(0, <<>>) /\ stack' = Goto(<<>>) /\ phase' = "parsing"
    BY <1>6 DEF ReadStored, Continues
  <2>2. QED
    BY <2>1, <1>2
<1>7. CASE Ins.op = "keep" /\ ReadKept
  <2>1. PICK v : /\ Accept(v) /\ stack' = [Goto(<<>>) EXCEPT ![Len(stack)].keep = v]
                 /\ phase' = "parsing"
    BY <1>7 DEF ReadKept
  <2>2. Continues(v, <<>>)
    BY <1>7, <2>1 DEF Continues
  <2>3. QED
    BY <2>1, <2>2, <1>2
<1>8. CASE Ins.op = "test" /\ ReadTested
  <2>1. PICK v : /\ Accept(v)
                 /\ \/ stack' = Goto(<<>>) /\ phase' = phase
                    \/ stack' = stack /\ phase' = "null"
    BY <1>8 DEF ReadTested
  <2>2. Continues(v, <<>>)
    BY <1>8, <2>1 DEF Continues
  <2>3. QED
    BY <2>1, <2>2, <1>1, <1>2
<1>9. CASE Ins.op \in {"blob", "many", "many1"} /\ ReadCount
  <2>1. PICK n \in file.counts \cup {0} : Accept(n) /\ stack' = Goto(Loop(n)) /\ phase' = "parsing"
    BY <1>9 DEF ReadCount
  <2>2. Continues(n, Loop(n))
    BY <1>9, <2>1 DEF Continues
  <2>3. QED
    BY <2>1, <2>2, <1>2
<1>10. CASE Ins.op = "select" /\ ReadVariant
  <2>1. PICK tag : /\ Accept(tag)
                   /\ \/ /\ tag \in DOMAIN Ins.arg
                         /\ stack' = Goto(Ins.arg[tag]) /\ phase' = "parsing"
                      \/ stack' = stack /\ phase' = "null"
    BY <1>10 DEF ReadVariant
  <2>2. CASE tag \in DOMAIN Ins.arg /\ stack' = Goto(Ins.arg[tag]) /\ phase' = "parsing"
    <3>1. Continues(tag, Ins.arg[tag])
      BY <1>10, <2>1, <2>2 DEF Continues
    <3>2. QED
      BY <2>2, <3>1, <1>2
  <2>3. QED
    BY <2>1, <2>2, <1>1
<1>11. CASE Ins.op = "callN" /\ ReadMembers
  <2>1. PICK n \in file.counts \cup {0} :
          Accept(n) /\ stack' = Enter(<<>>, Ins.arg, n) /\ phase' = "parsing"
    BY <1>11 DEF ReadMembers
  <2>2. Begun(<<>>, Frame(Ins.arg, n))
    BY <1>11, <2>1 DEF Begun
  <2>3. stack' = Append(Goto(<<>>), Frame(Ins.arg, n))
    BY <2>1 DEF Enter
  <2>4. QED
    BY <2>1, <2>2, <2>3, <1>3, NewCallsAreCalls
<1>12. CASE Ins.op = "pool" /\ ReadPoolCount
  <2>1. PICK n \in file.poolCounts \cup {0} :
          /\ Accept(n) /\ count' = n /\ phase' = "parsing"
          /\ stack' = Append(Goto(<<>>), ACall("parseConstantPool", Entries(1, n), 0))
    BY <1>12 DEF ReadPoolCount, ACall
  <2>2. Begun(<<>>, ACall("parseConstantPool", Entries(1, n), 0))
    BY <1>12, <2>1 DEF Begun
  <2>3. QED
    BY <2>1, <2>2, <1>3, NewCallsAreCalls
<1>13. CASE Ins.op = "entry" /\ ReadEntry
  <2>1. PICK tag \in file.tags \cup {"other"} :
          /\ Accept(tag)
          /\ \/ /\ tag \in DOMAIN EntryParser /\ phase' = "parsing"
                /\ stack' = Enter(<<Store(Ins.arg, tag)>>, EntryParser[tag], 1)
             \/ stack' = stack /\ phase' = "null"
    BY <1>13 DEF ReadEntry
  <2>2. CASE stack' = stack /\ phase' = "null"
    BY <2>2, <1>1
  <2>3. CASE /\ tag \in DOMAIN EntryParser /\ phase' = "parsing"
             /\ stack' = Enter(<<Store(Ins.arg, tag)>>, EntryParser[tag], 1)
    <3>1. Begun(<<Store(Ins.arg, tag)>>, Frame(EntryParser[tag], 1))
      BY <1>13, <2>1, <2>3 DEF Begun
    <3>2. stack' = Append(Goto(<<Store(Ins.arg, tag)>>), Frame(EntryParser[tag], 1))
      BY <2>3 DEF Enter
    <3>3. QED
      BY <2>3, <3>1, <3>2, <1>3, NewCallsAreCalls
  <2>4. QED
    BY <2>1, <2>2, <2>3
<1>14. CASE Ins.op = "attribute" /\ ReadAttribute
  <2>1. PICK i \in file.names :
          /\ Accept(i)
          /\ \/ stack' = stack /\ phase' \in {"null", "crashed"}
             \/ /\ ~(i = 0 \/ i >= count) /\ phase' = "parsing"
                /\ \E text \in Texts(pool[i]) \ {"crash"} : \E name \in Named(text) :
                     stack' = [Enter(<<>>, AttributeParser[name], 1)
                                 EXCEPT ![Len(stack)].keep = i]
    <3>1. PICK i \in file.names :
            /\ Accept(i)
            /\ IF i = 0 \/ i >= count
               THEN stack' = stack /\ phase' = "null"
               ELSE \E text \in Texts(pool[i]) :
                      \/ stack' = stack /\ phase' = "crashed"
                      \/ /\ text # "crash" /\ phase' = phase
                         /\ \E name \in Named(text) :
                              stack' = [Enter(<<>>, AttributeParser[name], 1)
                                          EXCEPT ![Len(stack)].keep = i]
                      \/ stack' = stack /\ phase' = "null"
      BY <1>14, Zenon DEF ReadAttribute
    <3>2. CASE i = 0 \/ i >= count
      BY <3>1, <3>2
    <3>3. CASE ~(i = 0 \/ i >= count)
      <4>1. PICK text \in Texts(pool[i]) :
              \/ stack' = stack /\ phase' = "crashed"
              \/ /\ text # "crash" /\ phase' = phase
                 /\ \E name \in Named(text) :
                      stack' = [Enter(<<>>, AttributeParser[name], 1)
                                  EXCEPT ![Len(stack)].keep = i]
              \/ stack' = stack /\ phase' = "null"
        BY <3>1, <3>3
      <4>2. QED
        BY <3>1, <3>3, <4>1, Zenon
    <3>4. QED
      BY <3>2, <3>3
  <2>2. CASE stack' = stack /\ phase' \in {"null", "crashed"}
    BY <2>2, <1>1
  <2>3. CASE /\ ~(i = 0 \/ i >= count) /\ phase' = "parsing"
             /\ \E text \in Texts(pool[i]) \ {"crash"} : \E name \in Named(text) :
                  stack' = [Enter(<<>>, AttributeParser[name], 1)
                              EXCEPT ![Len(stack)].keep = i]
    <3>1. PICK text \in Texts(pool[i]) \ {"crash"} : \E name \in Named(text) :
            stack' = [Enter(<<>>, AttributeParser[name], 1) EXCEPT ![Len(stack)].keep = i]
      BY <2>3
    <3>2. PICK name \in Named(text) :
            stack' = [Enter(<<>>, AttributeParser[name], 1) EXCEPT ![Len(stack)].keep = i]
      BY <3>1
    <3>3. Begun(<<>>, Frame(AttributeParser[name], 1))
      BY <1>14, <2>1, <2>3, <3>2 DEF Begun
    <3>4. stack' = [Append(Goto(<<>>), Frame(AttributeParser[name], 1))
                      EXCEPT ![Len(stack)].keep = i]
      BY <3>2 DEF Enter
    <3>5. QED
      BY <2>3, <3>3, <3>4, <1>3, NewCallsAreCalls
  <2>4. QED
    BY <2>1, <2>2, <2>3
<1>15. CASE Ins.op = "call" /\ CallParser
  <2>1. Begun(<<>>, Frame(Ins.arg, 1)) /\ phase' = "parsing"
    BY <1>15 DEF CallParser, Begun
  <2>2. stack' = Append(Goto(<<>>), Frame(Ins.arg, 1))
    BY <1>15 DEF CallParser, Enter
  <2>3. QED
    BY <2>1, <2>2, <1>3, NewCallsAreCalls
<1>16. CASE Ins.op = "skip" /\ SkipBytes
  <2>1. \/ /\ stack' = Goto(<<>>) /\ phase' = "parsing"
           /\ left' = IF This.keep <= left THEN left - This.keep ELSE 0
        \/ stack' = stack /\ phase' = "null"
    BY <1>16 DEF SkipBytes
  <2>2. QED
    BY <2>1, <1>1, <1>4, <1>16 DEF Skips, goal
<1>17. CASE Ins.op = "store" /\ StoreEntry
  <2>1. /\ stack' = Goto(Entries(Ins.arg + (IF Wide(Ins.what) THEN 2 ELSE 1), count))
        /\ phase' = "parsing" /\ left' = left
    BY <1>17 DEF StoreEntry
  <2>2. QED
    BY <2>1, <1>4, <1>17 DEF Stores, goal
<1>18. QED
  BY InstructionStep, <1>5, <1>6, <1>7, <1>8, <1>9, <1>10, <1>11, <1>12, <1>13, <1>14,
     <1>15, <1>16, <1>17

(* The steps with no instruction: a return, or one with a NULL.            *)
LEMMA ReturnShapes ==
  ASSUME IsStack(stack), Len(stack) >= 1, Next,
         phase = "null" \/ (phase = "parsing" /\ This.todo = <<>>)
  PROVE  /\ left' = left /\ IsStack(stack')
         /\ \/ Returned /\ phase = "parsing"
               /\ phase' = (IF Len(stack) = 1 THEN "loaded" ELSE "parsing")
            \/ Returned /\ phase = "null" /\ phase' # "parsing" /\ phase' # "loaded"
            \/ Stops /\ phase' = "null"
<1>1. Return \/ ReturnNothing \/ ReturnNull
  BY NullStep, ReturnStep
<1>2. PICK call : IsCall(call)
  BY NewCallsAreCalls
<1>3. stack' = Caller => Returned /\ IsStack(stack')
  BY <1>2, StackShapes
<1>4. CASE Return
  BY <1>3, <1>4 DEF Return
<1>5. CASE ReturnNothing
  BY <1>5 DEF ReturnNothing, Stops
<1>6. CASE ReturnNull
  BY <1>3, <1>6 DEF ReturnNull
<1>7. QED
  BY <1>1, <1>4, <1>5, <1>6

-----------------------------------------------------------------------------
(* r is the stack with only its last call changed, or one more, or less. *)
CallersKept(r) ==
  \A k \in 1 .. Len(r) - 1 :
    /\ k \in 1 .. Len(stack) /\ r[k].fn = stack[k].fn
    /\ stack[k].fn = "parseAttributes" =>
         /\ k \in 1 .. Len(stack) - 1
         /\ r[k].keep = stack[k].keep /\ r[k + 1].fn = stack[k + 1].fn

(* Changing, adding and dropping the last call keeps those below.          *)
LEMMA BelowTop ==
  ASSUME NEW T, stack \in Seq(T), Len(stack) >= 1, NEW top, top.fn = This.fn
  PROVE  /\ CallersKept(stack)
         /\ CallersKept(WithTop(stack, top))
         /\ This.fn # "parseAttributes" =>
              \A call : CallersKept(Append(WithTop(stack, top), call))
         /\ CallersKept(Caller)
<1> DEFINE n == Len(stack)
           S == T \cup {top}
<1>1. n \in Nat /\ n >= 1 /\ stack \in Seq(S) /\ stack[n] = This
  BY DEF This
<1>2. PICK r : r = WithTop(stack, top)
  OBVIOUS
<1>3. /\ r \in Seq(S) /\ Len(r) = n /\ r[n] = top
      /\ \A k \in 1 .. n - 1 : r[k] = stack[k]
  BY <1>1, <1>2, LastChanged DEF WithTop
<1> HIDE DEF n
<1>4. \A m \in Nat : \A k \in 1 .. m - 1 :
        k \in 1 .. m /\ k + 1 \in 1 .. m /\ (k + 1 = m \/ k + 1 \in 1 .. m - 1)
  OBVIOUS
<1>5. CallersKept(stack)
  BY <1>1, <1>4 DEF CallersKept, n
<1>6. \A k \in 1 .. n - 1 : r[k] = stack[k] /\ r[k + 1].fn = stack[k + 1].fn
  BY <1>1, <1>3, <1>4
<1>7. CallersKept(r)
  BY <1>1, <1>3, <1>4, <1>6 DEF CallersKept, n
<1>8. ASSUME This.fn # "parseAttributes", NEW call
      PROVE  CallersKept(Append(r, call))
  <2>1. r \in Seq(S \cup {call})
    BY <1>3
  <2>2. PICK t : t = Append(r, call)
    OBVIOUS
  <2>3. Len(t) = n + 1 /\ \A k \in 1 .. n : t[k] = r[k]
    BY <2>1, <2>2, <1>3, OneMore
  <2>4. \A m \in Nat : \A k \in 1 .. (m + 1) - 1 :
          k = m \/ (k \in 1 .. m - 1 /\ k + 1 \in 1 .. m /\ k \in 1 .. m)
    OBVIOUS
  <2>5. \A m \in Nat : m >= 1 => m \in 1 .. m
    OBVIOUS
  <2>6. SUFFICES ASSUME NEW k \in 1 .. Len(t) - 1
                 PROVE  /\ k \in 1 .. n /\ t[k].fn = stack[k].fn
                        /\ stack[k].fn = "parseAttributes" =>
                             /\ k \in 1 .. n - 1
                             /\ t[k].keep = stack[k].keep
                             /\ t[k + 1].fn = stack[k + 1].fn
    BY <2>2 DEF CallersKept, n
  <2>7. CASE k = n
    <3>1. t[k].fn = This.fn /\ stack[k].fn = This.fn /\ k \in 1 .. n
      BY <2>3, <2>5, <2>7, <1>1, <1>3
    <3>2. QED
      BY <3>1, <1>8
  <2>8. CASE k \in 1 .. n - 1 /\ k + 1 \in 1 .. n /\ k \in 1 .. n
    BY <2>3, <2>8, <1>6
  <2>9. QED
    BY <2>3, <2>4, <2>7, <2>8, <1>1
<1>9. CallersKept(Caller)
  <2>1. PICK t : t = Caller
    OBVIOUS
  <2>2. Len(t) = n - 1 /\ \A k \in 1 .. n - 1 : t[k] = stack[k]
    BY <2>1, <1>1, OneLess DEF Caller, n
  <2>3. \A m \in Nat : \A k \in 1 .. (m - 1) - 1 :
          k \in 1 .. m /\ k \in 1 .. m - 1 /\ k + 1 \in 1 .. m - 1
    OBVIOUS
  <2>4. CallersKept(t)
    BY <2>2, <2>3, <1>1 DEF CallersKept, n
  <2>5. QED
    BY <2>1, <2>4
<1>10. QED
  BY <1>2, <1>5, <1>7, <1>8, <1>9

(* So does every step but the call of an attribute's parser.               *)
LEMMA StepKeepsCalls ==
  ASSUME Types, Stage, Running, Next
  PROVE  \/ CallersKept(stack')
         \/ InMembers /\ phase = "parsing" /\ This.todo # <<>> /\ This.fn = "parseAttributes"
<1> DEFINE n == Len(stack)
<1>1. n \in Nat /\ n >= 1 /\ stack \in Seq({stack[k] : k \in 1 .. n}) /\ n \in DOMAIN stack
  BY CallsAreRecords
<1>2. This = ACall(This.fn, This.todo, This.keep)
  BY <1>1, CallsAreRecords DEF This
<1>3. /\ CallersKept(stack) /\ CallersKept(Caller)
      /\ \A top : top.fn = This.fn => CallersKept(WithTop(stack, top))
      /\ \A top, call : top.fn = This.fn /\ This.fn # "parseAttributes"
           => CallersKept(Append(WithTop(stack, top), call))
  BY <1>1, BelowTop
<1>4. ASSUME NEW code
      PROVE  \E top : top.fn = This.fn /\ Goto(code) = WithTop(stack, top)
  <2> DEFINE top == [This EXCEPT !.todo = code \o Tail(@)]
  <2>1. Goto(code) = WithTop(stack, top)
    BY DEF Goto, WithTop, This
  <2>2. top.fn = This.fn
    BY <1>2 DEF ACall
  <2>3. QED
    BY <2>1, <2>2
<1>5. ASSUME NEW code, NEW v
      PROVE  CallersKept([Goto(code) EXCEPT ![n].keep = v])
  <2> DEFINE mid == [This EXCEPT !.todo = code \o Tail(@)]
             top == [mid EXCEPT !.keep = v]
  <2>1. Goto(code) = [stack EXCEPT ![n] = mid]
    BY DEF Goto, This
  <2>2. [Goto(code) EXCEPT ![n].keep = v] = WithTop(stack, top)
    BY <2>1, <1>1 DEF WithTop
  <2>3. top.fn = This.fn
    BY <1>2 DEF ACall
  <2>4. QED
    BY <2>2, <2>3, <1>3
<1>6. CASE phase = "null"
  BY <1>3, <1>6, NullStep DEF ReturnNull
<1>7. CASE phase = "parsing" /\ This.todo = <<>>
  BY <1>3, <1>7, ReturnStep DEF Return, ReturnNothing
<1>8. CASE phase = "parsing" /\ This.todo # <<>> /\ This.fn = "parseAttributes"
  <2>1. \E k \in 1 .. n : stack[k].fn = "parseAttributes"
    BY <1>1, <1>8 DEF This
  <2>2. QED
    BY <2>1, <1>8, CallsAreRecords
<1>9. CASE phase = "parsing" /\ This.todo # <<>> /\ This.fn # "parseAttributes"
  <2>1. Ins.op # "attribute"
    BY <1>9, CallAtWork
  <2>2. \A code : CallersKept(Goto(code)) /\ \A call : CallersKept(Append(Goto(code), call))
    BY <1>3, <1>4, <1>9
  <2>3. CASE ReadRefused
    BY <2>3, <1>3 DEF ReadRefused
  <2>4. CASE ReadStored \/ ReadTested \/ ReadCount \/ StoreEntry \/ ReadVariant \/ SkipBytes
    BY <2>2, <2>4, <1>3
    DEF ReadStored, ReadTested, ReadCount, StoreEntry, ReadVariant, SkipBytes
  <2>5. CASE ReadMembers \/ ReadPoolCount \/ ReadEntry \/ CallParser
    BY <2>2, <2>5, <1>3 DEF ReadMembers, ReadPoolCount, ReadEntry, CallParser, Enter
  <2>6. CASE ReadKept
    <3>1. PICK v : stack' = [Goto(<<>>) EXCEPT ![n].keep = v]
      BY <2>6 DEF ReadKept
    <3>2. CallersKept([Goto(<<>>) EXCEPT ![n].keep = v])
      BY <1>5
    <3>3. QED
      BY <3>1, <3>2
  <2>7. QED
    BY <2>1, <2>3, <2>4, <2>5, <2>6, <1>9, InstructionStep
<1>10. QED
  BY <1>6, <1>7, <1>8, <1>9 DEF Running

(* The parser above parseAttributes is that of a name the text was found   *)
(* equal to.                                                               *)
Followed(fn, i) ==
  /\ i \in 1 .. count - 1
  /\ \E text \in Texts(pool[i]) : \E name \in Named(text) :
       text # "crash" /\ fn = AttributeParser[name]

NamesFollowed ==
  \A k \in 1 .. Len(stack) - 1 :
    stack[k].fn = "parseAttributes" => Followed(stack[k + 1].fn, stack[k].keep)

(* Every step keeps the parsers of the attributes those of their names.    *)
LEMMA StepNames ==
  ASSUME Types, Stage, NamesFollowed, Next
  PROVE  NamesFollowed'
<1>1. Running
  BY StepOver DEF Stage, Begins, InPool, InMembers
<1>2. file' = file /\ file \in Files /\ count \in Nat
  BY StepLeft, FilesAssumption DEF Types
<1>3. /\ Len(stack) \in Nat
      /\ InMembers \/ \A k \in 1 .. Len(stack) : stack[k].fn # "parseAttributes"
  BY <1>1, CallsAreRecords
<1>4. ASSUME InMembers
      PROVE  UNCHANGED <<pool, count>>
  <2>1. ~ReadPoolCount /\ ~StoreEntry
    BY <1>4, CallAtWork DEF ReadPoolCount, StoreEntry, Doing
  <2>2. QED
    BY <2>1
    DEF Next, ReadAccepted, Compute, ReadRefused, ReadStored, ReadKept, ReadTested,
        ReadCount, ReadMembers, ReadEntry, ReadVariant, ReadAttribute, SkipBytes,
        CallParser, Return, ReturnNothing, ReturnNull
<1>5. ASSUME UNCHANGED <<pool, count>>, NEW fn, NEW i, Followed(fn, i)
      PROVE  Followed(fn, i)'
  BY <1>2, <1>5 DEF Followed, Texts
<1>6. CASE CallersKept(stack')
  <2>1. SUFFICES ASSUME NEW k \in 1 .. Len(stack') - 1, stack'[k].fn = "parseAttributes",
                        NEW fn, NEW i, fn = stack'[k + 1].fn, i = stack'[k].keep
                 PROVE  Followed(fn, i)'
    BY DEF NamesFollowed, Followed, Texts
  <2>2. stack[k].fn = "parseAttributes" /\ k \in 1 .. Len(stack)
    BY <2>1, <1>6 DEF CallersKept
  <2>3. /\ k \in 1 .. Len(stack) - 1
        /\ stack'[k].keep = stack[k].keep /\ stack'[k + 1].fn = stack[k + 1].fn
    BY <2>1, <2>2, <1>6 DEF CallersKept
  <2>4. Followed(fn, i)
    BY <2>1, <2>2, <2>3 DEF NamesFollowed
  <2>5. UNCHANGED <<pool, count>>
    BY <2>2, <1>3, <1>4
  <2>6. QED
    BY <2>4, <2>5, <1>5
<1>7. CASE InMembers /\ phase = "parsing" /\ This.todo # <<>> /\ This.fn = "parseAttributes"
  <2>1. UNCHANGED <<pool, count>> /\ MemberStack(stack)
    BY <1>4, <1>7 DEF InMembers
  <2>2. CASE UNCHANGED stack
    BY <2>1, <2>2, <1>5 DEF NamesFollowed
  <2>3. CASE \E i \in file.names : \E text \in Texts(pool[i]) : \E name \in Named(text) :
               /\ i # 0 /\ ~(i >= count) /\ text # "crash"
               /\ stack' = [Enter(<<>>, AttributeParser[name], 1)
                              EXCEPT ![Len(stack)].keep = i]
    <3>1. PICK i \in file.names : \E text \in Texts(pool[i]) : \E name \in Named(text) :
               /\ i # 0 /\ ~(i >= count) /\ text # "crash"
               /\ stack' = [Enter(<<>>, AttributeParser[name], 1)
                              EXCEPT ![Len(stack)].keep = i]
      BY <2>3
    <3>text. PICK text \in Texts(pool[i]) : \E name \in Named(text) :
               /\ i # 0 /\ ~(i >= count) /\ text # "crash"
               /\ stack' = [Enter(<<>>, AttributeParser[name], 1)
                              EXCEPT ![Len(stack)].keep = i]
      BY <3>1
    <3>2. PICK name \in Named(text) :
               /\ i # 0 /\ ~(i >= count) /\ text # "crash"
               /\ stack' = [Enter(<<>>, AttributeParser[name], 1)
                              EXCEPT ![Len(stack)].keep = i]
      BY <3>text
    <3>3. i \in Nat /\ i \in 1 .. count - 1
      <4>1. i \in Nat
        BY <1>2, FilesAssumption
      <4>2. QED
        BY <4>1, <3>2, <1>2
    <3>4. AttributeParser[name] \in Members
      BY MemberNames DEF Named
    <3>5. Followed(AttributeParser[name], i)
      BY <3>2, <3>3 DEF Followed
    <3>6. /\ Len(stack) >= 1 /\ Len(stack') = Len(stack) + 1
          /\ stack'[Len(stack)].fn = "parseAttributes" /\ stack'[Len(stack)].keep = i
          /\ stack'[Len(stack) + 1].fn = AttributeParser[name]
          /\ \A k \in 1 .. Len(stack) - 1 : stack'[k] = stack[k]
      BY <3>2, <3>3, <3>4, <2>1, <1>7, AttributeEntered
    <3>7. SUFFICES ASSUME NEW k \in 1 .. Len(stack') - 1, stack'[k].fn = "parseAttributes",
                          NEW fn, NEW j, fn = stack'[k + 1].fn, j = stack'[k].keep
                   PROVE  Followed(fn, j)'
      BY DEF NamesFollowed, Followed, Texts
    <3>8. \A m \in Nat : \A l \in 1 .. (m + 1) - 1 :
            \/ l = m
            \/ l \in 1 .. m - 1 /\ (l + 1 = m \/ l + 1 \in 1 .. m - 1)
      OBVIOUS
    <3>9. CASE k = Len(stack)
      <4>1. fn = AttributeParser[name] /\ j = i
        BY <3>6, <3>7, <3>9
      <4>2. QED
        BY <4>1, <3>5, <2>1, <1>5
    <3>10. CASE k \in 1 .. Len(stack) - 1
                /\ (k + 1 = Len(stack) \/ k + 1 \in 1 .. Len(stack) - 1)
      <4>1. stack'[k + 1].fn = stack[k + 1].fn /\ stack'[k] = stack[k]
        BY <3>6, <3>10, <1>7 DEF This
      <4>2. Followed(fn, j)
        BY <4>1, <3>7, <3>10 DEF NamesFollowed
      <4>3. QED
        BY <4>2, <2>1, <1>5
    <3>11. QED
      BY <3>6, <3>7, <3>8, <3>9, <3>10, <1>3
  <2>4. QED
    BY <2>1, <2>2, <2>3, <1>2, <1>7, AttributeStep
<1>8. QED
  BY <1>1, <1>6, <1>7, StepKeepsCalls

(* With them, each attribute's parser is that of its name.                 *)
THEOREM NamesInductive == Spec => [](Calls /\ NamesFollowed)
<1>1. Init => NamesFollowed
  <2>1. Init => Len(stack) = 1
    BY DEF Init
  <2>2. \A m : m = 1 => \A k \in 1 .. m - 1 : FALSE
    OBVIOUS
  <2>3. Len(stack) = 1 => NamesFollowed
    BY <2>2 DEF NamesFollowed
  <2>4. QED
    BY <2>1, <2>3
<1>2. Calls /\ NamesFollowed /\ [Next]_vars => NamesFollowed'
  <2>1. CASE Next
    BY <2>1, StepNames DEF Calls
  <2>2. CASE UNCHANGED vars
    BY <2>2 DEF NamesFollowed, Followed, Texts, vars
  <2>3. QED
    BY <2>1, <2>2
<1>3. QED
  BY <1>1, <1>2, CallsInit, CallsStep, PTL DEF Spec

-----------------------------------------------------------------------------
(* What the C stack says of the pool: while parseFields, parseMethods or   *)
(* parseAttributes runs, the loader is past the pool.                      *)
LEMMA MembersAreLast ==
  ASSUME Stage
  PROVE  MembersSeeWholePool
<1> DEFINE member(f) == f.fn \in {"parseFields", "parseMethods", "parseAttributes"}
<1>1. \A f \in LoaderCalls \cup LoopCalls \cup PoolCalls : ~member(f)
  BY FunctionNames, ParserNames
<1>2. ASSUME PoolStack(stack), NEW k \in 1 .. Len(stack), member(stack[k])
      PROVE  FALSE
  <2>1. stack[k] \in LoaderCalls \cup LoopCalls \cup PoolCalls
    BY <1>2 DEF PoolStack
  <2>2. QED
    BY <2>1, <1>1, <1>2
<1>3. ASSUME Begins, NEW k \in 1 .. Len(stack), member(stack[k])
      PROVE  FALSE
  <2>1. PICK p \in 1 .. 4, keep \in Nat :
          stack = <<ACall("LoadClassFile", Rest(p), keep)>>
    BY <1>3 DEF Begins
  <2>2. k = 1
    BY <2>1
  <2>3. stack[k].fn = "LoadClassFile"
    BY <2>1, <2>2, CallFields
  <2>4. QED
    BY <2>3, <1>3
<1>4. ASSUME MemberStack(stack), NEW k \in 1 .. Len(stack), member(stack[k])
      PROVE  Len(stack) > 1
  <2>1. k # 1
    BY <1>1, <1>4 DEF MemberStack
  <2>2. Len(stack) \in Nat
    BY <1>4 DEF MemberStack
  <2>3. \A m \in Nat : \A j \in 1 .. m : j # 1 => m > 1
    OBVIOUS
  <2>4. QED
    BY <2>1, <2>2, <2>3, <1>4
<1>5. ASSUME stack = <<>>, NEW k \in 1 .. Len(stack)
      PROVE  FALSE
  BY <1>5
<1>6. CASE phase = "loaded"
  BY <1>6 DEF Stage, Begins, InPool, InMembers, Over, Running, MembersSeeWholePool, WholePool
<1> HIDE DEF member
<1>7. ASSUME NEW k \in 1 .. Len(stack), member(stack[k])
      PROVE  WholePool
  <2>1. CASE Begins
    BY <1>3, <1>7, <2>1
  <2>2. CASE InPool
    BY <1>2, <1>7, <2>2 DEF InPool
  <2>3. CASE InMembers
    BY <1>4, <1>7, <2>3 DEF InMembers
  <2>4. CASE Over
    BY <1>2, <1>5, <1>7, <2>4 DEF Over
  <2>5. QED
    BY <2>1, <2>2, <2>3, <2>4 DEF Stage
<1>8. QED
  BY <1>6, <1>7 DEF MembersSeeWholePool, WholePool, member

(* A store is an instruction of the pool's loop only, at the index where   *)
(* the loop is.                                                            *)
LEMMA StoresAreNext ==
  ASSUME Stage, count \in Nat, DOMAIN pool = 1 .. count - 1
  PROVE  EntriesHaveTheirElement
<1>1. SUFFICES ASSUME phase = "parsing", This.todo # <<>>, Ins.op = "store"
               PROVE  Ins.arg \in DOMAIN pool /\ pool[Ins.arg] = NoEntry
  BY DEF EntriesHaveTheirElement, Doing
<1>2. \A S : \A s \in Seq(S) : s # <<>> => Head(s) \in S
  OBVIOUS
<1>3. /\ This.todo \notin Seq(Code) /\ This.todo \notin Seq(PoolCode)
      /\ This.todo \notin Seq({Attribute})
  <2>1. Attribute.op = "attribute"
    BY DEF Attribute, Instr
  <2>2. QED
    BY <1>1, <1>2, <2>1, CodeInstructions, PoolInstructions DEF Ins
<1>4. This \notin LoaderCalls /\ This \notin PoolCalls /\ This \notin MemberCalls
  BY <1>3, FunctionNames
<1>5. ~Begins
  <2>1. ASSUME NEW p \in 1 .. 4, NEW k \in Nat, stack = <<ACall("LoadClassFile", Rest(p), k)>>
        PROVE  FALSE
    <3>1. This = ACall("LoadClassFile", Rest(p), k)
      BY <2>1 DEF This
    <3>2. Ins = LoadClassFile[p]
      BY <3>1, CallFields, RestOfLoader DEF Ins
    <3>3. LoadClassFile[p].op # "store"
      BY LoaderScript DEF Test, Keep, Pool, Instr
    <3>4. QED
      BY <1>1, <3>2, <3>3
  <2>2. QED
    BY <2>1 DEF Begins
<1>6. ~InMembers
  BY <1>4 DEF InMembers, MemberStack, This
<1>7. InPool
  BY <1>1, <1>5, <1>6 DEF Stage, Over
<1>8. Len(stack) = 2 /\ This = stack[2]
  <2> DEFINE n == Len(stack)
  <2>1. n \in Nat /\ n >= 2 /\ \A k \in 3 .. n : stack[k] \in PoolCalls
    BY <1>7 DEF InPool, PoolStack
  <2>2. stack[n] \notin PoolCalls
    BY <1>4 DEF This
  <2> HIDE DEF n
  <2>3. n = 2
    BY <2>1, <2>2
  <2>4. Len(stack) = 2
    BY <2>3 DEF n
  <2>5. QED
    BY <2>4 DEF This
<1>9. PICK i \in Nat : i >= 1 /\ PoolUpTo(i) /\ LoopAt(i)
  BY <1>7 DEF InPool
<1>10. PICK tag \in DOMAIN EntryParser : This.todo = <<Store(i, tag)>> /\ i < count
  BY <1>1, <1>8, <1>9 DEF LoopAt, Ins, Entry, Instr
<1>11. Ins.arg = i /\ i \in 1 .. count - 1
  BY <1>9, <1>10 DEF Ins, Store, Instr
<1>12. QED
  BY <1>9, <1>11 DEF PoolUpTo

(* The calls on the C stack are those of functions of classfile.c, the     *)
(* pool keeps the size that was read, and no parser takes more bytes than  *)
(* the stream has, for any file and any convention of results.             *)
THEOREM TypeCorrect == Spec => []TypeOK
<1>1. Calls => TypeOK
  BY CallsAreNamed DEF Calls, Types, TypeOK
<1>2. QED
  BY <1>1, CallsInductive, PTL

(* Every lookup of a name by parseAttributes is in a finished pool: each   *)
(* element was parsed, but for those after a Long or a Double.             *)
THEOREM PoolIsWhole == Spec => []MembersSeeWholePool
<1>1. Calls => MembersSeeWholePool
  BY MembersAreLast DEF Calls
<1>2. QED
  BY <1>1, CallsInductive, PTL

(* Each entry is written to an element of the array that is still empty:   *)
(* the loop's index never passes the count, also when the last entry is a  *)
(* Long or a Double, and never comes back to an element.                   *)
THEOREM EntriesFit == Spec => []EntriesHaveTheirElement
<1>1. Calls => EntriesHaveTheirElement
  <2>1. Calls => count \in Nat
    BY FilesAssumption DEF Calls, Types
  <2>2. QED
    BY <2>1, StoresAreNext DEF Calls, Types
<1>2. QED
  BY <1>1, CallsInductive, PTL

(* With readers that report success as the loader tests for it, the loader *)
(* can only crash after a read that was not delivered, or at an attribute  *)
(* whose name_index is not the index of a Utf8 entry.                      *)
THEOREM CrashesHaveReasons ==
  ASSUME FailuresSpelled
  PROVE  Spec => []CrashHasAReason
<1>1. Calls => CrashHasAReason
  BY FailuresSpelled
  DEF Calls, Stage, Begins, InPool, InMembers, Over, Running, CrashHasAReason
<1>2. QED
  BY <1>1, CallsInductive, PTL

(* Every attribute is parsed by the parser its name asks for, if the names *)
(* and the texts of the pool are sequences of bytes.                       *)
THEOREM AttributesByName ==
  ASSUME NEW Byte,
         \A name \in DOMAIN AttributeParser : Spelling[name] \in Seq(Byte),
         \A f \in Files : \A text \in f.texts : Spelling[text] \in Seq(Byte)
  PROVE  Spec => []ParsedByItsName
<1>1. Calls /\ NamesFollowed => ParsedByItsName
  <2>1. SUFFICES ASSUME Calls, NamesFollowed, NEW k \in 1 .. Len(stack) - 1,
                        stack[k].fn = "parseAttributes", NEW i, i = stack[k].keep,
                        pool[i].tag = "Utf8", WholeString(Spelling[pool[i].text])
                 PROVE  \E name \in DOMAIN AttributeParser :
                          /\ Spelling[name] = Spelling[pool[i].text]
                          /\ stack[k + 1].fn = AttributeParser[name]
    BY DEF ParsedByItsName
  <2>text. PICK text \in Texts(pool[i]) :
           \E name \in Named(text) : stack[k + 1].fn = AttributeParser[name]
    BY <2>1 DEF NamesFollowed, Followed
  <2>2. PICK name \in Named(text) :
          stack[k + 1].fn = AttributeParser[name]
    BY <2>text
  <2>3. i \in DOMAIN pool
    BY <2>1 DEF NamesFollowed, Followed, Calls, Types
  <2>4. text = pool[i].text
    BY <2>1, <2>text DEF Texts, Wide
  <2>5. text \in file.texts /\ file \in Files
    BY <2>1, <2>3, <2>4 DEF Calls, Types
  <2>6. name \in DOMAIN AttributeParser /\ utf8ascii_equals(Spelling[text], Spelling[name])
    BY <2>2 DEF Named
  <2>7. /\ Spelling[text] \in Seq(Byte) /\ Spelling[name] \in Seq(Byte)
        /\ WholeString(Spelling[text]) /\ WholeString(Spelling[name])
        /\ \A j \in 1 .. Len(Spelling[name]) : Spelling[name][j] \notin Continuation
    BY <2>1, <2>4, <2>5, <2>6, SpellingAssumption
  <2>8. Spelling[text] = Spelling[name]
    BY <2>6, <2>7, EqualsIsEquality
  <2>9. QED
    BY <2>2, <2>4, <2>6, <2>8
<1>2. QED
  BY <1>1, NamesInductive, PTL
=============================================================================
