-------------------------- MODULE ClassFileScript --------------------------
(***************************************************************************)
(* The parsers of src/src/classfile/classfile.c as scripts: for each C     *)
(* function the sequence of the reads, checks and calls it makes, in their *)
(* order.  A script names what a value read decides; a value that is only  *)
(* stored in a struct is read with U.  ClassFileLoader runs the scripts.   *)
(* The definitions with a suffix are faulty variants of the ones after     *)
(* them: each breaks a property and no script calls it.                    *)
(***************************************************************************)
EXTENDS Integers, Sequences

(* An instruction: what it does, the bytes it reads, what it reads, and    *)
(* what follows from it (a script, a table of scripts, a function).        *)
Instr(op, w, what, arg) == [op |-> op, w |-> w, what |-> what, arg |-> arg]

U(w)            == Instr("u", w, "any", <<>>)        \* a value that is stored
Test(w, what)   == Instr("test", w, what, <<>>)      \* a value that is checked
Keep(w, what)   == Instr("keep", w, what, <<>>)      \* a value used later on
Bytes(n)        == Instr("u", n, "bytes", <<>>)      \* ReadBytes
Blob(w, what)   == Instr("blob", w, what, <<>>)      \* a length n, then Bytes(n)
Many(w, body)   == Instr("many", w, "count", body)   \* for(i=0; i<count; i++)
ManyFrom1(w, body) ==
                   Instr("many1", w, "count", body)  \* for(i=1; i<count; i++)
CallN(w, fn)    == Instr("callN", w, "count", fn)    \* fn(..., count), a loop
Call(fn)        == Instr("call", 0, "any", fn)       \* fn(stream, classfile, ...)
Select(what, table) == Instr("select", 1, what, table)  \* switch on a uint8_t
Skip            == Instr("skip", 0, "any", <<>>)     \* reader->Skip of the kept length
Pool            == Instr("pool", 2, "poolCount", <<>>)
Entry(i)        == Instr("entry", 1, "tag", i)       \* iteration i of the pool's loop
Store(i, tag)   == Instr("store", 0, tag, i)         \* array[i] = what was parsed
Attribute       == Instr("attribute", 2, "name", <<>>) \* one of parseAttributes' loop

(* body, n times over. *)
Copies(body, n) ==
  [i \in 1 .. n * Len(body) |-> body[((i - 1) % Len(body)) + 1]]

-----------------------------------------------------------------------------
(* The class file and its members. *)
LoadClassFile ==
  << Test(4, "magic"), Keep(2, "minor"), Test(2, "major"), Pool,
     U(2), U(2), U(2), Many(2, <<U(2)>>),
     CallN(2, "parseFields"), CallN(2, "parseMethods"),
     CallN(2, "parseAttributes") >>

(* One iteration of the loops over the members and the attributes. *)
parseFields     == <<U(2), U(2), U(2), CallN(2, "parseAttributes")>>
parseMethods    == <<U(2), U(2), U(2), CallN(2, "parseAttributes")>>
parseAttributes == <<Attribute>>

(* The entries of the constant pool. *)
cp_parse_classInfo              == <<U(2)>>
cp_parse_filedRefInfo           == <<U(2), U(2)>>
cp_parse_methodRefInfo          == <<Call("cp_parse_filedRefInfo")>>
cp_parse_interfaceMethodRefInfo == <<Call("cp_parse_filedRefInfo")>>
cp_parse_stringInfo             == <<U(2)>>
cp_parse_intergerInfo           == <<U(4)>>
cp_parse_floatInfo              == <<U(4)>>
cp_parse_longInfo               == <<U(8)>>
cp_parse_doubleInfo             == <<U(8)>>
cp_parse_nameAndTypeInfo        == <<U(2), U(2)>>
cp_parse_utf8Info               == <<Blob(2, "count")>>
cp_parse_methodHandleInfo       == <<U(1), U(2)>>
cp_parse_methodTypeInfo         == <<U(2)>>
cp_parse_invokeDynamicInfo      == <<U(2), U(2)>>

(* Faulty: a loop that starts at 1. *)
attr_parse_exceptions_From1 == <<U(4), ManyFrom1(2, <<U(2)>>)>>

(* The attributes.  The first read of each is attribute_length. *)
attr_parse_constantValue   == <<Test(4, "two"), Test(2, "index")>>
attr_parse_code ==
  << U(4), U(2), U(2), Blob(4, "count"),
     Many(2, <<U(2), U(2), U(2), U(2)>>), CallN(2, "parseAttributes") >>
attr_parse_stackMapTable   == <<Keep(4, "length"), U(2), Skip>>
attr_parse_exceptions      == <<U(4), Many(2, <<U(2)>>)>>
attr_parse_innerClasses    == <<U(4), Many(2, <<U(2), U(2), U(2), U(2)>>)>>
attr_parse_enclosingMethod == <<U(4), U(2), U(2)>>
attr_parse_synthetic       == <<Test(4, "zero")>>
attr_parse_signature       == <<Test(4, "two"), U(2)>>
attr_parse_sourceFile      == <<Test(4, "two"), U(2)>>
attr_parse_sourceDebugExtention == <<Test(4, "two"), Bytes(2)>>
attr_parse_lineNumberTable == <<U(4), ManyFrom1(2, <<U(2), U(2)>>)>>
attr_parse_localVariableTable ==
  <<U(4), ManyFrom1(2, <<U(2), U(2), U(2), U(2), U(2)>>)>>
attr_parse_localVariableTypeTable ==
  <<U(4), ManyFrom1(2, <<U(2), U(2), U(2), U(2), U(2)>>)>>
attr_parse_deprecated      == <<Test(4, "zero")>>

(* The annotations. *)
(* Faulty: an array of element values whose count is not read. *)
parseElementValue_NoCount ==
  << Select("element",
       [const      |-> <<U(2)>>,
        enum       |-> <<U(2), U(2)>>,
        class      |-> <<U(2)>>,
        annotation |-> <<Call("parseAnnotation")>>,
        array      |-> <<Call("parseElementValue"), Call("parseElementValue")>>]) >>

parseElementValue ==
  << Select("element",
       [const      |-> <<U(2)>>,         \* B C D F I J S Z s
        enum       |-> <<U(2), U(2)>>,   \* e
        class      |-> <<U(2)>>,         \* c
        annotation |-> <<Call("parseAnnotation")>>,               \* @
        array      |-> <<Many(2, <<Call("parseElementValue")>>)>>]) >> \* [
Pairs           == Many(2, <<U(2), Call("parseElementValue")>>)
parseAnnotation == <<U(2), Pairs>>
Annotations     == Many(2, <<Call("parseAnnotation")>>)
attr_parse_runtimeVisibleAnnotations            == <<U(4), Annotations>>
attr_parse_runtimeInvisibleAnnotations          == <<U(4), Annotations>>
attr_parse_runtimeVisibleParameterAnnotations   == <<U(4), Many(1, <<Annotations>>)>>
attr_parse_runtimeInvisibleParameterAnnotations == <<U(4), Many(1, <<Annotations>>)>>
parseTypeAnnotation ==
  << Select("target",
       [parameter |-> <<U(1)>>,              \* 0x00 0x01
        super     |-> <<U(2)>>,              \* 0x10
        bound     |-> <<U(1), U(1)>>,        \* 0x11 0x12
        empty     |-> <<>>,                  \* 0x13 0x14 0x15
        formal    |-> <<U(1)>>,              \* 0x16
        throws    |-> <<U(2)>>,              \* 0x17
        localvar  |-> <<Many(2, <<U(2), U(2), U(2)>>)>>,  \* 0x40 0x41
        catch     |-> <<U(2)>>,              \* 0x42
        offset    |-> <<U(2)>>,              \* 0x43 .. 0x46
        argument  |-> <<U(2), U(1)>>,        \* 0x47 .. 0x4B
        other     |-> <<>>]),                \* default: break
     Many(1, <<U(1), U(1)>>), U(2), Pairs >>
TypeAnnotations == Many(2, <<Call("parseTypeAnnotation")>>)
attr_parse_runtimeVisibleTypeAnnotations   == <<U(4), TypeAnnotations>>
attr_parse_runtimeInvisibleTypeAnnotations == <<U(4), TypeAnnotations>>
attr_parse_annotationDefault == <<U(4), Call("parseElementValue")>>
attr_parse_bootstrapMethods  == <<U(4), Many(2, <<U(2), Many(2, <<U(2)>>)>>)>>
attr_parse_methodParameters  == <<U(4), Many(1, <<U(2), U(2)>>)>>

-----------------------------------------------------------------------------
(* The switch of parseConstantPool: the parser of each tag it knows. *)
EntryParser ==
  [Class              |-> "cp_parse_classInfo",
   FieldRef           |-> "cp_parse_filedRefInfo",
   MethodRef          |-> "cp_parse_methodRefInfo",
   InterfaceMethodRef |-> "cp_parse_interfaceMethodRefInfo",
   String             |-> "cp_parse_stringInfo",
   Integer            |-> "cp_parse_intergerInfo",
   Float              |-> "cp_parse_floatInfo",
   Long               |-> "cp_parse_longInfo",
   Double             |-> "cp_parse_doubleInfo",
   NameAndType        |-> "cp_parse_nameAndTypeInfo",
   Utf8               |-> "cp_parse_utf8Info",
   MethodHandle       |-> "cp_parse_methodHandleInfo",
   MethodType         |-> "cp_parse_methodTypeInfo",
   InvokeDynamic      |-> "cp_parse_invokeDynamicInfo"]

(* The chain of comparisons of parseAttributes, with the spelling it has. *)
AttributeParser ==
  [ConstantValue          |-> "attr_parse_constantValue",
   Code                   |-> "attr_parse_code",
   StackMapTable          |-> "attr_parse_stackMapTable",
   Exceptions             |-> "attr_parse_exceptions",
   InnerClasses           |-> "attr_parse_innerClasses",
   EnclosingMethod        |-> "attr_parse_enclosingMethod",
   Synthetic              |-> "attr_parse_synthetic",
   Signature              |-> "attr_parse_signature",
   SourceFile             |-> "attr_parse_sourceFile",
   SourceDebugExtention   |-> "attr_parse_sourceDebugExtention",
   LineNumberTable        |-> "attr_parse_lineNumberTable",
   LocalVariableTable     |-> "attr_parse_localVariableTable",
   LocalVariableTypeTable |-> "attr_parse_localVariableTypeTable",
   Deprecated             |-> "attr_parse_deprecated",
   RuntimeVisibleAnnotations   |-> "attr_parse_runtimeVisibleAnnotations",
   RuntimeInvisibleAnnotations |-> "attr_parse_runtimeInvisibleAnnotations",
   RuntimeVisibleParameterAnnotations |->
     "attr_parse_runtimeVisibleParameterAnnotations",
   RuntimeInvisibleParameterAnnotations |->
     "attr_parse_runtimeInvisibleParameterAnnotations",
   RuntimeVisibleTypeAnnotations   |-> "attr_parse_runtimeVisibleTypeAnnotations",
   RuntimeInvisibleTypeAnnotations |-> "attr_parse_runtimeInvisibleTypeAnnotations",
   AnnotationDefault |-> "attr_parse_annotationDefault",
   BootstrapMethods  |-> "attr_parse_bootstrapMethods",
   MethodParameters  |-> "attr_parse_methodParameters"]

(* The script of each function, by its name. *)
Script ==
  [LoadClassFile |-> LoadClassFile,
   parseFields |-> parseFields,
   parseMethods |-> parseMethods,
   parseAttributes |-> parseAttributes,
   cp_parse_classInfo |-> cp_parse_classInfo,
   cp_parse_filedRefInfo |-> cp_parse_filedRefInfo,
   cp_parse_methodRefInfo |-> cp_parse_methodRefInfo,
   cp_parse_interfaceMethodRefInfo |-> cp_parse_interfaceMethodRefInfo,
   cp_parse_stringInfo |-> cp_parse_stringInfo,
   cp_parse_intergerInfo |-> cp_parse_intergerInfo,
   cp_parse_floatInfo |-> cp_parse_floatInfo,
   cp_parse_longInfo |-> cp_parse_longInfo,
   cp_parse_doubleInfo |-> cp_parse_doubleInfo,
   cp_parse_nameAndTypeInfo |-> cp_parse_nameAndTypeInfo,
   cp_parse_utf8Info |-> cp_parse_utf8Info,
   cp_parse_methodHandleInfo |-> cp_parse_methodHandleInfo,
   cp_parse_methodTypeInfo |-> cp_parse_methodTypeInfo,
   cp_parse_invokeDynamicInfo |-> cp_parse_invokeDynamicInfo,
   attr_parse_constantValue |-> attr_parse_constantValue,
   attr_parse_code |-> attr_parse_code,
   attr_parse_stackMapTable |-> attr_parse_stackMapTable,
   attr_parse_exceptions |-> attr_parse_exceptions,
   attr_parse_innerClasses |-> attr_parse_innerClasses,
   attr_parse_enclosingMethod |-> attr_parse_enclosingMethod,
   attr_parse_synthetic |-> attr_parse_synthetic,
   attr_parse_signature |-> attr_parse_signature,
   attr_parse_sourceFile |-> attr_parse_sourceFile,
   attr_parse_sourceDebugExtention |-> attr_parse_sourceDebugExtention,
   attr_parse_lineNumberTable |-> attr_parse_lineNumberTable,
   attr_parse_localVariableTable |-> attr_parse_localVariableTable,
   attr_parse_localVariableTypeTable |-> attr_parse_localVariableTypeTable,
   attr_parse_deprecated |-> attr_parse_deprecated,
   parseElementValue |-> parseElementValue,
   parseAnnotation |-> parseAnnotation,
   attr_parse_runtimeVisibleAnnotations |-> attr_parse_runtimeVisibleAnnotations,
   attr_parse_runtimeInvisibleAnnotations |-> attr_parse_runtimeInvisibleAnnotations,
   attr_parse_runtimeVisibleParameterAnnotations |-> attr_parse_runtimeVisibleParameterAnnotations,
   attr_parse_runtimeInvisibleParameterAnnotations |-> attr_parse_runtimeInvisibleParameterAnnotations,
   parseTypeAnnotation |-> parseTypeAnnotation,
   attr_parse_runtimeVisibleTypeAnnotations |-> attr_parse_runtimeVisibleTypeAnnotations,
   attr_parse_runtimeInvisibleTypeAnnotations |-> attr_parse_runtimeInvisibleTypeAnnotations,
   attr_parse_annotationDefault |-> attr_parse_annotationDefault,
   attr_parse_bootstrapMethods |-> attr_parse_bootstrapMethods,
   attr_parse_methodParameters |-> attr_parse_methodParameters]

(* The functions that end without a return statement: the caller gets a    *)
(* pointer that may be NULL and may be none that was allocated.            *)
FallingOff == {"parseAttributes", "attr_parse_constantValue", "parseTypeAnnotation"}

(* Faulty: parseAttributes writes to an attribute before it looks whether  *)
(* there is one.                                                           *)
Dereferencing_Attributes == {"cp_parse_methodRefInfo", "parseAttributes"}

(* The functions that write through the pointer a call returned before     *)
(* anyone compares it with NULL.                                           *)
Dereferencing == {"cp_parse_methodRefInfo", "cp_parse_interfaceMethodRefInfo"}
=============================================================================
