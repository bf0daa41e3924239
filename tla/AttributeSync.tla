--------------------------- MODULE AttributeSync ---------------------------
(***************************************************************************)
(* Whether the parsers of classfile.c stay in step with the stream.  The   *)
(* loader is started at one thing: an attribute whose name parseAttributes *)
(* has just looked up, an entry of the constant pool whose tag was read, a *)
(* field, a method, or a whole class.  It is laid out as the structs of    *)
(* src/src/include/classfile/classfile.h declare, and attribute_length is  *)
(* right.  Trailing bytes follow, so that a parser that reads too far is   *)
(* seen as well as one that stops too early.                               *)
(*                                                                         *)
(* The structs' definitions here are their sizes in a class file: those of *)
(* attributes without attribute_name_index and attribute_length, those of  *)
(* pool entries without the tag.  All tables have n elements.              *)
(***************************************************************************)
EXTENDS ClassFileLoader

CONSTANTS
  Kinds,    \* what is parsed: attributes and pool entries by name, structs
  Sizes,    \* the number of elements of each table
  Trailing  \* the bytes that follow

ASSUME SizesAssumption == Sizes \subseteq Nat /\ Trailing \in Nat

(* The attributes inside other things are Deprecated ones here. *)
Attribute_Deprecated == 0
AttributesOf(n) == 2 + n * (2 + 4 + Attribute_Deprecated)

Attribute_ConstantValue   == 2
ExceptionInfo             == 2 + 2 + 2 + 2
Attribute_Code(n)         == 2 + 2 + (4 + n) + (2 + n * ExceptionInfo) + AttributesOf(n)
Attribute_StackMapTable(n) == 2 + n
Attribute_Exceptions(n)   == 2 + n * 2
InnerClassInfo            == 2 + 2 + 2 + 2
Attribute_InnerClasses(n) == 2 + n * InnerClassInfo
Attribute_EnclosingMethod == 2 + 2
Attribute_Synthetic       == 0
Attribute_Signature       == 2
Attribute_SourceFile      == 2
LineNumberTableEntry            == 2 + 2
Attribute_LineNumberTable(n)    == 2 + n * LineNumberTableEntry
LocalVariableTableEntry         == 2 + 2 + 2 + 2 + 2
Attribute_LocalVariableTable(n) == 2 + n * LocalVariableTableEntry
LocalVariableTypeTableEntry     == 2 + 2 + 2 + 2 + 2
Attribute_LocalVariableTypeTable(n) == 2 + n * LocalVariableTypeTableEntry
BootstrapMethod(n)            == 2 + (2 + n * 2)
Attribute_BootstrapMethods(n) == 2 + n * BootstrapMethod(n)
Parameter                     == 2 + 2
Attribute_MethodParameters(n) == 1 + n * Parameter

(* Annotations, where every ElementValue is of kind e. *)
ElementValue(e) ==
  1 + (CASE e \in {"const", "class"} -> 2   \* const_value_index, class_info_index
         [] e = "enum"               -> 4)  \* type_name_index, constant_name_index
ElementValuePair(e) == 2 + ElementValue(e)
Annotation(n, e)    == 2 + 2 + n * ElementValuePair(e)
Attribute_RuntimeVisibleAnnotations(n, e)   == 2 + n * Annotation(n, e)
Attribute_RuntimeInvisibleAnnotations(n, e) == 2 + n * Annotation(n, e)
ParameterAnnotaion(n, e) == 2 + n * Annotation(n, e)
Attribute_RuntimeVisibleParameterAnnotations(n, e) == 1 + n * ParameterAnnotaion(n, e)
Attribute_RuntimeInvisibleParameterAnnotations(n, e) == 1 + n * ParameterAnnotaion(n, e)
TypePath(n)      == 1 + n * (1 + 1)
target_info(n, target) ==
  CASE target \in {"parameter", "formal"} -> 1
    [] target \in {"super", "bound", "throws", "catch", "offset"} -> 2
    [] target = "argument"                -> 3
    [] target = "localvar"                -> 2 + n * 6
    [] target = "empty"                   -> 0
TypeAnnotation(n, e, target) ==
  1 + target_info(n, target) + TypePath(n) + 2 + 2 + n * ElementValuePair(e)
Attribute_RuntimeVisibleTypeAnnotations(n, e, target) ==
  2 + n * TypeAnnotation(n, e, target)
Attribute_RuntimeInvisibleTypeAnnotations(n, e, target) ==
  2 + n * TypeAnnotation(n, e, target)
Attribute_AnnotationDefault(e) == ElementValue(e)

(* debug_extension has attribute_length bytes, but the parser accepts a    *)
(* length of two only, and returns NULL for any other.                     *)
Attribute_SourceDebugExtension == 2

AttributeLength(kind, n, e, target) ==
  CASE kind = "ConstantValue"          -> Attribute_ConstantValue
    [] kind = "Code"                   -> Attribute_Code(n)
    [] kind = "StackMapTable"          -> Attribute_StackMapTable(n)
    [] kind = "Exceptions"             -> Attribute_Exceptions(n)
    [] kind = "InnerClasses"           -> Attribute_InnerClasses(n)
    [] kind = "EnclosingMethod"        -> Attribute_EnclosingMethod
    [] kind = "Synthetic"              -> Attribute_Synthetic
    [] kind = "Signature"              -> Attribute_Signature
    [] kind = "SourceFile"             -> Attribute_SourceFile
    [] kind = "SourceDebugExtention"   -> Attribute_SourceDebugExtension
    [] kind = "LineNumberTable"        -> Attribute_LineNumberTable(n)
    [] kind = "LocalVariableTable"     -> Attribute_LocalVariableTable(n)
    [] kind = "LocalVariableTypeTable" -> Attribute_LocalVariableTypeTable(n)
    [] kind = "Deprecated"             -> Attribute_Deprecated
    [] kind = "RuntimeVisibleAnnotations" -> Attribute_RuntimeVisibleAnnotations(n, e)
    [] kind = "RuntimeInvisibleAnnotations" ->
         Attribute_RuntimeInvisibleAnnotations(n, e)
    [] kind = "RuntimeVisibleParameterAnnotations" ->
         Attribute_RuntimeVisibleParameterAnnotations(n, e)
    [] kind = "RuntimeInvisibleParameterAnnotations" ->
         Attribute_RuntimeInvisibleParameterAnnotations(n, e)
    [] kind = "RuntimeVisibleTypeAnnotations" ->
         Attribute_RuntimeVisibleTypeAnnotations(n, e, target)
    [] kind = "RuntimeInvisibleTypeAnnotations" ->
         Attribute_RuntimeInvisibleTypeAnnotations(n, e, target)
    [] kind = "AnnotationDefault"      -> Attribute_AnnotationDefault(e)
    [] kind = "BootstrapMethods"       -> Attribute_BootstrapMethods(n)
    [] kind = "MethodParameters"       -> Attribute_MethodParameters(n)

(* The entries of the pool: indexes, a 32 or 64 bit value, a string. *)
ConstantInfo(n) ==
  [Class |-> 2, String |-> 2, MethodType |-> 2,
   FieldRef |-> 4, MethodRef |-> 4, InterfaceMethodRef |-> 4,
   NameAndType |-> 4, InvokeDynamic |-> 4,
   Integer |-> 4, Float |-> 4, Long |-> 8, Double |-> 8,
   MethodHandle |-> 1 + 2, Utf8 |-> 2 + n]

FieldInfo(n)  == 2 + 2 + 2 + AttributesOf(n)
MethodInfo(n) == 2 + 2 + 2 + AttributesOf(n)

(* A class whose pool has n strings and one more, so that constant_pool_   *)
(* count is n + 2, and n interfaces, fields, methods and attributes.       *)
ClassFile(n) ==
  4 + 2 + 2 + (2 + (n + 1) * (1 + ConstantInfo(n).Utf8)) + 2 + 2 + 2
  + (2 + n * 2) + (2 + n * FieldInfo(n)) + (2 + n * MethodInfo(n)) + AttributesOf(n)

Size(kind, n, e, target) ==
  CASE kind \in DOMAIN AttributeParser -> 4 + AttributeLength(kind, n, e, target)
    [] kind \in DOMAIN EntryParser     -> ConstantInfo(n)[kind]
    [] kind = "FieldInfo"              -> FieldInfo(n)
    [] kind = "MethodInfo"             -> MethodInfo(n)
    [] kind = "ClassFile"              -> ClassFile(n)

(* The parsers of the first do not follow the layout: their loops start at *)
(* 1, or attribute_length is skipped after what it counts has been read.   *)
OutOfStep  == {"LineNumberTable", "LocalVariableTable", "LocalVariableTypeTable",
               "StackMapTable"}
ReadInFull == (DOMAIN AttributeParser \ OutOfStep) \cup DOMAIN EntryParser
              \cup {"FieldInfo", "MethodInfo", "ClassFile"}

-----------------------------------------------------------------------------
(* A call with nothing left to do but to return. *)
Done(fn, kept) == [fn |-> fn, todo |-> <<>>, keep |-> kept]

(* The C stack in front of what is parsed; name_index of parseAttributes   *)
(* is 1.                                                                   *)
StackFor(kind) ==
  CASE kind \in DOMAIN AttributeParser ->
         <<Done("LoadClassFile", 0), Done("parseAttributes", 1),
           Frame(AttributeParser[kind], 1)>>
    [] kind \in DOMAIN EntryParser ->
         <<Done("LoadClassFile", 0), Done("parseConstantPool", 0),
           Frame(EntryParser[kind], 1)>>
    [] kind = "FieldInfo"  -> <<Done("LoadClassFile", 0), Frame("parseFields", 1)>>
    [] kind = "MethodInfo" -> <<Done("LoadClassFile", 0), Frame("parseMethods", 1)>>
    [] kind = "ClassFile"  -> <<Frame("LoadClassFile", 1)>>

Utf8Entry(name) == [tag |-> "Utf8", text |-> name]

(* An attribute has been found by its name in element 1 of the pool; the   *)
(* name of the attributes in it is in element 2.                           *)
SyncInit ==
  \E kind \in Kinds, n \in Sizes,
     e \in {"const", "enum", "class"},
     target \in {"parameter", "super", "bound", "empty", "formal", "throws",
                 "localvar", "catch", "offset", "argument"} :
    LET name == IF kind \in DOMAIN AttributeParser THEN kind ELSE "Deprecated" IN
    /\ file = [bytes |-> Size(kind, n, e, target) + Trailing,
               poolCounts |-> {IF kind = "ClassFile" THEN n + 2 ELSE 3},
               counts |-> {n}, lengths |-> {Size(kind, n, e, target) - 4},
               tags |-> {"Utf8"}, texts |-> {"Deprecated"},
               names |-> {IF kind = "ClassFile" THEN 1 ELSE 2},
               elements |-> {e}, targets |-> {target}, bad |-> FALSE]
    /\ left = file.bytes
    /\ stack = StackFor(kind)
    /\ pool = IF kind = "ClassFile" THEN <<>>
              ELSE <<Utf8Entry(name), Utf8Entry("Deprecated")>>
    /\ count = Len(pool) + (IF kind = "ClassFile" THEN 0 ELSE 1)
    /\ phase = "parsing"
    /\ short = FALSE

SyncSpec == SyncInit /\ [][Next]_vars

(* A parser that accepts what it was called for has read it to its end, no *)
(* byte less and no byte more: what follows is read from where it starts.  *)
(* classfile.c never compares attribute_length with what was read.         *)
InSync == phase = "loaded" => left = Trailing
=============================================================================
