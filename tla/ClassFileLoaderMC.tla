------------------------- MODULE ClassFileLoaderMC -------------------------
(***************************************************************************)
(* Streams for ClassFileLoader small enough to follow every way through.   *)
(* A class with nothing in it takes 24 bytes.                              *)
(***************************************************************************)
EXTENDS ClassFileLoader, TLC

(* Constant pools of up to two entries of any kind, ... *)
PoolFile ==
  [bytes |-> 45, poolCounts |-> 0 .. 3, counts |-> {0, 1}, lengths |-> {0},
   tags |-> DOMAIN EntryParser, texts |-> {"other"}, names |-> {0},
   elements |-> {"const"}, targets |-> {"empty"}, bad |-> TRUE]

(* ... and longer ones where entries that take two elements meet. *)
WideFile == [PoolFile EXCEPT !.bytes = 52, !.poolCounts = {4, 5},
                             !.tags = {"Long", "Class", "MethodRef"}]

(* Members with attributes, named by good and by bad indices. *)
NameFile ==
  [bytes |-> 56, poolCounts |-> {2, 3}, counts |-> {0, 1}, lengths |-> {0, 3},
   tags |-> {"Utf8", "Class", "Long"},
   texts |-> {"Code", "ConstantValue", "StackMapTable",
              "CodePrefix", "CodeAccent", "CodeNUL"},
   names |-> 0 .. 3,
   elements |-> {"const"}, targets |-> {"empty"}, bad |-> TRUE]

(* Annotations, which nest, and attributes of attributes. *)
NestedFile ==
  [bytes |-> 60, poolCounts |-> {2}, counts |-> {0, 2}, lengths |-> {2},
   tags |-> {"Utf8"},
   texts |-> {"Code", "AnnotationDefault", "RuntimeVisibleTypeAnnotations"},
   names |-> {1},
   elements |-> {"const", "array", "annotation"},
   targets |-> {"localvar", "argument", "other"}, bad |-> FALSE]

(* A class without an entry, a member or a wrong value. *)
EmptyClass == [PoolFile EXCEPT !.bytes = 24, !.poolCounts = {1},
                               !.counts = {0}, !.bad = FALSE]

(* A pool with one reference to a method, cut off within it. *)
MethodFile == [EmptyClass EXCEPT !.bytes = 13, !.poolCounts = {2},
                                 !.tags = {"MethodRef"}]

(* Each name is two bytes; beside them the first byte of "Code", the name  *)
(* with a byte that continues a character, and one that goes on after NUL. *)
ByteNUL  == "00"
ByteCont == {"80"}
Spellings ==
  [name \in DOMAIN AttributeParser |-> <<name, "end">>] @@
  [CodePrefix |-> <<"Code">>,
   CodeAccent |-> <<"Code", "80", "end">>,
   CodeNUL    |-> <<"Code", "end", "00", "end">>,
   other      |-> <<"other">>]

LoaderFiles == {PoolFile, WideFile, NameFile, NestedFile}

(* A result of a read that the tests of classfile.c take for success. *)
Negative  == {-1}

(* One file for each conjunct of OutcomeTellsTheFile. *)
EmptyClasses == {EmptyClass}
MethodFiles  == {MethodFile}
NameFiles    == {NameFile}
OddFiles == EmptyClasses \cup MethodFiles \cup NameFiles
=============================================================================
