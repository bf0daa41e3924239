---------------------------- MODULE NameEquality ----------------------------
(***************************************************************************)
(* The comparison of a name from a class file, which is modified UTF-8,    *)
(* with an ASCII literal (src/src/utils.c).  A string is the sequence of   *)
(* its bytes; what C makes of it ends before the first NUL.  That bytes    *)
(* from memory end in one is cp_parse_utf8Info's work, and left out here.  *)
(***************************************************************************)
EXTENDS Integers, Sequences, FiniteSets

CONSTANTS
  NUL,          \* the byte 0
  Continuation  \* the bytes 10xxxxxx, which continue a character of UTF-8

ASSUME NULAssumption == NUL \notin Continuation

(* The C string in an array of bytes, and its length. *)
strlen(s) ==
  CHOOSE k \in 0 .. Len(s) :
    /\ \A i \in 1 .. k : s[i] # NUL
    /\ k = Len(s) \/ s[k + 1] = NUL
CString(s) == SubSeq(s, 1, strlen(s))

(* The characters of a name: the bytes that do not continue one. *)
uft8_length(utf8) ==
  Cardinality({i \in 1 .. strlen(utf8) : utf8[i] \notin Continuation})

(* Faulty: the lengths are enough. *)
utf8ascii_equals_Lengths(utf8, ascii) == strlen(ascii) = uft8_length(utf8)

utf8ascii_equals(utf8, ascii) ==
  /\ strlen(ascii) = uft8_length(utf8)
  /\ CString(ascii) = CString(utf8)

(* What is in a string as a whole. *)
WholeString(s) == \A i \in 1 .. Len(s) : s[i] # NUL
=============================================================================
