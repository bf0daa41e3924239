------------------------- MODULE LoaderOverStreamsMC -------------------------
(***************************************************************************)
(* Small files and memories for LoaderOverStreams, and the smallest class. *)
(***************************************************************************)
EXTENDS LoaderOverStreams, TLC

BackAndForth == {-1, 2}

(* Files that end within, at and after the first reads of the loader. *)
SmallFiles    == {<<>>, <<1>>, <<0, 1, 1>>, <<0, 1, 0, 0, 1, 1>>}
SmallMemories == {<<>>, <<1, 0, 0, 1>>, <<1, 0, 1, 1, 0, 0, 1>>}

Forwards == {2}

(* class A extends B, version 52.0, without interface, member or attribute *)
SmallestClass ==
  <<202, 254, 186, 190,  0, 0,  0, 52>>
  \o <<0, 5>> \o <<7, 0, 2>> \o <<1, 0, 1, 65>> \o <<7, 0, 4>> \o <<1, 0, 1, 66>>
  \o <<0, 33,  0, 1,  0, 3,  0, 0,  0, 0,  0, 0,  0, 0>>
SmallestClasses == {SmallestClass}
NoMemories == {}

(* To the loader the bytes may mean anything an empty class may hold. *)
AnyMeaning ==
  [bytes |-> 24, poolCounts |-> 0 .. 1, counts |-> {0}, lengths |-> {0},
   tags |-> {"Class"}, texts |-> {}, names |-> {0},
   elements |-> {"const"}, targets |-> {"empty"}, bad |-> TRUE]

ByteNUL  == "00"
ByteCont == {"80"}
Script == INSTANCE ClassFileScript
Spellings == [name \in DOMAIN Script!AttributeParser |-> <<name>>]
=============================================================================
