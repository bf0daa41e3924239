----------------------------- MODULE ByteStream -----------------------------
(***************************************************************************)
(* What the user of a stream may rely on, whatever reader is behind the    *)
(* function pointers of StreamReaderOp (src/src/include/stream.h): a       *)
(* sequence of bytes and an offset in it.  A read that reports success has *)
(* delivered the next bytes, as many as its slot is named for, and moved   *)
(* the offset by as many.  A read may fail, at the end or before, and may  *)
(* then have lost some of the bytes it was asked for.                      *)
(*                                                                         *)
(* Nothing is promised of the answer of Position, nor to a user that seeks *)
(* in a closed stream.                                                     *)
(***************************************************************************)
EXTENDS StreamReaderOp

VARIABLES
  content,   \* the bytes
  offset,    \* how many of them lie behind
  open,      \* whether the stream is open
  usable,    \* whether the program still runs
  reply      \* what the last call answered: [op, ok, bytes]

vars == <<content, offset, open, usable, reply>>

Init ==
  /\ content \in Seq(Byte)
  /\ offset \in 0 .. Len(content)
  /\ open \in BOOLEAN
  /\ usable = TRUE
  /\ reply = Told("start", TRUE, <<>>)

(* A read of w bytes that succeeds. *)
Deliver(op, w) ==
  /\ usable /\ open
  /\ w = 0 \/ offset + w <= Len(content)
  /\ reply' = Told(op, TRUE, SubSeq(content, offset + 1, offset + w))
  /\ offset' = offset + w
  /\ UNCHANGED <<content, open, usable>>

(* One that fails: up to w bytes are lost, none if the stream is closed. *)
Fail(op, w) ==
  /\ usable
  /\ reply' = Told(op, FALSE, <<>>)
  /\ \E lost \in 0 .. w :
       /\ lost = 0 \/ (open /\ offset + lost <= Len(content))
       /\ offset' = offset + lost
  /\ UNCHANGED <<content, open, usable>>

(* Skip may go behind the last byte, never before the first, or refuses. *)
Skip(d) ==
  /\ usable /\ open
  /\ \/ offset + d >= 0 /\ offset' = offset + d /\ reply' = Told("Skip", TRUE, <<>>)
     \/ offset' = offset /\ reply' = Told("Skip", FALSE, <<>>)
  /\ UNCHANGED <<content, open, usable>>

Reset ==
  /\ usable /\ open
  /\ offset' = 0
  /\ reply' = Told("Reset", TRUE, <<>>)
  /\ UNCHANGED <<content, open, usable>>

(* The next content, at some place in it. *)
Open ==
  /\ usable /\ ~open
  /\ content' \in Seq(Byte)
  /\ offset' \in 0 .. Len(content')
  /\ open' = TRUE
  /\ reply' = Told("Open", TRUE, <<>>)
  /\ UNCHANGED usable

(* A stream that could not be opened, or is not handed to the user. *)
OpenFails ==
  /\ usable /\ ~open
  /\ reply' = Told("Open", FALSE, <<>>)
  /\ UNCHANGED <<content, offset, open, usable>>

Close ==
  /\ usable
  /\ open' = FALSE
  /\ reply' = Told("Close", TRUE, <<>>)
  /\ UNCHANGED <<content, offset, usable>>

(* The number is left open; the call does not move the stream. *)
Position ==
  /\ usable
  /\ \E ok \in BOOLEAN : reply' = Told("Position", ok, <<>>)
  /\ UNCHANGED <<content, offset, open, usable>>

(* What may end the program: Position, or a seek in a closed stream. *)
Crash(op) ==
  /\ usable
  /\ op = "Position" \/ (~open /\ op \in {"Skip", "Reset"})
  /\ usable' = FALSE
  /\ reply' = Told(op, FALSE, <<>>)
  /\ UNCHANGED <<content, offset, open>>

Next ==
  \/ \E op \in DOMAIN Widths : Deliver(op, Widths[op]) \/ Fail(op, Widths[op])
  \/ \E n \in Blocks : Deliver("ReadBytes", n) \/ Fail("ReadBytes", n)
  \/ \E d \in Distances : Skip(d)
  \/ Reset \/ Open \/ OpenFails \/ Close \/ Position
  \/ \E op \in {"Position", "Skip", "Reset"} : Crash(op)

Spec == Init /\ [][Next]_vars
=============================================================================
