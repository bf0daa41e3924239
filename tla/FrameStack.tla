----------------------------- MODULE FrameStack -----------------------------
(***************************************************************************)
(* The stack of frames of a thread (src/src/runtime/thread.c), a list      *)
(* linked through Frame.lower with a counter beside it, and the one field  *)
(* of a frame it uses (Frame_New in src/src/runtime/frame.c).              *)
(*                                                                         *)
(* One action is one call of the interpreter that will drive the stack.    *)
(* The counter is an unsigned int, so it is kept modulo Word.  The frames  *)
(* are garbage collected and never freed, so a frame the interpreter has   *)
(* popped is still its to push again; Reuse says whether it does so.       *)
(***************************************************************************)
EXTENDS Integers, Sequences

CONSTANTS
  Threads,    \* the threads the program may create
  Frames,     \* the frames it may allocate
  StackSizes, \* the stack sizes Thread_New may be called with
  Word,       \* the modulus of an unsigned int (2^32)
  NULL,       \* the null pointer
  Reuse       \* which popped frames may be pushed again:
              \*   "never"     each frame is pushed once, as a new activation
              \*   "nonempty"  only while the stack has a frame
              \*   "always"    at any time

ASSUME WordAssumption  == Word \in Nat \ {0}
ASSUME SizesAssumption == StackSizes \subseteq 0 .. Word - 1
ASSUME NullAssumption  == NULL \notin Frames
ASSUME ReuseAssumption == Reuse \in {"never", "nonempty", "always"}

VARIABLES
  live,       \* the threads created so far
  maxSize,    \* Stack.maxSize of each thread
  size,       \* Stack.size of each thread
  top,        \* Stack._top of each thread
  lower,      \* Frame.lower of each frame
  owner,      \* where each frame is: "none" (not allocated), "fresh" (never
              \*   pushed), "stacked", or "popped" (back with the interpreter)
  reply,      \* what the last call answered
  status,     \* the int the last push returned
  calls       \* history: the frames pushed on a thread and not popped since

vars == <<live, maxSize, size, top, lower, owner, reply, status, calls>>

CS == INSTANCE CallStack WITH stack <- calls

Init ==
  /\ live = {}
  /\ maxSize = [t \in Threads |-> 0]
  /\ size = [t \in Threads |-> 0]
  /\ top = [t \in Threads |-> NULL]
  /\ lower = [f \in Frames |-> NULL]
  /\ owner = [f \in Frames |-> "none"]
  /\ status = 0
  /\ calls = [t \in Threads |-> <<>>]
  /\ \E t \in Threads : reply = CS!Answer("start", t, NULL, CS!Fine)

-----------------------------------------------------------------------------
(* Thread_New with Stack_New: an empty stack of the size asked for. *)
Thread_New(t, n) ==
  /\ t \notin live
  /\ live' = live \cup {t}
  /\ maxSize' = [maxSize EXCEPT ![t] = n]
  /\ size' = [size EXCEPT ![t] = 0]
  /\ top' = [top EXCEPT ![t] = NULL]
  /\ reply' = CS!Answer("new", t, NULL, CS!Fine)
  /\ UNCHANGED <<lower, owner, status, calls>>

(* Frame_New: a frame with lower = NULL, in the hands of the interpreter. *)
Frame_New(f) ==
  /\ owner[f] = "none"
  /\ owner' = [owner EXCEPT ![f] = "fresh"]
  /\ lower' = [lower EXCEPT ![f] = NULL]
  /\ UNCHANGED <<live, maxSize, size, top, reply, status, calls>>

(* The frames the interpreter may push on t. *)
Pushable(t, f) ==
  \/ owner[f] = "fresh"
  \/ /\ owner[f] = "popped"
     /\ \/ Reuse = "always"
        \/ Reuse = "nonempty" /\ top[t] # NULL

(* The definitions with a suffix are faulty variants: each breaks a        *)
(* property below and takes no part in the specification.                  *)

(* Faulty: a push that does not link. *)
Thread_PushFrame_NoLink(t, f) ==
  /\ t \in live
  /\ Pushable(t, f)
  /\ size[t] < maxSize[t]
  /\ top' = [top EXCEPT ![t] = f]
  /\ size' = [size EXCEPT ![t] = (@ + 1) % Word]
  /\ owner' = [owner EXCEPT ![f] = "stacked"]
  /\ calls' = [calls EXCEPT ![t] = Append(@, f)]
  /\ reply' = CS!Answer("push", t, f, CS!Fine)
  /\ status' \in {0, -1}
  /\ UNCHANGED <<live, maxSize, lower>>

(* Faulty: room for one frame too many. *)
Thread_PushFrame_OneMore(t, f) ==
  /\ t \in live
  /\ Pushable(t, f)
  /\ size[t] <= maxSize[t]
  /\ lower' = IF top[t] # NULL THEN [lower EXCEPT ![f] = top[t]] ELSE lower
  /\ top' = [top EXCEPT ![t] = f]
  /\ size' = [size EXCEPT ![t] = (@ + 1) % Word]
  /\ owner' = [owner EXCEPT ![f] = "stacked"]
  /\ calls' = [calls EXCEPT ![t] = Append(@, f)]
  /\ reply' = CS!Answer("push", t, f, CS!Fine)
  /\ status' \in {0, -1}
  /\ UNCHANGED <<live, maxSize>>

(* Stack_Push when size < maxSize: lower is written only on top of another *)
(* frame.  The function then ends without a return statement, so the int   *)
(* its caller gets is any value, the -1 of a refused push included.        *)
Thread_PushFrame(t, f) ==
  /\ t \in live
  /\ Pushable(t, f)
  /\ size[t] < maxSize[t]
  /\ lower' = IF top[t] # NULL THEN [lower EXCEPT ![f] = top[t]] ELSE lower
  /\ top' = [top EXCEPT ![t] = f]
  /\ size' = [size EXCEPT ![t] = (@ + 1) % Word]
  /\ owner' = [owner EXCEPT ![f] = "stacked"]
  /\ calls' = [calls EXCEPT ![t] = Append(@, f)]
  /\ reply' = CS!Answer("push", t, f, CS!Fine)
  /\ status' \in {0, -1}
  /\ UNCHANGED <<live, maxSize>>

(* Faulty: a refused push that links first. *)
Thread_PushRefused_Links(t, f) ==
  /\ t \in live
  /\ Pushable(t, f)
  /\ size[t] >= maxSize[t]
  /\ lower' = [lower EXCEPT ![f] = top[t]]
  /\ reply' = CS!Answer("push", t, f, CS!Overflow)
  /\ status' = -1
  /\ UNCHANGED <<live, maxSize, size, top, owner, calls>>

(* Stack_Push when size >= maxSize. *)
Thread_PushRefused(t, f) ==
  /\ t \in live
  /\ Pushable(t, f)
  /\ size[t] >= maxSize[t]
  /\ reply' = CS!Answer("push", t, f, CS!Overflow)
  /\ status' = -1
  /\ UNCHANGED <<live, maxSize, size, top, lower, owner, calls>>

(* Faulty: the list is cut one frame too low. *)
Thread_PopFrame_CutsBelow(t) ==
  /\ t \in live
  /\ top[t] # NULL
  /\ top' = [top EXCEPT ![t] = lower[top[t]]]
  /\ lower' = [lower EXCEPT ![lower[top[t]]] = NULL]
  /\ size' = [size EXCEPT ![t] = (@ + Word - 1) % Word]
  /\ owner' = [owner EXCEPT ![top[t]] = "popped"]
  /\ calls' = [calls EXCEPT ![t] = IF @ = <<>> THEN @ ELSE CS!Below(@)]
  /\ reply' = CS!Answer("pop", t, top[t], CS!Fine)
  /\ UNCHANGED <<live, maxSize, status>>

(* Stack_Pop when _top is not NULL: the frame keeps its lower pointer. *)
Thread_PopFrame(t) ==
  /\ t \in live
  /\ top[t] # NULL
  /\ top' = [top EXCEPT ![t] = lower[top[t]]]
  /\ size' = [size EXCEPT ![t] = (@ + Word - 1) % Word]
  /\ owner' = [owner EXCEPT ![top[t]] = "popped"]
  /\ calls' = [calls EXCEPT ![t] = IF @ = <<>> THEN @ ELSE CS!Below(@)]
  /\ reply' = CS!Answer("pop", t, top[t], CS!Fine)
  /\ UNCHANGED <<live, maxSize, lower, status>>

(* Faulty: a signed counter, decremented before the test. *)
Thread_PopRefused_Signed(t) ==
  /\ t \in live
  /\ top[t] = NULL
  /\ size' = [size EXCEPT ![t] = @ - 1]
  /\ reply' = CS!Answer("pop", t, NULL, CS!Empty)
  /\ UNCHANGED <<live, maxSize, top, lower, owner, status, calls>>

(* Stack_Pop when _top is NULL. *)
Thread_PopRefused(t) ==
  /\ t \in live
  /\ top[t] = NULL
  /\ reply' = CS!Answer("pop", t, NULL, CS!Empty)
  /\ UNCHANGED <<live, maxSize, size, top, lower, owner, status, calls>>

(* Stack_Top. *)
Thread_CurrentFrame(t) ==
  /\ t \in live
  /\ reply' = CS!Answer("top", t, top[t],
                        IF top[t] = NULL THEN CS!Empty ELSE CS!Fine)
  /\ UNCHANGED <<live, maxSize, size, top, lower, owner, status, calls>>

Next ==
  \/ \E t \in Threads, n \in StackSizes : Thread_New(t, n)
  \/ \E f \in Frames : Frame_New(f)
  \/ \E t \in Threads, f \in Frames : Thread_PushFrame(t, f)
  \/ \E t \in Threads, f \in Frames : Thread_PushRefused(t, f)
  \/ \E t \in Threads : Thread_PopFrame(t)
  \/ \E t \in Threads : Thread_PopRefused(t)
  \/ \E t \in Threads : Thread_CurrentFrame(t)

Spec == Init /\ [][Next]_vars

(* Popped frames are pushed again on top of another frame or not at all. *)
Disciplined == Reuse # "always"

-----------------------------------------------------------------------------
Owners == {"none", "fresh", "stacked", "popped"}

(* The variables keep the types of the C fields: the counters stay in the  *)
(* range of an unsigned int and the pointers are frames or NULL.           *)
TypeOK ==
  /\ live \subseteq Threads
  /\ maxSize \in [Threads -> 0 .. Word - 1]
  /\ size \in [Threads -> 0 .. Word - 1]
  /\ top \in [Threads -> Frames \cup {NULL}]
  /\ lower \in [Frames -> Frames \cup {NULL}]
  /\ owner \in [Frames -> Owners]
  /\ status \in {0, -1}
  /\ calls \in [Threads -> Seq(Frames)]

(* The frame under position i of a stack, NULL under the bottom one. *)
Under(s, i) == IF i = 1 THEN NULL ELSE s[i - 1]

(* The list of every thread is its history of calls: the counter is the    *)
(* number of frames, _top is the newest and every lower pointer leads to   *)
(* the frame that was current when it was pushed, ending in NULL (the list *)
(* Stack_Push, Stack_Pop and Stack_Top walk in thread.c).                  *)
ListIsCallHistory ==
  \A t \in Threads :
    /\ t \notin live => calls[t] = <<>>
    /\ size[t] = Len(calls[t])
    /\ size[t] <= maxSize[t]
    /\ top[t] = CS!TopOf(calls[t])
    /\ \A i \in 1 .. Len(calls[t]) : lower[calls[t][i]] = Under(calls[t], i)

(* A frame that was never pushed ends a list: Stack_Push relies on the     *)
(* NULL of Frame_New when it puts the first frame on an empty stack.       *)
FreshFramesEndAList ==
  \A f \in Frames : owner[f] \in {"none", "fresh"} => lower[f] = NULL

(* What Pushable makes of the history: a frame is in it at one place only. *)
(* This is no claim about thread.c, which would push a frame twice; it is  *)
(* the caller's part in the inductive invariant.                           *)
FramesOnOneStack ==
  /\ \A t \in Threads : \A i \in 1 .. Len(calls[t]) :
       owner[calls[t][i]] = "stacked"
  /\ \A t, u \in Threads :
       \A i \in 1 .. Len(calls[t]), j \in 1 .. Len(calls[u]) :
         calls[t][i] = calls[u][j] => t = u /\ i = j

(* The inductive invariant. *)
IInv ==
  /\ TypeOK
  /\ ListIsCallHistory
  /\ FramesOnOneStack
  /\ FreshFramesEndAList

(* The stack answers every call as the bounded last-in-first-out sequence  *)
(* of CallStack does.                                                      *)
ImplementsCallStack == CS!Spec

(* While a frame stays on a stack the list below it is frozen: no push or  *)
(* pop, on any thread, rewrites the lower pointer of a stacked frame.      *)
StackedLinksFrozen ==
  [][\A f \in Frames : owner[f] = "stacked" /\ owner'[f] = "stacked"
                         => lower'[f] = lower[f]]_vars

(* thread.c reports "StackOverflowError" for a stack that is full, that is *)
(* one on which maxSize frames are pushed and not popped.                  *)
OverflowReportedOnlyWhenFull ==
  reply.err = CS!Overflow => Len(calls[reply.thread]) = maxSize[reply.thread]
=============================================================================
