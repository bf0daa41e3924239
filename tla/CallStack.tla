----------------------------- MODULE CallStack -----------------------------
(***************************************************************************)
(* What a thread's frame stack promises to the interpreter that uses it:   *)
(* each thread owns a bounded last-in-first-out sequence of frames, a push *)
(* is refused exactly when the bound is reached, a pop or a look at the    *)
(* top is refused exactly when nothing is pushed, and no call on one       *)
(* thread is visible on another.  FrameStack implements this with linked   *)
(* frames and a counter (src/src/runtime/thread.c).                        *)
(***************************************************************************)
EXTENDS Integers, Sequences

CONSTANTS
  Threads,   \* the threads the program may create
  Frames,    \* the frames it may allocate
  StackSizes,\* the stack sizes Thread_New may be called with
  NULL       \* no frame

VARIABLES
  live,      \* the threads created so far
  maxSize,   \* maxSize[t]: the bound thread t was created with
  stack,     \* stack[t]: the frames pushed on t, the current one last
  reply      \* what the last call answered

vars == <<live, maxSize, stack, reply>>

Overflow == "StackOverflowError"
Empty    == "jvm stack is empty"
Fine     == "none"

(* An answer: the call, the thread, the frame returned, the error reported. *)
Answer(call, t, f, err) ==
  [call |-> call, thread |-> t, frame |-> f, err |-> err]

(* The current frame of a stack. *)
TopOf(s) == IF s = <<>> THEN NULL ELSE s[Len(s)]

(* A stack without its current frame. *)
Below(s) == SubSeq(s, 1, Len(s) - 1)

Init ==
  /\ live = {}
  /\ maxSize = [t \in Threads |-> 0]
  /\ stack = [t \in Threads |-> <<>>]
  /\ \E t \in Threads : reply = Answer("start", t, NULL, Fine)

Create(t, n) ==
  /\ t \notin live
  /\ live' = live \cup {t}
  /\ maxSize' = [maxSize EXCEPT ![t] = n]
  /\ reply' = Answer("new", t, NULL, Fine)
  /\ UNCHANGED stack

Push(t, f) ==
  /\ t \in live
  /\ Len(stack[t]) < maxSize[t]
  /\ stack' = [stack EXCEPT ![t] = Append(@, f)]
  /\ reply' = Answer("push", t, f, Fine)
  /\ UNCHANGED <<live, maxSize>>

RefusePush(t, f) ==
  /\ t \in live
  /\ Len(stack[t]) = maxSize[t]
  /\ reply' = Answer("push", t, f, Overflow)
  /\ UNCHANGED <<live, maxSize, stack>>

Pop(t) ==
  /\ t \in live
  /\ stack' = [stack EXCEPT ![t] = IF @ = <<>> THEN @ ELSE Below(@)]
  /\ reply' = Answer("pop", t, TopOf(stack[t]),
                     IF stack[t] = <<>> THEN Empty ELSE Fine)
  /\ UNCHANGED <<live, maxSize>>

Current(t) ==
  /\ t \in live
  /\ reply' = Answer("top", t, TopOf(stack[t]),
                     IF stack[t] = <<>> THEN Empty ELSE Fine)
  /\ UNCHANGED <<live, maxSize, stack>>

Next ==
  \E t \in Threads :
    \/ \E n \in StackSizes : Create(t, n)
    \/ \E f \in Frames : Push(t, f) \/ RefusePush(t, f)
    \/ Pop(t)
    \/ Current(t)

Spec == Init /\ [][Next]_vars
=============================================================================
