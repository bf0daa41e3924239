-------------------------- MODULE FrameStack_proof --------------------------
(***************************************************************************)
(* FrameStack is the bounded last-in-first-out stack of CallStack for any  *)
(* set of threads and frames, any stack sizes an unsigned int can hold and *)
(* any width of it, as long as a popped frame is only pushed again on a    *)
(* stack that has a frame.                                                 *)
(***************************************************************************)
EXTENDS FrameStack, SequenceTheorems, TLAPS

(* A stack without its last frame keeps the frames before it. *)
LEMMA BelowProperties ==
  ASSUME NEW s \in Seq(Frames), s # <<>>
  PROVE  /\ CS!Below(s) \in Seq(Frames)
         /\ Len(s) \in Nat \ {0}
         /\ Len(CS!Below(s)) = Len(s) - 1
         /\ \A i \in 1 .. Len(s) - 1 : CS!Below(s)[i] = s[i]
<1> DEFINE n == Len(s) - 1
<1>1. Len(s) \in Nat \ {0}
  BY EmptySeq, LenProperties
<1>2. 1 \in Int /\ n \in Nat /\ n \in Int /\ \A i \in 1 .. n : s[i] \in Frames
  BY <1>1, ElementOfSeq
<1> HIDE DEF n
<1>3. /\ SubSeq(s, 1, n) \in Seq(Frames)
      /\ Len(SubSeq(s, 1, n)) = IF 1 <= n THEN n - 1 + 1 ELSE 0
      /\ \A i \in 1 .. n - 1 + 1 : SubSeq(s, 1, n)[i] = s[1 + i - 1]
  BY <1>2, SubSeqProperties
<1>4. \A i \in 1 .. n : SubSeq(s, 1, n)[i] = s[i]
  <2> SUFFICES ASSUME NEW i \in 1 .. n
               PROVE  SubSeq(s, 1, n)[i] = s[i]
    OBVIOUS
  <2>1. i \in 1 .. n - 1 + 1 /\ 1 + i - 1 = i
    BY <1>2
  <2>2. QED
    BY <2>1, <1>3
<1>5. Len(SubSeq(s, 1, n)) = n
  BY <1>2, <1>3
<1>6. QED
  BY <1>1, <1>3, <1>4, <1>5 DEF CS!Below, n

(* A push adds one frame at the end of the history. *)
LEMMA PushProperties ==
  ASSUME NEW s \in Seq(Frames), NEW f \in Frames
  PROVE  /\ Append(s, f) \in Seq(Frames)
         /\ Append(s, f) # <<>>
         /\ Len(s) \in Nat
         /\ Len(Append(s, f)) = Len(s) + 1
         /\ \A i \in 1 .. Len(s) : Append(s, f)[i] = s[i]
         /\ Append(s, f)[Len(s) + 1] = f
BY AppendProperties, LenProperties

(* _top is a frame exactly when something is pushed, and then it is the    *)
(* last element of the history.                                            *)
LEMMA TopProperties ==
  ASSUME IInv, NEW t \in Threads
  PROVE  /\ top[t] = NULL <=> calls[t] = <<>>
         /\ calls[t] \in Seq(Frames)
         /\ calls[t] # <<>> => /\ Len(calls[t]) \in 1 .. Len(calls[t])
                               /\ top[t] = calls[t][Len(calls[t])]
                               /\ top[t] \in Frames
<1>1. calls[t] \in Seq(Frames) /\ Len(calls[t]) \in Nat
  BY LenProperties DEF IInv, TypeOK
<1>2. calls[t] # <<>> => Len(calls[t]) \in Nat \ {0}
  BY <1>1, EmptySeq
<1>3. calls[t] # <<>> => calls[t][Len(calls[t])] \in Frames
  BY <1>1, <1>2, ElementOfSeq
<1>4. top[t] = CS!TopOf(calls[t])
  BY DEF IInv, ListIsCallHistory
<1>5. QED
  BY <1>1, <1>2, <1>3, <1>4, NullAssumption DEF CS!TopOf

-----------------------------------------------------------------------------
(* What each call keeps of the inductive invariant. *)

(* No thread and no frame has been made. *)
LEMMA InitIInv == Init => IInv
<1>1. <<>> \in Seq(Frames) /\ Len(<<>>) = 0
  BY EmptySeq
<1>2. QED
  BY <1>1, WordAssumption
  DEF Init, IInv, TypeOK, ListIsCallHistory, FramesOnOneStack,
      FreshFramesEndAList, CS!TopOf, Owners


(* A new thread's stack is empty. *)
LEMMA NewKeepsIInv ==
  ASSUME IInv, NEW t \in Threads, NEW n \in StackSizes, Thread_New(t, n)
  PROVE  IInv'
<1>1. calls[t] = <<>> /\ Len(<<>>) = 0
  BY EmptySeq DEF IInv, ListIsCallHistory, Thread_New
<1>2. n \in 0 .. Word - 1 /\ 0 \in 0 .. Word - 1
  BY SizesAssumption, WordAssumption
<1>3. TypeOK'
  BY <1>2 DEF IInv, TypeOK, Thread_New
<1>4. ListIsCallHistory'
  BY <1>1, <1>2 DEF IInv, TypeOK, ListIsCallHistory, Thread_New, CS!TopOf, Under
<1>5. FramesOnOneStack' /\ FreshFramesEndAList'
  BY DEF IInv, FramesOnOneStack, FreshFramesEndAList, Thread_New
<1>6. QED
  BY <1>3, <1>4, <1>5 DEF IInv

(* A frame that is not on a stack is in no thread's history. *)
LEMMA FreeFrames ==
  ASSUME IInv, NEW f \in Frames, owner[f] # "stacked"
  PROVE  \A t \in Threads : \A i \in 1 .. Len(calls[t]) : calls[t][i] # f
BY DEF IInv, FramesOnOneStack

(* A new frame is on no stack and leads to none. *)
LEMMA FrameNewKeepsIInv ==
  ASSUME IInv, NEW f \in Frames, Frame_New(f)
  PROVE  IInv'
<1>1. \A t \in Threads : \A i \in 1 .. Len(calls[t]) : calls[t][i] # f
  BY FreeFrames DEF Frame_New
<1>2. \A t \in Threads : \A i \in 1 .. Len(calls[t]) : calls[t][i] \in Frames
  BY LenProperties, ElementOfSeq DEF IInv, TypeOK
<1>3. TypeOK'
  BY DEF IInv, TypeOK, Frame_New, Owners
<1>4. ListIsCallHistory'
  BY <1>1, <1>2 DEF IInv, TypeOK, ListIsCallHistory, Frame_New, CS!TopOf, Under
<1>5. FramesOnOneStack'
  BY <1>1, <1>2 DEF IInv, TypeOK, FramesOnOneStack, Frame_New
<1>6. FreshFramesEndAList'
  BY DEF IInv, TypeOK, FreshFramesEndAList, Frame_New
<1>7. QED
  BY <1>3, <1>4, <1>5, <1>6 DEF IInv

(* A push writes the counter and lower so that the list and the history    *)
(* grow by the same frame; the pushed frame is on no list yet, so no other *)
(* link is disturbed.  On an empty stack lower is not written: the frame   *)
(* is then a fresh one, whose lower is still NULL.                         *)
LEMMA PushKeepsIInv ==
  ASSUME Disciplined, IInv, NEW t \in Threads, NEW f \in Frames,
         Thread_PushFrame(t, f)
  PROVE  IInv'
<1> DEFINE s == calls[t]
<1>1. owner[f] # "stacked"
  BY DEF Thread_PushFrame, Pushable
<1>2. \A u \in Threads : \A i \in 1 .. Len(calls[u]) :
        calls[u][i] # f /\ calls[u][i] \in Frames
  BY <1>1, FreeFrames, LenProperties, ElementOfSeq DEF IInv, TypeOK
<1>3. s \in Seq(Frames) /\ Len(s) \in Nat
  BY LenProperties DEF IInv, TypeOK
<1>4. /\ calls' = [calls EXCEPT ![t] = Append(s, f)]
      /\ Append(s, f) \in Seq(Frames)
      /\ Append(s, f) # <<>>
      /\ Len(Append(s, f)) = Len(s) + 1
      /\ \A i \in 1 .. Len(s) : Append(s, f)[i] = s[i]
      /\ Append(s, f)[Len(s) + 1] = f
  BY <1>3, PushProperties DEF Thread_PushFrame
<1>5. /\ calls'[t] = Append(s, f)
      /\ \A u \in Threads : u # t => calls'[u] = calls[u]
  BY <1>4 DEF IInv, TypeOK
<1>6. /\ size[t] = Len(s) /\ size[t] < maxSize[t]
      /\ size[t] + 1 \in 0 .. Word - 1
      /\ (size[t] + 1) % Word = size[t] + 1
      /\ maxSize[t] \in 0 .. Word - 1
  <2>1. /\ size[t] = Len(s) /\ size[t] < maxSize[t]
        /\ size[t] \in 0 .. Word - 1 /\ maxSize[t] \in 0 .. Word - 1
    BY DEF IInv, TypeOK, ListIsCallHistory, Thread_PushFrame
  <2>2. size[t] + 1 \in 0 .. Word - 1
    BY <2>1, WordAssumption
  <2>3. \A n \in 0 .. Word - 1 : n % Word = n
    BY WordAssumption
  <2>4. QED
    BY <2>1, <2>2, <2>3
<1>7. /\ lower' \in [Frames -> Frames \cup {NULL}]
      /\ \A g \in Frames : g # f => lower'[g] = lower[g]
      /\ lower'[f] = top[t]
  <2>1. CASE top[t] # NULL
    BY <2>1 DEF IInv, TypeOK, Thread_PushFrame
  <2>2. CASE top[t] = NULL
    BY <2>2 DEF IInv, TypeOK, FreshFramesEndAList, Thread_PushFrame, Pushable,
                Disciplined
  <2>3. QED
    BY <2>1, <2>2
<1>8. TypeOK'
  <2>1. /\ live' \subseteq Threads
        /\ maxSize' \in [Threads -> 0 .. Word - 1]
        /\ status' \in {0, -1}
        /\ top' \in [Threads -> Frames \cup {NULL}]
        /\ owner' \in [Frames -> Owners]
    BY DEF IInv, TypeOK, Thread_PushFrame, Owners
  <2>2. size' \in [Threads -> 0 .. Word - 1]
    BY <1>6 DEF IInv, TypeOK, Thread_PushFrame
  <2>3. calls' \in [Threads -> Seq(Frames)]
    BY <1>4 DEF IInv, TypeOK
  <2>4. QED
    BY <1>7, <2>1, <2>2, <2>3 DEF TypeOK
<1>9. ListIsCallHistory'
  <2> SUFFICES ASSUME NEW u \in Threads
               PROVE  /\ u \notin live' => calls'[u] = <<>>
                      /\ size'[u] = Len(calls'[u])
                      /\ size'[u] <= maxSize'[u]
                      /\ top'[u] = CS!TopOf(calls'[u])
                      /\ \A i \in 1 .. Len(calls'[u]) :
                           lower'[calls'[u][i]] = Under(calls'[u], i)
    BY DEF ListIsCallHistory, CS!TopOf
  <2>1. CASE u = t
    <3>1. u \in live' /\ size'[u] = Len(calls'[u]) /\ size'[u] <= maxSize'[u]
      BY <2>1, <1>3, <1>4, <1>5, <1>6 DEF IInv, TypeOK, Thread_PushFrame
    <3>2. top'[u] = CS!TopOf(calls'[u])
      BY <2>1, <1>4, <1>5 DEF IInv, TypeOK, Thread_PushFrame, CS!TopOf
    <3>3. ASSUME NEW i \in 1 .. Len(s)
          PROVE  lower'[calls'[u][i]] = Under(calls'[u], i)
      <4>1. calls'[u][i] = s[i] /\ (i # 1 => i - 1 \in 1 .. Len(s))
        BY <2>1, <1>3, <1>4, <1>5
      <4>2. lower'[s[i]] = lower[s[i]]
        BY <1>2, <1>7
      <4>3. lower[s[i]] = Under(s, i)
        BY DEF IInv, ListIsCallHistory
      <4>4. Under(calls'[u], i) = Under(s, i)
        BY <4>1, <2>1, <1>4, <1>5 DEF Under
      <4>5. QED
        BY <4>1, <4>2, <4>3, <4>4
    <3>4. lower'[calls'[u][Len(s) + 1]] = Under(calls'[u], Len(s) + 1)
      <4>1. calls'[u][Len(s) + 1] = f
        BY <2>1, <1>4, <1>5
      <4>2. CASE s = <<>>
        BY <4>1, <4>2, <1>7, TopProperties, EmptySeq DEF Under
      <4>3. CASE s # <<>>
        BY <4>1, <4>3, <2>1, <1>3, <1>4, <1>5, <1>7, TopProperties DEF Under
      <4>4. QED
        BY <4>2, <4>3
    <3>5. \A i \in 1 .. Len(calls'[u]) : i \in 1 .. Len(s) \/ i = Len(s) + 1
      BY <2>1, <1>3, <1>4, <1>5
    <3>6. QED
      BY <3>1, <3>2, <3>3, <3>4, <3>5
  <2>2. CASE u # t
    <3>1. calls'[u] = calls[u]
      BY <2>2, <1>5
    <3>2. \A i \in 1 .. Len(calls[u]) : lower'[calls[u][i]] = lower[calls[u][i]]
      BY <1>2, <1>7
    <3>3. QED
      BY <2>2, <3>1, <3>2
      DEF IInv, TypeOK, ListIsCallHistory, Thread_PushFrame, CS!TopOf, Under
  <2>3. QED
    BY <2>1, <2>2
<1>10. FramesOnOneStack'
  <2>1. \A u \in Threads : \A i \in 1 .. Len(calls'[u]) :
          \/ i \in 1 .. Len(calls[u]) /\ calls'[u][i] = calls[u][i]
          \/ u = t /\ i = Len(s) + 1 /\ calls'[u][i] = f
    BY <1>3, <1>4, <1>5
  <2>2. owner'[f] = "stacked" /\ \A g \in Frames : g # f => owner'[g] = owner[g]
    BY DEF IInv, TypeOK, Thread_PushFrame
  <2>3. ASSUME NEW u \in Threads, NEW i \in 1 .. Len(calls'[u])
        PROVE  owner'[calls'[u][i]] = "stacked"
    <3>1. CASE i \in 1 .. Len(calls[u]) /\ calls'[u][i] = calls[u][i]
      <4>1. owner[calls[u][i]] = "stacked"
        BY <3>1 DEF IInv, FramesOnOneStack
      <4>2. QED
        BY <4>1, <3>1, <2>2, <1>2
    <3>2. CASE calls'[u][i] = f
      BY <3>2, <2>2
    <3>3. QED
      BY <3>1, <3>2, <2>1
  <2>4. ASSUME NEW u \in Threads, NEW v \in Threads,
               NEW i \in 1 .. Len(calls'[u]), NEW j \in 1 .. Len(calls'[v]),
               calls'[u][i] = calls'[v][j]
        PROVE  u = v /\ i = j
    <3>1. /\ \/ i \in 1 .. Len(calls[u]) /\ calls'[u][i] = calls[u][i]
             \/ u = t /\ i = Len(s) + 1 /\ calls'[u][i] = f
          /\ \/ j \in 1 .. Len(calls[v]) /\ calls'[v][j] = calls[v][j]
             \/ v = t /\ j = Len(s) + 1 /\ calls'[v][j] = f
      BY <2>1
    <3>2. CASE calls'[u][i] = f
      <4>1. /\ i \in 1 .. Len(calls[u]) => calls[u][i] # f
            /\ j \in 1 .. Len(calls[v]) => calls[v][j] # f
        BY <1>2
      <4>2. QED
        BY <4>1, <3>1, <3>2, <2>4
    <3>3. CASE calls'[u][i] # f
      <4>1. /\ i \in 1 .. Len(calls[u]) /\ j \in 1 .. Len(calls[v])
            /\ calls[u][i] = calls[v][j]
        BY <3>1, <3>3, <2>4
      <4>2. QED
        BY <4>1 DEF IInv, FramesOnOneStack
    <3>4. QED
      BY <3>2, <3>3
  <2>5. QED
    BY <2>3, <2>4 DEF FramesOnOneStack
<1>11. FreshFramesEndAList'
  BY <1>7 DEF IInv, TypeOK, FreshFramesEndAList, Thread_PushFrame
<1>12. QED
  BY <1>8, <1>9, <1>10, <1>11 DEF IInv

(* A pop follows one link, which leads to the frame below in the history. *)
LEMMA PopKeepsIInv ==
  ASSUME IInv, NEW t \in Threads, Thread_PopFrame(t)
  PROVE  IInv'
<1> DEFINE s == calls[t]
<1>1. /\ s \in Seq(Frames) /\ s # <<>>
      /\ top[t] = s[Len(s)] /\ top[t] \in Frames
  BY TopProperties DEF Thread_PopFrame
<1>2. /\ CS!Below(s) \in Seq(Frames)
      /\ Len(s) \in Nat \ {0}
      /\ Len(CS!Below(s)) = Len(s) - 1
      /\ \A i \in 1 .. Len(s) - 1 : CS!Below(s)[i] = s[i]
  BY <1>1, BelowProperties
<1>3. /\ calls' = [calls EXCEPT ![t] = CS!Below(s)]
      /\ calls'[t] = CS!Below(s)
      /\ \A u \in Threads : u # t => calls'[u] = calls[u]
  BY <1>1 DEF IInv, TypeOK, Thread_PopFrame
<1>4. /\ size[t] = Len(s)
      /\ size[t] - 1 \in 0 .. Word - 1
      /\ (size[t] + Word - 1) % Word = size[t] - 1
  <2>1. size[t] = Len(s) /\ size[t] \in 0 .. Word - 1
    BY DEF IInv, TypeOK, ListIsCallHistory
  <2>2. size[t] - 1 \in 0 .. Word - 1 /\ size[t] + Word - 1 = (size[t] - 1) + Word
    BY <2>1, <1>2, WordAssumption
  <2>3. \A n \in 0 .. Word - 1 : (n + Word) % Word = n
    BY WordAssumption
  <2>4. QED
    BY <2>1, <2>2, <2>3
<1>5. lower[top[t]] = Under(s, Len(s)) /\ lower' = lower
  <2>1. \A i \in 1 .. Len(s) : lower[s[i]] = Under(s, i)
    BY DEF IInv, ListIsCallHistory
  <2>2. Len(s) \in 1 .. Len(s)
    BY <1>2
  <2>3. lower[s[Len(s)]] = Under(s, Len(s))
    BY <2>1, <2>2
  <2>4. lower' = lower
    BY DEF Thread_PopFrame
  <2>5. QED
    BY <2>3, <2>4, <1>1
<1>6. TypeOK'
  <2>1. size' \in [Threads -> 0 .. Word - 1]
    BY <1>4 DEF IInv, TypeOK, Thread_PopFrame
  <2>2. calls' \in [Threads -> Seq(Frames)]
    BY <1>2, <1>3 DEF IInv, TypeOK
  <2>3. QED
    BY <2>1, <2>2, <1>1 DEF IInv, TypeOK, Thread_PopFrame, Owners
<1>7. ListIsCallHistory'
  <2> SUFFICES ASSUME NEW u \in Threads
               PROVE  /\ u \notin live' => calls'[u] = <<>>
                      /\ size'[u] = Len(calls'[u])
                      /\ size'[u] <= maxSize'[u]
                      /\ top'[u] = CS!TopOf(calls'[u])
                      /\ \A i \in 1 .. Len(calls'[u]) :
                           lower'[calls'[u][i]] = Under(calls'[u], i)
    BY DEF ListIsCallHistory, CS!TopOf
  <2>1. CASE u = t
    <3>1. /\ u \in live' /\ size'[u] = Len(s) - 1 /\ size'[u] <= maxSize'[u]
          /\ Len(calls'[u]) = Len(s) - 1
      BY <2>1, <1>2, <1>3, <1>4
      DEF IInv, TypeOK, ListIsCallHistory, Thread_PopFrame
    <3>2. top'[u] = CS!TopOf(calls'[u])
      <4>1. top'[u] = Under(s, Len(s))
        BY <2>1, <1>5 DEF IInv, TypeOK, Thread_PopFrame
      <4>2. CASE Len(s) = 1
        <5>1. calls'[u] = <<>>
          BY <4>2, <2>1, <1>2, <1>3, EmptySeq
        <5>2. QED
          BY <4>1, <4>2, <5>1 DEF Under, CS!TopOf
      <4>3. CASE Len(s) # 1
        <5>1. Len(calls'[u]) = Len(s) - 1 /\ Len(s) - 1 \in 1 .. Len(s) - 1
          <6>1. \A k \in Nat \ {0} : k # 1 => k - 1 \in 1 .. k - 1
            OBVIOUS
          <6>2. QED
            BY <6>1, <4>3, <2>1, <1>2, <1>3
        <5>2. calls'[u] # <<>>
          <6>1. Len(<<>>) = 0
            BY EmptySeq
          <6>2. QED
            BY <5>1, <6>1
        <5>3. CS!TopOf(calls'[u]) = s[Len(s) - 1]
          BY <5>1, <5>2, <2>1, <1>2, <1>3 DEF CS!TopOf
        <5>4. QED
          BY <4>1, <4>3, <5>3 DEF Under
      <4>4. QED
        BY <4>2, <4>3
    <3>3. ASSUME NEW i \in 1 .. Len(s) - 1
          PROVE  lower'[calls'[u][i]] = Under(calls'[u], i)
      <4>1. /\ calls'[u][i] = s[i] /\ i \in 1 .. Len(s)
            /\ i # 1 => i - 1 \in 1 .. Len(s) - 1
        BY <2>1, <1>2, <1>3
      <4>2. lower[s[i]] = Under(s, i)
        BY <4>1 DEF IInv, ListIsCallHistory
      <4>3. Under(calls'[u], i) = Under(s, i)
        BY <4>1, <2>1, <1>2, <1>3 DEF Under
      <4>4. QED
        BY <4>1, <4>2, <4>3, <1>5
    <3>4. QED
      BY <3>1, <3>2, <3>3
  <2>2. CASE u # t
    <3>1. calls'[u] = calls[u]
      BY <2>2, <1>3
    <3>2. QED
      BY <2>2, <3>1, <1>5
      DEF IInv, TypeOK, ListIsCallHistory, Thread_PopFrame, CS!TopOf, Under
  <2>3. QED
    BY <2>1, <2>2
<1>8. FramesOnOneStack'
  <2>1. \A u \in Threads : \A i \in 1 .. Len(calls'[u]) :
          /\ i \in 1 .. Len(calls[u]) /\ calls'[u][i] = calls[u][i]
          /\ u = t => i # Len(s)
    BY <1>2, <1>3
  <2>2. \A u \in Threads : \A i \in 1 .. Len(calls'[u]) :
          calls'[u][i] # top[t] /\ calls'[u][i] \in Frames
    <3>1. \A u \in Threads : \A i \in 1 .. Len(calls'[u]) :
            calls'[u][i] \in Frames
      <4>1. \A u \in Threads : \A i \in 1 .. Len(calls[u]) :
              calls[u][i] \in Frames
        BY LenProperties, ElementOfSeq DEF IInv, TypeOK
      <4>2. QED
        BY <4>1, <2>1
    <3>2. Len(s) \in 1 .. Len(s)
      BY <1>2
    <3>3. QED
      BY <2>1, <3>1, <3>2, <1>1 DEF IInv, FramesOnOneStack
  <2>3. \A g \in Frames : g # top[t] => owner'[g] = owner[g]
    BY <1>1 DEF IInv, TypeOK, Thread_PopFrame
  <2>4. QED
    BY <2>1, <2>2, <2>3 DEF IInv, FramesOnOneStack
<1>9. FreshFramesEndAList'
  BY <1>1 DEF IInv, TypeOK, FreshFramesEndAList, Thread_PopFrame
<1>10. QED
  BY <1>6, <1>7, <1>8, <1>9 DEF IInv

(* The calls that only answer, and a step that changes nothing. *)
LEMMA AnswerKeepsIInv ==
  ASSUME IInv, status' \in {0, -1},
         UNCHANGED <<live, maxSize, size, top, lower, owner, calls>>
  PROVE  IInv'
<1>1. TypeOK' /\ FreshFramesEndAList'
  BY DEF IInv, TypeOK, FreshFramesEndAList
<1>2. ListIsCallHistory'
  BY DEF IInv, ListIsCallHistory, CS!TopOf, Under
<1>3. FramesOnOneStack'
  BY DEF IInv, FramesOnOneStack
<1>4. QED
  BY <1>1, <1>2, <1>3 DEF IInv

(* Every call keeps the invariant, if its user is disciplined. *)
LEMMA StepKeepsIInv ==
  ASSUME Disciplined, IInv, [Next]_vars
  PROVE  IInv'
<1>1. ASSUME NEW t \in Threads, NEW n \in StackSizes, Thread_New(t, n)
      PROVE  IInv'
  BY <1>1, NewKeepsIInv
<1>2. ASSUME NEW f \in Frames, Frame_New(f)
      PROVE  IInv'
  BY <1>2, FrameNewKeepsIInv
<1>3. ASSUME NEW t \in Threads, NEW f \in Frames, Thread_PushFrame(t, f)
      PROVE  IInv'
  BY <1>3, PushKeepsIInv
<1>4. ASSUME NEW t \in Threads, NEW f \in Frames, Thread_PushRefused(t, f)
      PROVE  IInv'
  BY <1>4, AnswerKeepsIInv DEF Thread_PushRefused
<1>5. ASSUME NEW t \in Threads, Thread_PopFrame(t)
      PROVE  IInv'
  BY <1>5, PopKeepsIInv
<1>6. ASSUME NEW t \in Threads, Thread_PopRefused(t) \/ Thread_CurrentFrame(t)
      PROVE  IInv'
  BY <1>6, AnswerKeepsIInv
  DEF IInv, TypeOK, Thread_PopRefused, Thread_CurrentFrame
<1>7. CASE UNCHANGED vars
  BY <1>7, AnswerKeepsIInv DEF IInv, TypeOK, vars
<1>8. QED
  BY <1>1, <1>2, <1>3, <1>4, <1>5, <1>6, <1>7 DEF Next

-----------------------------------------------------------------------------
(* The theorems. *)

(* Whatever the threads do, thread.c keeps the list of each thread, its    *)
(* counter and its _top in step with the calls made, and no frame is on    *)
(* two lists, provided popped frames are not pushed on an empty stack.     *)
THEOREM InductiveInvariant == ASSUME Disciplined PROVE Spec => []IInv
<1>1. Init => IInv
  BY InitIInv
<1>2. IInv /\ [Next]_vars => IInv'
  BY StepKeepsIInv
<1>3. QED
  BY <1>1, <1>2, PTL DEF Spec

(* The counters stay unsigned ints and the pointers frames or NULL. *)
THEOREM TypeCorrect == ASSUME Disciplined PROVE Spec => []TypeOK
<1>1. IInv => TypeOK
  BY DEF IInv
<1>2. QED
  BY <1>1, InductiveInvariant, PTL

(* Stack.size, Stack._top and Frame.lower describe the frames pushed and   *)
(* not popped: the list never loses a frame, gains one or has a cycle.     *)
THEOREM ListIsHistory == ASSUME Disciplined PROVE Spec => []ListIsCallHistory
<1>1. IInv => ListIsCallHistory
  BY DEF IInv
<1>2. QED
  BY <1>1, InductiveInvariant, PTL

(* A frame that was made and not pushed yet has no frame below it, so that *)
(* the first push on an empty stack starts a list that ends there.         *)
THEOREM FreshFramesAreBottoms == ASSUME Disciplined PROVE Spec => []FreshFramesEndAList
<1>1. IInv => FreshFramesEndAList
  BY DEF IInv
<1>2. QED
  BY <1>1, InductiveInvariant, PTL

(* No call rewrites the lower pointer of a frame that stays on a stack:    *)
(* Stack_Push writes that of the frame it pushes, which is on no stack,    *)
(* and Stack_Pop writes none.  This needs no discipline of the caller.     *)
THEOREM LinksFrozen == Spec => StackedLinksFrozen
<1> DEFINE Frozen == \A f \in Frames : owner[f] = "stacked" /\ owner'[f] = "stacked"
                                         => lower'[f] = lower[f]
           Typed == /\ lower \in [Frames -> Frames \cup {NULL}]
                    /\ top \in [Threads -> Frames \cup {NULL}]
<1>1. Init => Typed
  BY DEF Init
<1>2. Typed /\ [Next]_vars => Typed' /\ [Frozen]_vars
  <2> SUFFICES ASSUME Typed, [Next]_vars
               PROVE  Typed' /\ Frozen
    OBVIOUS
  <2>1. ASSUME NEW t \in Threads, NEW n \in StackSizes, Thread_New(t, n)
        PROVE  Typed' /\ Frozen
    BY <2>1 DEF Thread_New
  <2>2. ASSUME NEW f \in Frames, Frame_New(f)
        PROVE  Typed' /\ Frozen
    BY <2>2 DEF Frame_New
  <2>3. ASSUME NEW t \in Threads, NEW f \in Frames, Thread_PushFrame(t, f)
        PROVE  Typed' /\ Frozen
    BY <2>3 DEF Thread_PushFrame, Pushable
  <2>4. ASSUME NEW t \in Threads, NEW f \in Frames, Thread_PushRefused(t, f)
        PROVE  Typed' /\ Frozen
    BY <2>4 DEF Thread_PushRefused
  <2>5. ASSUME NEW t \in Threads, Thread_PopFrame(t)
        PROVE  Typed' /\ Frozen
    BY <2>5 DEF Thread_PopFrame
  <2>6. ASSUME NEW t \in Threads, Thread_PopRefused(t) \/ Thread_CurrentFrame(t)
        PROVE  Typed' /\ Frozen
    BY <2>6 DEF Thread_PopRefused, Thread_CurrentFrame
  <2>7. CASE UNCHANGED vars
    BY <2>7 DEF vars
  <2>8. QED
    BY <2>1, <2>2, <2>3, <2>4, <2>5, <2>6, <2>7 DEF Next
<1>3. QED
  BY <1>1, <1>2, PTL DEF Spec, StackedLinksFrozen

(* thread.c implements the bounded last-in-first-out stacks of CallStack:  *)
(* Frame_New is a step the abstract stack does not see, every other call   *)
(* is the abstract call of the same name, and the two refusals of          *)
(* Stack_Push and Stack_Pop are given exactly when the history is full or  *)
(* empty.                                                                  *)
THEOREM Refinement == ASSUME Disciplined PROVE Spec => ImplementsCallStack
<1>1. Init => CS!Init
  BY DEF Init, CS!Init, CS!Answer
<1>2. IInv /\ [Next]_vars => [CS!Next]_(CS!vars)
  <2> SUFFICES ASSUME IInv, [Next]_vars
               PROVE  CS!Next \/ UNCHANGED CS!vars
    OBVIOUS
  <2>1. ASSUME NEW t \in Threads, NEW n \in StackSizes, Thread_New(t, n)
        PROVE  CS!Next
    BY <2>1 DEF Thread_New, CS!Next, CS!Create
  <2>2. ASSUME NEW f \in Frames, Frame_New(f)
        PROVE  UNCHANGED CS!vars
    BY <2>2 DEF Frame_New, CS!vars
  <2>3. ASSUME NEW t \in Threads, NEW f \in Frames, Thread_PushFrame(t, f)
        PROVE  CS!Next
    <3>1. Len(calls[t]) < maxSize[t]
      BY <2>3 DEF IInv, ListIsCallHistory, Thread_PushFrame
    <3>2. CS!Push(t, f)
      BY <2>3, <3>1 DEF Thread_PushFrame, CS!Push
    <3>3. QED
      BY <3>2 DEF CS!Next
  <2>4. ASSUME NEW t \in Threads, NEW f \in Frames, Thread_PushRefused(t, f)
        PROVE  CS!Next
    <3>1. Len(calls[t]) = maxSize[t]
      BY <2>4 DEF IInv, TypeOK, ListIsCallHistory, Thread_PushRefused
    <3>2. CS!RefusePush(t, f)
      BY <2>4, <3>1 DEF Thread_PushRefused, CS!RefusePush
    <3>3. QED
      BY <3>2 DEF CS!Next
  <2>5. ASSUME NEW t \in Threads, Thread_PopFrame(t)
        PROVE  CS!Next
    <3>1. calls[t] # <<>> /\ top[t] = CS!TopOf(calls[t])
      BY <2>5, TopProperties DEF Thread_PopFrame, CS!TopOf
    <3>2. CS!Pop(t)
      BY <2>5, <3>1 DEF Thread_PopFrame, CS!Pop
    <3>3. QED
      BY <3>2 DEF CS!Next
  <2>6. ASSUME NEW t \in Threads, Thread_PopRefused(t)
        PROVE  CS!Next
    <3>1. calls[t] = <<>> /\ CS!TopOf(calls[t]) = NULL
      BY <2>6, TopProperties DEF Thread_PopRefused, CS!TopOf
    <3>2. calls = [calls EXCEPT ![t] = calls[t]]
      BY DEF IInv, TypeOK
    <3>3. CS!Pop(t)
      BY <2>6, <3>1, <3>2 DEF Thread_PopRefused, CS!Pop
    <3>4. QED
      BY <3>3 DEF CS!Next
  <2>7. ASSUME NEW t \in Threads, Thread_CurrentFrame(t)
        PROVE  CS!Next
    <3>1. /\ top[t] = NULL <=> calls[t] = <<>>
          /\ top[t] = CS!TopOf(calls[t])
      BY TopProperties DEF IInv, ListIsCallHistory
    <3>2. CS!Current(t)
      BY <2>7, <3>1 DEF Thread_CurrentFrame, CS!Current
    <3>3. QED
      BY <3>2 DEF CS!Next
  <2>8. CASE UNCHANGED vars
    BY <2>8 DEF vars, CS!vars
  <2>9. QED
    BY <2>1, <2>2, <2>3, <2>4, <2>5, <2>6, <2>7, <2>8 DEF Next
<1>3. QED
  BY <1>1, <1>2, InductiveInvariant, PTL DEF Spec, CS!Spec, ImplementsCallStack
=============================================================================
