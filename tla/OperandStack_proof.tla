------------------------- MODULE OperandStack_proof -------------------------
(***************************************************************************)
(* OperandStack answers typed code as OperandValues does, for all stack    *)
(* sizes, widths of a word and values, if its pointers fit an int32_t; no  *)
(* pointer stays above its top.                                            *)
(***************************************************************************)
EXTENDS OperandStack, SequenceTheorems, TLAPS

(* Every pointer is the number an int32_t of the same bits is. *)
RefsFit == \A v \in Values["ref"] : 2 * v < Word

(* What a typed value is. *)
LEMMA TypedProperties ==
  /\ \A k \in DOMAIN Values : \A v \in Values[k] :
       [kind |-> k, v |-> v] \in TypedValues
  /\ \A r \in TypedValues :
       r.kind \in DOMAIN Values /\ r.v \in Values[r.kind]
BY DEF TypedValues

(* A value takes one slot or two. *)
LEMMA NeedProperties ==
  \A k : OV!Need(k) \in {1, 2} /\ (OV!Need(k) = 2 <=> k \in {"long", "double"})
BY DEF OV!Need

(* The words of a value are words, and make the value again. *)
LEMMA WordsProperties ==
  ASSUME NEW v \in 0 .. Word * Word - 1
  PROVE  /\ Low(v) \in 0 .. Word - 1
         /\ High(v) \in 0 .. Word - 1
         /\ Join(High(v), Low(v)) = v
<1>1. Word \in Nat /\ Word > 0 /\ Word * Word \in Nat
  BY WordAssumption
<1>2. /\ v % Word \in 0 .. Word - 1
      /\ v = ((v \div Word) * Word) + (v % Word)
      /\ v \div Word \in Int
  BY <1>1
<1>3. (v \div Word) \in 0 .. Word - 1
  <2> DEFINE q == v \div Word
             r == v % Word
  <2>1. /\ v = q * Word + r /\ q \in Int /\ r \in Int
        /\ 0 <= r /\ r < Word /\ v < Word * Word /\ 0 <= v /\ v \in Int
    BY <1>1, <1>2
  <2> HIDE DEF q, r
  <2>2. ASSUME q < 0 PROVE FALSE
    <3>1. q * Word <= -Word
      BY <2>1, <2>2, <1>1
    <3>2. QED
      BY <2>1, <3>1, <1>1
  <2>3. ASSUME q >= Word PROVE FALSE
    <3>1. q * Word >= Word * Word
      BY <2>1, <2>3, <1>1
    <3>2. QED
      BY <2>1, <3>1, <1>1
  <2>4. q \in 0 .. Word - 1
    BY <2>1, <2>2, <2>3, <1>1
  <2>5. QED
    BY <2>4 DEF q
<1>4. (v \div Word) % Word = v \div Word
  BY <1>1, <1>3
<1>5. QED
  BY <1>1, <1>2, <1>3, <1>4 DEF Low, High, Join

(* A value of one word is its low word. *)
LEMMA WordProperties ==
  ASSUME NEW v \in 0 .. Word - 1
  PROVE  Low(v) = v
BY WordAssumption DEF Low

-----------------------------------------------------------------------------
(* The tests of frame.c, in the arithmetic of an unsigned int, compare what *)
(* they mean to compare.                                                   *)
LEMMA SizeProperties ==
  ASSUME TypeOK
  PROVE  /\ maxSize \in Nat /\ size \in 0 .. maxSize
         /\ size < maxSize => (size + 1) % Uint = size + 1
         /\ size + 1 < maxSize => (size + 2) % Uint = size + 2
         /\ \A k : ~Overflows(k) <=> size + OV!Need(k) <= maxSize
         /\ \A k : ~Underflows(k) <=> OV!Need(k) <= size
<1>1. /\ Uint \in Nat /\ Uint > 0
      /\ maxSize \in 0 .. Uint - 2 /\ size \in 0 .. maxSize
  BY UintAssumption, SizesAssumption DEF TypeOK
<1>2. \A n \in 0 .. Uint - 1 : n % Uint = n
  BY <1>1
<1>3. (size + 1) % Uint = size + 1
  BY <1>1, <1>2
<1>4. size + 1 < maxSize => (size + 2) % Uint = size + 2
  BY <1>1, <1>2
<1>5. \A k : ~Overflows(k) <=> size + OV!Need(k) <= maxSize
  BY <1>1, <1>3, NeedProperties DEF Overflows
<1>6. \A k : ~Underflows(k) <=> OV!Need(k) <= size
  BY <1>1, NeedProperties DEF Underflows
<1>7. QED
  BY <1>1, <1>3, <1>4, <1>5, <1>6

(* The values on the stack are typed values. *)
LEMMA ValueProperties ==
  ASSUME TypeOK
  PROVE  /\ values \in Seq(TypedValues) /\ Len(values) \in Nat
         /\ \A i \in 1 .. Len(values) : values[i] \in TypedValues
         /\ values # <<>> => Len(values) \in 1 .. Len(values)
<1>1. values \in Seq(TypedValues)
  BY DEF TypeOK
<1>2. Len(values) \in Nat /\ \A i \in 1 .. Len(values) : values[i] \in TypedValues
  BY <1>1, LenProperties, ElementOfSeq
<1>3. values # <<>> => Len(values) # 0
  BY <1>1, EmptySeq
<1>4. QED
  BY <1>1, <1>2, <1>3

(* No value reaches above the top. *)
LEMMA PlacesBelowTop ==
  ASSUME TypeOK, NEW at \in [1 .. Len(values) -> 0 .. maxSize], Placed(at),
         NEW i \in 1 .. Len(values)
  PROVE  at[i] + OV!Need(values[i].kind) <= size
<1> DEFINE n == Len(values)
<1>1. n \in Nat /\ n \in 1 .. n /\ values # <<>> /\ maxSize \in Nat /\ size \in Nat
  BY ValueProperties, SizeProperties, EmptySeq
<1>2. at[n] + OV!Need(values[n].kind) = size
  BY <1>1 DEF Placed
<1>3. CASE i = n
  BY <1>1, <1>2, <1>3
<1>4. CASE i # n
  <2>1. at[i] + OV!Need(values[i].kind) <= at[n]
    BY <1>1, <1>4 DEF Placed
  <2>2. at[i] \in Nat /\ at[n] \in Nat
    BY <1>1
  <2>3. QED
    BY <2>1, <2>2, <1>1, <1>2, NeedProperties
<1>5. QED
  BY <1>3, <1>4

(* The value on top lies in the slots under the top. *)
LEMMA TopValue ==
  ASSUME IInv, values # <<>>
  PROVE  LET r == values[Len(values)] IN
         /\ r \in TypedValues
         /\ OV!Need(r.kind) <= size
         /\ Stored(r, size - OV!Need(r.kind))
<1> DEFINE n == Len(values)
           r == values[n]
<1>1. PICK at \in [1 .. n -> 0 .. maxSize] : Placed(at)
  BY DEF IInv
<1>2. n \in 1 .. n /\ r \in TypedValues /\ maxSize \in Nat /\ size \in Nat
  BY ValueProperties, SizeProperties DEF IInv
<1>3. at[n] + OV!Need(r.kind) = size /\ Stored(r, at[n]) /\ at[n] \in Nat
  BY <1>1, <1>2 DEF Placed
<1>4. at[n] = size - OV!Need(r.kind)
  BY <1>2, <1>3, NeedProperties
<1>5. QED
  BY <1>2, <1>3, <1>4, NeedProperties

(* A push writes above the top only, so the values below keep their places *)
(* and the new one lies on them.                                           *)
LEMMA PushKeepsPlaces ==
  ASSUME IInv, NEW at \in [1 .. Len(values) -> 0 .. maxSize], Placed(at), NEW k \in DOMAIN Values, NEW v \in Values[k],
         size + OV!Need(k) <= maxSize,
         maxSize' = maxSize, size' = size + OV!Need(k),
         values' = Append(values, [kind |-> k, v |-> v]),
         \A p \in 0 .. size - 1 : data'[p].lo = data[p].lo,
         IF OV!Need(k) = 2
         THEN data'[size].lo = Low(v) /\ data'[size + 1].lo = High(v)
         ELSE data'[size].lo = Low(v)
  PROVE  \E new \in [1 .. Len(values') -> 0 .. maxSize'] :
           /\ Placed(new)'
           /\ new[Len(values) + 1] = size
           /\ \A i \in 1 .. Len(values) : new[i] = at[i]
<1> DEFINE n == Len(values)
           r == [kind |-> k, v |-> v]
<1>1. at \in [1 .. n -> 0 .. maxSize] /\ Placed(at)
  OBVIOUS
<1>2. /\ n \in Nat /\ maxSize \in Nat /\ size \in 0 .. maxSize
      /\ values \in Seq(TypedValues) /\ r \in TypedValues
  BY ValueProperties, SizeProperties, TypedProperties DEF IInv
<1>3. /\ Len(values') = n + 1 /\ values'[n + 1] = r
      /\ \A i \in 1 .. n : values'[i] = values[i]
  BY <1>2, AppendProperties
<1>4. PICK new : /\ new \in [1 .. Len(values') -> 0 .. maxSize']
                 /\ new[n + 1] = size /\ \A i \in 1 .. n : new[i] = at[i]
  <2> DEFINE longer == [i \in 1 .. n + 1 |-> IF i = n + 1 THEN size ELSE at[i]]
  <2>1. /\ longer \in [1 .. Len(values') -> 0 .. maxSize']
        /\ longer[n + 1] = size /\ \A i \in 1 .. n : longer[i] = at[i]
    BY <1>1, <1>2, <1>3
  <2> HIDE DEF longer
  <2>2. QED
    BY <2>1
<1>5. \A i \in 1 .. n : at[i] \in Nat /\ at[i] + OV!Need(values[i].kind) <= size
  <2>1. TypeOK
    BY DEF IInv
  <2>2. \A i \in 1 .. n : at[i] + OV!Need(values[i].kind) <= size
    BY <1>1, <2>1, PlacesBelowTop
  <2>3. \A i \in 1 .. n : at[i] \in Nat
    <3>1. \A i \in 1 .. n : at[i] \in 0 .. maxSize
      BY <1>1
    <3>2. \A m \in 0 .. maxSize : m \in Nat
      BY <1>2
    <3>3. QED
      BY <3>1, <3>2
  <2>4. QED
    BY <2>2, <2>3
<1>6. \A i, j \in 1 .. n + 1 :
        i < j => new[i] + OV!Need(values'[i].kind) <= new[j]
  <2> SUFFICES ASSUME NEW i \in 1 .. n + 1, NEW j \in 1 .. n + 1, i < j
               PROVE  new[i] + OV!Need(values'[i].kind) <= new[j]
    OBVIOUS
  <2>1. i \in 1 .. n /\ new[i] = at[i] /\ values'[i] = values[i]
    BY <1>2, <1>3, <1>4
  <2>2. CASE j = n + 1
    BY <2>1, <2>2, <1>4, <1>5
  <2>3. CASE j # n + 1
    <3>1. j \in 1 .. n /\ new[j] = at[j]
      BY <2>3, <1>2, <1>4
    <3>2. at[i] + OV!Need(values[i].kind) <= at[j]
      BY <1>1, <2>1, <3>1 DEF Placed
    <3>3. QED
      BY <2>1, <3>1, <3>2
  <2>4. QED
    BY <2>2, <2>3
<1>7. \A i \in 1 .. n : new[i + 1] = new[i] + OV!Need(values'[i].kind)
  <2> SUFFICES ASSUME NEW i \in 1 .. n
               PROVE  new[i + 1] = new[i] + OV!Need(values'[i].kind)
    OBVIOUS
  <2>1. new[i] = at[i] /\ values'[i] = values[i]
    BY <1>3, <1>4
  <2>2. CASE i = n
    <3>1. values # <<>>
      BY <1>2, EmptySeq
    <3>2. at[n] + OV!Need(values[n].kind) = size
      BY <1>1, <3>1 DEF Placed
    <3>3. QED
      BY <2>1, <2>2, <3>2, <1>4
  <2>3. CASE i # n
    <3>1. i \in 1 .. n - 1 /\ i + 1 \in 1 .. n
      BY <2>3, <1>2
    <3>2. at[i + 1] = at[i] + OV!Need(values[i].kind)
      BY <1>1, <3>1 DEF Placed
    <3>3. QED
      BY <2>1, <3>1, <3>2, <1>4
  <2>4. QED
    BY <2>2, <2>3
<1>8. new[n + 1] + OV!Need(values'[n + 1].kind) = size'
  BY <1>3, <1>4
<1>9. \A i \in 1 .. n + 1 : Stored(values[i], new[i])'
  <2> SUFFICES ASSUME NEW i \in 1 .. n + 1
               PROVE  Stored(values[i], new[i])'
    OBVIOUS
  <2>1. CASE i = n + 1
    BY <2>1, <1>3, <1>4 DEF Stored
  <2>2. CASE i # n + 1
    <3>1. i \in 1 .. n /\ new[i] = at[i] /\ values'[i] = values[i]
      BY <2>2, <1>2, <1>3, <1>4
    <3>2. Stored(values[i], at[i])
      BY <1>1, <3>1 DEF Placed
    <3>3. /\ at[i] \in 0 .. size - 1
          /\ OV!Need(values[i].kind) = 2 => at[i] + 1 \in 0 .. size - 1
      BY <1>2, <1>5, <3>1, NeedProperties
    <3>4. QED
      BY <3>1, <3>2, <3>3 DEF Stored
  <2>3. QED
    BY <2>1, <2>2
<1>10. Placed(new)'
  BY <1>2, <1>3, <1>6, <1>7, <1>8, <1>9 DEF Placed
<1>11. QED
  BY <1>4, <1>10

(* A pop leaves the slots below the value on top as they are. *)
LEMMA PopKeepsPlaces ==
  ASSUME IInv, NEW at \in [1 .. Len(values) -> 0 .. maxSize], Placed(at), values # <<>>,
         maxSize' = maxSize,
         size' = size - OV!Need(values[Len(values)].kind),
         values' = SubSeq(values, 1, Len(values) - 1),
         \A p \in 0 .. size' - 1 : data'[p].lo = data[p].lo
  PROVE  /\ \E new \in [1 .. Len(values') -> 0 .. maxSize'] :
              /\ Placed(new)'
              /\ \A i \in 1 .. Len(values) - 1 : new[i] = at[i]
         /\ values' \in Seq(TypedValues)
<1> DEFINE n == Len(values)
<1>1. at \in [1 .. n -> 0 .. maxSize] /\ Placed(at)
  OBVIOUS
<1>2. /\ n \in Nat \ {0} /\ maxSize \in Nat /\ size \in 0 .. maxSize
      /\ values \in Seq(TypedValues)
      /\ \A i \in 1 .. n : values[i] \in TypedValues
  BY ValueProperties, SizeProperties DEF IInv
<1>3. /\ Len(values') = n - 1 /\ values' \in Seq(TypedValues)
      /\ \A i \in 1 .. n - 1 : values'[i] = values[i]
  <2> DEFINE m == n - 1
  <2>1. 1 \in Int /\ m \in Nat /\ m \in Int /\ \A i \in 1 .. m : values[i] \in TypedValues
    BY <1>2
  <2> HIDE DEF m
  <2>2. /\ SubSeq(values, 1, m) \in Seq(TypedValues)
        /\ Len(SubSeq(values, 1, m)) = IF 1 <= m THEN m - 1 + 1 ELSE 0
        /\ \A i \in 1 .. m - 1 + 1 : SubSeq(values, 1, m)[i] = values[1 + i - 1]
    BY <2>1, SubSeqProperties
  <2>3. \A i \in 1 .. m : i \in 1 .. m - 1 + 1 /\ 1 + i - 1 = i
    BY <2>1
  <2>4. Len(SubSeq(values, 1, m)) = m
    BY <2>1, <2>2
  <2>5. QED
    BY <2>2, <2>3, <2>4 DEF m
<1>4. PICK new : /\ new \in [1 .. Len(values') -> 0 .. maxSize']
                 /\ \A i \in 1 .. n - 1 : new[i] = at[i]
  <2> DEFINE shorter == [i \in 1 .. n - 1 |-> at[i]]
  <2>1. /\ shorter \in [1 .. Len(values') -> 0 .. maxSize']
        /\ \A i \in 1 .. n - 1 : shorter[i] = at[i]
    BY <1>1, <1>2, <1>3
  <2> HIDE DEF shorter
  <2>2. QED
    BY <2>1
<1>5. size' = at[n] /\ at[n] \in Nat
  <2>1. at[n] + OV!Need(values[n].kind) = size
    BY <1>1, <1>2 DEF Placed
  <2>2. at[n] \in Nat
    BY <1>2
  <2>3. QED
    BY <2>1, <2>2, <1>2, NeedProperties
<1>6. \A i \in 1 .. n - 1 :
        at[i] \in Nat /\ at[i] + OV!Need(values[i].kind) <= size'
  <2> SUFFICES ASSUME NEW i \in 1 .. n - 1
               PROVE  at[i] \in Nat /\ at[i] + OV!Need(values[i].kind) <= size'
    OBVIOUS
  <2>1. i \in 1 .. n /\ n \in 1 .. n /\ i < n
    BY <1>2
  <2>2. at[i] + OV!Need(values[i].kind) <= at[n]
    BY <2>1, <1>1 DEF Placed
  <2>3. at[i] \in Nat
    <3>1. at[i] \in 0 .. maxSize
      BY <2>1
    <3>2. QED
      BY <3>1, <1>2
  <2>4. QED
    BY <2>2, <2>3, <1>5
<1>7. \A i, j \in 1 .. n - 1 :
        i < j => new[i] + OV!Need(values'[i].kind) <= new[j]
  <2> SUFFICES ASSUME NEW i \in 1 .. n - 1, NEW j \in 1 .. n - 1, i < j
               PROVE  new[i] + OV!Need(values'[i].kind) <= new[j]
    OBVIOUS
  <2>1. i \in 1 .. n /\ j \in 1 .. n
    BY <1>2
  <2>2. at[i] + OV!Need(values[i].kind) <= at[j]
    BY <1>1, <2>1 DEF Placed
  <2>3. QED
    BY <2>2, <1>3, <1>4
<1>8. \A i \in 1 .. n - 1 - 1 :
        new[i + 1] = new[i] + OV!Need(values'[i].kind)
  <2> SUFFICES ASSUME NEW i \in 1 .. n - 1 - 1
               PROVE  new[i + 1] = new[i] + OV!Need(values'[i].kind)
    OBVIOUS
  <2>1. i \in 1 .. n - 1 /\ i + 1 \in 1 .. n - 1
    BY <1>2
  <2>2. at[i + 1] = at[i] + OV!Need(values[i].kind)
    BY <1>1, <2>1 DEF Placed
  <2>3. QED
    BY <2>1, <2>2, <1>3, <1>4
<1>9. values' # <<>> => new[n - 1] + OV!Need(values'[n - 1].kind) = size'
  <2> SUFFICES ASSUME values' # <<>>
               PROVE  new[n - 1] + OV!Need(values'[n - 1].kind) = size'
    OBVIOUS
  <2>1. n - 1 # 0
    BY <1>3, EmptySeq
  <2>2. n - 1 \in 1 .. n - 1 /\ (n - 1) + 1 = n
    BY <2>1, <1>2
  <2>3. at[(n - 1) + 1] = at[n - 1] + OV!Need(values[n - 1].kind)
    BY <1>1, <2>2 DEF Placed
  <2>4. QED
    BY <2>2, <2>3, <1>3, <1>4, <1>5
<1>10. \A i \in 1 .. n - 1 : Stored(values[i], new[i])'
  <2> SUFFICES ASSUME NEW i \in 1 .. n - 1
               PROVE  Stored(values[i], new[i])'
    OBVIOUS
  <2>1. new[i] = at[i] /\ values'[i] = values[i] /\ i \in 1 .. n
    BY <1>2, <1>3, <1>4
  <2>2. Stored(values[i], at[i])
    BY <1>1, <2>1 DEF Placed
  <2>3. /\ at[i] \in 0 .. size' - 1
        /\ OV!Need(values[i].kind) = 2 => at[i] + 1 \in 0 .. size' - 1
    BY <1>5, <1>6, NeedProperties
  <2>4. QED
    BY <2>1, <2>2, <2>3 DEF Stored
<1>11. Placed(new)'
  BY <1>3, <1>7, <1>8, <1>9, <1>10 DEF Placed
<1>12. QED
  BY <1>3, <1>4, <1>11

-----------------------------------------------------------------------------
(* The arrays of N slots. *)
Slots(N) == [0 .. N - 1 -> [lo : 0 .. Word - 1, hi : 0 .. Word - 1]]

(* Every push keeps the inductive invariant and is a push of OperandValues; *)
(* so is every pop.                                                         *)
LEMMA PushStep ==
  ASSUME IInv, NEW k \in DOMAIN Values, NEW v \in Values[k],
         ~Overflows(k), size' = size + OV!Need(k), Pushed(k, v),
         data' \in Slots(maxSize),
         \A p \in 0 .. size - 1 : data'[p].lo = data[p].lo,
         IF OV!Need(k) = 2
         THEN data'[size].lo = Low(v) /\ data'[size + 1].lo = High(v)
         ELSE data'[size].lo = Low(v)
  PROVE  IInv' /\ OV!Push(k, v)
<1>1. /\ maxSize \in Nat /\ size \in 0 .. maxSize /\ used = size
      /\ size + OV!Need(k) <= maxSize
  BY SizeProperties DEF IInv
<1>2. /\ maxSize' = maxSize /\ used' = used + OV!Need(k)
      /\ values' = Append(values, [kind |-> k, v |-> v])
      /\ reply' = OV!Done("push", k, v)
  BY DEF Pushed
<1>3. values' \in Seq(TypedValues)
  BY <1>2, ValueProperties, TypedProperties, AppendProperties DEF IInv
<1>4. size' \in 0 .. maxSize' /\ used' \in Nat
  BY <1>1, <1>2, NeedProperties
<1>5. TypeOK'
  BY <1>2, <1>3, <1>4 DEF IInv, TypeOK, Slots
<1>6. \E at \in [1 .. Len(values') -> 0 .. maxSize'] : Placed(at)'
  <2>1. PICK at \in [1 .. Len(values) -> 0 .. maxSize] : Placed(at)
    BY DEF IInv
  <2>2. \E at2 \in [1 .. Len(values') -> 0 .. maxSize'] :
           /\ Placed(at2)'
           /\ at2[Len(values) + 1] = size
           /\ \A i \in 1 .. Len(values) : at2[i] = at[i]
    BY <1>1, <1>2, <2>1, PushKeepsPlaces
  <2>3. QED
    BY <2>2
<1>7. used' = size'
  BY <1>1, <1>2
<1>8. IInv'
  BY <1>5, <1>6, <1>7 DEF IInv
<1>9. OV!Push(k, v)
  BY <1>1, <1>2 DEF OV!Push
<1>10. QED
  BY <1>8, <1>9

(* A pop cuts the last value, and is one of OperandValues if it reads it. *)
LEMMA PopStep ==
  ASSUME IInv, NEW k \in DOMAIN Values, NEW v,
         ~Underflows(k), size' = size - OV!Need(k), Popped(k, v),
         data' \in Slots(maxSize),
         \A p \in 0 .. size' - 1 : data'[p].lo = data[p].lo
  PROVE  IInv' /\ (v = values[Len(values)].v => OV!Pop(k))
<1>1. /\ maxSize \in Nat /\ size \in 0 .. maxSize /\ used = size
      /\ OV!Need(k) <= size
  BY SizeProperties DEF IInv
<1>2. /\ values # <<>> /\ values[Len(values)].kind = k
      /\ maxSize' = maxSize /\ used' = used - OV!Need(k)
      /\ values' = SubSeq(values, 1, Len(values) - 1)
      /\ reply' = OV!Done("pop", k, v)
  BY DEF Popped
<1>3. /\ \E at \in [1 .. Len(values') -> 0 .. maxSize'] : Placed(at)'
      /\ values' \in Seq(TypedValues)
  <2>1. PICK at \in [1 .. Len(values) -> 0 .. maxSize] : Placed(at)
    BY DEF IInv
  <2>2. /\ \E at2 \in [1 .. Len(values') -> 0 .. maxSize'] :
              /\ Placed(at2)'
              /\ \A i \in 1 .. Len(values) - 1 : at2[i] = at[i]
        /\ values' \in Seq(TypedValues)
    BY <1>2, <2>1, PopKeepsPlaces
  <2>3. QED
    BY <2>2
<1>4. size' \in 0 .. maxSize' /\ used' \in Nat /\ used' = size'
  BY <1>1, <1>2, NeedProperties
<1>5. TypeOK'
  BY <1>2, <1>3, <1>4 DEF IInv, TypeOK, Slots
<1>6. IInv'
  BY <1>3, <1>4, <1>5 DEF IInv
<1>7. v = values[Len(values)].v => OV!Pop(k)
  BY <1>2 DEF OV!Pop
<1>8. QED
  BY <1>6, <1>7

(* The slots keep their type and the other slots their content when the    *)
(* number of one is written.                                               *)
LEMMA WriteProperties ==
  ASSUME NEW N \in Nat, NEW i \in 0 .. N - 1, NEW x \in 0 .. Word - 1,
         NEW d \in Slots(N)
  PROVE  /\ WriteNum(d, i, x) \in Slots(N)
         /\ WriteNum(d, i, x)[i].lo = x
         /\ WriteNum(d, i, x)[i].hi = d[i].hi
         /\ \A p \in 0 .. N - 1 : p # i => WriteNum(d, i, x)[p] = d[p]
BY DEF WriteNum, Slots

(* A number of one word is written where the top was. *)
LEMMA PushIntStep ==
  ASSUME IInv, NEW k \in {"int", "float"}, NEW v \in Values[k],
         OperandStack_PushInt(k, v)
  PROVE  IInv' /\ OV!Push(k, v)
<1>1. /\ OV!Need(k) = 1 /\ k \in DOMAIN Values /\ v \in 0 .. Word - 1
      /\ ~Overflows(k) /\ Pushed(k, v)
  BY NeedProperties, KindsAssumption, ValuesAssumption DEF OperandStack_PushInt
<1>2. /\ maxSize \in Nat /\ size \in 0 .. maxSize - 1
      /\ (size + 1) % Uint = size + 1
  BY <1>1, SizeProperties DEF IInv
<1>3. size' = size + OV!Need(k) /\ data' = WriteNum(data, size, v)
  BY <1>1, <1>2 DEF OperandStack_PushInt
<1>4. data \in Slots(maxSize)
  BY DEF IInv, TypeOK, Slots
<1>5. /\ data' \in Slots(maxSize)
      /\ data'[size].lo = v
      /\ \A p \in 0 .. maxSize - 1 : p # size => data'[p] = data[p]
  BY <1>1, <1>2, <1>3, <1>4, WriteProperties
<1>6. \A p \in 0 .. size - 1 : data'[p].lo = data[p].lo
  BY <1>2, <1>5
<1>7. Low(v) = v
  BY <1>1, WordProperties
<1>8. QED
  BY <1>1, <1>3, <1>5, <1>6, <1>7, PushStep

(* The low word is written where the top was, the high one above it. *)
LEMMA PushLongStep ==
  ASSUME IInv, NEW k \in {"long", "double"}, NEW v \in Values[k],
         OperandStack_PushLong(k, v)
  PROVE  IInv' /\ OV!Push(k, v)
<1>1. /\ OV!Need(k) = 2 /\ k \in DOMAIN Values /\ v \in 0 .. Word * Word - 1
      /\ ~Overflows(k) /\ Pushed(k, v)
  BY NeedProperties, KindsAssumption, ValuesAssumption DEF OperandStack_PushLong
<1>2. /\ maxSize \in Nat /\ size \in 0 .. maxSize - 1
      /\ size + 1 \in 0 .. maxSize - 1
      /\ (size + 1) % Uint = size + 1 /\ (size + 2) % Uint = size + 2
  BY <1>1, SizeProperties DEF IInv
<1>3. Low(v) \in 0 .. Word - 1 /\ High(v) \in 0 .. Word - 1
  BY <1>1, WordsProperties
<1>4. data \in Slots(maxSize)
  BY DEF IInv, TypeOK, Slots
<1> DEFINE half == WriteNum(data, size, Low(v))
<1>5. /\ size' = size + OV!Need(k)
      /\ data' = WriteNum(half, size + 1, High(v))
  BY <1>1, <1>2 DEF OperandStack_PushLong
<1>6. /\ half \in Slots(maxSize)
      /\ half[size].lo = Low(v)
      /\ \A p \in 0 .. maxSize - 1 : p # size => half[p] = data[p]
  BY <1>2, <1>3, <1>4, WriteProperties
<1> HIDE DEF half
<1>7. /\ data' \in Slots(maxSize)
      /\ data'[size + 1].lo = High(v)
      /\ \A p \in 0 .. maxSize - 1 : p # size + 1 => data'[p] = half[p]
  BY <1>2, <1>3, <1>5, <1>6, WriteProperties
<1>8. data'[size].lo = Low(v)
  BY <1>2, <1>6, <1>7
<1>9. \A p \in 0 .. size - 1 : data'[p].lo = data[p].lo
  BY <1>2, <1>6, <1>7
<1>10. QED
  BY <1>1, <1>5, <1>7, <1>8, <1>9, PushStep

(* A pointer is written over both words of the slot. *)
LEMMA PushRefStep ==
  ASSUME IInv, NEW v \in Values["ref"], OperandStack_PushRef(v)
  PROVE  IInv' /\ OV!Push("ref", v)
<1>1. /\ OV!Need("ref") = 1 /\ "ref" \in DOMAIN Values
      /\ v \in 0 .. Word * Word - 1
      /\ ~Overflows("ref") /\ Pushed("ref", v)
  BY NeedProperties, KindsAssumption, ValuesAssumption DEF OperandStack_PushRef
<1>2. /\ maxSize \in Nat /\ size \in 0 .. maxSize - 1
      /\ (size + 1) % Uint = size + 1
  BY <1>1, SizeProperties DEF IInv
<1>3. Low(v) \in 0 .. Word - 1 /\ High(v) \in 0 .. Word - 1
  BY <1>1, WordsProperties
<1>4. data \in Slots(maxSize)
  BY DEF IInv, TypeOK, Slots
<1>5. /\ size' = size + OV!Need("ref")
      /\ data' = [data EXCEPT ![size] = [lo |-> Low(v), hi |-> High(v)]]
  BY <1>1, <1>2 DEF OperandStack_PushRef
<1>6. /\ data' \in Slots(maxSize) /\ data'[size].lo = Low(v)
      /\ \A p \in 0 .. maxSize - 1 : p # size => data'[p] = data[p]
  BY <1>2, <1>3, <1>4, <1>5 DEF Slots
<1>7. \A p \in 0 .. size - 1 : data'[p].lo = data[p].lo
  BY <1>2, <1>6
<1>8. IF OV!Need("ref") = 2
      THEN data'[size].lo = Low(v) /\ data'[size + 1].lo = High(v)
      ELSE data'[size].lo = Low(v)
  BY <1>1, <1>6
<1>9. QED
  BY <1>1, <1>5, <1>6, <1>7, <1>8, PushStep

(* What the pops read is the value on top. *)
LEMMA PopReads ==
  ASSUME IInv, NEW k \in DOMAIN Values,
         values # <<>>, values[Len(values)].kind = k
  PROVE  LET v == values[Len(values)].v IN
         /\ v \in Values[k]
         /\ OV!Need(k) = 1 => data[size - 1].lo = Low(v)
         /\ OV!Need(k) = 2 => /\ data[size - 2].lo = Low(v)
                              /\ data[size - 1].lo = High(v)
<1>1. maxSize \in Nat /\ size \in 0 .. maxSize
  BY SizeProperties DEF IInv
<1> DEFINE r == values[Len(values)]
<1>2. /\ r \in TypedValues /\ OV!Need(k) <= size
      /\ Stored(r, size - OV!Need(k)) /\ r.kind = k
  BY TopValue
<1> HIDE DEF r
<1>3. r.v \in Values[k]
  BY <1>2, TypedProperties
<1>4. OV!Need(k) = 1 => data[size - 1].lo = Low(r.v)
  BY <1>2 DEF Stored
<1>5. OV!Need(k) = 2 => /\ data[size - 2].lo = Low(r.v)
                        /\ data[size - 1].lo = High(r.v)
  <2> SUFFICES ASSUME OV!Need(k) = 2
               PROVE  /\ data[size - 2].lo = Low(r.v)
                      /\ data[size - 1].lo = High(r.v)
    OBVIOUS
  <2>1. (size - 2) + 1 = size - 1
    BY <1>1
  <2>2. QED
    BY <2>1, <1>2 DEF Stored
<1>6. QED
  BY <1>3, <1>4, <1>5 DEF r

(* A number of one word comes back. *)
LEMMA PopIntStep ==
  ASSUME IInv, NEW k \in {"int", "float"}, OperandStack_PopInt(k)
  PROVE  IInv' /\ OV!Pop(k)
<1>1. /\ OV!Need(k) = 1 /\ k \in DOMAIN Values
      /\ ~Underflows(k) /\ Popped(k, data[size - 1].lo)
      /\ size' = size - 1 /\ data' = data
  BY NeedProperties, KindsAssumption DEF OperandStack_PopInt
<1>2. data[size - 1].lo = values[Len(values)].v
  BY <1>1, PopReads, ValuesAssumption, WordProperties DEF Popped
<1>3. data' \in Slots(maxSize)
  BY <1>1 DEF IInv, TypeOK, Slots
<1>4. QED
  BY <1>1, <1>2, <1>3, PopStep

(* The two words are put together the way they were taken apart. *)
LEMMA PopLongStep ==
  ASSUME IInv, NEW k \in {"long", "double"}, OperandStack_PopLong(k)
  PROVE  IInv' /\ OV!Pop(k)
<1> DEFINE v == Join(data[size - 1].lo, data[size - 2].lo)
<1>1. /\ OV!Need(k) = 2 /\ k \in DOMAIN Values
      /\ ~Underflows(k) /\ Popped(k, v)
      /\ size' = size - 2 /\ data' = data
  BY NeedProperties, KindsAssumption DEF OperandStack_PopLong
<1>2. v = values[Len(values)].v
  <2> DEFINE w == values[Len(values)].v
  <2>1. /\ w \in Values[k] /\ data[size - 2].lo = Low(w)
        /\ data[size - 1].lo = High(w)
    BY <1>1, PopReads DEF Popped
  <2>2. w \in 0 .. Word * Word - 1
    BY <2>1, ValuesAssumption
  <2> HIDE DEF w
  <2>3. Join(High(w), Low(w)) = w
    BY <2>2, WordsProperties
  <2>4. v = w
    BY <2>1, <2>3
  <2>5. QED
    BY <2>4 DEF w
<1>3. data' \in Slots(maxSize)
  BY <1>1 DEF IInv, TypeOK, Slots
<1> HIDE DEF v
<1>4. QED
  BY <1>1, <1>2, <1>3, PopStep

(* A pointer comes back if it fits an int32_t. *)
LEMMA PopRefStep ==
  ASSUME IInv, OperandStack_PopRef
  PROVE  IInv' /\ (RefsFit => OV!Pop("ref"))
<1>1. /\ OV!Need("ref") = 1 /\ "ref" \in DOMAIN Values
      /\ ~Underflows("ref") /\ Popped("ref", Signed(data[size - 1].lo))
      /\ size' = size - 1
      /\ data' = [data EXCEPT ![size - 1] = [lo |-> 0, hi |-> 0]]
  BY NeedProperties, KindsAssumption DEF OperandStack_PopRef, Cleared
<1>2. RefsFit => Signed(data[size - 1].lo) = values[Len(values)].v
  <2> DEFINE v == values[Len(values)].v
  <2>1. v \in Values["ref"] /\ data[size - 1].lo = Low(v)
    BY <1>1, PopReads DEF Popped
  <2>2. v \in Nat
    BY <2>1, WordAssumption, ValuesAssumption
  <2> HIDE DEF v
  <2>3. ASSUME RefsFit
        PROVE  Signed(data[size - 1].lo) = v
    <3>1. 2 * v < Word
      BY <2>1, <2>3 DEF RefsFit
    <3>2. v \in 0 .. Word - 1
      BY <3>1, <2>2, WordAssumption
    <3>3. data[size - 1].lo = v
      BY <2>1, <3>2, WordProperties
    <3>4. QED
      BY <3>1, <3>3 DEF Signed
  <2>4. QED
    BY <2>3 DEF v
<1>3. maxSize \in Nat /\ size \in 1 .. maxSize
  BY <1>1, SizeProperties DEF IInv
<1>4. data \in Slots(maxSize) /\ 0 \in 0 .. Word - 1
  BY WordAssumption DEF IInv, TypeOK, Slots
<1>5. /\ data' \in Slots(maxSize)
      /\ \A p \in 0 .. size - 2 : data'[p] = data[p]
  BY <1>1, <1>3, <1>4 DEF Slots
<1>6. \A p \in 0 .. size' - 1 : data'[p].lo = data[p].lo
  BY <1>1, <1>3, <1>5
<1>7. QED
  BY <1>1, <1>2, <1>5, <1>6, PopStep

(* A refusal changes nothing but the answer, and is one of OperandValues. *)
LEMMA RefusalStep ==
  ASSUME IInv, NEW k \in DOMAIN Values, PushRefused(k) \/ PopRefused(k)
  PROVE  IInv' /\ (OV!RefusePush(k) \/ OV!RefusePop(k))
<1>1. UNCHANGED <<maxSize, size, data, values, used>>
  BY DEF PushRefused, PopRefused
<1>2. IInv'
  BY <1>1 DEF IInv, TypeOK, Placed, Stored
<1>3. used = size /\ maxSize \in Nat /\ size \in 0 .. maxSize /\ OV!Need(k) \in Nat
  BY SizeProperties, NeedProperties DEF IInv
<1>4. CASE PushRefused(k)
  <2>1. used + OV!Need(k) > maxSize
    BY <1>3, <1>4, SizeProperties DEF IInv, PushRefused
  <2>2. QED
    BY <2>1, <1>1, <1>2, <1>4 DEF PushRefused, OV!RefusePush
<1>5. CASE PopRefused(k)
  <2>1. used < OV!Need(k)
    BY <1>3, <1>5, SizeProperties DEF IInv, PopRefused
  <2>2. QED
    BY <2>1, <1>1, <1>2, <1>5 DEF PopRefused, OV!RefusePop
<1>6. QED
  BY <1>4, <1>5


-----------------------------------------------------------------------------
(* What is in the words of numbers, and in slots that were never used. *)
NumberWords ==
  {0} \cup Values["int"] \cup Values["float"]
      \cup {Low(v)  : v \in Values["long"] \cup Values["double"]}
      \cup {High(v) : v \in Values["long"] \cup Values["double"]}

(* Pointers can be told from numbers: NULL is the only one that is both. *)
NumbersAreNoRefs == NumberWords \cap Values["ref"] \subseteq {0}

(* Slot p of array d holds no pointer. *)
Clean(d, p) == d[p].hi = 0 /\ d[p].lo \in NumberWords

(* A slot that may hold a pointer belongs to a reference on the stack. *)
Owned(at) ==
  \A p \in 0 .. maxSize - 1 :
    \/ Clean(data, p)
    \/ \E i \in 1 .. Len(values) : values[i].kind = "ref" /\ at[i] = p
RefsOwned ==
  \E at \in [1 .. Len(values) -> 0 .. maxSize] : Placed(at) /\ Owned(at)

(* What each push writes is among them. *)
LEMMA NumberWordsProperties ==
  /\ 0 \in NumberWords
  /\ \A k \in {"int", "float"} : \A v \in Values[k] : v \in NumberWords
  /\ \A k \in {"long", "double"} : \A v \in Values[k] :
       Low(v) \in NumberWords /\ High(v) \in NumberWords
BY DEF NumberWords

(* No value on the stack owns a slot above the top. *)
LEMMA RoomIsClean ==
  ASSUME IInv, RefsOwned, NEW p \in size .. maxSize - 1
  PROVE  Clean(data, p)
<1>1. PICK at \in [1 .. Len(values) -> 0 .. maxSize] : Placed(at) /\ Owned(at)
  BY DEF RefsOwned
<1>2. TypeOK /\ maxSize \in Nat /\ size \in 0 .. maxSize
  BY SizeProperties DEF IInv
<1>3. ASSUME NEW i \in 1 .. Len(values), at[i] = p
      PROVE  FALSE
  <2>1. at[i] + OV!Need(values[i].kind) <= size
    BY <1>1, <1>2, PlacesBelowTop
  <2>2. QED
    BY <1>2, <1>3, <2>1, NeedProperties
<1>4. p \in 0 .. maxSize - 1
  BY <1>2
<1>5. QED
  BY <1>1, <1>3, <1>4 DEF Owned

(* A push leaves no pointer but in the slot of the reference it pushes. *)
LEMMA PushOwns ==
  ASSUME IInv, RefsOwned, NEW k \in DOMAIN Values, NEW v \in Values[k],
         ~Overflows(k), size' = size + OV!Need(k), Pushed(k, v),
         \A p \in 0 .. size - 1 : data'[p].lo = data[p].lo,
         IF OV!Need(k) = 2
         THEN data'[size].lo = Low(v) /\ data'[size + 1].lo = High(v)
         ELSE data'[size].lo = Low(v),
         \A p \in 0 .. maxSize - 1 :
           data'[p] = data[p] \/ Clean(data', p) \/ (k = "ref" /\ p = size)
  PROVE  RefsOwned'
<1> DEFINE n == Len(values)
<1>1. PICK at \in [1 .. n -> 0 .. maxSize] : Placed(at) /\ Owned(at)
  BY DEF RefsOwned
<1>2. /\ maxSize \in Nat /\ size \in 0 .. maxSize
      /\ size + OV!Need(k) <= maxSize
      /\ n \in Nat /\ values \in Seq(TypedValues)
  BY SizeProperties, ValueProperties DEF IInv
<1>3. /\ maxSize' = maxSize
      /\ values' = Append(values, [kind |-> k, v |-> v])
  BY DEF Pushed
<1>4. PICK new \in [1 .. Len(values') -> 0 .. maxSize'] :
        /\ Placed(new)'
        /\ new[n + 1] = size
        /\ \A i \in 1 .. n : new[i] = at[i]
  BY <1>1, <1>2, <1>3, PushKeepsPlaces
<1>5. /\ Len(values') = n + 1 /\ values'[n + 1].kind = k
      /\ \A i \in 1 .. n : values'[i] = values[i]
  BY <1>2, <1>3, TypedProperties, AppendProperties
<1>6. Owned(new)'
  <2> SUFFICES ASSUME NEW p \in 0 .. maxSize - 1, ~Clean(data', p)
               PROVE  \E i \in 1 .. n + 1 : values'[i].kind = "ref" /\ new[i] = p
    BY <1>3, <1>5 DEF Owned
  <2>1. CASE k = "ref" /\ p = size
    <3>1. n + 1 \in 1 .. n + 1
      BY <1>2
    <3>2. QED
      BY <2>1, <3>1, <1>4, <1>5
  <2>2. CASE data'[p] = data[p]
    <3>1. ~Clean(data, p)
      BY <2>2 DEF Clean
    <3>2. PICK i \in 1 .. n : values[i].kind = "ref" /\ at[i] = p
      BY <3>1, <1>1 DEF Owned
    <3>3. i \in 1 .. n + 1
      BY <1>2
    <3>4. QED
      BY <3>2, <3>3, <1>4, <1>5
  <2>3. QED
    BY <2>1, <2>2
<1>7. QED
  BY <1>4, <1>6 DEF RefsOwned

(* A pop leaves no pointer behind, if a reference is cleared. *)
LEMMA PopOwns ==
  ASSUME IInv, RefsOwned, NEW k \in DOMAIN Values, NEW v,
         ~Underflows(k), size' = size - OV!Need(k), Popped(k, v),
         \A p \in 0 .. maxSize - 1 : data'[p] = data[p] \/ Clean(data', p),
         \A p \in 0 .. size' - 1 : data'[p].lo = data[p].lo,
         k = "ref" => Clean(data', size - 1)
  PROVE  RefsOwned'
<1> DEFINE n == Len(values)
<1>1. PICK at \in [1 .. n -> 0 .. maxSize] : Placed(at) /\ Owned(at)
  BY DEF RefsOwned
<1>2. /\ maxSize \in Nat /\ size \in 0 .. maxSize
      /\ n \in Nat /\ values \in Seq(TypedValues)
  BY SizeProperties, ValueProperties DEF IInv
<1>3. /\ values # <<>> /\ values[n].kind = k
      /\ maxSize' = maxSize
      /\ values' = SubSeq(values, 1, n - 1)
  BY DEF Popped
<1>4. n # 0
  BY <1>2, <1>3, EmptySeq
<1>5. PICK new \in [1 .. Len(values') -> 0 .. maxSize'] :
        /\ Placed(new)'
        /\ \A i \in 1 .. n - 1 : new[i] = at[i]
  BY <1>1, <1>2, <1>3, PopKeepsPlaces
<1>6. /\ Len(values') = n - 1
      /\ \A i \in 1 .. n - 1 : values'[i] = values[i]
  <2> DEFINE m == n - 1
  <2>1. /\ 1 \in Int /\ m \in Nat /\ m \in Int
        /\ \A i \in 1 .. m : values[i] \in TypedValues
    BY <1>2, <1>4, ElementOfSeq
  <2> HIDE DEF m
  <2>2. /\ Len(SubSeq(values, 1, m)) = IF 1 <= m THEN m - 1 + 1 ELSE 0
        /\ \A i \in 1 .. m - 1 + 1 : SubSeq(values, 1, m)[i] = values[1 + i - 1]
    BY <2>1, SubSeqProperties
  <2>3. \A i \in 1 .. m : i \in 1 .. m - 1 + 1 /\ 1 + i - 1 = i
    BY <2>1
  <2>4. Len(SubSeq(values, 1, m)) = m
    BY <2>1, <2>2
  <2>5. QED
    BY <2>2, <2>3, <2>4, <1>3 DEF m
<1>7. Owned(new)'
  <2> SUFFICES ASSUME NEW p \in 0 .. maxSize - 1, ~Clean(data', p)
               PROVE  \E i \in 1 .. n - 1 : values'[i].kind = "ref" /\ new[i] = p
    BY <1>3, <1>6 DEF Owned
  <2>1. ~Clean(data, p)
    BY DEF Clean
  <2>2. PICK i \in 1 .. n : values[i].kind = "ref" /\ at[i] = p
    BY <2>1, <1>1 DEF Owned
  <2>3. i # n
    <3> SUFFICES ASSUME i = n
                 PROVE  FALSE
      OBVIOUS
    <3>1. k = "ref" /\ Clean(data', size - 1)
      BY <2>2, <1>3
    <3>2. at[n] + OV!Need("ref") = size
      BY <3>1, <1>1, <1>3 DEF Placed
    <3>3. at[n] = p /\ OV!Need("ref") = 1
      BY <2>2, NeedProperties
    <3>4. p = size - 1
      BY <3>2, <3>3, <1>2
    <3>5. QED
      BY <3>1, <3>4
  <2>4. i \in 1 .. n - 1
    BY <2>3, <1>2
  <2>5. QED
    BY <2>2, <2>4, <1>5, <1>6
<1>8. QED
  BY <1>5, <1>7 DEF RefsOwned

(* A number is written over the low word of a slot that was clean. *)
LEMMA PushIntOwns ==
  ASSUME IInv, RefsOwned, NEW k \in {"int", "float"}, NEW v \in Values[k],
         OperandStack_PushInt(k, v)
  PROVE  RefsOwned'
<1>1. /\ OV!Need(k) = 1 /\ k \in DOMAIN Values /\ v \in 0 .. Word - 1
      /\ ~Overflows(k) /\ Pushed(k, v)
  BY NeedProperties, KindsAssumption, ValuesAssumption DEF OperandStack_PushInt
<1>2. /\ maxSize \in Nat /\ size \in 0 .. maxSize - 1
      /\ (size + 1) % Uint = size + 1
  BY <1>1, SizeProperties DEF IInv
<1>3. size' = size + OV!Need(k) /\ data' = WriteNum(data, size, v)
  BY <1>1, <1>2 DEF OperandStack_PushInt
<1>4. data \in Slots(maxSize)
  BY DEF IInv, TypeOK, Slots
<1>5. /\ data'[size].lo = v /\ data'[size].hi = data[size].hi
      /\ \A p \in 0 .. maxSize - 1 : p # size => data'[p] = data[p]
  BY <1>1, <1>2, <1>3, <1>4, WriteProperties
<1>6. Clean(data', size)
  <2>1. Clean(data, size)
    BY <1>2, RoomIsClean
  <2>2. QED
    BY <1>5, <2>1, NumberWordsProperties DEF Clean
<1>7. QED
  BY <1>1, <1>2, <1>3, <1>5, <1>6, WordProperties, PushOwns

(* So are both words of a long. *)
LEMMA PushLongOwns ==
  ASSUME IInv, RefsOwned, NEW k \in {"long", "double"}, NEW v \in Values[k],
         OperandStack_PushLong(k, v)
  PROVE  RefsOwned'
<1>1. /\ OV!Need(k) = 2 /\ k \in DOMAIN Values /\ v \in 0 .. Word * Word - 1
      /\ ~Overflows(k) /\ Pushed(k, v)
  BY NeedProperties, KindsAssumption, ValuesAssumption DEF OperandStack_PushLong
<1>2. /\ maxSize \in Nat /\ size \in 0 .. maxSize - 1
      /\ size + 1 \in 0 .. maxSize - 1
      /\ size \in size .. maxSize - 1 /\ size + 1 \in size .. maxSize - 1
      /\ (size + 1) % Uint = size + 1 /\ (size + 2) % Uint = size + 2
  BY <1>1, SizeProperties DEF IInv
<1>3. Low(v) \in 0 .. Word - 1 /\ High(v) \in 0 .. Word - 1
  BY <1>1, WordsProperties
<1>4. data \in Slots(maxSize)
  BY DEF IInv, TypeOK, Slots
<1> DEFINE half == WriteNum(data, size, Low(v))
<1>5. /\ size' = size + OV!Need(k)
      /\ data' = WriteNum(half, size + 1, High(v))
  BY <1>1, <1>2 DEF OperandStack_PushLong
<1>6. /\ half \in Slots(maxSize)
      /\ half[size].lo = Low(v) /\ half[size].hi = data[size].hi
      /\ \A p \in 0 .. maxSize - 1 : p # size => half[p] = data[p]
  BY <1>2, <1>3, <1>4, WriteProperties
<1> HIDE DEF half
<1>7. /\ data'[size + 1].lo = High(v)
      /\ data'[size + 1].hi = half[size + 1].hi
      /\ \A p \in 0 .. maxSize - 1 : p # size + 1 => data'[p] = half[p]
  BY <1>2, <1>3, <1>5, <1>6, WriteProperties
<1>8. Clean(data, size) /\ Clean(data, size + 1)
  BY <1>2, RoomIsClean
<1>9. Low(v) \in NumberWords /\ High(v) \in NumberWords
  BY NumberWordsProperties
<1>10. data'[size] = half[size] /\ half[size + 1] = data[size + 1]
  BY <1>2, <1>6, <1>7
<1>11. Clean(data', size) /\ Clean(data', size + 1)
  BY <1>6, <1>7, <1>8, <1>9, <1>10 DEF Clean
<1>12. \A p \in 0 .. maxSize - 1 : data'[p] = data[p] \/ Clean(data', p)
  BY <1>6, <1>7, <1>11
<1>13. \A p \in 0 .. size - 1 : data'[p].lo = data[p].lo
  BY <1>2, <1>6, <1>7
<1>14. data'[size].lo = Low(v)
  BY <1>6, <1>10
<1>15. QED
  BY <1>1, <1>5, <1>7, <1>12, <1>13, <1>14, PushOwns

(* A reference owns the slot it is written to. *)
LEMMA PushRefOwns ==
  ASSUME IInv, RefsOwned, NEW v \in Values["ref"], OperandStack_PushRef(v)
  PROVE  RefsOwned'
<1>1. /\ OV!Need("ref") = 1 /\ "ref" \in DOMAIN Values
      /\ v \in 0 .. Word * Word - 1
      /\ ~Overflows("ref") /\ Pushed("ref", v)
  BY NeedProperties, KindsAssumption, ValuesAssumption DEF OperandStack_PushRef
<1>2. /\ maxSize \in Nat /\ size \in 0 .. maxSize - 1
      /\ (size + 1) % Uint = size + 1
  BY <1>1, SizeProperties DEF IInv
<1>3. data \in Slots(maxSize)
  BY DEF IInv, TypeOK, Slots
<1>4. /\ size' = size + OV!Need("ref")
      /\ data' = [data EXCEPT ![size] = [lo |-> Low(v), hi |-> High(v)]]
  BY <1>1, <1>2 DEF OperandStack_PushRef
<1>5. /\ data'[size].lo = Low(v)
      /\ \A p \in 0 .. maxSize - 1 : p # size => data'[p] = data[p]
  BY <1>2, <1>3, <1>4 DEF Slots
<1>6. \A p \in 0 .. size - 1 : data'[p].lo = data[p].lo
  BY <1>2, <1>5
<1>7. IF OV!Need("ref") = 2
      THEN data'[size].lo = Low(v) /\ data'[size + 1].lo = High(v)
      ELSE data'[size].lo = Low(v)
  BY <1>1, <1>5
<1>8. \A p \in 0 .. maxSize - 1 :
        data'[p] = data[p] \/ Clean(data', p) \/ p = size
  BY <1>5
<1>9. QED
  BY <1>1, <1>4, <1>6, <1>7, <1>8, PushOwns

(* The pops of numbers write nothing, and the value they cut is no         *)
(* reference.                                                              *)
LEMMA PopNumberOwns ==
  ASSUME IInv, RefsOwned, NEW k \in DOMAIN Values \ {"ref"}, NEW v,
         ~Underflows(k), size' = size - OV!Need(k), Popped(k, v),
         data' = data
  PROVE  RefsOwned'
BY PopOwns

(* A reference is wiped from its slot. *)
LEMMA PopRefOwns ==
  ASSUME IInv, RefsOwned, OperandStack_PopRef
  PROVE  RefsOwned'
<1>1. /\ OV!Need("ref") = 1 /\ "ref" \in DOMAIN Values
      /\ ~Underflows("ref") /\ Popped("ref", Signed(data[size - 1].lo))
      /\ size' = size - OV!Need("ref")
      /\ data' = [data EXCEPT ![size - 1] = [lo |-> 0, hi |-> 0]]
  BY NeedProperties, KindsAssumption DEF OperandStack_PopRef, Cleared
<1>2. maxSize \in Nat /\ size \in 1 .. maxSize /\ size' = size - 1
  BY <1>1, SizeProperties DEF IInv
<1>3. data \in Slots(maxSize)
  BY DEF IInv, TypeOK, Slots
<1>4. /\ data'[size - 1] = [lo |-> 0, hi |-> 0]
      /\ \A p \in 0 .. maxSize - 1 : p # size - 1 => data'[p] = data[p]
  BY <1>1, <1>2, <1>3 DEF Slots
<1>5. Clean(data', size - 1)
  BY <1>4, NumberWordsProperties DEF Clean
<1>6. \A p \in 0 .. maxSize - 1 : data'[p] = data[p] \/ Clean(data', p)
  BY <1>4, <1>5
<1>7. \A p \in 0 .. size' - 1 : data'[p].lo = data[p].lo
  BY <1>2, <1>4
<1>8. QED
  BY <1>1, <1>5, <1>6, <1>7, PopOwns

-----------------------------------------------------------------------------
(* A new stack holds no values. *)
LEMMA InitProperties ==
  ASSUME Init
  PROVE  IInv /\ OV!Init
<1>1. maxSize \in Nat
  BY SizesAssumption, UintAssumption DEF Init
<1>2. values = <<>> /\ Len(values) = 0 /\ values \in Seq(TypedValues)
  BY EmptySeq DEF Init
<1>3. TypeOK
  BY <1>1, <1>2, WordAssumption DEF Init, TypeOK, Cleared
<1>4. [i \in 1 .. Len(values) |-> 0] \in [1 .. Len(values) -> 0 .. maxSize]
  BY <1>1
<1>5. \A at : Placed(at)
  BY <1>2 DEF Placed
<1>6. IInv
  BY <1>3, <1>4, <1>5 DEF IInv, Init
<1>7. OV!Init
  BY DEF Init, OV!Init
<1>8. QED
  BY <1>6, <1>7

(* Every call keeps the invariant and is one of OperandValues. *)
LEMMA StepProperties ==
  ASSUME IInv, [Next]_vars
  PROVE  IInv' /\ (RefsFit => [OV!Next]_(OV!vars))
<1>1. ASSUME NEW k \in {"int", "float"}, NEW v \in Values[k],
             OperandStack_PushInt(k, v)
      PROVE  IInv' /\ OV!Next
  BY <1>1, PushIntStep, KindsAssumption DEF OV!Next, OV!Kinds
<1>2. ASSUME NEW k \in {"int", "float"}, OperandStack_PopInt(k)
      PROVE  IInv' /\ OV!Next
  BY <1>2, PopIntStep, KindsAssumption DEF OV!Next, OV!Kinds
<1>3. ASSUME NEW k \in {"long", "double"}, NEW v \in Values[k],
             OperandStack_PushLong(k, v)
      PROVE  IInv' /\ OV!Next
  BY <1>3, PushLongStep, KindsAssumption DEF OV!Next, OV!Kinds
<1>4. ASSUME NEW k \in {"long", "double"}, OperandStack_PopLong(k)
      PROVE  IInv' /\ OV!Next
  BY <1>4, PopLongStep, KindsAssumption DEF OV!Next, OV!Kinds
<1>5. ASSUME NEW v \in Values["ref"], OperandStack_PushRef(v)
      PROVE  IInv' /\ OV!Next
  BY <1>5, PushRefStep, KindsAssumption DEF OV!Next, OV!Kinds
<1>6. ASSUME OperandStack_PopRef
      PROVE  IInv' /\ (RefsFit => OV!Next)
  BY <1>6, PopRefStep, KindsAssumption DEF OV!Next, OV!Kinds
<1>7. ASSUME NEW k \in DOMAIN Values, PushRefused(k) \/ PopRefused(k)
      PROVE  IInv' /\ OV!Next
  BY <1>7, RefusalStep DEF OV!Next, OV!Kinds
<1>8. CASE UNCHANGED vars
  BY <1>8 DEF vars, OV!vars, IInv, TypeOK, Placed, Stored
<1>9. CASE Next
  BY <1>9, <1>1, <1>2, <1>3, <1>4, <1>5, <1>6, <1>7 DEF Next
<1>10. QED
  BY <1>8, <1>9

(* The slots in use are within the array, and hold what was pushed in the  *)
(* order it was pushed (OperandStack_New and the pushes and pops of        *)
(* frame.c).                                                               *)
THEOREM InductiveInvariant == Spec => []IInv
<1>1. Init => IInv
  BY InitProperties
<1>2. IInv /\ [Next]_vars => IInv'
  BY StepProperties
<1>3. QED
  BY <1>1, <1>2, PTL DEF Spec

(* The number of slots in use never leaves the array, whose slots keep     *)
(* their type: the overflow tests of frame.c stop every write behind it.   *)
THEOREM TypeCorrect == Spec => []TypeOK
<1>1. IInv => TypeOK
  BY DEF IInv
<1>2. QED
  BY <1>1, InductiveInvariant, PTL

(* The untyped slots answer every call as a stack of typed values does, if *)
(* no pointer is cut by the int32_t that OperandStack_PopRef returns.      *)
THEOREM Refinement == ASSUME RefsFit PROVE Spec => ImplementsOperandValues
<1>1. Init => OV!Init
  BY InitProperties
<1>2. IInv /\ [Next]_vars => [OV!Next]_(OV!vars)
  BY StepProperties
<1>3. QED
  BY <1>1, <1>2, InductiveInvariant, PTL DEF Spec, ImplementsOperandValues, OV!Spec
-----------------------------------------------------------------------------
(* GC_malloc clears the slots of a new stack. *)
LEMMA InitOwned == Init => RefsOwned
<1> SUFFICES ASSUME Init
             PROVE  RefsOwned
  OBVIOUS
<1>1. PICK at \in [1 .. Len(values) -> 0 .. maxSize] : Placed(at)
  BY InitProperties DEF IInv
<1>2. \A p \in 0 .. maxSize - 1 : Clean(data, p)
  BY NumberWordsProperties DEF Init, Cleared, Clean
<1>3. QED
  BY <1>1, <1>2 DEF RefsOwned, Owned

(* Every call keeps every pointer owned. *)
LEMMA StepOwned ==
  ASSUME IInv, RefsOwned, [Next]_vars
  PROVE  RefsOwned'
<1>1. ASSUME NEW k \in {"int", "float"}, NEW v \in Values[k],
             OperandStack_PushInt(k, v)
      PROVE  RefsOwned'
  BY <1>1, PushIntOwns
<1>2. ASSUME NEW k \in {"int", "float"}, OperandStack_PopInt(k)
      PROVE  RefsOwned'
  BY <1>2, PopNumberOwns, KindsAssumption, NeedProperties DEF OperandStack_PopInt
<1>3. ASSUME NEW k \in {"long", "double"}, NEW v \in Values[k],
             OperandStack_PushLong(k, v)
      PROVE  RefsOwned'
  BY <1>3, PushLongOwns
<1>4. ASSUME NEW k \in {"long", "double"}, OperandStack_PopLong(k)
      PROVE  RefsOwned'
  BY <1>4, PopNumberOwns, KindsAssumption, NeedProperties DEF OperandStack_PopLong
<1>5. ASSUME NEW v \in Values["ref"], OperandStack_PushRef(v)
      PROVE  RefsOwned'
  BY <1>5, PushRefOwns
<1>6. CASE OperandStack_PopRef
  BY <1>6, PopRefOwns
<1>7. ASSUME UNCHANGED <<maxSize, size, data, values>>
      PROVE  RefsOwned'
  BY <1>7 DEF RefsOwned, Owned, Clean, Placed, Stored
<1>8. ASSUME NEW k \in DOMAIN Values, PushRefused(k) \/ PopRefused(k)
      PROVE  RefsOwned'
  BY <1>7, <1>8 DEF PushRefused, PopRefused
<1>9. CASE UNCHANGED vars
  BY <1>7, <1>9 DEF vars
<1>10. CASE Next
  BY <1>10, <1>1, <1>2, <1>3, <1>4, <1>5, <1>6, <1>8 DEF Next
<1>11. QED
  BY <1>9, <1>10

(* A popped object can be collected: OperandStack_PopRef clears its slot,  *)
(* and no push or pop of another kind leaves a pointer above the top, if   *)
(* pointers can be told from numbers at all.                               *)
THEOREM NoPointerLeft == ASSUME NumbersAreNoRefs PROVE Spec => []NoStaleRef
<1>1. Init => IInv /\ RefsOwned
  BY InitProperties, InitOwned
<1>2. IInv /\ RefsOwned /\ [Next]_vars => (IInv /\ RefsOwned)'
  BY StepProperties, StepOwned
<1>3. IInv /\ RefsOwned => NoStaleRef
  <2> SUFFICES ASSUME IInv, RefsOwned, NEW p \in size .. maxSize - 1
               PROVE  Join(data[p].hi, data[p].lo) \notin Values["ref"] \ {0}
    BY DEF NoStaleRef
  <2>1. Clean(data, p)
    BY RoomIsClean
  <2>2. /\ maxSize \in Nat /\ size \in 0 .. maxSize
    BY SizeProperties DEF IInv
  <2>3. data[p].lo \in 0 .. Word - 1
    BY <2>2 DEF IInv, TypeOK
  <2>4. Join(data[p].hi, data[p].lo) = data[p].lo
    BY <2>1, <2>3, WordAssumption DEF Clean, Join
  <2>5. QED
    BY <2>1, <2>4, NumbersAreNoRefs DEF Clean, NumbersAreNoRefs
<1>4. QED
  BY <1>1, <1>2, <1>3, PTL DEF Spec
=============================================================================
