------------------------ MODULE AttributeSync_proof ------------------------
(***************************************************************************)
(* That the parsers of classfile.c stay in step with the stream.           *)
(*                                                                         *)
(* Every instruction of the scripts has a bill, the bytes that are read    *)
(* for it and for all that it leads to: a loop's bill has its count and    *)
(* its rounds, a call's has what the function reads.  The bills are those  *)
(* of the layout, so that the calls on the C stack together are billed for *)
(* what is left of the thing that is parsed.  An accepted read pays a part *)
(* of the running call's bill, a call divides it, a return has nothing     *)
(* left on it.                                                             *)
(***************************************************************************)
EXTENDS AttributeSync, ClassFileLoader_proof

(* Code is a sequence, of whatever its elements are. *)
IsCode(todo) == todo \in Seq({todo[i] : i \in 1 .. Len(todo)})

(* B is a set of bills: pairs of an instruction and the bytes that are     *)
(* read from there to the end of all that it leads to.  Code takes m bytes *)
(* if its instructions do, with r[i] bytes to read from instruction i on.  *)
Takes(B, todo, m) ==
  /\ IsCode(todo)
  /\ \E r \in [1 .. Len(todo) + 1 -> Int] :
       /\ r[1] = m /\ r[Len(todo) + 1] = 0
       /\ \A i \in 1 .. Len(todo) : <<todo[i], r[i] - r[i + 1]>> \in B

(* The bytes are a number, and more bills pay as well. *)
LEMMA TakesFacts ==
  ASSUME NEW B, NEW todo, NEW m, Takes(B, todo, m)
  PROVE  /\ m \in Int /\ IsCode(todo)
         /\ todo = <<>> => m = 0
         /\ \A C : B \subseteq C => Takes(C, todo, m)
<1>1. PICK r \in [1 .. Len(todo) + 1 -> Int] :
        /\ r[1] = m /\ r[Len(todo) + 1] = 0
        /\ \A i \in 1 .. Len(todo) : <<todo[i], r[i] - r[i + 1]>> \in B
  BY DEF Takes
<1>2. Len(todo) \in Nat /\ IsCode(todo)
  BY DEF Takes, IsCode
<1>3. 1 \in 1 .. Len(todo) + 1
  BY <1>2
<1>4. m \in Int
  BY <1>1, <1>3
<1>5. todo = <<>> => m = 0
  <2>1. todo = <<>> => Len(todo) + 1 = 1
    OBVIOUS
  <2>2. QED
    BY <1>1, <2>1
<1>6. ASSUME NEW C, B \subseteq C
      PROVE  Takes(C, todo, m)
  BY <1>1, <1>2, <1>6 DEF Takes
<1>7. QED
  BY <1>2, <1>4, <1>5, <1>6

(* No code takes nothing. *)
LEMMA TakesNothing == \A B : Takes(B, <<>>, 0)
<1>1. PICK s : s = <<>>
  OBVIOUS
<1>2. s \in Seq({}) /\ Len(s) = 0
  BY <1>1
<1>3. \A B : Takes(B, s, 0)
  <2>1. PICK r : r = [i \in 1 .. 1 |-> 0]
    OBVIOUS
  <2>2. r \in [1 .. 0 + 1 -> Int] /\ r[1] = 0 /\ r[0 + 1] = 0
    BY <2>1
  <2>3. IsCode(s)
    BY <1>2, OwnElements DEF IsCode
  <2>4. QED
    BY <1>2, <2>2, <2>3 DEF Takes
<1>4. QED
  BY <1>1, <1>3

(* An instruction alone takes what its bill says. *)
LEMMA TakesOne ==
  ASSUME NEW B, NEW ins, NEW m \in Int, <<ins, m>> \in B
  PROVE  Takes(B, <<ins>>, m)
<1>1. PICK s : s = <<ins>>
  OBVIOUS
<1>2. Len(s) = 1 /\ s[1] = ins
  BY <1>1
<1>3. PICK r : r = [i \in 1 .. 2 |-> IF i = 1 THEN m ELSE 0]
  OBVIOUS
<1>4. r \in [1 .. 1 + 1 -> Int] /\ r[1] = m /\ r[1 + 1] = 0
  BY <1>3
<1>5. \A i \in 1 .. 1 : i = 1 /\ r[i] - r[i + 1] = m
  BY <1>4
<1>6. IsCode(s)
  <2>1. s \in Seq({ins})
    BY <1>1
  <2>2. QED
    BY <2>1, OwnElements DEF IsCode
<1>7. Takes(B, s, m)
  BY <1>2, <1>4, <1>5, <1>6 DEF Takes
<1>8. QED
  BY <1>1, <1>7

(* The next instruction and the rest. *)
LEMMA TakesHead ==
  ASSUME NEW B, NEW todo, NEW m, Takes(B, todo, m), todo # <<>>
  PROVE  \E p \in Int : <<Head(todo), p>> \in B /\ Takes(B, Tail(todo), m - p)
<1>1. PICK r \in [1 .. Len(todo) + 1 -> Int] :
        /\ r[1] = m /\ r[Len(todo) + 1] = 0
        /\ \A i \in 1 .. Len(todo) : <<todo[i], r[i] - r[i + 1]>> \in B
  BY DEF Takes
<1>2. PICK S : todo \in Seq(S)
  BY TakesFacts DEF IsCode
<1>3. PICK l \in Nat : l = Len(todo) /\ l >= 1
  BY <1>2
<1>4. PICK t : t = Tail(todo)
  OBVIOUS
<1>5. Len(t) = l - 1 /\ \A i \in 1 .. l - 1 : t[i] = todo[i + 1]
  BY <1>2, <1>3, <1>4
<1>6. r[1] \in Int /\ r[2] \in Int /\ Head(todo) = todo[1] /\ 1 \in 1 .. l
  BY <1>2, <1>1, <1>3
<1>7. PICK p \in Int : p = r[1] - r[2]
  BY <1>6
<1>8. <<Head(todo), p>> \in B
  BY <1>1, <1>3, <1>6, <1>7
<1>9. PICK q : q = [i \in 1 .. l |-> r[i + 1]]
  OBVIOUS
<1>10. q \in [1 .. (l - 1) + 1 -> Int] /\ q[1] = m - p /\ q[(l - 1) + 1] = 0
  <2>1. (l - 1) + 1 = l /\ \A i \in 1 .. l : i + 1 \in 1 .. l + 1
    BY <1>3
  <2>2. \A i \in 1 .. l : r[i + 1] \in Int
    BY <2>1, <1>1, <1>3
  <2>3. q[1] = r[2] /\ q[l] = r[l + 1]
    BY <1>3, <1>9
  <2>4. r[2] = m - p
    BY <1>1, <1>6, <1>7
  <2>5. QED
    BY <2>1, <2>2, <2>3, <2>4, <1>1, <1>3, <1>9
<1>11. \A i \in 1 .. l - 1 : <<t[i], q[i] - q[i + 1]>> \in B
  <2>1. ASSUME NEW i \in 1 .. l - 1
        PROVE  <<t[i], q[i] - q[i + 1]>> \in B
    <3>1. i \in 1 .. l /\ i + 1 \in 1 .. l
      BY <1>3
    <3>2. q[i] = r[i + 1] /\ q[i + 1] = r[(i + 1) + 1] /\ t[i] = todo[i + 1]
      BY <3>1, <1>5, <1>9
    <3>3. <<todo[i + 1], r[i + 1] - r[(i + 1) + 1]>> \in B
      BY <3>1, <1>1, <1>3
    <3>4. QED
      BY <3>2, <3>3
  <2>2. QED
    BY <2>1
<1>12. Takes(B, t, m - p)
  <2>1. t \in Seq(S)
    BY <1>2, <1>4
  <2>2. Len(t) = l - 1 /\ Len(t) \in Nat /\ IsCode(t)
    BY <2>1, <1>3, <1>5, OwnElements DEF IsCode
  <2>3. PICK z \in Nat : z = l - 1 /\ Len(t) = z
    BY <2>2
  <2>4. q \in [1 .. z + 1 -> Int] /\ q[1] = m - p /\ q[z + 1] = 0
    BY <2>3, <1>10
  <2>5. \A i \in 1 .. z : <<t[i], q[i] - q[i + 1]>> \in B
    BY <2>3, <1>11
  <2>6. QED
    BY <2>2, <2>3, <2>4, <2>5 DEF Takes
<1>13. QED
  BY <1>4, <1>8, <1>12

(* One code after the other. *)
LEMMA TakesBoth ==
  ASSUME NEW B, NEW a, NEW b, NEW p, NEW q,
         Takes(B, a, p), Takes(B, b, q)
  PROVE  Takes(B, a \o b, p + q)
<1>1. PICK f \in [1 .. Len(a) + 1 -> Int] :
        /\ f[1] = p /\ f[Len(a) + 1] = 0
        /\ \A i \in 1 .. Len(a) : <<a[i], f[i] - f[i + 1]>> \in B
  BY DEF Takes
<1>2. PICK g \in [1 .. Len(b) + 1 -> Int] :
        /\ g[1] = q /\ g[Len(b) + 1] = 0
        /\ \A i \in 1 .. Len(b) : <<b[i], g[i] - g[i + 1]>> \in B
  BY DEF Takes
<1>3. PICK S, T : a \in Seq(S) /\ b \in Seq(T)
  BY TakesFacts DEF IsCode
<1>4. PICK k \in Nat, l \in Nat : k = Len(a) /\ l = Len(b)
  BY <1>3
<1>5. PICK c : c = a \o b
  OBVIOUS
<1>6. /\ Len(c) = k + l
      /\ \A i \in 1 .. k : c[i] = a[i]
      /\ \A i \in k + 1 .. k + l : c[i] = b[i - k]
  BY <1>3, <1>4, <1>5
<1>7. p \in Int /\ q \in Int
  BY TakesFacts
<1>8. PICK r : r = [i \in 1 .. (k + l) + 1 |-> IF i <= k THEN f[i] + q ELSE g[i - k]]
  OBVIOUS
<1>9. \A i \in 1 .. (k + l) + 1 :
        /\ i <= k => i \in 1 .. k + 1
        /\ ~(i <= k) => i - k \in 1 .. l + 1
  BY <1>4
<1>10. r \in [1 .. (k + l) + 1 -> Int]
  <2>1. ASSUME NEW i \in 1 .. (k + l) + 1
        PROVE  (IF i <= k THEN f[i] + q ELSE g[i - k]) \in Int
    <3>1. CASE i <= k
      <4>1. f[i] \in Int
        BY <3>1, <1>1, <1>4, <1>9
      <4>2. QED
        BY <3>1, <4>1, <1>7
    <3>2. CASE ~(i <= k)
      BY <3>2, <1>2, <1>4, <1>9
    <3>3. QED
      BY <3>1, <3>2
  <2>2. QED
    BY <2>1, <1>8
<1>11. \A i \in 1 .. k + 1 : r[i] = f[i] + q
  <2>1. \A i \in 1 .. k : i \in 1 .. (k + l) + 1 /\ i <= k
    BY <1>4
  <2>2. k + 1 \in 1 .. (k + l) + 1 /\ ~(k + 1 <= k) /\ (k + 1) - k = 1
    BY <1>4
  <2>3. r[k + 1] = q
    BY <2>2, <1>2, <1>8
  <2>4. f[k + 1] + q = q
    BY <1>1, <1>4, <1>7
  <2>5. \A i \in 1 .. k + 1 : i \in 1 .. k \/ i = k + 1
    BY <1>4
  <2>6. QED
    BY <2>1, <2>3, <2>4, <2>5, <1>8
<1>12. \A i \in k + 1 .. (k + l) + 1 : r[i] = g[i - k]
  BY <1>4, <1>8
<1>13. r[1] = p + q /\ r[(k + l) + 1] = 0
  <2>1. 1 \in 1 .. k + 1 /\ (k + l) + 1 \in k + 1 .. (k + l) + 1 /\ ((k + l) + 1) - k = l + 1
    BY <1>4
  <2>2. QED
    BY <2>1, <1>1, <1>2, <1>4, <1>11, <1>12
<1>14. \A i \in 1 .. k + l : <<c[i], r[i] - r[i + 1]>> \in B
  <2>1. ASSUME NEW i \in 1 .. k
        PROVE  <<c[i], r[i] - r[i + 1]>> \in B
    <3>1. i \in 1 .. k + 1 /\ i + 1 \in 1 .. k + 1
      BY <1>4
    <3>2. r[i] = f[i] + q /\ r[i + 1] = f[i + 1] + q /\ f[i] \in Int /\ f[i + 1] \in Int
      BY <3>1, <1>1, <1>4, <1>11
    <3>3. r[i] - r[i + 1] = f[i] - f[i + 1]
      BY <3>2, <1>7
    <3>4. QED
      BY <3>3, <1>1, <1>4, <1>6
  <2>2. ASSUME NEW i \in k + 1 .. k + l
        PROVE  <<c[i], r[i] - r[i + 1]>> \in B
    <3>1. /\ i \in k + 1 .. (k + l) + 1 /\ i + 1 \in k + 1 .. (k + l) + 1
          /\ (i + 1) - k = (i - k) + 1 /\ i - k \in 1 .. l
      BY <1>4
    <3>2. r[i] = g[i - k] /\ r[i + 1] = g[(i - k) + 1] /\ c[i] = b[i - k]
      BY <3>1, <1>6, <1>12
    <3>3. <<b[i - k], g[i - k] - g[(i - k) + 1]>> \in B
      BY <3>1, <1>2, <1>4
    <3>4. QED
      BY <3>2, <3>3
  <2>3. \A i \in 1 .. k + l : i \in 1 .. k \/ i \in k + 1 .. k + l
    BY <1>4
  <2>4. QED
    BY <2>1, <2>2, <2>3
<1>15. Takes(B, c, p + q)
  <2>1. c \in Seq(S \cup T)
    BY <1>3, <1>5
  <2>2. IsCode(c)
    BY <2>1, OwnElements DEF IsCode
  <2>3. QED
    BY <2>2, <1>6, <1>10, <1>13, <1>14 DEF Takes
<1>16. QED
  BY <1>5, <1>15

(* Where the instructions of code run several times over are in it.        *)
LEMMA Rounds ==
  ASSUME NEW l \in 1 .. 4, NEW i \in Nat
  PROVE  /\ i \div l \in Nat /\ i % l \in 0 .. l - 1
         /\ (i % l) + 1 < l => (i + 1) \div l = i \div l /\ (i + 1) % l = (i % l) + 1
         /\ (i % l) + 1 = l => (i + 1) \div l = (i \div l) + 1 /\ (i + 1) % l = 0
<1>1. CASE l = 1
  BY <1>1
<1>2. CASE l = 2
  BY <1>2
<1>3. CASE l = 3
  BY <1>3
<1>4. CASE l = 4
  BY <1>4
<1>5. QED
  BY <1>1, <1>2, <1>3, <1>4

(* The first instruction begins a round, and so does the one after the last. *)
LEMMA RoundEnds ==
  ASSUME NEW l \in 1 .. 4
  PROVE  /\ 0 \div l = 0 /\ 0 % l = 0
         /\ \A n \in Nat : (n * l) \div l = n /\ (n * l) % l = 0
<1>1. CASE l = 1
  BY <1>1
<1>2. CASE l = 2
  BY <1>2
<1>3. CASE l = 3
  BY <1>3
<1>4. CASE l = 4
  BY <1>4
<1>5. QED
  BY <1>1, <1>2, <1>3, <1>4

(* Code of up to four instructions, n times over, takes n times its bytes. *)
LEMMA TakesCopies ==
  ASSUME NEW B, NEW code, Len(code) \in 1 .. 4, NEW p, Takes(B, code, p),
         NEW n \in Nat
  PROVE  Takes(B, Copies(code, n), n * p)
<1>1. PICK f \in [1 .. Len(code) + 1 -> Int] :
        /\ f[1] = p /\ f[Len(code) + 1] = 0
        /\ \A i \in 1 .. Len(code) : <<code[i], f[i] - f[i + 1]>> \in B
  BY DEF Takes
<1>2. PICK l \in 1 .. 4 : l = Len(code)
  OBVIOUS
<1>3. PICK m \in Nat : m = n * l
  OBVIOUS
<1>4. PICK c : c = Copies(code, n)
  OBVIOUS
<1>5. Len(c) = m /\ \A i \in 1 .. m : c[i] = code[((i - 1) % l) + 1]
  BY <1>2, <1>3, <1>4 DEF Copies
<1>6. p \in Int
  BY TakesFacts
<1> DEFINE due(i) == (n - 1 - (i - 1) \div l) * p + f[((i - 1) % l) + 1]
<1>7. \A i \in 1 .. m + 1 : i - 1 \in Nat /\ (i - 1) + 1 = i
  BY <1>3
<1>8. \A i \in 1 .. m + 1 : due(i) \in Int
  <2>1. ASSUME NEW i \in 1 .. m + 1
        PROVE  due(i) \in Int
    <3>1. PICK q \in Nat, j \in 0 .. l - 1 : q = (i - 1) \div l /\ j = (i - 1) % l
      BY <1>7, Rounds
    <3>2. f[j + 1] \in Int
      BY <3>1, <1>1, <1>2
    <3>3. (n - 1 - q) * p \in Int
      BY <1>6
    <3>4. QED
      BY <3>1, <3>2, <3>3
  <2>2. QED
    BY <2>1
<1>9. due(1) = n * p
  <2>1. 1 - 1 = 0 /\ 0 \div l = 0 /\ 0 % l = 0 /\ 0 + 1 = 1
    BY RoundEnds
  <2>2. due(1) = (n - 1 - 0) * p + f[1]
    BY <2>1
  <2>3. (n - 1 - 0) * p + p = n * p
    BY <1>6
  <2>4. QED
    BY <2>2, <2>3, <1>1
<1>10. due(m + 1) = 0
  <2>1. (m + 1) - 1 = m /\ m \div l = n /\ m % l = 0 /\ 0 + 1 = 1
    BY <1>3, RoundEnds
  <2>2. due(m + 1) = (n - 1 - n) * p + f[1]
    BY <2>1
  <2>3. (n - 1 - n) * p + p = 0
    BY <1>6
  <2>4. QED
    BY <2>2, <2>3, <1>1
<1>11. ASSUME NEW i \in 1 .. m
       PROVE  <<c[i], due(i) - due(i + 1)>> \in B
  <2>1. PICK z \in Nat : i - 1 = z /\ (i + 1) - 1 = z + 1
    BY <1>3
  <2>2. PICK q \in Nat, j \in 0 .. l - 1 : q = z \div l /\ j = z % l
    BY Rounds
  <2>3. /\ j + 1 < l => (z + 1) \div l = q /\ (z + 1) % l = j + 1
        /\ j + 1 = l => (z + 1) \div l = q + 1 /\ (z + 1) % l = 0
    BY <2>2, Rounds
  <2>4. PICK u \in Int, v \in Int : u = f[j + 1] /\ v = f[j + 2]
    <3>1. j + 1 \in 1 .. l + 1 /\ j + 2 \in 1 .. l + 1
      OBVIOUS
    <3>2. f[j + 1] \in Int /\ f[j + 2] \in Int
      BY <3>1, <1>1, <1>2
    <3>3. QED
      BY <3>2
  <2>5. due(i) = (n - 1 - q) * p + u
    BY <2>1, <2>2, <2>4
  <2>6. due(i) - due(i + 1) = u - v
    <3>1. CASE j + 1 < l
      <4>1. (j + 1) + 1 = j + 2
        OBVIOUS
      <4>2. due(i + 1) = (n - 1 - q) * p + v
        BY <2>1, <2>3, <2>4, <3>1, <4>1
      <4>3. PICK x \in Int : x = (n - 1 - q) * p
        BY <1>6
      <4>4. due(i) = x + u /\ due(i + 1) = x + v
        BY <2>5, <4>2, <4>3
      <4>5. (x + u) - (x + v) = u - v
        BY <2>4, <4>3
      <4>6. QED
        BY <4>4, <4>5, Zenon
    <3>2. CASE j + 1 = l
      <4>1. v = 0
        <5>1. j + 2 = l + 1
          BY <3>2
        <5>2. QED
          BY <5>1, <2>4, <1>1, <1>2
      <4>2. due(i + 1) = (n - 1 - (q + 1)) * p + f[0 + 1]
        BY <2>1, <2>3, <3>2
      <4>3. f[0 + 1] = p
        BY <1>1
      <4>4. (n - 1 - (q + 1)) * p + p = (n - 1 - q) * p
        BY <1>6
      <4>5. PICK x \in Int : x = (n - 1 - q) * p
        BY <1>6
      <4>6. due(i) = x + u /\ due(i + 1) = x
        BY <2>5, <4>2, <4>3, <4>4, <4>5
      <4>7. QED
        BY <2>4, <4>1, <4>5, <4>6
    <3>3. QED
      BY <3>1, <3>2
  <2>7. c[i] = code[j + 1] /\ j + 1 \in 1 .. l /\ (j + 1) + 1 = j + 2
    <3>1. c[i] = code[((i - 1) % l) + 1]
      BY <1>5
    <3>2. (i - 1) % l = j
      BY <2>1, <2>2
    <3>3. j + 1 \in 1 .. l /\ (j + 1) + 1 = j + 2
      OBVIOUS
    <3>4. QED
      BY <3>1, <3>2, <3>3
  <2>8. <<code[j + 1], u - v>> \in B
    BY <2>4, <2>7, <1>1, <1>2
  <2>9. QED
    BY <2>6, <2>7, <2>8
<1> HIDE DEF due
<1>12. PICK r : r = [i \in 1 .. m + 1 |-> due(i)]
  OBVIOUS
<1>13. r \in [1 .. m + 1 -> Int] /\ r[1] = n * p /\ r[m + 1] = 0
  BY <1>3, <1>8, <1>9, <1>10, <1>12
<1>14. \A i \in 1 .. m : r[i] = due(i) /\ r[i + 1] = due(i + 1)
  BY <1>3, <1>12
<1>15. \A i \in 1 .. m : <<c[i], r[i] - r[i + 1]>> \in B
  BY <1>11, <1>14
<1>16. Takes(B, c, n * p)
  <2>1. PICK S : code \in Seq(S)
    BY TakesFacts DEF IsCode
  <2>2. c \in Seq(S)
    BY <2>1, <1>4, CopiesOfCode
  <2>3. IsCode(c)
    BY <2>2, OwnElements DEF IsCode
  <2>4. QED
    BY <2>3, <1>5, <1>13, <1>15 DEF Takes
<1>17. QED
  BY <1>4, <1>16

-----------------------------------------------------------------------------
(* The calls of a stack take m bytes, with s[k] to read from call k on up. *)
Owed(B, st, m) ==
  /\ Len(st) \in Nat
  /\ \E s \in [1 .. Len(st) + 1 -> Int] :
       /\ s[1] = m /\ s[Len(st) + 1] = 0
       /\ \A k \in 1 .. Len(st) : Takes(B, st[k].todo, s[k] - s[k + 1])

(* The last of l calls takes x of the m bytes: if it returns, takes others  *)
(* instead or calls something, the stack takes that much less or more.     *)
LastOwes(B, st, m, l, x) ==
  /\ Takes(B, st[l].todo, x)
  /\ \A C, new : B \subseteq C /\ (\A k \in 1 .. l - 1 : new[k] = st[k]) =>
       /\ Len(new) = l - 1 => Owed(C, new, m - x)
       /\ \A y : Len(new) = l /\ Takes(C, new[l].todo, y) => Owed(C, new, m - x + y)
       /\ \A y, z : /\ Len(new) = l + 1
                    /\ Takes(C, new[l].todo, y) /\ Takes(C, new[l + 1].todo, z)
                    => Owed(C, new, m - x + y + z)

(* There is such a part of the bytes for every stack that is not empty.    *)
LEMMA OwedLast ==
  ASSUME NEW B, NEW st, NEW m, Owed(B, st, m), NEW l \in Nat \ {0}, Len(st) = l
  PROVE  \E x \in Int : LastOwes(B, st, m, l, x)
<1>1. PICK s \in [1 .. l + 1 -> Int] :
        /\ s[1] = m /\ s[l + 1] = 0
        /\ \A k \in 1 .. l : Takes(B, st[k].todo, s[k] - s[k + 1])
  BY DEF Owed
<1>2. \A k \in 1 .. l + 1 : s[k] \in Int
  BY <1>1
<1>3. 1 \in 1 .. l /\ 1 \in 1 .. l + 1 /\ l \in 1 .. l /\ l \in 1 .. l + 1 /\ l + 1 \in 1 .. l + 1
  OBVIOUS
<1>4. PICK x \in Int : x = s[l] /\ Takes(B, st[l].todo, x)
  <2>1. s[l] \in Int /\ s[l] - s[l + 1] = s[l]
    BY <1>1, <1>2, <1>3
  <2>2. QED
    BY <2>1, <1>1, <1>3
<1>5. m \in Int
  BY <1>1, <1>2, <1>3
<1> SUFFICES ASSUME NEW C, NEW new, B \subseteq C, \A k \in 1 .. l - 1 : new[k] = st[k]
             PROVE  /\ Len(new) = l - 1 => Owed(C, new, m - x)
                    /\ \A y : Len(new) = l /\ Takes(C, new[l].todo, y) => Owed(C, new, m - x + y)
                    /\ \A y, z : /\ Len(new) = l + 1
                                 /\ Takes(C, new[l].todo, y) /\ Takes(C, new[l + 1].todo, z)
                                 => Owed(C, new, m - x + y + z)
  BY <1>4 DEF LastOwes
<1>6. ASSUME NEW k \in 1 .. l - 1, NEW d \in Int
      PROVE  Takes(C, new[k].todo, (s[k] + d) - (s[k + 1] + d))
  <2>1. k \in 1 .. l /\ k \in 1 .. l + 1 /\ k + 1 \in 1 .. l + 1
    OBVIOUS
  <2>2. PICK a \in Int, b \in Int : a = s[k] /\ b = s[k + 1]
    BY <2>1, <1>2
  <2>3. (a + d) - (b + d) = a - b
    BY <2>2
  <2>4. Takes(B, st[k].todo, a - b)
    BY <2>1, <2>2, <1>1
  <2>5. Takes(C, new[k].todo, a - b)
    BY <2>4, TakesFacts
  <2>6. QED
    BY <2>2, <2>3, <2>5
<1>7. ASSUME Len(new) = l - 1
      PROVE  Owed(C, new, m - x)
  <2>1. PICK d \in Int : d = 0 - x
    OBVIOUS
  <2>2. PICK r : r = [k \in 1 .. l |-> s[k] + d]
    OBVIOUS
  <2>3. PICK h \in Nat : h = l - 1 /\ h + 1 = l
    OBVIOUS
  <2>4. r \in [1 .. h + 1 -> Int] /\ r[1] = m - x /\ r[h + 1] = 0
    <3>1. \A k \in 1 .. l : k \in 1 .. l + 1
      OBVIOUS
    <3>2. \A k \in 1 .. l : s[k] + d \in Int
      BY <3>1, <1>2
    <3>3. m + d = m - x /\ x + d = 0
      BY <2>1, <1>5
    <3>4. QED
      BY <2>2, <2>3, <3>2, <3>3, <1>1, <1>3, <1>4
  <2>5. ASSUME NEW k \in 1 .. h
        PROVE  Takes(C, new[k].todo, r[k] - r[k + 1])
    <3>1. k \in 1 .. l - 1 /\ k \in 1 .. l /\ k + 1 \in 1 .. l
      BY <2>3
    <3>2. QED
      BY <2>2, <3>1, <1>6
  <2>6. QED
    BY <1>7, <2>3, <2>4, <2>5 DEF Owed
<1>8. ASSUME NEW y, Len(new) = l, Takes(C, new[l].todo, y)
      PROVE  Owed(C, new, m - x + y)
  <2>1. y \in Int
    BY <1>8, TakesFacts
  <2>2. PICK d \in Int : d = y - x
    BY <2>1
  <2>3. PICK r : r = [k \in 1 .. l + 1 |-> IF k <= l THEN s[k] + d ELSE 0]
    OBVIOUS
  <2>4. \A k \in 1 .. l : r[k] = s[k] + d /\ r[k] \in Int
    BY <2>3, <1>2
  <2>5. r[l + 1] = 0
    BY <2>3
  <2>6. r \in [1 .. l + 1 -> Int]
    <3>1. \A k \in 1 .. l + 1 : (IF k <= l THEN s[k] + d ELSE 0) \in Int
      BY <1>2
    <3>2. QED
      BY <2>3, <3>1
  <2>7. r[1] = m - x + y
    <3>1. m + d = m - x + y
      BY <2>1, <2>2, <1>5
    <3>2. QED
      BY <2>4, <3>1, <1>1, <1>3
  <2>8. ASSUME NEW k \in 1 .. l
        PROVE  Takes(C, new[k].todo, r[k] - r[k + 1])
    <3>1. CASE k = l
      <4>1. x + d = y /\ y - 0 = y
        BY <2>1, <2>2
      <4>2. r[l] = y
        BY <2>4, <4>1, <1>3, <1>4
      <4>3. QED
        BY <1>8, <2>5, <3>1, <4>1, <4>2
    <3>2. CASE k \in 1 .. l - 1
      <4>1. k + 1 \in 1 .. l
        BY <3>2
      <4>2. QED
        BY <2>4, <3>2, <4>1, <1>6
    <3>3. QED
      BY <3>1, <3>2
  <2>9. QED
    BY <1>8, <2>5, <2>6, <2>7, <2>8 DEF Owed
<1>9. ASSUME NEW y, NEW z, Len(new) = l + 1,
             Takes(C, new[l].todo, y), Takes(C, new[l + 1].todo, z)
      PROVE  Owed(C, new, m - x + y + z)
  <2>1. y \in Int /\ z \in Int
    BY <1>9, TakesFacts
  <2>2. PICK d \in Int : d = y + z - x
    BY <2>1
  <2>3. PICK r : r = [k \in 1 .. (l + 1) + 1 |-> IF k <= l THEN s[k] + d
                                                 ELSE IF k = l + 1 THEN z ELSE 0]
    OBVIOUS
  <2>4. \A k \in 1 .. l : r[k] = s[k] + d /\ r[k] \in Int
    BY <2>3, <1>2
  <2>5. r[l + 1] = z /\ r[(l + 1) + 1] = 0
    BY <2>3
  <2>6. r \in [1 .. (l + 1) + 1 -> Int]
    <3>1. \A k \in 1 .. (l + 1) + 1 :
            (IF k <= l THEN s[k] + d ELSE IF k = l + 1 THEN z ELSE 0) \in Int
      BY <2>1, <1>2
    <3>2. QED
      BY <2>3, <3>1
  <2>7. r[1] = m - x + y + z
    <3>1. m + d = m - x + y + z
      BY <2>1, <2>2, <1>5
    <3>2. QED
      BY <2>4, <3>1, <1>1, <1>3
  <2>8. ASSUME NEW k \in 1 .. l + 1
        PROVE  Takes(C, new[k].todo, r[k] - r[k + 1])
    <3>1. CASE k = l + 1
      <4>1. z - 0 = z
        BY <2>1
      <4>2. QED
        BY <1>9, <2>5, <3>1, <4>1
    <3>2. CASE k = l
      <4>1. (x + d) - z = y
        BY <2>1, <2>2
      <4>2. r[l] = x + d
        BY <2>4, <1>3, <1>4
      <4>3. QED
        BY <1>9, <2>5, <3>2, <4>1, <4>2
    <3>3. CASE k \in 1 .. l - 1
      <4>1. k + 1 \in 1 .. l
        BY <3>3
      <4>2. QED
        BY <2>4, <3>3, <4>1, <1>6
    <3>4. QED
      BY <3>1, <3>2, <3>3
  <2>9. PICK h \in Nat : h = l + 1
    OBVIOUS
  <2>10. r \in [1 .. h + 1 -> Int] /\ r[1] = m - x + y + z /\ r[h + 1] = 0 /\ Len(new) = h
    BY <1>9, <2>5, <2>6, <2>7, <2>9
  <2>11. \A k \in 1 .. h : Takes(C, new[k].todo, r[k] - r[k + 1])
    BY <2>8, <2>9
  <2>12. QED
    BY <2>10, <2>11 DEF Owed
<1>10. QED
  BY <1>7, <1>8, <1>9

ElementKinds == {"const", "enum", "class"}
TargetKinds  == {"parameter", "super", "bound", "empty", "formal", "throws",
                 "localvar", "catch", "offset", "argument"}

-----------------------------------------------------------------------------
(* What each instruction takes: a read its width, a blob its bytes too ... *)
Plain    == {<<ins, ins.w>> : ins \in {r \in Reads : r.op \in Simple}}
Blobs(n) == {<<Blob(w, "count"), w + n>> : w \in Nat}

(* ... a count what its loop takes, a call what the function takes ...     *)
Looped(n, e, target) ==
  {<<Many(2, <<U(2)>>), 2 + n * 2>>,
   <<Many(2, <<U(2), U(2), U(2), U(2)>>), 2 + n * 8>>,
   <<Many(1, <<U(2), U(2)>>), 1 + n * 4>>,
   <<Many(2, <<U(2), Many(2, <<U(2)>>)>>), 2 + n * BootstrapMethod(n)>>,
   <<Many(2, <<U(2), U(2), U(2)>>), 2 + n * 6>>,
   <<Many(1, <<U(1), U(1)>>), 1 + n * 2>>,
   <<Pairs, 2 + n * ElementValuePair(e)>>,
   <<Annotations, 2 + n * Annotation(n, e)>>,
   <<Many(1, <<Annotations>>), 1 + n * ParameterAnnotaion(n, e)>>,
   <<TypeAnnotations, 2 + n * TypeAnnotation(n, e, target)>>}

Called(n, e, target) ==
  {<<Call("parseElementValue"), ElementValue(e)>>,
   <<Call("parseAnnotation"), Annotation(n, e)>>,
   <<Call("parseTypeAnnotation"), TypeAnnotation(n, e, target)>>,
   <<Call("cp_parse_filedRefInfo"), 4>>}
Repeated(n) ==
  {<<CallN(2, "parseFields"), 2 + n * FieldInfo(n)>>,
   <<CallN(2, "parseMethods"), 2 + n * MethodInfo(n)>>,
   <<CallN(2, "parseAttributes"), AttributesOf(n)>>}
Switched(n, e, target) ==
  {<<parseElementValue[1], ElementValue(e)>>,
   <<parseTypeAnnotation[1], 1 + target_info(n, target)>>}

(* ... an attribute what a Deprecated one takes, and the pool, of n + 1    *)
(* strings, what its entries from i on take.                               *)
Inner == {<<Attribute, 2 + 4 + Attribute_Deprecated>>}
Strings(n, i) == (n + 2 - i) * (1 + ConstantInfo(n).Utf8)
Pooled(n, counts, size) ==
  {<<Pool, 2 + Strings(n, 1)>> : c \in counts \cap {n + 2}}
  \cup UNION {{<<Entry(i), Strings(n, i)>>, <<Store(i, "Utf8"), Strings(n, i + 1)>>} :
              i \in IF size = n + 2 THEN 1 .. n + 1 ELSE {}}

Bills(n, e, target, counts, size) ==
  Plain \cup Blobs(n) \cup Looped(n, e, target) \cup Called(n, e, target) \cup Repeated(n)
  \cup Switched(n, e, target) \cup Inner \cup Pooled(n, counts, size)

(* The sizes are numbers. *)
LEMMA SizesAreNumbers ==
  ASSUME NEW n \in Nat, NEW e \in ElementKinds, NEW target \in TargetKinds
  PROVE  /\ ElementValue(e) \in Nat /\ ElementValuePair(e) \in Nat
         /\ Annotation(n, e) \in Nat /\ ParameterAnnotaion(n, e) \in Nat
         /\ target_info(n, target) \in Nat /\ TypeAnnotation(n, e, target) \in Nat
         /\ BootstrapMethod(n) \in Nat /\ AttributesOf(n) \in Nat
         /\ FieldInfo(n) \in Nat /\ MethodInfo(n) \in Nat
         /\ \A k \in Nat : n * k \in Nat
<1>1. \A k \in Nat : n * k \in Nat
  OBVIOUS
<1>2. ElementValue(e) \in Nat
  BY DEF ElementKinds, ElementValue
<1>3. ElementValuePair(e) \in Nat
  BY <1>2 DEF ElementValuePair
<1>4. n * ElementValuePair(e) \in Nat
  BY <1>1, <1>3
<1>5. Annotation(n, e) \in Nat
  BY <1>4 DEF Annotation
<1>6. n * Annotation(n, e) \in Nat
  BY <1>1, <1>5
<1>7. ParameterAnnotaion(n, e) \in Nat
  BY <1>6 DEF ParameterAnnotaion
<1>8. target_info(n, target) \in Nat
  <2>1. n * 6 \in Nat
    OBVIOUS
  <2>2. QED
    BY <2>1 DEF TargetKinds, target_info
<1>9. TypePath(n) \in Nat
  BY DEF TypePath
<1>10. TypeAnnotation(n, e, target) \in Nat
  BY <1>4, <1>8, <1>9 DEF TypeAnnotation
<1>11. BootstrapMethod(n) \in Nat /\ AttributesOf(n) \in Nat
  BY DEF BootstrapMethod, AttributesOf, Attribute_Deprecated
<1>12. FieldInfo(n) \in Nat /\ MethodInfo(n) \in Nat
  BY <1>11 DEF FieldInfo, MethodInfo
<1>13. QED
  BY <1>1, <1>2, <1>3, <1>5, <1>7, <1>8, <1>10, <1>11, <1>12

(* One instruction before others. *)
LEMMA TakesFirst ==
  ASSUME NEW B, NEW ins, NEW p \in Int, <<ins, p>> \in B,
         NEW code, NEW m, Takes(B, code, m)
  PROVE  Takes(B, <<ins>> \o code, p + m)
  BY TakesOne, TakesBoth

(* Short codes, as the scripts write them. *)
LEMMA TakesShort ==
  ASSUME NEW B, NEW a, NEW p \in Int, <<a, p>> \in B
  PROVE  /\ Takes(B, <<a>>, p)
         /\ \A b, q : Takes(B, <<b>>, q) => Takes(B, <<a, b>>, p + q)
         /\ \A b, c, q : Takes(B, <<b, c>>, q) => Takes(B, <<a, b, c>>, p + q)
         /\ \A b, c, d, q : Takes(B, <<b, c, d>>, q) => Takes(B, <<a, b, c, d>>, p + q)
         /\ \A b, c, d, f, q : Takes(B, <<b, c, d, f>>, q) => Takes(B, <<a, b, c, d, f>>, p + q)
         /\ \A b, c, d, f, g, q :
              Takes(B, <<b, c, d, f, g>>, q) => Takes(B, <<a, b, c, d, f, g>>, p + q)
<1>1. ASSUME NEW S, NEW s \in Seq(S), NEW u \in Seq(S), NEW q, Takes(B, s, q),
             Len(u) = Len(s) + 1, u[1] = a, \A i \in 1 .. Len(s) : u[i + 1] = s[i]
      PROVE  Takes(B, u, p + q)
  <2>1. PICK v : v = <<a>> \o s
    OBVIOUS
  <2>2. /\ v \in Seq(S \cup {a}) /\ Len(v) = Len(s) + 1 /\ v[1] = a
        /\ \A i \in 1 .. Len(s) : v[i + 1] = s[i]
    BY <2>1
  <2>3. \A i \in 1 .. Len(s) + 1 : i = 1 \/ \E j \in 1 .. Len(s) : i = j + 1
    <3>1. \A i \in 1 .. Len(s) + 1 : i = 1 \/ (i - 1 \in 1 .. Len(s) /\ i = (i - 1) + 1)
      OBVIOUS
    <3>2. QED
      BY <3>1
  <2>4. \A i \in 1 .. Len(v) : v[i] = u[i]
    BY <1>1, <2>2, <2>3
  <2>5. v = u
    BY <1>1, <2>2, <2>4, SeqEqual
  <2>6. QED
    BY <1>1, <2>1, <2>5, TakesFirst
<1>2. Takes(B, <<a>>, p)
  BY TakesOne
<1>3. ASSUME NEW b, NEW q, Takes(B, <<b>>, q)
      PROVE  Takes(B, <<a, b>>, p + q)
  <2>1. PICK s, u : s = <<b>> /\ u = <<a, b>>
    OBVIOUS
  <2>2. /\ s \in Seq({a, b}) /\ u \in Seq({a, b}) /\ Len(s) = 1 /\ Len(u) = 2
        /\ u[1] = a /\ \A i \in 1 .. 1 : u[i + 1] = s[i]
    BY <2>1
  <2>3. Takes(B, s, q) /\ Len(u) = Len(s) + 1
    BY <1>3, <2>1, <2>2
  <2>4. \A i \in 1 .. Len(s) : u[i + 1] = s[i]
    BY <2>2
  <2>5. Takes(B, u, p + q)
    BY <1>1, <2>2, <2>3, <2>4
  <2>6. QED
    BY <2>1, <2>5
<1>4. ASSUME NEW b, NEW c, NEW q, Takes(B, <<b, c>>, q)
      PROVE  Takes(B, <<a, b, c>>, p + q)
  <2>1. PICK s, u : s = <<b, c>> /\ u = <<a, b, c>>
    OBVIOUS
  <2>2. /\ s \in Seq({a, b, c}) /\ u \in Seq({a, b, c}) /\ Len(s) = 2 /\ Len(u) = 3
        /\ u[1] = a /\ \A i \in 1 .. 2 : u[i + 1] = s[i]
    BY <2>1
  <2>3. Takes(B, s, q) /\ Len(u) = Len(s) + 1
    BY <1>4, <2>1, <2>2
  <2>4. \A i \in 1 .. Len(s) : u[i + 1] = s[i]
    BY <2>2
  <2>5. Takes(B, u, p + q)
    BY <1>1, <2>2, <2>3, <2>4
  <2>6. QED
    BY <2>1, <2>5
<1>5. ASSUME NEW b, NEW c, NEW d, NEW q, Takes(B, <<b, c, d>>, q)
      PROVE  Takes(B, <<a, b, c, d>>, p + q)
  <2>1. PICK s, u : s = <<b, c, d>> /\ u = <<a, b, c, d>>
    OBVIOUS
  <2>2. /\ s \in Seq({a, b, c, d}) /\ u \in Seq({a, b, c, d}) /\ Len(s) = 3 /\ Len(u) = 4
        /\ u[1] = a /\ \A i \in 1 .. 3 : u[i + 1] = s[i]
    BY <2>1
  <2>3. Takes(B, s, q) /\ Len(u) = Len(s) + 1
    BY <1>5, <2>1, <2>2
  <2>4. \A i \in 1 .. Len(s) : u[i + 1] = s[i]
    BY <2>2
  <2>5. Takes(B, u, p + q)
    BY <1>1, <2>2, <2>3, <2>4
  <2>6. QED
    BY <2>1, <2>5
<1>6. ASSUME NEW b, NEW c, NEW d, NEW f, NEW q, Takes(B, <<b, c, d, f>>, q)
      PROVE  Takes(B, <<a, b, c, d, f>>, p + q)
  <2>1. PICK s, u : s = <<b, c, d, f>> /\ u = <<a, b, c, d, f>>
    OBVIOUS
  <2>2. /\ s \in Seq({a, b, c, d, f}) /\ u \in Seq({a, b, c, d, f}) /\ Len(s) = 4 /\ Len(u) = 5
        /\ u[1] = a /\ \A i \in 1 .. 4 : u[i + 1] = s[i]
    BY <2>1
  <2>3. Takes(B, s, q) /\ Len(u) = Len(s) + 1
    BY <1>6, <2>1, <2>2
  <2>4. \A i \in 1 .. Len(s) : u[i + 1] = s[i]
    BY <2>2
  <2>5. Takes(B, u, p + q)
    BY <1>1, <2>2, <2>3, <2>4
  <2>6. QED
    BY <2>1, <2>5
<1>7. ASSUME NEW b, NEW c, NEW d, NEW f, NEW g, NEW q, Takes(B, <<b, c, d, f, g>>, q)
      PROVE  Takes(B, <<a, b, c, d, f, g>>, p + q)
  <2>1. PICK s, u : s = <<b, c, d, f, g>> /\ u = <<a, b, c, d, f, g>>
    OBVIOUS
  <2>2. /\ s \in Seq({a, b, c, d, f, g}) /\ u \in Seq({a, b, c, d, f, g}) /\ Len(s) = 5
        /\ Len(u) = 6 /\ u[1] = a /\ \A i \in 1 .. 5 : u[i + 1] = s[i]
    BY <2>1
  <2>3. Takes(B, s, q) /\ Len(u) = Len(s) + 1
    BY <1>7, <2>1, <2>2
  <2>4. \A i \in 1 .. Len(s) : u[i + 1] = s[i]
    BY <2>2
  <2>5. Takes(B, u, p + q)
    BY <1>1, <2>2, <2>3, <2>4
  <2>6. QED
    BY <2>1, <2>5
<1>8. QED
  BY <1>2, <1>3, <1>4, <1>5, <1>6, <1>7

(* Bills for given sizes, at any point of the pool's loop.                 *)
Laid(n, e, target, B) ==
  /\ n \in Nat /\ e \in ElementKinds /\ target \in TargetKinds
  /\ \E counts, size : B = Bills(n, e, target, counts, size)

(* The bills that are there whatever the pool holds: those of the reads, *)
LEMMA BillsOfReads ==
  ASSUME NEW n, NEW e, NEW target, NEW B, Laid(n, e, target, B)
  PROVE  /\ \A w \in Nat : <<U(w), w>> \in B /\ <<Bytes(w), w>> \in B
         /\ \A w \in Nat : \A what \in Values : <<Test(w, what), w>> \in B
         /\ \A w \in Nat : \A what \in {"minor", "length"} : <<Keep(w, what), w>> \in B
         /\ \A w \in Nat : <<Blob(w, "count"), w + n>> \in B
<1>1. Plain \subseteq B /\ Blobs(n) \subseteq B
  BY DEF Laid, Bills
<1>2. \A ins \in Reads : ins.op \in Simple => <<ins, ins.w>> \in Plain
  BY DEF Plain
<1>3. ASSUME NEW w \in Nat
      PROVE  <<U(w), w>> \in Plain /\ <<Bytes(w), w>> \in Plain
  <2>1. U(w).op = "u" /\ U(w).w = w /\ Bytes(w).op = "u" /\ Bytes(w).w = w
    BY DEF U, Bytes, Instr
  <2>2. U(w) \in Reads /\ Bytes(w) \in Reads
    BY Levels
  <2>3. <<U(w), U(w).w>> \in Plain /\ <<Bytes(w), Bytes(w).w>> \in Plain
    BY <2>1, <2>2, <1>2 DEF Simple
  <2>4. QED
    BY <2>1, <2>3
<1>4. ASSUME NEW w \in Nat, NEW what \in Values
      PROVE  <<Test(w, what), w>> \in Plain
  <2>1. Test(w, what).op = "test" /\ Test(w, what).w = w
    BY DEF Test, Instr
  <2>2. <<Test(w, what), Test(w, what).w>> \in Plain
    BY <2>1, <1>2, Levels DEF Simple
  <2>3. QED
    BY <2>1, <2>2
<1>5. ASSUME NEW w \in Nat, NEW what \in {"minor", "length"}
      PROVE  <<Keep(w, what), w>> \in Plain
  <2>1. Keep(w, what).op = "keep" /\ Keep(w, what).w = w
    BY DEF Keep, Instr
  <2>2. <<Keep(w, what), Keep(w, what).w>> \in Plain
    BY <2>1, <1>2, Levels DEF Simple
  <2>3. QED
    BY <2>1, <2>2
<1>6. \A w \in Nat : <<Blob(w, "count"), w + n>> \in Blobs(n)
  BY DEF Blobs
<1>7. QED
  BY <1>1, <1>3, <1>4, <1>5, <1>6

(* those of the loops, *)
LEMMA BillsOfLoops ==
  ASSUME NEW n, NEW e, NEW target, NEW B, Laid(n, e, target, B)
  PROVE  /\ <<Many(2, <<U(2)>>), 2 + n * 2>> \in B
         /\ <<Many(2, <<U(2), U(2), U(2), U(2)>>), 2 + n * 8>> \in B
         /\ <<Many(1, <<U(2), U(2)>>), 1 + n * 4>> \in B
         /\ <<Many(2, <<U(2), Many(2, <<U(2)>>)>>), 2 + n * BootstrapMethod(n)>> \in B
         /\ <<Many(2, <<U(2), U(2), U(2)>>), 2 + n * 6>> \in B
         /\ <<Many(1, <<U(1), U(1)>>), 1 + n * 2>> \in B
         /\ <<Pairs, 2 + n * ElementValuePair(e)>> \in B
         /\ <<Annotations, 2 + n * Annotation(n, e)>> \in B
         /\ <<Many(1, <<Annotations>>), 1 + n * ParameterAnnotaion(n, e)>> \in B
         /\ <<TypeAnnotations, 2 + n * TypeAnnotation(n, e, target)>> \in B
<1>1. Looped(n, e, target) \subseteq B
  BY DEF Laid, Bills
<1>2. QED
  BY <1>1 DEF Looped

(* and those of the calls and the switches. *)
LEMMA BillsOfCalls ==
  ASSUME NEW n, NEW e, NEW target, NEW B, Laid(n, e, target, B)
  PROVE  /\ <<Call("parseElementValue"), ElementValue(e)>> \in B
         /\ <<Call("parseAnnotation"), Annotation(n, e)>> \in B
         /\ <<Call("parseTypeAnnotation"), TypeAnnotation(n, e, target)>> \in B
         /\ <<Call("cp_parse_filedRefInfo"), 4>> \in B
         /\ <<CallN(2, "parseFields"), 2 + n * FieldInfo(n)>> \in B
         /\ <<CallN(2, "parseMethods"), 2 + n * MethodInfo(n)>> \in B
         /\ <<CallN(2, "parseAttributes"), AttributesOf(n)>> \in B
         /\ <<parseElementValue[1], ElementValue(e)>> \in B
         /\ <<parseTypeAnnotation[1], 1 + target_info(n, target)>> \in B
         /\ <<Attribute, 2 + 4 + Attribute_Deprecated>> \in B
<1>1. /\ Called(n, e, target) \subseteq B /\ Repeated(n) \subseteq B
      /\ Switched(n, e, target) \subseteq B /\ Inner \subseteq B
  BY DEF Laid, Bills
<1>2. QED
  BY <1>1 DEF Called, Repeated, Switched, Inner

(* What one round of each loop takes.                                      *)
LEMMA RoundsTake ==
  ASSUME NEW n, NEW e, NEW target, NEW B, Laid(n, e, target, B)
  PROVE  /\ Takes(B, <<U(2)>>, 2) /\ Takes(B, <<U(2), U(2)>>, 4)
         /\ Takes(B, <<U(2), U(2), U(2)>>, 6) /\ Takes(B, <<U(2), U(2), U(2), U(2)>>, 8)
         /\ Takes(B, <<U(1), U(1)>>, 2)
         /\ Takes(B, <<U(2), Many(2, <<U(2)>>)>>, BootstrapMethod(n))
         /\ Takes(B, <<U(2), Call("parseElementValue")>>, ElementValuePair(e))
         /\ Takes(B, <<Call("parseAnnotation")>>, Annotation(n, e))
         /\ Takes(B, <<Annotations>>, ParameterAnnotaion(n, e))
         /\ Takes(B, <<Call("parseTypeAnnotation")>>, TypeAnnotation(n, e, target))
<1>1. n \in Nat /\ e \in ElementKinds /\ target \in TargetKinds
  BY DEF Laid
<1>2. <<U(2), 2>> \in B /\ <<U(1), 1>> \in B
  BY BillsOfReads
<1> DEFINE two == 2  one == 1
<1>12. two \in Int /\ one \in Int /\ <<U(2), two>> \in B /\ <<U(1), one>> \in B
  BY <1>2
<1> HIDE DEF two, one
<1>3. Takes(B, <<U(2)>>, two) /\ Takes(B, <<U(2), U(2)>>, two + two)
  BY <1>12, TakesShort, Zenon
<1>4. Takes(B, <<U(2), U(2), U(2)>>, two + (two + two))
  BY <1>12, <1>3, TakesShort, Zenon
<1>5. Takes(B, <<U(2), U(2), U(2), U(2)>>, two + (two + (two + two)))
  BY <1>12, <1>4, TakesShort, Zenon
<1>6. Takes(B, <<U(1), U(1)>>, one + one)
  BY <1>12, TakesShort, Zenon
<1>7. Takes(B, <<U(2), Many(2, <<U(2)>>)>>, BootstrapMethod(n))
  <2>1. PICK a \in Int : a = 2 + n * 2
    BY <1>1
  <2>2. Takes(B, <<Many(2, <<U(2)>>)>>, a)
    BY <2>1, BillsOfLoops, TakesShort
  <2>3. Takes(B, <<U(2), Many(2, <<U(2)>>)>>, two + a)
    BY <1>12, <2>2, TakesShort, Zenon
  <2>4. QED
    BY <2>1, <2>3 DEF BootstrapMethod, two
<1>8. /\ Takes(B, <<Call("parseElementValue")>>, ElementValue(e))
      /\ Takes(B, <<Call("parseAnnotation")>>, Annotation(n, e))
      /\ Takes(B, <<Call("parseTypeAnnotation")>>, TypeAnnotation(n, e, target))
  <2>1. /\ ElementValue(e) \in Int /\ Annotation(n, e) \in Int
        /\ TypeAnnotation(n, e, target) \in Int
    BY <1>1, SizesAreNumbers
  <2>2. QED
    BY <2>1, BillsOfCalls, TakesShort, Zenon
<1>9. Takes(B, <<U(2), Call("parseElementValue")>>, ElementValuePair(e))
  <2>1. Takes(B, <<U(2), Call("parseElementValue")>>, two + ElementValue(e))
    BY <1>12, <1>8, TakesShort, Zenon
  <2>2. QED
    BY <2>1 DEF ElementValuePair, two
<1>10. Takes(B, <<Annotations>>, ParameterAnnotaion(n, e))
  <2>1. PICK a \in Int : a = 2 + n * Annotation(n, e)
    BY <1>1, SizesAreNumbers
  <2>2. Takes(B, <<Annotations>>, a)
    BY <2>1, BillsOfLoops, TakesShort
  <2>3. QED
    BY <2>1, <2>2 DEF ParameterAnnotaion
<1>11. QED
  BY <1>3, <1>4, <1>5, <1>6, <1>7, <1>8, <1>9, <1>10 DEF two, one

(* Every loop's count is two bytes or one, and the rest is its rounds.     *)
LEMMA LoopsTake ==
  ASSUME NEW n, NEW e, NEW target, NEW B, Laid(n, e, target, B),
         NEW ins, NEW m, <<ins, m>> \in Looped(n, e, target)
  PROVE  /\ ins.op = "many" /\ ins.what = "count" /\ ins.w \in Nat
         /\ \E c \in Int : m = ins.w + c /\ Takes(B, Copies(ins.arg, n), c)
<1>1. n \in Nat /\ e \in ElementKinds /\ target \in TargetKinds
  BY DEF Laid
<1> DEFINE goal == /\ ins.op = "many" /\ ins.what = "count" /\ ins.w \in Nat
                   /\ \E c \in Int : m = ins.w + c /\ Takes(B, Copies(ins.arg, n), c)
<1>3. ASSUME NEW w \in Nat, NEW S, NEW body \in Seq(S), Len(body) \in 1 .. 4, NEW p \in Nat,
             Takes(B, body, p), ins = Many(w, body), m = w + n * p
      PROVE  goal
  <2>1. ins.op = "many" /\ ins.what = "count" /\ ins.w = w /\ ins.arg = body
    BY <1>3 DEF Many, Instr
  <2>2. PICK c \in Int : c = n * p
    BY <1>1
  <2>3. Takes(B, Copies(body, n), c)
    BY <1>1, <1>3, <2>2, TakesCopies
  <2>4. QED
    BY <1>3, <2>1, <2>2, <2>3
<1> SUFFICES goal
  OBVIOUS
<1> HIDE DEF goal
<1>4. /\ Takes(B, <<U(2)>>, 2) /\ Takes(B, <<U(2), U(2)>>, 4)
      /\ Takes(B, <<U(2), U(2), U(2)>>, 6) /\ Takes(B, <<U(2), U(2), U(2), U(2)>>, 8)
      /\ Takes(B, <<U(1), U(1)>>, 2)
      /\ Takes(B, <<U(2), Many(2, <<U(2)>>)>>, BootstrapMethod(n))
      /\ Takes(B, <<U(2), Call("parseElementValue")>>, ElementValuePair(e))
      /\ Takes(B, <<Call("parseAnnotation")>>, Annotation(n, e))
      /\ Takes(B, <<Annotations>>, ParameterAnnotaion(n, e))
      /\ Takes(B, <<Call("parseTypeAnnotation")>>, TypeAnnotation(n, e, target))
  BY RoundsTake
<1>17. /\ BootstrapMethod(n) \in Nat /\ ElementValuePair(e) \in Nat /\ Annotation(n, e) \in Nat
       /\ ParameterAnnotaion(n, e) \in Nat /\ TypeAnnotation(n, e, target) \in Nat
  BY <1>1, SizesAreNumbers
<1>5. \/ ins = Many(2, <<U(2)>>) /\ m = 2 + n * 2
      \/ ins = Many(2, <<U(2), U(2), U(2), U(2)>>) /\ m = 2 + n * 8
      \/ ins = Many(1, <<U(2), U(2)>>) /\ m = 1 + n * 4
      \/ ins = Many(2, <<U(2), Many(2, <<U(2)>>)>>) /\ m = 2 + n * BootstrapMethod(n)
      \/ ins = Many(2, <<U(2), U(2), U(2)>>) /\ m = 2 + n * 6
      \/ ins = Many(1, <<U(1), U(1)>>) /\ m = 1 + n * 2
      \/ ins = Pairs /\ m = 2 + n * ElementValuePair(e)
      \/ ins = Annotations /\ m = 2 + n * Annotation(n, e)
      \/ ins = Many(1, <<Annotations>>) /\ m = 1 + n * ParameterAnnotaion(n, e)
      \/ ins = TypeAnnotations /\ m = 2 + n * TypeAnnotation(n, e, target)
  BY DEF Looped
<1>6. CASE ins = Many(2, <<U(2)>>) /\ m = 2 + n * 2
  <2>1. PICK body : body = <<U(2)>>
    OBVIOUS
  <2>2. body \in Seq({U(2)}) /\ Len(body) \in 1 .. 4
    BY <2>1
  <2>3. QED
    BY <1>1, <1>3, <1>4, <1>6, <2>1, <2>2, <1>17
<1>7. CASE ins = Many(2, <<U(2), U(2), U(2), U(2)>>) /\ m = 2 + n * 8
  <2>1. PICK body : body = <<U(2), U(2), U(2), U(2)>>
    OBVIOUS
  <2>2. body \in Seq({U(2)}) /\ Len(body) \in 1 .. 4
    BY <2>1
  <2>3. QED
    BY <1>1, <1>3, <1>4, <1>7, <2>1, <2>2, <1>17
<1>8. CASE ins = Many(1, <<U(2), U(2)>>) /\ m = 1 + n * 4
  <2>1. PICK body : body = <<U(2), U(2)>>
    OBVIOUS
  <2>2. body \in Seq({U(2)}) /\ Len(body) \in 1 .. 4
    BY <2>1
  <2>3. QED
    BY <1>1, <1>3, <1>4, <1>8, <2>1, <2>2, <1>17
<1>9. CASE ins = Many(2, <<U(2), Many(2, <<U(2)>>)>>) /\ m = 2 + n * BootstrapMethod(n)
  <2>1. PICK body : body = <<U(2), Many(2, <<U(2)>>)>>
    OBVIOUS
  <2>2. body \in Seq({U(2), Many(2, <<U(2)>>)}) /\ Len(body) \in 1 .. 4
    BY <2>1
  <2>3. QED
    BY <1>1, <1>3, <1>4, <1>9, <2>1, <2>2, <1>17
<1>10. CASE ins = Many(2, <<U(2), U(2), U(2)>>) /\ m = 2 + n * 6
  <2>1. PICK body : body = <<U(2), U(2), U(2)>>
    OBVIOUS
  <2>2. body \in Seq({U(2)}) /\ Len(body) \in 1 .. 4
    BY <2>1
  <2>3. QED
    BY <1>1, <1>3, <1>4, <1>10, <2>1, <2>2, <1>17
<1>11. CASE ins = Many(1, <<U(1), U(1)>>) /\ m = 1 + n * 2
  <2>1. PICK body : body = <<U(1), U(1)>>
    OBVIOUS
  <2>2. body \in Seq({U(1)}) /\ Len(body) \in 1 .. 4
    BY <2>1
  <2>3. QED
    BY <1>1, <1>3, <1>4, <1>11, <2>1, <2>2, <1>17
<1>12. CASE ins = Pairs /\ m = 2 + n * ElementValuePair(e)
  <2>1. PICK body : body = <<U(2), Call("parseElementValue")>>
    OBVIOUS
  <2>2. body \in Seq({U(2), Call("parseElementValue")}) /\ Len(body) \in 1 .. 4
    BY <2>1
  <2>3. QED
    BY <1>1, <1>3, <1>4, <1>12, <2>1, <2>2, <1>17 DEF Pairs
<1>13. CASE ins = Annotations /\ m = 2 + n * Annotation(n, e)
  <2>1. PICK body : body = <<Call("parseAnnotation")>>
    OBVIOUS
  <2>2. body \in Seq({Call("parseAnnotation")}) /\ Len(body) \in 1 .. 4
    BY <2>1
  <2>3. QED
    BY <1>1, <1>3, <1>4, <1>13, <2>1, <2>2, <1>17 DEF Annotations
<1>14. CASE ins = Many(1, <<Annotations>>) /\ m = 1 + n * ParameterAnnotaion(n, e)
  <2>1. PICK body : body = <<Annotations>>
    OBVIOUS
  <2>2. body \in Seq({Annotations}) /\ Len(body) \in 1 .. 4
    BY <2>1
  <2>3. QED
    BY <1>1, <1>3, <1>4, <1>14, <2>1, <2>2, <1>17
<1>15. CASE ins = TypeAnnotations /\ m = 2 + n * TypeAnnotation(n, e, target)
  <2>1. PICK body : body = <<Call("parseTypeAnnotation")>>
    OBVIOUS
  <2>2. body \in Seq({Call("parseTypeAnnotation")}) /\ Len(body) \in 1 .. 4
    BY <2>1
  <2>3. QED
    BY <1>1, <1>3, <1>4, <1>15, <2>1, <2>2, <1>17 DEF TypeAnnotations
<1>16. QED
  BY <1>5, <1>6, <1>7, <1>8, <1>9, <1>10, <1>11, <1>12, <1>13, <1>14, <1>15

(* Two instructions take the sum of their bills. *)
LEMMA TakesTwo ==
  ASSUME NEW B, NEW a, NEW p \in Int, <<a, p>> \in B, NEW b, NEW q \in Int, <<b, q>> \in B
  PROVE  Takes(B, <<a, b>>, p + q)
<1>1. Takes(B, <<b>>, q)
  BY TakesOne
<1>2. QED
  BY <1>1, TakesShort, Zenon

-----------------------------------------------------------------------------
(* The parsers of attributes take attribute_length and what it says.       *)
LEMMA AttributesTake ==
  ASSUME NEW n, NEW e, NEW target, NEW B, Laid(n, e, target, B),
         NEW kind \in DOMAIN AttributeParser \ OutOfStep
  PROVE  Takes(B, Script[AttributeParser[kind]], 4 + AttributeLength(kind, n, e, target))
<1>1. n \in Nat /\ e \in ElementKinds /\ target \in TargetKinds
  BY DEF Laid
<1>2. /\ <<U(2), 2>> \in B /\ <<U(4), 4>> \in B /\ <<Bytes(2), 2>> \in B
      /\ <<Test(4, "two"), 4>> \in B /\ <<Test(4, "zero"), 4>> \in B
      /\ <<Test(2, "index"), 2>> \in B /\ <<Blob(4, "count"), 4 + n>> \in B
  BY BillsOfReads DEF Values
<1>3. 2 \in Int /\ 4 \in Int /\ 4 + n \in Int
  BY <1>1
<1>4. Takes(B, attr_parse_constantValue, 4 + Attribute_ConstantValue)
  <2>1. Takes(B, <<Test(4, "two"), Test(2, "index")>>, 4 + 2)
    BY <1>2, <1>3, TakesTwo, Zenon
  <2>2. QED
    BY <2>1 DEF attr_parse_constantValue, Attribute_ConstantValue
<1>5. Takes(B, attr_parse_code, 4 + Attribute_Code(n))
  <2>1. PICK h \in Int, i \in Int : h = 2 + n * 8 /\ i = AttributesOf(n)
    BY <1>1, SizesAreNumbers
  <2>2. /\ <<Many(2, <<U(2), U(2), U(2), U(2)>>), h>> \in B
        /\ <<CallN(2, "parseAttributes"), i>> \in B
    BY <2>1, BillsOfLoops, BillsOfCalls
  <2>3. PICK loop, inner : loop = Many(2, <<U(2), U(2), U(2), U(2)>>)
                           /\ inner = CallN(2, "parseAttributes")
    OBVIOUS
  <2>4. Takes(B, <<loop, inner>>, h + i)
    BY <2>2, <2>3, TakesTwo, Zenon
  <2>5. Takes(B, <<Blob(4, "count"), loop, inner>>, (4 + n) + (h + i))
    BY <1>2, <1>3, <2>4, TakesShort, Zenon
  <2>6. Takes(B, <<U(2), Blob(4, "count"), loop, inner>>, 2 + ((4 + n) + (h + i)))
    BY <1>2, <1>3, <2>5, TakesShort, Zenon
  <2>7. Takes(B, <<U(2), U(2), Blob(4, "count"), loop, inner>>, 2 + (2 + ((4 + n) + (h + i))))
    BY <1>2, <1>3, <2>6, TakesShort, Zenon
  <2>8. Takes(B, <<U(4), U(2), U(2), Blob(4, "count"), loop, inner>>,
              4 + (2 + (2 + ((4 + n) + (h + i)))))
    BY <1>2, <1>3, <2>7, TakesShort, Zenon
  <2>9. 4 + (2 + (2 + ((4 + n) + (h + i)))) = 4 + Attribute_Code(n)
    BY <1>1, <2>1 DEF Attribute_Code, ExceptionInfo
  <2>10. QED
    BY <2>3, <2>8, <2>9 DEF attr_parse_code
<1>6. Takes(B, attr_parse_enclosingMethod, 4 + Attribute_EnclosingMethod)
  <2>1. Takes(B, <<U(2), U(2)>>, 2 + 2)
    BY <1>2, <1>3, TakesTwo, Zenon
  <2>2. Takes(B, <<U(4), U(2), U(2)>>, 4 + (2 + 2))
    BY <1>2, <1>3, <2>1, TakesShort, Zenon
  <2>3. QED
    BY <2>2 DEF attr_parse_enclosingMethod, Attribute_EnclosingMethod
<1>7. /\ Takes(B, attr_parse_synthetic, 4 + Attribute_Synthetic)
      /\ Takes(B, attr_parse_deprecated, 4 + Attribute_Deprecated)
  <2>1. Takes(B, <<Test(4, "zero")>>, 4)
    BY <1>2, <1>3, TakesOne, Zenon
  <2>2. QED
    BY <2>1 DEF attr_parse_synthetic, attr_parse_deprecated, Attribute_Synthetic,
                Attribute_Deprecated
<1>8. /\ Takes(B, attr_parse_signature, 4 + Attribute_Signature)
      /\ Takes(B, attr_parse_sourceFile, 4 + Attribute_SourceFile)
      /\ Takes(B, attr_parse_sourceDebugExtention, 4 + Attribute_SourceDebugExtension)
  <2>1. Takes(B, <<Test(4, "two"), U(2)>>, 4 + 2) /\ Takes(B, <<Test(4, "two"), Bytes(2)>>, 4 + 2)
    BY <1>2, <1>3, TakesTwo, Zenon
  <2>2. QED
    BY <2>1 DEF attr_parse_signature, attr_parse_sourceFile, attr_parse_sourceDebugExtention,
                Attribute_Signature, Attribute_SourceFile, Attribute_SourceDebugExtension
<1>9. ASSUME NEW ins, NEW m \in Nat, <<ins, m>> \in B
      PROVE  Takes(B, <<U(4), ins>>, 4 + m)
  <2>1. m \in Int
    BY <1>9
  <2>2. QED
    BY <1>2, <1>3, <1>9, <2>1, TakesTwo, Zenon
<1>10. /\ ElementValue(e) \in Nat /\ 2 + n * 2 \in Nat /\ 2 + n * 8 \in Nat /\ 1 + n * 4 \in Nat
       /\ 2 + n * BootstrapMethod(n) \in Nat /\ 2 + n * Annotation(n, e) \in Nat
       /\ 1 + n * ParameterAnnotaion(n, e) \in Nat /\ 2 + n * TypeAnnotation(n, e, target) \in Nat
  BY <1>1, SizesAreNumbers
<1>11. Takes(B, attr_parse_exceptions, 4 + Attribute_Exceptions(n))
  <2>1. PICK m \in Nat : m = 2 + n * 2
    BY <1>10
  <2>2. Takes(B, <<U(4), Many(2, <<U(2)>>)>>, 4 + m)
    BY <1>9, <2>1, BillsOfLoops
  <2>3. m = Attribute_Exceptions(n)
    BY <1>1, <2>1 DEF Attribute_Exceptions
  <2>4. QED
    BY <2>1, <2>2, <2>3 DEF attr_parse_exceptions
<1>12. Takes(B, attr_parse_innerClasses, 4 + Attribute_InnerClasses(n))
  <2>1. PICK m \in Nat : m = 2 + n * 8
    BY <1>10
  <2>2. Takes(B, <<U(4), Many(2, <<U(2), U(2), U(2), U(2)>>)>>, 4 + m)
    BY <1>9, <2>1, BillsOfLoops
  <2>3. m = Attribute_InnerClasses(n)
    BY <1>1, <2>1 DEF Attribute_InnerClasses, InnerClassInfo
  <2>4. QED
    BY <2>1, <2>2, <2>3 DEF attr_parse_innerClasses
<1>13. Takes(B, attr_parse_bootstrapMethods, 4 + Attribute_BootstrapMethods(n))
  <2>1. PICK m \in Nat : m = 2 + n * BootstrapMethod(n)
    BY <1>10
  <2>2. Takes(B, <<U(4), Many(2, <<U(2), Many(2, <<U(2)>>)>>)>>, 4 + m)
    BY <1>9, <2>1, BillsOfLoops
  <2>3. m = Attribute_BootstrapMethods(n)
    BY <1>1, <2>1 DEF Attribute_BootstrapMethods
  <2>4. QED
    BY <2>1, <2>2, <2>3 DEF attr_parse_bootstrapMethods
<1>14. Takes(B, attr_parse_methodParameters, 4 + Attribute_MethodParameters(n))
  <2>1. PICK m \in Nat : m = 1 + n * 4
    BY <1>10
  <2>2. Takes(B, <<U(4), Many(1, <<U(2), U(2)>>)>>, 4 + m)
    BY <1>9, <2>1, BillsOfLoops
  <2>3. m = Attribute_MethodParameters(n)
    BY <1>1, <2>1 DEF Attribute_MethodParameters, Parameter
  <2>4. QED
    BY <2>1, <2>2, <2>3 DEF attr_parse_methodParameters
<1>15. /\ Takes(B, attr_parse_runtimeVisibleAnnotations,
                4 + Attribute_RuntimeVisibleAnnotations(n, e))
       /\ Takes(B, attr_parse_runtimeInvisibleAnnotations,
                4 + Attribute_RuntimeInvisibleAnnotations(n, e))
  <2>1. PICK m \in Nat : m = 2 + n * Annotation(n, e)
    BY <1>10
  <2>2. Takes(B, <<U(4), Annotations>>, 4 + m)
    BY <1>9, <2>1, BillsOfLoops
  <2>3. /\ m = Attribute_RuntimeVisibleAnnotations(n, e)
        /\ m = Attribute_RuntimeInvisibleAnnotations(n, e)
    BY <1>1, <2>1 DEF Attribute_RuntimeVisibleAnnotations,
                      Attribute_RuntimeInvisibleAnnotations
  <2>4. QED
    BY <2>1, <2>2, <2>3 DEF attr_parse_runtimeVisibleAnnotations,
                            attr_parse_runtimeInvisibleAnnotations
<1>16. /\ Takes(B, attr_parse_runtimeVisibleParameterAnnotations,
                4 + Attribute_RuntimeVisibleParameterAnnotations(n, e))
       /\ Takes(B, attr_parse_runtimeInvisibleParameterAnnotations,
                4 + Attribute_RuntimeInvisibleParameterAnnotations(n, e))
  <2>1. PICK m \in Nat : m = 1 + n * ParameterAnnotaion(n, e)
    BY <1>10
  <2>2. Takes(B, <<U(4), Many(1, <<Annotations>>)>>, 4 + m)
    BY <1>9, <2>1, BillsOfLoops
  <2>3. /\ m = Attribute_RuntimeVisibleParameterAnnotations(n, e)
        /\ m = Attribute_RuntimeInvisibleParameterAnnotations(n, e)
    BY <1>1, <2>1 DEF Attribute_RuntimeVisibleParameterAnnotations,
                      Attribute_RuntimeInvisibleParameterAnnotations
  <2>4. QED
    BY <2>1, <2>2, <2>3 DEF attr_parse_runtimeVisibleParameterAnnotations,
                            attr_parse_runtimeInvisibleParameterAnnotations
<1>17. /\ Takes(B, attr_parse_runtimeVisibleTypeAnnotations,
                4 + Attribute_RuntimeVisibleTypeAnnotations(n, e, target))
       /\ Takes(B, attr_parse_runtimeInvisibleTypeAnnotations,
                4 + Attribute_RuntimeInvisibleTypeAnnotations(n, e, target))
  <2>1. PICK m \in Nat : m = 2 + n * TypeAnnotation(n, e, target)
    BY <1>10
  <2>2. Takes(B, <<U(4), TypeAnnotations>>, 4 + m)
    BY <1>9, <2>1, BillsOfLoops
  <2>3. /\ m = Attribute_RuntimeVisibleTypeAnnotations(n, e, target)
        /\ m = Attribute_RuntimeInvisibleTypeAnnotations(n, e, target)
    BY <1>1, <2>1 DEF Attribute_RuntimeVisibleTypeAnnotations,
                      Attribute_RuntimeInvisibleTypeAnnotations
  <2>4. QED
    BY <2>1, <2>2, <2>3 DEF attr_parse_runtimeVisibleTypeAnnotations,
                            attr_parse_runtimeInvisibleTypeAnnotations
<1>18. Takes(B, attr_parse_annotationDefault, 4 + Attribute_AnnotationDefault(e))
  <2>1. PICK m \in Nat : m = ElementValue(e)
    BY <1>10
  <2>2. Takes(B, <<U(4), Call("parseElementValue")>>, 4 + m)
    BY <1>9, <2>1, BillsOfCalls
  <2>3. m = Attribute_AnnotationDefault(e)
    BY <1>1, <2>1 DEF Attribute_AnnotationDefault
  <2>4. QED
    BY <2>1, <2>2, <2>3 DEF attr_parse_annotationDefault
<1> DEFINE Fits(s, m) == Takes(B, s, 4 + m)
           Right(name) == Fits(Script[AttributeParser[name]], AttributeLength(name, n, e, target))
<1>19. /\ Fits(attr_parse_constantValue, Attribute_ConstantValue)
       /\ Fits(attr_parse_code, Attribute_Code(n))
       /\ Fits(attr_parse_enclosingMethod, Attribute_EnclosingMethod)
       /\ Fits(attr_parse_synthetic, Attribute_Synthetic)
       /\ Fits(attr_parse_deprecated, Attribute_Deprecated)
       /\ Fits(attr_parse_signature, Attribute_Signature)
       /\ Fits(attr_parse_sourceFile, Attribute_SourceFile)
       /\ Fits(attr_parse_sourceDebugExtention, Attribute_SourceDebugExtension)
       /\ Fits(attr_parse_exceptions, Attribute_Exceptions(n))
       /\ Fits(attr_parse_innerClasses, Attribute_InnerClasses(n))
       /\ Fits(attr_parse_bootstrapMethods, Attribute_BootstrapMethods(n))
       /\ Fits(attr_parse_methodParameters, Attribute_MethodParameters(n))
       /\ Fits(attr_parse_runtimeVisibleAnnotations, Attribute_RuntimeVisibleAnnotations(n, e))
       /\ Fits(attr_parse_runtimeInvisibleAnnotations, Attribute_RuntimeInvisibleAnnotations(n, e))
       /\ Fits(attr_parse_runtimeVisibleParameterAnnotations,
               Attribute_RuntimeVisibleParameterAnnotations(n, e))
       /\ Fits(attr_parse_runtimeInvisibleParameterAnnotations,
               Attribute_RuntimeInvisibleParameterAnnotations(n, e))
       /\ Fits(attr_parse_runtimeVisibleTypeAnnotations,
               Attribute_RuntimeVisibleTypeAnnotations(n, e, target))
       /\ Fits(attr_parse_runtimeInvisibleTypeAnnotations,
               Attribute_RuntimeInvisibleTypeAnnotations(n, e, target))
       /\ Fits(attr_parse_annotationDefault, Attribute_AnnotationDefault(e))
  BY <1>4, <1>5, <1>6, <1>7, <1>8, <1>11, <1>12, <1>13, <1>14, <1>15, <1>16, <1>17, <1>18
<1> HIDE DEF Fits
<1>20. /\ Right("ConstantValue") /\ Right("Code") /\ Right("EnclosingMethod") /\ Right("Synthetic")
  BY <1>19 DEF Script, AttributeParser, AttributeLength
<1>21. /\ Right("Deprecated") /\ Right("Signature") /\ Right("SourceFile")
       /\ Right("SourceDebugExtention")
  BY <1>19 DEF Script, AttributeParser, AttributeLength
<1>22. /\ Right("Exceptions") /\ Right("InnerClasses") /\ Right("BootstrapMethods")
       /\ Right("MethodParameters")
  BY <1>19 DEF Script, AttributeParser, AttributeLength
<1>23. /\ Right("RuntimeVisibleAnnotations") /\ Right("RuntimeInvisibleAnnotations")
       /\ Right("RuntimeVisibleParameterAnnotations")
       /\ Right("RuntimeInvisibleParameterAnnotations")
  BY <1>19 DEF Script, AttributeParser, AttributeLength
<1>24. /\ Right("RuntimeVisibleTypeAnnotations") /\ Right("RuntimeInvisibleTypeAnnotations")
       /\ Right("AnnotationDefault")
  BY <1>19 DEF Script, AttributeParser, AttributeLength
<1> HIDE DEF Right
<1>25. kind \in
         {"ConstantValue", "Code", "EnclosingMethod", "Synthetic", "Deprecated", "Signature",
          "SourceFile", "SourceDebugExtention", "Exceptions", "InnerClasses", "BootstrapMethods",
          "MethodParameters", "RuntimeVisibleAnnotations", "RuntimeInvisibleAnnotations",
          "RuntimeVisibleParameterAnnotations", "RuntimeInvisibleParameterAnnotations",
          "RuntimeVisibleTypeAnnotations", "RuntimeInvisibleTypeAnnotations",
          "AnnotationDefault"}
  BY DEF AttributeParser, OutOfStep
<1>26. Right(kind)
  BY <1>20, <1>21, <1>22, <1>23, <1>24, <1>25
<1>27. QED
  BY <1>26 DEF Right, Fits

(* A function that is called once. *)
LEMMA CalledOnce ==
  ASSUME NEW fn \in DOMAIN Script
  PROVE  /\ Frame(fn, 1).todo = Script[fn]
         /\ \E S : Script[fn] \in Seq(S)
<1>1. \E S : Script[fn] \in Seq(S)
  <2>1. fn \in Members \/ fn \in PoolParsers \/ fn = "LoadClassFile"
    BY DEF Members
  <2>2. Script["parseAttributes"] \in Seq({Attribute})
    BY ShortSequences DEF Script, parseAttributes
  <2>3. QED
    BY <2>1, <2>2, MemberScripts, PoolScripts, LoaderScript
<1>2. PICK S : Script[fn] \in Seq(S)
  BY <1>1
<1>3. Frame(fn, 1).todo = Copies(Script[fn], 1)
  BY DEF Frame
<1>4. QED
  BY <1>1, <1>2, <1>3, CopiesOfCode

(* The parsers of the pool's entries. *)
LEMMA EntriesTake ==
  ASSUME NEW n, NEW e, NEW target, NEW B, Laid(n, e, target, B),
         NEW kind \in DOMAIN EntryParser
  PROVE  Takes(B, Script[EntryParser[kind]], ConstantInfo(n)[kind])
<1>1. /\ <<U(1), 1>> \in B /\ <<U(2), 2>> \in B /\ <<U(4), 4>> \in B /\ <<U(8), 8>> \in B
      /\ <<Blob(2, "count"), 2 + n>> \in B
  BY BillsOfReads
<1>2. /\ 1 \in Int /\ 2 \in Int /\ 4 \in Int /\ 8 \in Int /\ 2 + n \in Int
  BY DEF Laid
<1> DEFINE Fits(s, m) == Takes(B, s, m)
<1>3. Fits(<<U(2)>>, 2) /\ Fits(<<U(4)>>, 4) /\ Fits(<<U(8)>>, 8)
  BY <1>1, <1>2, TakesOne, Zenon
<1>4. Fits(<<U(2), U(2)>>, 4)
  <2>1. Fits(<<U(2), U(2)>>, 2 + 2)
    BY <1>1, <1>2, TakesTwo, Zenon
  <2>2. QED
    BY <2>1
<1>5. Fits(<<U(1), U(2)>>, 1 + 2)
  BY <1>1, <1>2, TakesTwo, Zenon
<1>6. Fits(<<Blob(2, "count")>>, 2 + n)
  BY <1>1, <1>2, TakesOne, Zenon
<1>7. Fits(<<Call("cp_parse_filedRefInfo")>>, 4)
  BY <1>2, BillsOfCalls, TakesOne
<1> HIDE DEF Fits
<1> DEFINE Right(tag) == Fits(Script[EntryParser[tag]], ConstantInfo(n)[tag])
<1>8. Right("Class") /\ Right("String") /\ Right("MethodType")
  BY <1>3 DEF Script, EntryParser, ConstantInfo, cp_parse_classInfo, cp_parse_stringInfo,
              cp_parse_methodTypeInfo
<1>9. Right("FieldRef") /\ Right("NameAndType") /\ Right("InvokeDynamic")
  BY <1>4 DEF Script, EntryParser, ConstantInfo, cp_parse_filedRefInfo,
              cp_parse_nameAndTypeInfo, cp_parse_invokeDynamicInfo
<1>10. Right("MethodRef") /\ Right("InterfaceMethodRef")
  BY <1>7 DEF Script, EntryParser, ConstantInfo, cp_parse_methodRefInfo,
              cp_parse_interfaceMethodRefInfo
<1>11. Right("Integer") /\ Right("Float") /\ Right("Long") /\ Right("Double")
  BY <1>3 DEF Script, EntryParser, ConstantInfo, cp_parse_intergerInfo, cp_parse_floatInfo,
              cp_parse_longInfo, cp_parse_doubleInfo
<1>12. Right("MethodHandle") /\ Right("Utf8")
  BY <1>5, <1>6 DEF Script, EntryParser, ConstantInfo, cp_parse_methodHandleInfo,
                    cp_parse_utf8Info
<1> HIDE DEF Right
<1>13. kind \in {"Class", "FieldRef", "MethodRef", "InterfaceMethodRef", "String", "Integer",
         "Float", "Long", "Double", "NameAndType", "Utf8", "MethodHandle", "MethodType",
         "InvokeDynamic"}
  BY DEF EntryParser
<1>14. Right(kind)
  BY <1>8, <1>9, <1>10, <1>11, <1>12, <1>13
<1>15. QED
  BY <1>14 DEF Right, Fits

(* The functions that are called by other scripts.                         *)
LEMMA FunctionsTake ==
  ASSUME NEW n, NEW e, NEW target, NEW B, Laid(n, e, target, B)
  PROVE  /\ Takes(B, parseElementValue, ElementValue(e))
         /\ Takes(B, parseAnnotation, Annotation(n, e))
         /\ Takes(B, parseTypeAnnotation, TypeAnnotation(n, e, target))
         /\ Takes(B, cp_parse_filedRefInfo, 4)
         /\ Takes(B, parseFields, FieldInfo(n)) /\ Takes(B, parseMethods, MethodInfo(n))
         /\ Takes(B, parseAttributes, 2 + 4 + Attribute_Deprecated)
<1>1. n \in Nat /\ e \in ElementKinds /\ target \in TargetKinds /\ 2 \in Int
  BY DEF Laid
<1>2. <<U(2), 2>> \in B
  BY BillsOfReads
<1>3. Takes(B, parseElementValue, ElementValue(e))
  <2>1. PICK ins : ins = parseElementValue[1]
    OBVIOUS
  <2>2. parseElementValue = <<ins>>
    BY <2>1 DEF parseElementValue
  <2>3. PICK p \in Int : p = ElementValue(e)
    BY <1>1, SizesAreNumbers
  <2>4. <<parseElementValue[1], p>> \in B
    BY <2>3, BillsOfCalls
  <2>5. QED
    BY <2>1, <2>2, <2>3, <2>4, TakesOne
<1>4. PICK pairs : pairs = 2 + n * ElementValuePair(e) /\ pairs \in Int
  BY <1>1, SizesAreNumbers
<1>5. <<Pairs, pairs>> \in B
  BY <1>4, BillsOfLoops
<1>6. Takes(B, <<U(2), Pairs>>, 2 + pairs)
  BY <1>1, <1>2, <1>4, <1>5, TakesTwo, Zenon
<1>7. Takes(B, parseAnnotation, Annotation(n, e))
  <2>1. 2 + pairs = Annotation(n, e)
    BY <1>1, <1>4, SizesAreNumbers DEF Annotation
  <2>2. QED
    BY <1>6, <2>1 DEF parseAnnotation
<1>8. Takes(B, parseTypeAnnotation, TypeAnnotation(n, e, target))
  <2>1. PICK a, b : a = parseTypeAnnotation[1] /\ b = Many(1, <<U(1), U(1)>>)
    OBVIOUS
  <2>2. parseTypeAnnotation = <<a, b, U(2), Pairs>>
    BY <2>1 DEF parseTypeAnnotation
  <2>3. PICK p \in Int, q \in Int : p = 1 + target_info(n, target) /\ q = 1 + n * 2
    BY <1>1, SizesAreNumbers
  <2>4. <<a, p>> \in B /\ <<b, q>> \in B
    BY <2>1, <2>3, BillsOfCalls, BillsOfLoops
  <2>5. Takes(B, <<b, U(2), Pairs>>, q + (2 + pairs))
    BY <1>6, <2>3, <2>4, TakesShort, Zenon
  <2>6. Takes(B, <<a, b, U(2), Pairs>>, p + (q + (2 + pairs)))
    BY <2>3, <2>4, <2>5, TakesShort, Zenon
  <2>7. PICK t \in Int, v \in Int : t = target_info(n, target) /\ v = n * ElementValuePair(e)
    BY <1>1, SizesAreNumbers
  <2>8. p + (q + (2 + pairs)) = TypeAnnotation(n, e, target)
    BY <1>1, <1>4, <2>3, <2>7 DEF TypeAnnotation, TypePath
  <2>9. QED
    BY <2>2, <2>6, <2>8
<1>9. Takes(B, cp_parse_filedRefInfo, 4)
  <2>1. Takes(B, <<U(2), U(2)>>, 2 + 2)
    BY <1>1, <1>2, TakesTwo, Zenon
  <2>2. QED
    BY <2>1 DEF cp_parse_filedRefInfo
<1>10. PICK inner \in Int : inner = AttributesOf(n)
  BY <1>1, SizesAreNumbers
<1>11. Takes(B, <<U(2), U(2), U(2), CallN(2, "parseAttributes")>>, 2 + (2 + (2 + inner)))
  <2>1. <<CallN(2, "parseAttributes"), inner>> \in B
    BY <1>10, BillsOfCalls
  <2>2. Takes(B, <<U(2), CallN(2, "parseAttributes")>>, 2 + inner)
    BY <1>1, <1>2, <1>10, <2>1, TakesTwo, Zenon
  <2>3. Takes(B, <<U(2), U(2), CallN(2, "parseAttributes")>>, 2 + (2 + inner))
    BY <1>1, <1>2, <2>2, TakesShort, Zenon
  <2>4. QED
    BY <1>1, <1>2, <2>3, TakesShort, Zenon
<1>12. Takes(B, parseFields, FieldInfo(n)) /\ Takes(B, parseMethods, MethodInfo(n))
  <2>1. 2 + (2 + (2 + inner)) = FieldInfo(n) /\ 2 + (2 + (2 + inner)) = MethodInfo(n)
    BY <1>10 DEF FieldInfo, MethodInfo
  <2>2. QED
    BY <1>11, <2>1 DEF parseFields, parseMethods
<1>13. Takes(B, parseAttributes, 2 + 4 + Attribute_Deprecated)
  <2>1. PICK m \in Int : m = 2 + 4 + Attribute_Deprecated
    BY DEF Attribute_Deprecated
  <2>2. Takes(B, <<Attribute>>, m)
    BY <2>1, BillsOfCalls, TakesOne
  <2>3. QED
    BY <2>1, <2>2 DEF parseAttributes
<1>14. QED
  BY <1>3, <1>7, <1>8, <1>9, <1>12, <1>13

(* What a value of the two switches is followed by. *)
LEMMA VariantsTake ==
  ASSUME NEW n, NEW e, NEW target, NEW B, Laid(n, e, target, B)
  PROVE  /\ \E c \in Int : /\ ElementValue(e) = 1 + c
                           /\ Takes(B, parseElementValue[1].arg[e], c)
         /\ Takes(B, parseTypeAnnotation[1].arg[target], target_info(n, target))
<1>1. n \in Nat /\ e \in ElementKinds /\ target \in TargetKinds /\ 2 \in Int /\ 1 \in Int
  BY DEF Laid
<1>2. <<U(2), 2>> \in B /\ <<U(1), 1>> \in B
  BY BillsOfReads
<1> DEFINE none == <<>>  one == <<U(1)>>  two == <<U(2)>>  oneone == <<U(1), U(1)>>
           twotwo == <<U(2), U(2)>>  twoone == <<U(2), U(1)>>
           places == <<Many(2, <<U(2), U(2), U(2)>>)>>
           nested == <<Call("parseAnnotation")>>  array == <<Elements>>
<1>3. /\ Takes(B, none, 0) /\ Takes(B, one, 1) /\ Takes(B, two, 2)
  BY <1>1, <1>2, TakesNothing, TakesOne, Zenon
<1>4. /\ Takes(B, oneone, 1 + 1) /\ Takes(B, twotwo, 2 + 2) /\ Takes(B, twoone, 2 + 1)
  BY <1>1, <1>2, TakesTwo, Zenon
<1>5. Takes(B, places, 2 + n * 6)
  <2>1. PICK m \in Int : m = 2 + n * 6
    BY <1>1
  <2>2. QED
    BY <2>1, BillsOfLoops, TakesOne
<1>6. parseElementValue[1].arg = [const |-> two, enum |-> twotwo, class |-> two,
                                  annotation |-> nested, array |-> array]
  BY DEF parseElementValue, Select, Instr, Elements
<1>7. parseTypeAnnotation[1].arg =
        [parameter |-> one, super |-> two, bound |-> oneone, empty |-> none,
         formal |-> one, throws |-> two, localvar |-> places, catch |-> two,
         offset |-> two, argument |-> twoone, other |-> none]
  BY DEF parseTypeAnnotation, Select, Instr
<1> HIDE DEF none, one, two, oneone, twotwo, twoone, places, nested, array
<1>8. /\ parseElementValue[1].arg["const"] = two /\ parseElementValue[1].arg["class"] = two
      /\ parseElementValue[1].arg["enum"] = twotwo
  BY <1>6
<1>9. /\ ElementValue("const") = 1 + 2 /\ ElementValue("class") = 1 + 2
      /\ ElementValue("enum") = 1 + (2 + 2)
  BY DEF ElementValue
<1>10. \E c \in Int : ElementValue(e) = 1 + c /\ Takes(B, parseElementValue[1].arg[e], c)
  <2>1. CASE e \in {"const", "class"}
    BY <1>3, <1>8, <1>9, <2>1
  <2>2. CASE e = "enum"
    <3>1. PICK c \in Int : c = 2 + 2
      OBVIOUS
    <3>2. QED
      BY <1>4, <1>8, <1>9, <2>2, <3>1
  <2>3. QED
    BY <1>1, <2>1, <2>2 DEF ElementKinds
<1>11. /\ target_info(n, "parameter") = 1 /\ target_info(n, "formal") = 1
       /\ target_info(n, "super") = 2 /\ target_info(n, "bound") = 1 + 1
       /\ target_info(n, "throws") = 2 /\ target_info(n, "catch") = 2
       /\ target_info(n, "offset") = 2 /\ target_info(n, "argument") = 2 + 1
       /\ target_info(n, "localvar") = 2 + n * 6 /\ target_info(n, "empty") = 0
  BY DEF target_info
<1> DEFINE Fits(s, m) == Takes(B, s, m)
           table == parseTypeAnnotation[1].arg
<1>12. /\ Fits(none, 0) /\ Fits(one, 1) /\ Fits(two, 2) /\ Fits(oneone, 1 + 1)
       /\ Fits(twoone, 2 + 1) /\ Fits(places, 2 + n * 6)
  BY <1>3, <1>4, <1>5
<1>13. /\ table["parameter"] = one /\ table["super"] = two /\ table["bound"] = oneone
       /\ table["empty"] = none /\ table["formal"] = one /\ table["throws"] = two
       /\ table["localvar"] = places /\ table["catch"] = two /\ table["offset"] = two
       /\ table["argument"] = twoone
  BY <1>7
<1> HIDE DEF Fits, table
<1> DEFINE Right(t) == Fits(table[t], target_info(n, t))
<1>14. /\ Right("parameter") /\ Right("formal") /\ Right("super") /\ Right("bound")
       /\ Right("throws")
  BY <1>11, <1>12, <1>13
<1>15. /\ Right("catch") /\ Right("offset") /\ Right("argument") /\ Right("localvar")
       /\ Right("empty")
  BY <1>11, <1>12, <1>13
<1> HIDE DEF Right
<1>16. Right(target)
  BY <1>1, <1>14, <1>15 DEF TargetKinds
<1>17. QED
  BY <1>10, <1>16 DEF Right, Fits, table

(* The loops over the members and over the attributes. *)
LEMMA MembersTake ==
  ASSUME NEW n, NEW e, NEW target, NEW B, Laid(n, e, target, B)
  PROVE  /\ Takes(B, Frame("parseFields", n).todo, n * FieldInfo(n))
         /\ Takes(B, Frame("parseMethods", n).todo, n * MethodInfo(n))
         /\ Takes(B, Frame("parseAttributes", n).todo, n * (2 + 4 + Attribute_Deprecated))
<1>1. n \in Nat
  BY DEF Laid
<1>2. /\ Frame("parseFields", n).todo = Copies(parseFields, n)
      /\ Frame("parseMethods", n).todo = Copies(parseMethods, n)
      /\ Frame("parseAttributes", n).todo = Copies(parseAttributes, n)
  BY DEF Frame, Script
<1>3. Len(parseFields) = 4 /\ Len(parseMethods) = 4 /\ Len(parseAttributes) = 1
  BY DEF parseFields, parseMethods, parseAttributes
<1>4. /\ Len(parseFields) \in 1 .. 4 /\ Len(parseMethods) \in 1 .. 4
      /\ Len(parseAttributes) \in 1 .. 4
  BY <1>3
<1>5. QED
  BY <1>1, <1>2, <1>4, FunctionsTake, TakesCopies

(* The tables of a class have sizes. *)
LEMMA TablesAreNumbers ==
  ASSUME NEW n \in Nat
  PROVE  /\ n * 2 \in Nat /\ n * FieldInfo(n) \in Nat /\ n * MethodInfo(n) \in Nat
         /\ AttributesOf(n) \in Nat
<1>1. PICK a \in Nat : a = AttributesOf(n)
  BY DEF AttributesOf, Attribute_Deprecated
<1>2. PICK f \in Nat, m \in Nat : f = FieldInfo(n) /\ m = MethodInfo(n)
  BY <1>1 DEF FieldInfo, MethodInfo
<1>3. \A k \in Nat : n * k \in Nat
  OBVIOUS
<1>4. n * f \in Nat /\ n * m \in Nat /\ n * 2 \in Nat
  BY <1>3
<1>5. QED
  BY <1>1, <1>2, <1>4

(* A whole class takes its layout. *)
LEMMA ClassTakes ==
  ASSUME NEW n, NEW e, NEW target, NEW B, Laid(n, e, target, B), <<Pool, 2 + Strings(n, 1)>> \in B
  PROVE  Takes(B, LoadClassFile, ClassFile(n))
<1>1. n \in Nat /\ 2 \in Int /\ 4 \in Int
  BY DEF Laid
<1>2. /\ <<U(2), 2>> \in B /\ <<Test(4, "magic"), 4>> \in B /\ <<Test(2, "major"), 2>> \in B
      /\ <<Keep(2, "minor"), 2>> \in B
  BY BillsOfReads DEF Values
<1>3. PICK strings \in Int, pool1 \in Int : strings = Strings(n, 1) /\ pool1 = 2 + strings
  <2>1. ConstantInfo(n).Utf8 \in Int
    BY <1>1 DEF ConstantInfo
  <2>2. Strings(n, 1) \in Int
    BY <2>1, <1>1 DEF Strings
  <2>3. QED
    BY <2>2
<1>4. PICK faces \in Int, fields \in Int, methods \in Int, attributes \in Int :
        /\ faces = 2 + n * 2 /\ fields = 2 + n * FieldInfo(n) /\ methods = 2 + n * MethodInfo(n)
        /\ attributes = AttributesOf(n)
  <2>1. n * 2 \in Nat /\ n * FieldInfo(n) \in Nat /\ n * MethodInfo(n) \in Nat
        /\ AttributesOf(n) \in Nat
    BY <1>1, TablesAreNumbers
  <2>2. QED
    BY <2>1
<1>5. PICK a, b, c, d : /\ a = Many(2, <<U(2)>>) /\ b = CallN(2, "parseFields")
                        /\ c = CallN(2, "parseMethods") /\ d = CallN(2, "parseAttributes")
  OBVIOUS
<1>6. <<a, faces>> \in B /\ <<b, fields>> \in B /\ <<c, methods>> \in B /\ <<d, attributes>> \in B
      /\ <<Pool, pool1>> \in B
  BY <1>3, <1>4, <1>5, BillsOfLoops, BillsOfCalls
<1>7. Takes(B, <<c, d>>, methods + attributes)
  BY <1>6, TakesTwo, Zenon
<1>8. Takes(B, <<b, c, d>>, fields + (methods + attributes))
  BY <1>6, <1>7, TakesShort, Zenon
<1>9. Takes(B, <<a, b, c, d>>, faces + (fields + (methods + attributes)))
  BY <1>6, <1>8, TakesShort, Zenon
<1>10. Takes(B, <<U(2), a, b, c, d>>, 2 + (faces + (fields + (methods + attributes))))
  BY <1>1, <1>2, <1>9, TakesShort, Zenon
<1>11. Takes(B, <<U(2), U(2), a, b, c, d>>, 2 + (2 + (faces + (fields + (methods + attributes)))))
  BY <1>1, <1>2, <1>10, TakesShort, Zenon
<1>12. Takes(B, <<Pool, U(2)>>, pool1 + 2)
  BY <1>1, <1>2, <1>6, TakesTwo, Zenon
<1>13. Takes(B, <<Test(2, "major"), Pool, U(2)>>, 2 + (pool1 + 2))
  BY <1>1, <1>2, <1>12, TakesShort, Zenon
<1>14. Takes(B, <<Keep(2, "minor"), Test(2, "major"), Pool, U(2)>>, 2 + (2 + (pool1 + 2)))
  BY <1>1, <1>2, <1>13, TakesShort, Zenon
<1>15. Takes(B, <<Test(4, "magic"), Keep(2, "minor"), Test(2, "major"), Pool, U(2)>>,
             4 + (2 + (2 + (pool1 + 2))))
  BY <1>1, <1>2, <1>14, TakesShort, Zenon
<1>16. LoadClassFile = <<Test(4, "magic"), Keep(2, "minor"), Test(2, "major"), Pool, U(2)>>
                       \o <<U(2), U(2), a, b, c, d>>
  <2>1. PICK t, k, m, p, u : /\ t = Test(4, "magic") /\ k = Keep(2, "minor")
                             /\ m = Test(2, "major") /\ p = Pool /\ u = U(2)
    OBVIOUS
  <2>2. LoadClassFile = <<t, k, m, p, u, u, u, a, b, c, d>>
    BY <2>1, <1>5 DEF LoadClassFile
  <2>3. <<t, k, m, p, u, u, u, a, b, c, d>> = <<t, k, m, p, u>> \o <<u, u, a, b, c, d>>
    OBVIOUS
  <2>4. QED
    BY <2>1, <2>2, <2>3
<1>17. PICK m \in Int :
         m = (4 + (2 + (2 + (pool1 + 2))))
             + (2 + (2 + (faces + (fields + (methods + attributes)))))
  OBVIOUS
<1>18. Takes(B, LoadClassFile, m)
  BY <1>11, <1>15, <1>16, <1>17, TakesBoth
<1>19. m = ClassFile(n)
  <2>1. PICK x \in Int, y \in Int, z \in Int : x = n * FieldInfo(n) /\ y = n * MethodInfo(n)
                                               /\ z = (n + 1) * (1 + ConstantInfo(n).Utf8)
    <3>1. n * FieldInfo(n) \in Nat /\ n * MethodInfo(n) \in Nat
      BY <1>1, TablesAreNumbers
    <3>2. (n + 1) * (1 + ConstantInfo(n).Utf8) \in Nat
      BY <1>1 DEF ConstantInfo
    <3>3. QED
      BY <3>1, <3>2
  <2>2. strings = z
    <3>1. n + 2 - 1 = n + 1
      BY <1>1
    <3>2. QED
      BY <3>1, <2>1, <1>3 DEF Strings
  <2>3. ClassFile(n) = 4 + 2 + 2 + (2 + z) + 2 + 2 + 2
                       + (2 + n * 2) + (2 + x) + (2 + y) + attributes
    BY <2>1, <1>4 DEF ClassFile
  <2>4. QED
    BY <2>1, <2>2, <2>3, <1>1, <1>3, <1>4, <1>17
<1>20. QED
  BY <1>18, <1>19

-----------------------------------------------------------------------------
(* What bill an instruction has, by what it does. *)
LEMMA BillsByOp ==
  ASSUME NEW n \in Nat, NEW e, NEW target, NEW counts, NEW size, NEW ins, NEW m,
         <<ins, m>> \in Bills(n, e, target, counts, size)
  PROVE  \/ ins.op \in Simple /\ ins.w \in Nat /\ m = ins.w
         \/ ins.op = "blob" /\ ins.what = "count" /\ ins.w \in Nat /\ m = ins.w + n
         \/ ins.op = "many" /\ <<ins, m>> \in Looped(n, e, target)
         \/ ins.op = "call" /\ <<ins, m>> \in Called(n, e, target)
         \/ /\ ins.op = "callN" /\ ins.w = 2 /\ ins.what = "count"
            /\ <<ins, m>> \in Repeated(n)
         \/ ins.op = "select" /\ ins.w = 1 /\ <<ins, m>> \in Switched(n, e, target)
         \/ /\ ins.op = "attribute" /\ ins.w = 2 /\ ins.what = "name"
            /\ m = 2 + 4 + Attribute_Deprecated
         \/ /\ ins.op = "pool" /\ ins.w = 2 /\ ins.what = "poolCount"
            /\ n + 2 \in counts /\ m = 2 + Strings(n, 1)
         \/ /\ ins.op = "entry" /\ ins.w = 1 /\ ins.what = "tag" /\ size = n + 2
            /\ \E i \in 1 .. n + 1 : ins.arg = i /\ m = Strings(n, i)
         \/ /\ ins.op = "store" /\ ins.what = "Utf8" /\ size = n + 2
            /\ \E i \in 1 .. n + 1 : ins.arg = i /\ m = Strings(n, i + 1)
<1> DEFINE goal ==
         \/ ins.op \in Simple /\ ins.w \in Nat /\ m = ins.w
         \/ ins.op = "blob" /\ ins.what = "count" /\ ins.w \in Nat /\ m = ins.w + n
         \/ ins.op = "many" /\ <<ins, m>> \in Looped(n, e, target)
         \/ ins.op = "call" /\ <<ins, m>> \in Called(n, e, target)
         \/ /\ ins.op = "callN" /\ ins.w = 2 /\ ins.what = "count"
            /\ <<ins, m>> \in Repeated(n)
         \/ ins.op = "select" /\ ins.w = 1 /\ <<ins, m>> \in Switched(n, e, target)
         \/ /\ ins.op = "attribute" /\ ins.w = 2 /\ ins.what = "name"
            /\ m = 2 + 4 + Attribute_Deprecated
         \/ /\ ins.op = "pool" /\ ins.w = 2 /\ ins.what = "poolCount"
            /\ n + 2 \in counts /\ m = 2 + Strings(n, 1)
         \/ /\ ins.op = "entry" /\ ins.w = 1 /\ ins.what = "tag" /\ size = n + 2
            /\ \E i \in 1 .. n + 1 : ins.arg = i /\ m = Strings(n, i)
         \/ /\ ins.op = "store" /\ ins.what = "Utf8" /\ size = n + 2
            /\ \E i \in 1 .. n + 1 : ins.arg = i /\ m = Strings(n, i + 1)
<1> SUFFICES goal
  OBVIOUS
<1>1. CASE <<ins, m>> \in Plain
  <2>1. ins \in Reads /\ ins.op \in Simple /\ m = ins.w
    BY <1>1 DEF Plain
  <2>2. ins.w \in Nat
    BY <2>1 DEF Reads
  <2>3. QED
    BY <2>1, <2>2
<1>2. CASE <<ins, m>> \in Blobs(n)
  BY <1>2 DEF Blobs, Blob, Instr
<1>3. CASE <<ins, m>> \in Looped(n, e, target)
  <2>1. ins.op = "many"
    BY <1>3 DEF Looped, Pairs, Annotations, TypeAnnotations, Many, Instr
  <2>2. QED
    BY <2>1, <1>3
<1>4. CASE <<ins, m>> \in Called(n, e, target)
  <2>1. ins.op = "call"
    BY <1>4 DEF Called, Call, Instr
  <2>2. QED
    BY <2>1, <1>4
<1>5. CASE <<ins, m>> \in Repeated(n)
  <2>1. ins.op = "callN" /\ ins.w = 2 /\ ins.what = "count"
    BY <1>5 DEF Repeated, CallN, Instr
  <2>2. QED
    BY <2>1, <1>5
<1>6. CASE <<ins, m>> \in Switched(n, e, target)
  <2>1. ins \in Switches
    BY <1>6 DEF Switched, Switches
  <2>2. QED
    BY <2>1, <1>6, SwitchCode
<1>7. CASE <<ins, m>> \in Inner
  BY <1>7 DEF Inner, Attribute, Instr
<1>8. CASE <<ins, m>> \in Pooled(n, counts, size)
  <2>1. \/ ins = Pool /\ m = 2 + Strings(n, 1) /\ n + 2 \in counts
        \/ \E i \in 1 .. n + 1 : /\ size = n + 2
                                 /\ \/ ins = Entry(i) /\ m = Strings(n, i)
                                    \/ ins = Store(i, "Utf8") /\ m = Strings(n, i + 1)
    BY <1>8 DEF Pooled
  <2>2. CASE ins = Pool /\ m = 2 + Strings(n, 1) /\ n + 2 \in counts
    BY <2>2 DEF Pool, Instr
  <2>3. ASSUME NEW i \in 1 .. n + 1, size = n + 2, ins = Entry(i) /\ m = Strings(n, i)
        PROVE  goal
    BY <2>3 DEF Entry, Instr
  <2>4. ASSUME NEW i \in 1 .. n + 1, size = n + 2,
               ins = Store(i, "Utf8") /\ m = Strings(n, i + 1)
        PROVE  goal
    BY <2>4 DEF Store, Instr
  <2> HIDE DEF goal
  <2>5. QED
    BY <2>1, <2>2, <2>3, <2>4
<1> HIDE DEF goal
<1>9. QED
  BY <1>1, <1>2, <1>3, <1>4, <1>5, <1>6, <1>7, <1>8 DEF Bills

(* The functions that are called take what their calls are billed.         *)
LEMMA CalledTakes ==
  ASSUME NEW n, NEW e, NEW target, NEW B, Laid(n, e, target, B),
         NEW ins, NEW m, <<ins, m>> \in Called(n, e, target)
  PROVE  Takes(B, Frame(ins.arg, 1).todo, m)
<1>1. /\ {"parseElementValue", "parseAnnotation", "parseTypeAnnotation",
          "cp_parse_filedRefInfo"} \subseteq DOMAIN Script
      /\ Script["parseElementValue"] = parseElementValue
      /\ Script["parseAnnotation"] = parseAnnotation
      /\ Script["parseTypeAnnotation"] = parseTypeAnnotation
      /\ Script["cp_parse_filedRefInfo"] = cp_parse_filedRefInfo
  BY DEF Script
<1>2. \/ ins.arg = "parseElementValue" /\ m = ElementValue(e)
      \/ ins.arg = "parseAnnotation" /\ m = Annotation(n, e)
      \/ ins.arg = "parseTypeAnnotation" /\ m = TypeAnnotation(n, e, target)
      \/ ins.arg = "cp_parse_filedRefInfo" /\ m = 4
  BY DEF Called, Call, Instr
<1>3. ins.arg \in DOMAIN Script
  BY <1>1, <1>2
<1>4. Frame(ins.arg, 1).todo = Script[ins.arg]
  BY <1>3, CalledOnce
<1>5. QED
  BY <1>1, <1>2, <1>4, FunctionsTake

(* So do the loops over members and attributes, after their count. *)
LEMMA RepeatedTakes ==
  ASSUME NEW n, NEW e, NEW target, NEW B, Laid(n, e, target, B),
         NEW ins, NEW m, <<ins, m>> \in Repeated(n)
  PROVE  \E c \in Int : m = 2 + c /\ Takes(B, Frame(ins.arg, n).todo, c)
<1>1. n \in Nat
  BY DEF Laid
<1>2. PICK f \in Int, g \in Int, a \in Int :
        /\ f = n * FieldInfo(n) /\ g = n * MethodInfo(n) /\ a = n * (2 + 4 + Attribute_Deprecated)
  <2>1. n * FieldInfo(n) \in Nat /\ n * MethodInfo(n) \in Nat
    BY <1>1, TablesAreNumbers
  <2>2. n * (2 + 4 + Attribute_Deprecated) \in Nat
    BY <1>1 DEF Attribute_Deprecated
  <2>3. QED
    BY <2>1, <2>2
<1>3. \/ ins.arg = "parseFields" /\ m = 2 + f
      \/ ins.arg = "parseMethods" /\ m = 2 + g
      \/ ins.arg = "parseAttributes" /\ m = 2 + a
  BY <1>2 DEF Repeated, CallN, Instr, AttributesOf
<1>4. QED
  BY <1>2, <1>3, MembersTake

(* And the alternatives of the switches, after the value switched on. *)
LEMMA SwitchedTakes ==
  ASSUME NEW n, NEW e, NEW target, NEW B, Laid(n, e, target, B),
         NEW ins, NEW m, <<ins, m>> \in Switched(n, e, target)
  PROVE  \E c \in Int : /\ m = 1 + c
                        /\ ins.what = "element" => Takes(B, ins.arg[e], c)
                        /\ ins.what = "target" => Takes(B, ins.arg[target], c)
<1>1. n \in Nat /\ target \in TargetKinds /\ e \in ElementKinds
  BY DEF Laid
<1>2. CASE ins = parseElementValue[1] /\ m = ElementValue(e)
  <2>1. ins.what = "element"
    BY <1>2 DEF parseElementValue, Select, Instr
  <2>2. PICK c \in Int : ElementValue(e) = 1 + c /\ Takes(B, parseElementValue[1].arg[e], c)
    BY VariantsTake
  <2>3. QED
    BY <1>2, <2>1, <2>2
<1>3. CASE ins = parseTypeAnnotation[1] /\ m = 1 + target_info(n, target)
  <2>1. ins.what = "target"
    BY <1>3 DEF parseTypeAnnotation, Select, Instr
  <2>2. PICK c \in Int : c = target_info(n, target)
    BY <1>1, SizesAreNumbers
  <2>3. Takes(B, parseTypeAnnotation[1].arg[target], c)
    BY <2>2, VariantsTake
  <2>4. QED
    BY <1>3, <2>1, <2>2, <2>3
<1>4. QED
  BY <1>2, <1>3 DEF Switched

-----------------------------------------------------------------------------
(* The stream holds what is laid out: every table has n elements, and the  *)
(* attributes inside other things are named by strings in the pool.        *)
AsLaidOut(n, e, target) ==
  /\ n \in Nat /\ e \in ElementKinds /\ target \in TargetKinds
  /\ file.counts = {n} /\ file.elements = {e} /\ file.targets = {target}
  /\ file.tags = {"Utf8"} /\ file.texts = {"Deprecated"} /\ file.names \subseteq Nat
  /\ (\E c \in Nat : file.poolCounts = {c}) /\ file.bad = FALSE

PoolNames ==
  /\ count \in Nat /\ DOMAIN pool = 1 .. count - 1
  /\ \A i \in file.names \cap DOMAIN pool : pool[i] \in {NoEntry, Utf8Entry("Deprecated")}

Billed(n, e, target) == Bills(n, e, target, file.poolCounts, count)

(* Reading constant_pool_count only adds bills: those of the entries. *)
LEMMA BillsGrow ==
  ASSUME NEW n, NEW e, NEW target, NEW counts, NEW size
  PROVE  Bills(n, e, target, counts, size) \subseteq Bills(n, e, target, counts, n + 2)
<1>1. Pooled(n, counts, size) \subseteq Pooled(n, counts, n + 2)
  BY DEF Pooled
<1>2. QED
  BY <1>1 DEF Bills

(* The values that the stream holds are those of the layout. *)
LEMMA HeldValues ==
  ASSUME NEW n, NEW e, NEW target, AsLaidOut(n, e, target)
  PROVE  /\ Held("count") = {n} /\ Held("element") = {e} /\ Held("target") = {target}
         /\ Held("tag") = {"Utf8"} /\ Held("poolCount") = file.poolCounts
         /\ Held("name") = file.names
<1>1. Held("count") = {n} /\ Held("target") = {target} /\ Held("poolCount") = file.poolCounts
  BY DEF Held, AsLaidOut
<1>2. Held("element") = {e} /\ Held("tag") = {"Utf8"} /\ Held("name") = file.names
  BY DEF Held, AsLaidOut
<1>3. QED
  BY <1>1, <1>2

(* An entry of the pool takes its tag and its string. *)
LEMMA StringsStep ==
  ASSUME NEW n \in Nat, NEW i \in 1 .. n + 1
  PROVE  /\ Strings(n, i) \in Int /\ Strings(n, i + 1) \in Int /\ ConstantInfo(n).Utf8 \in Int
         /\ Strings(n, i) = 1 + Strings(n, i + 1) + ConstantInfo(n).Utf8
         /\ Strings(n, n + 2) = 0
<1>1. PICK u \in Int : u = ConstantInfo(n).Utf8
  BY DEF ConstantInfo
<1>2. PICK a \in Int : a = n + 2 - i /\ n + 2 - (i + 1) = a - 1
  OBVIOUS
<1>3. Strings(n, i) = a * (1 + u) /\ Strings(n, i + 1) = (a - 1) * (1 + u)
  BY <1>1, <1>2 DEF Strings
<1>4. a * (1 + u) \in Int /\ (a - 1) * (1 + u) \in Int /\ a * (1 + u) = (1 + u) + (a - 1) * (1 + u)
  OBVIOUS
<1>5. Strings(n, n + 2) = 0
  <2>1. n + 2 - (n + 2) = 0 /\ 0 * (1 + u) = 0
    OBVIOUS
  <2>2. QED
    BY <2>1, <1>1 DEF Strings
<1>6. QED
  BY <1>1, <1>3, <1>4, <1>5

(* What follows a read that was accepted takes the rest of its bill.       *)
LEMMA ContinuesTakes ==
  ASSUME FailuresNotNegative, NEW n, NEW e, NEW target, AsLaidOut(n, e, target),
         NEW p, <<Ins, p>> \in Billed(n, e, target), NEW v, NEW code, Continues(v, code)
  PROVE  \E c \in Int : /\ left' = left - Ins.w /\ Ins.w \in Int /\ p = Ins.w + c
                        /\ Takes(Billed(n, e, target), code, c)
<1>1. n \in Nat /\ Laid(n, e, target, Billed(n, e, target))
  BY DEF AsLaidOut, Laid, Billed
<1> DEFINE B == Billed(n, e, target)
<1>2. left' = left - Ins.w /\ v \in Held(Ins.what)
  BY AcceptedIsDelivered DEF Continues
<1>3. \/ Ins.op \in Simple /\ Ins.w \in Nat /\ p = Ins.w
      \/ Ins.op = "blob" /\ Ins.what = "count" /\ Ins.w \in Nat /\ p = Ins.w + n
      \/ Ins.op = "many" /\ <<Ins, p>> \in Looped(n, e, target)
      \/ Ins.op = "select" /\ Ins.w = 1 /\ <<Ins, p>> \in Switched(n, e, target)
      \/ Ins.op \notin {"u", "keep", "test", "blob", "many", "many1", "select"}
  BY <1>1, BillsByOp DEF Billed
<1> HIDE DEF B
<1>4. CASE Ins.op \in Simple /\ Ins.w \in Nat /\ p = Ins.w
  <2>1. code = <<>>
    BY <1>4 DEF Continues, Simple
  <2>2. Takes(B, code, 0) /\ p = Ins.w + 0
    BY <2>1, <1>4, TakesNothing
  <2>3. QED
    BY <2>2, <1>2, <1>4 DEF B
<1>5. CASE Ins.op = "blob" /\ Ins.what = "count" /\ Ins.w \in Nat /\ p = Ins.w + n
  <2>1. v = n
    BY <1>2, <1>5, HeldValues
  <2>2. code = <<Bytes(n)>>
    BY <2>1, <1>5 DEF Continues, Loop
  <2>3. <<Bytes(n), n>> \in B
    BY <1>1, BillsOfReads DEF B
  <2>4. Takes(B, code, n)
    BY <2>2, <2>3, <1>1, TakesOne
  <2>5. QED
    BY <2>4, <1>1, <1>2, <1>5 DEF B
<1>6. CASE Ins.op = "many" /\ <<Ins, p>> \in Looped(n, e, target)
  <2>1. Ins.what = "count" /\ Ins.w \in Nat
    BY <1>1, <1>6, LoopsTake
  <2>2. PICK c \in Int : p = Ins.w + c /\ Takes(B, Copies(Ins.arg, n), c)
    BY <1>1, <1>6, LoopsTake DEF B
  <2>3. v = n
    BY <2>1, <1>2, HeldValues
  <2>4. code = Copies(Ins.arg, n)
    BY <2>3, <1>6 DEF Continues, Loop
  <2>5. QED
    BY <2>1, <2>2, <2>4, <1>2 DEF B
<1>7. CASE Ins.op = "select" /\ Ins.w = 1 /\ <<Ins, p>> \in Switched(n, e, target)
  <2>1. Ins \in Switches
    BY <1>7 DEF Switched, Switches
  <2>2. Ins.what \in {"element", "target"}
    BY <2>1, SwitchCode
  <2>3. PICK c \in Int : /\ p = 1 + c
                         /\ Ins.what = "element" => Takes(B, Ins.arg[e], c)
                         /\ Ins.what = "target" => Takes(B, Ins.arg[target], c)
    BY <1>1, <1>7, SwitchedTakes DEF B
  <2>4. code = Ins.arg[v]
    BY <1>7 DEF Continues
  <2>5. \/ Ins.what = "element" /\ v = e
        \/ Ins.what = "target" /\ v = target
    BY <2>2, <1>2, HeldValues
  <2>6. Takes(B, code, c)
    BY <2>3, <2>4, <2>5
  <2>7. QED
    BY <2>3, <2>6, <1>2, <1>7 DEF B
<1>8. Ins.op \in {"u", "keep", "test", "blob", "many", "many1", "select"}
  BY DEF Continues
<1>9. QED
  BY <1>3, <1>4, <1>5, <1>6, <1>7, <1>8

(* The next entry of the pool, or none, takes what storing one is billed.  *)
LEMMA StoresTake ==
  ASSUME NEW n, NEW e, NEW target, AsLaidOut(n, e, target), Ins.op = "store",
         NEW p, <<Ins, p>> \in Billed(n, e, target)
  PROVE  Takes(Billed(n, e, target),
               Entries(Ins.arg + (IF Wide(Ins.what) THEN 2 ELSE 1), count), p)
<1>1. n \in Nat /\ Laid(n, e, target, Billed(n, e, target))
  BY DEF AsLaidOut, Laid, Billed
<1>2. PICK i \in 1 .. n + 1 :
        Ins.what = "Utf8" /\ count = n + 2 /\ Ins.arg = i /\ p = Strings(n, i + 1)
  BY <1>1, BillsByOp DEF Billed, Simple
<1>3. Ins.arg + (IF Wide(Ins.what) THEN 2 ELSE 1) = i + 1
  BY <1>2 DEF Wide
<1>4. CASE i + 1 < n + 2
  <2>1. PICK j \in 1 .. n + 1 : j = i + 1
    BY <1>1, <1>4
  <2>2. <<Entry(j), p>> \in Pooled(n, file.poolCounts, count)
    BY <2>1, <1>2 DEF Pooled
  <2>3. <<Entry(j), p>> \in Billed(n, e, target) /\ p \in Int
    BY <2>2, <1>1, <1>2, StringsStep DEF Billed, Bills
  <2>4. Entries(i + 1, count) = <<Entry(j)>>
    BY <2>1, <1>2, <1>4 DEF Entries
  <2>5. QED
    BY <2>3, <2>4, <1>3, TakesOne
<1>5. CASE ~(i + 1 < n + 2)
  <2>1. i + 1 = n + 2
    BY <1>1, <1>5
  <2>2. p = 0 /\ Entries(i + 1, count) = <<>>
    BY <2>1, <1>1, <1>2, StringsStep DEF Entries
  <2>3. QED
    BY <2>2, <1>3, TakesNothing
<1>6. QED
  BY <1>4, <1>5

(* Only Deprecated is found to be named Deprecated. *)
LEMMA NamedDeprecated ==
  ASSUME NEW Byte, \A name \in DOMAIN AttributeParser : Spelling[name] \in Seq(Byte)
  PROVE  Named("Deprecated") \subseteq {"Deprecated"}
<1> SUFFICES ASSUME NEW name \in Named("Deprecated")
             PROVE  name = "Deprecated"
  OBVIOUS
<1>1. /\ name \in DOMAIN AttributeParser /\ "Deprecated" \in DOMAIN AttributeParser
      /\ utf8ascii_equals(Spelling["Deprecated"], Spelling[name])
  BY DEF Named, AttributeParser
<1>2. PICK s, t : s = Spelling["Deprecated"] /\ t = Spelling[name]
  OBVIOUS
<1>3. /\ s \in Seq(Byte) /\ t \in Seq(Byte) /\ WholeString(s) /\ WholeString(t)
      /\ \A i \in 1 .. Len(t) : t[i] \notin Continuation
  BY <1>1, <1>2, SpellingAssumption
<1>4. s = t
  BY <1>1, <1>2, <1>3, EqualsIsEquality
<1>5. QED
  BY <1>1, <1>2, <1>4, SpellingAssumption

(* What a call and the code after it take is the rest of the bill.         *)
LEMMA BegunTakes ==
  ASSUME FailuresNotNegative,
         NEW Byte, \A name \in DOMAIN AttributeParser : Spelling[name] \in Seq(Byte),
         NEW n, NEW e, NEW target, AsLaidOut(n, e, target), PoolNames, left \in Int,
         NEW p \in Int, <<Ins, p>> \in Billed(n, e, target), NEW code, NEW call, Begun(code, call),
         file' = file, Ins.op # "pool" => count' = count
  PROVE  /\ Billed(n, e, target) \subseteq Billed(n, e, target)'
         /\ \E y, z \in Int : /\ left' \in Int /\ p = left - left' + y + z
                              /\ Takes(Billed(n, e, target)', code, y)
                              /\ Takes(Billed(n, e, target)', call.todo, z)
<1>1. n \in Nat /\ Laid(n, e, target, Billed(n, e, target)')
  BY DEF AsLaidOut, Laid, Billed
<1> DEFINE C == Bills(n, e, target, file.poolCounts, count')
<1>2. Billed(n, e, target)' = C
  BY DEF Billed
<1>3. \A y, v : Accept(v) => /\ left' = left - Ins.w /\ v \in Held(Ins.what)
  BY AcceptedIsDelivered
<1>4. \/ Ins.op = "call" /\ <<Ins, p>> \in Called(n, e, target)
      \/ /\ Ins.op = "callN" /\ Ins.w = 2 /\ Ins.what = "count"
         /\ <<Ins, p>> \in Repeated(n)
      \/ /\ Ins.op = "attribute" /\ Ins.w = 2 /\ Ins.what = "name"
         /\ p = 2 + 4 + Attribute_Deprecated
      \/ /\ Ins.op = "pool" /\ Ins.w = 2 /\ Ins.what = "poolCount"
         /\ n + 2 \in file.poolCounts /\ p = 2 + Strings(n, 1)
      \/ /\ Ins.op = "entry" /\ Ins.w = 1 /\ Ins.what = "tag" /\ count = n + 2
         /\ \E i \in 1 .. n + 1 : Ins.arg = i /\ p = Strings(n, i)
      \/ Ins.op \notin {"call", "callN", "attribute", "pool", "entry"}
  BY <1>1, BillsByOp DEF Billed, Simple
<1> HIDE DEF C
<1>6. Billed(n, e, target) \subseteq C
  <2>1. CASE Ins.op # "pool"
    BY <2>1 DEF Billed, C
  <2>2. CASE Ins.op = "pool"
    <3>1. count' = n + 2
      <4>1. PICK v : Accept(v) /\ count' = v
        BY <2>2 DEF Begun
      <4>2. v \in file.poolCounts
        BY <4>1, <1>3, <1>4, <2>2, HeldValues
      <4>3. QED
        BY <4>1, <4>2, <1>4, <2>2 DEF AsLaidOut
    <3>2. QED
      BY <3>1, BillsGrow DEF Billed, C
  <2>3. QED
    BY <2>1, <2>2
<1>5. Takes(C, <<>>, 0)
  BY TakesNothing
<1> DEFINE goal == \E y, z \in Int : /\ left' \in Int /\ p = left - left' + y + z
                                     /\ Takes(C, code, y) /\ Takes(C, call.todo, z)
<1> SUFFICES goal
  BY <1>2, <1>6
<1>13. ASSUME NEW w \in Int, NEW z \in Int, left' = left - w, p = w + z,
              code = <<>>, Takes(C, call.todo, z)
       PROVE  goal
  <2>1. left' \in Int /\ p = left - left' + 0 + z /\ 0 \in Int
    BY <1>13
  <2>2. Takes(C, code, 0)
    BY <1>5, <1>13
  <2>3. QED
    BY <2>1, <2>2, <1>13
<1> HIDE DEF goal
<1>7. CASE Ins.op = "call"
  <2>1. Takes(C, Frame(Ins.arg, 1).todo, p)
    BY <1>1, <1>2, <1>4, <1>7, CalledTakes
  <2>2. left' = left /\ code = <<>> /\ call = Frame(Ins.arg, 1)
    BY <1>7 DEF Begun
  <2>3. left' = left - 0 /\ p = 0 + p
    BY <2>2
  <2>4. QED
    BY <2>1, <2>2, <2>3, <1>13
<1>8. CASE Ins.op = "callN"
  <2>1. PICK c \in Int : p = 2 + c /\ Takes(C, Frame(Ins.arg, n).todo, c)
    BY <1>1, <1>2, <1>4, <1>8, RepeatedTakes
  <2>2. PICK v : code = <<>> /\ Accept(v) /\ call = Frame(Ins.arg, v)
    BY <1>8 DEF Begun
  <2>3. v = n /\ left' = left - 2
    BY <2>2, <1>3, <1>4, <1>8, HeldValues
  <2>4. QED
    BY <2>1, <2>2, <2>3, <1>13
<1>9. CASE Ins.op = "attribute"
  <2>1. PICK i \in file.names :
          /\ code = <<>> /\ Accept(i) /\ ~(i = 0 \/ i >= count)
          /\ \E text \in Texts(pool[i]) \ {"crash"} : \E name \in Named(text) :
               call = Frame(AttributeParser[name], 1)
    BY <1>9 DEF Begun
  <2>2. i \in file.names \cap DOMAIN pool
    BY <2>1 DEF AsLaidOut, PoolNames
  <2>3. Texts(pool[i]) \ {"crash"} \subseteq {"Deprecated"}
    <3>1. pool[i] = NoEntry \/ pool[i] = Utf8Entry("Deprecated")
      BY <2>2 DEF PoolNames
    <3>2. CASE pool[i] = NoEntry
      BY <3>2 DEF Texts, NoEntry, Wide
    <3>3. CASE pool[i] = Utf8Entry("Deprecated")
      BY <3>3 DEF Texts, Utf8Entry, Wide
    <3>4. QED
      BY <3>1, <3>2, <3>3
  <2>4. call = Frame(AttributeParser["Deprecated"], 1)
    BY <2>1, <2>3, NamedDeprecated
  <2>5. /\ "Deprecated" \in DOMAIN AttributeParser \ OutOfStep
        /\ AttributeParser["Deprecated"] \in DOMAIN Script
        /\ AttributeLength("Deprecated", n, e, target) = Attribute_Deprecated
    BY DEF AttributeParser, OutOfStep, Script, AttributeLength
  <2>6. PICK z \in Int : z = 4 + Attribute_Deprecated
    BY DEF Attribute_Deprecated
  <2>7. Takes(C, Script[AttributeParser["Deprecated"]], z)
    BY <2>5, <2>6, <1>1, <1>2, AttributesTake
  <2>8. Takes(C, call.todo, z)
    BY <2>4, <2>5, <2>7, CalledOnce
  <2>9. left' = left - 2 /\ p = 2 + z
    BY <2>1, <2>6, <1>3, <1>4, <1>9 DEF Attribute_Deprecated
  <2>10. QED
    BY <2>1, <2>8, <2>9, <1>13
<1>10. CASE Ins.op = "pool"
  <2>1. PICK v : /\ code = <<>> /\ Accept(v) /\ count' = v
                 /\ call = ACall("parseConstantPool", Entries(1, v), 0)
    BY <1>10 DEF Begun
  <2>2. v \in file.poolCounts /\ left' = left - 2
    BY <2>1, <1>3, <1>4, <1>10, HeldValues
  <2>3. v = n + 2
    BY <2>2, <1>4, <1>10 DEF AsLaidOut
  <2>4. 1 \in 1 .. n + 1 /\ 1 < n + 2
    BY <1>1
  <2>5. PICK s \in Int : s = Strings(n, 1)
    BY <2>4, <1>1, StringsStep
  <2>6. <<Entry(1), s>> \in Pooled(n, file.poolCounts, count')
    BY <2>1, <2>3, <2>4, <2>5 DEF Pooled
  <2>7. <<Entry(1), s>> \in C
    BY <2>6 DEF C, Bills
  <2>8. call.todo = <<Entry(1)>>
    BY <2>1, <2>3, <2>4 DEF ACall, Entries
  <2>9. Takes(C, call.todo, s)
    BY <2>5, <2>7, <2>8, TakesOne
  <2>10. QED
    BY <2>1, <2>2, <2>5, <2>9, <1>4, <1>13, <1>10
<1>11. CASE Ins.op = "entry"
  <2>1. PICK tag \in DOMAIN EntryParser :
          /\ Accept(tag) /\ code = <<Store(Ins.arg, tag)>> /\ call = Frame(EntryParser[tag], 1)
    BY <1>11 DEF Begun
  <2>2. tag = "Utf8" /\ left' = left - 1
    BY <2>1, <1>3, <1>4, <1>11, HeldValues
  <2>3. PICK i \in 1 .. n + 1 : Ins.arg = i /\ p = Strings(n, i)
    BY <1>4, <1>11
  <2>4. PICK y \in Int, z \in Int : /\ y = Strings(n, i + 1) /\ z = ConstantInfo(n).Utf8
                                    /\ p = 1 + y + z
    BY <2>3, <1>1, StringsStep
  <2>5. count' = n + 2
    BY <1>4, <1>11
  <2>6. <<Store(i, "Utf8"), y>> \in Pooled(n, file.poolCounts, count')
    BY <2>4, <2>5 DEF Pooled
  <2>7. <<Store(i, "Utf8"), y>> \in C
    BY <2>6 DEF C, Bills
  <2>8. Takes(C, code, y)
    BY <2>1, <2>2, <2>3, <2>7, TakesOne
  <2>9. "Utf8" \in DOMAIN EntryParser /\ EntryParser["Utf8"] \in DOMAIN Script
    BY DEF EntryParser, Script
  <2>10. Takes(C, Script[EntryParser["Utf8"]], ConstantInfo(n)["Utf8"])
    BY <2>9, <1>1, <1>2, EntriesTake
  <2>11. Takes(C, call.todo, z)
    BY <2>1, <2>2, <2>4, <2>9, <2>10, CalledOnce
  <2>12. left' \in Int /\ p = left - left' + y + z
    BY <2>2, <2>4
  <2>13. QED
    BY <2>8, <2>11, <2>12 DEF goal
<1>12. Ins.op \in {"call", "callN", "attribute", "pool", "entry"}
  BY DEF Begun
<1>14. QED
  BY <1>7, <1>8, <1>9, <1>10, <1>11, <1>12

-----------------------------------------------------------------------------
(* The inductive invariant: the stream and the pool are as laid out, and   *)
(* while the parser is running the calls on its stack have bills for just  *)
(* the bytes in front of the trailing ones.  None is left when it is done. *)
Billing(n, e, target) ==
  /\ AsLaidOut(n, e, target) /\ PoolNames
  /\ phase \in {"parsing", "loaded"} =>
       /\ left \in Int /\ IsStack(stack)
       /\ phase = "parsing" <=> Len(stack) >= 1
       /\ Owed(Billed(n, e, target), stack, left - Trailing)

(* The file stays, and only two steps change the pool. *)
LEMMA PoolSteps ==
  ASSUME Next
  PROVE  /\ file' = file
         /\ ReadPoolCount \/ StoreEntry \/ UNCHANGED <<pool, count>>
         /\ phase # "parsing" => /\ phase' \notin {"parsing", "loaded"}
                                 /\ UNCHANGED <<pool, count>>
<1>1. file' = file
  BY DEF Next, ReadAccepted, Compute, ReadRefused, ReadStored, ReadKept, ReadTested, ReadCount,
         ReadMembers, ReadPoolCount, ReadEntry, StoreEntry, ReadVariant, ReadAttribute, SkipBytes,
         CallParser, Return, ReturnNothing, ReturnNull
<1>2. ReadPoolCount \/ StoreEntry \/ UNCHANGED <<pool, count>>
  BY DEF Next, ReadAccepted, Compute, ReadRefused, ReadStored, ReadKept, ReadTested, ReadCount,
         ReadMembers, ReadEntry, ReadVariant, ReadAttribute, SkipBytes, CallParser, Return,
         ReturnNothing, ReturnNull
<1>3. phase # "parsing" => ReturnNull
  BY DEF Next, ReadAccepted, Compute, Doing, ReadRefused, ReadStored, ReadKept, ReadTested,
         ReadCount, ReadMembers, ReadPoolCount, ReadEntry, StoreEntry, ReadVariant, ReadAttribute,
         SkipBytes, CallParser, Return, ReturnNothing
<1>4. ReturnNull => phase' \notin {"parsing", "loaded"} /\ UNCHANGED <<pool, count>>
  BY DEF ReturnNull
<1>5. QED
  BY <1>1, <1>2, <1>3, <1>4

(* The pool keeps the names of the attributes. *)
LEMMA StepPoolNames ==
  ASSUME NEW n, NEW e, NEW target, AsLaidOut(n, e, target), PoolNames, Next,
         phase = "parsing" /\ This.todo # <<>> =>
           \E p : <<Ins, p>> \in Billed(n, e, target)
  PROVE  PoolNames'
<1>1. file' = file /\ (ReadPoolCount \/ StoreEntry \/ UNCHANGED <<pool, count>>)
  BY PoolSteps
<1>2. CASE UNCHANGED <<pool, count>>
  BY <1>1, <1>2 DEF PoolNames
<1>3. CASE ReadPoolCount
  <2>1. PICK v \in file.poolCounts \cup {0} :
          count' = v /\ pool' = [i \in 1 .. v - 1 |-> NoEntry]
    BY <1>3 DEF ReadPoolCount
  <2>2. v \in Nat
    BY <2>1 DEF AsLaidOut
  <2>3. QED
    BY <2>1, <2>2 DEF PoolNames
<1>4. CASE StoreEntry
  <2>1. Ins.op = "store" /\ phase = "parsing" /\ This.todo # <<>>
    BY <1>4 DEF StoreEntry, Doing
  <2>2. PICK p : <<Ins, p>> \in Bills(n, e, target, file.poolCounts, count)
    BY <2>1 DEF Billed
  <2>3. Ins.what = "Utf8"
    BY <2>1, <2>2, BillsByOp DEF Simple, AsLaidOut
  <2>4. count' = count /\ pool' = [pool EXCEPT ![Ins.arg] = Utf8Entry("Deprecated")]
    BY <2>3, <1>4 DEF StoreEntry, AsLaidOut, Utf8Entry
  <2> DEFINE entry == Utf8Entry("Deprecated")
  <2> HIDE DEF entry
  <2>5. pool' = [pool EXCEPT ![Ins.arg] = entry] /\ entry \in {NoEntry, entry}
    BY <2>4 DEF entry
  <2>6. /\ count' \in Nat /\ DOMAIN pool' = 1 .. count' - 1
        /\ \A i \in file.names \cap DOMAIN pool' : pool'[i] \in {NoEntry, entry}
    BY <2>4, <2>5 DEF PoolNames, entry
  <2>7. QED
    BY <2>6, <1>1 DEF PoolNames, entry
<1>5. QED
  BY <1>1, <1>2, <1>3, <1>4

(* Every step keeps the bill. *)
LEMMA StepBilling ==
  ASSUME FailuresNotNegative,
         NEW Byte, \A name \in DOMAIN AttributeParser : Spelling[name] \in Seq(Byte),
         NEW n, NEW e, NEW target, Billing(n, e, target), Next
  PROVE  Billing(n, e, target)'
<1>1. /\ AsLaidOut(n, e, target) /\ PoolNames /\ file' = file
      /\ AsLaidOut(n, e, target)'
  BY PoolSteps DEF Billing, AsLaidOut
<1>2. CASE phase # "parsing"
  <2>1. phase' \notin {"parsing", "loaded"} /\ UNCHANGED <<pool, count>>
    BY <1>2, PoolSteps
  <2>2. PoolNames'
    BY <2>1, <1>1 DEF PoolNames
  <2>3. QED
    BY <2>1, <2>2, <1>1 DEF Billing
<1>3. CASE phase = "parsing"
  <2> DEFINE B == Billed(n, e, target)
  <2>1. /\ left \in Int /\ IsStack(stack) /\ Len(stack) >= 1
        /\ Owed(B, stack, left - Trailing)
    BY <1>3 DEF Billing
  <2>2. PICK l \in Nat \ {0} : Len(stack) = l
    BY <2>1 DEF Owed
  <2>3. This = stack[l]
    BY <2>2 DEF This
  <2>4. PICK t \in Int : t = Trailing
    BY SizesAssumption
  <2>5. PICK m \in Int : m = left - Trailing /\ m = left - t /\ Owed(B, stack, m)
    BY <2>1, <2>4
  <2> HIDE DEF B
  <2>6. PICK x \in Int : LastOwes(B, stack, m, l, x)
    BY <2>2, <2>5, OwedLast
  <2>7. Takes(B, This.todo, x)
    BY <2>3, <2>6 DEF LastOwes
  <2>8. count' = count => Billed(n, e, target)' = B
    BY <1>1 DEF B, Billed
  <2>9. CASE This.todo = <<>>
    <3>1. UNCHANGED <<pool, count>>
      BY <2>9, PoolSteps DEF ReadPoolCount, StoreEntry, Doing
    <3>2. PoolNames'
      BY <3>1, <1>1 DEF PoolNames
    <3>3. left' = left /\ IsStack(stack')
      BY <2>1, <2>9, <1>3, ReturnShapes
    <3>4. CASE Stops
      BY <3>2, <3>4, <1>1 DEF Stops, Billing
    <3>5. CASE /\ Len(stack') = l - 1 /\ \A k \in 1 .. l - 1 : stack'[k] = stack[k]
               /\ phase' = (IF l = 1 THEN "loaded" ELSE "parsing")
      <4>1. x = 0
        BY <2>7, <2>9, TakesFacts
      <4>2. m - x = m
        BY <4>1
      <4>3. Owed(B, stack', m)
        BY <2>6, <3>5, <4>2 DEF LastOwes
      <4>4. Owed(Billed(n, e, target)', stack', left' - Trailing)
        BY <2>5, <2>8, <3>1, <3>3, <4>3
      <4>5. phase' = "parsing" <=> Len(stack') >= 1
        BY <2>2, <3>5
      <4>6. QED
        BY <2>1, <3>2, <3>3, <4>4, <4>5, <1>1 DEF Billing
    <3>6. QED
      BY <2>1, <2>2, <2>9, <3>4, <3>5, <1>3, ReturnShapes DEF Returned
  <2>10. CASE This.todo # <<>>
    <3>1. PICK p \in Int : <<Ins, p>> \in B /\ Takes(B, Tail(This.todo), x - p)
      BY <2>7, <2>10, TakesHead DEF Ins
    <3>2. PoolNames'
      BY <3>1, <1>1, StepPoolNames DEF B
    <3>3. Ins.op # "pool" /\ Ins.op # "store" => UNCHANGED <<pool, count>>
      BY PoolSteps DEF ReadPoolCount, StoreEntry, Doing
    <3>4. Ins.op # "pool" => count' = count
      BY <3>3, PoolSteps DEF ReadPoolCount, StoreEntry, Doing
    <3>5. IsStack(stack')
      BY <2>1, <2>10, <1>3, InstructionShapes
    <3>6. CASE Stops
      BY <3>2, <3>6, <1>1 DEF Stops, Billing
    <3>7. ASSUME NEW code, NEW y \in Int, Went(code), Takes(B, code, y), phase' = "parsing",
                 left' \in Int, p = left - left' + y, Ins.op # "pool"
          PROVE  Billing(n, e, target)'
      <4>1. /\ Len(stack') = l /\ \A k \in 1 .. l - 1 : stack'[k] = stack[k]
            /\ stack'[l].todo = code \o Tail(This.todo)
        BY <2>2, <3>7 DEF Went
      <4>2. Takes(B, stack'[l].todo, y + (x - p))
        BY <3>1, <3>7, <4>1, TakesBoth
      <4>3. Owed(B, stack', m - x + (y + (x - p)))
        BY <2>6, <4>1, <4>2 DEF LastOwes
      <4>4. m - x + (y + (x - p)) = left' - Trailing
        BY <2>1, <2>4, <2>5, <3>7
      <4>5. Owed(Billed(n, e, target)', stack', left' - Trailing)
        BY <2>8, <3>4, <3>7, <4>3, <4>4 DEF B
      <4>6. Len(stack') >= 1
        BY <2>2, <4>1
      <4>7. QED
        BY <1>1, <3>2, <3>5, <3>7, <4>5, <4>6 DEF Billing
    <3>8. CASE Proceeds
      <4>1. PICK v, code : Continues(v, code) /\ Went(code) /\ phase' = "parsing"
        BY <3>8 DEF Proceeds
      <4>2. PICK c \in Int : /\ left' = left - Ins.w /\ Ins.w \in Int /\ p = Ins.w + c
                             /\ Takes(B, code, c)
        BY <3>1, <4>1, <1>1, ContinuesTakes DEF B
      <4>3. left' \in Int /\ p = left - left' + c
        BY <2>1, <4>2
      <4>4. Ins.op # "pool"
        BY <4>1 DEF Continues
      <4>5. QED
        BY <3>7, <4>1, <4>2, <4>3, <4>4
    <3>9. CASE Stores
      <4>1. PICK code : /\ code = Entries(Ins.arg + (IF Wide(Ins.what) THEN 2 ELSE 1), count)
                        /\ Went(code) /\ phase' = "parsing" /\ left' = left /\ Ins.op = "store"
        BY <3>9 DEF Stores
      <4>2. Takes(B, code, p)
        BY <3>1, <4>1, <1>1, StoresTake DEF B
      <4>3. left' \in Int /\ p = left - left' + p
        BY <2>1, <4>1
      <4>4. QED
        BY <3>7, <4>1, <4>2, <4>3
    <3>10. CASE Skips
      <4>1. Ins.op = "skip"
        BY <3>10 DEF Skips
      <4>2. Ins.op # "skip"
        BY <3>1, <1>1, BillsByOp DEF B, Billed, AsLaidOut, Simple
      <4>3. QED
        BY <4>1, <4>2
    <3>11. CASE Invokes
      <4>1. PICK code, call : Begun(code, call) /\ Entered(code, call) /\ phase' = "parsing"
        BY <3>11 DEF Invokes
      <4>2. PICK C : C = Billed(n, e, target)'
        OBVIOUS
      <4>3. /\ B \subseteq C
            /\ \E y, z \in Int : /\ left' \in Int /\ p = left - left' + y + z
                                 /\ Takes(C, code, y) /\ Takes(C, call.todo, z)
        BY <1>1, <2>1, <3>1, <3>4, <4>1, <4>2, BegunTakes DEF B
      <4>4. PICK y \in Int, z \in Int : /\ left' \in Int /\ p = left - left' + y + z
                                        /\ Takes(C, code, y) /\ Takes(C, call.todo, z)
        BY <4>3
      <4>5. /\ Len(stack') = l + 1 /\ \A k \in 1 .. l - 1 : stack'[k] = stack[k]
            /\ stack'[l].todo = code \o Tail(This.todo) /\ stack'[l + 1].todo = call.todo
        BY <2>2, <4>1 DEF Entered
      <4>6. Takes(C, Tail(This.todo), x - p)
        BY <3>1, <4>3, TakesFacts
      <4>7. Takes(C, stack'[l].todo, y + (x - p))
        BY <4>4, <4>5, <4>6, TakesBoth
      <4>8. Owed(C, stack', m - x + (y + (x - p)) + z)
        BY <2>6, <4>3, <4>4, <4>5, <4>7 DEF LastOwes
      <4>9. m - x + (y + (x - p)) + z = left' - Trailing
        <5>1. \A now, next \in Int :
                now - t = m /\ p = now - next + y + z
                => m - x + (y + (x - p)) + z = next - t
          OBVIOUS
        <5>2. PICK now \in Int, next \in Int : now = left /\ next = left'
          BY <2>1, <4>4
        <5>3. now - t = m /\ p = now - next + y + z
          BY <2>5, <4>4, <5>2, Zenon
        <5>4. m - x + (y + (x - p)) + z = next - t
          BY <5>1, <5>3, Zenon
        <5>5. QED
          BY <5>2, <5>4, <2>4, Zenon
      <4>10. Owed(Billed(n, e, target)', stack', left' - Trailing)
        BY <4>2, <4>8, <4>9
      <4>11. Len(stack') >= 1
        BY <2>2, <4>5
      <4>12. QED
        BY <1>1, <3>2, <3>5, <4>1, <4>4, <4>10, <4>11 DEF Billing
    <3>12. QED
      BY <2>1, <2>10, <3>6, <3>8, <3>9, <3>10, <3>11, <1>3, InstructionShapes
  <2>11. QED
    BY <2>9, <2>10
<1>4. QED
  BY <1>2, <1>3

-----------------------------------------------------------------------------
(* A stack of which only the last call has something to do. *)
LEMMA FreshStack ==
  ASSUME NEW B, NEW call, IsCall(call), NEW m, Takes(B, call.todo, m),
         NEW l \in 1 .. 3, NEW st, Len(st) = l, IsStack(st), st[l] = call,
         \A k \in 1 .. l - 1 : st[k].todo = <<>>
  PROVE  Owed(B, st, m)
<1>1. m \in Int /\ m - 0 = m /\ m - m = 0
  BY TakesFacts
<1>2. PICK r : r = [k \in 1 .. l + 1 |-> IF k <= l THEN m ELSE 0]
  OBVIOUS
<1>3. r \in [1 .. l + 1 -> Int] /\ r[1] = m /\ r[l + 1] = 0
  BY <1>1, <1>2
<1>4. ASSUME NEW k \in 1 .. l
      PROVE  Takes(B, st[k].todo, r[k] - r[k + 1])
  <2>1. CASE k = l
    <3>1. r[k] = m /\ r[k + 1] = 0
      BY <1>2, <2>1
    <3>2. QED
      BY <2>1, <3>1, <1>1
  <2>2. CASE k \in 1 .. l - 1
    <3>1. r[k] = m /\ r[k + 1] = m
      BY <1>2, <2>2
    <3>2. Takes(B, st[k].todo, 0)
      BY <2>2, TakesNothing
    <3>3. QED
      BY <3>1, <3>2, <1>1
  <2>3. QED
    BY <2>1, <2>2
<1>5. QED
  BY <1>3, <1>4 DEF Owed

(* One, two and three calls of that kind. *)
LEMMA FreshStacks ==
  ASSUME NEW B, NEW a, NEW m, IsCall(a), Takes(B, a.todo, m),
         NEW b, IsCall(b), b.todo = <<>>, NEW c, IsCall(c), c.todo = <<>>,
         NEW st, st = <<a>> \/ st = <<b, a>> \/ st = <<c, b, a>>
  PROVE  IsStack(st) /\ Len(st) >= 1 /\ Owed(B, st, m)
<1>1. CASE st = <<a>>
  <2>1. st \in Seq({a}) /\ Len(st) = 1 /\ st[1] = a
    BY <1>1
  <2>2. IsStack(st)
    BY <2>1, OwnElements DEF IsStack
  <2>3. \A k \in 1 .. 1 - 1 : st[k].todo = <<>>
    OBVIOUS
  <2>4. QED
    BY <2>1, <2>2, <2>3, FreshStack
<1>2. CASE st = <<b, a>>
  <2>1. st \in Seq({a, b}) /\ Len(st) = 2 /\ st[1] = b /\ st[2] = a
    BY <1>2
  <2>2. IsStack(st)
    BY <2>1, OwnElements DEF IsStack
  <2>3. \A k \in 1 .. 2 - 1 : st[k].todo = <<>>
    BY <2>1
  <2>4. QED
    BY <2>1, <2>2, <2>3, FreshStack
<1>3. CASE st = <<c, b, a>>
  <2>1. st \in Seq({a, b, c}) /\ Len(st) = 3 /\ st[1] = c /\ st[2] = b /\ st[3] = a
    BY <1>3
  <2>2. \A k \in 1 .. 3 : k = 1 \/ k = 2 \/ k = 3
    OBVIOUS
  <2>3. IsStack(st)
    BY <2>1, <2>2, OwnElements DEF IsStack
  <2>4. \A k \in 1 .. 3 - 1 : st[k].todo = <<>>
    BY <2>1, <2>2
  <2>5. QED
    BY <2>1, <2>3, <2>4, FreshStack
<1>4. QED
  BY <1>1, <1>2, <1>3

(* The calls a stack is made of at the start. *)
LEMMA FreshCalls ==
  ASSUME NEW fn \in DOMAIN Script, NEW fn1, NEW kept
  PROVE  /\ IsCall(Frame(fn, 1)) /\ Frame(fn, 1).todo = Script[fn]
         /\ IsCall(Done(fn1, kept)) /\ Done(fn1, kept).todo = <<>>
<1>1. IsCall(Frame(fn, 1)) /\ Frame(fn, 1).todo = Script[fn]
  BY CalledOnce, NewCallsAreCalls
<1>2. \A todo : LET f == [fn |-> fn1, todo |-> todo, keep |-> kept] IN IsCall(f) /\ f.todo = todo
  BY DEF IsCall
<1>3. PICK none : none = <<>>
  OBVIOUS
<1>4. Done(fn1, kept) = [fn |-> fn1, todo |-> none, keep |-> kept]
  BY <1>3 DEF Done
<1>5. QED
  BY <1>1, <1>2, <1>3, <1>4

(* The stack in front of each thing takes the bytes of that thing. *)
LEMMA StacksTake ==
  ASSUME NEW n, NEW e, NEW target, NEW B, Laid(n, e, target, B),
         NEW kind \in ReadInFull,
         kind = "ClassFile" => <<Pool, 2 + Strings(n, 1)>> \in B
  PROVE  /\ IsStack(StackFor(kind)) /\ Len(StackFor(kind)) >= 1
         /\ Owed(B, StackFor(kind), Size(kind, n, e, target))
<1>1. /\ \A other \in {"FieldInfo", "MethodInfo", "ClassFile"} :
           other \notin DOMAIN AttributeParser /\ other \notin DOMAIN EntryParser
      /\ DOMAIN AttributeParser \cap DOMAIN EntryParser = {}
  BY DEF AttributeParser, EntryParser
<1>2. CASE kind \in DOMAIN AttributeParser \ OutOfStep
  <2>1. AttributeParser[kind] \in DOMAIN Script
    BY <1>2, MemberNames DEF Members
  <2>2. /\ kind \in DOMAIN AttributeParser /\ kind \notin DOMAIN EntryParser
        /\ kind # "FieldInfo" /\ kind # "MethodInfo" /\ kind # "ClassFile"
    BY <1>2, <1>1
  <2>3. Size(kind, n, e, target) = 4 + AttributeLength(kind, n, e, target)
    BY <2>2 DEF Size
  <2>4. Takes(B, Script[AttributeParser[kind]], Size(kind, n, e, target))
    BY <1>2, <2>3, AttributesTake
  <2>5. StackFor(kind) = <<Done("LoadClassFile", 0), Done("parseAttributes", 1),
                           Frame(AttributeParser[kind], 1)>>
    BY <2>2 DEF StackFor
  <2>6. PICK a, b, c : /\ a = Frame(AttributeParser[kind], 1) /\ b = Done("parseAttributes", 1)
                       /\ c = Done("LoadClassFile", 0)
    OBVIOUS
  <2>7. QED
    BY <2>1, <2>4, <2>5, <2>6, FreshCalls, FreshStacks
<1>3. CASE kind \in DOMAIN EntryParser
  <2>1. EntryParser[kind] \in DOMAIN Script
    BY <1>3, ParserNames DEF PoolParsers
  <2>2. /\ kind \notin DOMAIN AttributeParser
        /\ kind # "FieldInfo" /\ kind # "MethodInfo" /\ kind # "ClassFile"
    BY <1>3, <1>1
  <2>3. Size(kind, n, e, target) = ConstantInfo(n)[kind]
    BY <1>3, <2>2 DEF Size
  <2>4. Takes(B, Script[EntryParser[kind]], Size(kind, n, e, target))
    BY <1>3, <2>3, EntriesTake
  <2>5. StackFor(kind) = <<Done("LoadClassFile", 0), Done("parseConstantPool", 0),
                           Frame(EntryParser[kind], 1)>>
    BY <1>3, <2>2 DEF StackFor
  <2>6. PICK a, b, c : /\ a = Frame(EntryParser[kind], 1) /\ b = Done("parseConstantPool", 0)
                       /\ c = Done("LoadClassFile", 0)
    OBVIOUS
  <2>7. QED
    BY <2>1, <2>4, <2>5, <2>6, FreshCalls, FreshStacks
<1>4. /\ {"LoadClassFile", "parseFields", "parseMethods"} \subseteq DOMAIN Script
      /\ Script["LoadClassFile"] = LoadClassFile
      /\ Script["parseFields"] = parseFields /\ Script["parseMethods"] = parseMethods
  BY DEF Script
<1>5. CASE kind = "FieldInfo"
  <2>1. Size(kind, n, e, target) = FieldInfo(n)
    BY <1>1, <1>5 DEF Size
  <2>2. StackFor(kind) = <<Done("LoadClassFile", 0), Frame("parseFields", 1)>>
    BY <1>1, <1>5 DEF StackFor
  <2>3. PICK a, b : a = Frame("parseFields", 1) /\ b = Done("LoadClassFile", 0)
    OBVIOUS
  <2>4. Takes(B, Script["parseFields"], FieldInfo(n))
    BY <1>4, FunctionsTake
  <2>5. QED
    BY <2>1, <2>2, <2>3, <2>4, <1>4, FreshCalls, FreshStacks
<1>6. CASE kind = "MethodInfo"
  <2>1. Size(kind, n, e, target) = MethodInfo(n)
    BY <1>1, <1>6 DEF Size
  <2>2. StackFor(kind) = <<Done("LoadClassFile", 0), Frame("parseMethods", 1)>>
    BY <1>1, <1>6 DEF StackFor
  <2>3. PICK a, b : a = Frame("parseMethods", 1) /\ b = Done("LoadClassFile", 0)
    OBVIOUS
  <2>4. Takes(B, Script["parseMethods"], MethodInfo(n))
    BY <1>4, FunctionsTake
  <2>5. QED
    BY <2>1, <2>2, <2>3, <2>4, <1>4, FreshCalls, FreshStacks
<1>7. CASE kind = "ClassFile"
  <2>1. Size(kind, n, e, target) = ClassFile(n)
    BY <1>1, <1>7 DEF Size
  <2>2. StackFor(kind) = <<Frame("LoadClassFile", 1)>>
    BY <1>1, <1>7 DEF StackFor
  <2>3. PICK a, b : a = Frame("LoadClassFile", 1) /\ b = Done("LoadClassFile", 0)
    OBVIOUS
  <2>4. Takes(B, Script["LoadClassFile"], ClassFile(n))
    BY <1>4, <1>7, ClassTakes
  <2>5. QED
    BY <2>1, <2>2, <2>3, <2>4, <1>4, FreshCalls, FreshStacks
<1>8. QED
  BY <1>2, <1>3, <1>5, <1>6, <1>7 DEF ReadInFull

(* Whatever was started. *)
SyncInv == \E n, e, target : Billing(n, e, target)

(* At the start the calls take what the thing that is parsed takes. *)
LEMMA StartBilling ==
  ASSUME SyncInit, Kinds \subseteq ReadInFull
  PROVE  SyncInv
<1> DEFINE Started(kind, n, e, target, name) ==
      /\ file = [bytes |-> Size(kind, n, e, target) + Trailing,
                 poolCounts |-> {IF kind = "ClassFile" THEN n + 2 ELSE 3},
                 counts |-> {n}, lengths |-> {Size(kind, n, e, target) - 4},
                 tags |-> {"Utf8"}, texts |-> {"Deprecated"},
                 names |-> {IF kind = "ClassFile" THEN 1 ELSE 2},
                 elements |-> {e}, targets |-> {target}, bad |-> FALSE]
      /\ left = file.bytes
      /\ stack = StackFor(kind)
      /\ pool = IF kind = "ClassFile" THEN <<>>
                ELSE <<Utf8Entry(name), Utf8Entry("Deprecated")>>
      /\ count = Len(pool) + (IF kind = "ClassFile" THEN 0 ELSE 1)
      /\ phase = "parsing"
      /\ short = FALSE
<1>1. PICK kind \in Kinds, n \in Sizes, e \in ElementKinds, target \in TargetKinds :
        \E name : Started(kind, n, e, target, name)
  <2>1. \E kind \in Kinds, n \in Sizes, e \in ElementKinds, target \in TargetKinds :
          Started(kind, n, e, target,
                  IF kind \in DOMAIN AttributeParser THEN kind ELSE "Deprecated")
    BY Zenon DEF SyncInit, ElementKinds, TargetKinds
  <2> HIDE DEF Started
  <2>2. QED
    BY <2>1
<1>2. PICK name : Started(kind, n, e, target, name)
  BY <1>1
<1>3. n \in Nat /\ Trailing \in Int /\ kind \in ReadInFull
  BY SizesAssumption
<1>4. PICK c \in Nat, i \in Nat : /\ c = (IF kind = "ClassFile" THEN n + 2 ELSE 3)
                                  /\ i = (IF kind = "ClassFile" THEN 1 ELSE 2)
  BY <1>3
<1>5. /\ file.counts = {n} /\ file.elements = {e} /\ file.targets = {target}
      /\ file.tags = {"Utf8"} /\ file.texts = {"Deprecated"} /\ file.names = {i}
      /\ file.poolCounts = {c} /\ file.bad = FALSE
      /\ left = Size(kind, n, e, target) + Trailing
  BY <1>2, <1>4
<1>6. AsLaidOut(n, e, target)
  BY <1>3, <1>4, <1>5 DEF AsLaidOut
<1>7. PoolNames
  <2>1. CASE kind = "ClassFile"
    <3>1. pool = <<>> /\ Len(pool) = 0 /\ count = 0 /\ DOMAIN pool = {}
      BY <1>2, <2>1
    <3>2. 1 .. 0 - 1 = {}
      OBVIOUS
    <3>3. QED
      BY <3>1, <3>2 DEF PoolNames
  <2>2. CASE kind # "ClassFile"
    <3>1. PICK first, second : first = Utf8Entry(name) /\ second = Utf8Entry("Deprecated")
      OBVIOUS
    <3>2. pool = <<first, second>> /\ count = Len(pool) + 1 /\ i = 2
      BY <1>2, <1>4, <2>2, <3>1
    <3>3. count = 3 /\ DOMAIN pool = 1 .. 2 /\ pool[2] = second
      BY <3>2
    <3>4. QED
      BY <1>5, <3>1, <3>2, <3>3 DEF PoolNames
  <2>3. QED
    BY <2>1, <2>2
<1>8. PICK B : B = Billed(n, e, target)
  OBVIOUS
<1>9. Laid(n, e, target, B)
  BY <1>2, <1>3, <1>8 DEF Laid, Billed
<1>10. kind = "ClassFile" => <<Pool, 2 + Strings(n, 1)>> \in B
  BY <1>4, <1>5, <1>8 DEF Billed, Bills, Pooled
<1>11. /\ IsStack(stack) /\ Len(stack) >= 1
       /\ Owed(B, stack, Size(kind, n, e, target))
  BY <1>2, <1>3, <1>9, <1>10, StacksTake
<1>12. PICK m : m = Size(kind, n, e, target) /\ Owed(B, stack, m)
  BY <1>11
<1>13. m \in Int
  <2>1. Len(stack) \in Nat
    BY <1>12 DEF Owed
  <2>2. 1 \in 1 .. Len(stack) + 1
    BY <2>1
  <2>3. QED
    BY <1>12, <2>2 DEF Owed
<1>14. left \in Int /\ left - Trailing = m
  BY <1>3, <1>5, <1>12, <1>13
<1>15. Owed(Billed(n, e, target), stack, left - Trailing)
  BY <1>8, <1>12, <1>14
<1>16. QED
  BY <1>2, <1>6, <1>7, <1>11, <1>14, <1>15 DEF SyncInv, Billing

(* A stuttering step changes nothing that is billed. *)
LEMMA StutterBilling ==
  ASSUME NEW n, NEW e, NEW target, Billing(n, e, target), UNCHANGED vars
  PROVE  Billing(n, e, target)'
<1>1. /\ stack' = stack /\ phase' = phase /\ pool' = pool /\ count' = count
      /\ left' = left /\ file' = file
  BY DEF vars
<1>2. AsLaidOut(n, e, target)' /\ PoolNames'
  BY <1>1 DEF Billing, AsLaidOut, PoolNames
<1>3. Billed(n, e, target)' = Billed(n, e, target)
  BY <1>1 DEF Billed
<1>4. QED
  BY <1>1, <1>2, <1>3 DEF Billing

(* Where nothing is left to do, nothing but the trailing bytes is left. *)
LEMMA BillingInSync ==
  ASSUME NEW n, NEW e, NEW target, Billing(n, e, target)
  PROVE  InSync
<1> SUFFICES ASSUME phase = "loaded" PROVE left = Trailing
  BY DEF InSync
<1>1. left \in Int /\ ~(Len(stack) >= 1) /\ Owed(Billed(n, e, target), stack, left - Trailing)
  BY DEF Billing
<1>2. PICK s : s[1] = left - Trailing /\ s[Len(stack) + 1] = 0 /\ Len(stack) \in Nat
  BY <1>1 DEF Owed
<1>3. Len(stack) + 1 = 1
  BY <1>1, <1>2
<1>4. left - Trailing = 0
  BY <1>2, <1>3
<1>5. QED
  BY <1>1, <1>4, SizesAssumption

(* Parsers that follow the layout stay in step with the stream: a loader   *)
(* that was started at an attribute, an entry of the pool, a member or a   *)
(* class, of any number of elements, and has accepted it, has read it to   *)
(* its end and not a byte of what follows.  Left out are the four          *)
(* attributes whose loops or skips are not what attribute_length says.  A  *)
(* failed read returns no negative number; texts are made of bytes.        *)
THEOREM AttributesInSync ==
  ASSUME FailuresNotNegative, Kinds \subseteq ReadInFull,
         NEW CONSTANT Byte,
         \A name \in DOMAIN AttributeParser : Spelling[name] \in Seq(Byte)
  PROVE  SyncSpec => []InSync
<1>1. SyncInit => SyncInv
  BY StartBilling
<1>2. SyncInv /\ [Next]_vars => SyncInv'
  <2>1. SUFFICES ASSUME SyncInv, [Next]_vars PROVE SyncInv'
    OBVIOUS
  <2>2. PICK n, e, target : Billing(n, e, target)
    BY <2>1 DEF SyncInv
  <2>3. Billing(n, e, target)'
    BY <2>1, <2>2, StepBilling, StutterBilling
  <2>4. QED
    BY <2>3 DEF SyncInv
<1>3. SyncInv => InSync
  BY BillingInSync DEF SyncInv
<1>4. QED
  BY <1>1, <1>2, <1>3, PTL DEF SyncSpec
=============================================================================
