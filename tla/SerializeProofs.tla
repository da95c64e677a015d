-------------------------- MODULE SerializeProofs --------------------------
(***************************************************************************)
(* Proofs about serialize.c: for any Lua values, nested in any way, for    *)
(* blocks and bytes of any size, what is packed is unpacked unchanged, the *)
(* chain is freed block by block, and exactly what cannot travel is        *)
(* refused.                                                                *)
(***************************************************************************)
EXTENDS Serialize, FiniteSetTheorems, SequenceTheorems, WellFoundedInduction, TLAPS

-----------------------------------------------------------------------------
(* Induction over the natural numbers, and the functions defined by it      *)

\* A set with 0 and with the successor of each of its numbers has them all.
LEMMA Induction ==
  ASSUME NEW S, 0 \in S, \A n \in Nat : n \in S => n + 1 \in S
  PROVE  Nat \subseteq S
<1> DEFINE Rest == Nat \ S
           R == {p \in Nat \X Nat : p[1] < p[2]}
<1>1. SUFFICES ASSUME Rest # {} PROVE FALSE
  OBVIOUS
<1>2. IsWellFoundedOn(R, Nat)
  BY NatLessThanWellFounded DEF OpToRel
<1>3. PICK x \in Rest : \A y \in Rest : ~ (<<y, x>> \in R)
  <2> HIDE DEF R
  <2> QED
    BY <1>1, <1>2, WFMin
<1>4. x # 0 /\ x \in Nat /\ x - 1 \in Nat /\ <<x - 1, x>> \in R
  OBVIOUS
<1>5. x - 1 \in S
  BY <1>3, <1>4
<1>6. x - 1 + 1 = x
  BY <1>4
<1> QED
  BY <1>3, <1>4, <1>5, <1>6

\* f begins with x, and G makes each value from the one before it.
Steps(f, n, x, G) == f = [i \in 0 .. n |-> IF i = 0 THEN x ELSE G[i][f[i - 1]]]

LEMMA StepsExist ==
  ASSUME NEW T, NEW x \in T, NEW G \in [Nat -> [T -> T]], NEW n \in Nat
  PROVE  \E f \in [0 .. n -> T] : Steps(f, n, x, G)
<1> DEFINE S == {m \in Nat : \E f \in [0 .. m -> T] : Steps(f, m, x, G)}
<1>1. 0 \in S
  <2> DEFINE f == [i \in 0 .. 0 |-> x]
  <2>1. f \in [0 .. 0 -> T] /\ Steps(f, 0, x, G)
    BY DEF Steps
  <2> HIDE DEF f
  <2> QED
    BY <2>1
<1>2. ASSUME NEW m \in Nat, m \in S PROVE m + 1 \in S
  <2>1. PICK f \in [0 .. m -> T] : Steps(f, m, x, G)
    BY <1>2
  <2> DEFINE g == [i \in 0 .. m + 1 |-> IF i = 0 THEN x ELSE G[i][f[i - 1]]]
  <2>2. \A i \in 1 .. m + 1 : i - 1 \in 0 .. m /\ i \in Nat
    OBVIOUS
  <2>3. \A i \in 1 .. m + 1 : G[i][f[i - 1]] \in T
    BY <2>1, <2>2
  <2>4. \A i \in 0 .. m + 1 : i = 0 \/ i \in 1 .. m + 1
    OBVIOUS
  <2>5. g \in [0 .. m + 1 -> T]
    BY <2>3, <2>4
  <2>6. \A i \in 0 .. m : f[i] = g[i]
    BY <2>1 DEF Steps
  <2>7. Steps(g, m + 1, x, G)
    BY <2>2, <2>4, <2>6 DEF Steps
  <2> HIDE DEF g
  <2> QED
    BY <2>5, <2>7
<1> HIDE DEF S
<1>3. n \in S
  BY <1>1, <1>2, Induction
<1> QED
  BY <1>3 DEF S

-----------------------------------------------------------------------------
(* Integers and their bytes                                                 *)

LEMMA Bases == Base \in Nat /\ Base >= 2 /\ \E h \in Nat : Base = 2 * h
<1>1. Base \in Nat /\ Base >= 2 /\ Base % 2 = 0
  BY BytesAreSigned
<1>2. Base \div 2 \in Nat /\ Base = 2 * (Base \div 2)
  BY <1>1
<1> QED
  BY <1>1, <1>2

LEMMA DivMod ==
  ASSUME NEW x \in Int, NEW b \in Nat, b > 0
  PROVE  /\ x \div b \in Int /\ x % b \in 0 .. b - 1
         /\ x = (x % b) + b * (x \div b)
OBVIOUS

LEMMA Split ==
  ASSUME NEW x \in Int
  PROVE  /\ x \div Base \in Int /\ x % Base \in 0 .. Base - 1
         /\ x = (x % Base) + Base * (x \div Base)
<1>1. Base \in Nat /\ Base > 0
  BY Bases
<1> QED
  BY <1>1, DivMod

LEMMA PowerIs ==
  /\ Power \in [0 .. 8 -> Int] /\ Power[0] = 1
  /\ \A i \in 1 .. 8 : Power[i] = Base * Power[i - 1]
<1> DEFINE Is(f) == f = [n \in 0 .. 8 |-> IF n = 0 THEN 1 ELSE Base * f[n - 1]]
           G == [i \in Nat |-> [y \in Int |-> Base * y]]
<1>1. G \in [Nat -> [Int -> Int]]
  BY Bases
<1>2. PICK f \in [0 .. 8 -> Int] : Steps(f, 8, 1, G)
  <2>1. 8 \in Nat /\ 1 \in Int
    OBVIOUS
  <2> HIDE DEF G
  <2> QED
    BY <1>1, <2>1, StepsExist, Zenon
<1>3. Is(f)
  <2>1. \A i \in 1 .. 8 : f[i - 1] \in Int /\ i \in Nat
    OBVIOUS
  <2> QED
    BY <1>2, <2>1 DEF Steps
<1>4. Power = CHOOSE g : Is(g)
  BY DEF Power
<1>5. Is(Power)
  <2> HIDE DEF Is
  <2> QED
    BY <1>3, <1>4
<1> DEFINE S == {n \in Nat : n \in 0 .. 8 => Power[n] \in Int}
<1>6. \A i \in 0 .. 8 : Power[i] = IF i = 0 THEN 1 ELSE Base * Power[i - 1]
  BY <1>5
<1>7. Nat \subseteq S
  <2>1. 0 \in S
    BY <1>6
  <2>2. ASSUME NEW n \in Nat, n \in S PROVE n + 1 \in S
    <3>1. SUFFICES ASSUME n + 1 \in 0 .. 8 PROVE Power[n + 1] \in Int
      OBVIOUS
    <3>2. n \in 0 .. 8 /\ n + 1 # 0 /\ n + 1 - 1 = n
      BY <3>1
    <3>3. Power[n + 1] = Base * Power[n]
      BY <1>6, <3>1, <3>2
    <3> QED
      BY <2>2, <3>2, <3>3, Bases
  <2> HIDE DEF S
  <2> QED
    BY <2>1, <2>2, Induction
<1>8. Power \in [0 .. 8 -> Int]
  <2>1. \A i \in 0 .. 8 : Power[i] \in Int
    BY <1>7
  <2>2. Power = [i \in 0 .. 8 |-> Power[i]]
    BY <1>5
  <2> QED
    BY <2>1, <2>2, Zenon
<1> QED
  BY <1>6, <1>8

\* rest[i] is what is left of v behind i of its n bytes.
Rests(rest, v, n) ==
  /\ rest \in [0 .. n -> Int]
  /\ rest[0] = v
  /\ \A i \in 1 .. n : rest[i] = rest[i - 1] \div Base
  /\ IntBytes(v, n) = [i \in 1 .. n |-> Byte(rest[i - 1] % Base)]

LEMMA RestIs ==
  ASSUME NEW v \in Int, NEW n \in Nat
  PROVE  \E rest : Rests(rest, v, n)
<1> DEFINE rest[i \in 0 .. n] == IF i = 0 THEN v ELSE rest[i - 1] \div Base
           Is(f) == f = [i \in 0 .. n |-> IF i = 0 THEN v ELSE f[i - 1] \div Base]
           G == [i \in Nat |-> [y \in Int |-> y \div Base]]
<1>1. G \in [Nat -> [Int -> Int]]
  BY Bases
<1>2. PICK f \in [0 .. n -> Int] : Steps(f, n, v, G)
  <2> HIDE DEF G
  <2> QED
    BY <1>1, StepsExist
<1>3. Is(f)
  <2>1. \A i \in 1 .. n : f[i - 1] \in Int /\ i \in Nat
    OBVIOUS
  <2>2. \A i \in 1 .. n : G[i][f[i - 1]] = f[i - 1] \div Base
    BY <2>1
  <2>3. \A i \in 0 .. n : i = 0 \/ i \in 1 .. n
    OBVIOUS
  <2> HIDE DEF G
  <2> QED
    BY <1>2, <2>2, <2>3 DEF Steps
<1>4. rest = CHOOSE g : Is(g)
  BY DEF rest
<1>5. IntBytes(v, n) = [i \in 1 .. n |-> Byte(rest[i - 1] % Base)]
  BY DEF IntBytes
<1> HIDE DEF rest
<1>6. Is(rest)
  <2> HIDE DEF Is
  <2> QED
    BY <1>3, <1>4
<1> DEFINE S == {i \in Nat : i \in 0 .. n => rest[i] \in Int}
<1>7. \A i \in 0 .. n : rest[i] = IF i = 0 THEN v ELSE rest[i - 1] \div Base
  BY <1>6
<1>8. Nat \subseteq S
  <2>1. 0 \in S
    BY <1>7
  <2>2. ASSUME NEW i \in Nat, i \in S PROVE i + 1 \in S
    <3>1. SUFFICES ASSUME i + 1 \in 0 .. n PROVE rest[i + 1] \in Int
      OBVIOUS
    <3>2. i \in 0 .. n /\ i + 1 # 0 /\ i + 1 - 1 = i
      BY <3>1
    <3>3. rest[i + 1] = rest[i] \div Base
      BY <1>7, <3>1, <3>2
    <3>4. rest[i] \in Int /\ Base \in Nat /\ Base > 0
      BY <2>2, <3>2, Bases
    <3>5. rest[i] \div Base \in Int
      BY <3>4, DivMod
    <3> QED
      BY <3>3, <3>5
  <2> HIDE DEF S
  <2> QED
    BY <2>1, <2>2, Induction
<1>9. rest \in [0 .. n -> Int]
  <2>1. \A i \in 0 .. n : rest[i] \in Int
    BY <1>8
  <2>2. rest = [i \in 0 .. n |-> rest[i]]
    BY <1>6
  <2> QED
    BY <2>1, <2>2, Zenon
<1>10. 0 \in 0 .. n /\ \A i \in 1 .. n : i \in 0 .. n /\ i # 0
  OBVIOUS
<1>11. rest[0] = v /\ \A i \in 1 .. n : rest[i] = rest[i - 1] \div Base
  BY <1>7, <1>10
<1> QED
  BY <1>5, <1>9, <1>11, Zenon DEF Rests

\* The value of bytes, from the highest down.
LEMMA NumberIs ==
  ASSUME NEW s, Len(s) \in Nat, \A i \in 1 .. Len(s) : s[i].a \in Int, NEW sign \in Int
  PROVE  \E top \in [0 .. Len(s) -> Int] :
            /\ top[0] = sign
            /\ \A i \in 1 .. Len(s) : top[i] = s[Len(s) + 1 - i].a + Base * top[i - 1]
            /\ Number(s, sign) = top[Len(s)]
<1> DEFINE n == Len(s)
           top[i \in 0 .. n] == IF i = 0 THEN sign ELSE s[n + 1 - i].a + Base * top[i - 1]
           Is(f) == f = [i \in 0 .. n |-> IF i = 0 THEN sign ELSE s[n + 1 - i].a + Base * f[i - 1]]
           byte(i) == IF i \in 1 .. n THEN s[n + 1 - i].a ELSE 0
           G == [i \in Nat |-> [y \in Int |-> byte(i) + Base * y]]
<1>0. n \in Nat /\ \A i \in 1 .. n : s[n + 1 - i].a \in Int
  <2>1. n \in Nat /\ \A i \in 1 .. n : s[i].a \in Int
    OBVIOUS
  <2> HIDE DEF n
  <2>2. \A i \in 1 .. n : n + 1 - i \in 1 .. n
    BY <2>1
  <2> QED
    BY <2>1, <2>2
<1>1. G \in [Nat -> [Int -> Int]]
  <2>1. \A i \in Nat : byte(i) \in Int
    BY <1>0
  <2> HIDE DEF byte
  <2> QED
    BY <2>1, Bases
<1>2. PICK f \in [0 .. n -> Int] : Steps(f, n, sign, G)
  <2> HIDE DEF G, n
  <2> QED
    BY <1>0, <1>1, StepsExist
<1>3. Is(f)
  <2>1. \A i \in 1 .. n : f[i - 1] \in Int /\ i \in Nat /\ byte(i) = s[n + 1 - i].a
    <3> HIDE DEF n
    <3> QED
      BY <1>0
  <2>2. \A i \in 1 .. n : G[i][f[i - 1]] = s[n + 1 - i].a + Base * f[i - 1]
    <3> HIDE DEF byte
    <3> QED
      BY <2>1
  <2>3. \A i \in 0 .. n : i = 0 \/ i \in 1 .. n
    BY <1>0
  <2> HIDE DEF G, byte, n
  <2> QED
    BY <1>2, <2>2, <2>3 DEF Steps
<1>4. top = CHOOSE g : Is(g)
  BY DEF top
<1>5. Number(s, sign) = top[n]
  BY DEF Number
<1> HIDE DEF top
<1>6. Is(top)
  <2> HIDE DEF Is
  <2> QED
    BY <1>3, <1>4
<1> HIDE DEF n
<1> DEFINE S == {i \in Nat : i \in 0 .. n => top[i] \in Int}
<1>7. \A i \in 0 .. n : top[i] = IF i = 0 THEN sign ELSE s[n + 1 - i].a + Base * top[i - 1]
  BY <1>6
<1>8. Nat \subseteq S
  <2>1. 0 \in S
    BY <1>0, <1>7
  <2>2. ASSUME NEW i \in Nat, i \in S PROVE i + 1 \in S
    <3>1. SUFFICES ASSUME i + 1 \in 0 .. n PROVE top[i + 1] \in Int
      OBVIOUS
    <3>2. i \in 0 .. n /\ i + 1 \in 1 .. n /\ i + 1 # 0 /\ i + 1 - 1 = i
      BY <1>0, <3>1
    <3>3. top[i + 1] = s[n + 1 - (i + 1)].a + Base * top[i]
      BY <1>7, <3>1, <3>2
    <3>4. s[n + 1 - (i + 1)].a \in Int
      BY <1>0, <3>2
    <3> QED
      BY <2>2, <3>2, <3>3, <3>4, Bases
  <2> HIDE DEF S
  <2> QED
    BY <2>1, <2>2, Induction
<1>9. top \in [0 .. n -> Int]
  <2>1. \A i \in 0 .. n : top[i] \in Int
    BY <1>0, <1>8
  <2>2. top = [i \in 0 .. n |-> top[i]]
    BY <1>6
  <2> QED
    BY <2>1, <2>2, Zenon
<1>10. \A i \in 1 .. n : i \in 0 .. n /\ i # 0
  BY <1>0
<1>11. 0 \in 0 .. n
  BY <1>0
<1> QED
  BY <1>5, <1>7, <1>9, <1>10, <1>11 DEF n

\* Bytes behind which the rest of the integer is the sign give the integer back.
LEMMA NumberOfBytes ==
  ASSUME NEW v \in Int, NEW n \in Nat, NEW rest, Rests(rest, v, n)
  PROVE  Number(IntBytes(v, n), rest[n]) = v
<1> DEFINE s == IntBytes(v, n)
<1> USE DEF Rests
<1>1. Len(s) = n
  OBVIOUS
<1>2. \A i \in 1 .. n : s[i].a = rest[i - 1] % Base
  BY DEF Byte
<1>3. \A i \in 1 .. n : rest[i - 1] \in Int /\ rest[i] \in Int
  OBVIOUS
<1>4. \A i \in 1 .. n : s[i].a \in Int /\ rest[i - 1] = s[i].a + Base * rest[i]
  <2>1. ASSUME NEW x \in Int PROVE x % Base \in Int /\ x = (x % Base) + Base * (x \div Base)
    BY Split, Bases
  <2>2. TAKE i \in 1 .. n
  <2>3. rest[i - 1] \in Int /\ s[i].a = rest[i - 1] % Base
    BY <1>2, <1>3, Zenon
  <2>4. rest[i] = rest[i - 1] \div Base
    OBVIOUS
  <2> QED
    BY <2>1, <2>3, <2>4, Zenon
<1>5. rest[n] \in Int
  OBVIOUS
<1> HIDE DEF s
<1>6. PICK top \in [0 .. n -> Int] :
         /\ top[0] = rest[n]
         /\ \A i \in 1 .. n : top[i] = s[n + 1 - i].a + Base * top[i - 1]
         /\ Number(s, rest[n]) = top[n]
  BY <1>1, <1>4, <1>5, NumberIs
<1> DEFINE S == {i \in Nat : i \in 0 .. n => top[i] = rest[n - i]}
<1>7. 0 \in S
  BY <1>6
<1>8. ASSUME NEW i \in Nat, i \in S PROVE i + 1 \in S
  <2>1. SUFFICES ASSUME i + 1 \in 0 .. n PROVE top[i + 1] = rest[n - (i + 1)]
    OBVIOUS
  <2>2. /\ i \in 0 .. n /\ i + 1 \in 1 .. n /\ n - i \in 1 .. n
        /\ i + 1 - 1 = i /\ n + 1 - (i + 1) = n - i /\ n - i - 1 = n - (i + 1)
    BY <2>1
  <2>3. top[i + 1] = s[n - i].a + Base * rest[n - i]
    BY <1>6, <1>8, <2>2
  <2> QED
    BY <1>4, <2>2, <2>3
<1>9. n \in S
  <2> HIDE DEF S
  <2> QED
    BY <1>7, <1>8, Induction
<1> QED
  BY <1>6, <1>9 DEF s

\* A range that is Base times an even number shrinks to it.
LEMMA Shrinks ==
  ASSUME NEW x \in Int, NEW h \in Int, -(Base * (2 * h)) <= 2 * x, 2 * x < Base * (2 * h)
  PROVE  -(2 * h) <= 2 * (x \div Base) /\ 2 * (x \div Base) < 2 * h
<1> DEFINE q == x \div Base
           r == x % Base
<1>1. q \in Int /\ r \in 0 .. Base - 1 /\ x = r + Base * q
  BY Split
<1>2. Base \in Nat /\ Base > 0
  BY Bases
<1> HIDE DEF q, r
<1>3. ASSUME NEW y \in Int, Base * y < 0 PROVE y < 0
  BY <1>2, <1>3
<1>4. Base * (q - h) = Base * q - Base * h /\ Base * (-(q + h + 1)) = -(Base * q) - Base * h - Base
  BY <1>1, <1>2
<1>5. Base * (2 * h) = 2 * (Base * h) /\ Base * h \in Int /\ Base * q \in Int
  BY <1>1, <1>2
<1>6. Base * (q - h) < 0
  BY <1>1, <1>2, <1>4, <1>5
<1>7. Base * (-(q + h + 1)) < 0
  BY <1>1, <1>2, <1>4, <1>5
<1>8. q - h < 0 /\ -(q + h + 1) < 0
  BY <1>1, <1>3, <1>6, <1>7
<1> QED
  BY <1>1, <1>8 DEF q

LEMMA PowersEven == \A i \in 1 .. 8 : \E h \in Int : Power[i] = 2 * h
<1>1. PICK b \in Nat : Base = 2 * b
  BY Bases
<1> QED
  <2>1. TAKE i \in 1 .. 8
  <2>2. Power[i] = Base * Power[i - 1] /\ Power[i - 1] \in Int
    BY PowerIs
  <2>3. Base * Power[i - 1] = 2 * (b * Power[i - 1])
    BY <1>1, <2>2
  <2> QED
    BY <2>2, <2>3

\* The bytes of an integer that fits in n of them.
LEMMA FittingBytes ==
  ASSUME NEW n \in 1 .. 8, NEW v \in Ints(n)
  PROVE  /\ Signed(IntBytes(v, n)) = v
         /\ v >= 0 => Unsigned(IntBytes(v, n)) = v
<1>1. v \in Int /\ n \in Nat
  BY DEF Ints
<1>0. PICK rest : Rests(rest, v, n)
  BY <1>1, RestIs
<1>2. /\ rest \in [0 .. n -> Int] /\ rest[0] = v
      /\ \A i \in 1 .. n : rest[i] = rest[i - 1] \div Base
      /\ IntBytes(v, n) = [i \in 1 .. n |-> Byte(rest[i - 1] % Base)]
  BY <1>0 DEF Rests
<1> DEFINE Fits(i) == /\ -Power[n - i] <= 2 * rest[i] /\ 2 * rest[i] < Power[n - i]
                      /\ v >= 0 => rest[i] >= 0
           S == {i \in Nat : i \in 0 .. n - 1 => Fits(i)}
<1>3. 0 \in S
  <2>1. -Power[n] <= 2 * v /\ 2 * v < Power[n]
    BY DEF Ints
  <2>2. n - 0 = n
    OBVIOUS
  <2>3. Fits(0)
    <3>1. -Power[n - 0] <= 2 * rest[0] /\ 2 * rest[0] < Power[n - 0]
      BY <1>2, <2>1, <2>2, Zenon
    <3> QED
      BY <1>2, <3>1, Zenon
  <2> HIDE DEF Fits
  <2> QED
    BY <2>3
<1>4. ASSUME NEW i \in Nat, i \in S PROVE i + 1 \in S
  <2>1. SUFFICES ASSUME i + 1 \in 0 .. n - 1 PROVE Fits(i + 1)
    OBVIOUS
  <2>2. /\ i \in 0 .. n - 1 /\ i \in 0 .. n /\ i + 1 \in 1 .. n /\ i + 1 - 1 = i
        /\ n - i \in 1 .. 8 /\ n - (i + 1) \in 1 .. 8 /\ n - i - 1 = n - (i + 1)
    BY <2>1
  <2>3. rest[i + 1] = rest[i] \div Base /\ rest[i] \in Int
    BY <1>2, <2>2
  <2>4. PICK h \in Int : Power[n - (i + 1)] = 2 * h
    BY <2>2, PowersEven
  <2>5. Power[n - i] = Base * (2 * h)
    BY <2>2, <2>4, PowerIs
  <2>6. Fits(i)
    BY <1>4, <2>2
  <2>7. -(2 * h) <= 2 * (rest[i] \div Base) /\ 2 * (rest[i] \div Base) < 2 * h
    BY <2>3, <2>5, <2>6, Shrinks
  <2>8. rest[i] >= 0 => rest[i] \div Base >= 0
    <3>1. Base \in Nat /\ Base > 0
      BY Bases
    <3> QED
      BY <2>3, <3>1
  <2> QED
    BY <2>3, <2>4, <2>6, <2>7, <2>8
<1>5. Fits(n - 1)
  <2>1. n - 1 \in S
    <3> HIDE DEF S
    <3>1. n - 1 \in Nat
      OBVIOUS
    <3> QED
      BY <1>3, <1>4, <3>1, Induction
  <2> QED
    BY <2>1
<1> DEFINE r == rest[n - 1]
<1>6. /\ r \in Int /\ -Base <= 2 * r /\ 2 * r < Base /\ (v >= 0 => r >= 0)
      /\ rest[n] = r \div Base
  <2>1. Power[n - (n - 1)] = Base
    <3>1. n - (n - 1) = 1 /\ 1 \in 1 .. 8 /\ 1 - 1 = 0
      OBVIOUS
    <3>2. Power[1] = Base * 1
      BY <3>1, PowerIs
    <3> QED
      BY <3>1, <3>2, Bases
  <2>2. n - 1 \in 0 .. n /\ n \in 1 .. n
    OBVIOUS
  <2> QED
    BY <1>2, <1>5, <2>1, <2>2
<1>7. /\ Len(IntBytes(v, n)) = n
      /\ IntBytes(v, n)[n].a = r % Base
  BY <1>2 DEF Byte
<1>8. Number(IntBytes(v, n), rest[n]) = v
  BY <1>0, <1>1, NumberOfBytes
<1> HIDE DEF r
<1>9. Base \in Nat /\ Base > 0
  BY Bases
<1>10. CASE r >= 0
  <2>1. r % Base = r /\ r \div Base = 0
    BY <1>6, <1>9, <1>10
  <2>2. ~ (2 * (r % Base) >= Base)
    BY <1>6, <1>9, <2>1
  <2> QED
    BY <1>6, <1>7, <1>8, <2>1, <2>2 DEF Signed, Unsigned
<1>11. CASE r < 0
  <2>1. r \div Base = -1 /\ r % Base = r + Base
    <3>1. r % Base \in 0 .. Base - 1 /\ r = (r % Base) + Base * (r \div Base) /\ r \div Base \in Int
      BY <1>6, Split
    <3>2. r >= -Base
      BY <1>6, <1>9
    <3> QED
      BY <1>6, <1>9, <1>11, <3>1, <3>2
  <2>2. 2 * (r % Base) >= Base
    BY <1>6, <1>9, <2>1
  <2> QED
    BY <1>6, <1>7, <1>8, <1>11, <2>1, <2>2 DEF Signed, Unsigned
<1> QED
  BY <1>6, <1>10, <1>11

\* The bytes of a number below Base, and below its square.
LEMMA FewBytes ==
  ASSUME NEW v \in Nat
  PROVE  /\ v < Base => Unsigned(IntBytes(v, 1)) = v
         /\ v < Base * Base => Unsigned(IntBytes(v, 2)) = v
<1>1. Base \in Nat /\ Base > 0
  BY Bases
<1>2. ASSUME v < Base PROVE Unsigned(IntBytes(v, 1)) = v
  <2>1. PICK rest : Rests(rest, v, 1)
    BY RestIs
  <2>2. Number(IntBytes(v, 1), rest[1]) = v
    BY <2>1, NumberOfBytes
  <2>3. rest[1] = v \div Base
    BY <2>1 DEF Rests
  <2>4. v \div Base = 0
    BY <1>1, <1>2
  <2> QED
    BY <2>2, <2>3, <2>4 DEF Unsigned
<1>3. ASSUME v < Base * Base PROVE Unsigned(IntBytes(v, 2)) = v
  <2>1. PICK rest : Rests(rest, v, 2)
    BY RestIs
  <2>2. Number(IntBytes(v, 2), rest[2]) = v
    BY <2>1, NumberOfBytes
  <2>3. rest[1] = v \div Base /\ rest[2] = rest[1] \div Base
    BY <2>1 DEF Rests
  <2> DEFINE q == v \div Base
             r == v % Base
  <2>4. q \in Int /\ r \in 0 .. Base - 1 /\ v = r + Base * q
    BY Split
  <2>5. q \in 0 .. Base - 1
    <3> HIDE DEF q, r
    <3>1. Base * q < Base * Base /\ Base * q > -Base
      BY <1>1, <1>3, <2>4
    <3>2. Base * (Base - q) > 0 /\ Base * (q + 1) > 0
      BY <1>1, <2>4, <3>1
    <3>3. ASSUME NEW y \in Int, Base * y > 0 PROVE y > 0
      BY <1>1, <3>3
    <3>4. Base - q > 0 /\ q + 1 > 0
      BY <1>1, <2>4, <3>2, <3>3
    <3> QED
      BY <1>1, <2>4, <3>4
  <2>6. q \div Base = 0
    <3> HIDE DEF q
    <3> QED
      BY <1>1, <2>5
  <2> QED
    BY <2>2, <2>3, <2>6 DEF Unsigned
<1> QED
  BY <1>2, <1>3

\* What a block holds.
Kinds == {"nil", "boolean", "number", "userdata", "short", "long", "table",
          "byte", "string", "real", "garbage"}
Octets == [k : Kinds, a : Int, b : Int]

LEMMA IntBytesType ==
  ASSUME NEW v \in Int, NEW n \in Nat
  PROVE  /\ IntBytes(v, n) \in Seq(Octets) /\ Len(IntBytes(v, n)) = n
         /\ \A i \in 1 .. n : IntBytes(v, n)[i].k = "byte"
<1>1. PICK rest : Rests(rest, v, n)
  BY RestIs
<1> DEFINE s == IntBytes(v, n)
<1>2. \A i \in 1 .. n : rest[i - 1] % Base \in Int
  <2>1. ASSUME NEW x \in Int PROVE x % Base \in Int
    BY Split, Bases
  <2> QED
    BY <1>1, <2>1 DEF Rests
<1>3. s = [i \in 1 .. n |-> Byte(rest[i - 1] % Base)]
  BY <1>1 DEF Rests
<1> HIDE DEF s
<1>4. \A i \in 1 .. n : s[i] = Byte(rest[i - 1] % Base)
  BY <1>3
<1>5. \A i \in 1 .. n : s[i] \in Octets /\ s[i].k = "byte"
  <2>1. ASSUME NEW x \in Int PROVE Byte(x) \in Octets /\ Byte(x).k = "byte"
    BY DEF Byte, Octets, Kinds
  <2> QED
    BY <1>2, <1>4, <2>1
<1>6. s \in Seq(Octets) /\ Len(s) = n
  BY <1>3, <1>5
<1> QED
  BY <1>5, <1>6 DEF s

-----------------------------------------------------------------------------
(* Which values travel                                                      *)

\* The values below v travel with one level less.
Below(v, y) == v.t = "table" => \A p \in v.map : y[p[1]] /\ y[p[2]]
Level(n, y) == [v \in Values |-> n > 0 /\ v.t # "function" /\ Below(v, y)]

LEMMA TravelsIs ==
  \A n \in 0 .. MaxDepth + 1, v \in Values :
     Travels[n][v] <=> n > 0 /\ v.t # "function" /\ Below(v, Travels[n - 1])
<1> DEFINE N == MaxDepth + 1
           T == [Values -> BOOLEAN]
           Is(f) == f = [n \in 0 .. N |-> Level(n, f[n - 1])]
           x == [v \in Values |-> FALSE]
           G == [n \in Nat |-> [y \in T |-> Level(n, y)]]
<1>1. N \in Nat
  BY LimitsAreNumbers
<1>2. x \in T
  BY Zenon
<1>3. \A n, y : Level(n, y) \in T
  BY Zenon DEF Level
<1>4. G \in [Nat -> [T -> T]]
  <2> HIDE DEF T
  <2> QED
    BY <1>3, Zenon
<1>5. PICK f \in [0 .. N -> T] : Steps(f, N, x, G)
  <2> HIDE DEF T, x, G, N
  <2> QED
    BY <1>1, <1>2, <1>4, StepsExist
<1>6. Is(f)
  <2>1. \A y : Level(0, y) = x
    <3>1. ~ (0 > 0)
      OBVIOUS
    <3> QED
      BY <3>1, Zenon DEF Level
  <2>2. \A n \in 0 .. N : n = 0 \/ (n # 0 /\ n \in Nat /\ n - 1 \in 0 .. N)
    BY <1>1
  <2>3. \A n \in 0 .. N : n # 0 => f[n - 1] \in T
    <3> HIDE DEF T, N
    <3> QED
      BY <2>2
  <2>4. \A n \in 0 .. N : n # 0 => G[n][f[n - 1]] = Level(n, f[n - 1])
    <3> HIDE DEF T, N
    <3> QED
      BY <2>2, <2>3, Zenon
  <2> HIDE DEF T, x, G, N
  <2>5. \A n \in 0 .. N : (IF n = 0 THEN x ELSE G[n][f[n - 1]]) = Level(n, f[n - 1])
    BY <2>1, <2>2, <2>4, Zenon
  <2> QED
    BY <1>5, <2>5, Zenon DEF Steps
<1>7. Travels = CHOOSE g : Is(g)
  BY DEF Travels, Level, Below
<1>8. Is(Travels)
  <2> HIDE DEF Is
  <2> QED
    BY <1>6, <1>7
<1>9. \A n \in 0 .. N : Travels[n] = Level(n, Travels[n - 1])
  <2> HIDE DEF N
  <2> QED
    BY <1>8, Zenon
<1> QED
  BY <1>9, Zenon DEF Level

-----------------------------------------------------------------------------
(* Blocks, and the writer                                                   *)

LEMMA Sizes == BlockSize \in Nat /\ BlockSize >= 4
BY BlockHoldsHeader

\* Comparing products by the size of a block.
LEMMA LessBlocks ==
  ASSUME NEW j \in Int, NEW k \in Int, j * BlockSize < k * BlockSize
  PROVE  j < k
<1>1. BlockSize \in Nat /\ BlockSize > 0
  BY Sizes
<1>2. SUFFICES ASSUME k <= j PROVE FALSE
  OBVIOUS
<1>3. k * BlockSize <= j * BlockSize
  BY <1>1, <1>2
<1> QED
  BY <1>1, <1>3

LEMMA BlockIs ==
  ASSUME NEW i \in Nat
  PROVE  /\ BlockOf(i) \in Nat /\ i <= BlockOf(i) * BlockSize
         /\ BlockOf(i) * BlockSize < i + BlockSize
<1> DEFINE x == i + BlockSize - 1
           q == x \div BlockSize
           r == x % BlockSize
<1>1. x \in Nat /\ BlockSize > 0 /\ BlockSize \in Nat
  BY Sizes
<1>2. q \in Int /\ r \in 0 .. BlockSize - 1 /\ x = r + BlockSize * q
  <2> HIDE DEF x
  <2> QED
    BY <1>1, DivMod
<1>3. BlockOf(i) = q
  BY DEF BlockOf
<1> HIDE DEF q, r
<1>4. BlockSize * q = q * BlockSize /\ BlockSize * q \in Int
  BY <1>1, <1>2
<1>5. i <= q * BlockSize /\ q * BlockSize < i + BlockSize
  BY <1>1, <1>2, <1>4
<1>6. q >= 0
  <2>1. (-1) * BlockSize < q * BlockSize
    BY <1>1, <1>2, <1>5
  <2>2. -1 < q
    BY <1>2, <2>1, LessBlocks
  <2> QED
    BY <1>2, <2>2
<1> QED
  BY <1>2, <1>3, <1>5, <1>6

LEMMA BlockUnique ==
  ASSUME NEW i \in Nat, NEW k \in Int, (k - 1) * BlockSize < i, i <= k * BlockSize
  PROVE  BlockOf(i) = k
<1>1. BlockSize \in Nat /\ BlockSize > 0
  BY Sizes
<1>2. BlockOf(i) \in Nat /\ i <= BlockOf(i) * BlockSize /\ BlockOf(i) * BlockSize < i + BlockSize
  BY BlockIs
<1>3. (k - 1) * BlockSize = k * BlockSize - BlockSize /\ (k + 1) * BlockSize = k * BlockSize + BlockSize
  BY <1>1
<1>4. (k - 1) * BlockSize < BlockOf(i) * BlockSize /\ BlockOf(i) * BlockSize < (k + 1) * BlockSize
  BY <1>1, <1>2, <1>3
<1>5. k - 1 < BlockOf(i) /\ BlockOf(i) < k + 1
  BY <1>2, <1>4, LessBlocks
<1> QED
  BY <1>2, <1>5

LEMMA BlockMonotone ==
  ASSUME NEW i \in Nat, NEW j \in Nat, i <= j
  PROVE  BlockOf(i) <= BlockOf(j) /\ BlockOf(i) * BlockSize <= BlockOf(j) * BlockSize
<1>1. BlockSize \in Nat /\ BlockSize > 0
  BY Sizes
<1>2. /\ BlockOf(i) \in Nat /\ BlockOf(i) * BlockSize < i + BlockSize
      /\ BlockOf(j) \in Nat /\ j <= BlockOf(j) * BlockSize
  BY BlockIs
<1>3. (BlockOf(j) + 1) * BlockSize = BlockOf(j) * BlockSize + BlockSize
  BY <1>1, <1>2
<1>4. BlockOf(i) * BlockSize < (BlockOf(j) + 1) * BlockSize
  BY <1>1, <1>2, <1>3
<1>5. BlockOf(i) < BlockOf(j) + 1
  BY <1>2, <1>4, LessBlocks
<1>6. BlockOf(i) <= BlockOf(j)
  BY <1>2, <1>5
<1> QED
  BY <1>1, <1>2, <1>6

\* A chain has the blocks that its bytes fill, and no more.
Chain(bytes, end) == bytes \in Seq(Octets) /\ end \in Nat /\ Len(bytes) = BlockOf(end) * BlockSize

Writer == [bytes : Seq(Octets), at : Nat, len : Int]

\* c is what the chain holds behind p.
Holds(bytes, p, c) == \A i \in 1 .. Len(c) : bytes[p + i] = c[i]

LEMMA GarbageType == Garbage \in Octets
BY DEF Garbage, Octets, Kinds

\* What is packed goes behind what was packed, which stays.
LEMMA PushAppends ==
  ASSUME NEW w, Chain(w.bytes, w.at), NEW s \in Seq(Octets)
  PROVE  /\ Push(w, s).at = w.at + Len(s) /\ Push(w, s).len = w.len + Len(s)
         /\ Chain(Push(w, s).bytes, w.at + Len(s))
         /\ \A i \in 1 .. w.at : Push(w, s).bytes[i] = w.bytes[i]
         /\ Holds(Push(w, s).bytes, w.at, s)
<1> DEFINE end == w.at + Len(s)
           room == BlockOf(end) * BlockSize
           n == IF room > Len(w.bytes) THEN room ELSE Len(w.bytes)
           new(i) == IF i - w.at \in DOMAIN s THEN s[i - w.at]
                     ELSE IF i \in DOMAIN w.bytes THEN w.bytes[i] ELSE Garbage
           b == [i \in 1 .. n |-> new(i)]
<1>1. /\ w.at \in Nat /\ Len(s) \in Nat /\ end \in Nat /\ DOMAIN s = 1 .. Len(s)
      /\ Len(w.bytes) = BlockOf(w.at) * BlockSize /\ Len(w.bytes) \in Nat
      /\ DOMAIN w.bytes = 1 .. Len(w.bytes)
  BY DEF Chain
<1>2. /\ Push(w, s).bytes = b /\ Push(w, s).at = end /\ Push(w, s).len = w.len + Len(s)
  BY DEF Push
<1>3. room >= Len(w.bytes)
  BY <1>1, BlockMonotone
<1>4. room \in Nat /\ end <= room /\ w.at <= Len(w.bytes)
  <2>1. BlockOf(end) \in Nat /\ end <= room /\ w.at <= Len(w.bytes)
    BY <1>1, BlockIs
  <2> HIDE DEF end
  <2> QED
    BY <2>1, Sizes
<1> HIDE DEF end, room
<1>5. n = room
  BY <1>1, <1>3, <1>4
<1>6. \A i \in 1 .. room : new(i) \in Octets
  <2>1. \A i \in DOMAIN s : s[i] \in Octets
    OBVIOUS
  <2>2. \A i \in DOMAIN w.bytes : w.bytes[i] \in Octets
    BY DEF Chain
  <2> QED
    BY <2>1, <2>2, GarbageType
<1>7. b \in Seq(Octets) /\ Len(b) = room
  <2> HIDE DEF new, n
  <2> QED
    BY <1>4, <1>5, <1>6
<1>8. \A i \in 1 .. w.at : b[i] = w.bytes[i]
  <2>1. \A i \in 1 .. w.at : i \in 1 .. room /\ i - w.at \notin DOMAIN s /\ i \in DOMAIN w.bytes
    BY <1>1, <1>3, <1>4
  <2> HIDE DEF n
  <2> QED
    BY <1>5, <2>1
<1>9. \A i \in 1 .. Len(s) : b[w.at + i] = s[i]
  <2>1. \A j \in 1 .. room : j - w.at \in 1 .. Len(s) => b[j] = s[j - w.at]
    <3> HIDE DEF n
    <3> QED
      BY <1>1, <1>5
  <2>2. w.at + Len(s) <= room
    BY <1>4 DEF end
  <2> HIDE DEF b
  <2>3. PICK p \in Nat, l \in Nat : p = w.at /\ l = Len(s)
    BY <1>1
  <2>4. \A j \in 1 .. room : j - p \in 1 .. l => b[j] = s[j - p]
    BY <2>1, <2>3
  <2>5. ASSUME NEW i \in 1 .. l PROVE b[p + i] = s[i]
    <3>1. p + i \in 1 .. room /\ p + i - p = i
      BY <1>4, <2>2, <2>3
    <3>2. b[p + i] = s[p + i - p]
      BY <2>4, <3>1
    <3> QED
      BY <3>1, <3>2, Zenon
  <2> QED
    BY <2>3, <2>5
<1> HIDE DEF b
<1> QED
  BY <1>1, <1>2, <1>7, <1>8, <1>9 DEF Chain, Holds, end, room

LEMMA PushWrites ==
  ASSUME NEW w \in Writer, Chain(w.bytes, w.at), NEW s \in Seq(Octets)
  PROVE  Push(w, s) \in Writer
<1>1. /\ Push(w, s).at = w.at + Len(s) /\ Push(w, s).len = w.len + Len(s)
      /\ Push(w, s).bytes \in Seq(Octets)
  BY PushAppends DEF Chain
<1>2. Push(w, s) = [bytes |-> Push(w, s).bytes, at |-> Push(w, s).at, len |-> Push(w, s).len]
  BY DEF Push
<1>3. w.at \in Nat /\ w.len \in Int /\ Len(s) \in Nat
  BY DEF Writer
<1> QED
  BY <1>1, <1>2, <1>3 DEF Writer

LEMMA HeaderType ==
  ASSUME NEW n \in Int
  PROVE  /\ Header(n) \in Seq(Octets) /\ Len(Header(n)) = 4 /\ DOMAIN Header(n) = 1 .. 4
         /\ Header(n) = IntBytes(n, 4)
<1> DEFINE s == Header(n)
<1>1. 4 \in Nat
  OBVIOUS
<1>2. s = IntBytes(n, 4)
  BY DEF Header
<1>3. s \in Seq(Octets) /\ Len(s) = 4
  BY <1>1, <1>2, IntBytesType, Zenon
<1> HIDE DEF s
<1>4. DOMAIN s = 1 .. 4
  BY <1>3
<1> QED
  BY <1>2, <1>3, <1>4, Zenon DEF s

LEMMA NewChain == WbInit \in Writer /\ WbInit.at = 4 /\ WbInit.len = 4 /\ Chain(WbInit.bytes, 4)
<1> DEFINE w == [bytes |-> <<>>, at |-> 0, len |-> 0]
<1>1. Header(0) \in Seq(Octets) /\ Len(Header(0)) = 4
  <2>1. 0 \in Int
    OBVIOUS
  <2> QED
    BY <2>1, HeaderType, Zenon
<1>2. Chain(w.bytes, w.at)
  <2>1. BlockOf(0) = 0
    <3>1. 0 \in Nat /\ 0 \in Int /\ (0 - 1) * BlockSize < 0 /\ 0 <= 0 * BlockSize
      BY Sizes
    <3> QED
      BY <3>1, BlockUnique
  <2>2. w.bytes = <<>> /\ w.at = 0
    OBVIOUS
  <2>3. 0 * BlockSize = 0
    BY Sizes
  <2> HIDE DEF w
  <2> QED
    BY <2>1, <2>2, <2>3 DEF Chain
<1> HIDE DEF w
<1>3. Push(w, Header(0)).at = w.at + 4 /\ Push(w, Header(0)).len = w.len + 4
      /\ Chain(Push(w, Header(0)).bytes, w.at + 4)
  BY <1>1, <1>2, PushAppends
<1>4. w \in Writer
  BY DEF w, Writer
<1>5. Push(w, Header(0)) \in Writer
  BY <1>1, <1>2, <1>4, PushWrites
<1> QED
  BY <1>3, <1>5 DEF WbInit, w

\* Closing a chain writes its length into the first four bytes.
LEMMA CloseChain ==
  ASSUME NEW w \in Writer, Chain(w.bytes, w.at), w.at >= 4, w.len \in Int32
  PROVE  /\ WbClose(w) \in Writer /\ WbClose(w).len = w.len + 4
         /\ Chain(WbClose(w).bytes, w.at)
         /\ \A i \in Nat : 4 < i /\ i <= w.at => WbClose(w).bytes[i] = w.bytes[i]
         /\ Signed(SubSeq(WbClose(w).bytes, 1, 4)) = w.len
<1> DEFINE s == Header(w.len)
           z == [w EXCEPT !.at = 0]
           room == BlockOf(4) * BlockSize
           n == IF room > Len(w.bytes) THEN room ELSE Len(w.bytes)
           new(i) == IF i \in DOMAIN s THEN s[i]
                     ELSE IF i \in DOMAIN w.bytes THEN w.bytes[i] ELSE Garbage
           b == [i \in 1 .. n |-> new(i)]
<1>1. w.len \in Int
  BY DEF Int32, Ints
<1>2. s \in Seq(Octets) /\ Len(s) = 4 /\ DOMAIN s = 1 .. 4 /\ s = IntBytes(w.len, 4)
  BY <1>1, HeaderType, Zenon
<1>3. /\ w.at \in Nat /\ Len(w.bytes) = BlockOf(w.at) * BlockSize /\ Len(w.bytes) \in Nat
      /\ DOMAIN w.bytes = 1 .. Len(w.bytes) /\ w.bytes \in Seq(Octets)
  BY DEF Chain
<1>4. room <= Len(w.bytes) /\ 4 <= room /\ room \in Nat
  <2>1. 4 <= room /\ BlockOf(4) \in Nat
    BY BlockIs
  <2>2. room <= Len(w.bytes)
    BY <1>3, BlockMonotone
  <2> QED
    BY <2>1, <2>2, Sizes
<1>5. n = Len(w.bytes)
  BY <1>3, <1>4
<1>6. WbClose(w) = [bytes |-> b, at |-> 4, len |-> w.len + 4]
  <2>1. z.at = 0 /\ z.bytes = w.bytes /\ z.len = w.len
    BY DEF Writer
  <2>2. \A i \in Int : i - 0 = i
    OBVIOUS
  <2>3. WbClose(w) = [bytes |-> [i \in 1 .. n |-> IF i - 0 \in DOMAIN s THEN s[i - 0]
                       ELSE IF i \in DOMAIN w.bytes THEN w.bytes[i] ELSE Garbage],
                      at |-> 0 + 4, len |-> w.len + 4]
    <3> HIDE DEF z
    <3>1. WbClose(w) = Push(z, s)
      BY DEF WbClose, z
    <3>2. 0 + Len(s) = 4
      BY <1>2
    <3> HIDE DEF s
    <3> QED
      BY <1>2, <2>1, <3>1, <3>2 DEF Push
  <2>4. [i \in 1 .. n |-> IF i - 0 \in DOMAIN s THEN s[i - 0]
                       ELSE IF i \in DOMAIN w.bytes THEN w.bytes[i] ELSE Garbage] = b
    <3>1. \A i \in 1 .. n : i - 0 = i
      OBVIOUS
    <3> QED
      BY <3>1
  <2> QED
    BY <2>3, <2>4
<1> HIDE DEF room, n
<1>7. b \in Seq(Octets) /\ Len(b) = Len(w.bytes)
  <2>1. \A i \in 1 .. n : new(i) \in Octets
    <3>1. \A i \in DOMAIN s : s[i] \in Octets
      BY <1>2
    <3>2. \A i \in DOMAIN w.bytes : w.bytes[i] \in Octets
      BY <1>3
    <3> QED
      BY <3>1, <3>2, GarbageType
  <2> HIDE DEF new
  <2> QED
    BY <1>3, <1>5, <2>1
<1>8. \A i \in Nat : 4 < i /\ i <= w.at => b[i] = w.bytes[i]
  <2>1. w.at <= Len(w.bytes)
    BY <1>3, BlockIs
  <2>2. ASSUME NEW i \in Nat, 4 < i, i <= w.at
        PROVE  i \in 1 .. n /\ i \in DOMAIN w.bytes /\ i \notin DOMAIN s
    BY <1>2, <1>3, <1>5, <2>1, <2>2
  <2> HIDE DEF s
  <2> QED
    BY <2>2
<1>9. SubSeq(b, 1, 4) = s
  <2>1. \A i \in 1 .. 4 : b[i] = s[i]
    <3>1. \A i \in 1 .. 4 : i \in 1 .. n /\ i \in DOMAIN s
      BY <1>2, <1>3, <1>4, <1>5
    <3> HIDE DEF s
    <3> QED
      BY <3>1
  <2> HIDE DEF b, s
  <2>2. SubSeq(b, 1, 4) \in Seq(Octets) /\ Len(SubSeq(b, 1, 4)) = 4
        /\ \A i \in 1 .. 4 : SubSeq(b, 1, 4)[i] = b[i]
    BY <1>3, <1>4, <1>7
  <2> QED
    BY <1>2, <2>1, <2>2, SeqEqual
<1>10. Signed(s) = w.len
  <2>1. 4 \in 1 .. 8 /\ w.len \in Ints(4)
    BY DEF Int32
  <2> QED
    BY <1>2, <2>1, FittingBytes
<1> HIDE DEF b, s
<1>11. WbClose(w).bytes = b /\ WbClose(w).len = w.len + 4
  BY <1>6
<1>12. WbClose(w) \in Writer
  BY <1>1, <1>6, <1>7 DEF Writer
<1>13. Chain(b, w.at)
  BY <1>3, <1>7 DEF Chain
<1> QED
  BY <1>8, <1>9, <1>10, <1>11, <1>12, <1>13, Zenon

-----------------------------------------------------------------------------
(* The reader                                                               *)

\* The number of blocks freed: those whose end the read goes beyond, or reaches
\* with a value that it copies.
LEMMA TurnsFree ==
  ASSUME NEW cur \in Nat, cur >= 1, NEW ptr \in Nat, ptr <= BlockSize, NEW n \in Nat
  PROVE  LET full == ptr = BlockSize
             copy == IF full THEN BlockSize ELSE BlockSize - ptr
             turns == IF n <= copy THEN 0 ELSE (n - copy) \div BlockSize + 1
             k == (IF full THEN 1 ELSE 0) + turns
             at == (cur - 1) * BlockSize + ptr
         IN  k \in Nat /\ at \in Nat
             /\ (cur + k - 1) * BlockSize <= at + n /\ at + n <= (cur + k - 1) * BlockSize + BlockSize
<1> DEFINE full == ptr = BlockSize
           copy == IF full THEN BlockSize ELSE BlockSize - ptr
           turns == IF n <= copy THEN 0 ELSE (n - copy) \div BlockSize + 1
           one == IF full THEN 1 ELSE 0
           k == one + turns
           at == (cur - 1) * BlockSize + ptr
<1>1. BlockSize \in Nat /\ BlockSize > 0
  BY Sizes
<1>2. (cur - 1) * BlockSize \in Nat
  BY <1>1
<1>3. /\ one \in Nat /\ copy \in Nat
      /\ at + copy = (cur - 1) * BlockSize + one * BlockSize + BlockSize
  BY <1>1, <1>2
<1>4. at \in Nat /\ at >= (cur - 1) * BlockSize + one * BlockSize
  BY <1>1, <1>2
<1> HIDE DEF one, copy, at
<1>5. CASE n <= copy
  <2>1. turns = 0
    BY <1>5
  <2>2. k = one /\ k \in Nat
    BY <1>3, <2>1
  <2> HIDE DEF turns, k
  <2>3. (cur + one - 1) * BlockSize = (cur - 1) * BlockSize + one * BlockSize
    BY <1>1, <1>3
  <2>4. one * BlockSize \in Nat
    BY <1>1, <1>3
  <2>5. /\ (cur + k - 1) * BlockSize <= at + n
        /\ at + n <= (cur + k - 1) * BlockSize + BlockSize
    BY <1>1, <1>2, <1>3, <1>4, <1>5, <2>2, <2>3, <2>4
  <2> QED
    BY <1>4, <2>2, <2>5 DEF k, turns, one, at, copy
<1>6. CASE n > copy
  <2> DEFINE d == n - copy
             q == d \div BlockSize
             m == d % BlockSize
  <2>1. d \in Nat
    BY <1>3, <1>6
  <2>2. q \in Int /\ m \in 0 .. BlockSize - 1 /\ d = m + BlockSize * q
    <3> HIDE DEF d
    <3> QED
      BY <1>1, <2>1, DivMod
  <2>3. turns = q + 1
    BY <1>3, <1>6
  <2>4. q >= 0
    <3> HIDE DEF d
    <3> QED
      BY <1>1, <2>1
  <2>5. n = copy + d
    BY <1>3
  <2> HIDE DEF q, m, d, turns
  <2>6. k = one + q + 1 /\ k \in Nat
    BY <1>3, <2>2, <2>3, <2>4
  <2> HIDE DEF k
  <2>7. (cur + (one + q + 1) - 1) * BlockSize = (cur - 1) * BlockSize + one * BlockSize + BlockSize + BlockSize * q
    BY <1>1, <1>3, <2>2
  <2>8. one * BlockSize \in Nat /\ BlockSize * q \in Nat
    BY <1>1, <1>3, <2>2, <2>4
  <2>9. /\ (cur + k - 1) * BlockSize <= at + n
        /\ at + n <= (cur + k - 1) * BlockSize + BlockSize
    BY <1>1, <1>2, <1>3, <1>4, <2>2, <2>5, <2>6, <2>7, <2>8
  <2> QED
    BY <1>4, <2>6, <2>9 DEF k, turns, one, at, copy
<1> QED
  BY <1>3, <1>5, <1>6

Reader ==
  [bytes : Seq(Octets), live : SUBSET Int, cur : Nat, ptr : Nat, len : Int,
   data : Seq(Octets), ok : BOOLEAN, fault : BOOLEAN]

\* What a reader of a chain that ends at end relies on.
Reads(r, end) ==
  /\ r \in Reader /\ Chain(r.bytes, end)
  /\ r.cur >= 1 /\ r.ptr <= BlockSize
  /\ At(r) \in Nat /\ At(r) <= end /\ r.len = end - At(r)
  /\ r.live = r.cur .. BlockOf(end)
  /\ r.fault = FALSE

LEMMA FreedIs ==
  ASSUME NEW r, r.cur \in Nat, r.cur >= 1, r.ptr \in Nat, r.ptr <= BlockSize, NEW n \in Nat
  PROVE  \E k \in Nat :
           /\ Freed(r, n) = r.cur .. r.cur + k - 1
           /\ At(r) \in Nat /\ (r.cur + k - 1) * BlockSize <= At(r) + n
           /\ At(r) + n <= (r.cur + k - 1) * BlockSize + BlockSize
<1> DEFINE full == r.ptr = BlockSize
           copy == IF full THEN BlockSize ELSE BlockSize - r.ptr
           turns == IF n <= copy THEN 0 ELSE (n - copy) \div BlockSize + 1
           one == IF full THEN 1 ELSE 0
           k == one + turns
<1>1. /\ k \in Nat /\ (r.cur - 1) * BlockSize + r.ptr \in Nat
      /\ (r.cur + k - 1) * BlockSize <= (r.cur - 1) * BlockSize + r.ptr + n
      /\ (r.cur - 1) * BlockSize + r.ptr + n <= (r.cur + k - 1) * BlockSize + BlockSize
  BY TurnsFree
<1>2. Freed(r, n) = r.cur .. r.cur + one + turns - 1
  BY DEF Freed
<1>3. one \in Int /\ turns \in Int
  <2>1. one \in Int
    OBVIOUS
  <2>2. turns \in Int
    <3>1. copy \in Int /\ BlockSize \in Nat /\ BlockSize > 0
      BY Sizes
    <3> QED
      BY <3>1
  <2> QED
    BY <2>1, <2>2
<1> HIDE DEF one, turns
<1>4. r.cur + one + turns - 1 = r.cur + k - 1
  BY <1>3
<1> HIDE DEF k
<1> QED
  BY <1>1, <1>2, <1>4 DEF At

\* Reading n of the bytes that are there.
LEMMA ReadBytes ==
  ASSUME NEW r, NEW end, Reads(r, end), NEW n \in Nat, At(r) + n <= end
  PROVE  LET q == RbRead(r, n)
         IN  /\ Reads(q, end) /\ q.ok /\ q.bytes = r.bytes /\ At(q) = At(r) + n
             /\ q.data = [i \in 1 .. n |-> r.bytes[At(r) + i]]
<1> DEFINE from == r.cur
           ptr == r.ptr
           len == r.len
           live == r.live
           B == BlockSize
           nb == BlockOf(end)
           p == At(r)
           freed == Freed(r, n)
           cur == from + Cardinality(freed)
           touched == freed \cup {BlockOf(p + i) : i \in 1 .. n}
           data == [i \in 1 .. n |-> IF BlockOf(p + i) \in live THEN r.bytes[p + i] ELSE Garbage]
           q == RbRead(r, n)
<1>1. /\ r.bytes \in Seq(Octets) /\ live = from .. nb /\ from \in Nat /\ from >= 1
      /\ ptr \in Nat /\ ptr <= B /\ len = end - p /\ r.fault = FALSE /\ p \in Nat /\ p <= end
      /\ end \in Nat /\ Len(r.bytes) = nb * B
  BY DEF Reads, Chain, Reader
<1>2. B \in Nat /\ B > 0 /\ nb \in Nat /\ end <= nb * B /\ nb * B \in Nat
  <2>1. nb \in Nat /\ end <= nb * B
    BY <1>1, BlockIs
  <2>2. B \in Nat /\ B > 0
    BY Sizes
  <2> HIDE DEF nb, B
  <2> QED
    BY <2>1, <2>2
<1>3. PICK k \in Nat :
           /\ freed = from .. from + k - 1
           /\ (from + k - 1) * B <= p + n /\ p + n <= (from + k - 1) * B + B
  BY <1>1, FreedIs
<1>4. p = (from - 1) * B + ptr
  BY DEF At
<1> HIDE DEF B, nb, p, freed, from, ptr, len, live
<1>5. cur = from + k
  <2>1. PICK to \in Int : to = from + k - 1
    BY <1>1
  <2>2. from \in Int
    BY <1>1
  <2>3. Cardinality(from .. to) = IF from > to THEN 0 ELSE to - from + 1
    BY <2>2, FS_Interval
  <2>4. Cardinality(from .. to) = k
    BY <1>1, <2>1, <2>3
  <2> QED
    BY <1>3, <2>1, <2>4
<1>6. from + k - 1 <= nb
  <2>1. (from + k - 1) * B < (nb + 1) * B
    BY <1>1, <1>2, <1>3 DEF p
  <2>2. from + k - 1 < nb + 1
    BY <1>1, <1>2, <2>1, LessBlocks DEF B
  <2> QED
    BY <1>1, <1>2, <2>2
<1>7. \A i \in 1 .. n : BlockOf(p + i) \in from .. nb
  <2>1. TAKE i \in 1 .. n
  <2>2. p + i \in Nat /\ p + i <= end
    BY <1>1 DEF p
  <2>3. BlockOf(p + i) <= nb /\ BlockOf(p + i) \in Nat /\ p + i <= BlockOf(p + i) * B
    BY <1>1, <2>2, BlockMonotone, BlockIs DEF nb, B
  <2>4. (from - 1) * B < BlockOf(p + i) * B
    <3>1. PICK u \in Int : u = (from - 1) * B
      BY <1>1, <1>2
    <3>2. PICK t \in Int : t = BlockOf(p + i) * B
      BY <1>2, <2>3
    <3>3. p = u + ptr /\ p + i <= t
      BY <1>4, <2>3, <3>1, <3>2, Zenon
    <3>4. u < t
      BY <1>1, <2>2, <3>3
    <3> QED
      BY <3>1, <3>2, <3>4, Zenon
  <2>5. from - 1 < BlockOf(p + i)
    BY <1>1, <2>3, <2>4, LessBlocks DEF B
  <2> QED
    BY <1>1, <2>3, <2>5
<1>8. touched \subseteq live
  <2>1. freed \subseteq live
    BY <1>1, <1>2, <1>3, <1>6
  <2> QED
    BY <1>1, <1>7, <2>1
<1>9. data = [i \in 1 .. n |-> r.bytes[p + i]]
  <2>1. \A i \in 1 .. n : BlockOf(p + i) \in live
    BY <1>1, <1>7, Zenon
  <2> QED
    BY <2>1
<1>10. q = [bytes |-> r.bytes, live |-> live \ freed, cur |-> cur,
            ptr |-> p + n - (cur - 1) * B, len |-> len - n, data |-> data,
            ok |-> TRUE, fault |-> r.fault \/ ~ (touched \subseteq live)]
  <2>1. ~ (len < n)
    BY <1>1 DEF p
  <2> QED
    BY <2>1 DEF RbRead, p, freed, B, from, len, live
<1> HIDE DEF data, touched, cur, q
<1>11. /\ q.bytes = r.bytes /\ q.live = live \ freed /\ q.cur = cur
       /\ q.ptr = p + n - (cur - 1) * B /\ q.len = len - n /\ q.data = data
       /\ q.ok = TRUE /\ q.fault = FALSE
  BY <1>1, <1>8, <1>10
<1>12. At(q) = p + n
  <2>1. At(q) = (q.cur - 1) * B + q.ptr
    BY DEF At, B
  <2>2. (cur - 1) * B \in Int
    BY <1>1, <1>2, <1>5
  <2> QED
    BY <1>1, <1>11, <2>1, <2>2 DEF p
<1>13. q.live = q.cur .. nb
  BY <1>1, <1>2, <1>3, <1>5, <1>6, <1>11
<1>14. q.cur \in Nat /\ q.cur >= 1 /\ q.ptr \in Nat /\ q.ptr <= B
  <2>1. q.cur = from + k /\ q.cur \in Nat /\ q.cur >= 1
    BY <1>1, <1>5, <1>11
  <2>2. PICK m \in Nat : m = (from + k - 1) * B
    BY <1>1, <1>2
  <2>3. (cur - 1) * B = m
    <3>1. cur - 1 = from + k - 1
      BY <1>1, <1>5
    <3> QED
      BY <2>2, <3>1, Zenon
  <2>4. m <= p + n /\ p + n <= m + B
    BY <1>3, <2>2, Zenon
  <2>5. q.ptr = p + n - m
    BY <1>11, <2>3, Zenon
  <2>6. p + n - m \in Nat /\ p + n - m <= B
    BY <1>1, <1>2, <2>4
  <2> QED
    BY <2>1, <2>5, <2>6
<1>15. data \in Seq(Octets)
  <2>1. ASSUME NEW i \in 1 .. n PROVE p + i \in 1 .. nb * B
    BY <1>1, <1>2 DEF p
  <2>2. \A j \in 1 .. nb * B : r.bytes[j] \in Octets
    <3>1. \A s \in Seq(Octets) : \A j \in 1 .. Len(s) : s[j] \in Octets
      OBVIOUS
    <3> QED
      BY <1>1, <3>1, Zenon
  <2>3. \A i \in 1 .. n : r.bytes[p + i] \in Octets
    BY <2>1, <2>2, Zenon
  <2> QED
    BY <1>9, <2>3
<1>16. q \in Reader
  <2>1. q.len \in Int /\ q.live \in SUBSET Int
    BY <1>1, <1>2, <1>11, <1>13, <1>14
  <2>2. q = [bytes |-> q.bytes, live |-> q.live, cur |-> q.cur, ptr |-> q.ptr, len |-> q.len,
             data |-> q.data, ok |-> q.ok, fault |-> q.fault]
    BY <1>8, <1>10
  <2> QED
    BY <1>1, <1>11, <1>14, <1>15, <2>1, <2>2 DEF Reader
<1>17. Reads(q, end)
  <2>1. Chain(q.bytes, end)
    BY <1>11 DEF Reads
  <2>2. At(q) \in Nat /\ At(q) <= end /\ q.len = end - At(q)
    BY <1>1, <1>11, <1>12 DEF p
  <2> QED
    BY <1>11, <1>13, <1>14, <1>16, <2>1, <2>2 DEF Reads, B, nb
<1> QED
  BY <1>9, <1>11, <1>12, <1>17 DEF q, p

\* c is what a reader has before it, in a chain that ends at end.
Ahead(r, c, end) ==
  /\ Reads(r, end) /\ c \in Seq(Octets)
  /\ At(r) + Len(c) <= end /\ Holds(r.bytes, At(r), c)

\* A read yields what is ahead ...
LEMMA ReadAll ==
  ASSUME NEW r, NEW c, NEW end, Ahead(r, c, end)
  PROVE  LET q == RbRead(r, Len(c))
         IN  /\ Reads(q, end) /\ q.ok /\ q.bytes = r.bytes /\ At(q) = At(r) + Len(c)
             /\ q.data = c
<1> DEFINE n == Len(c)
           q == RbRead(r, n)
<1>1. n \in Nat /\ c \in Seq(Octets) /\ Reads(r, end) /\ At(r) + n <= end
  BY DEF Ahead
<1>2. /\ Reads(q, end) /\ q.ok /\ q.bytes = r.bytes /\ At(q) = At(r) + n
      /\ q.data = [i \in 1 .. n |-> r.bytes[At(r) + i]]
  BY <1>1, ReadBytes
<1>3. \A i \in 1 .. n : r.bytes[At(r) + i] = c[i]
  BY DEF Ahead, Holds
<1>4. q.data = [i \in 1 .. n |-> c[i]]
  <2> HIDE DEF q
  <2> QED
    BY <1>2, <1>3, Zenon
<1>5. c = [i \in 1 .. n |-> c[i]]
  BY <1>1
<1> QED
  BY <1>2, <1>4, <1>5, Zenon

\* ... or the first part of it, with the rest still ahead.
LEMMA ReadPart ==
  ASSUME NEW r, NEW c \in Seq(Octets), NEW d \in Seq(Octets), NEW end, Ahead(r, c \o d, end)
  PROVE  LET q == RbRead(r, Len(c))
         IN  /\ Ahead(q, d, end) /\ q.ok /\ q.bytes = r.bytes /\ At(q) = At(r) + Len(c)
             /\ q.data = c
<1> DEFINE n == Len(c)
           l == Len(d)
           p == At(r)
           q == RbRead(r, n)
<1>1. n \in Nat /\ l \in Nat /\ Reads(r, end) /\ p \in Nat /\ end \in Nat
  BY DEF Ahead, Reads, Chain
<1>2. /\ Len(c \o d) = n + l
      /\ \A i \in 1 .. n : i \in 1 .. n + l /\ (c \o d)[i] = c[i]
      /\ \A i \in 1 .. l : n + i \in 1 .. n + l /\ (c \o d)[n + i] = d[i]
  OBVIOUS
<1>3. p + (n + l) <= end /\ \A i \in 1 .. n + l : r.bytes[p + i] = (c \o d)[i]
  BY <1>2 DEF Ahead, Holds
<1>4. Ahead(r, c, end)
  BY <1>1, <1>2, <1>3 DEF Ahead, Holds
<1>5. Reads(q, end) /\ q.ok /\ q.bytes = r.bytes /\ At(q) = p + n /\ q.data = c
  BY <1>4, ReadAll
<1> HIDE DEF n, l, p, q
<1>6. \A i \in 1 .. l : r.bytes[p + n + i] = d[i]
  <2>1. TAKE i \in 1 .. l
  <2>2. p + n + i = p + (n + i)
    BY <1>1
  <2>3. r.bytes[p + (n + i)] = d[i]
    BY <1>2, <1>3
  <2> QED
    BY <2>2, <2>3, Zenon
<1>7. At(q) + l <= end
  BY <1>1, <1>3, <1>5
<1>8. Holds(q.bytes, At(q), d)
  BY <1>5, <1>6 DEF Holds, l
<1>9. Ahead(q, d, end)
  BY <1>5, <1>7, <1>8 DEF Ahead, l
<1> QED
  BY <1>5, <1>9 DEF q, n, p

-----------------------------------------------------------------------------
(* A value is read as it was written                                        *)

\* What g has read from r: v, and no more than its n bytes.
Gets(g, v, r, n, end) ==
  g.v = v /\ Reads(g.r, end) /\ g.r.bytes = r.bytes /\ At(g.r) = At(r) + n

LEMMA ZeroFits == 0 \in Int32
<1>1. \A n \in Nat : n \in 0 .. 8 => Power[n] > 0
  <2> DEFINE S == {n \in Nat : n \in 0 .. 8 => Power[n] > 0}
  <2>1. 0 \in S
    BY PowerIs
  <2>2. ASSUME NEW n \in Nat, n \in S PROVE n + 1 \in S
    <3>1. SUFFICES ASSUME n + 1 \in 0 .. 8 PROVE Power[n + 1] > 0
      OBVIOUS
    <3>2. n \in 0 .. 8 /\ n + 1 \in 1 .. 8 /\ n + 1 - 1 = n
      BY <3>1
    <3>3. Power[n + 1] = Base * Power[n] /\ Power[n] > 0 /\ Power[n] \in Int
      BY <2>2, <3>2, PowerIs
    <3>4. Base \in Nat /\ Base > 0
      BY Bases
    <3> QED
      BY <3>3, <3>4
  <2> HIDE DEF S
  <2>3. Nat \subseteq S
    BY <2>1, <2>2, Induction
  <2> QED
    BY <2>3 DEF S
<1>2. Power[4] > 0 /\ Power[4] \in Int
  BY <1>1, PowerIs
<1> QED
  BY <1>2 DEF Int32, Ints

\* The cookie and the width of an integer, case by case.
LEMMA WidthIs ==
  ASSUME NEW v \in Int
  PROVE  \/ v = 0 /\ Width(v) = [cookie |-> 0, bytes |-> 0]
         \/ v \notin Int32 /\ Width(v) = [cookie |-> 6, bytes |-> 8]
         \/ v \in Int32 /\ v < 0 /\ Width(v) = [cookie |-> 4, bytes |-> 4]
         \/ v > 0 /\ v < Base /\ Width(v) = [cookie |-> 1, bytes |-> 1]
         \/ v > 0 /\ v < Base * Base /\ Width(v) = [cookie |-> 2, bytes |-> 2]
         \/ v \in Int32 /\ v > 0 /\ Width(v) = [cookie |-> 4, bytes |-> 4]
<1>1. Base \in Nat /\ Base >= 2 /\ Base * Base \in Nat /\ Base * Base >= Base
  BY Bases
<1>2. CASE v = 0
  BY <1>1, <1>2, ZeroFits DEF Width
<1>3. CASE v \notin Int32
  BY <1>1, <1>3, ZeroFits DEF Width
<1>4. CASE v \in Int32 /\ v < 0
  BY <1>1, <1>4 DEF Width
<1>5. CASE v \in Int32 /\ v \in 1 .. Base - 1
  BY <1>1, <1>5 DEF Width
<1>6. CASE v \in Int32 /\ v \in Base .. Base * Base - 1
  BY <1>1, <1>6 DEF Width
<1>7. CASE v \in Int32 /\ v >= Base * Base
  BY <1>1, <1>7 DEF Width
<1> QED
  BY <1>1, <1>2, <1>3, <1>4, <1>5, <1>6, <1>7

LEMMA WidthType ==
  ASSUME NEW v \in Int
  PROVE  /\ Width(v).bytes \in 0 .. 8 /\ Width(v).cookie \in {0, 1, 2, 4, 6}
         /\ Width(v).bytes = Bytes(Width(v).cookie)
BY WidthIs DEF Bytes

LEMMA BytesRead ==
  ASSUME NEW r, NEW end, NEW v \in Int, NEW n \in Nat, Ahead(r, IntBytes(v, n), end)
  PROVE  LET q == RbRead(r, n)
         IN  /\ Reads(q, end) /\ q.ok /\ q.bytes = r.bytes /\ At(q) = At(r) + n
             /\ q.data = IntBytes(v, n) /\ AreBytes(q)
<1> DEFINE c == IntBytes(v, n)
           q == RbRead(r, n)
<1>1. c \in Seq(Octets) /\ Len(c) = n /\ \A i \in 1 .. n : c[i].k = "byte"
  BY IntBytesType
<1> HIDE DEF c
<1>2. LET q0 == RbRead(r, Len(c))
      IN  /\ Reads(q0, end) /\ q0.ok /\ q0.bytes = r.bytes /\ At(q0) = At(r) + Len(c)
          /\ q0.data = c
  BY ReadAll DEF c
<1>3. Reads(q, end) /\ q.ok /\ q.bytes = r.bytes /\ At(q) = At(r) + n /\ q.data = c
  BY <1>1, <1>2
<1> HIDE DEF q
<1>4. AreBytes(q)
  BY <1>1, <1>3 DEF AreBytes
<1> QED
  BY <1>3, <1>4 DEF q, c

LEMMA GetsInteger ==
  ASSUME NEW r, NEW end, NEW v \in Ints(8), Ahead(r, IntBytes(v, Width(v).bytes), end)
  PROVE  Gets(GetInteger(r, Width(v).cookie), Num(v), r, Width(v).bytes, end)
<1> DEFINE n == Width(v).bytes
           c == Width(v).cookie
           q == RbRead(r, n)
<1>1. v \in Int
  BY DEF Ints
<1>2. n \in Nat /\ c \in {0, 1, 2, 4, 6} /\ n = Bytes(c)
  BY <1>1, WidthType
<1>3. /\ Reads(q, end) /\ q.ok /\ q.bytes = r.bytes /\ At(q) = At(r) + n
      /\ q.data = IntBytes(v, n) /\ AreBytes(q)
  BY <1>1, <1>2, BytesRead
<1>4. c # 0 => (IF c >= 4 THEN Signed(IntBytes(v, n)) ELSE Unsigned(IntBytes(v, n))) = v
  <2>1. 8 \in 1 .. 8 /\ 4 \in 1 .. 8
    OBVIOUS
  <2>2. Signed(IntBytes(v, 8)) = v
    BY <2>1, FittingBytes, Zenon
  <2>3. v \in Int32 => Signed(IntBytes(v, 4)) = v
    BY <2>1, FittingBytes, Zenon DEF Int32
  <2>4. v > 0 /\ v < Base => Unsigned(IntBytes(v, 1)) = v
    BY <1>1, FewBytes
  <2>5. v > 0 /\ v < Base * Base => Unsigned(IntBytes(v, 2)) = v
    BY <1>1, FewBytes
  <2> QED
    BY <1>1, <2>2, <2>3, <2>4, <2>5, WidthIs
<1> HIDE DEF n, c, q
<1>5. CASE c = 0
  <2>1. n = 0 /\ v = 0
    <3>1. n = 0
      BY <1>2, <1>5 DEF Bytes
    <3>2. v = 0
      BY <1>1, <1>5, WidthIs DEF c
    <3> QED
      BY <3>1, <3>2
  <2>2. GetInteger(r, c) = [r |-> r, v |-> Num(v)]
    BY <1>5, <2>1 DEF GetInteger, Read
  <2>3. Reads(r, end) /\ At(r) + n = At(r)
    BY <2>1 DEF Ahead, Reads
  <2>4. Gets(GetInteger(r, c), Num(v), r, n, end)
    BY <2>2, <2>3 DEF Gets
  <2> QED
    BY <2>4 DEF n, c
<1>6. CASE c # 0
  <2>1. c \in {1, 2, 4, 6}
    BY <1>2, <1>6
  <2>2. GetInteger(r, c) = [r |-> q, v |-> Num(v)]
    BY <1>2, <1>3, <1>4, <1>6, <2>1 DEF GetInteger, Read, q
  <2>3. Gets(GetInteger(r, c), Num(v), r, n, end)
    BY <1>3, <2>2 DEF Gets
  <2> QED
    BY <2>3 DEF n, c
<1> QED
  BY <1>5, <1>6

LEMMA ContentType ==
  ASSUME NEW n \in Nat, NEW k \in {"string", "real", "userdata"}
  PROVE  Content(k, n) \in Seq(Octets) /\ Len(Content(k, n)) = n
<1> DEFINE new(i) == [k |-> k, a |-> n, b |-> i]
           c == [i \in 1 .. n |-> new(i)]
<1>1. \A i \in 1 .. n : new(i) \in Octets
  BY DEF Octets, Kinds
<1>2. Content(k, n) = c
  BY DEF Content
<1> HIDE DEF new
<1>3. c \in Seq(Octets) /\ Len(c) = n
  BY <1>1
<1> QED
  BY <1>2, <1>3

LEMMA BehindByte ==
  ASSUME NEW b \in Octets, NEW d \in Seq(Octets)
  PROVE  <<b>> \o d \in Seq(Octets) /\ Len(<<b>> \o d) = 1 + Len(d)
OBVIOUS

LEMMA TypeType ==
  ASSUME NEW t \in Kinds, NEW c \in Int
  PROVE  Type(t, c) \in Octets /\ Type(t, c).k = t /\ Type(t, c).a = c
BY DEF Type, Octets

LEMMA GetsContent ==
  ASSUME NEW r, NEW end, NEW n \in Nat, NEW k \in {"string", "real", "userdata"}, NEW v,
         Ahead(r, Content(k, n), end)
  PROVE  Gets(GetContent(r, k, n, v), v, r, n, end)
<1> DEFINE c == Content(k, n)
           q == RbRead(r, n)
<1>1. c \in Seq(Octets) /\ Len(c) = n
  BY ContentType
<1> HIDE DEF c
<1>2. LET q0 == RbRead(r, Len(c))
      IN  /\ Reads(q0, end) /\ q0.ok /\ q0.bytes = r.bytes /\ At(q0) = At(r) + Len(c)
          /\ q0.data = c
  BY ReadAll DEF c
<1>3. Reads(q, end) /\ q.ok /\ q.bytes = r.bytes /\ At(q) = At(r) + n /\ q.data = c
  BY <1>1, <1>2
<1> HIDE DEF q
<1>4. GetContent(r, k, n, v) = [r |-> q, v |-> v]
  BY <1>3 DEF GetContent, Read, q, c
<1> QED
  BY <1>3, <1>4 DEF Gets

\* What is written for a value.
LEMMA IntegerType ==
  ASSUME NEW v \in Int
  PROVE  WbInteger(v) \in Seq(Octets) /\ Len(WbInteger(v)) >= 1
<1> DEFINE c == Width(v).cookie
           n == Width(v).bytes
           d == IntBytes(v, n)
           b == Type("number", c)
<1>1. c \in Int /\ n \in Nat
  BY WidthType
<1>2. d \in Seq(Octets) /\ b \in Octets
  BY <1>1, IntBytesType, TypeType DEF Kinds
<1>3. WbInteger(v) = <<b>> \o d
  BY DEF WbInteger
<1> HIDE DEF b, d
<1>4. Len(d) \in Nat /\ WbInteger(v) \in Seq(Octets) /\ Len(WbInteger(v)) = 1 + Len(d)
  BY <1>2, <1>3, BehindByte
<1> QED
  BY <1>4

LEMMA StringType ==
  ASSUME NEW n \in Nat
  PROVE  WbString(n) \in Seq(Octets) /\ Len(WbString(n)) >= 1
<1> DEFINE l == LengthBytes(n)
<1>1. l \in Nat
  BY DEF LengthBytes
<1>2. IntBytes(n, l) \in Seq(Octets) /\ Content("string", n) \in Seq(Octets)
  BY <1>1, IntBytesType, ContentType
<1>3. Type("short", n) \in Octets /\ Type("long", l) \in Octets
  BY <1>1, TypeType DEF Kinds
<1>4. \A b \in Octets, c, d \in Seq(Octets) :
         /\ <<b>> \o d \in Seq(Octets) /\ Len(<<b>> \o d) >= 1
         /\ (<<b>> \o c) \o d \in Seq(Octets) /\ Len((<<b>> \o c) \o d) >= 1
  OBVIOUS
<1>5. \/ WbString(n) = <<Type("short", n)>> \o Content("string", n)
      \/ WbString(n) = (<<Type("long", l)>> \o IntBytes(n, l)) \o Content("string", n)
  BY Zenon DEF WbString
<1> QED
  BY <1>2, <1>3, <1>4, <1>5, Zenon

LEMMA PlainType ==
  ASSUME NEW v, IsScalar(v), v.t # "function"
  PROVE  Plain(v) \in Seq(Octets) /\ Len(Plain(v)) >= 1
<1>1. \A b \in Octets : <<b>> \in Seq(Octets) /\ Len(<<b>>) = 1
  OBVIOUS
<1>2. ASSUME NEW c \in Int, NEW t \in {"nil", "boolean"}, Plain(v) = <<Type(t, c)>>
      PROVE  Plain(v) \in Seq(Octets) /\ Len(Plain(v)) >= 1
  <2>1. Type(t, c) \in Octets
    BY TypeType DEF Kinds
  <2> QED
    BY <1>1, <1>2, <2>1
<1>3. ASSUME NEW b \in Octets, NEW k \in {"real", "userdata"}, Plain(v) = <<b>> \o Content(k, 8)
      PROVE  Plain(v) \in Seq(Octets) /\ Len(Plain(v)) >= 1
  <2>1. 8 \in Nat /\ k \in {"string", "real", "userdata"}
    OBVIOUS
  <2>2. PICK d \in Seq(Octets) : d = Content(k, 8) /\ Len(d) = 8
    BY <2>1, ContentType
  <2>3. <<b>> \o d \in Seq(Octets) /\ Len(<<b>> \o d) = 1 + 8
    BY <2>2, BehindByte
  <2> QED
    BY <1>3, <2>2, <2>3
<1>4. CASE v = Nil
  <2>1. Plain(v) = <<Type("nil", 0)>>
    BY <1>4 DEF Plain, Nil
  <2> QED
    BY <1>2, <2>1
<1>5. CASE v \in {Bool(TRUE), Bool(FALSE)}
  <2>1. v.t = "boolean"
    BY <1>5 DEF Bool
  <2>2. PICK c \in Int : c = IF v.bool THEN 1 ELSE 0
    OBVIOUS
  <2>3. Plain(v) = <<Type("boolean", c)>>
    BY <2>1, <2>2 DEF Plain
  <2> QED
    BY <1>2, <2>3
<1>6. CASE v = Real
  <2>1. Plain(v) = <<Type("number", 8)>> \o Content("real", 8)
    BY <1>6 DEF Plain, Real
  <2>2. Type("number", 8) \in Octets
    BY TypeType DEF Kinds
  <2> QED
    BY <1>3, <2>1, <2>2
<1>7. CASE v = Ptr
  <2>1. Plain(v) = <<Type("userdata", 0)>> \o Content("userdata", 8)
    BY <1>7 DEF Plain, Ptr
  <2>2. Type("userdata", 0) \in Octets
    BY TypeType DEF Kinds
  <2> QED
    BY <1>3, <2>1, <2>2
<1>8. CASE v.t = "integer" /\ v = Num(v.int) /\ v.int \in Ints(8)
  <2>1. Plain(v) = WbInteger(v.int) /\ v.int \in Int
    BY <1>8 DEF Plain, Ints
  <2> QED
    BY <2>1, IntegerType
<1>9. CASE v.t = "string" /\ v = Str(v.len) /\ v.len \in Int32 /\ v.len >= 0
  <2>1. Plain(v) = WbString(v.len) /\ v.len \in Nat
    BY <1>9 DEF Plain, Int32, Ints
  <2> QED
    BY <2>1, StringType
<1>10. v # Function
  BY DEF Function
<1> QED
  BY <1>4, <1>5, <1>6, <1>7, <1>8, <1>9, <1>10 DEF IsScalar

\* Two reads, one after the other.
LEMMA GetsThen ==
  ASSUME NEW r, NEW q, NEW g, NEW v, NEW end, NEW m \in Nat, NEW n \in Nat, At(r) \in Nat,
         q.bytes = r.bytes, At(q) = At(r) + m, Gets(g, v, q, n, end)
  PROVE  Gets(g, v, r, m + n, end)
<1>1. At(r) + m + n = At(r) + (m + n)
  OBVIOUS
<1> QED
  BY <1>1 DEF Gets

\* What UnpackOne reads.
ReadOne(r) == LET q == RbRead(r, 1) IN PushValue(q, q.data[1])

LEMMA TypeAlone ==
  ASSUME NEW r, NEW end, NEW b \in Octets, Ahead(r, <<b>>, end)
  PROVE  LET q == RbRead(r, 1)
         IN  Reads(q, end) /\ q.ok /\ q.bytes = r.bytes /\ At(q) = At(r) + 1 /\ q.data[1] = b
<1> DEFINE c == <<b>>
<1>1. c \in Seq(Octets) /\ Len(c) = 1 /\ c[1] = b
  OBVIOUS
<1> HIDE DEF c
<1>2. LET q0 == RbRead(r, Len(c))
      IN  /\ Reads(q0, end) /\ q0.ok /\ q0.bytes = r.bytes /\ At(q0) = At(r) + Len(c)
          /\ q0.data = c
  BY ReadAll DEF c
<1> QED
  BY <1>1, <1>2

LEMMA TypeFirst ==
  ASSUME NEW r, NEW end, NEW b \in Octets, NEW d \in Seq(Octets), Ahead(r, <<b>> \o d, end)
  PROVE  LET q == RbRead(r, 1)
         IN  Ahead(q, d, end) /\ q.ok /\ q.bytes = r.bytes /\ At(q) = At(r) + 1 /\ q.data[1] = b
<1> DEFINE c == <<b>>
<1>1. c \in Seq(Octets) /\ Len(c) = 1 /\ c[1] = b
  OBVIOUS
<1> HIDE DEF c
<1>2. LET q0 == RbRead(r, Len(c))
      IN  /\ Ahead(q0, d, end) /\ q0.ok /\ q0.bytes = r.bytes /\ At(q0) = At(r) + Len(c)
          /\ q0.data = c
  BY <1>1, ReadPart DEF c
<1> QED
  BY <1>1, <1>2

\* Every plain value.
LEMMA GetsNumber ==
  ASSUME NEW r, NEW end, NEW v \in Ints(8), Ahead(r, WbInteger(v), end)
  PROVE  /\ Gets(ReadOne(r), Num(v), r, Len(WbInteger(v)), end)
         /\ LET q == RbRead(r, 1)
            IN  q.ok /\ q.data[1] = Type("number", Width(v).cookie)
<1> DEFINE n == Width(v).bytes
           c == Width(v).cookie
           b == Type("number", c)
           d == IntBytes(v, n)
           q == RbRead(r, 1)
<1>1. v \in Int
  BY DEF Ints
<1>2. n \in Nat /\ c \in {0, 1, 2, 4, 6}
  BY <1>1, WidthType
<1>3. d \in Seq(Octets) /\ Len(d) = n
  BY <1>1, <1>2, IntBytesType
<1>4. b \in Octets /\ b.k = "number" /\ b.a = c
  BY <1>2, TypeType DEF Kinds
<1>5. WbInteger(v) = <<b>> \o d
  BY DEF WbInteger
<1> HIDE DEF b, d
<1>6. Ahead(q, d, end) /\ q.ok /\ q.bytes = r.bytes /\ At(q) = At(r) + 1 /\ q.data[1] = b
  BY <1>3, <1>4, <1>5, TypeFirst
<1>7. Gets(GetInteger(q, c), Num(v), q, n, end)
  BY <1>6, GetsInteger DEF d
<1>8. Gets(GetInteger(q, c), Num(v), r, 1 + n, end)
  <2>1. At(r) \in Nat /\ 1 \in Nat
    BY DEF Ahead, Reads
  <2> HIDE DEF q
  <2> QED
    BY <1>2, <1>6, <1>7, <2>1, GetsThen
<1>9. ReadOne(r) = GetInteger(q, c)
  <2> HIDE DEF q
  <2>1. PushValue(q, b) = GetInteger(q, c)
    BY <1>2, <1>4 DEF PushValue
  <2> QED
    BY <1>6, <2>1 DEF ReadOne, q
<1>10. Len(WbInteger(v)) = 1 + n
  BY <1>3, <1>5
<1> QED
  BY <1>6, <1>8, <1>9, <1>10 DEF b

LEMMA GetsString ==
  ASSUME NEW r, NEW end, NEW n \in Int32, n >= 0, Ahead(r, WbString(n), end)
  PROVE  Gets(ReadOne(r), Str(n), r, Len(WbString(n)), end)
<1> DEFINE s == Content("string", n)
           q == RbRead(r, 1)
<1>1. n \in Nat /\ MaxCookie \in Nat /\ "string" \in {"string", "real", "userdata"}
  BY LimitsAreNumbers DEF Int32, Ints
<1>2. s \in Seq(Octets) /\ Len(s) = n
  BY <1>1, ContentType
<1>3. At(r) \in Nat /\ 1 \in Nat
  BY DEF Ahead, Reads
<1> HIDE DEF s
<1>4. CASE n < MaxCookie
  <2> DEFINE b == Type("short", n)
  <2>1. b \in Octets /\ b.k = "short" /\ b.a = n
    BY <1>1, TypeType DEF Kinds
  <2>2. WbString(n) = <<b>> \o s
    BY <1>4 DEF WbString, s
  <2> HIDE DEF b
  <2>3. Ahead(q, s, end) /\ q.ok /\ q.bytes = r.bytes /\ At(q) = At(r) + 1 /\ q.data[1] = b
    BY <1>2, <2>1, <2>2, TypeFirst
  <2>4. Gets(GetContent(q, "string", n, Str(n)), Str(n), q, n, end)
    BY <1>1, <2>3, GetsContent DEF s
  <2> HIDE DEF q
  <2>5. Gets(GetContent(q, "string", n, Str(n)), Str(n), r, 1 + n, end)
    BY <1>1, <1>3, <2>3, <2>4, GetsThen
  <2>6. PushValue(q, b) = GetContent(q, "string", n, Str(n))
    BY <2>1 DEF PushValue
  <2>7. ReadOne(r) = GetContent(q, "string", n, Str(n))
    BY <2>3, <2>6 DEF ReadOne, q
  <2>8. Len(WbString(n)) = 1 + n
    BY <1>2, <2>2
  <2> QED
    BY <2>5, <2>7, <2>8
<1>5. CASE n >= MaxCookie
  <2> DEFINE l == LengthBytes(n)
             b == Type("long", l)
             c == IntBytes(n, l)
             p == RbRead(q, l)
  <2>1. l \in {2, 4} /\ l \in Nat /\ (l = 2 => n < Base * Base)
    BY DEF LengthBytes
  <2>2. Unsigned(c) = n
    <3>1. l = 2 => Unsigned(c) = n
      BY <1>1, <2>1, FewBytes
    <3>2. 4 \in 1 .. 8 /\ n \in Ints(4)
      BY DEF Int32
    <3>3. Unsigned(IntBytes(n, 4)) = n
      BY <3>2, FittingBytes, Zenon
    <3> QED
      BY <2>1, <3>1, <3>3
  <2>3. c \in Seq(Octets) /\ Len(c) = l
    BY <1>1, <2>1, IntBytesType
  <2>4. b \in Octets /\ b.k = "long" /\ b.a = l
    BY <2>1, TypeType DEF Kinds
  <2>5. WbString(n) = (<<b>> \o c) \o s
    <3>1. ~ (n < MaxCookie)
      BY <1>1, <1>5
    <3> QED
      BY <3>1, Zenon DEF WbString, s
  <2> HIDE DEF b, c, l
  <2>6. WbString(n) = <<b>> \o (c \o s) /\ c \o s \in Seq(Octets)
    BY <1>2, <2>3, <2>4, <2>5
  <2>7. Ahead(q, c \o s, end) /\ q.ok /\ q.bytes = r.bytes /\ At(q) = At(r) + 1 /\ q.data[1] = b
    <3> DEFINE d == c \o s
    <3>1. WbString(n) = <<b>> \o d /\ d \in Seq(Octets)
      BY <2>6
    <3> HIDE DEF d
    <3>2. Ahead(q, d, end) /\ q.ok /\ q.bytes = r.bytes /\ At(q) = At(r) + 1 /\ q.data[1] = b
      BY <2>4, <3>1, TypeFirst
    <3> QED
      BY <3>2, Zenon DEF d
  <2> HIDE DEF q
  <2>8. Ahead(p, s, end) /\ p.ok /\ p.bytes = q.bytes /\ At(p) = At(q) + l /\ p.data = c
    BY <1>2, <2>3, <2>7, ReadPart
  <2>9. Gets(GetContent(p, "string", n, Str(n)), Str(n), p, n, end)
    BY <1>1, <2>8, GetsContent DEF s
  <2> HIDE DEF p
  <2>10. Gets(GetContent(p, "string", n, Str(n)), Str(n), q, l + n, end)
    <3>1. At(q) \in Nat
      BY <1>3, <2>7
    <3> QED
      BY <1>1, <2>1, <2>8, <2>9, <3>1, GetsThen
  <2>11. Gets(GetContent(p, "string", n, Str(n)), Str(n), r, 1 + (l + n), end)
    <3>1. l + n \in Nat
      BY <1>1, <2>1
    <3> QED
      BY <1>3, <2>7, <2>10, <3>1, GetsThen
  <2>12. AreBytes(p)
    <3>1. \A i \in 1 .. l : c[i].k = "byte"
      BY <1>1, <2>1, IntBytesType DEF c
    <3> QED
      BY <2>3, <2>8, <3>1 DEF AreBytes
  <2>13. GetLong(q, l) = GetContent(p, "string", n, Str(n))
    BY <2>1, <2>2, <2>8, <2>12 DEF GetLong, p
  <2>14. PushValue(q, b) = GetLong(q, l)
    BY <2>4 DEF PushValue
  <2>15. ReadOne(r) = GetContent(p, "string", n, Str(n))
    BY <2>7, <2>13, <2>14 DEF ReadOne, q
  <2>16. Len(WbString(n)) = 1 + (l + n)
    BY <1>1, <1>2, <2>1, <2>3, <2>5
  <2> QED
    BY <2>11, <2>15, <2>16
<1> QED
  BY <1>1, <1>4, <1>5

LEMMA GetsPlain ==
  ASSUME NEW r, NEW end, NEW v, IsScalar(v), v.t # "function", Ahead(r, Plain(v), end)
  PROVE  Gets(ReadOne(r), v, r, Len(Plain(v)), end)
<1> DEFINE q == RbRead(r, 1)
<1>1. At(r) \in Nat /\ 1 \in Nat /\ 8 \in Nat /\ Plain(v) \in Seq(Octets)
  BY DEF Ahead, Reads
<1>2. ASSUME NEW b \in Octets, Plain(v) = <<b>>
      PROVE  LET q0 == RbRead(r, 1)
             IN  /\ Reads(q0, end) /\ q0.bytes = r.bytes /\ At(q0) = At(r) + 1 /\ q0.data[1] = b
                 /\ Len(Plain(v)) = 1
  <2>1. LET q0 == RbRead(r, 1)
        IN  Reads(q0, end) /\ q0.bytes = r.bytes /\ At(q0) = At(r) + 1 /\ q0.data[1] = b
    BY <1>2, TypeAlone
  <2>2. Len(Plain(v)) = 1
    BY <1>2
  <2> QED
    BY <2>1, <2>2
<1>3. ASSUME NEW b \in Octets, NEW k \in {"real", "userdata"}, Plain(v) = <<b>> \o Content(k, 8),
             PushValue(q, b) = GetContent(q, k, 8, v)
      PROVE  Gets(ReadOne(r), v, r, Len(Plain(v)), end)
  <2> DEFINE d == Content(k, 8)
  <2>1. k \in {"string", "real", "userdata"} /\ d \in Seq(Octets) /\ Len(d) = 8
    BY <1>1, ContentType
  <2> HIDE DEF d
  <2>2. Ahead(q, d, end) /\ q.bytes = r.bytes /\ At(q) = At(r) + 1 /\ q.data[1] = b
    BY <1>3, <2>1, TypeFirst DEF d
  <2>3. Gets(GetContent(q, k, 8, v), v, q, 8, end)
    BY <1>1, <2>1, <2>2, GetsContent DEF d
  <2>4. Len(Plain(v)) = 1 + 8
    <3>1. Len(<<b>> \o d) = 1 + 8
      BY <2>1, BehindByte
    <3> QED
      BY <1>3, <3>1, Zenon DEF d
  <2>5. ReadOne(r) = GetContent(q, k, 8, v)
    BY <1>3, <2>2 DEF ReadOne
  <2> HIDE DEF q
  <2>6. Gets(GetContent(q, k, 8, v), v, r, 1 + 8, end)
    BY <1>1, <2>2, <2>3, GetsThen
  <2> QED
    BY <2>4, <2>5, <2>6
<1>4. CASE v = Nil
  <2> DEFINE b == Type("nil", 0)
  <2>1. b \in Octets /\ b.k = "nil" /\ Plain(v) = <<b>>
    BY <1>4, TypeType DEF Plain, Nil, Kinds
  <2> HIDE DEF b
  <2>2. PushValue(q, b) = [r |-> q, v |-> v]
    BY <1>4, <2>1 DEF PushValue, Read
  <2>3. ReadOne(r) = [r |-> q, v |-> v]
    BY <1>2, <2>1, <2>2 DEF ReadOne
  <2> HIDE DEF q
  <2> QED
    BY <1>1, <1>2, <2>1, <2>3 DEF Gets, q
<1>5. CASE v \in {Bool(TRUE), Bool(FALSE)}
  <2> DEFINE b == Type("boolean", IF v.bool THEN 1 ELSE 0)
  <2>1. b \in Octets /\ b.k = "boolean" /\ Plain(v) = <<b>> /\ Bool(b.a = 1) = v
    <3>1. v.t = "boolean" /\ v.bool \in BOOLEAN /\ v = Bool(v.bool)
      <4>1. CASE v = Bool(TRUE)
        BY <4>1 DEF Bool
      <4>2. CASE v = Bool(FALSE)
        BY <4>2 DEF Bool
      <4> QED
        BY <1>5, <4>1, <4>2
    <3>2. (IF v.bool THEN 1 ELSE 0) \in Int /\ (((IF v.bool THEN 1 ELSE 0) = 1) <=> v.bool)
      BY <3>1
    <3>3. Plain(v) = <<b>>
      BY <3>1 DEF Plain
    <3>4. b \in Octets /\ b.k = "boolean" /\ b.a = IF v.bool THEN 1 ELSE 0
      BY <3>2, TypeType DEF Kinds
    <3> HIDE DEF b
    <3>5. (b.a = 1) = v.bool
      BY <3>1, <3>2, <3>4
    <3> QED
      BY <3>1, <3>3, <3>4, <3>5, Zenon
  <2> HIDE DEF b
  <2>2. PushValue(q, b) = [r |-> q, v |-> v]
    BY <2>1 DEF PushValue, Read
  <2>3. ReadOne(r) = [r |-> q, v |-> v]
    BY <1>2, <2>1, <2>2 DEF ReadOne
  <2> HIDE DEF q
  <2> QED
    BY <1>1, <1>2, <2>1, <2>3 DEF Gets, q
<1>6. CASE v = Real
  <2> DEFINE b == Type("number", 8)
  <2>1. b \in Octets /\ b.k = "number" /\ b.a = 8
    BY TypeType DEF Kinds
  <2>2. Plain(v) = <<b>> \o Content("real", 8)
    BY <1>6 DEF Plain, Real
  <2> HIDE DEF b
  <2>3. PushValue(q, b) = GetContent(q, "real", 8, v)
    BY <1>6, <2>1 DEF PushValue
  <2> QED
    BY <1>1, <1>3, <2>1, <2>2, <2>3
<1>7. CASE v = Ptr
  <2> DEFINE b == Type("userdata", 0)
  <2>1. b \in Octets /\ b.k = "userdata"
    BY TypeType DEF Kinds
  <2>2. Plain(v) = <<b>> \o Content("userdata", 8)
    BY <1>7 DEF Plain, Ptr
  <2> HIDE DEF b
  <2>3. PushValue(q, b) = GetContent(q, "userdata", 8, v)
    BY <1>7, <2>1 DEF PushValue
  <2> QED
    BY <1>1, <1>3, <2>1, <2>2, <2>3
<1>8. CASE v.t = "integer" /\ v = Num(v.int) /\ v.int \in Ints(8)
  <2>1. Plain(v) = WbInteger(v.int)
    BY <1>8 DEF Plain
  <2>2. Gets(ReadOne(r), v, r, Len(Plain(v)), end)
    BY <1>8, <2>1, GetsNumber
  <2> QED
    BY <2>2
<1>9. CASE v.t = "string" /\ v = Str(v.len) /\ v.len \in Int32 /\ v.len >= 0
  <2>1. Plain(v) = WbString(v.len)
    BY <1>9 DEF Plain
  <2>2. Gets(ReadOne(r), v, r, Len(Plain(v)), end)
    BY <1>9, <2>1, GetsString
  <2> QED
    BY <2>2
<1>10. v # Function
  BY DEF Function
<1> QED
  BY <1>1, <1>4, <1>5, <1>6, <1>7, <1>8, <1>9, <1>10 DEF IsScalar

\* The size of the array part of a table.
LEMMA SmallFits == \A v \in Int32 : v \in Ints(8)
<1>1. \A n \in Nat : n \in 4 .. 8 => Power[n] >= Power[4] /\ Power[n] > 0
  <2> DEFINE S == {n \in Nat : n \in 4 .. 8 => Power[n] >= Power[4] /\ Power[n] > 0}
  <2>1. Power[4] > 0 /\ Power[4] \in Int
    BY ZeroFits, PowerIs DEF Int32, Ints
  <2>2. 0 \in S
    OBVIOUS
  <2>3. ASSUME NEW n \in Nat, n \in S PROVE n + 1 \in S
    <3>1. SUFFICES ASSUME n + 1 \in 4 .. 8 PROVE Power[n + 1] >= Power[4] /\ Power[n + 1] > 0
      OBVIOUS
    <3>2. CASE n + 1 = 4
      BY <2>1, <3>2
    <3>3. CASE n + 1 # 4
      <4>1. n \in 4 .. 8 /\ n + 1 \in 1 .. 8 /\ n + 1 - 1 = n
        BY <3>1, <3>3
      <4>2. Power[n + 1] = Base * Power[n] /\ Power[n] > 0 /\ Power[n] >= Power[4] /\ Power[n] \in Int
        BY <2>3, <4>1, PowerIs
      <4>3. Base \in Nat /\ Base >= 1
        BY Bases
      <4>4. PICK x \in Int, y \in Int : x = Power[n] /\ y = Power[4]
        BY <2>1, <4>2
      <4>5. Base * x \in Int /\ Base * x >= x
        BY <4>2, <4>3, <4>4
      <4>6. Power[n + 1] = Base * x
        BY <4>2, <4>4, Zenon
      <4> QED
        BY <4>2, <4>4, <4>5, <4>6
    <3> QED
      BY <3>2, <3>3
  <2> HIDE DEF S
  <2>4. Nat \subseteq S
    BY <2>2, <2>3, Induction
  <2> QED
    BY <2>4 DEF S
<1>2. Power[8] >= Power[4] /\ Power[8] \in Int /\ Power[4] \in Int
  BY <1>1, PowerIs
<1> QED
  BY <1>2 DEF Int32, Ints

LEMMA HeadType ==
  ASSUME NEW n \in Int32, n >= 0
  PROVE  TableHead(n) \in Seq(Octets) /\ Len(TableHead(n)) >= 1
<1>1. n \in Int /\ MaxCookie - 1 \in Int
  BY LimitsAreNumbers DEF Int32, Ints
<1>2. \A b \in Octets : <<b>> \in Seq(Octets) /\ Len(<<b>>) = 1
  OBVIOUS
<1>3. \A b \in Octets, d \in Seq(Octets) : <<b>> \o d \in Seq(Octets) /\ Len(<<b>> \o d) >= 1
  OBVIOUS
<1>4. Type("table", n) \in Octets /\ Type("table", MaxCookie - 1) \in Octets
  BY <1>1, TypeType DEF Kinds
<1>5. WbInteger(n) \in Seq(Octets)
  BY <1>1, IntegerType
<1>6. \/ TableHead(n) = <<Type("table", n)>>
      \/ TableHead(n) = <<Type("table", MaxCookie - 1)>> \o WbInteger(n)
  BY Zenon DEF TableHead
<1>7. CASE TableHead(n) = <<Type("table", n)>>
  <2>1. <<Type("table", n)>> \in Seq(Octets) /\ Len(<<Type("table", n)>>) = 1
    BY <1>2, <1>4, Zenon
  <2> QED
    BY <1>7, <2>1
<1>8. CASE TableHead(n) = <<Type("table", MaxCookie - 1)>> \o WbInteger(n)
  BY <1>3, <1>4, <1>5, <1>8, Zenon
<1> QED
  BY <1>6, <1>7, <1>8

LEMMA GetsHead ==
  ASSUME NEW r, NEW end, NEW n \in Int32, n >= 0, Ahead(r, TableHead(n), end)
  PROVE  Gets(ReadOne(r), Opens(n), r, Len(TableHead(n)), end)
<1> DEFINE q == RbRead(r, 1)
           max == MaxCookie - 1
<1>1. n \in Nat /\ max \in Int /\ n \in Ints(8) /\ n \in Int
  BY LimitsAreNumbers, SmallFits DEF Int32, Ints
<1>2. At(r) \in Nat /\ 1 \in Nat
  BY DEF Ahead, Reads
<1> HIDE DEF max
<1>3. CASE n >= max
  <2> DEFINE b == Type("table", max)
             d == WbInteger(n)
             g == ReadOne(q)
             l == Len(d)
  <2>1. b \in Octets /\ b.k = "table" /\ b.a = max
    BY <1>1, TypeType DEF Kinds
  <2>2. d \in Seq(Octets) /\ l \in Nat
    BY <1>1, IntegerType
  <2>3. TableHead(n) = <<b>> \o d
    BY <1>3 DEF TableHead, max
  <2> HIDE DEF b, d
  <2>4. Ahead(q, d, end) /\ q.ok /\ q.bytes = r.bytes /\ At(q) = At(r) + 1 /\ q.data[1] = b
    BY <2>1, <2>2, <2>3, TypeFirst
  <2> HIDE DEF q
  <2> DEFINE p == RbRead(q, 1)
             c == Width(n).cookie
  <2>5. /\ Gets(g, Num(n), q, l, end)
        /\ p.ok /\ p.data[1] = Type("number", c)
    BY <1>1, <2>4, GetsNumber DEF d
  <2>6. c \in {0, 1, 2, 4, 6} /\ Type("number", c).a = c /\ Type("number", c).k = "number"
    BY <1>1, WidthType DEF Type
  <2>7. g = GetInteger(p, c)
    <3>1. g = PushValue(p, p.data[1])
      BY DEF ReadOne
    <3> HIDE DEF p, c, g
    <3>2. PushValue(p, Type("number", c)) = GetInteger(p, c)
      BY <2>6 DEF PushValue
    <3> QED
      BY <2>5, <3>1, <3>2, Zenon
  <2> HIDE DEF l
  <2>8. Gets(g, Num(n), r, 1 + l, end)
    <3> HIDE DEF g
    <3> QED
      BY <1>2, <2>2, <2>4, <2>5, GetsThen
  <2>9. GetTable(q, max) = [r |-> g.r, v |-> Opens(n)]
    <3>1. GetTable(q, max) =
            IF ~p.ok \/ p.data[1].k # "number" \/ p.data[1].a = 8 THEN Invalid(p)
            ELSE IF GetInteger(p, p.data[1].a).v.t = "invalid" THEN GetInteger(p, p.data[1].a)
            ELSE Read(GetInteger(p, p.data[1].a).r, Opens(GetInteger(p, p.data[1].a).v.int))
      BY Zenon DEF GetTable, max
    <3> HIDE DEF p, c, g
    <3>2. p.ok /\ p.data[1].k = "number" /\ p.data[1].a = c /\ c # 8
      BY <2>5, <2>6
    <3>3. g.v.t = "integer" /\ g.v.int = n
      BY <2>5 DEF Gets, Num
    <3> QED
      BY <2>7, <3>1, <3>2, <3>3 DEF Read
  <2>10. PushValue(q, b) = GetTable(q, max)
    BY <2>1 DEF PushValue
  <2>11. ReadOne(r) = [r |-> g.r, v |-> Opens(n)]
    BY <2>4, <2>9, <2>10 DEF ReadOne, q
  <2>12. Len(TableHead(n)) = 1 + l
    BY <2>1, <2>2, <2>3, BehindByte DEF l
  <2> HIDE DEF g
  <2> QED
    BY <2>8, <2>11, <2>12 DEF Gets
<1>4. CASE n < max
  <2> DEFINE b == Type("table", n)
  <2>1. b \in Octets /\ b.k = "table" /\ b.a = n
    BY <1>1, TypeType DEF Kinds
  <2>2. TableHead(n) = <<b>>
    <3>1. ~ (n >= max)
      BY <1>1, <1>4
    <3> QED
      BY <3>1, Zenon DEF TableHead, max
  <2> HIDE DEF b
  <2>3. Reads(q, end) /\ q.ok /\ q.bytes = r.bytes /\ At(q) = At(r) + 1 /\ q.data[1] = b
    BY <2>1, <2>2, TypeAlone
  <2> HIDE DEF q
  <2>4. PushValue(q, b) = GetTable(q, n)
    BY <2>1 DEF PushValue
  <2>5. GetTable(q, n) = [r |-> q, v |-> Opens(n)]
    <3>1. n # MaxCookie - 1
      BY <1>1, <1>4 DEF max
    <3> QED
      BY <3>1, Zenon DEF GetTable, Read
  <2>6. ReadOne(r) = [r |-> q, v |-> Opens(n)]
    BY <2>3, <2>4, <2>5 DEF ReadOne, q
  <2>7. Len(TableHead(n)) = 1
    BY <2>2
  <2> QED
    BY <2>3, <2>6, <2>7 DEF Gets
<1> QED
  BY <1>1, <1>3, <1>4

-----------------------------------------------------------------------------
(* Tables, and how one is rebuilt                                           *)

IsMap(m) ==
  /\ IsFiniteSet(m) /\ m \subseteq (Values \ {Nil}) \X (Values \ {Nil})
  /\ \A p, q \in m : p[1] = q[1] => p = q

LEMMA ValueKinds ==
  ASSUME NEW v \in Values
  PROVE  /\ v.t \notin {"open", "invalid", "none"} /\ v # None
         /\ v.t = "table" => v = Table(v.map) /\ IsMap(v.map)
         /\ v.t # "table" => IsScalar(v)
         /\ v.t = "integer" => v = Num(v.int) /\ v.int \in Int
<1>1. IsScalar(v) \/ IsTable(v)
  BY ValuesAreLua
<1>2. CASE IsScalar(v)
  <2>1. CASE v \in {Nil, Bool(TRUE), Bool(FALSE), Real, Ptr, Function}
    BY <1>2, <2>1 DEF Nil, Bool, Real, Ptr, Function, None
  <2>2. CASE v.t = "integer" /\ v = Num(v.int) /\ v.int \in Ints(8)
    <3>1. v.int \in Int
      BY <2>2 DEF Ints
    <3> QED
      BY <1>2, <2>2, <3>1 DEF None
  <2>3. CASE v.t = "string" /\ v = Str(v.len) /\ v.len \in Int32 /\ v.len >= 0
    BY <1>2, <2>3 DEF None
  <2> QED
    BY <1>2, <2>1, <2>2, <2>3 DEF IsScalar
<1>3. CASE IsTable(v)
  BY <1>3 DEF IsTable, IsMap, None
<1> QED
  BY <1>1, <1>2, <1>3

LEMMA PairsAre ==
  ASSUME NEW m, IsMap(m), NEW p \in m
  PROVE  /\ p = <<p[1], p[2]>> /\ p[1] \in Values /\ p[2] \in Values
         /\ p[1] # Nil /\ p[2] # Nil /\ p[1] # None
         /\ p[1].t = "integer" => p[1] = Num(p[1].int) /\ p[1].int \in Int
<1>1. p \in (Values \ {Nil}) \X (Values \ {Nil})
  BY DEF IsMap
<1>2. p = <<p[1], p[2]>> /\ p[1] \in Values /\ p[2] \in Values /\ p[1] # Nil /\ p[2] # Nil
  BY <1>1
<1> QED
  BY <1>2, ValueKinds

\* The pairs whose keys are the indices up to i.
Indexed(m, i) == {p \in m : p[1].t = "integer" /\ p[1].int \in 1 .. i}

LEMMA ValueAtIs ==
  ASSUME NEW m, IsMap(m), NEW i \in Int
  PROVE  \/ /\ i \in Indices(m) /\ <<Num(i), ValueAt(m, i)>> \in m
            /\ ValueAt(m, i) # Nil /\ ValueAt(m, i) \in Values
         \/ i \notin Indices(m) /\ ValueAt(m, i) = Nil
<1>1. CASE i \in Indices(m)
  <2>1. PICK q \in m : q[1].t = "integer" /\ q[1].int = i
    BY <1>1 DEF Indices
  <2>2. q[1] = Num(i)
    BY <2>1, PairsAre
  <2> DEFINE p == CHOOSE p \in m : p[1] = Num(i)
  <2>3. p \in m /\ p[1] = Num(i)
    BY <2>2, Zenon
  <2>4. ValueAt(m, i) = p[2]
    BY <1>1 DEF ValueAt
  <2> HIDE DEF p
  <2> QED
    BY <1>1, <2>3, <2>4, PairsAre
<1>2. CASE i \notin Indices(m)
  BY <1>2 DEF ValueAt
<1> QED
  BY <1>1, <1>2

LEMMA IndexedStep ==
  ASSUME NEW m, IsMap(m), NEW c \in Nat
  PROVE  LET v == ValueAt(m, c + 1)
         IN  Indexed(m, c + 1) = IF v = Nil THEN Indexed(m, c) ELSE Indexed(m, c) \cup {<<Num(c + 1), v>>}
<1> DEFINE i == c + 1
           v == ValueAt(m, i)
<1>1. i \in Int /\ \A p \in m : p[1].t = "integer" => p[1].int \in Int /\ p[1] = Num(p[1].int)
  BY PairsAre
<1>2. \A p \in m : p \in Indexed(m, i) <=> p \in Indexed(m, c) \/ (p[1].t = "integer" /\ p[1].int = i)
  BY <1>1 DEF Indexed
<1>3. Indexed(m, i) \subseteq m /\ Indexed(m, c) \subseteq m
  BY DEF Indexed
<1> HIDE DEF i
<1>4. CASE i \in Indices(m)
  <2>1. <<Num(i), v>> \in m /\ v # Nil
    BY <1>1, <1>4, ValueAtIs
  <2>2. <<Num(i), v>>[1] = Num(i) /\ Num(i).t = "integer" /\ Num(i).int = i
    BY DEF Num
  <2>3. \A p \in m : p[1].t = "integer" /\ p[1].int = i <=> p = <<Num(i), v>>
    <3>1. TAKE p \in m
    <3>2. ASSUME p[1].t = "integer", p[1].int = i PROVE p = <<Num(i), v>>
      <4>1. p[1] = <<Num(i), v>>[1]
        BY <1>1, <2>2, <3>2
      <4> HIDE DEF v
      <4> QED
        BY <2>1, <4>1, Zenon DEF IsMap
    <3> QED
      BY <2>2, <3>2
  <2> HIDE DEF v
  <2>4. Indexed(m, i) = Indexed(m, c) \cup {<<Num(i), v>>}
    BY <1>2, <1>3, <2>1, <2>3
  <2> QED
    BY <2>1, <2>4 DEF v, i
<1>5. CASE i \notin Indices(m)
  <2>1. v = Nil
    BY <1>5 DEF ValueAt
  <2>2. \A p \in m : ~ (p[1].t = "integer" /\ p[1].int = i)
    BY <1>5 DEF Indices
  <2>3. Indexed(m, i) = Indexed(m, c)
    BY <1>2, <1>3, <2>2
  <2> QED
    BY <2>1, <2>3 DEF i, v
<1> QED
  BY <1>4, <1>5

\* What is left of a list after c of its elements.
Left(s, c) == [i \in 1 .. Len(s) - c |-> s[c + i]]

LEMMA LeftIs ==
  ASSUME NEW T, NEW s \in Seq(T), NEW c \in Nat, c <= Len(s)
  PROVE  /\ Left(s, c) \in Seq(T) /\ Len(Left(s, c)) = Len(s) - c
         /\ c = 0 => Left(s, c) = s
         /\ Left(s, c) = <<>> <=> c = Len(s)
         /\ c < Len(s) => Head(Left(s, c)) = s[c + 1] /\ Tail(Left(s, c)) = Left(s, c + 1)
<1> DEFINE n == Len(s) - c
           l == Left(s, c)
<1>1. n \in Nat /\ \A i \in 1 .. n : s[c + i] \in T
  <2>1. Len(s) \in Nat
    OBVIOUS
  <2>2. \A i \in 1 .. n : c + i \in 1 .. Len(s)
    BY <2>1
  <2> QED
    BY <2>1, <2>2
<1>2. l = [i \in 1 .. n |-> s[c + i]]
  BY DEF Left
<1> HIDE DEF n, l
<1>3. l \in Seq(T) /\ Len(l) = n /\ \A i \in 1 .. n : l[i] = s[c + i]
  BY <1>1, <1>2
<1>4. c = 0 => l = s
  <2>1. SUFFICES ASSUME c = 0 PROVE l = s
    OBVIOUS
  <2>2. n = Len(s) /\ \A i \in 1 .. n : c + i = i
    BY <2>1 DEF n
  <2>3. \A i \in 1 .. n : l[i] = s[i]
    BY <1>3, <2>2
  <2> QED
    BY <1>3, <2>2, <2>3, SeqEqual
<1>5. l = <<>> <=> c = Len(s)
  BY <1>1, <1>3 DEF n
<1>6. c < Len(s) => Head(l) = s[c + 1] /\ Tail(l) = Left(s, c + 1)
  <2>1. SUFFICES ASSUME c < Len(s) PROVE Head(l) = s[c + 1] /\ Tail(l) = Left(s, c + 1)
    OBVIOUS
  <2>2. n >= 1
    BY <2>1 DEF n
  <2>3. Head(l) = s[c + 1]
    BY <1>1, <1>3, <2>2
  <2>4. Tail(l) = [i \in 1 .. n - 1 |-> l[i + 1]]
    <3>1. l # <<>>
      BY <1>1, <1>3, <2>2
    <3>2. /\ Tail(l) \in Seq(T) /\ Len(Tail(l)) = n - 1
          /\ \A i \in 1 .. n - 1 : Tail(l)[i] = l[i + 1]
      BY <1>1, <1>3, <3>1, HeadTailProperties
    <3>3. \A t \in Seq(T) : t = [i \in 1 .. Len(t) |-> t[i]]
      OBVIOUS
    <3>4. Tail(l) = [i \in 1 .. n - 1 |-> Tail(l)[i]]
      BY <3>2, <3>3, Zenon
    <3> QED
      BY <3>2, <3>4, Zenon
  <2>5. n - 1 = Len(s) - (c + 1)
    BY DEF n
  <2>6. \A i \in 1 .. n - 1 : l[i + 1] = s[c + 1 + i]
    <3>1. TAKE i \in 1 .. n - 1
    <3>2. i + 1 \in 1 .. n /\ c + (i + 1) = c + 1 + i
      BY <1>1
    <3> QED
      BY <1>3, <3>2
  <2>7. Left(s, c + 1) = [i \in 1 .. n - 1 |-> s[c + 1 + i]]
    BY <2>5, Zenon DEF Left
  <2> QED
    BY <2>3, <2>4, <2>6, <2>7, Zenon
<1> QED
  BY <1>3, <1>4, <1>5, <1>6 DEF l, n

\* What is packed behind the head of a table.
LEMMA ItemsAre ==
  ASSUME NEW m, IsMap(m), NEW n \in Nat, NEW pairs \in Orders(HashPart(m, n))
  PROVE  LET items == TableItems(m, n, pairs)
         IN  /\ items \in Seq(Values) /\ Len(items) = n + 2 * Len(pairs) /\ Len(pairs) \in Nat
             /\ DOMAIN pairs = 1 .. Len(pairs)
             /\ \A i \in 1 .. n : items[i] = ValueAt(m, i)
             /\ \A k \in 1 .. Len(pairs) :
                  /\ items[n + 2 * k - 1] = pairs[k][1] /\ items[n + 2 * k] = pairs[k][2]
                  /\ pairs[k] \in m
             /\ Range(pairs) = HashPart(m, n)
<1> DEFINE S == HashPart(m, n)
           l == Cardinality(S)
           new(i) == IF i <= n THEN ValueAt(m, i) ELSE pairs[(i - n + 1) \div 2][2 - ((i - n) % 2)]
           items == [i \in 1 .. n + 2 * l |-> new(i)]
<1>1. S \subseteq m /\ IsFiniteSet(S)
  <2>1. S \subseteq m
    BY DEF HashPart
  <2> QED
    BY <2>1, FS_Subset DEF IsMap
<1>2. l \in Nat
  BY <1>1, FS_CardinalityType
<1>3. pairs \in [1 .. l -> S] /\ Range(pairs) = S
  BY Zenon DEF Orders
<1> HIDE DEF S, l
<1>4. Len(pairs) = l /\ DOMAIN pairs = 1 .. l
  BY <1>2, <1>3
<1>5. TableItems(m, n, pairs) = items
  BY <1>4, Zenon DEF TableItems
<1>6. \A i \in 1 .. n : new(i) = ValueAt(m, i) /\ new(i) \in Values
  <2>1. \A i \in 1 .. n : ValueAt(m, i) \in Values
    <3>1. Nil \in Values
      BY ValuesAreLua
    <3>2. \A i \in Int : ValueAt(m, i) \in Values
      BY <3>1, ValueAtIs, Zenon
    <3>3. \A i \in 1 .. n : i \in Int
      OBVIOUS
    <3> QED
      BY <3>2, <3>3, Zenon
  <2> QED
    BY <2>1
<1>7. \A k \in 1 .. l : pairs[k] \in m /\ pairs[k][1] \in Values /\ pairs[k][2] \in Values
  BY <1>1, <1>3, PairsAre
<1>8. \A k \in 1 .. l : /\ new(n + 2 * k - 1) = pairs[k][1]
                       /\ new(n + 2 * k) = pairs[k][2]
  <2> TAKE k \in 1 .. l
  <2>1. PICK i \in Int, j \in Int : i = n + 2 * k - 1 /\ j = n + 2 * k
    BY <1>2
  <2>2. ~ (i <= n) /\ (i - n + 1) \div 2 = k /\ 2 - ((i - n) % 2) = 1
    BY <1>2, <2>1
  <2>3. ~ (j <= n) /\ (j - n + 1) \div 2 = k /\ 2 - ((j - n) % 2) = 2
    BY <1>2, <2>1
  <2>4. new(i) = pairs[k][1]
    BY <2>2, Zenon
  <2>5. new(j) = pairs[k][2]
    BY <2>3, Zenon
  <2> HIDE DEF new
  <2> QED
    BY <2>1, <2>4, <2>5, Zenon
<1>9. \A i \in 1 .. n + 2 * l : \/ i \in 1 .. n
                                \/ \E k \in 1 .. l : i = n + 2 * k - 1 \/ i = n + 2 * k
  <2>1. TAKE i \in 1 .. n + 2 * l
  <2>2. SUFFICES ASSUME i > n PROVE \E k \in 1 .. l : i = n + 2 * k - 1 \/ i = n + 2 * k
    BY <1>2
  <2>3. (i - n + 1) \div 2 \in 1 .. l
    BY <1>2, <2>2
  <2>4. i = n + 2 * ((i - n + 1) \div 2) - 1 \/ i = n + 2 * ((i - n + 1) \div 2)
    BY <1>2, <2>2
  <2> QED
    BY <2>3, <2>4
<1>10. \A i \in 1 .. n + 2 * l : new(i) \in Values
  <2> HIDE DEF new
  <2> QED
    BY <1>6, <1>7, <1>8, <1>9
<1> HIDE DEF new
<1>11. items \in Seq(Values) /\ Len(items) = n + 2 * l
  BY <1>2, <1>10
<1>12. \A i \in 1 .. n : items[i] = ValueAt(m, i)
  BY <1>2, <1>6
<1>13. \A k \in 1 .. l : items[n + 2 * k - 1] = pairs[k][1] /\ items[n + 2 * k] = pairs[k][2]
  <2>1. \A k \in 1 .. l : n + 2 * k - 1 \in 1 .. n + 2 * l /\ n + 2 * k \in 1 .. n + 2 * l
    BY <1>2
  <2> QED
    BY <1>8, <2>1
<1> HIDE DEF items
<1> QED
  BY <1>2, <1>3, <1>4, <1>5, <1>7, <1>11, <1>12, <1>13 DEF S

\* A table that is being unpacked, f, has what was packed of m but for rest.
Frame(n, got, map, key) == [want |-> n, got |-> got, map |-> map, key |-> key]
Taken(m, n, pairs, k) == Indexed(m, n) \cup {pairs[j] : j \in 1 .. k}
InArray(f, m, rest, n, pairs) ==
  \E c \in 0 .. n :
     /\ f = Frame(n, c, Indexed(m, c), None)
     /\ rest = Left(TableItems(m, n, pairs), c)
BeforeKey(f, m, rest, n, pairs) ==
  \E k \in 0 .. Len(pairs) :
     /\ f = Frame(n, n, Taken(m, n, pairs, k), None)
     /\ rest = Left(TableItems(m, n, pairs), n + 2 * k)
BehindKey(f, m, rest, n, pairs) ==
  \E k \in 1 .. Len(pairs) :
     /\ f = Frame(n, n, Taken(m, n, pairs, k - 1), pairs[k][1])
     /\ rest = Left(TableItems(m, n, pairs), n + 2 * k - 1)
Fits(f, m, rest) ==
  \E n \in Nat : \E pairs \in Orders(HashPart(m, n)) :
     \/ InArray(f, m, rest, n, pairs)
     \/ BeforeKey(f, m, rest, n, pairs)
     \/ BehindKey(f, m, rest, n, pairs)

LEMMA FitsStart ==
  ASSUME NEW m, IsMap(m), NEW n \in Nat, NEW pairs \in Orders(HashPart(m, n))
  PROVE  Fits(NewTable(n), m, TableItems(m, n, pairs))
<1> DEFINE items == TableItems(m, n, pairs)
<1>1. items \in Seq(Values) /\ Len(items) \in Nat
  BY ItemsAre
<1> HIDE DEF items
<1>2. Left(items, 0) = items
  BY <1>1, LeftIs
<1>3. NewTable(n) = Frame(n, 0, Indexed(m, 0), None)
  <2>1. Indexed(m, 0) = {}
    BY DEF Indexed
  <2> QED
    BY <2>1 DEF NewTable, Frame
<1>4. 0 \in 0 .. n
  OBVIOUS
<1>5. InArray(NewTable(n), m, items, n, pairs)
  BY <1>2, <1>3, <1>4, Zenon DEF InArray, items
<1> QED
  BY <1>5 DEF Fits, items

\* The whole of the array part is where the first key begins.
LEMMA ArrayEnds ==
  ASSUME NEW f, NEW m, NEW rest, NEW n \in Nat, NEW pairs, Len(pairs) \in Nat,
         f = Frame(n, n, Indexed(m, n), None), rest = Left(TableItems(m, n, pairs), n)
  PROVE  BeforeKey(f, m, rest, n, pairs)
<1>1. Taken(m, n, pairs, 0) = Indexed(m, n)
  BY DEF Taken
<1>2. 0 \in 0 .. Len(pairs) /\ n + 2 * 0 = n
  OBVIOUS
<1> QED
  BY <1>1, <1>2, Zenon DEF BeforeKey

\* Each of the values behind the head is taken in its turn ...
LEMMA FitsStep ==
  ASSUME NEW m, IsMap(m), NEW f, NEW rest, Fits(f, m, rest), rest # <<>>
  PROVE  ~Ends(f, Head(rest)) /\ Fits(Into(f, Head(rest)), m, Tail(rest))
<1>0. PICK n \in Nat : \E pairs \in Orders(HashPart(m, n)) :
         \/ InArray(f, m, rest, n, pairs)
         \/ BeforeKey(f, m, rest, n, pairs)
         \/ BehindKey(f, m, rest, n, pairs)
  BY DEF Fits
<1>1. PICK pairs \in Orders(HashPart(m, n)) :
         \/ InArray(f, m, rest, n, pairs)
         \/ BeforeKey(f, m, rest, n, pairs)
         \/ BehindKey(f, m, rest, n, pairs)
  BY <1>0
<1> DEFINE items == TableItems(m, n, pairs)
           l == Len(pairs)
           v == Head(rest)
<1>2. /\ items \in Seq(Values) /\ Len(items) = n + 2 * l /\ l \in Nat
      /\ \A i \in 1 .. n : items[i] = ValueAt(m, i)
      /\ \A k \in 1 .. l :
           /\ items[n + 2 * k - 1] = pairs[k][1] /\ items[n + 2 * k] = pairs[k][2]
           /\ pairs[k] \in m
  BY ItemsAre
<1> HIDE DEF items, l, v
<1>3. ASSUME NEW c \in Nat, rest = Left(items, c), c <= Len(items)
      PROVE  c < Len(items) /\ v = items[c + 1] /\ Tail(rest) = Left(items, c + 1)
  <2>1. /\ Left(items, c) = <<>> <=> c = Len(items)
        /\ c < Len(items) => /\ Head(Left(items, c)) = items[c + 1]
                             /\ Tail(Left(items, c)) = Left(items, c + 1)
    <3>1. items \in Seq(Values)
      BY <1>2
    <3> QED
      BY <1>3, <3>1, LeftIs
  <2>2. c < Len(items)
    BY <1>2, <1>3, <2>1
  <2> QED
    BY <1>3, <2>1, <2>2, Zenon DEF v
<1>4. ASSUME BeforeKey(f, m, rest, n, pairs)
      PROVE  ~Ends(f, v) /\ Fits(Into(f, v), m, Tail(rest))
  <2>1. PICK k \in 0 .. l :
           /\ f = Frame(n, n, Taken(m, n, pairs, k), None)
           /\ rest = Left(items, n + 2 * k)
    BY <1>4 DEF BeforeKey, items, l
  <2>2. n + 2 * k \in Nat /\ n + 2 * k <= Len(items) /\ k \in Nat
    BY <1>2, <2>1
  <2>3. /\ n + 2 * k < n + 2 * l /\ v = items[n + 2 * k + 1]
        /\ Tail(rest) = Left(items, n + 2 * k + 1)
    BY <1>2, <1>3, <2>1, <2>2
  <2>4. PICK j \in 1 .. l : j - 1 = k /\ n + 2 * k + 1 = n + 2 * j - 1
    <3>1. k < l
      <4>1. n + 2 * k < n + 2 * l
        BY <2>3
      <4> QED
        BY <1>2, <2>2, <4>1
    <3>2. k + 1 \in 1 .. l /\ (k + 1) - 1 = k
      BY <1>2, <2>2, <3>1
    <3>3. n + 2 * k + 1 = n + 2 * (k + 1) - 1
      BY <2>2
    <3> QED
      BY <3>2, <3>3, Zenon
  <2>5. v = pairs[j][1] /\ v # Nil
    <3>1. items[n + 2 * j - 1] = pairs[j][1] /\ pairs[j] \in m
      BY <1>2
    <3>2. pairs[j][1] # Nil
      BY <3>1, PairsAre
    <3> QED
      BY <2>3, <2>4, <3>1, <3>2
  <2>6. Into(f, v) = Frame(n, n, Taken(m, n, pairs, j - 1), pairs[j][1])
    <3>1. f.got = f.want /\ f.want = n /\ f.key = None
      BY <2>1 DEF Frame
    <3>2. ~ (f.got < f.want)
      BY <3>1
    <3>3. Into(f, v) = [f EXCEPT !.key = v]
      BY <3>1, <3>2, Zenon DEF Into
    <3>4. f = [want |-> n, got |-> n, map |-> Taken(m, n, pairs, j - 1), key |-> None]
      BY <2>1, <2>4 DEF Frame
    <3>5. Into(f, v) = [want |-> n, got |-> n, map |-> Taken(m, n, pairs, j - 1), key |-> v]
      BY <3>3, <3>4
    <3> QED
      BY <2>5, <3>5 DEF Frame
  <2>7. Tail(rest) = Left(items, n + 2 * j - 1)
    BY <2>3, <2>4
  <2>8. BehindKey(Into(f, v), m, Tail(rest), n, pairs)
    BY <2>6, <2>7, Zenon DEF BehindKey, items, l
  <2>9. Fits(Into(f, v), m, Tail(rest))
    BY <2>8 DEF Fits
  <2> QED
    BY <2>5, <2>9 DEF Ends
<1>5. CASE BehindKey(f, m, rest, n, pairs)
  <2>1. PICK k \in 1 .. l :
           /\ f = Frame(n, n, Taken(m, n, pairs, k - 1), pairs[k][1])
           /\ rest = Left(items, n + 2 * k - 1)
    BY <1>5 DEF BehindKey, items, l
  <2>2. n + 2 * k - 1 \in Nat /\ n + 2 * k - 1 <= Len(items) /\ k \in 0 .. l
        /\ n + 2 * k - 1 + 1 = n + 2 * k
    BY <1>2, <2>1
  <2>3. v = items[n + 2 * k] /\ Tail(rest) = Left(items, n + 2 * k)
    BY <1>3, <2>1, <2>2
  <2>4. v = pairs[k][2] /\ pairs[k] \in m
    BY <1>2, <2>1, <2>3
  <2>5. pairs[k] = <<pairs[k][1], v>> /\ v # Nil /\ pairs[k][1] # None
    BY <2>4, PairsAre
  <2>6. Taken(m, n, pairs, k) = Taken(m, n, pairs, k - 1) \cup {<<pairs[k][1], v>>}
    <3>1. 1 .. k = (1 .. k - 1) \cup {k}
      BY <2>1
    <3>2. {pairs[j] : j \in 1 .. k} = {pairs[j] : j \in 1 .. k - 1} \cup {pairs[k]}
      BY <3>1
    <3> QED
      BY <2>5, <3>2 DEF Taken
  <2>7. f.got = f.want /\ f.want = n /\ f.key = pairs[k][1] /\ f.map = Taken(m, n, pairs, k - 1)
    BY <2>1 DEF Frame
  <2>8. Into(f, v) = [f EXCEPT !.key = None, !.map = f.map \cup {<<f.key, v>>}]
    BY <2>5, <2>7 DEF Into
  <2>9. Into(f, v) = Frame(n, n, Taken(m, n, pairs, k), None)
    BY <2>1, <2>6, <2>7, <2>8 DEF Frame
  <2>10. BeforeKey(Into(f, v), m, Tail(rest), n, pairs)
    BY <2>2, <2>3, <2>9, Zenon DEF BeforeKey, items, l
  <2>11. Fits(Into(f, v), m, Tail(rest))
    BY <2>10 DEF Fits
  <2> QED
    BY <2>5, <2>7, <2>11 DEF Ends, v
<1>6. CASE InArray(f, m, rest, n, pairs)
  <2>1. PICK c \in 0 .. n : f = Frame(n, c, Indexed(m, c), None) /\ rest = Left(items, c)
    BY <1>6 DEF InArray, items
  <2>2. CASE c = n
    <3>1. BeforeKey(f, m, rest, n, pairs)
      BY <1>2, <2>1, <2>2, ArrayEnds DEF items, l
    <3> QED
      BY <1>4, <3>1 DEF v
  <2>3. CASE c < n
    <3>1. c \in Nat /\ c + 1 \in 0 .. n /\ c + 1 \in 1 .. n /\ c <= Len(items)
      BY <1>2, <2>1, <2>3
    <3>2. v = ValueAt(m, c + 1) /\ Tail(rest) = Left(items, c + 1)
      BY <1>2, <1>3, <2>1, <3>1
    <3>3. Indexed(m, c + 1) = IF v = Nil THEN Indexed(m, c) ELSE Indexed(m, c) \cup {<<Num(c + 1), v>>}
      BY <3>1, <3>2, IndexedStep
    <3>4. f.got = c /\ f.want = n /\ f.key = None /\ f.map = Indexed(m, c)
      BY <2>1 DEF Frame
    <3>5. Into(f, v) = [f EXCEPT !.got = c + 1, !.map = Indexed(m, c + 1)]
      BY <2>3, <3>3, <3>4 DEF Into
    <3>6. Into(f, v) = Frame(n, c + 1, Indexed(m, c + 1), None)
      BY <2>1, <3>5 DEF Frame
    <3>7. InArray(Into(f, v), m, Tail(rest), n, pairs)
      BY <3>1, <3>2, <3>6, Zenon DEF InArray, items
    <3>8. Fits(Into(f, v), m, Tail(rest))
      BY <3>7 DEF Fits
    <3>9. ~Ends(f, v)
      BY <2>1, <2>3, <3>4 DEF Ends
    <3> QED
      BY <3>8, <3>9 DEF v
  <2> QED
    BY <2>1, <2>2, <2>3
<1> QED
  BY <1>1, <1>4, <1>5, <1>6 DEF v

\* ... until the nil behind them finds the table complete.
LEMMA FitsEnd ==
  ASSUME NEW m, IsMap(m), NEW f, Fits(f, m, <<>>)
  PROVE  Ends(f, Nil) /\ f.map = m
<1>0. PICK n \in Nat : \E pairs \in Orders(HashPart(m, n)) :
         \/ InArray(f, m, <<>>, n, pairs)
         \/ BeforeKey(f, m, <<>>, n, pairs)
         \/ BehindKey(f, m, <<>>, n, pairs)
  BY DEF Fits
<1>1. PICK pairs \in Orders(HashPart(m, n)) :
         \/ InArray(f, m, <<>>, n, pairs)
         \/ BeforeKey(f, m, <<>>, n, pairs)
         \/ BehindKey(f, m, <<>>, n, pairs)
  BY <1>0
<1> DEFINE items == TableItems(m, n, pairs)
           l == Len(pairs)
<1>2. /\ items \in Seq(Values) /\ Len(items) = n + 2 * l /\ l \in Nat
      /\ DOMAIN pairs = 1 .. l /\ Range(pairs) = HashPart(m, n)
  BY ItemsAre
<1> HIDE DEF items, l
<1>3. ASSUME NEW c \in Nat, <<>> = Left(items, c), c <= Len(items) PROVE c = n + 2 * l
  BY <1>2, <1>3, LeftIs
<1>4. ASSUME BeforeKey(f, m, <<>>, n, pairs)
      PROVE  Ends(f, Nil) /\ f.map = m
  <2>1. PICK k \in 0 .. l :
           /\ f = Frame(n, n, Taken(m, n, pairs, k), None)
           /\ <<>> = Left(items, n + 2 * k)
    BY <1>4 DEF BeforeKey, items, l
  <2>2. n + 2 * k \in Nat /\ n + 2 * k <= Len(items) /\ k \in Nat
    BY <1>2, <2>1
  <2>3. k = l
    BY <1>2, <1>3, <2>1, <2>2
  <2>4. {pairs[j] : j \in 1 .. l} = HashPart(m, n)
    BY <1>2 DEF Range
  <2>5. Indexed(m, n) \cup HashPart(m, n) = m
    BY DEF Indexed, HashPart
  <2>6. f = Frame(n, n, m, None)
    BY <2>1, <2>3, <2>4, <2>5 DEF Taken
  <2> QED
    BY <2>6 DEF Ends, Frame
<1>5. CASE BehindKey(f, m, <<>>, n, pairs)
  <2>1. PICK k \in 1 .. l : <<>> = Left(items, n + 2 * k - 1)
    BY <1>5 DEF BehindKey, items, l
  <2>2. n + 2 * k - 1 \in Nat /\ n + 2 * k - 1 <= Len(items) /\ n + 2 * k - 1 # n + 2 * l
    BY <1>2, <2>1
  <2> QED
    BY <1>3, <2>1, <2>2
<1>6. CASE InArray(f, m, <<>>, n, pairs)
  <2>1. PICK c \in 0 .. n : f = Frame(n, c, Indexed(m, c), None) /\ <<>> = Left(items, c)
    BY <1>6 DEF InArray, items
  <2>2. c \in Nat /\ c <= Len(items)
    BY <1>2, <2>1
  <2>3. c = n + 2 * l
    BY <1>3, <2>1, <2>2
  <2>4. c = n
    BY <1>2, <2>1, <2>3
  <2>5. BeforeKey(f, m, <<>>, n, pairs)
    BY <1>2, <2>1, <2>4, ArrayEnds DEF items, l
  <2> QED
    BY <1>4, <2>5
<1> QED
  BY <1>1, <1>4, <1>5, <1>6

-----------------------------------------------------------------------------
(* What one side has packed and what the other has unpacked of it           *)

LEMMA Prepended ==
  ASSUME NEW S, NEW s \in Seq(S), NEW x \in S
  PROVE  LET t == <<x>> \o s
         IN  /\ t \in Seq(S) /\ Len(t) = Len(s) + 1 /\ t[1] = x /\ t # <<>>
             /\ \A k \in 1 .. Len(s) : t[k + 1] = s[k]
             /\ Head(t) = x /\ Tail(t) = s
<1> DEFINE t == <<x>> \o s
<1>1. /\ t \in Seq(S) /\ Len(t) = Len(s) + 1 /\ t[1] = x /\ Len(s) \in Nat
      /\ \A k \in 1 .. Len(s) : t[k + 1] = s[k]
  OBVIOUS
<1> HIDE DEF t
<1>2. t # <<>>
  BY <1>1
<1>3. Head(t) = x
  BY <1>1, <1>2
<1>4. Tail(t) = s
  <2>1. /\ Tail(t) \in Seq(S) /\ Len(Tail(t)) = Len(s)
        /\ \A k \in 1 .. Len(s) : Tail(t)[k] = t[k + 1]
    BY <1>1, <1>2, HeadTailProperties
  <2> QED
    BY <1>1, <2>1, SeqEqual
<1> QED
  BY <1>1, <1>2, <1>3, <1>4 DEF t

LEMMA HeadAndTail ==
  ASSUME NEW S, NEW s \in Seq(S), s # <<>>
  PROVE  /\ Head(s) \in S /\ Head(s) = s[1] /\ Tail(s) \in Seq(S) /\ s = <<Head(s)>> \o Tail(s)
         /\ Len(s) \in Nat /\ Len(s) >= 1 /\ Len(Tail(s)) = Len(s) - 1
         /\ \A k \in 1 .. Len(s) - 1 : Tail(s)[k] = s[k + 1]
<1>1. /\ Head(s) \in S /\ Head(s) = s[1] /\ Tail(s) \in Seq(S) /\ Len(s) \in Nat /\ Len(s) >= 1
      /\ Len(Tail(s)) = Len(s) - 1 /\ \A k \in 1 .. Len(s) - 1 : Tail(s)[k] = s[k + 1]
  BY HeadTailProperties
<1> DEFINE t == <<Head(s)>> \o Tail(s)
<1>2. /\ t \in Seq(S) /\ Len(t) = Len(s) /\ t[1] = Head(s)
      /\ \A k \in 1 .. Len(s) - 1 : t[k + 1] = Tail(s)[k]
  BY <1>1, Prepended
<1> HIDE DEF t
<1>3. \A i \in 1 .. Len(s) : t[i] = s[i]
  <2>1. TAKE i \in 1 .. Len(s)
  <2>2. CASE i = 1
    BY <1>1, <1>2, <2>2
  <2>3. CASE i # 1
    <3>1. PICK k \in 1 .. Len(s) - 1 : i = k + 1
      BY <1>1, <2>3
    <3> QED
      BY <1>1, <1>2, <3>1
  <2> QED
    BY <2>2, <2>3
<1>4. t = s
  BY <1>2, <1>3, SeqEqual
<1> QED
  BY <1>1, <1>4 DEF t

LEMMA Replace ==
  ASSUME NEW S, NEW s \in Seq(S), s # <<>>, NEW x \in S
  PROVE  LET t == [s EXCEPT ![1] = x]
         IN  /\ t \in Seq(S) /\ Len(t) = Len(s) /\ t[1] = x /\ t # <<>>
             /\ \A k \in 2 .. Len(s) : t[k] = s[k]
<1> DEFINE t == [s EXCEPT ![1] = x]
<1>1. Len(s) \in Nat /\ Len(s) >= 1
  BY HeadAndTail
<1>2. t \in Seq(S) /\ Len(t) = Len(s) /\ t[1] = x /\ \A k \in 2 .. Len(s) : t[k] = s[k]
  BY <1>1
<1> HIDE DEF t
<1>3. t # <<>>
  BY <1>1, <1>2
<1> QED
  BY <1>2, <1>3 DEF t

LEMMA AppendMoves ==
  ASSUME NEW S, NEW s \in Seq(S), NEW x \in S, NEW t \in Seq(S)
  PROVE  Append(s, x) \in Seq(S) /\ Append(s, x) \o t = s \o (<<x>> \o t)
<1>1. <<x>> \in Seq(S) /\ Append(s, x) = s \o <<x>> /\ Append(s, x) \in Seq(S)
  BY AppendIsConcat, AppendProperties
<1>2. (s \o <<x>>) \o t = s \o (<<x>> \o t)
  BY <1>1, ConcatAssociative
<1> QED
  BY <1>1, <1>2, Zenon

Todos == {t \in Seq(Seq(Values)) : t # <<>>}

\* A step of the packing: with t still to pack, c is packed and u is left.
PacksPlain(t, c, u) ==
  /\ t[1] # <<>> /\ Head(t[1]).t \notin {"table", "function"}
  /\ c = Plain(Head(t[1])) /\ u = [t EXCEPT ![1] = Tail(@)]
PacksTable(t, c, u) ==
  /\ t[1] # <<>> /\ Head(t[1]).t = "table"
  /\ \E n \in Borders(Head(t[1]).map) : \E pairs \in Orders(HashPart(Head(t[1]).map, n)) :
       /\ c = TableHead(n)
       /\ u = <<TableItems(Head(t[1]).map, n, pairs)>> \o [t EXCEPT ![1] = Tail(@)]
PacksEnd(t, c, u) ==
  /\ t[1] = <<>> /\ Len(t) > 1
  /\ c = Plain(Nil) /\ u = Tail(t)
Packs(t, c, u) == PacksPlain(t, c, u) \/ PacksTable(t, c, u) \/ PacksEnd(t, c, u)

LEMMA BorderIs ==
  ASSUME NEW m, NEW n \in Borders(m)
  PROVE  n \in Nat /\ n \in Int32 /\ n >= 0 /\ (n > 0 => n \in Indices(m))
BY DEF Borders, Int32, Ints

LEMMA NilIsPlain == Nil \in Values /\ IsScalar(Nil) /\ Nil.t = "nil"
BY ValuesAreLua DEF IsScalar, Nil

LEMMA PacksType ==
  ASSUME NEW t \in Todos, NEW c, NEW u, Packs(t, c, u)
  PROVE  c \in Seq(Octets) /\ Len(c) >= 1 /\ u \in Todos
<1>1. t \in Seq(Seq(Values)) /\ t # <<>> /\ t[1] \in Seq(Values) /\ Len(t) \in Nat
  <2>1. t \in Seq(Seq(Values)) /\ t # <<>>
    BY DEF Todos
  <2>2. Head(t) \in Seq(Values) /\ Head(t) = t[1] /\ Len(t) \in Nat
    BY <2>1, HeadAndTail, Zenon
  <2> QED
    BY <2>1, <2>2, Zenon
<1> DEFINE v == Head(t[1])
           l == Tail(t[1])
           d == [t EXCEPT ![1] = l]
<1>2. ASSUME t[1] # <<>> PROVE v \in Values /\ l \in Seq(Values)
  BY <1>1, <1>2, HeadAndTail
<1> HIDE DEF v, l
<1>3. ASSUME t[1] # <<>> PROVE d \in Seq(Seq(Values)) /\ d # <<>>
  BY <1>1, <1>2, <1>3, Replace
<1> HIDE DEF d
<1>4. CASE PacksPlain(t, c, u)
  <2>1. t[1] # <<>> /\ v.t \notin {"table", "function"} /\ c = Plain(v) /\ u = d
    BY <1>4 DEF PacksPlain, v, l, d
  <2>2. IsScalar(v)
    BY <1>2, <2>1, ValueKinds
  <2>3. c \in Seq(Octets) /\ Len(c) >= 1
    BY <2>1, <2>2, PlainType
  <2> QED
    BY <1>3, <2>1, <2>3 DEF Todos
<1>5. CASE PacksTable(t, c, u)
  <2>1. t[1] # <<>> /\ v.t = "table"
    BY <1>5 DEF PacksTable, v
  <2>2. PICK n \in Borders(v.map) : \E pairs \in Orders(HashPart(v.map, n)) :
          c = TableHead(n) /\ u = <<TableItems(v.map, n, pairs)>> \o d
    BY <1>5 DEF PacksTable, v, l, d
  <2>3. PICK pairs \in Orders(HashPart(v.map, n)) :
          c = TableHead(n) /\ u = <<TableItems(v.map, n, pairs)>> \o d
    BY <2>2
  <2>4. n \in Nat /\ n \in Int32 /\ n >= 0 /\ IsMap(v.map)
    BY <1>2, <2>1, BorderIs, ValueKinds
  <2>5. c \in Seq(Octets) /\ Len(c) >= 1
    BY <2>3, <2>4, HeadType
  <2>6. TableItems(v.map, n, pairs) \in Seq(Values)
    BY <2>4, ItemsAre
  <2>7. u \in Seq(Seq(Values)) /\ u # <<>>
    BY <1>3, <2>1, <2>3, <2>6, Prepended
  <2> QED
    BY <2>5, <2>7 DEF Todos
<1>6. CASE PacksEnd(t, c, u)
  <2>1. Len(t) > 1 /\ c = Plain(Nil) /\ u = Tail(t)
    BY <1>6 DEF PacksEnd
  <2>2. c \in Seq(Octets) /\ Len(c) >= 1
    BY <2>1, PlainType, NilIsPlain
  <2>3. u \in Seq(Seq(Values)) /\ Len(u) = Len(t) - 1
    BY <1>1, <2>1, HeadAndTail
  <2>4. u # <<>>
    <3>1. Len(u) # 0
      <4>1. PICK k \in Nat : k = Len(t)
        BY <1>1
      <4>2. k > 1 /\ Len(u) = k - 1
        BY <2>1, <2>3, <4>1
      <4> QED
        BY <4>2
    <3>2. Len(<<>>) = 0
      OBVIOUS
    <3> QED
      BY <3>1, <3>2, Zenon
  <2> QED
    BY <2>2, <2>3, <2>4 DEF Todos
<1> QED
  BY <1>4, <1>5, <1>6 DEF Packs

\* R has where each step of the packing began and what was to pack there, from
\* the whole of the list to last, where the packing is.
Follows(R, bytes, x, last) ==
  \E c \in Seq(Octets), u \in Todos :
     /\ Packs(x[2], c, u) /\ Holds(bytes, x[1], c)
     /\ x[1] + Len(c) <= last[1] /\ <<x[1] + Len(c), u>> \in R
Script(R, list, bytes, last) ==
  /\ R \subseteq Nat \X Todos
  /\ <<4, <<list>>>> \in R
  /\ \A x \in R : x[1] >= 4 /\ (x = last \/ Follows(R, bytes, x, last))

LEMMA ScriptGrows ==
  ASSUME NEW R, NEW list, NEW bytes, NEW p \in Nat, p >= 4, NEW t \in Todos,
         Script(R, list, bytes, <<p, t>>), NEW c \in Seq(Octets), NEW u \in Todos, Packs(t, c, u),
         NEW new, \A i \in 1 .. p : new[i] = bytes[i], Holds(new, p, c)
  PROVE  Script(R \cup {<<p + Len(c), u>>}, list, new, <<p + Len(c), u>>)
<1> DEFINE last == <<p + Len(c), u>>
           S == R \cup {last}
<1>1. Len(c) \in Nat
  OBVIOUS
<1>2. S \subseteq Nat \X Todos /\ <<4, <<list>>>> \in S
  BY <1>1 DEF Script
<1>3. ASSUME NEW x \in R PROVE x[1] >= 4 /\ Follows(S, new, x, last)
  <2>1. x[1] >= 4 /\ x[1] \in Nat /\ x[2] \in Todos /\ (x = <<p, t>> \/ Follows(R, bytes, x, <<p, t>>))
    BY DEF Script
  <2>2. CASE x = <<p, t>>
    <3>1. x[1] = p /\ x[2] = t
      BY <2>2
    <3>2. Packs(x[2], c, u) /\ Holds(new, x[1], c)
      BY <3>1, Zenon
    <3>3. last[1] = p + Len(c) /\ x[1] + Len(c) <= last[1] /\ <<x[1] + Len(c), u>> \in S
      BY <1>1, <3>1
    <3> HIDE DEF last, S
    <3> QED
      BY <2>1, <3>2, <3>3 DEF Follows
  <2>3. CASE Follows(R, bytes, x, <<p, t>>)
    <3>1. PICK d \in Seq(Octets), w \in Todos :
            /\ Packs(x[2], d, w) /\ Holds(bytes, x[1], d)
            /\ x[1] + Len(d) <= p /\ <<x[1] + Len(d), w>> \in R
      BY <2>3 DEF Follows
    <3>2. PICK q \in Nat, l \in Nat : q = x[1] /\ l = Len(d)
      BY <2>1
    <3>3. \A i \in 1 .. l : new[q + i] = d[i]
      <4>1. TAKE i \in 1 .. l
      <4>2. q + i \in 1 .. p
        BY <3>1, <3>2
      <4>3. bytes[q + i] = d[i]
        BY <3>1, <3>2 DEF Holds
      <4> QED
        BY <4>2, <4>3
    <3>4. Holds(new, x[1], d)
      BY <3>2, <3>3 DEF Holds
    <3>5. x[1] + Len(d) <= last[1] /\ <<x[1] + Len(d), w>> \in S
      BY <1>1, <3>1, <3>2
    <3> HIDE DEF last, S
    <3> QED
      BY <2>1, <3>1, <3>4, <3>5 DEF Follows
  <2> QED
    BY <2>1, <2>2, <2>3
<1>4. p + Len(c) >= 4 /\ last[1] = p + Len(c)
  BY <1>1
<1> QED
  BY <1>2, <1>3, <1>4 DEF Script

\* The length is written over what comes before the values.
LEMMA ScriptStays ==
  ASSUME NEW R, NEW list, NEW bytes, NEW p \in Nat, NEW t, Script(R, list, bytes, <<p, t>>),
         NEW new, \A i \in Nat : 4 < i /\ i <= p => new[i] = bytes[i]
  PROVE  Script(R, list, new, <<p, t>>)
<1> SUFFICES ASSUME NEW x \in R, Follows(R, bytes, x, <<p, t>>)
             PROVE  Follows(R, new, x, <<p, t>>)
  BY DEF Script
<1>1. x[1] >= 4 /\ x[1] \in Nat
  BY DEF Script
<1>2. PICK d \in Seq(Octets), w \in Todos :
        /\ Packs(x[2], d, w) /\ Holds(bytes, x[1], d)
        /\ x[1] + Len(d) <= <<p, t>>[1] /\ <<x[1] + Len(d), w>> \in R
  BY DEF Follows
<1>3. PICK q \in Nat, l \in Nat : q = x[1] /\ l = Len(d)
  BY <1>1
<1>4. \A i \in 1 .. l : new[q + i] = d[i]
  <2>1. TAKE i \in 1 .. l
  <2>2. q + i \in Nat /\ 4 < q + i /\ q + i <= p
    BY <1>1, <1>2, <1>3
  <2>3. bytes[q + i] = d[i]
    BY <1>2, <1>3 DEF Holds
  <2> QED
    BY <2>2, <2>3
<1>5. Holds(new, x[1], d)
  BY <1>3, <1>4 DEF Holds
<1> QED
  BY <1>2, <1>5 DEF Follows

\* The tables being unpacked, of the maps ms, what is complete, and what is left
\* to read at each level, innermost first and in each a table that is begun.
Maps == {m \in SUBSET (Values \X Values) : IsMap(m)}
Frames == [want : Nat, got : Nat, map : SUBSET (Values \X Values), key : Values \cup {None}]
Rebuilds(tables, out, ms, left, list) ==
  /\ tables \in Seq(Frames) /\ ms \in Seq(Maps) /\ left \in Seq(Seq(Values))
  /\ out \in Seq(Values)
  /\ Len(ms) = Len(tables) /\ Len(left) = Len(tables) + 1
  /\ \A k \in 1 .. Len(tables) : Fits(tables[k], ms[k], left[k])
  /\ list = out \o left[Len(left)]

LEMMA MapsAre ==
  ASSUME NEW m
  PROVE  m \in Maps <=> IsMap(m)
BY DEF Maps, IsMap

LEMMA FitsType ==
  ASSUME NEW m, IsMap(m), NEW f, NEW rest, Fits(f, m, rest)
  PROVE  f \in Frames
<1>0. PICK n \in Nat : \E pairs \in Orders(HashPart(m, n)) :
         \/ InArray(f, m, rest, n, pairs)
         \/ BeforeKey(f, m, rest, n, pairs)
         \/ BehindKey(f, m, rest, n, pairs)
  BY DEF Fits
<1>1. PICK pairs \in Orders(HashPart(m, n)) :
         \/ InArray(f, m, rest, n, pairs)
         \/ BeforeKey(f, m, rest, n, pairs)
         \/ BehindKey(f, m, rest, n, pairs)
  BY <1>0
<1>2. m \subseteq Values \X Values
  BY DEF IsMap
<1>3. \A k \in 1 .. Len(pairs) : pairs[k] \in m /\ pairs[k][1] \in Values
  <2>1. \A k \in 1 .. Len(pairs) : pairs[k] \in m
    BY ItemsAre
  <2> QED
    BY <2>1, PairsAre
<1>4. Len(pairs) \in Nat
  BY ItemsAre
<1>5. \A i : Indexed(m, i) \subseteq Values \X Values
  BY <1>2 DEF Indexed
<1>6. \A k \in 0 .. Len(pairs) : Taken(m, n, pairs, k) \subseteq Values \X Values
  <2>1. TAKE k \in 0 .. Len(pairs)
  <2>2. \A j \in 1 .. k : j \in 1 .. Len(pairs)
    BY <1>4
  <2>3. {pairs[j] : j \in 1 .. k} \subseteq m
    BY <1>3, <2>2
  <2> QED
    BY <1>2, <1>5, <2>3 DEF Taken
<1>7. ASSUME NEW got \in Nat, NEW map \in SUBSET (Values \X Values), NEW key \in Values \cup {None}
      PROVE  Frame(n, got, map, key) \in Frames
  BY DEF Frame, Frames
<1>8. CASE InArray(f, m, rest, n, pairs)
  <2>1. PICK c \in 0 .. n : f = Frame(n, c, Indexed(m, c), None)
    BY <1>8 DEF InArray
  <2>2. c \in Nat
    BY <2>1
  <2> QED
    BY <1>5, <1>7, <2>1, <2>2
<1>9. CASE BeforeKey(f, m, rest, n, pairs)
  <2>1. PICK k \in 0 .. Len(pairs) : f = Frame(n, n, Taken(m, n, pairs, k), None)
    BY <1>9 DEF BeforeKey
  <2> QED
    BY <1>6, <1>7, <2>1
<1>10. CASE BehindKey(f, m, rest, n, pairs)
  <2>1. PICK k \in 1 .. Len(pairs) : f = Frame(n, n, Taken(m, n, pairs, k - 1), pairs[k][1])
    BY <1>10 DEF BehindKey
  <2>2. k - 1 \in 0 .. Len(pairs)
    BY <1>4, <2>1
  <2> QED
    BY <1>3, <1>6, <1>7, <2>1, <2>2
<1> QED
  BY <1>1, <1>8, <1>9, <1>10

\* A value that is complete.
LEMMA Placed ==
  ASSUME NEW tables, NEW out, NEW ms, NEW left, NEW list, Rebuilds(tables, out, ms, left, list),
         left[1] # <<>>
  PROVE  LET v == Head(left[1])
             d == Place(tables, out, v)
         IN  /\ v \in Values
             /\ Rebuilds(d.open, d.result, ms, [left EXCEPT ![1] = Tail(@)], list)
             /\ tables # <<>> => ~Ends(tables[1], v)
<1> DEFINE l == left[1]
           v == Head(l)
           d == Place(tables, out, v)
           n == Len(tables)
           new == [left EXCEPT ![1] = Tail(l)]
<1>1. /\ tables \in Seq(Frames) /\ ms \in Seq(Maps) /\ left \in Seq(Seq(Values)) /\ out \in Seq(Values)
      /\ Len(ms) = n /\ Len(left) = n + 1 /\ n \in Nat
      /\ \A k \in 1 .. n : Fits(tables[k], ms[k], left[k])
      /\ list = out \o left[n + 1]
  BY DEF Rebuilds
<1> HIDE DEF n
<1>2. left # <<>> /\ l \in Seq(Values) /\ l # <<>>
  <2>1. 1 \in 1 .. n + 1
    BY <1>1
  <2>2. Len(left) # 0
    BY <1>1
  <2>3. Len(<<>>) = 0
    OBVIOUS
  <2>4. left # <<>>
    BY <2>2, <2>3, Zenon
  <2> QED
    BY <1>1, <2>1, <2>4, HeadAndTail
<1> HIDE DEF l
<1>3. v \in Values /\ Tail(l) \in Seq(Values) /\ l = <<v>> \o Tail(l)
  BY <1>2, HeadAndTail
<1> HIDE DEF v
<1>4. /\ new \in Seq(Seq(Values)) /\ Len(new) = n + 1 /\ new[1] = Tail(l)
      /\ \A k \in 2 .. n + 1 : new[k] = left[k]
  BY <1>1, <1>2, <1>3, Replace
<1>5. new = [left EXCEPT ![1] = Tail(@)]
  BY DEF l
<1> HIDE DEF new
<1>6. CASE tables = <<>>
  <2>1. n = 0
    BY <1>6 DEF n
  <2>2. d.open = tables /\ d.result = Append(out, v)
    BY <1>6 DEF Place
  <2>3. Append(out, v) \in Seq(Values) /\ list = Append(out, v) \o Tail(l)
    <3>1. list = out \o (<<v>> \o Tail(l))
      BY <1>1, <1>3, <2>1 DEF l
    <3>2. PICK w \in Seq(Values) : w = Tail(l)
      BY <1>3
    <3>3. out \in Seq(Values) /\ v \in Values
      BY <1>1, <1>3
    <3>4. Append(out, v) \in Seq(Values) /\ Append(out, v) \o w = out \o (<<v>> \o w)
      BY <3>3, AppendMoves
    <3> QED
      BY <3>1, <3>2, <3>4, Zenon
  <2>4. Len(new) = 1 /\ list = Append(out, v) \o new[Len(new)]
    <3>1. Len(new) = 1
      BY <1>4, <2>1
    <3> QED
      BY <1>4, <2>3, <3>1, Zenon
  <2>5. \A k \in 1 .. n : Fits(d.open[k], ms[k], new[k])
    BY <2>1
  <2>6. Rebuilds(d.open, d.result, ms, new, list)
    BY <1>1, <1>4, <2>2, <2>3, <2>4, <2>5 DEF Rebuilds, n
  <2> QED
    BY <1>3, <1>5, <1>6, <2>6 DEF v, l
<1>7. CASE tables # <<>>
  <2> DEFINE f == Into(tables[1], v)
             ts == [tables EXCEPT ![1] = f]
  <2>1. n >= 1
    BY <1>1, <1>7, HeadAndTail DEF n
  <2>2. ms[1] \in Maps /\ Fits(tables[1], ms[1], l)
    BY <1>1, <2>1 DEF l
  <2>3. ~Ends(tables[1], v) /\ Fits(f, ms[1], Tail(l))
    BY <1>2, <2>2, FitsStep, MapsAre DEF v
  <2>4. f \in Frames
    BY <2>2, <2>3, FitsType, MapsAre
  <2> HIDE DEF f
  <2>5. /\ ts \in Seq(Frames) /\ Len(ts) = n /\ ts[1] = f
        /\ \A k \in 2 .. n : ts[k] = tables[k]
    BY <1>1, <1>7, <2>4, Replace DEF n
  <2>6. d.open = ts /\ d.result = out
    BY <1>7 DEF Place, f
  <2> HIDE DEF ts, d
  <2>7. \A k \in 1 .. n : Fits(ts[k], ms[k], new[k])
    <3>1. TAKE k \in 1 .. n
    <3>2. CASE k = 1
      BY <1>4, <2>3, <2>5, <3>2
    <3>3. CASE k # 1
      <4>1. k \in 2 .. n /\ k \in 2 .. n + 1
        BY <1>1, <3>3
      <4> QED
        BY <1>1, <1>4, <2>5, <4>1
    <3> QED
      BY <3>2, <3>3
  <2>8. new[n + 1] = left[n + 1]
    BY <1>1, <1>4, <2>1
  <2>9. Rebuilds(d.open, d.result, ms, new, list)
    BY <1>1, <1>4, <2>5, <2>6, <2>7, <2>8 DEF Rebuilds
  <2> QED
    BY <1>3, <1>5, <2>3, <2>9 DEF v, l, d
<1> QED
  BY <1>6, <1>7

\* A table that begins.
LEMMA Begun ==
  ASSUME NEW tables, NEW out, NEW ms, NEW left, NEW list, Rebuilds(tables, out, ms, left, list),
         NEW m, IsMap(m), NEW n \in Nat, NEW pairs \in Orders(HashPart(m, n))
  PROVE  Rebuilds(<<NewTable(n)>> \o tables, out, <<m>> \o ms,
                  <<TableItems(m, n, pairs)>> \o left, list)
<1> DEFINE items == TableItems(m, n, pairs)
           f == NewTable(n)
           l == Len(tables)
           ts == <<f>> \o tables
           ns == <<m>> \o ms
           ls == <<items>> \o left
<1>1. /\ tables \in Seq(Frames) /\ ms \in Seq(Maps) /\ left \in Seq(Seq(Values)) /\ out \in Seq(Values)
      /\ Len(ms) = l /\ Len(left) = l + 1 /\ l \in Nat
      /\ \A k \in 1 .. l : Fits(tables[k], ms[k], left[k])
      /\ list = out \o left[l + 1]
  BY DEF Rebuilds
<1>2. Fits(f, m, items) /\ items \in Seq(Values)
  BY FitsStart, ItemsAre
<1>3. f \in Frames /\ m \in Maps
  BY <1>2, FitsType, MapsAre
<1> HIDE DEF f, items, l
<1>4. /\ ts \in Seq(Frames) /\ Len(ts) = l + 1 /\ ts[1] = f
      /\ \A k \in 1 .. l : ts[k + 1] = tables[k]
  BY <1>1, <1>3, Prepended DEF l
<1>5. /\ ns \in Seq(Maps) /\ Len(ns) = l + 1 /\ ns[1] = m
      /\ \A k \in 1 .. l : ns[k + 1] = ms[k]
  BY <1>1, <1>3, Prepended
<1>6. /\ ls \in Seq(Seq(Values)) /\ Len(ls) = l + 1 + 1 /\ ls[1] = items
      /\ \A k \in 1 .. l + 1 : ls[k + 1] = left[k]
  BY <1>1, <1>2, Prepended
<1> HIDE DEF ts, ns, ls
<1>7. \A k \in 1 .. l + 1 : Fits(ts[k], ns[k], ls[k])
  <2>1. TAKE k \in 1 .. l + 1
  <2>2. CASE k = 1
    BY <1>2, <1>4, <1>5, <1>6, <2>2
  <2>3. CASE k # 1
    <3>1. PICK j \in 1 .. l : k = j + 1
      BY <1>1, <2>3
    <3>2. j \in 1 .. l + 1
      BY <1>1
    <3> QED
      BY <1>1, <1>4, <1>5, <1>6, <3>1, <3>2
  <2> QED
    BY <2>2, <2>3
<1>8. list = out \o ls[l + 1 + 1]
  <2>1. l + 1 \in 1 .. l + 1
    BY <1>1
  <2> QED
    BY <1>1, <1>6, <2>1, Zenon
<1>9. Rebuilds(ts, out, ns, ls, list)
  BY <1>1, <1>4, <1>5, <1>6, <1>7, <1>8 DEF Rebuilds
<1> QED
  BY <1>9 DEF ts, ns, ls, f, items

\* A table that ends.
LEMMA Completed ==
  ASSUME NEW tables, NEW out, NEW ms, NEW left, NEW list, Rebuilds(tables, out, ms, left, list),
         tables # <<>>, left[1] = <<>>
  PROVE  /\ Ends(tables[1], Nil) /\ Table(tables[1].map) = Table(ms[1])
         /\ Rebuilds(Tail(tables), out, Tail(ms), Tail(left), list)
<1> DEFINE l == Len(tables)
<1>1. /\ tables \in Seq(Frames) /\ ms \in Seq(Maps) /\ left \in Seq(Seq(Values)) /\ out \in Seq(Values)
      /\ Len(ms) = l /\ Len(left) = l + 1 /\ l \in Nat
      /\ \A k \in 1 .. l : Fits(tables[k], ms[k], left[k])
      /\ list = out \o left[l + 1]
  <2>1. l \in Nat /\ Len(left) = l + 1
    BY DEF Rebuilds
  <2>2. list = out \o left[l + 1]
    BY <2>1, Zenon DEF Rebuilds
  <2> QED
    BY <2>1, <2>2 DEF Rebuilds
<1> HIDE DEF l
<1>2. PICK n \in Nat : n + 1 = l
  <2>1. l >= 1
    BY <1>1, HeadAndTail DEF l
  <2> QED
    BY <1>1, <2>1
<1>3. ms # <<>> /\ left # <<>>
  <2>1. Len(ms) # 0 /\ Len(left) # 0
    BY <1>1, <1>2
  <2>2. Len(<<>>) = 0
    OBVIOUS
  <2> QED
    BY <2>1, <2>2, Zenon
<1>4. Tail(tables) \in Seq(Frames) /\ Len(Tail(tables)) = n
      /\ \A k \in 1 .. n : Tail(tables)[k] = tables[k + 1]
  <2>1. /\ Tail(tables) \in Seq(Frames) /\ Len(Tail(tables)) = l - 1
        /\ \A k \in 1 .. l - 1 : Tail(tables)[k] = tables[k + 1]
    BY <1>1, HeadAndTail DEF l
  <2> QED
    BY <1>1, <1>2, <2>1
<1>5. Tail(ms) \in Seq(Maps) /\ Len(Tail(ms)) = n
      /\ \A k \in 1 .. n : Tail(ms)[k] = ms[k + 1]
  <2>1. /\ Tail(ms) \in Seq(Maps) /\ Len(Tail(ms)) = l - 1
        /\ \A k \in 1 .. l - 1 : Tail(ms)[k] = ms[k + 1]
    BY <1>1, <1>3, HeadAndTail
  <2> QED
    BY <1>1, <1>2, <2>1
<1>6. Tail(left) \in Seq(Seq(Values)) /\ Len(Tail(left)) = n + 1
      /\ \A k \in 1 .. n + 1 : Tail(left)[k] = left[k + 1]
  <2>1. /\ Tail(left) \in Seq(Seq(Values)) /\ Len(Tail(left)) = l + 1 - 1
        /\ \A k \in 1 .. l + 1 - 1 : Tail(left)[k] = left[k + 1]
    BY <1>1, <1>3, HeadAndTail
  <2> QED
    BY <1>1, <1>2, <2>1
<1>7. \A k \in 1 .. n : Fits(Tail(tables)[k], Tail(ms)[k], Tail(left)[k])
  <2>1. TAKE k \in 1 .. n
  <2>2. k + 1 \in 1 .. l /\ k \in 1 .. n + 1
    BY <1>2
  <2> QED
    BY <1>1, <1>4, <1>5, <1>6, <2>2
<1>8. list = out \o Tail(left)[n + 1]
  <2>1. n + 1 \in 1 .. n + 1
    OBVIOUS
  <2>2. Tail(left)[n + 1] = left[l + 1]
    BY <1>2, <1>6, <2>1, Zenon
  <2> QED
    BY <1>1, <2>2, Zenon
<1>9. Ends(tables[1], Nil) /\ tables[1].map = ms[1]
  <2>1. 1 \in 1 .. l
    BY <1>2
  <2>2. ms[1] \in Maps /\ Fits(tables[1], ms[1], <<>>)
    BY <1>1, <2>1
  <2> QED
    BY <2>2, FitsEnd, MapsAre
<1>10. Rebuilds(Tail(tables), out, Tail(ms), Tail(left), list)
  BY <1>1, <1>4, <1>5, <1>6, <1>7, <1>8, Zenon DEF Rebuilds
<1> QED
  BY <1>9, <1>10, Zenon

\* What is left to read, and what is left to pack at the same place: the table
\* that is begun at a level has been taken from what is left to pack.
Matches(t, left, ms) ==
  /\ Len(t) = Len(left) /\ t[1] = left[1]
  /\ \A k \in 2 .. Len(t) : left[k] = <<Table(ms[k - 1])>> \o t[k]

\* The receiver after a step of the packing has been read.
Caught(t, tables, out, list) ==
  \E ms \in Seq(Maps), left \in Seq(Seq(Values)) :
     Rebuilds(tables, out, ms, left, list) /\ Matches(t, left, ms)

LEMMA TodosAre ==
  ASSUME NEW t \in Todos
  PROVE  /\ t \in Seq(Seq(Values)) /\ t # <<>> /\ t[1] \in Seq(Values)
         /\ Len(t) \in Nat /\ Len(t) >= 1
         /\ t[1] # <<>> => /\ Head(t[1]) \in Values /\ Tail(t[1]) \in Seq(Values)
                           /\ t[1] = <<Head(t[1])>> \o Tail(t[1])
<1>1. t \in Seq(Seq(Values)) /\ t # <<>>
  BY DEF Todos
<1>2. Head(t) \in Seq(Values) /\ Head(t) = t[1] /\ Len(t) \in Nat /\ Len(t) >= 1
  BY <1>1, HeadAndTail
<1> DEFINE l == t[1]
<1>3. l \in Seq(Values)
  BY <1>2
<1> HIDE DEF l
<1>4. l # <<>> => Head(l) \in Values /\ Tail(l) \in Seq(Values) /\ l = <<Head(l)>> \o Tail(l)
  BY <1>3, HeadAndTail
<1> QED
  BY <1>1, <1>2, <1>3, <1>4 DEF l

LEMMA OneTaken ==
  ASSUME NEW t \in Todos, t[1] # <<>>
  PROVE  LET u == [t EXCEPT ![1] = Tail(t[1])]
         IN  /\ u \in Seq(Seq(Values)) /\ Len(u) = Len(t) /\ u[1] = Tail(t[1])
             /\ \A k \in 2 .. Len(t) : u[k] = t[k]
<1>1. t \in Seq(Seq(Values)) /\ t # <<>>
  BY TodosAre
<1>2. PICK x \in Seq(Values) : x = Tail(t[1])
  BY TodosAre
<1>3. LET u == [t EXCEPT ![1] = x]
      IN  /\ u \in Seq(Seq(Values)) /\ Len(u) = Len(t) /\ u[1] = x
          /\ \A k \in 2 .. Len(t) : u[k] = t[k]
  BY <1>1, Replace
<1> QED
  BY <1>2, <1>3, Zenon

LEMMA CaughtPlain ==
  ASSUME NEW t \in Todos, NEW tables, NEW out, NEW list, Caught(t, tables, out, list), t[1] # <<>>
  PROVE  LET d == Deliver(tables, out, Head(t[1]))
         IN  Caught([t EXCEPT ![1] = Tail(@)], d.open, d.result, list)
<1>1. PICK ms \in Seq(Maps), left \in Seq(Seq(Values)) :
         Rebuilds(tables, out, ms, left, list) /\ Matches(t, left, ms)
  BY DEF Caught
<1> DEFINE v == Head(t[1])
           d == Deliver(tables, out, v)
           u == [t EXCEPT ![1] = Tail(t[1])]
           new == [left EXCEPT ![1] = Tail(left[1])]
<1>2. left[1] = t[1] /\ Len(left) = Len(t) /\ left # <<>>
  <2>1. left[1] = t[1] /\ Len(left) = Len(t)
    BY <1>1 DEF Matches
  <2>2. Len(t) # 0
    <3>1. PICK k \in Nat : k = Len(t) /\ k >= 1
      BY TodosAre
    <3> QED
      BY <3>1
  <2>3. Len(<<>>) = 0
    OBVIOUS
  <2> QED
    BY <2>1, <2>2, <2>3, Zenon
<1>3. /\ Rebuilds(Place(tables, out, v).open, Place(tables, out, v).result, ms, new, list)
      /\ tables # <<>> => ~Ends(tables[1], v)
  <2>1. left[1] # <<>>
    BY <1>2
  <2> QED
    BY <1>1, <1>2, <2>1, Placed, Zenon
<1>4. d = Place(tables, out, v)
  BY <1>3, Zenon DEF Deliver
<1>5. /\ u \in Seq(Seq(Values)) /\ Len(u) = Len(t) /\ u[1] = Tail(t[1])
      /\ \A k \in 2 .. Len(t) : u[k] = t[k]
  BY OneTaken, Zenon
<1>6. /\ new \in Seq(Seq(Values)) /\ Len(new) = Len(left) /\ new[1] = Tail(left[1])
      /\ \A k \in 2 .. Len(left) : new[k] = left[k]
  <2>1. Tail(left[1]) \in Seq(Values)
    BY <1>2, TodosAre
  <2> QED
    BY <1>2, <2>1, Replace
<1> HIDE DEF v, d, u, new
<1>7. Matches(u, new, ms)
  BY <1>1, <1>2, <1>5, <1>6 DEF Matches
<1>8. Caught(u, d.open, d.result, list)
  BY <1>3, <1>4, <1>6, <1>7 DEF Caught
<1> QED
  BY <1>8, Zenon DEF u, d, v

LEMMA CaughtTable ==
  ASSUME NEW t \in Todos, NEW tables, NEW out, NEW list, Caught(t, tables, out, list), t[1] # <<>>,
         Head(t[1]).t = "table", NEW n \in Nat, NEW pairs \in Orders(HashPart(Head(t[1]).map, n))
  PROVE  Caught(<<TableItems(Head(t[1]).map, n, pairs)>> \o [t EXCEPT ![1] = Tail(@)],
                <<NewTable(n)>> \o tables, out, list)
<1>1. PICK ms \in Seq(Maps), left \in Seq(Seq(Values)) :
         Rebuilds(tables, out, ms, left, list) /\ Matches(t, left, ms)
  BY DEF Caught
<1> DEFINE v == Head(t[1])
           m == v.map
           l == Len(t)
           items == TableItems(m, n, pairs)
           d == [t EXCEPT ![1] = Tail(t[1])]
           u == <<items>> \o d
           new == <<items>> \o left
           ns == <<m>> \o ms
<1>2. left[1] = t[1] /\ Len(left) = l /\ \A k \in 2 .. l : left[k] = <<Table(ms[k - 1])>> \o t[k]
  BY <1>1 DEF Matches
<1>3. v \in Values /\ v = Table(m) /\ IsMap(m) /\ l \in Nat /\ l >= 1 /\ t[1] = <<v>> \o Tail(t[1])
  BY TodosAre, ValueKinds
<1>4. Len(ms) + 1 = l
  BY <1>1, <1>2 DEF Rebuilds
<1>5. items \in Seq(Values)
  BY <1>3, ItemsAre
<1>6. Rebuilds(<<NewTable(n)>> \o tables, out, ns, new, list)
  BY <1>1, <1>3, Begun
<1>7. /\ d \in Seq(Seq(Values)) /\ Len(d) = l /\ d[1] = Tail(t[1])
      /\ \A k \in 2 .. l : d[k] = t[k]
  BY OneTaken, Zenon
<1> HIDE DEF items, d, m, v, l
<1>8. /\ u \in Seq(Seq(Values)) /\ Len(u) = l + 1 /\ u[1] = items
      /\ \A k \in 1 .. l : u[k + 1] = d[k]
  BY <1>5, <1>7, Prepended
<1>9. /\ new \in Seq(Seq(Values)) /\ Len(new) = l + 1 /\ new[1] = items
      /\ \A k \in 1 .. l : new[k + 1] = left[k]
  BY <1>2, <1>5, Prepended
<1>10. /\ ns \in Seq(Maps) /\ ns[1] = m
       /\ \A k \in 1 .. Len(ms) : ns[k + 1] = ms[k]
  BY <1>3, MapsAre, Prepended
<1> HIDE DEF u, new, ns
<1>11. \A k \in 2 .. l + 1 : new[k] = <<Table(ns[k - 1])>> \o u[k]
  <2>1. TAKE k \in 2 .. l + 1
  <2>2. PICK j \in 1 .. l : k = j + 1 /\ k - 1 = j
    BY <1>3
  <2>3. new[k] = left[j] /\ u[k] = d[j]
    BY <1>8, <1>9, <2>2
  <2>4. CASE j = 1
    <3>1. new[k] = t[1] /\ u[k] = Tail(t[1]) /\ ns[j] = m
      BY <1>2, <1>7, <1>10, <2>3, <2>4
    <3> QED
      BY <1>3, <2>2, <3>1, Zenon
  <2>5. CASE j # 1
    <3>1. PICK i \in 1 .. Len(ms) : j = i + 1 /\ j - 1 = i
      BY <1>3, <1>4, <2>5
    <3>2. j \in 2 .. l
      BY <2>5
    <3>3. left[j] = <<Table(ms[j - 1])>> \o t[j] /\ d[j] = t[j] /\ ns[j] = ms[i]
      BY <1>2, <1>7, <1>10, <3>1, <3>2
    <3> QED
      BY <2>2, <2>3, <3>1, <3>3, Zenon
  <2> QED
    BY <2>4, <2>5
<1>12. Matches(u, new, ns)
  BY <1>8, <1>9, <1>11 DEF Matches
<1>13. Caught(u, <<NewTable(n)>> \o tables, out, list)
  BY <1>6, <1>9, <1>10, <1>12, Zenon DEF Caught
<1> QED
  BY <1>13, Zenon DEF u, d, items, m, v

LEMMA CaughtEnd ==
  ASSUME NEW t \in Todos, NEW tables, NEW out, NEW list, Caught(t, tables, out, list),
         t[1] = <<>>, Len(t) > 1
  PROVE  LET d == Deliver(tables, out, Nil)
         IN  Caught(Tail(t), d.open, d.result, list)
<1>1. PICK ms \in Seq(Maps), left \in Seq(Seq(Values)) :
         Rebuilds(tables, out, ms, left, list) /\ Matches(t, left, ms)
  BY DEF Caught
<1> DEFINE l == Len(t)
           v == Table(ms[1])
           rest == Tail(left)
           new == [rest EXCEPT ![1] = Tail(rest[1])]
           p == Place(Tail(tables), out, v)
<1>2. /\ left[1] = <<>> /\ Len(left) = l /\ l \in Nat /\ l > 1
      /\ \A k \in 2 .. l : left[k] = <<Table(ms[k - 1])>> \o t[k]
      /\ Len(tables) + 1 = l /\ Len(ms) + 1 = l /\ Len(tables) \in Nat /\ Len(ms) \in Nat
  <2>1. /\ left[1] = <<>> /\ Len(left) = l
        /\ \A k \in 2 .. l : left[k] = <<Table(ms[k - 1])>> \o t[k]
    BY <1>1, Zenon DEF Matches
  <2>2. /\ Len(left) = Len(tables) + 1 /\ Len(ms) = Len(tables)
        /\ tables \in Seq(Frames)
    BY <1>1, Zenon DEF Rebuilds
  <2>3. Len(tables) \in Nat
    BY <2>2
  <2>4. l \in Nat
    BY TodosAre, Zenon
  <2> QED
    BY <2>1, <2>2, <2>3, <2>4, Zenon
<1> HIDE DEF l
<1>3. tables # <<>> /\ left # <<>> /\ ms # <<>>
  <2>1. Len(tables) # 0 /\ Len(left) # 0 /\ Len(ms) # 0
    BY <1>2
  <2>2. Len(<<>>) = 0
    OBVIOUS
  <2> QED
    BY <2>1, <2>2, Zenon
<1>4. /\ Ends(tables[1], Nil) /\ Table(tables[1].map) = v
      /\ Rebuilds(Tail(tables), out, Tail(ms), rest, list)
  BY <1>1, <1>2, <1>3, Completed, Zenon
<1>5. Deliver(tables, out, Nil) = p
  BY <1>3, <1>4, Zenon DEF Deliver
<1>6. rest \in Seq(Seq(Values)) /\ Len(rest) = l - 1 /\ \A k \in 1 .. l - 1 : rest[k] = left[k + 1]
  BY <1>2, <1>3, HeadAndTail
<1>7. Tail(t) \in Seq(Seq(Values)) /\ Len(Tail(t)) = l - 1 /\ \A k \in 1 .. l - 1 : Tail(t)[k] = t[k + 1]
  BY TodosAre, HeadAndTail DEF l
<1>8. Tail(ms) \in Seq(Maps) /\ \A k \in 1 .. l - 2 : Tail(ms)[k] = ms[k + 1]
  <2>1. /\ Tail(ms) \in Seq(Maps) /\ \A k \in 1 .. Len(ms) - 1 : Tail(ms)[k] = ms[k + 1]
    BY <1>3, HeadAndTail
  <2>2. Len(ms) - 1 = l - 2
    BY <1>2
  <2> QED
    BY <2>1, <2>2, Zenon
<1> HIDE DEF v
<1>9. rest[1] = <<v>> \o t[2] /\ Tail(t)[1] = t[2] /\ t[2] \in Seq(Values)
  <2>1. 1 \in 1 .. l - 1 /\ 2 \in 2 .. l /\ 1 + 1 = 2 /\ 2 - 1 = 1 /\ 2 \in 1 .. l
    BY <1>2
  <2>2. rest[1] = left[2] /\ Tail(t)[1] = t[2]
    BY <1>6, <1>7, <2>1, Zenon
  <2>3. left[2] = <<Table(ms[1])>> \o t[2]
    BY <1>2, <2>1, Zenon
  <2>4. Tail(t)[1] \in Seq(Values)
    BY <1>7, <2>1
  <2> QED
    BY <2>2, <2>3, <2>4, Zenon DEF v
<1>10. v \in Values /\ rest[1] # <<>> /\ Head(rest[1]) = v /\ Tail(rest[1]) = t[2]
  <2> DEFINE S == Values \cup {v}
  <2>1. PICK s \in Seq(Values) : s = t[2]
    BY <1>9
  <2>2. s \in Seq(S) /\ v \in S
    OBVIOUS
  <2> HIDE DEF S
  <2>3. <<v>> \o s # <<>> /\ Head(<<v>> \o s) = v /\ Tail(<<v>> \o s) = s
    BY <2>2, Prepended
  <2>4. rest[1] # <<>> /\ Head(rest[1]) = v /\ Tail(rest[1]) = t[2]
    BY <1>9, <2>1, <2>3, Zenon
  <2>5. Head(rest[1]) \in Values
    BY <1>4, <2>4, Placed, Zenon
  <2> QED
    BY <2>4, <2>5
<1> HIDE DEF rest
<1>11. Rebuilds(p.open, p.result, Tail(ms), new, list)
  <2>1. /\ Rebuilds(Place(Tail(tables), out, Head(rest[1])).open,
                    Place(Tail(tables), out, Head(rest[1])).result, Tail(ms),
                    [rest EXCEPT ![1] = Tail(rest[1])], list)
    BY <1>4, <1>10, Placed, Zenon
  <2> QED
    BY <1>10, <2>1, Zenon
<1>12. /\ new \in Seq(Seq(Values)) /\ Len(new) = l - 1 /\ new[1] = t[2]
       /\ \A k \in 2 .. l - 1 : new[k] = rest[k]
  <2>1. rest # <<>>
    <3>1. Len(rest) # 0
      BY <1>2, <1>6
    <3>2. Len(<<>>) = 0
      OBVIOUS
    <3> QED
      BY <3>1, <3>2, Zenon
  <2>2. Tail(rest[1]) \in Seq(Values)
    BY <1>9, <1>10
  <2> QED
    BY <1>6, <1>10, <2>1, <2>2, Replace
<1> HIDE DEF new, p
<1>13. \A k \in 2 .. l - 1 : new[k] = <<Table(Tail(ms)[k - 1])>> \o Tail(t)[k]
  <2>1. TAKE k \in 2 .. l - 1
  <2>2. k \in 1 .. l - 1 /\ k + 1 \in 2 .. l /\ k - 1 \in 1 .. l - 2 /\ k - 1 + 1 = k /\ k + 1 - 1 = k
    BY <1>2
  <2>3. PICK j \in 2 .. l, i \in 1 .. l - 2 : j = k + 1 /\ j - 1 = k /\ i = k - 1 /\ i + 1 = k
    BY <2>2
  <2>4. new[k] = left[j] /\ Tail(t)[k] = t[j]
    BY <1>6, <1>7, <1>12, <2>2, <2>3
  <2>5. left[j] = <<Table(ms[j - 1])>> \o t[j]
    BY <1>2, Zenon
  <2>6. Tail(ms)[i] = ms[i + 1]
    BY <1>8, Zenon
  <2> QED
    BY <2>3, <2>4, <2>5, <2>6, Zenon
<1>14. Matches(Tail(t), new, Tail(ms))
  BY <1>7, <1>9, <1>12, <1>13 DEF Matches
<1>15. Caught(Tail(t), p.open, p.result, list)
  BY <1>8, <1>11, <1>12, <1>14, Zenon DEF Caught
<1> QED
  BY <1>5, <1>15

\* What UnpackOne does with the value that it has read.
Receives(tables, out, v) ==
  IF v.t = "open" THEN [open |-> <<NewTable(v.want)>> \o tables, result |-> out]
  ELSE Deliver(tables, out, v)

\* A step of the packing that is read as it was written.
LEMMA UnpackStep ==
  ASSUME NEW t \in Todos, NEW tables, NEW out, NEW list, Caught(t, tables, out, list),
         NEW c, NEW u, Packs(t, c, u), NEW r, NEW end, Ahead(r, c, end)
  PROVE  LET g == ReadOne(r)
             d == Receives(tables, out, g.v)
         IN  /\ Gets(g, g.v, r, Len(c), end) /\ g.v.t # "invalid"
             /\ Caught(u, d.open, d.result, list)
<1> DEFINE g == ReadOne(r)
           d == Receives(tables, out, g.v)
           v == Head(t[1])
<1>1. ASSUME NEW w, Gets(g, w, r, Len(c), end), w.t \notin {"open", "invalid"},
             Caught(u, Deliver(tables, out, w).open, Deliver(tables, out, w).result, list)
      PROVE  /\ Gets(g, g.v, r, Len(c), end) /\ g.v.t # "invalid"
             /\ Caught(u, d.open, d.result, list)
  <2> HIDE DEF g
  <2>1. g.v = w
    BY <1>1 DEF Gets
  <2>2. d = Deliver(tables, out, w)
    BY <1>1, <2>1 DEF Receives
  <2>3. Gets(g, g.v, r, Len(c), end)
    BY <1>1, <2>1, Zenon
  <2> QED
    BY <1>1, <2>1, <2>2, <2>3, Zenon
<1>2. CASE PacksPlain(t, c, u)
  <2>1. t[1] # <<>> /\ v.t \notin {"table", "function"} /\ c = Plain(v) /\ u = [t EXCEPT ![1] = Tail(@)]
    BY <1>2, Zenon DEF PacksPlain
  <2>2. v \in Values
    BY <2>1, TodosAre, Zenon
  <2>3. IsScalar(v) /\ v.t \notin {"open", "invalid"} /\ v.t # "function"
    BY <2>1, <2>2, ValueKinds
  <2>4. Gets(g, v, r, Len(c), end)
    BY <2>1, <2>3, GetsPlain, Zenon
  <2>5. Caught(u, Deliver(tables, out, v).open, Deliver(tables, out, v).result, list)
    BY <2>1, CaughtPlain, Zenon
  <2> QED
    BY <1>1, <2>3, <2>4, <2>5, Zenon
<1>3. CASE PacksTable(t, c, u)
  <2>1. /\ t[1] # <<>> /\ v.t = "table"
        /\ \E n \in Borders(v.map) : \E pairs \in Orders(HashPart(v.map, n)) :
             /\ c = TableHead(n)
             /\ u = <<TableItems(v.map, n, pairs)>> \o [t EXCEPT ![1] = Tail(@)]
    BY <1>3, Zenon DEF PacksTable
  <2>2. PICK n \in Borders(v.map) : \E pairs \in Orders(HashPart(v.map, n)) :
             /\ c = TableHead(n)
             /\ u = <<TableItems(v.map, n, pairs)>> \o [t EXCEPT ![1] = Tail(@)]
    BY <2>1
  <2>3. PICK pairs \in Orders(HashPart(v.map, n)) :
             /\ c = TableHead(n)
             /\ u = <<TableItems(v.map, n, pairs)>> \o [t EXCEPT ![1] = Tail(@)]
    BY <2>2
  <2>4. n \in Nat /\ n \in Int32 /\ n >= 0
    BY BorderIs
  <2>5. Gets(g, Opens(n), r, Len(c), end)
    BY <2>3, <2>4, GetsHead, Zenon
  <2>6. Caught(u, <<NewTable(n)>> \o tables, out, list)
    BY <2>1, <2>3, <2>4, CaughtTable, Zenon
  <2> HIDE DEF g
  <2>7. g.v = [t |-> "open", want |-> n]
    BY <2>5 DEF Gets, Opens
  <2>8. d = [open |-> <<NewTable(n)>> \o tables, result |-> out]
    BY <2>7 DEF Receives
  <2>9. g.v.t # "invalid" /\ Gets(g, g.v, r, Len(c), end)
    BY <2>5, <2>7 DEF Opens
  <2> HIDE DEF d
  <2>10. d.open = <<NewTable(n)>> \o tables /\ d.result = out
    BY <2>8
  <2> QED
    BY <2>6, <2>9, <2>10, Zenon DEF g, d
<1>4. CASE PacksEnd(t, c, u)
  <2>1. t[1] = <<>> /\ Len(t) > 1 /\ c = Plain(Nil) /\ u = Tail(t)
    BY <1>4, Zenon DEF PacksEnd
  <2>2. IsScalar(Nil) /\ Nil.t \notin {"open", "invalid"} /\ Nil.t # "function"
    BY NilIsPlain
  <2>3. Gets(g, Nil, r, Len(c), end)
    BY <2>1, <2>2, GetsPlain, Zenon
  <2>4. Caught(u, Deliver(tables, out, Nil).open, Deliver(tables, out, Nil).result, list)
    BY <2>1, CaughtEnd, Zenon
  <2> QED
    BY <1>1, <2>2, <2>3, <2>4, Zenon
<1> QED
  BY <1>2, <1>3, <1>4 DEF Packs

\* The receiver before anything is read, and when nothing is left.
LEMMA CaughtFirst ==
  ASSUME NEW list \in Seq(Values)
  PROVE  Caught(<<list>>, <<>>, <<>>, list)
<1>1. <<list>> \in Seq(Seq(Values)) /\ Len(<<list>>) = 1 /\ <<list>>[1] = list
  OBVIOUS
<1> DEFINE left == <<list>>
<1> HIDE DEF left
<1>2. Matches(left, left, <<>>)
  BY <1>1 DEF Matches, left
<1>3. Len(<<>>) = 0 /\ <<>> \in Seq(Frames) /\ <<>> \in Seq(Maps) /\ <<>> \in Seq(Values)
      /\ <<>> \o list = list
  OBVIOUS
<1>4. Rebuilds(<<>>, <<>>, <<>>, left, list)
  <2>1. left \in Seq(Seq(Values)) /\ Len(left) = 1 /\ left[1] = list
    BY <1>1 DEF left
  <2>2. \A k \in 1 .. 0 : FALSE
    OBVIOUS
  <2>3. 0 + 1 = 1
    OBVIOUS
  <2> QED
    BY <1>3, <2>1, <2>2, <2>3, Zenon DEF Rebuilds
<1> QED
  BY <1>1, <1>2, <1>3, <1>4, Zenon DEF Caught, left

LEMMA CaughtLast ==
  ASSUME NEW tables, NEW out, NEW list, Caught(<<<<>>>>, tables, out, list)
  PROVE  tables = <<>> /\ out = list
<1>1. PICK ms \in Seq(Maps), left \in Seq(Seq(Values)) :
         Rebuilds(tables, out, ms, left, list) /\ Matches(<<<<>>>>, left, ms)
  BY DEF Caught
<1>2. Len(left) = 1 /\ left[1] = <<>>
  <2>1. Len(<<<<>>>>) = 1 /\ <<<<>>>>[1] = <<>>
    OBVIOUS
  <2> QED
    BY <1>1, <2>1, Zenon DEF Matches
<1>3. tables \in Seq(Frames) /\ Len(left) = Len(tables) + 1
  BY <1>1, Zenon DEF Rebuilds
<1>4. tables = <<>>
  <2>1. PICK n \in Nat : n = Len(tables)
    BY <1>3
  <2>2. n + 1 = 1
    BY <1>2, <1>3, <2>1, Zenon
  <2>3. n = 0
    BY <2>2
  <2>4. \A s \in Seq(Frames) : Len(s) = 0 => s = <<>>
    OBVIOUS
  <2> QED
    BY <1>3, <2>1, <2>3, <2>4, Zenon
<1>5. out \in Seq(Values) /\ list = out \o left[Len(left)]
  BY <1>1, Zenon DEF Rebuilds
<1>6. list = out \o <<>>
  BY <1>2, <1>5, Zenon
<1>7. out \o <<>> = out
  BY <1>5
<1> QED
  BY <1>4, <1>6, <1>7, Zenon

\* What is complete is the beginning of the list.
LEMMA CaughtPrefix ==
  ASSUME NEW t, NEW tables, NEW out, NEW list, Caught(t, tables, out, list)
  PROVE  IsPrefix(out, list)
<1>1. PICK ms \in Seq(Maps), left \in Seq(Seq(Values)) : Rebuilds(tables, out, ms, left, list)
  BY DEF Caught
<1>2. PICK rest \in Seq(Values) : out \in Seq(Values) /\ list = out \o rest
  <2>1. Len(left) = Len(tables) + 1 /\ Len(tables) \in Nat
    BY <1>1 DEF Rebuilds
  <2>2. left[Len(left)] \in Seq(Values)
    BY <2>1
  <2>3. out \in Seq(Values) /\ list = out \o left[Len(left)]
    BY <1>1, Zenon DEF Rebuilds
  <2> QED
    BY <2>2, <2>3, Zenon
<1>3. Len(out) <= Len(out \o rest) /\ SubSeq(out, 1, Len(out)) = SubSeq(out \o rest, 1, Len(out))
  BY <1>2
<1> QED
  BY <1>2, <1>3, Zenon DEF IsPrefix

-----------------------------------------------------------------------------
(* What can travel                                                          *)

Depths == MaxDepth + 1

\* All of what is left to pack can travel with the levels that are left for it.
Through(d, list) == \A i \in 1 .. Len(list) : Travels[d][list[i]]
AllTravel(t) == \A k \in 1 .. Len(t) : Through(Depths - (Len(t) - k), t[k])

\* A value that is packed at once.
LEMMA PlainTravels ==
  ASSUME NEW n \in 0 .. Depths, NEW v \in Values, v.t # "table"
  PROVE  Travels[n][v] <=> n > 0 /\ v.t # "function"
BY TravelsIs DEF Depths, Below

\* A table travels just if all that is packed behind its head does.
LEMMA ItemsTravel ==
  ASSUME NEW d \in 1 .. Depths, NEW v \in Values, v.t = "table",
         NEW n \in Borders(v.map), NEW pairs \in Orders(HashPart(v.map, n))
  PROVE  LET items == TableItems(v.map, n, pairs)
         IN  Travels[d][v] <=> Through(d - 1, items)
<1> DEFINE m == v.map
           items == TableItems(m, n, pairs)
           T(w) == Travels[d - 1][w]
<1>1. Depths \in Nat /\ d \in 0 .. Depths /\ d > 0 /\ d - 1 \in 0 .. Depths
  BY LimitsAreNumbers DEF Depths
<1>2. IsMap(m) /\ n \in Nat /\ (n > 0 => n \in Indices(m))
  BY ValueKinds, BorderIs
<1>3. Travels[d][v] <=> \A p \in m : T(p[1]) /\ T(p[2])
  BY <1>1, TravelsIs DEF Depths, Below
<1>4. /\ Len(items) = n + 2 * Len(pairs) /\ Len(pairs) \in Nat
      /\ \A i \in 1 .. n : items[i] = ValueAt(m, i)
      /\ \A k \in 1 .. Len(pairs) :
           /\ items[n + 2 * k - 1] = pairs[k][1] /\ items[n + 2 * k] = pairs[k][2]
           /\ pairs[k] \in m
      /\ DOMAIN pairs = 1 .. Len(pairs) /\ Range(pairs) = HashPart(m, n)
  BY <1>2, ItemsAre
<1>5. \A w \in Values : w.t \in {"integer", "nil"} => (T(w) <=> d - 1 > 0)
  BY <1>1, PlainTravels
<1>6. \A w \in Values : T(w) => d - 1 > 0
  BY <1>1, TravelsIs DEF Depths
<1> HIDE DEF T, items, m
<1>7. ASSUME \A p \in m : T(p[1]) /\ T(p[2]), NEW i \in 1 .. Len(items) PROVE T(items[i])
  <2>1. CASE i \in 1 .. n
    <3>1. items[i] = ValueAt(m, i)
      BY <1>4, <2>1
    <3>2. CASE i \in Indices(m)
      <4>1. <<Num(i), ValueAt(m, i)>> \in m
        BY <1>2, <2>1, <3>2, ValueAtIs
      <4>2. T(<<Num(i), ValueAt(m, i)>>[2])
        BY <1>7, <4>1
      <4> QED
        BY <3>1, <4>2
    <3>3. CASE i \notin Indices(m)
      <4>1. ValueAt(m, i) = Nil
        BY <3>3 DEF ValueAt
      <4>2. n \in Indices(m) /\ n \in Int
        BY <1>2, <2>1
      <4>3. <<Num(n), ValueAt(m, n)>> \in m /\ ValueAt(m, n) \in Values
        BY <1>2, <4>2, ValueAtIs
      <4>4. T(<<Num(n), ValueAt(m, n)>>[2])
        BY <1>7, <4>3
      <4>5. d - 1 > 0
        BY <1>6, <4>3, <4>4
      <4> QED
        BY <1>5, <3>1, <4>1, <4>5, NilIsPlain
    <3> QED
      BY <3>2, <3>3
  <2>2. CASE i \notin 1 .. n
    <3>1. PICK k \in 1 .. Len(pairs) : i = n + 2 * k - 1 \/ i = n + 2 * k
      <4>1. i \in Int /\ i > n /\ i <= n + 2 * Len(pairs)
        BY <1>2, <1>4, <2>2
      <4>2. (i - n + 1) \div 2 \in 1 .. Len(pairs)
        BY <1>2, <1>4, <4>1
      <4>3. i = n + 2 * ((i - n + 1) \div 2) - 1 \/ i = n + 2 * ((i - n + 1) \div 2)
        BY <1>2, <4>1
      <4> QED
        BY <4>2, <4>3
    <3>2. items[i] = pairs[k][1] \/ items[i] = pairs[k][2]
      BY <1>4, <3>1
    <3>3. pairs[k] \in m
      BY <1>4
    <3> QED
      BY <1>7, <3>2, <3>3
  <2> QED
    BY <2>1, <2>2
<1>8. ASSUME \A i \in 1 .. Len(items) : T(items[i]), NEW p \in m PROVE T(p[1]) /\ T(p[2])
  <2>0. p[1] \in Values /\ p[2] \in Values
    BY <1>2, PairsAre
  <2>1. CASE p \in HashPart(m, n)
    <3>1. PICK k \in 1 .. Len(pairs) : p = pairs[k]
      BY <1>4, <2>1 DEF Range
    <3>2. n + 2 * k - 1 \in 1 .. Len(items) /\ n + 2 * k \in 1 .. Len(items)
      BY <1>2, <1>4
    <3>3. T(items[n + 2 * k - 1]) /\ T(items[n + 2 * k])
      BY <1>8, <3>2
    <3> QED
      BY <1>4, <3>1, <3>3
  <2>2. CASE p \notin HashPart(m, n)
    <3> DEFINE i == p[1].int
    <3>1. p[1].t = "integer" /\ i \in 1 .. n
      BY <2>2 DEF HashPart
    <3>2. i \in Indices(m) /\ i \in Int /\ p[1] = Num(i)
      BY <1>2, <3>1, PairsAre DEF Indices
    <3> HIDE DEF i
    <3>3. <<Num(i), ValueAt(m, i)>> \in m
      BY <1>2, <3>2, ValueAtIs
    <3>4. p = <<Num(i), ValueAt(m, i)>>
      <4>1. <<Num(i), ValueAt(m, i)>>[1] = p[1]
        BY <3>2
      <4> QED
        BY <1>2, <3>3, <4>1, Zenon DEF IsMap
    <3>5. i \in 1 .. Len(items) /\ items[i] = ValueAt(m, i)
      BY <1>2, <1>4, <3>1
    <3>6. T(p[2])
      <4>1. p[2] = ValueAt(m, i)
        BY <3>4
      <4> QED
        BY <1>8, <3>5, <4>1
    <3>7. d - 1 > 0
      BY <1>6, <2>0, <3>6
    <3>8. T(p[1])
      BY <1>5, <2>0, <3>1, <3>7
    <3> QED
      BY <3>6, <3>8
  <2> QED
    BY <2>1, <2>2
<1>9. Travels[d][v] <=> \A i \in 1 .. Len(items) : T(items[i])
  BY <1>3, <1>7, <1>8
<1> QED
  BY <1>9 DEF T, items, m, Through

LEMMA ThroughHead ==
  ASSUME NEW d, NEW list \in Seq(Values), list # <<>>
  PROVE  Through(d, list) <=> Travels[d][Head(list)] /\ Through(d, Tail(list))
<1> DEFINE T(v) == Travels[d][v]
<1>1. PICK n \in Nat : n = Len(list) /\ n >= 1
  BY HeadAndTail
<1>2. /\ Head(list) = list[1] /\ Len(Tail(list)) = n - 1
      /\ \A i \in 1 .. n - 1 : Tail(list)[i] = list[i + 1]
  BY <1>1
<1> HIDE DEF T
<1>3. (\A i \in 1 .. n : T(list[i])) <=> T(list[1]) /\ \A i \in 1 .. n - 1 : T(list[i + 1])
  <2>1. ASSUME T(list[1]), \A i \in 1 .. n - 1 : T(list[i + 1]), NEW i \in 1 .. n PROVE T(list[i])
    <3>1. CASE i = 1
      BY <2>1, <3>1
    <3>2. CASE i # 1
      <4>1. i - 1 \in 1 .. n - 1 /\ (i - 1) + 1 = i
        BY <1>1, <3>2
      <4> QED
        BY <2>1, <4>1
    <3> QED
      BY <3>1, <3>2
  <2>2. 1 \in 1 .. n /\ \A i \in 1 .. n - 1 : i + 1 \in 1 .. n
    BY <1>1
  <2> QED
    BY <2>1, <2>2
<1> QED
  BY <1>1, <1>2, <1>3 DEF Through, T

\* A step of the packing leaves it open whether all can travel.
LEMMA PlainKeeps ==
  ASSUME NEW t \in Todos, NEW c, NEW u, PacksPlain(t, c, u), Len(t) - 1 <= MaxDepth
  PROVE  Len(u) = Len(t) /\ (AllTravel(t) <=> AllTravel(u))
<1> DEFINE v == Head(t[1])
<1>1. /\ t[1] # <<>> /\ v \in Values /\ v.t \notin {"table", "function"}
      /\ t[1] \in Seq(Values) /\ u = [t EXCEPT ![1] = Tail(t[1])]
  BY TodosAre DEF PacksPlain
<1>2. Len(u) = Len(t) /\ u[1] = Tail(t[1]) /\ \A k \in 2 .. Len(t) : u[k] = t[k]
  BY <1>1, OneTaken, Zenon
<1>3. PICK n \in Nat : n = Len(t) /\ n >= 1
  BY TodosAre
<1>4. Depths - (n - 1) \in 0 .. Depths /\ Depths - (n - 1) > 0
  BY <1>3, LimitsAreNumbers DEF Depths
<1>5. Travels[Depths - (n - 1)][v]
  BY <1>1, <1>4, PlainTravels
<1>6. Through(Depths - (n - 1), t[1]) <=> Through(Depths - (n - 1), u[1])
  BY <1>1, <1>2, <1>5, ThroughHead
<1> DEFINE A(k) == Through(Depths - (n - k), t[k])
           B(k) == Through(Depths - (n - k), u[k])
<1>7. \A k \in 1 .. n : A(k) <=> B(k)
  <2>1. \A k \in 1 .. n : k = 1 \/ k \in 2 .. n
    BY <1>3
  <2>2. A(1) <=> B(1)
    BY <1>6
  <2>3. \A k \in 2 .. n : A(k) <=> B(k)
    BY <1>2, <1>3, Zenon
  <2> HIDE DEF A, B
  <2> QED
    BY <2>1, <2>2, <2>3
<1> QED
  BY <1>2, <1>3, <1>7, Zenon DEF AllTravel

LEMMA TableKeeps ==
  ASSUME NEW t \in Todos, NEW c, NEW u, PacksTable(t, c, u), Len(t) - 1 <= MaxDepth
  PROVE  Len(u) = Len(t) + 1 /\ (AllTravel(t) <=> AllTravel(u))
<1> DEFINE v == Head(t[1])
           d == [t EXCEPT ![1] = Tail(t[1])]
<1>1. t[1] # <<>> /\ v \in Values /\ v.t = "table" /\ t[1] \in Seq(Values)
  BY TodosAre DEF PacksTable
<1>2. PICK n \in Borders(v.map) : \E pairs \in Orders(HashPart(v.map, n)) :
             u = <<TableItems(v.map, n, pairs)>> \o d
  BY DEF PacksTable
<1>3. PICK pairs \in Orders(HashPart(v.map, n)) : u = <<TableItems(v.map, n, pairs)>> \o d
  BY <1>2
<1> DEFINE items == TableItems(v.map, n, pairs)
<1>4. /\ d \in Seq(Seq(Values)) /\ Len(d) = Len(t) /\ d[1] = Tail(t[1])
      /\ \A k \in 2 .. Len(t) : d[k] = t[k]
  BY <1>1, OneTaken, Zenon
<1>5. PICK l \in Nat : l = Len(t) /\ l >= 1
  BY TodosAre
<1> PICK w \in Nat : w = l + 1
  BY <1>5
<1>6. /\ Depths - (l - 1) \in 1 .. Depths /\ (Depths - (l - 1)) - 1 = Depths - l
      /\ Depths - (w - 1) = Depths - l
  BY <1>5, LimitsAreNumbers DEF Depths
<1>7. Travels[Depths - (l - 1)][v] <=> Through(Depths - l, items)
  <2>1. Travels[Depths - (l - 1)][v] <=> Through((Depths - (l - 1)) - 1, items)
    BY <1>1, <1>3, <1>6, ItemsTravel, Zenon
  <2> QED
    BY <1>6, <2>1, Zenon
<1>8. Through(Depths - (l - 1), t[1]) <=> Through(Depths - l, items) /\ Through(Depths - (l - 1), d[1])
  <2>1. Through(Depths - (l - 1), t[1]) <=>
          Travels[Depths - (l - 1)][v] /\ Through(Depths - (l - 1), Tail(t[1]))
    BY <1>1, ThroughHead, Zenon
  <2> QED
    BY <1>4, <1>7, <2>1, Zenon
<1>9. items \in Seq(Values)
  <2>1. n \in Nat /\ IsMap(v.map)
    BY <1>1, BorderIs, ValueKinds
  <2> QED
    BY <2>1, ItemsAre
<1> HIDE DEF items, d, v
<1>10. u = <<items>> \o d
  BY <1>3, Zenon DEF items
<1>11. Len(u) = w /\ u[1] = items /\ \A k \in 1 .. l : u[k + 1] = d[k]
  <2>1. u \in Seq(Seq(Values)) /\ Len(u) = Len(d) + 1 /\ u[1] = items /\ \A k \in 1 .. Len(d) : u[k + 1] = d[k]
    BY <1>4, <1>9, <1>10, Prepended
  <2> QED
    BY <1>4, <1>5, <2>1
<1> DEFINE A(k) == Through(Depths - (l - k), t[k])
           B(k) == Through(Depths - (w - k), u[k])
           D(k) == Through(Depths - (l - k), d[k])
<1>12. B(1) <=> Through(Depths - l, items)
  BY <1>6, <1>11, Zenon
<1>13. \A k \in 1 .. l : B(k + 1) <=> D(k)
  <2>1. \A k \in 1 .. l : w - (k + 1) = l - k
    OBVIOUS
  <2> QED
    BY <1>11, <2>1, Zenon
<1>14. \A k \in 2 .. l : A(k) <=> D(k)
  BY <1>4, <1>5, Zenon
<1>15. A(1) <=> B(1) /\ D(1)
  BY <1>8, <1>12, Zenon
<1> HIDE DEF A, B, D
<1>16. (\A k \in 1 .. l : A(k)) <=> (\A k \in 1 .. w : B(k))
  <2>1. (\A k \in 1 .. l : A(k)) <=> A(1) /\ \A k \in 2 .. l : A(k)
    BY <1>5
  <2>2. (\A k \in 1 .. l : D(k)) <=> D(1) /\ \A k \in 2 .. l : D(k)
    BY <1>5
  <2>3. (\A k \in 1 .. w : B(k)) <=> B(1) /\ \A k \in 1 .. l : B(k + 1)
    <3>1. ASSUME B(1), \A k \in 1 .. l : B(k + 1), NEW k \in 1 .. w PROVE B(k)
      <4>1. CASE k = 1
        BY <3>1, <4>1
      <4>2. CASE k # 1
        <5>1. k - 1 \in 1 .. l /\ (k - 1) + 1 = k
          BY <4>2, <1>5
        <5> QED
          BY <3>1, <5>1
      <4> QED
        BY <4>1, <4>2
    <3>2. 1 \in 1 .. w /\ \A k \in 1 .. l : k + 1 \in 1 .. w
      OBVIOUS
    <3> QED
      BY <3>1, <3>2
  <2> QED
    BY <1>13, <1>14, <1>15, <2>1, <2>2, <2>3, Zenon
<1>17. AllTravel(t) <=> \A k \in 1 .. l : A(k)
  BY <1>5, Zenon DEF AllTravel, A
<1>18. AllTravel(u) <=> \A k \in 1 .. w : B(k)
  BY <1>11, Zenon DEF AllTravel, B
<1> QED
  BY <1>5, <1>11, <1>16, <1>17, <1>18, Zenon

LEMMA EndKeeps ==
  ASSUME NEW t \in Todos, NEW c, NEW u, PacksEnd(t, c, u)
  PROVE  Len(u) = Len(t) - 1 /\ (AllTravel(t) <=> AllTravel(u))
<1>1. t[1] = <<>> /\ Len(t) > 1 /\ u = Tail(t) /\ t \in Seq(Seq(Values))
  BY TodosAre DEF PacksEnd
<1>2. PICK l \in Nat : l = Len(t) /\ l > 1
  BY <1>1, LenProperties
<1>3. Len(u) = l - 1 /\ \A k \in 1 .. l - 1 : u[k] = t[k + 1]
  BY <1>1, <1>2
<1> DEFINE A(k) == Through(Depths - (l - k), t[k])
           B(k) == Through(Depths - (l - 1 - k), u[k])
<1>4. A(1)
  <2>1. \A i \in 1 .. Len(<<>>) : FALSE
    OBVIOUS
  <2> QED
    BY <1>1, <2>1, Zenon DEF Through
<1>5. \A k \in 1 .. l - 1 : A(k + 1) <=> B(k)
  <2>1. \A k \in 1 .. l - 1 : l - (k + 1) = l - 1 - k
    BY <1>2
  <2> QED
    BY <1>3, <2>1, Zenon
<1> HIDE DEF A, B
<1>6. (\A k \in 1 .. l : A(k)) <=> \A k \in 1 .. l - 1 : B(k)
  <2>1. ASSUME \A k \in 1 .. l - 1 : A(k + 1), NEW k \in 1 .. l PROVE A(k)
    <3>1. CASE k = 1
      BY <1>4, <3>1
    <3>2. CASE k # 1
      <4>1. k - 1 \in 1 .. l - 1 /\ (k - 1) + 1 = k
        BY <3>2, <1>2
      <4> QED
        BY <2>1, <4>1
    <3> QED
      BY <3>1, <3>2
  <2>2. \A k \in 1 .. l - 1 : k + 1 \in 1 .. l
    BY <1>2
  <2> QED
    BY <1>5, <2>1, <2>2
<1>7. AllTravel(t) <=> \A k \in 1 .. l : A(k)
  BY <1>2, Zenon DEF AllTravel, A
<1>8. AllTravel(u) <=> \A k \in 1 .. l - 1 : B(k)
  BY <1>3, Zenon DEF AllTravel, B
<1> QED
  BY <1>2, <1>3, <1>6, <1>7, <1>8, Zenon

\* A refused value cannot travel.
LEMMA RefusedStays ==
  ASSUME NEW t \in Todos, t[1] # <<>>, Len(t) - 1 <= Depths,
         Len(t) - 1 > MaxDepth \/ Head(t[1]).t = "function"
  PROVE  ~AllTravel(t)
<1> DEFINE v == Head(t[1])
<1>1. v \in Values /\ t[1] \in Seq(Values)
  BY TodosAre
<1>2. PICK l \in Nat : l = Len(t) /\ l >= 1
  BY TodosAre
<1>3. Depths - (l - 1) \in 0 .. Depths /\ (l - 1 > MaxDepth => ~(Depths - (l - 1) > 0))
  BY <1>2, LimitsAreNumbers DEF Depths
<1>4. ~Travels[Depths - (l - 1)][v]
  BY <1>1, <1>2, <1>3, TravelsIs DEF Depths
<1>5. ~Through(Depths - (l - 1), t[1])
  BY <1>1, <1>4, ThroughHead
<1>6. 1 \in 1 .. l
  BY <1>2
<1> QED
  BY <1>2, <1>5, <1>6, Zenon DEF AllTravel

LEMMA AllPacked == AllTravel(<<<<>>>>)
<1>1. Len(<<<<>>>>) = 1 /\ <<<<>>>>[1] = <<>>
  OBVIOUS
<1>2. \A k \in 1 .. 1 : k = 1
  OBVIOUS
<1>3. \A i \in 1 .. Len(<<>>) : FALSE
  OBVIOUS
<1> QED
  BY <1>1, <1>2, <1>3, Zenon DEF AllTravel, Through

LEMMA NothingPacked ==
  ASSUME NEW list \in Seq(Values)
  PROVE  AllTravel(<<list>>) <=> \A i \in DOMAIN list : Travels[MaxDepth + 1][list[i]]
<1>1. Len(<<list>>) = 1 /\ <<list>>[1] = list /\ DOMAIN list = 1 .. Len(list)
  OBVIOUS
<1>2. 1 \in 1 .. 1 /\ \A k \in 1 .. 1 : k = 1
  OBVIOUS
<1>3. Depths - (1 - 1) = Depths
  BY LimitsAreNumbers DEF Depths
<1> QED
  BY <1>1, <1>2, <1>3, Zenon DEF AllTravel, Through, Depths

-----------------------------------------------------------------------------
(* The steps of the specification                                           *)

\* The blocks of a chain.
LEMMA Blocks ==
  ASSUME NEW bytes, NEW end, Chain(bytes, end)
  PROVE  /\ {BlockOf(i) : i \in DOMAIN bytes} = 1 .. BlockOf(end)
         /\ Len(bytes) % BlockSize = 0
<1>1. PICK k \in Nat : k = BlockOf(end)
  BY BlockIs DEF Chain
<1>2. BlockSize \in Nat /\ BlockSize > 0
  BY Sizes
<1>3. PICK n \in Nat : n = Len(bytes) /\ n = k * BlockSize /\ DOMAIN bytes = 1 .. n
  BY <1>1 DEF Chain
<1>4. ASSUME NEW i \in 1 .. n PROVE BlockOf(i) \in 1 .. k
  <2>1. BlockOf(i) \in Nat /\ i <= BlockOf(i) * BlockSize /\ BlockOf(i) * BlockSize < i + BlockSize
    BY BlockIs
  <2>2. (k + 1) * BlockSize = k * BlockSize + BlockSize /\ 0 * BlockSize = 0
    BY <1>2
  <2>3. BlockOf(i) * BlockSize < (k + 1) * BlockSize /\ 0 * BlockSize < BlockOf(i) * BlockSize
    BY <1>2, <1>3, <2>1, <2>2
  <2>4. BlockOf(i) < k + 1 /\ 0 < BlockOf(i)
    BY <2>1, <2>3, LessBlocks
  <2> QED
    BY <2>1, <2>4
<1>5. ASSUME NEW j \in 1 .. k PROVE \E i \in 1 .. n : BlockOf(i) = j
  <2>1. (j - 1) * BlockSize = j * BlockSize - BlockSize /\ j * BlockSize \in Int
    BY <1>2
  <2>2. j * BlockSize <= k * BlockSize /\ (j - 1) * BlockSize >= 0
    BY <1>2
  <2>3. j * BlockSize \in 1 .. n /\ j * BlockSize \in Nat /\ (j - 1) * BlockSize < j * BlockSize
    BY <1>2, <1>3, <2>1, <2>2
  <2>4. BlockOf(j * BlockSize) = j
    <3>1. PICK i \in Nat : i = j * BlockSize
      BY <2>3
    <3>2. (j - 1) * BlockSize < i /\ i <= j * BlockSize
      BY <2>3, <3>1
    <3> QED
      BY <3>1, <3>2, BlockUnique
  <2> QED
    BY <2>3, <2>4
<1>6. {BlockOf(i) : i \in 1 .. n} = 1 .. k
  BY <1>4, <1>5
<1>7. n % BlockSize = 0
  BY <1>2, <1>3
<1> QED
  BY <1>1, <1>3, <1>6, <1>7

\* A reader of a chain that is closed starts with the values.
LEMMA ReadsFirst ==
  ASSUME NEW w, NEW end, Chain(w.bytes, end), end >= 4, Signed(SubSeq(w.bytes, 1, 4)) = end
  PROVE  Reads(RbInit(w), end) /\ RbInit(w).bytes = w.bytes /\ At(RbInit(w)) = 4
<1> DEFINE r == RbInit(w)
<1>1. /\ r.bytes = w.bytes /\ r.live = {BlockOf(i) : i \in DOMAIN w.bytes} /\ r.cur = 1 /\ r.ptr = 4
      /\ r.len = end - 4 /\ r.data = <<>> /\ r.ok = TRUE /\ r.fault = FALSE
      /\ r = [bytes |-> r.bytes, live |-> r.live, cur |-> r.cur, ptr |-> r.ptr, len |-> r.len,
              data |-> r.data, ok |-> r.ok, fault |-> r.fault]
  BY DEF RbInit
<1> HIDE DEF r
<1>2. end \in Nat /\ w.bytes \in Seq(Octets)
  BY DEF Chain
<1>3. r.live = 1 .. BlockOf(end)
  BY <1>1, Blocks
<1>4. At(r) = 4
  BY <1>1, Sizes DEF At
<1>5. r \in Reader
  <2>1. r.live \in SUBSET Int
    BY <1>2, <1>3, BlockIs
  <2>2. r.cur \in Nat /\ r.ptr \in Nat /\ r.len \in Int /\ r.data \in Seq(Octets)
        /\ r.ok \in BOOLEAN /\ r.fault \in BOOLEAN /\ r.bytes \in Seq(Octets)
    <3>1. r.cur \in Nat /\ r.ptr \in Nat /\ r.len \in Int
      BY <1>1, <1>2
    <3>2. <<>> \in Seq(Octets) /\ TRUE \in BOOLEAN /\ FALSE \in BOOLEAN
      OBVIOUS
    <3> QED
      BY <1>1, <1>2, <3>1, <3>2, Zenon
  <2> QED
    BY <1>1, <2>1, <2>2 DEF Reader
<1>6. r.cur >= 1 /\ r.ptr <= BlockSize /\ At(r) \in Nat /\ At(r) <= end /\ r.len = end - At(r)
  BY <1>1, <1>4, Sizes
<1>7. r.live = r.cur .. BlockOf(end)
  BY <1>1, <1>3
<1> QED
  BY <1>1, <1>4, <1>5, <1>6, <1>7 DEF Reads, r

LEMMA FourFits == 4 \in Int32
<1>1. /\ Power[0] = 1 /\ Power[1] = Base * Power[0] /\ Power[2] = Base * Power[1]
      /\ Power[3] = Base * Power[2] /\ Power[4] = Base * Power[3]
  <2>1. /\ 1 \in 1 .. 8 /\ 2 \in 1 .. 8 /\ 3 \in 1 .. 8 /\ 4 \in 1 .. 8
        /\ 1 - 1 = 0 /\ 2 - 1 = 1 /\ 3 - 1 = 2 /\ 4 - 1 = 3
    OBVIOUS
  <2> QED
    BY <2>1, PowerIs, Zenon
<1> DEFINE a == Power[1]
           b == Power[2]
           c == Power[3]
           d == Power[4]
<1>2. Base \in Nat /\ Base >= 2
  BY Bases
<1>3. a \in Nat /\ a >= 2
  BY <1>1, <1>2
<1>4. b = Base * a /\ c = Base * b /\ d = Base * c
  BY <1>1
<1> HIDE DEF a, b, c, d
<1>5. \A x \in Nat : Base * x \in Nat /\ Base * x >= 2 * x
  BY <1>2
<1>6. b \in Nat /\ b >= 4
  BY <1>3, <1>4, <1>5
<1>7. c \in Nat /\ c >= 8
  BY <1>4, <1>5, <1>6
<1>8. d \in Nat /\ d >= 16
  BY <1>4, <1>5, <1>7
<1> QED
  BY <1>8 DEF Int32, Ints, d

\* The whole of a list can travel.
Whole(list) == \A i \in DOMAIN list : Travels[MaxDepth + 1][list[i]]

\* The writer of a list, with t still to pack.
Written(list, w, t) ==
  /\ w \in Writer /\ Chain(w.bytes, w.at)
  /\ w.len = w.at /\ w.at >= 4 /\ w.len \in Int32
  /\ t \in Todos /\ Len(t) - 1 <= Depths
  /\ Whole(list) <=> AllTravel(t)
  /\ \E R : Script(R, list, w.bytes, <<w.at, t>>)

\* The reader of a list: it stands where a step of the packing began, and the
\* receiver has what the steps before it packed.
Reading(list, w, r, tables, out) ==
  \E end \in Nat :
     /\ w.len = end + 4 /\ Len(w.bytes) % BlockSize = 0
     /\ Reads(r, end) /\ Whole(list)
     /\ \E R, t : /\ Script(R, list, r.bytes, <<end, <<<<>>>>>>)
                  /\ <<At(r), t>> \in R /\ Caught(t, tables, out, list)

LEMMA WrittenFirst ==
  ASSUME NEW list \in Seq(Values)
  PROVE  Written(list, WbInit, <<list>>)
<1> DEFINE t == <<list>>
           w == WbInit
           R == {<<4, t>>}
<1>1. w \in Writer /\ w.at = 4 /\ w.len = 4 /\ Chain(w.bytes, 4)
  BY NewChain
<1>2. t \in Todos /\ Len(t) = 1
  BY DEF Todos
<1>3. Len(t) - 1 <= Depths
  BY <1>2, LimitsAreNumbers DEF Depths
<1>4. Whole(list) <=> AllTravel(t)
  BY NothingPacked, Zenon DEF Whole
<1>5. Script(R, list, w.bytes, <<4, t>>)
  <2>1. 4 \in Nat /\ <<4, t>>[1] = 4 /\ 4 >= 4
    OBVIOUS
  <2>2. R \subseteq Nat \X Todos
    BY <1>2, <2>1
  <2> QED
    BY <2>1, <2>2, Zenon DEF Script
<1>6. 4 >= 4
  OBVIOUS
<1> HIDE DEF t, w, R
<1>7. Written(list, w, t)
  BY <1>1, <1>2, <1>3, <1>4, <1>5, <1>6, FourFits, Zenon DEF Written
<1> QED
  BY <1>7 DEF t, w

\* A step of the packing.
LEMMA WrittenNext ==
  ASSUME NEW list, NEW w, NEW t, Written(list, w, t), NEW c, NEW u, Packs(t, c, u),
         Len(t) - 1 > MaxDepth => PacksEnd(t, c, u), Push(w, c).len \in Int32
  PROVE  Written(list, Push(w, c), u)
<1> DEFINE z == Push(w, c)
<1>1. /\ w \in Writer /\ Chain(w.bytes, w.at) /\ w.len = w.at /\ w.at >= 4
      /\ t \in Todos /\ Len(t) - 1 <= Depths /\ (Whole(list) <=> AllTravel(t))
  BY DEF Written
<1>2. PICK R : Script(R, list, w.bytes, <<w.at, t>>)
  BY DEF Written
<1>3. c \in Seq(Octets) /\ Len(c) >= 1 /\ u \in Todos
  BY <1>1, PacksType
<1>4. /\ z.at = w.at + Len(c) /\ z.len = w.len + Len(c)
      /\ Chain(z.bytes, w.at + Len(c))
      /\ \A i \in 1 .. w.at : z.bytes[i] = w.bytes[i]
      /\ Holds(z.bytes, w.at, c)
  BY <1>1, <1>3, PushAppends
<1>5. z \in Writer
  BY <1>1, <1>3, PushWrites
<1>6. PICK p \in Nat, l \in Nat : p = w.at /\ l = Len(c)
  BY <1>1, <1>3 DEF Chain
<1>7. z.len = z.at /\ z.at >= 4 /\ Chain(z.bytes, z.at)
  BY <1>1, <1>4, <1>6
<1>8. Script(R \cup {<<p + Len(c), u>>}, list, z.bytes, <<p + Len(c), u>>)
  <2>1. p >= 4 /\ Script(R, list, w.bytes, <<p, t>>)
    BY <1>1, <1>2, <1>6
  <2>2. (\A i \in 1 .. p : z.bytes[i] = w.bytes[i]) /\ Holds(z.bytes, p, c)
    BY <1>4, <1>6, Zenon
  <2> HIDE DEF z
  <2> QED
    BY <1>1, <1>3, <2>1, <2>2, ScriptGrows
<1>9. <<p + Len(c), u>> = <<z.at, u>>
  BY <1>4, <1>6
<1>10. Len(u) - 1 <= Depths /\ (Whole(list) <=> AllTravel(u))
  <2>1. PICK n \in Nat : n = Len(t)
    BY <1>1, TodosAre
  <2>2. MaxDepth \in Nat /\ Depths = MaxDepth + 1
    BY LimitsAreNumbers DEF Depths
  <2>3. CASE PacksEnd(t, c, u)
    <3>1. Len(u) = Len(t) - 1 /\ (AllTravel(t) <=> AllTravel(u))
      BY <1>1, <2>3, EndKeeps
    <3>2. Len(u) - 1 <= Depths
      BY <1>1, <2>1, <3>1, <2>2
    <3> QED
      BY <1>1, <3>1, <3>2, Zenon
  <2>4. CASE ~PacksEnd(t, c, u)
    <3>1. Len(t) - 1 <= MaxDepth
      BY <2>1, <2>2, <2>4
    <3>2. (Len(u) = Len(t) \/ Len(u) = Len(t) + 1) /\ (AllTravel(t) <=> AllTravel(u))
      BY <1>1, <2>4, <3>1, PlainKeeps, TableKeeps, Zenon DEF Packs
    <3>3. Len(u) - 1 <= Depths
      BY <2>1, <2>2, <3>1, <3>2
    <3> QED
      BY <1>1, <3>2, <3>3, Zenon
  <2> QED
    BY <2>3, <2>4
<1> HIDE DEF z
<1>11. \E S : Script(S, list, z.bytes, <<z.at, u>>)
  BY <1>8, <1>9, Zenon
<1>12. z.len \in Int32
  BY DEF z
<1>13. Written(list, z, u)
  BY <1>3, <1>5, <1>7, <1>10, <1>11, <1>12 DEF Written
<1> QED
  BY <1>13 DEF z

\* All is packed, and the receiver has read nothing.
LEMMA ReadingFirst ==
  ASSUME NEW list \in Seq(Values), NEW w, NEW t, Written(list, w, t), t[1] = <<>>, Len(t) = 1
  PROVE  LET z == WbClose(w) IN Reading(list, z, RbInit(z), <<>>, <<>>)
<1> DEFINE z == WbClose(w)
           r == RbInit(z)
<1>1. /\ w \in Writer /\ Chain(w.bytes, w.at) /\ w.len = w.at /\ w.at >= 4 /\ w.len \in Int32
      /\ t \in Todos /\ (Whole(list) <=> AllTravel(t))
  BY DEF Written
<1>2. t = <<<<>>>>
  <2>1. t \in Seq(Seq(Values))
    BY <1>1, TodosAre
  <2>2. <<<<>>>> \in Seq(Seq(Values)) /\ Len(<<<<>>>>) = 1 /\ <<<<>>>>[1] = <<>>
    OBVIOUS
  <2>3. \A i \in 1 .. 1 : i = 1
    OBVIOUS
  <2>4. \A i \in 1 .. Len(t) : t[i] = <<<<>>>>[i]
    BY <2>2, <2>3, Zenon
  <2> QED
    BY <2>1, <2>2, <2>4, SeqEqual, Zenon
<1>3. PICK R : Script(R, list, w.bytes, <<w.at, t>>)
  BY DEF Written
<1>4. PICK end \in Nat : end = w.at
  BY <1>1 DEF Chain
<1>5. /\ z.len = end + 4 /\ Chain(z.bytes, end)
      /\ \A i \in Nat : 4 < i /\ i <= end => z.bytes[i] = w.bytes[i]
      /\ Signed(SubSeq(z.bytes, 1, 4)) = end
  <2>1. /\ z.len = w.len + 4 /\ Chain(z.bytes, w.at)
        /\ \A i \in Nat : 4 < i /\ i <= w.at => z.bytes[i] = w.bytes[i]
        /\ Signed(SubSeq(z.bytes, 1, 4)) = w.len
    BY <1>1, CloseChain
  <2> HIDE DEF z
  <2> QED
    BY <1>1, <1>4, <2>1
<1> HIDE DEF z
<1>6. Reads(r, end) /\ r.bytes = z.bytes /\ At(r) = 4
  BY <1>1, <1>4, <1>5, ReadsFirst
<1> HIDE DEF r
<1>7. Script(R, list, r.bytes, <<end, t>>)
  BY <1>3, <1>4, <1>5, <1>6, ScriptStays
<1>8. <<At(r), <<list>>>> \in R
  BY <1>3, <1>6 DEF Script
<1>9. Caught(<<list>>, <<>>, <<>>, list)
  BY CaughtFirst
<1>10. Whole(list)
  BY <1>1, <1>2, AllPacked
<1>11. Len(z.bytes) % BlockSize = 0
  BY <1>5, Blocks
<1>12. Reading(list, z, r, <<>>, <<>>)
  BY <1>2, <1>5, <1>6, <1>7, <1>8, <1>9, <1>10, <1>11, Zenon DEF Reading
<1> QED
  BY <1>12 DEF z, r

LEMMA MoreToRead ==
  ASSUME NEW r \in Reader
  PROVE  RbRead(r, 1).ok <=> r.len >= 1
<1>1. r.len \in Int /\ [r EXCEPT !.data = <<>>, !.ok = FALSE].ok = FALSE
  BY DEF Reader
<1> QED
  BY <1>1 DEF RbRead

\* A value is read.
LEMMA ReadingNext ==
  ASSUME NEW list, NEW w, NEW r, NEW tables, NEW out, Reading(list, w, r, tables, out),
         RbRead(r, 1).ok
  PROVE  LET g == ReadOne(r)
             d == Receives(tables, out, g.v)
         IN  g.v.t # "invalid" /\ Reading(list, w, g.r, d.open, d.result)
<1> DEFINE g == ReadOne(r)
           d == Receives(tables, out, g.v)
<1>1. PICK end \in Nat :
        /\ w.len = end + 4 /\ Len(w.bytes) % BlockSize = 0
        /\ Reads(r, end) /\ Whole(list)
        /\ \E R, t : /\ Script(R, list, r.bytes, <<end, <<<<>>>>>>)
                     /\ <<At(r), t>> \in R /\ Caught(t, tables, out, list)
  BY DEF Reading
<1>2. PICK R, t : /\ Script(R, list, r.bytes, <<end, <<<<>>>>>>)
                  /\ <<At(r), t>> \in R /\ Caught(t, tables, out, list)
  BY <1>1
<1>3. PICK at \in Nat : at = At(r) /\ at < end
  <2>1. r.len >= 1 /\ At(r) \in Nat /\ r.len = end - At(r)
    BY <1>1, MoreToRead DEF Reads
  <2> QED
    BY <2>1
<1>4. <<at, t>> \in R /\ t \in Todos /\ <<at, t>> # <<end, <<<<>>>>>>
  BY <1>2, <1>3 DEF Script
<1>5. Follows(R, r.bytes, <<at, t>>, <<end, <<<<>>>>>>)
  BY <1>2, <1>4, Zenon DEF Script
<1>6. PICK c \in Seq(Octets), u \in Todos :
        /\ Packs(t, c, u) /\ Holds(r.bytes, at, c)
        /\ at + Len(c) <= end /\ <<at + Len(c), u>> \in R
  BY <1>5 DEF Follows
<1>7. Ahead(r, c, end)
  BY <1>1, <1>3, <1>6 DEF Ahead
<1>8. Gets(g, g.v, r, Len(c), end) /\ g.v.t # "invalid" /\ Caught(u, d.open, d.result, list)
  BY <1>2, <1>4, <1>6, <1>7, UnpackStep, Zenon
<1> HIDE DEF g, d
<1>9. Reads(g.r, end) /\ g.r.bytes = r.bytes /\ At(g.r) = at + Len(c)
  BY <1>3, <1>8 DEF Gets
<1>10. Script(R, list, g.r.bytes, <<end, <<<<>>>>>>) /\ <<At(g.r), u>> \in R
  BY <1>2, <1>6, <1>9
<1>11. Reading(list, w, g.r, d.open, d.result)
  BY <1>1, <1>8, <1>9, <1>10, Zenon DEF Reading
<1> QED
  BY <1>8, <1>11 DEF g, d

\* Nothing is left to read.
LEMMA ReadingLast ==
  ASSUME NEW list, NEW w, NEW r, NEW tables, NEW out, Reading(list, w, r, tables, out),
         ~RbRead(r, 1).ok
  PROVE  tables = <<>> /\ out = list /\ {b \in r.live : b < r.cur} = {}
<1>1. PICK end \in Nat :
        /\ Reads(r, end)
        /\ \E R, t : /\ Script(R, list, r.bytes, <<end, <<<<>>>>>>)
                     /\ <<At(r), t>> \in R /\ Caught(t, tables, out, list)
  BY DEF Reading
<1>2. PICK R, t : /\ Script(R, list, r.bytes, <<end, <<<<>>>>>>)
                  /\ <<At(r), t>> \in R /\ Caught(t, tables, out, list)
  BY <1>1
<1>3. At(r) = end
  <2>1. ~(r.len >= 1) /\ At(r) \in Nat /\ At(r) <= end /\ r.len = end - At(r)
    BY <1>1, MoreToRead DEF Reads
  <2> QED
    BY <2>1
<1>4. <<end, t>> \in R /\ t \in Todos
  BY <1>2, <1>3 DEF Script
<1>5. t = <<<<>>>>
  <2>1. SUFFICES ASSUME Follows(R, r.bytes, <<end, t>>, <<end, <<<<>>>>>>) PROVE FALSE
    <3>1. <<end, t>> = <<end, <<<<>>>>>> => t = <<<<>>>>
      OBVIOUS
    <3> QED
      BY <1>2, <1>4, <3>1, Zenon DEF Script
  <2>2. PICK c \in Seq(Octets), u \in Todos : Packs(t, c, u) /\ end + Len(c) <= end
    BY <2>1 DEF Follows
  <2>3. Len(c) >= 1 /\ Len(c) \in Nat
    BY <1>4, <2>2, PacksType
  <2> QED
    BY <2>2, <2>3
<1>6. tables = <<>> /\ out = list
  BY <1>2, <1>5, CaughtLast
<1>7. \A b \in r.live : ~(b < r.cur)
  BY <1>1 DEF Reads, Reader
<1> QED
  BY <1>6, <1>7

Unread ==
  [bytes |-> <<>>, live |-> {}, cur |-> 1, ptr |-> 0, len |-> 0,
   data |-> <<>>, ok |-> TRUE, fault |-> FALSE]

\* The inductive invariant, one part for each stage of the two calls.
InPacking == pc = "pack" /\ Written(input, wb, todo) /\ rb = Unread /\ open = <<>> /\ result = <<>>
InUnpacking == pc = "unpack" /\ Reading(input, wb, rb, open, result)
IsRefused == pc = "error" /\ wb.bytes = <<>> /\ rb = Unread /\ result = <<>> /\ ~Whole(input)
IsUnpacked ==
  /\ pc = "done" /\ Len(wb.bytes) % BlockSize = 0
  /\ rb.ptr = 0 /\ rb.live = {} /\ ~rb.fault /\ result = input
IInv ==
  /\ input \in Inputs
  /\ InPacking \/ InUnpacking \/ IsRefused \/ IsUnpacked

LEMMA IInvInit == Init => IInv
<1> SUFFICES ASSUME Init PROVE IInv
  OBVIOUS
<1>1. input \in Inputs /\ input \in Seq(Values)
  BY InputsAreLists DEF Init
<1>2. Written(input, WbInit, <<input>>)
  BY <1>1, WrittenFirst
<1> QED
  BY <1>1, <1>2 DEF Init, IInv, InPacking, Unread

LEMMA IInvNext == IInv /\ [Next]_vars => IInv'
<1> SUFFICES ASSUME IInv, [Next]_vars PROVE IInv'
  OBVIOUS
<1>1. input \in Inputs /\ input \in Seq(Values)
  BY InputsAreLists DEF IInv
<1>2. ASSUME pc = "pack" PROVE InPacking
  BY <1>2 DEF IInv, InPacking, InUnpacking, IsRefused, IsUnpacked
<1>3. ASSUME pc = "unpack" PROVE InUnpacking
  BY <1>3 DEF IInv, InPacking, InUnpacking, IsRefused, IsUnpacked
<1>4. ASSUME InPacking
      PROVE  /\ Written(input, wb, todo) /\ rb = Unread /\ open = <<>> /\ result = <<>>
             /\ todo \in Todos /\ Len(todo) - 1 <= Depths /\ Len(todo) \in Nat
             /\ Whole(input) <=> AllTravel(todo)
  <2>1. Written(input, wb, todo) /\ rb = Unread /\ open = <<>> /\ result = <<>>
    BY <1>4 DEF InPacking
  <2>2. todo \in Todos /\ Len(todo) - 1 <= Depths /\ (Whole(input) <=> AllTravel(todo))
    BY <2>1 DEF Written
  <2>3. Len(todo) \in Nat
    BY <2>2, TodosAre
  <2> QED
    BY <2>1, <2>2, <2>3
<1>5. ASSUME NEW c, Packs(todo, c, todo'), WbPush(c), InPacking,
             Len(todo) - 1 > MaxDepth => PacksEnd(todo, c, todo'),
             UNCHANGED <<input, rb, open, result, pc>>
      PROVE  IInv'
  <2>1. wb' = Push(wb, c) /\ Push(wb, c).len \in Int32
    BY <1>5 DEF WbPush
  <2>2. Written(input, Push(wb, c), todo')
    BY <1>4, <1>5, <2>1, WrittenNext
  <2>3. Written(input', wb', todo')
    BY <1>5, <2>1, <2>2
  <2>4. pc = "pack" /\ rb = Unread /\ open = <<>> /\ result = <<>>
    BY <1>5 DEF InPacking
  <2> QED
    BY <1>1, <1>5, <2>3, <2>4 DEF IInv, InPacking, Unread
<1>6. CASE Refuse
  <2>1. pc = "pack" /\ todo[1] # <<>>
    BY <1>6 DEF Refuse, Packing
  <2>2. InPacking
    BY <1>2, <2>1
  <2>3. Len(todo) - 1 > MaxDepth \/ Head(todo[1]).t = "function"
    BY <1>6 DEF Refuse, TooDeep, Value
  <2>4. ~Whole(input)
    BY <1>4, <2>1, <2>2, <2>3, RefusedStays
  <2>5. rb' = Unread /\ result' = <<>> /\ pc' = "error" /\ input' = input
    BY <1>4, <1>6, <2>2 DEF Refuse
  <2>6. wb'.bytes = <<>>
    BY <1>6 DEF Refuse
  <2> QED
    BY <1>1, <2>4, <2>5, <2>6 DEF IInv, IsRefused, Unread, Whole
<1>7. CASE PackPlain
  <2>1. InPacking
    BY <1>2, <1>7 DEF PackPlain, Packing
  <2>2. PacksPlain(todo, Plain(Value), todo') /\ WbPush(Plain(Value))
    BY <1>7, Zenon DEF PackPlain, Packing, PacksPlain, Value
  <2>3. ~(Len(todo) - 1 > MaxDepth) /\ UNCHANGED <<input, rb, open, result, pc>>
    BY <1>7 DEF PackPlain, TooDeep
  <2> QED
    BY <1>5, <2>1, <2>2, <2>3, Zenon DEF Packs
<1>8. CASE PackTable
  <2>1. InPacking
    BY <1>2, <1>8 DEF PackTable, Packing
  <2>2. /\ todo[1] # <<>> /\ Head(todo[1]).t = "table"
        /\ \E n \in Borders(Head(todo[1]).map) : \E pairs \in Orders(HashPart(Head(todo[1]).map, n)) :
             /\ WbPush(TableHead(n))
             /\ todo' = <<TableItems(Head(todo[1]).map, n, pairs)>> \o [todo EXCEPT ![1] = Tail(@)]
    BY <1>8, Zenon DEF PackTable, Packing, Value
  <2>3. PICK n \in Borders(Head(todo[1]).map) : \E pairs \in Orders(HashPart(Head(todo[1]).map, n)) :
             /\ WbPush(TableHead(n))
             /\ todo' = <<TableItems(Head(todo[1]).map, n, pairs)>> \o [todo EXCEPT ![1] = Tail(@)]
    BY <2>2
  <2>4. PacksTable(todo, TableHead(n), todo') /\ WbPush(TableHead(n))
    BY <2>2, <2>3, Zenon DEF PacksTable
  <2>5. ~(Len(todo) - 1 > MaxDepth) /\ UNCHANGED <<input, rb, open, result, pc>>
    BY <1>8 DEF PackTable, TooDeep
  <2> QED
    BY <1>5, <2>1, <2>4, <2>5, Zenon DEF Packs
<1>9. CASE EndTable
  <2>1. InPacking
    BY <1>2, <1>9 DEF EndTable
  <2>2. PacksEnd(todo, Plain(Nil), todo') /\ WbPush(Plain(Nil))
    BY <1>9, Zenon DEF EndTable, PacksEnd
  <2>3. UNCHANGED <<input, rb, open, result, pc>>
    BY <1>9 DEF EndTable
  <2> QED
    BY <1>5, <2>1, <2>2, <2>3, Zenon DEF Packs
<1>10. CASE HandOver
  <2>1. InPacking /\ todo[1] = <<>> /\ Len(todo) = 1
    BY <1>2, <1>10 DEF HandOver
  <2>2. Reading(input, WbClose(wb), RbInit(WbClose(wb)), <<>>, <<>>)
    BY <1>1, <1>4, <2>1, ReadingFirst, Zenon
  <2>3. /\ wb' = WbClose(wb) /\ rb' = RbInit(wb') /\ pc' = "unpack"
        /\ input' = input /\ open' = <<>> /\ result' = <<>>
    BY <1>4, <1>10, <2>1, Zenon DEF HandOver
  <2>4. Reading(input', wb', rb', open', result')
    BY <2>2, <2>3, Zenon
  <2> QED
    BY <1>1, <2>3, <2>4 DEF IInv, InUnpacking
<1>11. CASE UnpackOne
  <2> DEFINE g == ReadOne(rb)
             d == Receives(open, result, g.v)
  <2>1. pc = "unpack" /\ RbRead(rb, 1).ok /\ input' = input /\ wb' = wb
    BY <1>11 DEF UnpackOne
  <2>2. Reading(input, wb, rb, open, result)
    BY <1>3, <2>1 DEF InUnpacking
  <2>3. g.v.t # "invalid" /\ Reading(input, wb, g.r, d.open, d.result)
    BY <2>1, <2>2, ReadingNext, Zenon
  <2>4. /\ rb' = g.r
        /\ IF g.v.t = "invalid" THEN pc' = "invalid" /\ UNCHANGED <<open, result>>
           ELSE pc' = pc /\ open' = d.open /\ result' = d.result
    BY <1>11, Zenon DEF UnpackOne, ReadOne, Receives
  <2> HIDE DEF g, d
  <2>5. pc' = pc /\ open' = d.open /\ result' = d.result /\ rb' = g.r
    BY <2>3, <2>4
  <2>6. Reading(input', wb', rb', open', result')
    BY <2>1, <2>3, <2>5
  <2> QED
    BY <1>1, <2>1, <2>5, <2>6 DEF IInv, InUnpacking
<1>12. CASE UnpackEnd
  <2>1. /\ pc = "unpack" /\ ~RbRead(rb, 1).ok
        /\ UNCHANGED <<input, todo, wb, open, result>>
        /\ pc' = IF open = <<>> THEN "done" ELSE "invalid"
        /\ rb' = [rb EXCEPT !.live = {b \in @ : b < rb.cur}, !.len = 0, !.ptr = 0]
    BY <1>12 DEF UnpackEnd
  <2>2. Reading(input, wb, rb, open, result)
    BY <1>3, <2>1 DEF InUnpacking
  <2>3. open = <<>> /\ result = input /\ {b \in rb.live : b < rb.cur} = {}
    BY <2>1, <2>2, ReadingLast
  <2>4. Len(wb.bytes) % BlockSize = 0 /\ rb \in Reader /\ rb.fault = FALSE
    BY <2>2 DEF Reading, Reads
  <2>5. rb' = [rb EXCEPT !.live = {}, !.len = 0, !.ptr = 0]
    BY <2>1, <2>3
  <2>6. rb'.ptr = 0 /\ rb'.live = {} /\ rb'.fault = FALSE
    BY <2>4, <2>5 DEF Reader
  <2> QED
    BY <1>1, <2>1, <2>3, <2>4, <2>6 DEF IInv, IsUnpacked
<1>13. CASE UNCHANGED vars
  <2>1. /\ input' = input /\ todo' = todo /\ wb' = wb /\ rb' = rb /\ open' = open
        /\ result' = result /\ pc' = pc
    BY <1>13 DEF vars
  <2> QED
    BY <2>1 DEF IInv, InPacking, InUnpacking, IsRefused, IsUnpacked, Unread, Whole
<1>14. CASE Ended
  BY <1>13, <1>14 DEF Ended
<1> QED
  BY <1>6, <1>7, <1>8, <1>9, <1>10, <1>11, <1>12, <1>13, <1>14 DEF Next

LEMMA IInvTypes == IInv => TypeOK
<1> SUFFICES ASSUME IInv PROVE TypeOK
  OBVIOUS
<1>1. CASE InPacking
  <2>1. /\ Chain(wb.bytes, wb.at) /\ wb.len = wb.at /\ rb = Unread /\ pc = "pack"
    BY <1>1 DEF InPacking, Written
  <2>2. Len(wb.bytes) % BlockSize = 0
    BY <2>1, Blocks
  <2>3. Len(wb.bytes) - wb.at \in 0 .. BlockSize - 1
    <3>1. PICK n \in Nat : n = wb.at
      BY <2>1 DEF Chain
    <3>2. n <= BlockOf(n) * BlockSize /\ BlockOf(n) * BlockSize < n + BlockSize
      BY BlockIs
    <3>3. Len(wb.bytes) = BlockOf(n) * BlockSize
      BY <2>1, <3>1, Zenon DEF Chain
    <3>4. PICK l \in Nat : l = Len(wb.bytes)
      BY <2>1 DEF Chain
    <3>5. n <= l /\ l < n + BlockSize
      BY <3>2, <3>3, <3>4
    <3> QED
      BY <3>1, <3>4, <3>5, Sizes
  <2>4. rb.ptr = 0 /\ rb.live = {} /\ 0 \in 0 .. BlockSize
    BY <2>1, Sizes DEF Unread
  <2> QED
    BY <2>1, <2>2, <2>3, <2>4 DEF TypeOK
<1>2. CASE InUnpacking
  <2>1. PICK end \in Nat :
          pc = "unpack" /\ wb.len = end + 4 /\ Len(wb.bytes) % BlockSize = 0 /\ Reads(rb, end)
    BY <1>2 DEF InUnpacking, Reading
  <2>2. /\ rb.ptr \in 0 .. BlockSize /\ At(rb) \in Nat /\ rb.len = end - At(rb)
        /\ rb.cur \in Nat /\ rb.cur >= 1 /\ rb.live = rb.cur .. BlockOf(end) /\ Chain(rb.bytes, end)
    BY <2>1, Sizes DEF Reads, Reader
  <2>3. rb.live \subseteq {BlockOf(i) : i \in DOMAIN rb.bytes}
    <3>1. {BlockOf(i) : i \in DOMAIN rb.bytes} = 1 .. BlockOf(end) /\ BlockOf(end) \in Nat
      BY <2>2, Blocks, BlockIs
    <3> QED
      BY <2>2, <3>1
  <2>4. rb.len = wb.len - 4 - At(rb)
    BY <2>1, <2>2
  <2> QED
    BY <2>1, <2>2, <2>3, <2>4 DEF TypeOK
<1>3. CASE IsRefused
  <2>1. rb.ptr = 0 /\ rb.live = {} /\ 0 \in 0 .. BlockSize /\ 0 % BlockSize = 0 /\ Len(<<>>) = 0
    BY <1>3, Sizes DEF IsRefused, Unread
  <2> QED
    BY <1>3, <2>1 DEF IsRefused, TypeOK
<1>4. CASE IsUnpacked
  <2>1. 0 \in 0 .. BlockSize
    BY Sizes
  <2> QED
    BY <1>4, <2>1 DEF IsUnpacked, TypeOK
<1> QED
  BY <1>1, <1>2, <1>3, <1>4 DEF IInv

LEMMA IInvRoundTrip == IInv => RoundTrip
<1> SUFFICES ASSUME IInv PROVE RoundTrip
  OBVIOUS
<1>1. input \in Seq(Values)
  BY InputsAreLists DEF IInv
<1>2. IsPrefix(<<>>, input) /\ IsPrefix(input, input)
  <2>1. \A list \in Seq(Values) : Len(<<>>) <= Len(list) /\ SubSeq(<<>>, 1, Len(<<>>)) = SubSeq(list, 1, Len(<<>>))
    OBVIOUS
  <2> QED
    BY <1>1, <2>1 DEF IsPrefix
<1>3. Whole(input) <=> ~\E i \in DOMAIN input : ~Travels[MaxDepth + 1][input[i]]
  BY DEF Whole
<1>4. CASE InPacking
  BY <1>2, <1>4 DEF InPacking, RoundTrip
<1>5. CASE InUnpacking
  <2>1. pc = "unpack" /\ Whole(input) /\ \E t : Caught(t, open, result, input)
    BY <1>5 DEF InUnpacking, Reading
  <2>2. IsPrefix(result, input)
    BY <2>1, CaughtPrefix
  <2> QED
    BY <1>3, <2>1, <2>2 DEF RoundTrip
<1>6. CASE IsRefused
  BY <1>2, <1>3, <1>6 DEF IsRefused, RoundTrip
<1>7. CASE IsUnpacked
  BY <1>2, <1>7 DEF IsUnpacked, RoundTrip
<1> QED
  BY <1>4, <1>5, <1>6, <1>7 DEF IInv

LEMMA IInvFreed == IInv => FreedOnce
<1> SUFFICES ASSUME IInv PROVE FreedOnce
  OBVIOUS
<1>1. CASE InPacking
  BY <1>1 DEF InPacking, Unread, FreedOnce
<1>2. CASE InUnpacking
  BY <1>2 DEF InUnpacking, Reading, Reads, FreedOnce
<1>3. CASE IsRefused
  BY <1>3 DEF IsRefused, Unread, FreedOnce
<1>4. CASE IsUnpacked
  BY <1>4 DEF IsUnpacked, FreedOnce
<1> QED
  BY <1>1, <1>2, <1>3, <1>4 DEF IInv

LEMMA IInvHolds == Spec => []IInv
<1> QED
  BY IInvInit, IInvNext, PTL DEF Spec

\* The positions of wb_push, rb_init and rb_read stay inside their blocks and
\* the writer's and the reader's lengths agree, for every size of a block, every
\* number of values of a byte and every list of values.
THEOREM TypeCorrect == Spec => []TypeOK
<1> QED
  BY IInvHolds, IInvTypes, PTL

\* seri_unpack returns what seri_pack was given, tables pair by pair, whatever
\* order lua_next yields the pairs in and whichever border lua_rawlen returns,
\* and never finds a packed chain invalid; just what _pack_one accepts is packed.
THEOREM UnpacksWhatWasPacked == Spec => []RoundTrip
<1> QED
  BY IInvHolds, IInvRoundTrip, PTL

\* rb_read and rb_close free each block of a chain once and read none
\* that is freed, wherever the ends of the blocks fall in the values.
THEOREM ChainFreedOnce == Spec => []FreedOnce
<1> QED
  BY IInvHolds, IInvFreed, PTL
=============================================================================
