---------------------------- MODULE TimerProofs ----------------------------
(***************************************************************************)
(* Proofs about the timer, for any finite set of events, any periods and   *)
(* any clock readings that do not wrap: events know their indices, the     *)
(* heap is ordered whenever no sift loop runs, and, as long as the events  *)
(* fit the array timer_init allocates, nothing is written behind it and    *)
(* the heap implements ArmedTimers.                                        *)
(***************************************************************************)
EXTENDS Timer, FiniteSetTheorems, WellFoundedInduction, TLAPS

-----------------------------------------------------------------------------
(* Heaps, as functions w from 0 .. n - 1 to deadlines.                     *)

Ordered(w, n) == \A k \in 1 .. n - 1 : w[Parent(k)] <= w[k]

\* What hangs below p is no earlier than what p hangs from.
Skips(w, n, p) == p > 0 => \A k \in 1 .. n - 1 : Parent(k) = p => w[Parent(p)] <= w[k]

\* Only the entry at p may be too early for its place; and too late when p = h.
OrderedUp(w, n, p, h) ==
  /\ \A k \in 1 .. n - 1 : k # p /\ ~(h = p /\ Parent(k) = p) => w[Parent(k)] <= w[k]
  /\ Skips(w, n, p)

\* Only the entry at p may be too late for its place.
OrderedDown(w, n, p) ==
  /\ \A k \in 1 .. n - 1 : Parent(k) # p => w[Parent(k)] <= w[k]
  /\ Skips(w, n, p)

Exchanged(w, j, k) == [w EXCEPT ![j] = w[k], ![k] = w[j]]

\* timer_siftup's (i-1)/2 undoes timer_siftdown's 2i+1 and 2(i+1).
LEMMA ParentFacts ==
  ASSUME NEW k \in Nat, k > 0
  PROVE  /\ Parent(k) \in Nat /\ Parent(k) < k
         /\ \A j \in Nat : Parent(k) = j <=> k = Left(j) \/ k = Right(j)
BY DEF Parent, Left, Right

\* A step of timer_siftup moves the trouble to the parent.
LEMMA UpSwap ==
  ASSUME NEW n \in Nat, NEW w \in [0 .. n - 1 -> Nat], NEW p \in 1 .. n - 1, NEW h,
         OrderedUp(w, n, p, h), w[p] < w[Parent(p)]
  PROVE  OrderedUp(Exchanged(w, p, Parent(p)), n, Parent(p), h)
<1> DEFINE q == Parent(p)
           x == Exchanged(w, p, q)
<1>1. q \in 0 .. n - 1 /\ q < p /\ p \in 0 .. n - 1
  BY ParentFacts
<1>2. \A k \in 1 .. n - 1 : Parent(k) \in 0 .. n - 1 /\ Parent(k) < k /\ k \in 0 .. n - 1
  BY ParentFacts
<1>3. x[p] = w[q] /\ x[q] = w[p] /\ \A k \in 0 .. n - 1 : k # p /\ k # q => x[k] = w[k]
  BY <1>1 DEF Exchanged
<1>4. w[p] < w[q] /\ \A k \in 0 .. n - 1 : w[k] \in Nat
  OBVIOUS
<1>5. /\ \A k \in 1 .. n - 1 : k # p /\ Parent(k) # p => w[Parent(k)] <= w[k]
      /\ \A k \in 1 .. n - 1 : Parent(k) = p => w[q] <= w[k]
  BY DEF OrderedUp, Skips
<1> HIDE DEF q, x
<1>6. ASSUME NEW k \in 1 .. n - 1, k # q PROVE x[Parent(k)] <= x[k]
  <2>1. CASE k = p
    BY <1>1, <1>3, <1>4, <2>1 DEF q
  <2>2. CASE k # p /\ Parent(k) = q
    <3>1. /\ x[Parent(k)] = w[p] /\ x[k] = w[k] /\ w[Parent(k)] <= w[k]
          /\ w[p] \in Nat /\ w[q] \in Nat /\ w[k] \in Nat
      BY <1>1, <1>2, <1>3, <1>4, <1>5, <1>6, <2>2
    <3>2. w[p] < w[q] /\ w[q] <= w[k]
      BY <1>4, <2>2, <3>1
    <3> QED
      BY <3>1, <3>2
  <2>3. CASE k # p /\ Parent(k) = p
    BY <1>2, <1>3, <1>4, <1>5, <1>6, <2>3
  <2>4. CASE k # p /\ Parent(k) # p /\ Parent(k) # q
    BY <1>2, <1>3, <1>5, <1>6, <2>4
  <2> QED
    BY <2>1, <2>2, <2>3, <2>4
<1>7. ASSUME q > 0, NEW k \in 1 .. n - 1, Parent(k) = q PROVE x[Parent(q)] <= x[k]
  <2>1. /\ q \in 1 .. n - 1 /\ Parent(q) \in 0 .. n - 1 /\ Parent(q) < q
        /\ w[Parent(q)] <= w[q] /\ x[Parent(q)] = w[Parent(q)]
    BY SMTT(30), <1>1, <1>2, <1>3, <1>5, <1>7
  <2>2. CASE k = p
    BY <1>1, <1>3, <2>1, <2>2
  <2>3. CASE k # p
    <3>1. k # q /\ x[k] = w[k] /\ w[q] <= w[k]
      BY SMTT(30), <1>1, <1>2, <1>3, <1>5, <1>7, <2>3
    <3> QED
      BY SMTT(20), <1>1, <1>2, <1>4, <2>1, <3>1
  <2> QED
    BY <2>2, <2>3
<1> QED
  BY <1>6, <1>7 DEF OrderedUp, Skips, q, x

\* When timer_siftup stops, what is left is for timer_siftdown, or nothing.
LEMMA UpEnds ==
  ASSUME NEW n \in Nat, NEW w \in [0 .. n - 1 -> Nat], NEW p \in 0 .. n - 1, NEW h \in -1 .. n - 1,
         OrderedUp(w, n, p, h), ~(p > 0 /\ w[p] < w[Parent(p)])
  PROVE  /\ h = -1 => Ordered(w, n)
         /\ h # -1 => OrderedDown(w, n, h)
<1>1. \A k \in 1 .. n - 1 : Parent(k) \in 0 .. n - 1 /\ Parent(k) < k /\ k \in 0 .. n - 1
  BY ParentFacts
<1>2. \A k \in 0 .. n - 1 : w[k] \in Nat
  OBVIOUS
<1>3. p > 0 => w[Parent(p)] <= w[p]
  BY <1>1, <1>2
<1>4. ASSUME NEW k \in 1 .. n - 1, ~(h = p /\ Parent(k) = p) PROVE w[Parent(k)] <= w[k]
  BY <1>3, <1>4 DEF OrderedUp
<1>5. CASE h = p
  BY <1>4, <1>5 DEF OrderedDown, OrderedUp
<1>6. CASE h # p
  <2>1. \A k \in 1 .. n - 1 : w[Parent(k)] <= w[k]
    BY <1>4, <1>6
  <2>2. ASSUME h > 0, NEW k \in 1 .. n - 1, Parent(k) = h PROVE w[Parent(h)] <= w[k]
    <3>1. h \in 1 .. n - 1 /\ Parent(h) \in 0 .. n - 1
      BY <1>1, <2>2
    <3>2. w[Parent(h)] <= w[h] /\ w[h] <= w[k]
      BY <2>1, <2>2, <3>1
    <3>3. w[Parent(h)] \in Nat /\ w[h] \in Nat /\ w[k] \in Nat
      BY <1>1, <1>2, <3>1
    <3> QED
      BY <3>2, <3>3
  <2> QED
    BY <2>1, <2>2 DEF Ordered, OrderedDown, Skips
<1> QED
  BY <1>5, <1>6

\* A step of timer_siftdown moves the trouble to the earlier child.
LEMMA DownSwap ==
  ASSUME NEW n \in Nat, NEW w \in [0 .. n - 1 -> Nat], NEW c \in 1 .. n - 1,
         OrderedDown(w, n, Parent(c)), w[c] <= w[Parent(c)],
         \A k \in 1 .. n - 1 : Parent(k) = Parent(c) => w[c] <= w[k]
  PROVE  OrderedDown(Exchanged(w, Parent(c), c), n, c)
<1> DEFINE p == Parent(c)
           x == Exchanged(w, p, c)
<1>1. p \in 0 .. n - 1 /\ p < c /\ c \in 0 .. n - 1
  BY ParentFacts
<1>2. \A k \in 1 .. n - 1 : Parent(k) \in 0 .. n - 1 /\ Parent(k) < k /\ k \in 0 .. n - 1
  BY ParentFacts
<1>3. x[p] = w[c] /\ x[c] = w[p] /\ \A k \in 0 .. n - 1 : k # p /\ k # c => x[k] = w[k]
  BY <1>1 DEF Exchanged
<1>4. /\ \A k \in 1 .. n - 1 : Parent(k) # p => w[Parent(k)] <= w[k]
      /\ p > 0 => \A k \in 1 .. n - 1 : Parent(k) = p => w[Parent(p)] <= w[k]
      /\ \A k \in 1 .. n - 1 : Parent(k) = p => w[c] <= w[k]
      /\ w[c] <= w[p] /\ Parent(c) = p
  BY DEF OrderedDown, Skips
<1> HIDE DEF p, x
<1>5. ASSUME NEW k \in 1 .. n - 1, Parent(k) # c PROVE x[Parent(k)] <= x[k]
  <2>1. CASE k = p
    BY <1>1, <1>2, <1>3, <1>4, <1>5, <2>1
  <2>2. CASE k = c
    BY <1>1, <1>3, <1>4, <2>2
  <2>3. CASE k # p /\ k # c /\ Parent(k) = p
    BY <1>2, <1>3, <1>4, <1>5, <2>3
  <2>4. CASE k # p /\ k # c /\ Parent(k) # p
    BY <1>2, <1>3, <1>4, <1>5, <2>4
  <2> QED
    BY <2>1, <2>2, <2>3, <2>4
<1>6. ASSUME NEW k \in 1 .. n - 1, Parent(k) = c PROVE x[Parent(c)] <= x[k]
  BY <1>1, <1>2, <1>3, <1>4, <1>6
<1> QED
  BY <1>5, <1>6 DEF OrderedDown, Skips, p, x

\* When timer_siftdown stops, the heap is in order.
LEMMA DownEnds ==
  ASSUME NEW n, NEW w, NEW p, OrderedDown(w, n, p),
         \A k \in 1 .. n - 1 : Parent(k) = p => w[p] <= w[k]
  PROVE  Ordered(w, n)
BY DEF OrderedDown, Ordered

\* Any value may be put in the place of any other.
LEMMA Replaced ==
  ASSUME NEW n \in Nat, NEW w \in [0 .. n - 1 -> Nat], NEW m \in 0 .. n, NEW i \in 0 .. m - 1,
         NEW x \in [0 .. m - 1 -> Nat], Ordered(w, n),
         \A k \in 0 .. m - 1 : k # i => x[k] = w[k]
  PROVE  /\ OrderedUp(x, m, i, i)
         /\ i = 0 => OrderedDown(x, m, 0)
<1>1. \A k \in 1 .. m - 1 : Parent(k) \in 0 .. m - 1 /\ Parent(k) < k /\ k \in 0 .. m - 1
  BY SMTT(30), ParentFacts
<1>2. \A k \in 1 .. m - 1 : k \in 1 .. n - 1 /\ w[Parent(k)] <= w[k]
  BY DEF Ordered
<1>3. \A k \in 1 .. m - 1 : k # i /\ Parent(k) # i => x[Parent(k)] <= x[k]
  BY <1>1, <1>2
<1>4. ASSUME i > 0, NEW k \in 1 .. m - 1, Parent(k) = i PROVE x[Parent(i)] <= x[k]
  <2>1. /\ i \in 1 .. m - 1 /\ w[Parent(i)] <= w[i] /\ w[i] <= w[k]
        /\ Parent(i) \in 0 .. m - 1 /\ Parent(i) # i /\ k # i
    <3>1. i \in 1 .. m - 1
      BY <1>4
    <3>2. w[Parent(i)] <= w[i] /\ Parent(i) \in 0 .. m - 1 /\ Parent(i) < i
      BY <1>1, <1>2, <3>1
    <3>3. w[i] <= w[k] /\ i < k
      BY <1>1, <1>2, <1>4
    <3> QED
      BY <3>1, <3>2, <3>3
  <2>2. w[Parent(i)] \in Nat /\ w[i] \in Nat /\ w[k] \in Nat
    BY SMTT(30), <1>1, <1>2, <2>1
  <2> QED
    BY SMTT(30), <1>1, <2>1, <2>2
<1> QED
  BY <1>3, <1>4 DEF OrderedUp, OrderedDown, Skips

\* A value may be put at the end.
LEMMA Appended ==
  ASSUME NEW n \in Nat, NEW w \in [0 .. n - 1 -> Nat], NEW x \in [0 .. n -> Nat], Ordered(w, n),
         \A k \in 0 .. n - 1 : x[k] = w[k]
  PROVE  OrderedUp(x, n + 1, n, -1)
<1>1. \A k \in 1 .. n : Parent(k) \in Nat /\ Parent(k) < k
  BY ParentFacts
<1>2. ASSUME NEW k \in 1 .. n, k # n PROVE x[Parent(k)] <= x[k]
  <2>1. k \in 1 .. n - 1 /\ Parent(k) \in 0 .. n - 1 /\ k \in 0 .. n - 1
    BY <1>1, <1>2
  <2> QED
    BY <2>1 DEF Ordered
<1>3. \A k \in 1 .. n : Parent(k) # n
  BY <1>1
<1> QED
  BY <1>2, <1>3 DEF OrderedUp, Skips

Less == {ss \in Nat \X Nat : ss[1] < ss[2]}

\* A set of indices has a first.
LEMMA LeastNat ==
  ASSUME NEW T, T \subseteq Nat, T # {}
  PROVE  \E x \in T : \A y \in T : x <= y
<1>1. IsWellFoundedOn(Less, Nat)
  BY NatLessThanWellFounded DEF OpToRel, Less
<1>2. PICK x \in T : \A y \in T : ~ (<<y, x>> \in Less)
  BY <1>1, WFMin
<1>3. \A y \in T : ~ (y < x)
  <2> TAKE y \in T
  <2>1. <<y, x>> \in Nat \X Nat /\ <<y, x>>[1] = y /\ <<y, x>>[2] = x
    OBVIOUS
  <2> QED
    BY <1>2, <2>1 DEF Less
<1> QED
  BY <1>3

\* The top of an ordered heap is the earliest: the first entry earlier than the
\* top would have a parent that is earlier still.
LEMMA TopIsLeast ==
  ASSUME NEW n \in Nat, NEW w \in [0 .. n - 1 -> Nat], Ordered(w, n), NEW k \in 0 .. n - 1
  PROVE  w[0] <= w[k]
<1> DEFINE T == {i \in 0 .. n - 1 : w[i] < w[0]}
<1>1. \A i \in 0 .. n - 1 : w[i] \in Nat
  OBVIOUS
<1>2. ASSUME T # {} PROVE FALSE
  <2>1. PICK i \in T : \A j \in T : i <= j
    <3>1. T \subseteq Nat
      OBVIOUS
    <3> QED
      BY <1>2, <3>1, LeastNat
  <2>2. i \in 1 .. n - 1
    BY <1>1, <2>1
  <2>3. Parent(i) \in 0 .. n - 1 /\ Parent(i) < i
    BY <2>2, ParentFacts
  <2>4. w[Parent(i)] < w[0]
    BY <1>1, <2>1, <2>2, <2>3 DEF Ordered
  <2> QED
    BY <2>1, <2>2, <2>3, <2>4
<1> QED
  BY <1>1, <1>2

-----------------------------------------------------------------------------
(* The invariant.                                                          *)

W == [k \in 0 .. size - 1 |-> WhenAt(k)]

Types ==
  /\ Armed \subseteq Events
  /\ when \in [Armed -> 0 .. TimeMod - 1]
  /\ at \in [Armed -> Nat]
  /\ heap \in Seq(Armed)
  /\ now \in Times
  /\ phase \in {"idle", "update", "callback", "overrun"}
  /\ sift \in {"none", "up", "down"}
  /\ sift # "none" => pos \in 0 .. size - 1
  /\ hole \in -1 .. size - 1
  /\ sift # "up" => hole = -1

\* What each sift loop still has to repair.
Sifted ==
  /\ sift = "none" => Ordered(W, size)
  /\ sift = "up" => OrderedUp(W, size, pos, hole)
  /\ sift = "down" => OrderedDown(W, size, pos)

IInv == Types /\ IndexExact /\ Sifted

\* The deadlines in the heap, by index.
LEMMA WType ==
  ASSUME Types
  PROVE  /\ size \in Nat
         /\ \A k \in 0 .. size - 1 : /\ k + 1 \in 1 .. size /\ heap[k + 1] \in Armed
                                     /\ W[k] = when[heap[k + 1]] /\ WhenAt(k) = W[k] /\ W[k] \in Nat
         /\ W \in [0 .. size - 1 -> Nat]
<1>1. size \in Nat /\ DOMAIN heap = 1 .. size
  BY DEF Types, size
<1>2. ASSUME NEW k \in 0 .. size - 1
      PROVE  /\ k + 1 \in 1 .. size /\ heap[k + 1] \in Armed
             /\ W[k] = when[heap[k + 1]] /\ WhenAt(k) = W[k] /\ W[k] \in Nat
  <2>1. k + 1 \in 1 .. size /\ heap[k + 1] \in Armed
    BY <1>1, <1>2 DEF Types, size
  <2>2. when[heap[k + 1]] \in 0 .. TimeMod - 1
    BY <2>1 DEF Types
  <2>3. W[k] = WhenAt(k) /\ WhenAt(k) = when[heap[k + 1]]
    BY <1>2 DEF W, WhenAt
  <2> QED
    BY <2>1, <2>2, <2>3
<1>3. W \in [0 .. size - 1 -> Nat]
  <2>1. \A k \in 0 .. size - 1 : WhenAt(k) \in Nat
    BY <1>2
  <2> QED
    BY <2>1 DEF W
<1> QED
  BY <1>1, <1>2, <1>3

\* A swap exchanges two entries, and both learn where they are.
LEMMA SwapFacts ==
  ASSUME Types, IndexExact, NEW j \in 0 .. size - 1, NEW k \in 0 .. size - 1, j # k,
         Swap(j, k), when' = when
  PROVE  /\ heap' \in Seq(Armed) /\ size' = size /\ at' \in [Armed -> Nat]
         /\ IndexExact'
         /\ W' = Exchanged(W, j, k)
<1>1. /\ heap' = [heap EXCEPT ![j + 1] = heap[k + 1], ![k + 1] = heap[j + 1]]
      /\ at' = [at EXCEPT ![heap[k + 1]] = j, ![heap[j + 1]] = k]
  BY DEF Swap
<1>2. /\ size \in Nat /\ j + 1 \in 1 .. size /\ k + 1 \in 1 .. size /\ heap[j + 1] \in Armed
      /\ heap[k + 1] \in Armed
  BY WType
<1>3. heap' \in Seq(Armed) /\ Len(heap') = Len(heap)
  BY <1>1, <1>2 DEF Types, size
<1>4. size' = size
  BY <1>3 DEF size
<1>5. at' \in [Armed -> Nat]
  <2>1. at \in [Armed -> Nat] /\ j \in Nat /\ k \in Nat
    BY <1>2 DEF Types
  <2> QED
    BY <1>1, <1>2, <2>1
<1>6. at[heap[j + 1]] = j /\ at[heap[k + 1]] = k
  BY DEF IndexExact
<1>7. \A i \in 0 .. size - 1 : heap'[i + 1] =
        IF i = j THEN heap[k + 1] ELSE IF i = k THEN heap[j + 1] ELSE heap[i + 1]
  <2>1. DOMAIN heap = 1 .. size
    BY DEF Types, size
  <2>2. ASSUME NEW i \in 0 .. size - 1
        PROVE  /\ i + 1 \in 1 .. size
               /\ i + 1 = j + 1 <=> i = j
               /\ i + 1 = k + 1 <=> i = k
    BY <1>2, <2>2
  <2> HIDE DEF size
  <2> QED
    BY <1>1, <1>2, <2>1, <2>2
<1>8. \A e \in Armed : at'[e] =
        IF e = heap[j + 1] THEN k ELSE IF e = heap[k + 1] THEN j ELSE at[e]
  BY <1>1, <1>2, <1>6 DEF Types
<1>9. Armed' = Armed
  BY DEF Armed
<1>10. ASSUME NEW e \in Armed PROVE at'[e] \in 0 .. size - 1 /\ heap'[at'[e] + 1] = e
  <2>1. at[e] \in 0 .. size - 1 /\ heap[at[e] + 1] = e
    BY DEF IndexExact
  <2>2. CASE e = heap[j + 1]
    BY <1>7, <1>8, <2>2
  <2>3. CASE e = heap[k + 1] /\ e # heap[j + 1]
    BY <1>7, <1>8, <2>3
  <2>4. CASE e # heap[j + 1] /\ e # heap[k + 1]
    <3>1. at'[e] = at[e] /\ at[e] # j /\ at[e] # k
      BY <1>8, <2>1, <2>4
    <3> QED
      BY <1>7, <2>1, <3>1
  <2> QED
    BY <2>2, <2>3, <2>4
<1>11. ASSUME NEW i \in 0 .. size - 1 PROVE heap'[i + 1] \in Armed /\ at'[heap'[i + 1]] = i
  <2>1. heap[i + 1] \in Armed /\ at[heap[i + 1]] = i
    BY DEF IndexExact
  <2>2. CASE i = j
    BY <1>2, <1>6, <1>7, <1>8, <2>2
  <2>3. CASE i = k
    BY <1>2, <1>6, <1>7, <1>8, <2>3
  <2>4. CASE i # j /\ i # k
    BY <1>6, <1>7, <1>8, <2>1, <2>4
  <2> QED
    BY <2>2, <2>3, <2>4
<1>12. IndexExact'
  BY <1>4, <1>9, <1>10, <1>11 DEF IndexExact
<1>13. W' = Exchanged(W, j, k)
  <2>1. \A i \in 0 .. size - 1 : W[i] = when[heap[i + 1]]
    BY WType
  <2>2. W' = [i \in 0 .. size - 1 |-> when[heap'[i + 1]]]
    BY <1>4 DEF W, WhenAt
  <2>3. W \in [0 .. size - 1 -> Nat]
    BY WType
  <2>4. Exchanged(W, j, k) = [i \in 0 .. size - 1 |->
          IF i = k THEN W[j] ELSE IF i = j THEN W[k] ELSE W[i]]
    BY <2>3 DEF Exchanged
  <2>5. \A i \in 0 .. size - 1 : when[heap'[i + 1]] =
          (IF i = k THEN W[j] ELSE IF i = j THEN W[k] ELSE W[i])
    BY <1>7, <2>1
  <2> QED
    BY <2>2, <2>4, <2>5
<1> QED
  BY <1>3, <1>4, <1>5, <1>12, <1>13

\* Nothing that looks at the heap alone changes when the heap does not.
LEMMA SameHeap ==
  ASSUME UNCHANGED <<heap, at, when>>
  PROVE  W' = W /\ size' = size /\ (IndexExact' <=> IndexExact)
BY DEF W, WhenAt, size, IndexExact, Armed

LEMMA SiftUpIInv == ASSUME IInv, SiftUp PROVE IInv'
<1>1. /\ Types /\ IndexExact /\ OrderedUp(W, size, pos, hole) /\ sift = "up"
      /\ UNCHANGED <<when, now, phase>> /\ pos \in 0 .. size - 1
  BY DEF IInv, Types, Sifted, SiftUp
<1>2. /\ size \in Nat /\ W \in [0 .. size - 1 -> Nat] /\ WhenAt(pos) = W[pos]
      /\ pos > 0 => Parent(pos) \in 0 .. size - 1 /\ Parent(pos) < pos /\ WhenAt(Parent(pos)) = W[Parent(pos)]
  <2>1. size \in Nat /\ W \in [0 .. size - 1 -> Nat] /\ \A k \in 0 .. size - 1 : WhenAt(k) = W[k]
    BY <1>1, WType
  <2>2. pos \in Nat /\ (pos > 0 => Parent(pos) \in Nat /\ Parent(pos) < pos)
    BY <1>1, <2>1, ParentFacts
  <2>3. pos > 0 => Parent(pos) \in 0 .. size - 1
    BY <1>1, <2>1, <2>2
  <2> QED
    BY <1>1, <2>1, <2>2, <2>3
<1>3. Armed' = Armed
  BY <1>1 DEF Armed
<1>4. CASE pos > 0 /\ W[pos] < W[Parent(pos)]
  <2>1. Swap(pos, Parent(pos)) /\ pos' = Parent(pos) /\ UNCHANGED <<sift, hole>>
    BY <1>2, <1>4 DEF SiftUp
  <2>2. /\ heap' \in Seq(Armed) /\ size' = size /\ at' \in [Armed -> Nat] /\ IndexExact'
        /\ W' = Exchanged(W, pos, Parent(pos))
    BY <1>1, <1>2, <1>4, <2>1, SwapFacts
  <2>3. OrderedUp(Exchanged(W, pos, Parent(pos)), size, Parent(pos), hole)
    <3>1. pos \in 1 .. size - 1
      BY <1>1, <1>2, <1>4
    <3> QED
      BY <1>1, <1>2, <1>4, <3>1, UpSwap
  <2>4. Types'
    BY <1>1, <1>2, <1>3, <1>4, <2>1, <2>2 DEF Types
  <2>5. Sifted'
    BY <1>1, <2>1, <2>2, <2>3 DEF Sifted
  <2> QED
    BY <2>2, <2>4, <2>5 DEF IInv
<1>5. CASE ~(pos > 0 /\ W[pos] < W[Parent(pos)])
  <2>1. /\ UNCHANGED <<heap, at>>
        /\ hole = -1 => sift' = "none" /\ hole' = -1
        /\ hole # -1 => sift' = "down" /\ pos' = hole /\ hole' = -1
    BY <1>2, <1>5 DEF SiftUp
  <2>2. W' = W /\ size' = size /\ IndexExact'
    BY <1>1, <2>1, SameHeap
  <2>3. hole \in -1 .. size - 1
    BY <1>1 DEF Types
  <2>4. (hole = -1 => Ordered(W, size)) /\ (hole # -1 => OrderedDown(W, size, hole))
    BY <1>1, <1>2, <1>5, <2>3, UpEnds
  <2>5. Types'
    BY SMTT(20), <1>1, <1>2, <1>3, <2>1, <2>2, <2>3 DEF Types
  <2>6. Sifted'
    BY <2>1, <2>2, <2>4 DEF Sifted
  <2> QED
    BY <2>2, <2>5, <2>6 DEF IInv
<1> QED
  BY <1>4, <1>5

\* The child timer_siftdown moves to is the earliest, and there is none only
\* when no child is earlier.
LEMMA ChildFacts ==
  ASSUME Types, NEW p \in 0 .. size - 1
  PROVE  /\ ChildToMove(p) = -1 => \A k \in 1 .. size - 1 : Parent(k) = p => W[p] <= W[k]
         /\ ChildToMove(p) # -1 =>
              /\ ChildToMove(p) \in 1 .. size - 1 /\ Parent(ChildToMove(p)) = p
              /\ W[ChildToMove(p)] <= W[p]
              /\ \A k \in 1 .. size - 1 : Parent(k) = p => W[ChildToMove(p)] <= W[k]
<1>1. size \in Nat /\ \A k \in 0 .. size - 1 : WhenAt(k) = W[k] /\ W[k] \in Nat
  BY WType
<1>2. /\ Left(p) \in Nat /\ Left(p) > 0 /\ Right(p) = Left(p) + 1
      /\ p \in Nat /\ Parent(Left(p)) = p /\ Parent(Right(p)) = p
  BY <1>1 DEF Left, Right, Parent
<1>3. \A k \in 1 .. size - 1 : Parent(k) = p <=> k = Left(p) \/ k = Right(p)
  BY <1>1, <1>2, ParentFacts
<1>4. CASE Right(p) < size
  <2>1. /\ Left(p) \in 1 .. size - 1 /\ Right(p) \in 1 .. size - 1
        /\ WhenAt(Left(p)) = W[Left(p)] /\ WhenAt(Right(p)) = W[Right(p)] /\ WhenAt(p) = W[p]
        /\ W[Left(p)] \in Nat /\ W[Right(p)] \in Nat /\ W[p] \in Nat
    BY <1>1, <1>2, <1>4
  <2>2. CASE W[Left(p)] < W[Right(p)]
    <3>1. ChildToMove(p) = IF W[p] < W[Left(p)] THEN -1 ELSE Left(p)
      BY <1>4, <2>1, <2>2 DEF ChildToMove
    <3> QED
      BY <1>2, <1>3, <2>1, <2>2, <3>1
  <2>3. CASE ~(W[Left(p)] < W[Right(p)])
    <3>1. ChildToMove(p) = IF W[p] < W[Right(p)] THEN -1 ELSE Right(p)
      BY <1>4, <2>1, <2>3 DEF ChildToMove
    <3> QED
      BY <1>2, <1>3, <2>1, <2>3, <3>1
  <2> QED
    BY <2>2, <2>3
<1>5. CASE ~(Right(p) < size) /\ Left(p) < size
  <2>1. Left(p) \in 1 .. size - 1 /\ WhenAt(Left(p)) = W[Left(p)] /\ WhenAt(p) = W[p]
    BY <1>1, <1>2, <1>5
  <2>2. ChildToMove(p) = IF W[Left(p)] < W[p] THEN Left(p) ELSE -1
    BY <1>5, <2>1 DEF ChildToMove
  <2>3. \A k \in 1 .. size - 1 : Parent(k) = p => k = Left(p)
    BY <1>1, <1>2, <1>3, <1>5
  <2>4. W[Left(p)] \in Nat /\ W[p] \in Nat
    BY <1>1, <2>1
  <2> QED
    BY <1>2, <2>1, <2>2, <2>3, <2>4
<1>6. CASE ~(Left(p) < size)
  <2>1. ~(Right(p) < size)
    BY <1>1, <1>2, <1>6
  <2>2. ChildToMove(p) = -1
    BY <1>6, <2>1 DEF ChildToMove
  <2>3. \A k \in 1 .. size - 1 : Parent(k) # p
    BY <1>1, <1>2, <1>3, <1>6
  <2> QED
    BY <2>2, <2>3
<1> QED
  BY <1>1, <1>2, <1>4, <1>5, <1>6

LEMMA SiftDownIInv == ASSUME IInv, SiftDown PROVE IInv'
<1>1. /\ Types /\ IndexExact /\ OrderedDown(W, size, pos) /\ sift = "down"
      /\ UNCHANGED <<when, now, phase, hole>> /\ pos \in 0 .. size - 1 /\ hole = -1
  BY DEF IInv, Types, Sifted, SiftDown
<1>2. size \in Nat /\ W \in [0 .. size - 1 -> Nat]
  BY <1>1, WType
<1>3. Armed' = Armed
  BY <1>1 DEF Armed
<1>4. CASE ChildToMove(pos) # -1
  <2> DEFINE c == ChildToMove(pos)
  <2>1. Swap(pos, c) /\ pos' = c /\ sift' = sift
    BY <1>4 DEF SiftDown
  <2>2. /\ c \in 1 .. size - 1 /\ Parent(c) = pos /\ W[c] <= W[pos]
        /\ \A k \in 1 .. size - 1 : Parent(k) = pos => W[c] <= W[k]
    BY <1>1, <1>4, ChildFacts
  <2>3. c \in 0 .. size - 1 /\ c # pos
    BY <1>2, <2>2, ParentFacts
  <2> HIDE DEF c
  <2>4. /\ heap' \in Seq(Armed) /\ size' = size /\ at' \in [Armed -> Nat] /\ IndexExact'
        /\ W' = Exchanged(W, pos, c)
    BY <1>1, <2>1, <2>3, SwapFacts
  <2>5. OrderedDown(Exchanged(W, pos, c), size, c)
    BY <1>1, <1>2, <2>2, DownSwap
  <2>6. Types'
    BY <1>1, <1>2, <1>3, <2>1, <2>2, <2>3, <2>4 DEF Types
  <2>7. Sifted'
    BY <1>1, <2>1, <2>4, <2>5 DEF Sifted
  <2> QED
    BY <2>4, <2>6, <2>7 DEF IInv
<1>5. CASE ChildToMove(pos) = -1
  <2>1. UNCHANGED <<heap, at>> /\ sift' = "none"
    BY <1>5 DEF SiftDown
  <2>2. W' = W /\ size' = size /\ IndexExact'
    BY <1>1, <2>1, SameHeap
  <2>3. Ordered(W, size)
    BY <1>1, <1>5, ChildFacts, DownEnds
  <2>4. Types'
    BY <1>1, <1>2, <1>3, <2>1, <2>2 DEF Types
  <2>5. Sifted'
    BY <2>1, <2>2, <2>3 DEF Sifted
  <2> QED
    BY <2>2, <2>4, <2>5 DEF IInv
<1> QED
  BY <1>4, <1>5

LEMMA AddIInv ==
  ASSUME IInv, NEW e \in Events, NEW w \in Times, Add(e, w)
  PROVE  /\ IInv'
         /\ Armed' = Armed \cup {e} /\ when'[e] = w /\ \A f \in Armed : when'[f] = when[f]
<1>1. /\ Types /\ IndexExact /\ Ordered(W, size) /\ sift = "none" /\ hole = -1
      /\ phase \in {"idle", "callback"} /\ e \notin Armed
  BY DEF IInv, Types, Sifted, Add, ClientTurn
<1>2. /\ heap' = Append(heap, e)
      /\ when' = [f \in Armed \cup {e} |-> IF f = e THEN w ELSE when[f]]
      /\ at' = [f \in Armed \cup {e} |-> IF f = e THEN size ELSE at[f]]
      /\ phase' \in {phase, "overrun"} /\ now' = now
      /\ sift' = "up" /\ pos' = size /\ hole' = -1
  BY DEF Add, StartSift
<1>3. size \in Nat /\ W \in [0 .. size - 1 -> Nat] /\ DOMAIN heap = 1 .. size /\ heap \in Seq(Armed)
  BY <1>1, WType DEF Types, size
<1>4. Armed' = Armed \cup {e}
  BY <1>2 DEF Armed
<1>5. /\ heap' \in Seq(Armed \cup {e}) /\ Len(heap') = Len(heap) + 1
      /\ heap'[Len(heap) + 1] = e /\ \A i \in 1 .. Len(heap) : heap'[i] = heap[i]
  BY <1>2, <1>3
<1>6. size' = size + 1 /\ heap'[size + 1] = e /\ \A k \in 0 .. size - 1 : heap'[k + 1] = heap[k + 1]
  <2>1. size' = size + 1 /\ heap'[size + 1] = e
    BY <1>5 DEF size
  <2>2. \A k \in 0 .. size - 1 : k + 1 \in 1 .. Len(heap)
    BY <1>3 DEF size
  <2> QED
    BY <1>5, <2>1, <2>2
<1>7. \A f \in Armed : /\ when[f] \in 0 .. TimeMod - 1 /\ at[f] \in 0 .. size - 1
                       /\ f # e /\ when'[f] = when[f] /\ at'[f] = at[f]
  BY <1>1, <1>2 DEF Types, IndexExact
<1>8. when'[e] = w /\ at'[e] = size
  BY <1>2
<1>9. w \in 0 .. TimeMod - 1
  BY TimesInRange, PeriodNat
<1>10. Types'
  <2>1. when' \in [Armed \cup {e} -> 0 .. TimeMod - 1]
    BY <1>2, <1>7, <1>9
  <2>2. at' \in [Armed \cup {e} -> Nat]
    BY <1>2, <1>3, <1>7
  <2>3. Armed \cup {e} \subseteq Events /\ now \in Times
    BY <1>1 DEF Types
  <2>4. pos' \in 0 .. size' - 1 /\ hole' \in -1 .. size' - 1
    BY <1>2, <1>3, <1>6
  <2> QED
    BY <1>1, <1>2, <1>4, <1>5, <2>1, <2>2, <2>3, <2>4 DEF Types
<1>11. IndexExact'
  <2>1. ASSUME NEW f \in Armed \cup {e} PROVE at'[f] \in 0 .. size /\ heap'[at'[f] + 1] = f
    <3>1. CASE f = e
      BY <1>3, <1>6, <1>8, <3>1
    <3>2. CASE f # e
      <4>1. f \in Armed /\ at'[f] = at[f] /\ at[f] \in 0 .. size - 1 /\ heap[at[f] + 1] = f
        BY <1>1, <1>7, <2>1, <3>2 DEF IndexExact
      <4> QED
        BY <1>3, <1>6, <4>1
    <3> QED
      BY <3>1, <3>2
  <2>2. ASSUME NEW k \in 0 .. size PROVE heap'[k + 1] \in Armed \cup {e} /\ at'[heap'[k + 1]] = k
    <3>1. CASE k = size
      BY <1>6, <1>8, <3>1
    <3>2. CASE k # size
      <4>1. k \in 0 .. size - 1
        BY <1>3, <3>2
      <4>2. heap[k + 1] \in Armed /\ at[heap[k + 1]] = k
        BY <1>1, <4>1 DEF IndexExact
      <4> QED
        BY <1>6, <1>7, <4>1, <4>2
    <3> QED
      BY <3>1, <3>2
  <2>3. 0 .. size' - 1 = 0 .. size
    BY <1>3, <1>6
  <2> QED
    BY <1>4, <2>1, <2>2, <2>3 DEF IndexExact
<1>12. Sifted'
  <2>1. /\ W' \in [0 .. size' - 1 -> Nat]
        /\ \A k \in 0 .. size' - 1 : W'[k] = when'[heap'[k + 1]]
    <3>1. W' = [k \in 0 .. size' - 1 |-> when'[heap'[k + 1]]]
      BY DEF W, WhenAt
    <3>2. \A k \in 0 .. size' - 1 : heap'[k + 1] \in Armed \cup {e}
      BY <1>4, <1>11 DEF IndexExact
    <3>3. \A f \in Armed \cup {e} : when'[f] \in Nat
      BY <1>4, <1>10 DEF Types
    <3> QED
      BY <3>1, <3>2, <3>3
  <2>2. size' - 1 = size
    BY <1>3, <1>6
  <2>3. ASSUME NEW k \in 0 .. size - 1 PROVE W'[k] = W[k]
    <3>1. heap'[k + 1] = heap[k + 1] /\ heap[k + 1] \in Armed /\ W[k] = when[heap[k + 1]]
      BY <1>1, <1>6, WType
    <3>2. k \in 0 .. size' - 1
      BY <1>3, <2>2
    <3> QED
      BY <1>7, <2>1, <3>1, <3>2
  <2>4. OrderedUp(W', size + 1, size, -1)
    BY <1>1, <1>3, <2>1, <2>2, <2>3, Appended
  <2> QED
    BY <1>2, <1>6, <2>4 DEF Sifted
<1> QED
  BY <1>4, <1>7, <1>8, <1>10, <1>11, <1>12 DEF IInv

\* Taking out the event at i leaves a heap in which only the entry at i, the one
\* that was last, may be out of place.
LEMMA RemoveFacts ==
  ASSUME Types, IndexExact, Ordered(W, size), NEW e \in Armed, NEW i, i = at[e], Remove(e, i)
  PROVE  /\ i \in 0 .. size - 1 /\ size' = size - 1
         /\ Armed' = Armed \ {e} /\ \A f \in Armed \ {e} : when'[f] = when[f]
         /\ when' \in [Armed \ {e} -> 0 .. TimeMod - 1] /\ at' \in [Armed \ {e} -> Nat]
         /\ heap' \in Seq(Armed \ {e})
         /\ IndexExact'
         /\ i = size - 1 => Ordered(W', size')
         /\ i # size - 1 => OrderedUp(W', size', i, i) /\ (i = 0 => OrderedDown(W', size', 0))
<1> DEFINE last == heap[size]
<1>1. /\ heap' = SubSeq([heap EXCEPT ![i + 1] = last], 1, size - 1)
      /\ at' = [f \in Armed \ {e} |-> [at EXCEPT ![last] = i][f]]
      /\ when' = [f \in Armed \ {e} |-> when[f]]
  BY DEF Remove, Only
<1>2. /\ size \in Nat /\ W \in [0 .. size - 1 -> Nat] /\ DOMAIN heap = 1 .. size /\ heap \in Seq(Armed)
      /\ size = Len(heap)
  BY WType DEF Types, size
<1>3. i \in 0 .. size - 1 /\ heap[i + 1] = e /\ size > 0 /\ size - 1 \in 0 .. size - 1
  BY <1>2 DEF IndexExact
<1>4. last \in Armed /\ at[last] = size - 1
  <2>1. (size - 1) + 1 = size
    BY <1>2
  <2> QED
    BY <1>3, <2>1 DEF IndexExact
<1> HIDE DEF last
<1>5. Armed' = Armed \ {e}
  BY <1>1 DEF Armed
<1>6. /\ at \in [Armed -> Nat] /\ when \in [Armed -> 0 .. TimeMod - 1]
  BY DEF Types
<1>7. \A f \in Armed \ {e} : when'[f] = when[f] /\ at'[f] = IF f = last THEN i ELSE at[f]
  BY <1>1, <1>4, <1>6
<1>8. when' \in [Armed \ {e} -> 0 .. TimeMod - 1]
  BY <1>1, <1>6
<1>9. at' \in [Armed \ {e} -> Nat]
  <2>1. i \in Nat
    BY <1>3
  <2> QED
    BY <1>1, <1>4, <1>6, <2>1
<1>10. /\ Len(heap') = size - 1 /\ size' = size - 1
       /\ \A k \in 1 .. size - 1 : heap'[k] = IF k = i + 1 THEN last ELSE heap[k]
  <2> DEFINE h == [heap EXCEPT ![i + 1] = last]
  <2>1. h \in Seq(Armed) /\ Len(h) = size
    BY <1>2, <1>3, <1>4
  <2>2. \A k \in 1 .. size : h[k] = IF k = i + 1 THEN last ELSE heap[k]
    BY <1>2, <1>3
  <2> HIDE DEF h
  <2>3. /\ Len(SubSeq(h, 1, size - 1)) = size - 1
        /\ \A k \in 1 .. size - 1 : SubSeq(h, 1, size - 1)[k] = h[k]
    BY <1>2, <1>3, <2>1
  <2>4. heap' = SubSeq(h, 1, size - 1)
    BY <1>1 DEF h
  <2>5. size' = size - 1
    BY <2>3, <2>4 DEF size
  <2> QED
    BY <1>2, <2>2, <2>3, <2>4, <2>5
<1>11. ASSUME NEW k \in 0 .. size - 2
       PROVE  /\ k \in 0 .. size - 1 /\ k + 1 \in 1 .. size - 1 /\ k # size - 1
              /\ heap'[k + 1] = IF k = i THEN last ELSE heap[k + 1]
              /\ heap[k + 1] \in Armed /\ at[heap[k + 1]] = k
  <2>1. k \in 0 .. size - 1 /\ k + 1 \in 1 .. size - 1 /\ k # size - 1 /\ (k + 1 = i + 1 <=> k = i)
    <3>1. size \in Nat /\ i \in Nat
      BY <1>2, <1>3
    <3> HIDE DEF size
    <3> QED
      BY <3>1
  <2> QED
    BY <1>10, <2>1 DEF IndexExact
<1>12. ASSUME NEW k \in 0 .. size - 2
       PROVE  heap'[k + 1] \in Armed \ {e} /\ at'[heap'[k + 1]] = k
  <2>1. CASE k = i
    <3>1. heap'[k + 1] = last /\ last # e
      BY <1>4, <1>11, <2>1
    <3> QED
      BY <1>4, <1>7, <2>1, <3>1
  <2>2. CASE k # i
    <3>1. heap'[k + 1] = heap[k + 1] /\ heap[k + 1] # e /\ heap[k + 1] # last
      BY <1>4, <1>11, <2>2
    <3> QED
      BY <1>7, <1>11, <3>1
  <2> QED
    BY <2>1, <2>2
<1>13. ASSUME NEW f \in Armed \ {e}
       PROVE  at'[f] \in 0 .. size - 2 /\ heap'[at'[f] + 1] = f
  <2>1. at[f] \in 0 .. size - 1 /\ heap[at[f] + 1] = f
    BY DEF IndexExact
  <2>2. CASE f = last
    <3>1. i # size - 1
      BY <1>4, <2>1, <2>2, <1>3, <1>13
    <3>2. i \in 0 .. size - 2 /\ at'[f] = i
      BY <1>2, <1>3, <1>7, <2>2, <3>1
    <3> QED
      BY <1>11, <2>2, <3>2
  <2>3. CASE f # last
    <3>1. at'[f] = at[f] /\ at[f] # i
      BY <1>3, <1>7, <1>13, <2>1, <2>3
    <3>2. at[f] # size - 1
      <4>1. heap[(size - 1) + 1] = last
        BY <1>2 DEF last
      <4> QED
        BY <2>1, <2>3, <4>1
    <3>3. at[f] \in 0 .. size - 2
      BY <1>2, <2>1, <3>2
    <3> QED
      BY <1>11, <2>1, <3>1, <3>3
  <2> QED
    BY <2>2, <2>3
<1>14. heap' \in Seq(Armed \ {e})
  <2>1. \A k \in 1 .. size - 1 : heap'[k] \in Armed \ {e}
    <3> TAKE k \in 1 .. size - 1
    <3>1. k - 1 \in 0 .. size - 2 /\ (k - 1) + 1 = k
      BY <1>2
    <3> QED
      BY <1>12, <3>1
  <2>2. heap' \in Seq(Armed)
    <3>1. [heap EXCEPT ![i + 1] = last] \in Seq(Armed)
      BY <1>2, <1>3, <1>4
    <3> QED
      BY <1>1, <1>2, <1>3, <3>1
  <2>3. heap' = [k \in 1 .. size - 1 |-> heap'[k]] /\ size - 1 \in Nat
    BY <1>2, <1>3, <1>10, <2>2
  <2>4. heap' \in [1 .. size - 1 -> Armed \ {e}]
    BY <2>1, <2>3
  <2> QED
    BY <2>3, <2>4
<1>15. IndexExact'
  <2>1. 0 .. size' - 1 = 0 .. size - 2
    BY <1>2, <1>10
  <2> QED
    BY <1>5, <1>12, <1>13, <2>1 DEF IndexExact
<1>16. /\ W' \in [0 .. size - 2 -> Nat]
       /\ \A k \in 0 .. size - 2 : k # i => W'[k] = W[k]
  <2>1. W' = [k \in 0 .. size - 2 |-> when'[heap'[k + 1]]]
    <3>1. size' - 1 = size - 2
      BY <1>2, <1>10
    <3> QED
      BY <3>1 DEF W, WhenAt
  <2>2. \A f \in Armed \ {e} : when'[f] \in Nat
    BY <1>8
  <2>3. W' \in [0 .. size - 2 -> Nat]
    BY <1>12, <2>1, <2>2
  <2>4. ASSUME NEW k \in 0 .. size - 2, k # i PROVE W'[k] = W[k]
    <3>1. heap'[k + 1] = heap[k + 1] /\ k \in 0 .. size - 1 /\ heap[k + 1] \in Armed \ {e}
      BY <1>11, <1>12, <2>4
    <3>2. W[k] = when[heap[k + 1]]
      BY <3>1, WType
    <3> QED
      BY <1>7, <2>1, <3>1, <3>2
  <2> QED
    BY <2>3, <2>4
<1>17. CASE i # size - 1
  <2>1. size - 1 \in 0 .. size /\ i \in 0 .. (size - 1) - 1 /\ (size - 1) - 1 = size - 2
    BY <1>2, <1>3, <1>17
  <2>2. OrderedUp(W', size - 1, i, i) /\ (i = 0 => OrderedDown(W', size - 1, 0))
    BY <1>2, <1>16, <2>1, Replaced
  <2> QED
    BY <1>3, <1>5, <1>7, <1>8, <1>9, <1>10, <1>14, <1>15, <1>17, <2>2
<1>18. CASE i = size - 1
  <2>1. ASSUME NEW k \in 1 .. size - 2 PROVE W'[Parent(k)] <= W'[k]
    <3>1. /\ Parent(k) \in 0 .. size - 2 /\ k \in 0 .. size - 2 /\ k \in 1 .. size - 1
          /\ k # i /\ Parent(k) # i
      BY <1>2, <1>18, ParentFacts
    <3>2. W[Parent(k)] <= W[k]
      BY <3>1 DEF Ordered
    <3> QED
      BY <1>16, <3>1, <3>2
  <2>2. Ordered(W', size')
    <3>1. size' - 1 = size - 2
      BY <1>2, <1>10
    <3> QED
      BY <2>1, <3>1 DEF Ordered
  <2> QED
    BY <1>3, <1>5, <1>7, <1>8, <1>9, <1>10, <1>14, <1>15, <1>18, <2>2
<1> QED
  BY <1>17, <1>18

\* timer_del takes the event out and leaves the rest to the two sift loops.
LEMMA DelIInv ==
  ASSUME IInv, NEW e \in Events, Del(e)
  PROVE  /\ IInv' /\ e \in Armed
         /\ Armed' = Armed \ {e} /\ \A f \in Armed \ {e} : when'[f] = when[f]
<1>1. /\ Types /\ IndexExact /\ Ordered(W, size) /\ sift = "none" /\ hole = -1
      /\ e \in Armed /\ Remove(e, at[e]) /\ UNCHANGED <<now, phase>>
  BY DEF IInv, Types, Sifted, Del, ClientTurn
<1>2. at[e] # size - 1 => sift' = "up" /\ pos' = at[e] /\ hole' = at[e]
  BY DEF Del, StartSift
<1>3. at[e] = size - 1 => sift' = "none" /\ hole' = -1
  BY <1>1 DEF Del, NoSift
<1> DEFINE i == at[e]
<1>4. /\ i \in 0 .. size - 1 /\ size' = size - 1
      /\ Armed' = Armed \ {e} /\ \A f \in Armed \ {e} : when'[f] = when[f]
      /\ when' \in [Armed \ {e} -> 0 .. TimeMod - 1] /\ at' \in [Armed \ {e} -> Nat]
      /\ heap' \in Seq(Armed \ {e}) /\ IndexExact'
  BY <1>1, RemoveFacts
<1>5. /\ i = size - 1 => Ordered(W', size')
      /\ i # size - 1 => OrderedUp(W', size', i, i)
  BY <1>1, RemoveFacts
<1>6. size \in Nat
  BY <1>1, WType
<1>7. Types'
  <2>1. /\ sift' \in {"none", "up"} /\ (sift' # "none" => pos' \in 0 .. size' - 1)
        /\ hole' \in -1 .. size' - 1 /\ (sift' # "up" => hole' = -1)
    BY <1>2, <1>3, <1>4, <1>6
  <2>2. /\ Armed \ {e} \subseteq Events /\ now \in Times
        /\ phase \in {"idle", "update", "callback", "overrun"}
    BY <1>1 DEF Types
  <2> QED
    BY <1>1, <1>4, <2>1, <2>2 DEF Types
<1>8. Sifted'
  BY <1>2, <1>3, <1>5 DEF Sifted
<1> QED
  BY <1>1, <1>4, <1>7, <1>8 DEF IInv

\* When an event fires it is the earliest, and armed.
LEMMA FireFacts ==
  ASSUME IInv, Fire
  PROVE  /\ Types /\ IndexExact /\ Ordered(W, size) /\ sift = "none" /\ hole = -1 /\ phase = "update"
         /\ size \in Nat /\ size > 0
         /\ heap[1] \in Armed /\ at[heap[1]] = 0 /\ when[heap[1]] = W[0]
         /\ when[heap[1]] \in Nat /\ when[heap[1]] <= now
         /\ now' = now /\ phase' = "callback"
<1>1. /\ Types /\ IndexExact /\ Ordered(W, size) /\ sift = "none" /\ hole = -1 /\ phase = "update"
      /\ size > 0 /\ WhenAt(0) <= now /\ now' = now /\ phase' = "callback"
  BY DEF IInv, Types, Sifted, Fire, Due
<1>2. size \in Nat /\ 0 \in 0 .. size - 1 /\ 0 + 1 = 1
  BY <1>1, WType
<1>3. heap[1] \in Armed /\ W[0] = when[heap[1]] /\ WhenAt(0) = W[0] /\ W[0] \in Nat
  BY <1>1, <1>2, WType
<1>4. at[heap[1]] = 0
  BY <1>1, <1>2 DEF IndexExact
<1> QED
  BY <1>1, <1>2, <1>3, <1>4

\* A ticker gets its next deadline, which does not wrap, and sinks.
LEMMA FireTickerIInv ==
  ASSUME IInv, Fire, FireTicker(heap[1])
  PROVE  /\ IInv'
         /\ Period[heap[1]] > 0
         /\ Armed' = Armed /\ \A f \in Armed \ {heap[1]} : when'[f] = when[f]
         /\ when'[heap[1]] = when[heap[1]] + Period[heap[1]]
<1> DEFINE e == heap[1]
<1>1. /\ Types /\ IndexExact /\ Ordered(W, size) /\ size \in Nat /\ size > 0
      /\ e \in Armed /\ at[e] = 0 /\ when[e] = W[0] /\ when[e] \in Nat /\ when[e] <= now
      /\ now' = now /\ phase' = "callback"
  BY FireFacts
<1>2. /\ Period[e] > 0 /\ when' = [when EXCEPT ![e] = (when[e] + Period[e]) % TimeMod]
      /\ sift' = "down" /\ pos' = 0 /\ hole' = -1 /\ heap' = heap /\ at' = at
  BY DEF FireTicker, StartSift
<1>3. /\ when \in [Armed -> 0 .. TimeMod - 1] /\ at \in [Armed -> Nat] /\ Armed \subseteq Events
      /\ heap \in Seq(Armed) /\ now \in Times
  BY <1>1 DEF Types
<1> HIDE DEF e
<1>4. (when[e] + Period[e]) % TimeMod = when[e] + Period[e] /\ when[e] + Period[e] \in 0 .. TimeMod - 1
  <2>1. e \in Events /\ Period[e] \in Nat /\ now \in Nat /\ TimeMod \in Nat /\ now + Period[e] < TimeMod
    BY <1>1, <1>3, PeriodNat, TimesInRange
  <2>2. when[e] + Period[e] \in Nat /\ when[e] + Period[e] < TimeMod
    BY <1>1, <2>1
  <2> QED
    BY <2>1, <2>2
<1>5. /\ when' \in [Armed -> 0 .. TimeMod - 1] /\ when'[e] = when[e] + Period[e]
      /\ \A f \in Armed \ {e} : when'[f] = when[f]
  BY <1>1, <1>2, <1>3, <1>4
<1>6. Armed' = Armed /\ size' = size
  BY <1>2, <1>3 DEF Armed, size
<1>7. Types'
  <2>1. pos' \in 0 .. size' - 1 /\ hole' \in -1 .. size' - 1
    BY <1>1, <1>2, <1>6
  <2> QED
    BY <1>1, <1>2, <1>3, <1>5, <1>6, <2>1 DEF Types
<1>8. IndexExact'
  BY <1>1, <1>2, <1>6 DEF IndexExact
<1>9. /\ W' \in [0 .. size - 1 -> Nat] /\ \A k \in 0 .. size - 1 : k # 0 => W'[k] = W[k]
  <2>1. W' = [k \in 0 .. size - 1 |-> when'[heap[k + 1]]]
    BY <1>2, <1>6 DEF W, WhenAt
  <2>2. \A k \in 0 .. size - 1 : heap[k + 1] \in Armed /\ W[k] = when[heap[k + 1]]
    BY <1>1, WType
  <2>3. \A f \in Armed : when'[f] \in Nat
    BY <1>5
  <2>4. W' \in [0 .. size - 1 -> Nat]
    BY <2>1, <2>2, <2>3
  <2>5. ASSUME NEW k \in 0 .. size - 1, k # 0 PROVE W'[k] = W[k]
    <3>1. heap[k + 1] # e
      BY <1>1, <2>5 DEF IndexExact
    <3> QED
      BY <1>5, <2>1, <2>2, <3>1
  <2> QED
    BY <2>4, <2>5
<1>10. OrderedDown(W', size, 0)
  <2>1. size \in 0 .. size /\ 0 \in 0 .. size - 1 /\ W \in [0 .. size - 1 -> Nat]
    BY <1>1, WType
  <2> QED
    BY <1>1, <1>9, <2>1, Replaced
<1>11. Sifted'
  BY <1>2, <1>6, <1>10 DEF Sifted
<1> QED
  BY <1>2, <1>5, <1>6, <1>7, <1>8, <1>11 DEF IInv, e

\* Any other event leaves the heap.
LEMMA FireOnceIInv ==
  ASSUME IInv, Fire, FireOnce(heap[1])
  PROVE  /\ IInv'
         /\ Period[heap[1]] = 0
         /\ Armed' = Armed \ {heap[1]} /\ \A f \in Armed \ {heap[1]} : when'[f] = when[f]
<1> DEFINE e == heap[1]
<1>1. /\ Types /\ IndexExact /\ Ordered(W, size) /\ sift = "none" /\ hole = -1
      /\ size \in Nat /\ size > 0 /\ e \in Armed /\ at[e] = 0 /\ now' = now /\ phase' = "callback"
  BY FireFacts
<1>2. /\ Period[e] = 0 /\ Remove(e, 0)
      /\ size > 1 => sift' = "down" /\ pos' = 0 /\ hole' = -1
      /\ ~(size > 1) => sift' = "none" /\ hole' = -1
  BY <1>1 DEF FireOnce, StartSift, NoSift
<1> HIDE DEF e
<1>3. /\ size' = size - 1
      /\ Armed' = Armed \ {e} /\ \A f \in Armed \ {e} : when'[f] = when[f]
      /\ when' \in [Armed \ {e} -> 0 .. TimeMod - 1] /\ at' \in [Armed \ {e} -> Nat]
      /\ heap' \in Seq(Armed \ {e}) /\ IndexExact'
  BY <1>1, <1>2, RemoveFacts
<1>4. /\ 0 = size - 1 => Ordered(W', size')
      /\ 0 # size - 1 => OrderedDown(W', size', 0)
  BY <1>1, <1>2, RemoveFacts
<1>5. Types'
  <2>1. /\ sift' \in {"none", "down"} /\ (sift' # "none" => pos' \in 0 .. size' - 1)
        /\ hole' = -1 /\ hole' \in -1 .. size' - 1
    BY <1>1, <1>2, <1>3
  <2>2. Armed \ {e} \subseteq Events /\ now \in Times
    BY <1>1 DEF Types
  <2> QED
    BY <1>1, <1>3, <2>1, <2>2 DEF Types
<1>6. Sifted'
  <2>1. 0 = size - 1 <=> ~(size > 1)
    BY <1>1
  <2> QED
    BY <1>2, <1>4, <2>1 DEF Sifted
<1> QED
  BY <1>2, <1>3, <1>5, <1>6 DEF IInv, e

LEMMA InitIInv == Init => IInv
<1> SUFFICES ASSUME Init PROVE IInv
  OBVIOUS
<1>1. /\ heap = <<>> /\ when = <<>> /\ at = <<>> /\ now = 0 /\ phase = "idle"
      /\ sift = "none" /\ pos = 0 /\ hole = -1
  BY DEF Init
<1>2. size = 0 /\ Armed = {}
  BY <1>1 DEF size, Armed
<1>3. Types
  <2>1. heap \in Seq(Armed)
    BY <1>1
  <2>2. when \in [Armed -> 0 .. TimeMod - 1] /\ at \in [Armed -> Nat]
    BY <1>1, <1>2
  <2> QED
    BY <1>1, <1>2, <2>1, <2>2, TimesInRange DEF Types
<1>4. IndexExact
  BY <1>2 DEF IndexExact
<1>5. Sifted
  BY <1>1, <1>2 DEF Sifted, Ordered
<1> QED
  BY <1>3, <1>4, <1>5 DEF IInv

\* timer_update's own steps leave the heap alone.
LEMMA QuietIInv ==
  ASSUME IInv, UNCHANGED <<heap, when, at, sift, pos, hole>>, now' \in Times,
         phase' \in {"idle", "update", "callback", "overrun"}
  PROVE  IInv' /\ Armed' = Armed
<1>1. W' = W /\ size' = size /\ IndexExact' /\ Armed' = Armed
  BY SameHeap DEF IInv, Armed
<1>2. Types'
  BY <1>1 DEF IInv, Types
<1>3. Sifted'
  BY <1>1 DEF IInv, Sifted
<1> QED
  BY <1>1, <1>2, <1>3 DEF IInv

LEMMA StepIInv == IInv /\ [Next]_vars => IInv'
<1> SUFFICES ASSUME IInv, [Next]_vars PROVE IInv'
  OBVIOUS
<1>1. now \in Times /\ phase \in {"idle", "update", "callback", "overrun"}
  BY DEF IInv, Types
<1>2. ASSUME NEW e \in Events, NEW w \in Times, Add(e, w) PROVE IInv'
  BY <1>2, AddIInv
<1>3. ASSUME NEW e \in Events, Del(e) PROVE IInv'
  BY <1>3, DelIInv
<1>4. ASSUME NEW t \in Times, Update(t) PROVE IInv'
  BY <1>4, QuietIInv DEF Update, NoSift
<1>5. CASE Fire
  BY <1>5, FireTickerIInv, FireOnceIInv DEF Fire
<1>6. CASE Finish
  BY <1>1, <1>6, QuietIInv DEF Finish, NoSift
<1>7. CASE Return
  BY <1>1, <1>7, QuietIInv DEF Return, NoSift
<1>8. CASE SiftUp
  BY <1>8, SiftUpIInv
<1>9. CASE SiftDown
  BY <1>9, SiftDownIInv
<1>10. CASE UNCHANGED vars
  BY <1>1, <1>10, QuietIInv DEF vars
<1> QED
  BY <1>2, <1>3, <1>4, <1>5, <1>6, <1>7, <1>8, <1>9, <1>10 DEF Next

LEMMA AlwaysIInv == Spec => []IInv
BY InitIInv, StepIInv, PTL DEF Spec

-----------------------------------------------------------------------------
\* Types and bounds of the heap, whatever the periods.
THEOREM TypeCorrect == Spec => []TypeOK
<1>1. IInv => TypeOK
  BY DEF IInv, Types, TypeOK
<1> QED
  BY <1>1, AlwaysIInv, PTL

\* An event's ev->i is where it is, so timer_del removes the event it is given.
THEOREM IndicesExact == Spec => []IndexExact
<1>1. IInv => IndexExact
  BY DEF IInv
<1> QED
  BY <1>1, AlwaysIInv, PTL

\* After every call the heap is in order again, so timer_latest returns the
\* earliest event.
THEOREM OrderRestored == Spec => []HeapOrdered
<1>1. IInv => HeapOrdered
  <2> SUFFICES ASSUME IInv, sift = "none", NEW k \in 1 .. size - 1
               PROVE  WhenAt(Parent(k)) <= WhenAt(k)
    BY DEF HeapOrdered
  <2>1. /\ size \in Nat /\ W[Parent(k)] <= W[k]
        /\ \A j \in 0 .. size - 1 : WhenAt(j) = W[j]
    BY WType DEF IInv, Sifted, Ordered
  <2>2. k \in 0 .. size - 1 /\ Parent(k) \in 0 .. size - 1
    BY <2>1, ParentFacts
  <2> QED
    BY <2>1, <2>2
<1> QED
  BY <1>1, AlwaysIInv, PTL

-----------------------------------------------------------------------------
(* As long as the events fit the array timer_init allocates.               *)

Fits == phase # "overrun" /\ room = Cap /\ cap = Cap

\* The heap holds no event twice.
LEMMA SizeBound ==
  ASSUME IInv
  PROVE  IsFiniteSet(Armed) /\ Cardinality(Armed) \in Nat /\ size <= Cardinality(Armed)
<1>1. IsFiniteSet(Armed) /\ Cardinality(Armed) \in Nat
  BY EventsFinite, FS_Subset, FS_CardinalityType DEF IInv, Types
<1>2. size \in Nat /\ heap \in [1 .. size -> Armed]
  BY DEF IInv, Types, size
<1>3. ASSUME NEW j \in 1 .. size, NEW k \in 1 .. size, heap[j] = heap[k] PROVE j = k
  <2>1. /\ j - 1 \in 0 .. size - 1 /\ (j - 1) + 1 = j
        /\ k - 1 \in 0 .. size - 1 /\ (k - 1) + 1 = k
    BY <1>2
  <2>2. at[heap[j]] = j - 1 /\ at[heap[k]] = k - 1
    BY <2>1 DEF IInv, IndexExact
  <2> QED
    BY <1>2, <1>3, <2>2
<1>4. heap \in Injection(1 .. size, Armed)
  BY <1>2, <1>3 DEF Injection, IsInjective
<1>5. Cardinality(1 .. size) <= Cardinality(Armed)
  BY <1>1, <1>4, FS_Injection
<1>6. Cardinality(1 .. size) = size
  BY <1>2, FS_Interval
<1> QED
  BY <1>1, <1>5, <1>6

LEMMA StepFits == Cardinality(Events) <= Cap /\ IInv /\ Fits /\ [Next]_vars => Fits'
<1> SUFFICES ASSUME Cardinality(Events) <= Cap, IInv, Fits, [Next]_vars PROVE Fits'
  OBVIOUS
<1>1. ASSUME NEW e \in Events, NEW w \in Times, Add(e, w) PROVE Fits'
  <2>1. size \in Nat /\ Armed \in SUBSET Events /\ e \notin Armed
    BY <1>1, WType DEF IInv, Types, Add
  <2>2. IsFiniteSet(Armed) /\ Cardinality(Armed) \in Nat /\ size <= Cardinality(Armed)
    BY SizeBound
  <2>3. Cardinality(Armed \cup {e}) = Cardinality(Armed) + 1
    BY <2>1, <2>2, FS_AddElement
  <2>4. Cardinality(Armed \cup {e}) <= Cardinality(Events) /\ Cardinality(Events) \in Nat
    <3>1. Armed \cup {e} \in SUBSET Events
      BY <2>1
    <3> QED
      BY <3>1, EventsFinite, FS_Subset, FS_CardinalityType
  <2>5. size < Cap
    BY <2>1, <2>2, <2>3, <2>4, SizesPositive
  <2> QED
    BY <1>1, <2>1, <2>5, SizesPositive DEF Add, Fits
<1>2. CASE UNCHANGED <<room, cap>> /\ phase' # "overrun"
  BY <1>2 DEF Fits
<1> QED
  BY <1>1, <1>2 DEF Next, Del, Update, Fire, Finish, Return, SiftUp, SiftDown, vars, Fits

\* With at most Cap events nothing is written behind the array.
THEOREM NoOverrunUpToCap == ASSUME Cardinality(Events) <= Cap PROVE Spec => []NoOverrun
<1>1. Init => Fits
  BY DEF Init, Fits
<1>2. Fits => NoOverrun
  BY DEF Fits, NoOverrun
<1>3. IInv /\ Fits /\ [Next]_vars => Fits'
  BY StepFits
<1> QED
  BY <1>1, <1>2, <1>3, AlwaysIInv, PTL DEF Spec

-----------------------------------------------------------------------------
(* The heap implements the promise.                                        *)


\* The deadlines ArmedTimers sees.
Dues == [e \in Events |-> IF e \in Armed THEN when[e] ELSE Off]

LEMMA DuesFacts ==
  ASSUME IInv
  PROVE  /\ AT!Armed = Armed
         /\ \A e \in Armed : e \in Events /\ Dues[e] = when[e] /\ when[e] \in Nat
         /\ \A e \in Events \ Armed : Dues[e] = Off
<1>1. /\ Armed \subseteq Events /\ \A e \in Armed : when[e] \in Nat
  BY DEF IInv, Types
<1>2. \A e \in Events : Dues[e] = IF e \in Armed THEN when[e] ELSE Off
  BY DEF Dues
<1>3. AT!Armed = {e \in Events : Dues[e] # Off}
  BY DEF AT!Armed, Dues
<1> QED
  BY <1>1, <1>2, <1>3, EventsFinite

\* Between the loops of a call, the heap moves and nothing else does.
LEMMA SiftStutters ==
  ASSUME IInv, Fits, SiftUp \/ SiftDown
  PROVE  UNCHANGED AT!vars
<1>1. UNCHANGED <<when, now, phase>>
  BY DEF SiftUp, SiftDown
<1> QED
  BY <1>1 DEF AT!vars, Armed

LEMMA AddImplements ==
  ASSUME IInv, Fits, Fits', NEW e \in Events, NEW w \in Times, Add(e, w)
  PROVE  AT!Add(e, w)
<1>1. /\ Armed' = Armed \cup {e} /\ when'[e] = w /\ \A f \in Armed : when'[f] = when[f]
      /\ e \notin Armed /\ phase \in {"idle", "callback"} /\ now' = now
  BY AddIInv DEF Add, ClientTurn
<1>2. phase' = phase
  BY DEF Add, Fits
<1>3. Dues' = [Dues EXCEPT ![e] = w]
  BY <1>1 DEF Dues
<1> QED
  BY <1>1, <1>2, <1>3, DuesFacts DEF AT!Add, Dues

LEMMA DelImplements ==
  ASSUME IInv, Fits, NEW e \in Events, Del(e)
  PROVE  AT!Del(e)
<1>1. /\ Armed' = Armed \ {e} /\ \A f \in Armed \ {e} : when'[f] = when[f]
      /\ e \in Armed /\ phase \in {"idle", "callback"} /\ now' = now /\ phase' = phase
  BY DelIInv DEF Del, ClientTurn
<1>2. Dues' = [Dues EXCEPT ![e] = Off]
  BY <1>1 DEF Dues
<1> QED
  BY <1>1, <1>2, DuesFacts DEF AT!Del, Dues

\* The top of the heap is an earliest event.
LEMMA TopIsEarliest ==
  ASSUME IInv, Ordered(W, size), size > 0, NEW f \in Armed
  PROVE  when[heap[1]] <= when[f]
<1>1. size \in Nat /\ W \in [0 .. size - 1 -> Nat] /\ \A k \in 0 .. size - 1 : W[k] = when[heap[k + 1]]
  BY WType DEF IInv
<1>2. at[f] \in 0 .. size - 1 /\ heap[at[f] + 1] = f
  BY DEF IInv, IndexExact
<1>3. W[0] <= W[at[f]]
  BY <1>1, <1>2, TopIsLeast DEF IInv
<1>4. 0 \in 0 .. size - 1 /\ 0 + 1 = 1
  BY <1>1
<1>5. W[0] = when[heap[1]] /\ W[at[f]] = when[f]
  <2>1. W[0] = when[heap[0 + 1]] /\ W[at[f]] = when[heap[at[f] + 1]]
    BY <1>1, <1>2, <1>4
  <2> QED
    BY <1>2, <1>4, <2>1
<1> QED
  BY <1>3, <1>5

LEMMA FireImplements ==
  ASSUME IInv, Fits, Fire
  PROVE  \E e \in Events : AT!Fire(e)
<1> DEFINE e == heap[1]
<1>1. /\ Ordered(W, size) /\ size > 0 /\ phase = "update"
      /\ e \in Armed /\ when[e] \in Nat /\ when[e] <= now /\ now' = now /\ phase' = "callback"
  BY FireFacts
<1>2. \A f \in Armed : when[e] <= when[f]
  BY <1>1, TopIsEarliest
<1>3. e \in Events /\ Dues[e] = when[e] /\ \A f \in Armed : Dues[f] = when[f]
  BY <1>1, DuesFacts
<1>4. Dues' = [Dues EXCEPT ![e] = IF Period[e] > 0 THEN Dues[e] + Period[e] ELSE Off]
  <2>1. CASE FireTicker(e)
    <3>1. /\ Period[e] > 0 /\ Armed' = Armed /\ \A f \in Armed \ {e} : when'[f] = when[f]
          /\ when'[e] = when[e] + Period[e]
      BY <2>1, FireTickerIInv
    <3> HIDE DEF e
    <3>2. \A f \in Events : Dues'[f] = IF f = e THEN Dues[e] + Period[e] ELSE Dues[f]
      BY <1>1, <1>3, <3>1 DEF Dues
    <3> QED
      BY <1>3, <3>1, <3>2 DEF Dues
  <2>2. CASE FireOnce(e)
    <3>1. /\ ~(Period[e] > 0) /\ Armed' = Armed \ {e} /\ \A f \in Armed \ {e} : when'[f] = when[f]
      BY <2>2, FireOnceIInv
    <3> HIDE DEF e
    <3>2. \A f \in Events : Dues'[f] = IF f = e THEN Off ELSE Dues[f]
      BY <1>1, <1>3, <3>1 DEF Dues
    <3> QED
      BY <1>3, <3>1, <3>2 DEF Dues
  <2> QED
    BY <2>1, <2>2 DEF Fire
<1> HIDE DEF e
<1>5. AT!Armed = Armed
  BY DuesFacts
<1> QED
  BY <1>1, <1>2, <1>3, <1>4, <1>5 DEF AT!Fire, Dues

LEMMA QuietImplements ==
  ASSUME IInv, Fits
  PROVE  /\ \A t \in Times : Update(t) => AT!Update(t)
         /\ Return => AT!Return
         /\ Finish => AT!Finish
<1>1. ASSUME UNCHANGED when PROVE Dues' = Dues
  BY <1>1 DEF Dues, Armed
<1>2. \A t \in Times : Update(t) => AT!Update(t)
  BY <1>1 DEF Update, AT!Update, Dues
<1>3. Return => AT!Return
  BY <1>1 DEF Return, AT!Return, Dues
<1>4. ASSUME Finish PROVE AT!Finish
  <2>1. phase = "update" /\ ~Due /\ phase' = "idle" /\ UNCHANGED <<when, now>> /\ sift = "none"
    BY <1>4 DEF Finish
  <2>2. ASSUME NEW e \in Armed PROVE when[e] > now
    <3>1. size \in Nat /\ at[e] \in 0 .. size - 1 /\ Ordered(W, size)
      BY <2>1, WType DEF IInv, IndexExact, Sifted
    <3>2. size > 0 /\ when[heap[1]] <= when[e]
      BY <3>1, TopIsEarliest
    <3>3. heap[1] \in Armed /\ WhenAt(0) = when[heap[1]]
      <4>1. 0 \in 0 .. size - 1 /\ 0 + 1 = 1
        BY <3>1, <3>2
      <4> QED
        BY <4>1 DEF IInv, IndexExact, WhenAt
    <3>4. when[heap[1]] \in Nat /\ when[e] \in Nat /\ now \in Nat
      BY <3>3, DuesFacts, TimesInRange DEF IInv, Types
    <3>5. ~(when[heap[1]] <= now)
      BY <2>1, <3>2, <3>3 DEF Due
    <3> QED
      BY <3>2, <3>4, <3>5
  <2>3. AT!Armed = Armed /\ \A e \in Armed : Dues[e] = when[e]
    BY DuesFacts
  <2> QED
    BY <1>1, <2>1, <2>2, <2>3 DEF AT!Finish, Dues
<1> QED
  BY <1>2, <1>3, <1>4

\* The heap keeps the promise of ArmedTimers: only an earliest event that is due
\* fires, and nothing due is left when timer_update returns.
THEOREM TimerImplements == ASSUME Cardinality(Events) <= Cap PROVE Spec => Implements
<1>1. Init => Fits
  BY DEF Init, Fits
<1>2. Init => AT!Init
  <2> SUFFICES ASSUME Init PROVE AT!Init
    OBVIOUS
  <2>1. Armed = {} /\ now = 0 /\ phase = "idle"
    BY DEF Init, Armed
  <2> QED
    BY <2>1 DEF AT!Init
<1>3. IInv /\ Fits /\ [Next]_vars => Fits'
  BY StepFits
<1>4. IInv /\ Fits /\ Fits' /\ [Next]_vars => [AT!Next]_(AT!vars)
  <2> SUFFICES ASSUME IInv, Fits, Fits', [Next]_vars PROVE [AT!Next]_(AT!vars)
    OBVIOUS
  <2>1. ASSUME NEW e \in Events, NEW w \in Times, Add(e, w) PROVE AT!Next
    BY <2>1, AddImplements DEF AT!Next
  <2>2. ASSUME NEW e \in Events, Del(e) PROVE AT!Next
    BY <2>2, DelImplements DEF AT!Next
  <2>3. ASSUME NEW t \in Times, Update(t) PROVE AT!Next
    BY <2>3, QuietImplements DEF AT!Next
  <2>4. CASE Fire
    BY <2>4, FireImplements DEF AT!Next
  <2>5. CASE Finish \/ Return
    BY <2>5, QuietImplements DEF AT!Next
  <2>6. CASE SiftUp \/ SiftDown
    BY <2>6, SiftStutters
  <2>7. CASE UNCHANGED vars
    BY <2>7 DEF vars, AT!vars, Armed
  <2> QED
    BY <2>1, <2>2, <2>3, <2>4, <2>5, <2>6, <2>7 DEF Next
<1> QED
  BY <1>1, <1>2, <1>3, <1>4, AlwaysIInv, PTL DEF Spec, Implements, AT!Spec
=============================================================================
