----------------------------- MODULE QueueProofs -----------------------------
(***************************************************************************)
(* Proofs about queue.c: for any number of threads, any values and any     *)
(* length of the ring, the spin lock keeps two threads from changing it at *)
(* once, the ring is a first-in first-out queue, and the test made without *)
(* the lock is exact when no locked section overlaps it.                   *)
(***************************************************************************)
EXTENDS Queue, TLAPS, SequenceTheorems

\* A thread owns the lock from spin_lock to spin_unlock, alone.
Owner(t) == pc[t] \in LockedPCs
OneOwner ==
  /\ \A t \in Threads : Owner(t) => locked
  /\ \A t, u \in Threads : Owner(t) /\ Owner(u) => t = u

\* Where the indices are, at the stores of a locked section and between them.
Ring ==
  /\ n \in Nat /\ n >= 2
  /\ head \in 0 .. n /\ (head = n => \E t \in Threads : pc[t] = "wrap")
  /\ tail \in 0 .. n /\ (tail = n => \E t \in Threads : pc[t] = "growhead")
  /\ \A t \in Threads : /\ pc[t] = "wrap" => head = n
                        /\ pc[t] = "growhead" => tail = n
                        /\ pc[t] = "growtail" => head = 0
  /\ data \in [0 .. (IF Growing THEN 2 * n ELSE n) - 1 -> Values \cup {Junk}]

Types ==
  /\ locked \in BOOLEAN
  /\ pc \in [Threads -> PCs]
  /\ sawHead \in [Threads -> Nat \cup {Unread}]
  /\ sawTail \in [Threads -> Nat \cup {Unread}]
  /\ overlapped \in [Threads -> BOOLEAN]

\* Only a thread that is testing keeps what it has loaded.
Loads ==
  \A t \in Threads :
    pc[t] \notin {"poptest", "emptytest"} => sawHead[t] = Unread /\ sawTail[t] = Unread

\* While no locked section overlaps an unlocked test, what it has loaded is
\* what head and tail still are.
Quiet ==
  \A t \in Threads :
    pc[t] \in TestPCs /\ ~overlapped[t] =>
      /\ ~locked
      /\ sawHead[t] \in {Unread, head} /\ sawTail[t] \in {Unread, tail}
      /\ pc[t] = "empty" => head = tail
      /\ pc[t] \in {"nonempty", "pop"} => head # tail

IInv == Types /\ OneOwner /\ Ring /\ Loads /\ Quiet

-----------------------------------------------------------------------------
(* What the operators of the model do *)

\* An index that runs over the end of the array goes on at its beginning.
LEMMA Wrapped ==
  ASSUME NEW m \in Nat \ {0}, NEW a \in Int, -m <= a, a < 2 * m
  PROVE  a % m = IF a < 0 THEN a + m ELSE IF a < m THEN a ELSE a - m
OBVIOUS

\* Where a thread stands after it has moved.
LEMMA Moved ==
  ASSUME pc \in [Threads -> PCs], NEW t \in Threads, NEW from, NEW to \in PCs, Goto(t, from, to)
  PROVE  /\ pc' \in [Threads -> PCs]
         /\ pc[t] = from /\ pc'[t] = to
         /\ \A u \in Threads : u # t => pc'[u] = pc[u]
BY DEF Goto

\* A step outside the locked sections touches neither the ring nor the lock.
LEMMA Outside ==
  ASSUME IInv, NEW t \in Threads, NEW from \in PCs \ LockedPCs, NEW to \in PCs \ LockedPCs,
         Goto(t, from, to), UNCHANGED <<locked, ring>>
  PROVE  OneOwner' /\ Ring' /\ Growing' = Growing /\ Content' = Content
<1>1. /\ pc[t] = from /\ pc'[t] = to
      /\ \A u \in Threads : u # t => pc'[u] = pc[u]
  BY Moved DEF IInv, Types
<1>2. \A u \in Threads : pc'[u] \in LockedPCs \/ pc[u] \in LockedPCs => pc'[u] = pc[u]
  BY <1>1
<1>3. \A u \in Threads, s \in LockedPCs : pc'[u] = s <=> pc[u] = s
  BY <1>2
<1>4. Growing' = Growing
  BY <1>3 DEF Growing, LockedPCs
<1>5. OneOwner'
  BY <1>2 DEF IInv, OneOwner, Owner
<1>6. Ring'
  BY <1>3, <1>4 DEF IInv, Ring, LockedPCs, ring
<1>7. Content' = Content
  BY <1>4 DEF Content, Length, First, ring
<1> QED
  BY <1>4, <1>5, <1>6, <1>7

\* While a thread owns the lock no other does, and who tests is overlapped.
LEMMA Alone ==
  ASSUME IInv, NEW t \in Threads, Owner(t)
  PROVE  /\ locked
         /\ \A u \in Threads : u # t => pc[u] \notin LockedPCs
         /\ \A u \in Threads : pc[u] \in TestPCs => overlapped[u]
BY DEF IInv, OneOwner, Owner, Quiet, Types


\* What a locked section keeps whatever it stores: who owns the lock, and what
\* the tests, all of them overlapped, have loaded.
LEMMA Within ==
  ASSUME IInv, NEW t \in Threads, NEW from \in LockedPCs, NEW to \in LockedPCs,
         Goto(t, from, to), UNCHANGED <<locked, test>>
  PROVE  /\ Types' /\ OneOwner' /\ Loads' /\ Quiet'
         /\ pc[t] = from /\ pc'[t] = to
         /\ \A u \in Threads : u # t => pc[u] \notin LockedPCs /\ pc'[u] \notin LockedPCs
         /\ Growing <=> from \in {"grow", "growtail", "growhead"}
         /\ Growing' <=> to \in {"grow", "growtail", "growhead"}
<1>1. /\ pc[t] = from /\ pc'[t] = to /\ pc' \in [Threads -> PCs]
      /\ \A u \in Threads : u # t => pc'[u] = pc[u]
  BY Moved DEF IInv, Types, PCs
<1>2. /\ locked
      /\ \A u \in Threads : u # t => pc[u] \notin LockedPCs
      /\ \A u \in Threads : pc[u] \in TestPCs => overlapped[u]
  BY <1>1, Alone DEF Owner
<1>3. \A u \in Threads : u # t => pc'[u] \notin LockedPCs
  BY <1>1, <1>2
<1>4. Types'
  BY <1>1 DEF IInv, Types, test
<1>5. OneOwner'
  BY <1>1, <1>2, <1>3 DEF OneOwner, Owner
<1>6. Loads'
  BY <1>1 DEF IInv, Loads, test, LockedPCs
<1>7. Quiet'
  BY <1>1, <1>2 DEF Quiet, test, LockedPCs, TestPCs
<1>8. Growing <=> from \in {"grow", "growtail", "growhead"}
  BY <1>1, <1>2 DEF Growing, LockedPCs
<1>9. Growing' <=> to \in {"grow", "growtail", "growhead"}
  BY <1>1, <1>3 DEF Growing, LockedPCs
<1> QED
  BY <1>1, <1>2, <1>3, <1>4, <1>5, <1>6, <1>7, <1>8, <1>9

\* Without an owner, and at the beginning of a locked section, both indices
\* are inside the array.
LEMMA Settled ==
  ASSUME IInv,
         \A u \in Threads : pc[u] \notin {"grow", "growtail", "growhead", "wrap"}
  PROVE  /\ ~Growing /\ n \in Nat /\ n >= 2
         /\ head \in 0 .. n - 1 /\ tail \in 0 .. n - 1
         /\ data \in [0 .. n - 1 -> Values \cup {Junk}]
         /\ First = head
         /\ Length = IF tail >= head THEN tail - head ELSE tail - head + n
         /\ Length \in 0 .. n - 1
<1>1. ~Growing
  BY DEF Growing
<1>2. /\ n \in Nat /\ n >= 2 /\ head \in 0 .. n - 1 /\ tail \in 0 .. n - 1
      /\ data \in [0 .. n - 1 -> Values \cup {Junk}]
  BY <1>1 DEF IInv, Ring
<1>3. First = head
  BY <1>1, <1>2 DEF First
<1>4. Length = IF tail >= head THEN tail - head ELSE tail - head + n
  <2>1. /\ n \in Nat \ {0} /\ tail - head \in Int /\ -n <= tail - head /\ tail - head < n
        /\ tail - head < 0 <=> ~(tail >= head)
    BY <1>2
  <2>2. Length = (tail - head) % n
    BY <1>1, <1>3 DEF Length
  <2>3. (tail - head) % n = IF tail - head < 0 THEN tail - head + n ELSE tail - head
    BY <2>1, Wrapped
  <2> QED
    BY <2>1, <2>2, <2>3
<1> QED
  BY <1>1, <1>2, <1>3, <1>4


\* The ring between two sections, element by element.
LEMMA Elements ==
  ASSUME IInv,
         \A u \in Threads : pc[u] \notin {"grow", "growtail", "growhead", "wrap"}
  PROVE  /\ Content = [i \in 1 .. Length |-> data[(head + i - 1) % n]]
         /\ \A i \in 1 .. Length : /\ (head + i - 1) % n = IF head + i <= n THEN head + i - 1 ELSE head + i - 1 - n
                                   /\ (head + i - 1) % n \in (0 .. n - 1) \ {tail}
         /\ (head + Length) % n = tail
         /\ Content \in Seq(Values \cup {Junk}) /\ Len(Content) = Length
<1>1. /\ ~Growing /\ n \in Nat /\ n >= 2 /\ head \in 0 .. n - 1 /\ tail \in 0 .. n - 1
      /\ data \in [0 .. n - 1 -> Values \cup {Junk}] /\ First = head
      /\ Length = IF tail >= head THEN tail - head ELSE tail - head + n
      /\ Length \in 0 .. n - 1
  BY Settled
<1>2. Content = [i \in 1 .. Length |-> data[(head + i - 1) % n]]
  BY <1>1 DEF Content
<1>3. ASSUME NEW i \in 1 .. Length
      PROVE  /\ (head + i - 1) % n = IF head + i <= n THEN head + i - 1 ELSE head + i - 1 - n
             /\ (head + i - 1) % n \in (0 .. n - 1) \ {tail}
  <2> DEFINE a == head + i - 1
  <2>1. /\ n \in Nat \ {0} /\ a \in Int /\ -n <= a /\ a < 2 * n /\ ~(a < 0)
        /\ a < n <=> head + i <= n
    BY <1>1
  <2>2. a % n = IF a < n THEN a ELSE a - n
    <3> HIDE DEF a
    <3> QED
      BY <2>1, Wrapped
  <2> QED
    BY <1>1, <2>1, <2>2
<1>4. (head + Length) % n = tail
  <2> DEFINE a == head + Length
  <2>1. n \in Nat \ {0} /\ a \in Int /\ -n <= a /\ a < 2 * n /\ ~(a < 0)
    BY <1>1
  <2>2. a % n = IF a < n THEN a ELSE a - n
    <3> HIDE DEF a
    <3> QED
      BY <2>1, Wrapped
  <2> QED
    BY <1>1, <2>2
<1>5. Content \in Seq(Values \cup {Junk}) /\ Len(Content) = Length
  <2>1. \A i \in 1 .. Length : data[(head + i - 1) % n] \in Values \cup {Junk}
    BY <1>1, <1>3
  <2> QED
    BY <1>1, <1>2, <2>1
<1> QED
  BY <1>2, <1>3, <1>4, <1>5

-----------------------------------------------------------------------------
(* The steps outside the locked sections *)

\* A step of a thread that does not go for the lock.
LEMMA TestSteps ==
  ASSUME IInv, NEW t \in Threads,
         \/ CallPush(t) \/ CallPop(t) \/ CallEmpty(t)
         \/ LoadHead(t) \/ LoadTail(t) \/ Decide(t) \/ Return(t)
  PROVE  IInv' /\ Content' = Content /\ last' = last
<1>1. CASE CallPush(t)
  <2>1. OneOwner' /\ Ring' /\ Content' = Content
    BY <1>1, Outside DEF CallPush, PCs, LockedPCs
  <2>2. Types' /\ Loads' /\ Quiet'
    BY <1>1 DEF IInv, CallPush, Goto, Types, Loads, Quiet, PCs, TestPCs, LockedPCs, ring, test
  <2> QED
    BY <1>1, <2>1, <2>2 DEF IInv, CallPush
<1>2. ASSUME NEW from \in {"poptest", "emptytest"}, Call(t, from)
      PROVE  IInv' /\ Content' = Content /\ last' = last
  <2>1. OneOwner' /\ Ring' /\ Content' = Content
    BY <1>2, Outside DEF Call, PCs, LockedPCs
  <2>2. Types' /\ Loads' /\ Quiet'
    BY <1>2 DEF IInv, Call, Goto, Types, Loads, Quiet, PCs, TestPCs, LockedPCs, ring
  <2> QED
    BY <1>2, <2>1, <2>2 DEF IInv, Call
<1>3. CASE LoadHead(t) \/ LoadTail(t)
  <2>1. OneOwner' /\ Ring' /\ Content' = Content
    BY SMTT(20), <1>3 DEF LoadHead, LoadTail, IInv, OneOwner, Owner, Ring, Growing, Content, Length, First, ring
  <2>2. Types' /\ Loads' /\ Quiet'
    BY <1>3 DEF IInv, LoadHead, LoadTail, Types, Loads, Quiet, Ring, ring
  <2> QED
    BY <1>3, <2>1, <2>2 DEF IInv, LoadHead, LoadTail
<1>4. CASE Decide(t)
  <2>1. PICK from \in {"poptest", "emptytest"}, to \in {"empty", "nonempty", "pop"} : Goto(t, from, to)
    BY <1>4 DEF Decide
  <2>2. OneOwner' /\ Ring' /\ Content' = Content
    BY <1>4, <2>1, Outside DEF Decide, PCs, LockedPCs
  <2>3. Types' /\ Loads' /\ Quiet'
    BY <1>4 DEF IInv, Decide, Goto, Types, Loads, Quiet, PCs, TestPCs, LockedPCs, ring
  <2> QED
    BY <1>4, <2>2, <2>3 DEF IInv, Decide
<1>5. CASE Return(t)
  <2>1. PICK from \in {"empty", "nonempty"} : Goto(t, from, "out")
    BY <1>5 DEF Return
  <2>2. OneOwner' /\ Ring' /\ Content' = Content
    BY <1>5, <2>1, Outside DEF Return, PCs, LockedPCs
  <2>3. Types' /\ Loads' /\ Quiet'
    BY <1>5 DEF IInv, Return, Goto, Types, Loads, Quiet, PCs, TestPCs, LockedPCs, ring
  <2> QED
    BY <1>5, <2>2, <2>3 DEF IInv, Return
<1> QED
  BY <1>1, <1>2, <1>3, <1>4, <1>5 DEF CallPop, CallEmpty

\* The lock is taken: who is testing is overlapped from now on.
LEMMA LockStep ==
  ASSUME IInv, NEW t \in Threads, PushLock(t) \/ PopLock(t)
  PROVE  IInv' /\ Content' = Content /\ last' = last
<1>1. PICK from \in {"push", "pop"}, to \in {"store", "take"} : SpinLock(t, from, to)
  BY DEF PushLock, PopLock
<1>2. /\ pc[t] = from /\ pc'[t] = to /\ pc' \in [Threads -> PCs]
      /\ \A u \in Threads : u # t => pc'[u] = pc[u]
  BY <1>1, Moved DEF SpinLock, IInv, Types, PCs, LockedPCs
<1>3. /\ ~locked /\ locked' = TRUE /\ UNCHANGED <<n, head, tail, data, sawHead, sawTail, last>>
      /\ overlapped' = [u \in Threads |-> u # t /\ pc[u] \in TestPCs]
  BY <1>1 DEF SpinLock, ring
<1>4. \A u \in Threads : pc[u] \notin LockedPCs
  BY <1>3 DEF IInv, OneOwner, Owner
<1>5. \A u \in Threads : pc'[u] \notin {"grow", "growtail", "growhead", "wrap"}
  BY <1>2, <1>4 DEF LockedPCs
<1>6. Types' /\ OneOwner' /\ Loads'
  BY <1>2, <1>3, <1>4 DEF IInv, Types, OneOwner, Owner, Loads
<1>7. Quiet'
  BY <1>2, <1>3 DEF Quiet, TestPCs
<1>8. ~Growing /\ ~Growing'
  BY <1>4, <1>5 DEF Growing, LockedPCs
<1>9. Ring'
  BY <1>3, <1>4, <1>5, <1>8 DEF IInv, Ring, LockedPCs
<1>10. Content' = Content
  BY <1>3, <1>8 DEF Content, Length, First
<1> QED
  BY <1>3, <1>6, <1>7, <1>9, <1>10 DEF IInv

LEMMA UnlockStep ==
  ASSUME IInv, NEW t \in Threads, SpinUnlock(t)
  PROVE  IInv' /\ Content' = Content /\ last' = last
<1>1. /\ pc[t] = "unlock" /\ pc'[t] = "out" /\ pc' \in [Threads -> PCs]
      /\ \A u \in Threads : u # t => pc'[u] = pc[u]
  BY Moved DEF SpinUnlock, IInv, Types, PCs
<1>2. locked' = FALSE /\ UNCHANGED <<n, head, tail, data, sawHead, sawTail, overlapped, last>>
  BY DEF SpinUnlock, ring, test
<1>3. /\ \A u \in Threads : u # t => pc[u] \notin LockedPCs
      /\ \A u \in Threads : pc[u] \in TestPCs => overlapped[u]
  BY <1>1, Alone DEF Owner, LockedPCs
<1>4. \A u \in Threads : pc'[u] \notin LockedPCs
  BY <1>1, <1>3 DEF LockedPCs
<1>5. Types' /\ OneOwner' /\ Loads' /\ Quiet'
  BY <1>1, <1>2, <1>3, <1>4 DEF IInv, Types, OneOwner, Owner, Loads, Quiet, TestPCs
<1>6. ~Growing /\ ~Growing'
  BY <1>1, <1>3, <1>4 DEF Growing, LockedPCs
<1>7. Ring'
  BY <1>1, <1>2, <1>3, <1>4, <1>6 DEF IInv, Ring, LockedPCs
<1>8. Content' = Content
  BY <1>2, <1>6 DEF Content, Length, First
<1> QED
  BY <1>2, <1>5, <1>7, <1>8 DEF IInv

-----------------------------------------------------------------------------
(* The locked sections *)

\* What Append and Tail return, as functions of the index.
LEMMA AppendIs ==
  ASSUME NEW S, NEW s \in Seq(S), NEW v \in S, NEW l, Len(s) = l
  PROVE  Append(s, v) = [i \in 1 .. l + 1 |-> IF i <= l THEN s[i] ELSE v]
<1> DEFINE c == [i \in 1 .. l + 1 |-> IF i <= l THEN s[i] ELSE v]
<1>1. /\ Append(s, v) \in Seq(S) /\ Len(Append(s, v)) = l + 1
      /\ \A i \in 1 .. l : Append(s, v)[i] = s[i]
      /\ Append(s, v)[l + 1] = v
  BY AppendProperties
<1>2. c \in Seq(S) /\ Len(c) = l + 1
  OBVIOUS
<1>3. \A i \in 1 .. Len(c) : c[i] = Append(s, v)[i]
  BY <1>1, <1>2
<1> QED
  BY <1>1, <1>2, <1>3, SeqEqual

LEMMA TailIs ==
  ASSUME NEW S, NEW s \in Seq(S), NEW l, Len(s) = l, l > 0
  PROVE  Head(s) = s[1] /\ Tail(s) = [i \in 1 .. l - 1 |-> s[i + 1]]
<1> DEFINE c == [i \in 1 .. l - 1 |-> s[i + 1]]
<1>1. s # <<>>
  BY EmptySeq
<1>2. /\ Tail(s) \in Seq(S) /\ Len(Tail(s)) = l - 1
      /\ \A i \in 1 .. Len(Tail(s)) : Tail(s)[i] = s[i + 1]
  BY <1>1, HeadTailProperties
<1>3. c \in Seq(S) /\ Len(c) = l - 1
  OBVIOUS
<1>4. \A i \in 1 .. Len(c) : c[i] = Tail(s)[i]
  BY <1>2, <1>3
<1>5. Tail(s) = c
  BY <1>2, <1>3, <1>4, SeqEqual
<1>6. Head(s) = s[1]
  BY <1>1
<1> QED
  BY <1>5, <1>6

\* A push with room left.
LEMMA StoreRoom ==
  ASSUME IInv, NEW t \in Threads, NEW v \in Values, Store(t, v), NextTail # head
  PROVE  IInv' /\ Content' = Append(Content, v) /\ last' = last
<1>1. /\ Goto(t, "store", "unlock") /\ data' = [data EXCEPT ![tail] = v] /\ tail' = NextTail
      /\ UNCHANGED <<locked, n, head, test, last>>
  BY DEF Store
<1>2. /\ Types' /\ OneOwner' /\ Loads' /\ Quiet' /\ ~Growing /\ ~Growing'
      /\ pc[t] = "store" /\ pc'[t] = "unlock"
      /\ \A u \in Threads : u # t => pc[u] \notin LockedPCs /\ pc'[u] \notin LockedPCs
  BY <1>1, Within DEF LockedPCs
<1>3. \A u \in Threads : /\ pc[u] \notin {"grow", "growtail", "growhead", "wrap"}
                         /\ pc'[u] \notin {"grow", "growtail", "growhead", "wrap"}
  BY <1>2 DEF LockedPCs
<1>4. /\ n \in Nat /\ n >= 2 /\ head \in 0 .. n - 1 /\ tail \in 0 .. n - 1
      /\ data \in [0 .. n - 1 -> Values \cup {Junk}]
      /\ Length = IF tail >= head THEN tail - head ELSE tail - head + n
      /\ Length \in 0 .. n - 1
  BY <1>3, Settled
<1>5. /\ tail' = (IF tail + 1 >= n THEN 0 ELSE tail + 1) /\ tail' # head /\ tail' \in 0 .. n - 1
  BY <1>1, <1>4 DEF NextTail
<1>6. Ring'
  BY <1>1, <1>2, <1>3, <1>4, <1>5 DEF Ring
<1>7. First' = head
  BY <1>1, <1>2, <1>4 DEF First
<1>8. Length' = Length + 1 /\ Length + 1 \in 1 .. n - 1
  <2> DEFINE a == tail' - head
  <2>1. /\ n \in Nat \ {0} /\ a \in Int /\ -n <= a /\ a < n /\ a < 2 * n
        /\ Length + 1 = (IF a < 0 THEN a + n ELSE a) /\ Length + 1 \in 1 .. n - 1
    BY <1>4, <1>5
  <2>2. Length' = a % n
    BY <1>1, <1>2, <1>7 DEF Length
  <2>3. a % n = IF a < 0 THEN a + n ELSE a
    <3> HIDE DEF a
    <3> QED
      BY <2>1, Wrapped
  <2> QED
    BY <2>1, <2>2, <2>3
<1>9. Content' = [i \in 1 .. Length + 1 |-> data'[(head + i - 1) % n]]
  BY <1>1, <1>2, <1>7, <1>8 DEF Content
<1>10. /\ Content = [i \in 1 .. Length |-> data[(head + i - 1) % n]]
       /\ \A i \in 1 .. Length : (head + i - 1) % n \in (0 .. n - 1) \ {tail}
       /\ (head + Length) % n = tail
       /\ Content \in Seq(Values \cup {Junk}) /\ Len(Content) = Length
  BY <1>3, Elements
<1>11. Append(Content, v) = [i \in 1 .. Length + 1 |-> IF i <= Length THEN Content[i] ELSE v]
  <2>1. v \in Values \cup {Junk} /\ Content \in Seq(Values \cup {Junk}) /\ Len(Content) = Length
    BY <1>10
  <2> QED
    BY ONLY <2>1, AppendIs
<1>12. ASSUME NEW i \in 1 .. Length + 1
       PROVE  data'[(head + i - 1) % n] = IF i <= Length THEN Content[i] ELSE v
  <2>1. CASE i \in 1 .. Length
    <3>1. (head + i - 1) % n \in (0 .. n - 1) \ {tail} /\ Content[i] = data[(head + i - 1) % n]
      BY <1>10, <2>1
    <3>2. data'[(head + i - 1) % n] = data[(head + i - 1) % n]
      BY <1>1, <1>4, <3>1
    <3> QED
      BY <1>4, <2>1, <3>1, <3>2
  <2>2. CASE i = Length + 1
    <3>1. head + i - 1 = head + Length /\ ~(i <= Length)
      BY <1>4, <2>2
    <3>2. data'[tail] = v
      BY <1>1, <1>4
    <3> QED
      BY <1>10, <3>1, <3>2
  <2> QED
    BY SMTT(20), <1>4, <2>1, <2>2
<1>13. Content' = Append(Content, v)
  BY <1>9, <1>11, <1>12
<1> QED
  BY <1>1, <1>2, <1>6, <1>13 DEF IInv

\* A push that fills the ring: the larger array holds the elements in order.
LEMMA StoreFull ==
  ASSUME IInv, NEW t \in Threads, NEW v \in Values, Store(t, v), NextTail = head
  PROVE  IInv' /\ Content' = Append(Content, v) /\ last' = last
<1>1. /\ Goto(t, "store", "grow") /\ data' = Larger(v)
      /\ UNCHANGED <<locked, n, head, tail, test, last>>
  BY DEF Store
<1>2. /\ Types' /\ OneOwner' /\ Loads' /\ Quiet' /\ ~Growing /\ Growing'
      /\ pc[t] = "store" /\ pc'[t] = "grow"
      /\ \A u \in Threads : u # t => pc[u] \notin LockedPCs /\ pc'[u] \notin LockedPCs
  BY <1>1, Within DEF LockedPCs
<1>3. \A u \in Threads : pc[u] \notin {"grow", "growtail", "growhead", "wrap"}
  BY <1>2 DEF LockedPCs
<1>4. /\ n \in Nat /\ n >= 2 /\ head \in 0 .. n - 1 /\ tail \in 0 .. n - 1
      /\ data \in [0 .. n - 1 -> Values \cup {Junk}]
      /\ Length = IF tail >= head THEN tail - head ELSE tail - head + n
  BY <1>3, Settled
<1>5. Length = n - 1
  BY <1>4 DEF NextTail
<1>6. /\ Content = [i \in 1 .. n - 1 |-> data[(head + i - 1) % n]]
      /\ \A i \in 1 .. n - 1 : (head + i - 1) % n \in (0 .. n - 1) \ {tail}
      /\ (head + n - 1) % n = tail
      /\ Content \in Seq(Values \cup {Junk}) /\ Len(Content) = n - 1
  <2>1. head + n - 1 = head + Length
    BY <1>4, <1>5
  <2> QED
    BY <1>3, <1>5, <2>1, Elements
<1>7. Ring'
  <2>1. \A i \in 0 .. n - 1 : (head + i) % n \in 0 .. n - 1
    BY <1>4
  <2>2. [data EXCEPT ![tail] = v] \in [0 .. n - 1 -> Values \cup {Junk}]
    BY <1>4
  <2>3. Larger(v) \in [0 .. 2 * n - 1 -> Values \cup {Junk}]
    BY <1>4, <2>1, <2>2 DEF Larger
  <2> QED
    BY <1>1, <1>2, <1>4, <2>3 DEF Ring, LockedPCs
<1>8. Content' = [i \in 1 .. n |-> data'[(0 + i - 1) % (2 * n)]]
  BY <1>1, <1>2 DEF Content, First, Length
<1>9. Append(Content, v) = [i \in 1 .. n |-> IF i <= n - 1 THEN Content[i] ELSE v]
  <2>1. v \in Values \cup {Junk} /\ Content \in Seq(Values \cup {Junk}) /\ Len(Content) = n - 1
    BY <1>6
  <2>2. Append(Content, v) = [i \in 1 .. n - 1 + 1 |-> IF i <= n - 1 THEN Content[i] ELSE v]
    BY ONLY <2>1, AppendIs
  <2>3. n - 1 + 1 = n
    BY <1>4
  <2> QED
    BY <2>2, <2>3
<1>10. ASSUME NEW i \in 1 .. n
       PROVE  data'[(0 + i - 1) % (2 * n)] = IF i <= n - 1 THEN Content[i] ELSE v
  <2>1. (0 + i - 1) % (2 * n) = i - 1 /\ i - 1 \in 0 .. 2 * n - 1 /\ i - 1 < n /\ head + (i - 1) = head + i - 1
    <3> DEFINE m == 2 * n
               a == 0 + i - 1
    <3>1. m \in Nat \ {0} /\ a \in Int /\ -m <= a /\ a < 2 * m /\ ~(a < 0) /\ a < m
      BY <1>4
    <3>2. a % m = a
      <4> HIDE DEF m, a
      <4> QED
        BY <3>1, Wrapped
    <3> QED
      BY <1>4, <3>2
  <2>2. data'[i - 1] = [data EXCEPT ![tail] = v][(head + i - 1) % n]
    BY <1>1, <2>1 DEF Larger
  <2>3. CASE i <= n - 1
    <3>1. i \in 1 .. n - 1
      BY <1>4, <2>3
    <3>2. (head + i - 1) % n \in (0 .. n - 1) \ {tail} /\ Content[i] = data[(head + i - 1) % n]
      BY <1>6, <3>1
    <3> QED
      BY <1>4, <2>1, <2>2, <2>3, <3>2
  <2>4. CASE i = n
    <3>1. [data EXCEPT ![tail] = v][tail] = v /\ ~(i <= n - 1)
      BY <1>4, <2>4
    <3> QED
      BY <1>6, <2>1, <2>2, <2>4, <3>1
  <2> QED
    BY <1>4, <2>3, <2>4
<1>11. Content' = Append(Content, v)
  BY <1>8, <1>9, <1>10
<1> QED
  BY <1>1, <1>2, <1>7, <1>11 DEF IInv

\* Between the stores of an expansion, and after it, the content is the same.
LEMMA GrowSteps ==
  ASSUME IInv, NEW t \in Threads, GrowFirst(t) \/ GrowSecond(t)
  PROVE  IInv' /\ Content' = Content /\ last' = last
<1>1. CASE GrowFirst(t)
  <2>1. PICK to \in {"growtail", "growhead"} :
          /\ Goto(t, "grow", to)
          /\ IF to = "growtail" THEN head' = 0 /\ tail' = tail ELSE tail' = n /\ head' = head
    BY <1>1 DEF GrowFirst
  <2>2. UNCHANGED <<locked, n, data, test, last>>
    BY <1>1 DEF GrowFirst
  <2>3. /\ Types' /\ OneOwner' /\ Loads' /\ Quiet' /\ Growing /\ Growing'
        /\ pc[t] = "grow" /\ pc'[t] = to
        /\ \A u \in Threads : u # t => pc[u] \notin LockedPCs /\ pc'[u] \notin LockedPCs
    BY <2>1, <2>2, Within DEF LockedPCs
  <2>4. Ring'
    BY <2>1, <2>2, <2>3 DEF IInv, Ring, LockedPCs
  <2>5. Content' = Content
    BY <2>2, <2>3 DEF Content, First, Length
  <2> QED
    BY <2>2, <2>3, <2>4, <2>5 DEF IInv
<1>2. CASE GrowSecond(t)
  <2>1. PICK from \in {"growtail", "growhead"} :
          /\ Goto(t, from, "unlock")
          /\ IF from = "growtail" THEN tail' = n /\ head' = head ELSE head' = 0 /\ tail' = tail
    BY <1>2 DEF GrowSecond
  <2>2. n' = 2 * n /\ UNCHANGED <<locked, data, test, last>>
    BY <1>2 DEF GrowSecond
  <2>3. /\ Types' /\ OneOwner' /\ Loads' /\ Quiet' /\ Growing /\ ~Growing'
        /\ pc[t] = from /\ pc'[t] = "unlock"
        /\ \A u \in Threads : u # t => pc[u] \notin LockedPCs /\ pc'[u] \notin LockedPCs
    BY <2>1, <2>2, Within DEF LockedPCs
  <2>4. n \in Nat /\ n >= 2 /\ head' = 0 /\ tail' = n /\ data \in [0 .. 2 * n - 1 -> Values \cup {Junk}]
    BY <2>1, <2>3 DEF IInv, Ring
  <2>5. Ring'
    BY <2>2, <2>3, <2>4 DEF Ring, LockedPCs
  <2>6. First' = 0 /\ First = 0 /\ Length = n
    BY <2>3, <2>4 DEF First, Length
  <2>7. Length' = n
    BY <2>2, <2>3, <2>4, <2>6 DEF Length
  <2>8. Content' = Content
    BY <2>2, <2>3, <2>6, <2>7 DEF Content
  <2> QED
    BY <2>2, <2>3, <2>5, <2>8 DEF IInv
<1> QED
  BY <1>1, <1>2

\* A pop that finds an element takes the oldest one.
LEMMA TakeOne ==
  ASSUME IInv, NEW t \in Threads, Take(t), head # tail
  PROVE  IInv' /\ Content # <<>> /\ last' = <<Head(Content)>> /\ Content' = Tail(Content)
<1> DEFINE to == IF head + 1 = n THEN "wrap" ELSE "unlock"
<1>1. /\ Goto(t, "take", to) /\ head' = head + 1 /\ last' = <<data[head]>>
      /\ UNCHANGED <<locked, n, tail, data, test>>
  BY DEF Take
<1>2. /\ Types' /\ OneOwner' /\ Loads' /\ Quiet' /\ ~Growing /\ ~Growing'
      /\ pc[t] = "take" /\ pc'[t] = to
      /\ \A u \in Threads : u # t => pc[u] \notin LockedPCs /\ pc'[u] \notin LockedPCs
  BY <1>1, Within DEF LockedPCs
<1>3. \A u \in Threads : pc[u] \notin {"grow", "growtail", "growhead", "wrap"}
  BY <1>2 DEF LockedPCs
<1>4. /\ n \in Nat /\ n >= 2 /\ head \in 0 .. n - 1 /\ tail \in 0 .. n - 1
      /\ data \in [0 .. n - 1 -> Values \cup {Junk}]
      /\ Length = IF tail >= head THEN tail - head ELSE tail - head + n
      /\ Length \in 1 .. n - 1
  BY <1>3, Settled
<1>5. /\ Content = [i \in 1 .. Length |-> data[(head + i - 1) % n]]
      /\ \A i \in 1 .. Length : (head + i - 1) % n = IF head + i <= n THEN head + i - 1 ELSE head + i - 1 - n
      /\ Content \in Seq(Values \cup {Junk}) /\ Len(Content) = Length
  BY <1>3, Elements
<1>6. Ring'
  BY <1>1, <1>2, <1>4 DEF Ring, LockedPCs
<1>7. First' = IF head + 1 = n THEN 0 ELSE head + 1
  BY <1>1, <1>2, <1>4 DEF First
<1>8. Length' = Length - 1
  <2> DEFINE a == tail - First'
  <2>1. /\ n \in Nat \ {0} /\ a \in Int /\ -n <= a /\ a < 2 * n /\ a < n
        /\ Length - 1 = IF a < 0 THEN a + n ELSE a
    BY <1>4, <1>7
  <2>2. a % n = IF a < 0 THEN a + n ELSE a
    <3> HIDE DEF a
    <3> QED
      BY <2>1, Wrapped
  <2> QED
    BY <1>1, <1>2, <2>1, <2>2 DEF Length
<1>9. Content' = [i \in 1 .. Length - 1 |-> data[(First' + i - 1) % n]]
  BY <1>1, <1>2, <1>8 DEF Content
<1>10. Head(Content) = Content[1] /\ Tail(Content) = [i \in 1 .. Length - 1 |-> Content[i + 1]]
  <2>1. Content \in Seq(Values \cup {Junk}) /\ Len(Content) = Length /\ Length > 0
    BY <1>4, <1>5
  <2> QED
    BY ONLY <2>1, TailIs
<1>11. ASSUME NEW i \in 1 .. Length - 1
       PROVE  data[(First' + i - 1) % n] = Content[i + 1]
  <2> DEFINE a == First' + i - 1
  <2>1. /\ n \in Nat \ {0} /\ a \in Int /\ -n <= a /\ a < 2 * n /\ ~(a < 0)
        /\ i + 1 \in 1 .. Length
        /\ (IF a < n THEN a ELSE a - n) = IF head + (i + 1) <= n THEN head + (i + 1) - 1 ELSE head + (i + 1) - 1 - n
    BY <1>4, <1>7
  <2>2. a % n = IF a < n THEN a ELSE a - n
    <3> HIDE DEF a
    <3> QED
      BY <2>1, Wrapped
  <2>3. a % n = (head + (i + 1) - 1) % n
    BY <1>5, <2>1, <2>2
  <2> QED
    BY <1>5, <2>1, <2>3
<1>12. Content' = Tail(Content)
  BY <1>9, <1>10, <1>11
<1>13. Content # <<>> /\ last' = <<Head(Content)>>
  <2>1. 1 \in 1 .. Length /\ head + 1 <= n /\ head + 1 - 1 = head
    BY <1>4
  <2>2. Content[1] = data[head]
    BY <1>5, <2>1
  <2>3. Content # <<>>
    <3>1. Len(Content) # 0
      BY <1>4, <1>5
    <3> QED
      BY ONLY <3>1, Len(<<>>) = 0
  <2> QED
    BY <1>1, <1>10, <2>2, <2>3
<1> QED
  BY <1>2, <1>6, <1>12, <1>13 DEF IInv

\* A pop that finds nothing under the lock, and the wrap of head.
LEMMA TakeNone ==
  ASSUME IInv, NEW t \in Threads, Take(t), head = tail
  PROVE  IInv' /\ Content' = Content /\ last' = last
<1>1. Goto(t, "take", "unlock") /\ UNCHANGED <<locked, ring, test, last>>
  BY DEF Take, ring
<1>2. /\ Types' /\ OneOwner' /\ Loads' /\ Quiet' /\ ~Growing /\ ~Growing'
      /\ pc[t] = "take" /\ pc'[t] = "unlock"
      /\ \A u \in Threads : u # t => pc[u] \notin LockedPCs /\ pc'[u] \notin LockedPCs
  BY <1>1, Within DEF LockedPCs
<1>3. Ring'
  BY <1>1, <1>2 DEF IInv, Ring, LockedPCs, ring
<1>4. Content' = Content
  BY <1>1, <1>2 DEF Content, First, Length, ring
<1> QED
  BY <1>1, <1>2, <1>3, <1>4 DEF IInv

LEMMA WrapStep ==
  ASSUME IInv, NEW t \in Threads, Wrap(t)
  PROVE  IInv' /\ Content' = Content /\ last' = last
<1>1. Goto(t, "wrap", "unlock") /\ head' = 0 /\ UNCHANGED <<locked, n, tail, data, test, last>>
  BY DEF Wrap
<1>2. /\ Types' /\ OneOwner' /\ Loads' /\ Quiet' /\ ~Growing /\ ~Growing'
      /\ pc[t] = "wrap" /\ pc'[t] = "unlock"
      /\ \A u \in Threads : u # t => pc[u] \notin LockedPCs /\ pc'[u] \notin LockedPCs
  BY <1>1, Within DEF LockedPCs
<1>3. n \in Nat /\ n >= 2 /\ head = n
  BY <1>2 DEF IInv, Ring
<1>4. Ring'
  BY <1>1, <1>2, <1>3 DEF IInv, Ring, LockedPCs
<1>5. First = 0 /\ First' = 0
  BY <1>1, <1>2, <1>3 DEF First
<1>6. Content' = Content
  BY <1>1, <1>2, <1>5 DEF Content, Length
<1> QED
  BY <1>1, <1>2, <1>4, <1>6 DEF IInv

-----------------------------------------------------------------------------
(* The theorems *)

LEMMA InitIInv == Init => IInv /\ Content = <<>>
<1> SUFFICES ASSUME Init PROVE IInv /\ Content = <<>>
  OBVIOUS
<1>1. ~Growing
  BY DEF Init, Growing
<1>2. Types /\ OneOwner /\ Loads /\ Quiet
  BY DEF Init, Types, OneOwner, Owner, Loads, Quiet, PCs, LockedPCs, TestPCs
<1>3. Ring
  BY <1>1, LenIsEnough DEF Init, Ring
<1>4. IInv
  BY <1>2, <1>3 DEF IInv
<1>5. \A u \in Threads : pc[u] \notin {"grow", "growtail", "growhead", "wrap"}
  BY DEF Init
<1>6. Length = 0
  BY <1>4, <1>5, Settled DEF Init
<1>7. Content \in Seq(Values \cup {Junk}) /\ Len(Content) = 0
  BY <1>4, <1>5, <1>6, Elements
<1> QED
  BY <1>4, <1>7, EmptySeq

\* A step keeps the invariant, and is a push, a pop or nothing to the queue.
LEMMA StepIInv == IInv /\ [Next]_vars => IInv' /\ [F!Next]_(F!vars)
<1> SUFFICES ASSUME IInv, [Next]_vars PROVE IInv' /\ [F!Next]_(F!vars)
  OBVIOUS
<1>1. ASSUME IInv' /\ Content' = Content /\ last' = last
      PROVE  IInv' /\ [F!Next]_(F!vars)
  BY <1>1 DEF F!vars
<1>2. CASE UNCHANGED vars
  <2>1. IInv'
    BY <1>2 DEF IInv, Types, OneOwner, Owner, Ring, Loads, Quiet, Growing, vars
  <2>2. Content' = Content /\ last' = last
    BY <1>2 DEF Content, First, Length, Growing, vars
  <2> QED
    BY <1>1, <2>1, <2>2
<1>3. ASSUME NEW t \in Threads,
             \/ CallPush(t) \/ CallPop(t) \/ CallEmpty(t) \/ LoadHead(t) \/ LoadTail(t)
             \/ Decide(t) \/ Return(t) \/ PushLock(t) \/ PopLock(t) \/ SpinUnlock(t)
             \/ GrowFirst(t) \/ GrowSecond(t) \/ Wrap(t)
      PROVE  IInv' /\ [F!Next]_(F!vars)
  BY <1>1, <1>3, TestSteps, LockStep, UnlockStep, GrowSteps, WrapStep
<1>4. ASSUME NEW t \in Threads, NEW v \in Values, Store(t, v)
      PROVE  IInv' /\ [F!Next]_(F!vars)
  <2>1. IInv' /\ Content' = Append(Content, v) /\ last' = last
    BY <1>4, StoreRoom, StoreFull
  <2> QED
    BY <2>1 DEF F!Next, F!Push
<1>5. ASSUME NEW t \in Threads, Take(t)
      PROVE  IInv' /\ [F!Next]_(F!vars)
  <2>1. CASE head = tail
    BY <1>1, <1>5, <2>1, TakeNone
  <2>2. CASE head # tail
    BY <1>5, <2>2, TakeOne DEF F!Next, F!Pop
  <2> QED
    BY <2>1, <2>2
<1> QED
  BY <1>2, <1>3, <1>4, <1>5 DEF Next

LEMMA AlwaysIInv == Spec => []IInv
BY InitIInv, StepIInv, PTL DEF Spec

\* Every variable of queue.c's ring has its type: between locked sections both
\* indices are inside the array.
THEOREM TypeCorrect == Spec => []TypeOK
<1>1. IInv => TypeOK
  BY DEF IInv, Types, Ring, TypeOK, Growing
<1> QED
  BY <1>1, AlwaysIInv, PTL

\* spin_lock and spin_unlock of queue.c keep the locked sections apart.
THEOREM MutualExclusion == Spec => []OneOwner
<1>1. IInv => OneOwner
  BY DEF IInv
<1> QED
  BY <1>1, AlwaysIInv, PTL

\* queue_empty, and the test queue_pop begins with, are right about the queue
\* although they do not take the lock, when no locked section overlaps them.
THEOREM QuietTestIsExact == Spec => []ExactWhenQuiet
<1>1. IInv => ExactWhenQuiet
  <2> SUFFICES ASSUME IInv, NEW t \in Threads, ~overlapped[t], pc[t] \in {"empty", "nonempty", "pop"}
               PROVE  IF pc[t] = "empty" THEN Content = <<>> ELSE Content # <<>>
    BY DEF ExactWhenQuiet
  <2>1. ~locked /\ (pc[t] = "empty" <=> head = tail)
    BY DEF IInv, Quiet, TestPCs
  <2>2. \A u \in Threads : pc[u] \notin {"grow", "growtail", "growhead", "wrap"}
    BY <2>1 DEF IInv, OneOwner, Owner, LockedPCs
  <2>3. Length = 0 <=> head = tail
    BY <2>2, Settled
  <2>4. Content \in Seq(Values \cup {Junk}) /\ Len(Content) = Length
    BY <2>2, Elements
  <2>5. Content = <<>> <=> Length = 0
    BY <2>4, EmptySeq
  <2> QED
    BY <2>1, <2>3, <2>5
<1> QED
  BY <1>1, AlwaysIInv, PTL

\* queue.c is a first-in first-out queue, whatever threads push and pop and
\* however often the ring wraps and grows.
THEOREM Refinement == Spec => Implements
<1>1. Init => F!Init
  BY InitIInv DEF Init, F!Init
<1> QED
  BY <1>1, StepIInv, AlwaysIInv, PTL DEF Spec, Implements, F!Spec

=============================================================================
