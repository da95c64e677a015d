------------------------------- MODULE Queue --------------------------------
(***************************************************************************)
(* src/ltask/queue.c: the ring buffer behind every run queue, message      *)
(* queue and reader queue.  Changes are made under the spin lock q->lock,  *)
(* but queue_empty and the first test of queue_pop read head and tail      *)
(* without it, so each store to head or tail is a step of its own.  C does *)
(* not order the two loads of the unlocked test, nor the two stores of an  *)
(* expansion: both orders are modelled.                                    *)
(***************************************************************************)
EXTENDS Integers, Sequences, FiniteSets

CONSTANTS
  Threads,
  Values,       \* the pointers pushed
  Junk,         \* the content of fresh memory
  DefaultLen,   \* DEFAULT_LEN
  MaxItems      \* bound of the runs on the elements in the queue

ASSUME LenIsEnough == DefaultLen \in Nat /\ DefaultLen >= 2
ASSUME JunkIsNoValue == Junk \notin Values

VARIABLES
  locked,               \* q->lock
  n, head, tail, data,  \* struct queue
  pc,                   \* where each thread stands in push, pop or empty
  sawHead, sawTail,     \* what its unlocked test has loaded, or Unread
  last,                 \* ghost: what the last successful pop returned
  overlapped            \* ghost: another thread was in a locked section at
                        \* some moment of this unlocked test

vars == <<locked, n, head, tail, data, pc, sawHead, sawTail, last, overlapped>>
ring == <<n, head, tail, data>>
test == <<sawHead, sawTail, overlapped>>

Unread == -1

Init ==
  /\ locked = FALSE
  /\ n = DefaultLen /\ head = 0 /\ tail = 0
  /\ data = [i \in 0 .. DefaultLen - 1 |-> Junk]
  /\ pc = [t \in Threads |-> "out"]
  /\ sawHead = [t \in Threads |-> Unread]
  /\ sawTail = [t \in Threads |-> Unread]
  /\ last = <<>>
  /\ overlapped = [t \in Threads |-> FALSE]

Goto(t, from, to) == pc[t] = from /\ pc' = [pc EXCEPT ![t] = to]

TestPCs == {"poptest", "emptytest", "empty", "nonempty", "pop"}

\* spin_lock, which overlaps every unlocked test under way.
SpinLock(t, from, to) ==
  /\ Goto(t, from, to)
  /\ ~locked /\ locked' = TRUE
  /\ overlapped' = [u \in Threads |-> u # t /\ pc[u] \in TestPCs]
  /\ UNCHANGED <<ring, sawHead, sawTail, last>>

SpinUnlock(t) ==
  /\ Goto(t, "unlock", "out")
  /\ locked' = FALSE
  /\ UNCHANGED <<ring, test, last>>

-----------------------------------------------------------------------------
(* What the ring holds, also between the stores of a locked section *)

\* The owner of the lock is between data = larger array and the last store.
Growing == \E t \in Threads : pc[t] \in {"grow", "growtail", "growhead"}

First == IF Growing \/ head = n THEN 0 ELSE head
Length == IF Growing THEN n ELSE (tail - First) % n
Content == [i \in 1 .. Length |-> data[(First + i - 1) % (IF Growing THEN 2 * n ELSE n)]]

-----------------------------------------------------------------------------
(* queue_push *)

\* The bound leaves room for every push under way.
CallPush(t) ==
  /\ Length + Cardinality({u \in Threads : pc[u] \in {"push", "store"}}) < MaxItems
  /\ Goto(t, "out", "push")
  /\ UNCHANGED <<locked, ring, test, last>>

PushLock(t) == SpinLock(t, "push", "store")

\* Mutant: tail does not wrap before it has run one past the array.
NextTailLate == IF tail >= n THEN 0 ELSE tail + 1

NextTail == IF tail + 1 >= n THEN 0 ELSE tail + 1

\* Mutant: the copy to the larger array starts at index 0, not at head.
LargerUnrotated(v) ==
  [i \in 0 .. 2 * n - 1 |-> IF i < n THEN [data EXCEPT ![tail] = v][i] ELSE Junk]

\* The new array: the full ring from head on, then fresh memory.
Larger(v) ==
  [i \in 0 .. 2 * n - 1 |-> IF i < n THEN [data EXCEPT ![tail] = v][(head + i) % n] ELSE Junk]

\* data[tail] = ud; then tail moves on, or the ring is full and is replaced.
Store(t, v) ==
  /\ \/ /\ NextTail # head
        /\ Goto(t, "store", "unlock")
        /\ data' = [data EXCEPT ![tail] = v]
        /\ tail' = NextTail
     \/ /\ NextTail = head
        /\ Goto(t, "store", "grow")
        /\ data' = Larger(v)
        /\ UNCHANGED tail
  /\ UNCHANGED <<locked, n, head, test, last>>

\* q->head = 0 and q->tail = q->n, one after the other; n, which no unlocked
\* test reads, is doubled with the second.
GrowFirst(t) ==
  /\ \/ Goto(t, "grow", "growtail") /\ head' = 0 /\ UNCHANGED tail
     \/ Goto(t, "grow", "growhead") /\ tail' = n /\ UNCHANGED head
  /\ UNCHANGED <<locked, n, data, test, last>>

GrowSecond(t) ==
  /\ \/ Goto(t, "growtail", "unlock") /\ tail' = n /\ UNCHANGED head
     \/ Goto(t, "growhead", "unlock") /\ head' = 0 /\ UNCHANGED tail
  /\ n' = 2 * n
  /\ UNCHANGED <<locked, data, test, last>>

-----------------------------------------------------------------------------
(* queue_empty, and the unlocked test that begins queue_pop *)

Call(t, from) ==
  /\ Goto(t, "out", from)
  /\ overlapped' = [overlapped EXCEPT ![t] = locked]
  /\ UNCHANGED <<locked, ring, sawHead, sawTail, last>>

CallPop(t) == Call(t, "poptest")
CallEmpty(t) == Call(t, "emptytest")

LoadHead(t) ==
  /\ pc[t] \in {"poptest", "emptytest"} /\ sawHead[t] = Unread
  /\ sawHead' = [sawHead EXCEPT ![t] = head]
  /\ UNCHANGED <<locked, ring, pc, sawTail, last, overlapped>>

LoadTail(t) ==
  /\ pc[t] \in {"poptest", "emptytest"} /\ sawTail[t] = Unread
  /\ sawTail' = [sawTail EXCEPT ![t] = tail]
  /\ UNCHANGED <<locked, ring, pc, sawHead, last, overlapped>>

\* head == tail: pop returns NULL, empty returns true; else pop goes for the lock.
Decide(t) ==
  /\ sawHead[t] # Unread /\ sawTail[t] # Unread
  /\ \/ sawHead[t] = sawTail[t] /\ (Goto(t, "poptest", "empty") \/ Goto(t, "emptytest", "empty"))
     \/ sawHead[t] # sawTail[t] /\ Goto(t, "emptytest", "nonempty")
     \/ sawHead[t] # sawTail[t] /\ Goto(t, "poptest", "pop")
  /\ sawHead' = [sawHead EXCEPT ![t] = Unread]
  /\ sawTail' = [sawTail EXCEPT ![t] = Unread]
  /\ UNCHANGED <<locked, ring, last, overlapped>>

Return(t) ==
  /\ Goto(t, "empty", "out") \/ Goto(t, "nonempty", "out")
  /\ overlapped' = [overlapped EXCEPT ![t] = FALSE]
  /\ UNCHANGED <<locked, ring, sawHead, sawTail, last>>

-----------------------------------------------------------------------------
(* queue_pop under the lock *)

PopLock(t) == SpinLock(t, "pop", "take")

\* The second test; then ret = data[head] and ++head, which may become n.
Take(t) ==
  /\ \/ /\ head # tail
        /\ Goto(t, "take", IF head + 1 = n THEN "wrap" ELSE "unlock")
        /\ last' = <<data[head]>>
        /\ head' = head + 1
     \/ /\ head = tail
        /\ Goto(t, "take", "unlock")
        /\ UNCHANGED <<head, last>>
  /\ UNCHANGED <<locked, n, tail, data, test>>

\* Mutant: head stays one past the array.
WrapForgotten(t) == Goto(t, "wrap", "unlock") /\ UNCHANGED <<locked, ring, test, last>>

Wrap(t) ==
  /\ Goto(t, "wrap", "unlock")
  /\ head' = 0
  /\ UNCHANGED <<locked, n, tail, data, test, last>>

-----------------------------------------------------------------------------

Next ==
  \E t \in Threads :
    \/ CallPush(t) \/ PushLock(t) \/ GrowFirst(t) \/ GrowSecond(t)
    \/ \E v \in Values : Store(t, v)
    \/ CallPop(t) \/ CallEmpty(t) \/ LoadHead(t) \/ LoadTail(t) \/ Decide(t) \/ Return(t)
    \/ PopLock(t) \/ Take(t) \/ Wrap(t)
    \/ SpinUnlock(t)

Spec == Init /\ [][Next]_vars

-----------------------------------------------------------------------------
(* Correctness *)

LockedPCs == {"store", "grow", "growtail", "growhead", "take", "wrap", "unlock"}
PCs == {"out", "push", "poptest", "emptytest", "pop", "empty", "nonempty"} \cup LockedPCs

\* Outside locked sections both indices are inside the array; head may be n
\* only between ++q->head and its wrap.
TypeOK ==
  /\ locked \in BOOLEAN
  /\ n \in Nat /\ tail \in 0 .. n /\ (tail = n => Growing)
  /\ head \in 0 .. n /\ (head = n => \E t \in Threads : pc[t] = "wrap")
  /\ data \in [0 .. (IF Growing THEN 2 * n ELSE n) - 1 -> Values \cup {Junk}]
  /\ pc \in [Threads -> PCs]
  /\ sawHead \in [Threads -> Nat \cup {Unread}]
  /\ sawTail \in [Threads -> Nat \cup {Unread}]
  /\ overlapped \in [Threads -> BOOLEAN]

\* The unlocked test is exact when no locked section overlaps it.  (When one
\* does, it may say empty of a queue that is never empty: a pop or an expansion
\* between its two loads makes them equal.)
ExactWhenQuiet ==
  \A t \in Threads :
    ~overlapped[t] =>
      /\ pc[t] = "empty" => Content = <<>>
      /\ pc[t] \in {"nonempty", "pop"} => Content # <<>>

\* The ring is a first-in first-out queue: nothing is lost, duplicated or
\* reordered by wrapping, by growing or by the tests made without the lock.
F == INSTANCE Fifo WITH items <- Content

Implements == F!Spec

=============================================================================
