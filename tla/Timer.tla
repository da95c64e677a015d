------------------------------- MODULE Timer -------------------------------
(***************************************************************************)
(* src/timer/timer.c: the timer events of a client in a binary heap on     *)
(* their deadlines.  The heap is a sequence: C's heap[k] is heap[k + 1].   *)
(*                                                                         *)
(* One thread runs the timer, so the steps interleave only with callbacks: *)
(* a callback may add and delete events of the heap timer_update is in the *)
(* middle of.  Each loop iteration of the two sift functions is a step;    *)
(* siftdown is shown swapping, which is what its moves amount to since     *)
(* nobody looks at the heap in between.  The struct of an event that left  *)
(* the heap is its client's again, and the model forgets its fields.       *)
(***************************************************************************)
EXTENDS Integers, Sequences, FiniteSets

CONSTANTS Events,    \* the timer events of the client
          Period,    \* [Events -> Nat]: 0 for an event that fires once
          Times,     \* the deadlines and clock readings the client uses
          TimeMod,   \* deadlines are unsigned int: 2^32 in the code
          Cap,       \* the entries timer_init allocates: 32 in the code
          PtrSize,   \* bytes of an entry: 8 in the code
          Off

ASSUME EventsFinite == IsFiniteSet(Events) /\ Off \notin Nat
ASSUME PeriodNat == Period \in [Events -> Nat]
\* The client stays away from the end of the clock's range.
ASSUME TimesInRange ==
  /\ Times \subseteq Nat /\ 0 \in Times /\ TimeMod \in Nat
  /\ \A t \in Times, e \in Events : t + Period[e] < TimeMod
ASSUME SizesPositive == Cap \in Nat \ {0} /\ PtrSize \in Nat \ {0}

VARIABLES heap,      \* t->heap[0 .. size - 1], a sequence of events
          room,      \* entries the memory behind t->heap really has
          cap,       \* t->cap
          when,      \* ev->when of the events in the heap
          at,        \* ev->i of the events in the heap
          now,       \* the argument of the last timer_update
          phase,     \* "idle", "update", "callback", or "overrun"
          sift,      \* "none", "up", or "down": a sift loop is running
          pos,       \* the loop's index
          hole       \* where siftdown starts after siftup, -1 if it does not

vars == <<heap, room, cap, when, at, now, phase, sift, pos, hole>>

size == Len(heap)
Armed == DOMAIN when
WhenAt(k) == when[heap[k + 1]]
Parent(k) == (k - 1) \div 2

\* timer_init
Init ==
  /\ heap = <<>> /\ room = Cap /\ cap = Cap
  /\ when = <<>> /\ at = <<>>
  /\ now = 0 /\ phase = "idle"
  /\ sift = "none" /\ pos = 0 /\ hole = -1

\* A client calls the timer when no call is running, or from a callback.
ClientTurn == phase \in {"idle", "callback"} /\ sift = "none"

\* The fields f of the events in S alone.
Only(f, S) == [e \in S |-> f[e]]

\* Mutant: the event that moves up is not told its index.
SwapUntold(j, k) ==
  /\ heap' = [heap EXCEPT ![j + 1] = heap[k + 1], ![k + 1] = heap[j + 1]]
  /\ at' = [at EXCEPT ![heap[k + 1]] = j]

\* heap[j] and heap[k] change places and learn their new indices.
Swap(j, k) ==
  /\ heap' = [heap EXCEPT ![j + 1] = heap[k + 1], ![k + 1] = heap[j + 1]]
  /\ at' = [at EXCEPT ![heap[k + 1]] = j, ![heap[j + 1]] = k]

\* One iteration of timer_siftup; timer_del sifts down from the hole after it.
SiftUp ==
  /\ sift = "up"
  /\ IF pos > 0 /\ WhenAt(pos) < WhenAt(Parent(pos))
     THEN /\ Swap(pos, Parent(pos))
          /\ pos' = Parent(pos)
          /\ UNCHANGED <<sift, hole>>
     ELSE /\ UNCHANGED <<heap, at>>
          /\ IF hole = -1
             THEN sift' = "none" /\ pos' = 0 /\ hole' = hole
             ELSE sift' = "down" /\ pos' = hole /\ hole' = -1
  /\ UNCHANGED <<room, cap, when, now, phase>>

\* Mutant: the left child is always the one compared with.
ChildToMoveLeft(k) ==
  IF 2 * k + 1 < size /\ WhenAt(2 * k + 1) < WhenAt(k) THEN 2 * k + 1 ELSE -1

\* The child timer_siftdown compares with, -1 when there is none to move to.
Left(k) == 2 * k + 1
Right(k) == 2 * (k + 1)
ChildToMove(k) ==
  IF Right(k) < size
  THEN LET smaller == IF WhenAt(Left(k)) < WhenAt(Right(k)) THEN Left(k) ELSE Right(k)
       IN  IF WhenAt(k) < WhenAt(smaller) THEN -1 ELSE smaller
  ELSE IF Left(k) < size /\ WhenAt(Left(k)) < WhenAt(k) THEN Left(k) ELSE -1

\* One iteration of timer_siftdown, or its end.
SiftDown ==
  /\ sift = "down"
  /\ IF ChildToMove(pos) # -1
     THEN Swap(pos, ChildToMove(pos)) /\ pos' = ChildToMove(pos) /\ sift' = sift
     ELSE sift' = "none" /\ pos' = 0 /\ UNCHANGED <<heap, at>>
  /\ UNCHANGED <<room, cap, when, now, phase, hole>>

\* Sifting starts at k; hole is where siftdown goes on.
StartSift(dir, k, h) == sift' = dir /\ pos' = k /\ hole' = h
NoSift == UNCHANGED <<sift, pos, hole>>

\* timer_add.  A full heap doubles cap, but realloc gets cap bytes, not cap
\* entries; writing the new entry behind that memory is undefined, and the
\* model stops there.
Add(e, w) ==
  /\ ClientTurn /\ e \notin Armed
  /\ cap' = IF size >= cap THEN 2 * cap ELSE cap
  /\ room' = IF size >= cap THEN cap' \div PtrSize ELSE room
  /\ heap' = Append(heap, e)
  /\ when' = [f \in Armed \cup {e} |-> IF f = e THEN w ELSE when[f]]
  /\ at' = [f \in Armed \cup {e} |-> IF f = e THEN size ELSE at[f]]
  /\ phase' = IF size < room' THEN phase ELSE "overrun"
  /\ StartSift("up", size, -1)
  /\ UNCHANGED now

\* The last event moves into slot i and the heap shrinks by one.
Remove(e, i) ==
  LET last == heap[size]
  IN  /\ heap' = SubSeq([heap EXCEPT ![i + 1] = last], 1, size - 1)
      /\ at' = Only([at EXCEPT ![last] = i], Armed \ {e})
      /\ when' = Only(when, Armed \ {e})

\* Mutant: the replacement is only ever sifted down.
DelDownOnly(e) ==
  /\ ClientTurn /\ e \in Armed
  /\ Remove(e, at[e])
  /\ IF at[e] # size - 1 THEN StartSift("down", at[e], -1) ELSE NoSift
  /\ UNCHANGED <<room, cap, now, phase>>

\* timer_del
Del(e) ==
  /\ ClientTurn /\ e \in Armed
  /\ Remove(e, at[e])
  /\ IF at[e] # size - 1 THEN StartSift("up", at[e], at[e]) ELSE NoSift
  /\ UNCHANGED <<room, cap, now, phase>>

\* The event timer_latest returns, the top of the heap, is due.
Due == size > 0 /\ WhenAt(0) <= now

\* timer_update is called ...
Update(t) ==
  /\ phase = "idle" /\ sift = "none"
  /\ now' = t /\ phase' = "update"
  /\ UNCHANGED <<heap, room, cap, when, at>> /\ NoSift

\* ... and returns when no event is due.
Finish ==
  /\ phase = "update" /\ sift = "none"
  /\ ~Due
  /\ phase' = "idle"
  /\ UNCHANGED <<heap, room, cap, when, at, now>> /\ NoSift

\* Mutant: the ticker keeps its deadline.
FireTickerAgain(e) ==
  /\ Period[e] > 0
  /\ StartSift("down", 0, -1)
  /\ UNCHANGED <<heap, at, when>>

\* A ticker that is due gets its next deadline and sinks.
FireTicker(e) ==
  /\ Period[e] > 0
  /\ when' = [when EXCEPT ![e] = (when[e] + Period[e]) % TimeMod]
  /\ StartSift("down", 0, -1)
  /\ UNCHANGED <<heap, at>>

\* Any other event that is due leaves the heap.
FireOnce(e) ==
  /\ Period[e] = 0
  /\ Remove(e, 0)
  /\ IF size > 1 THEN StartSift("down", 0, -1) ELSE NoSift

\* One iteration of timer_update: the top event's callback is called.
Fire ==
  /\ phase = "update" /\ sift = "none"
  /\ Due
  /\ FireTicker(heap[1]) \/ FireOnce(heap[1])
  /\ phase' = "callback"
  /\ UNCHANGED <<room, cap, now>>

\* The callback returns into timer_update's loop.
Return ==
  /\ phase = "callback" /\ sift = "none"
  /\ phase' = "update"
  /\ UNCHANGED <<heap, room, cap, when, at, now>> /\ NoSift

Next ==
  \/ \E e \in Events : (\E w \in Times : Add(e, w)) \/ Del(e)
  \/ \E t \in Times : Update(t)
  \/ Fire \/ Finish \/ Return \/ SiftUp \/ SiftDown

\* timer_update runs on once called, and a callback returns after finitely
\* many calls of timer_add and timer_del.
Fairness == WF_vars(Fire \/ Finish \/ SiftUp \/ SiftDown) /\ SF_vars(Return)

Spec == Init /\ [][Next]_vars /\ Fairness

-----------------------------------------------------------------------------
\* The heap holds exactly the armed events, each at the index it knows: the
\* index is all timer_del has to find it by.
TypeOK ==
  /\ Armed \subseteq Events /\ DOMAIN at = Armed
  /\ heap \in Seq(Armed)
  /\ \A e \in Armed : when[e] \in 0 .. TimeMod - 1
  /\ now \in Times
  /\ phase \in {"idle", "update", "callback", "overrun"}
  /\ sift \in {"none", "up", "down"}
  /\ sift # "none" => pos \in 0 .. size - 1
  /\ hole \in -1 .. size - 1

\* Every armed event is where its ev->i says, through every move of the two
\* sift loops: a wrong index makes a later timer_del remove someone else.
IndexExact ==
  /\ \A e \in Armed : at[e] \in 0 .. size - 1 /\ heap[at[e] + 1] = e
  /\ \A k \in 0 .. size - 1 : heap[k + 1] \in Armed /\ at[heap[k + 1]] = k

\* Outside the sift loops no event is earlier than its parent, so the top is
\* the earliest; timer_del may have to move the replacement either way.
HeapOrdered ==
  sift = "none" => \A k \in 1 .. size - 1 : WhenAt(Parent(k)) <= WhenAt(k)

\* As long as no more than Cap events are armed, timer_add writes only inside
\* the array it allocated.
NoOverrun == phase # "overrun"

\* The heap implements the promise: only an earliest due event fires, nothing
\* due is left when timer_update returns, whatever the callbacks add or delete.
AT == INSTANCE ArmedTimers WITH
        due <- [e \in Events |-> IF e \in Armed THEN when[e] ELSE Off]
Implements == AT!Spec

\* A callback arms an event that is due at once.
AddsDue == phase = "callback" /\ \E e \in Events, w \in Times : w <= now /\ Add(e, w)

\* timer_update returns each time, unless callbacks go on for ever adding
\* events that are already due.
UpdateEnds == []<><<AddsDue>>_vars \/ (phase = "update" ~> phase = "idle")
=============================================================================
