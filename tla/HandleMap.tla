----------------------------- MODULE HandleMap ------------------------------
(***************************************************************************)
(* src/ltask/handlemap.c: the table from numeric handles to reference      *)
(* counted objects behind every task and every channel.  Each action is    *)
(* one critical section of the map's lock (module RWLock shows what the    *)
(* lock gives): write sections run alone, and read sections overlap but    *)
(* touch a slot only by one atomic increment or decrement of its ref.      *)
(*                                                                         *)
(* The callers are those of schedule.c: a thread grabs a handle, uses the  *)
(* object, releases it; the owner releases its creation reference once.    *)
(***************************************************************************)
EXTENDS Integers, FiniteSets

CONSTANTS
  Threads,
  Objects,      \* addresses malloc may return for the objects (ud)
  NULL,         \* no object
  InitSlots,    \* INIT_SLOTS
  IdMod,        \* 2^w for the w-bit handleid
  LastIdLimit   \* bound of the runs on lastid; 2 * IdMod lets it wrap for ever

ASSUME ThreadsFinite == IsFiniteSet(Threads)
ASSUME NullIsNoObject == NULL \notin Objects
ASSUME SizesPositive == InitSlots \in Nat \ {0} /\ IdMod \in Nat \ {0} /\ LastIdLimit \in Nat

VARIABLES
  lastid, cap, n, slot,   \* struct handlemap
  at,      \* where each thread stands: idle, holding, deleting (see TryDelete)
  hid,     \* the handle a holding or deleting thread works on
  hud,     \* the object handlemap_grab gave it
  open,    \* handles whose creation reference was not released yet
  heap     \* objects allocated and not freed

vars == <<lastid, cap, n, slot, at, hid, hud, open, heap>>

Ids == 1 .. IdMod - 1

\* calloc: id 0 marks an empty slot.
EmptySlot == [id |-> 0, ref |-> 0, ud |-> NULL]

Init ==
  /\ lastid = 0
  /\ cap = InitSlots
  /\ n = 0
  /\ slot = [i \in 0 .. InitSlots - 1 |-> EmptySlot]
  /\ at = [t \in Threads |-> "idle"]
  /\ hid = [t \in Threads |-> 0]
  /\ hud = [t \in Threads |-> NULL]
  /\ open = {}
  /\ heap = {}

\* slot = &m->slot[id & (m->cap - 1)]; if (slot->id != id) ...
Found(id) == slot[id % cap].id = id

-----------------------------------------------------------------------------
(* handlemap_new *)

\* expand_map copies the old slots in order, the empty ones too: of all the old
\* slots whose id selects the new slot j the last one is what stays there.
LastCopied(j, i) ==
  /\ i \in 0 .. cap - 1 /\ slot[i].id % (2 * cap) = j
  /\ \A k \in 0 .. cap - 1 : slot[k].id % (2 * cap) = j => k <= i

\* Mutant: the copy keeps every live handle where it was.
ExpandedUnmoved ==
  [j \in 0 .. 2 * cap - 1 |-> IF j < cap THEN slot[j] ELSE EmptySlot]

Expanded ==
  [j \in 0 .. 2 * cap - 1 |->
     IF \E i \in 0 .. cap - 1 : LastCopied(j, i)
     THEN slot[CHOOSE i \in 0 .. cap - 1 : LastCopied(j, i)]
     ELSE EmptySlot]

\* Mutant: the map expands too late.
NeedsExpansionLate == n > cap

\* m->n >= m->cap * 3 / 4
NeedsExpansion == n >= (cap * 3) \div 4

\* The k-th value of ++m->lastid, which skips 0 when it wraps.
Candidate(k) ==
  IF lastid + k < IdMod THEN lastid + k ELSE lastid + k - IdMod + 1

\* The slot array and its size when the search for a free slot begins.
Table == IF NeedsExpansion THEN Expanded ELSE slot
TableCap == IF NeedsExpansion THEN 2 * cap ELSE cap

New(t, o) ==
  /\ at[t] = "idle"
  /\ o \in Objects \ heap
  /\ \E k \in 1 .. TableCap + 1 :
       /\ lastid + k <= LastIdLimit
       /\ Table[Candidate(k) % TableCap].id = 0
       /\ \A j \in 1 .. k - 1 : Table[Candidate(j) % TableCap].id # 0
       /\ lastid' = Candidate(k)
       /\ slot' = [Table EXCEPT ![Candidate(k) % TableCap] =
                                  [id |-> Candidate(k), ref |-> 1, ud |-> o]]
       /\ open' = open \cup {[id |-> Candidate(k), ud |-> o]}
  /\ cap' = TableCap
  /\ n' = n + 1
  /\ heap' = heap \cup {o}
  /\ UNCHANGED <<at, hid, hud>>

\* The calloc of expand_map fails: handlemap_new returns 0, the map as it was.
NewFails(t) == at[t] = "idle" /\ NeedsExpansion /\ UNCHANGED vars

-----------------------------------------------------------------------------
(* handlemap_grab *)

\* Mutant: the grab takes no reference.
GrabUncounted(t, id) ==
  /\ at[t] = "idle"
  /\ Found(id)
  /\ at' = [at EXCEPT ![t] = "holding"]
  /\ hid' = [hid EXCEPT ![t] = id]
  /\ hud' = [hud EXCEPT ![t] = slot[id % cap].ud]
  /\ UNCHANGED <<lastid, cap, n, slot, open, heap>>

Grab(t, id) ==
  /\ at[t] = "idle"
  /\ Found(id)
  /\ slot' = [slot EXCEPT ![id % cap].ref = @ + 1]
  /\ at' = [at EXCEPT ![t] = "holding"]
  /\ hid' = [hid EXCEPT ![t] = id]
  /\ hud' = [hud EXCEPT ![t] = slot[id % cap].ud]
  /\ UNCHANGED <<lastid, cap, n, open, heap>>

\* A stale handle gives NULL.
GrabMiss(t, id) == at[t] = "idle" /\ ~Found(id) /\ UNCHANGED vars

-----------------------------------------------------------------------------
(* handlemap_release = release_ref, then try_delete when the count fell to 0 *)

GoIdle(t) ==
  /\ at' = [at EXCEPT ![t] = "idle"]
  /\ hid' = [hid EXCEPT ![t] = 0]
  /\ hud' = [hud EXCEPT ![t] = NULL]

GoDelete(t, id) ==
  /\ at' = [at EXCEPT ![t] = "deleting"]
  /\ hid' = [hid EXCEPT ![t] = id]
  /\ hud' = [hud EXCEPT ![t] = NULL]

\* Mutant: the last reference is not seen as the last.
ReleaseRefLate(t, id) ==
  /\ IF Found(id)
     THEN /\ slot' = [slot EXCEPT ![id % cap].ref = @ - 1]
          /\ IF slot[id % cap].ref < 1 THEN GoDelete(t, id) ELSE GoIdle(t)
     ELSE GoIdle(t) /\ UNCHANGED slot
  /\ UNCHANGED <<lastid, cap, n, heap>>

\* release_ref: atom_dec(&slot->ref) <= 0 sends the caller on to try_delete.
ReleaseRef(t, id) ==
  /\ IF Found(id)
     THEN /\ slot' = [slot EXCEPT ![id % cap].ref = @ - 1]
          /\ IF slot[id % cap].ref <= 1 THEN GoDelete(t, id) ELSE GoIdle(t)
     ELSE GoIdle(t) /\ UNCHANGED slot
  /\ UNCHANGED <<lastid, cap, n, heap>>

\* The holder gives its reference back.
Release(t) ==
  /\ at[t] = "holding"
  /\ ReleaseRef(t, hid[t])
  /\ UNCHANGED open

\* schedule_closetask, schedule_closechannel: the creation reference, once.
Close(t, h) ==
  /\ at[t] = "idle"
  /\ h \in open
  /\ ReleaseRef(t, h.id)
  /\ open' = open \ {h}

\* Mutant: the object is deleted although it was grabbed again meanwhile.
TryDeleteBlind(t) ==
  /\ at[t] = "deleting"
  /\ GoIdle(t)
  /\ IF Found(hid[t])
     THEN /\ slot' = [slot EXCEPT ![hid[t] % cap].id = 0]
          /\ n' = n - 1
          /\ heap' = heap \ {slot[hid[t] % cap].ud}
     ELSE UNCHANGED <<slot, n, heap>>
  /\ UNCHANGED <<lastid, cap, open>>

\* try_delete in the write section: another thread may have grabbed the handle
\* or deleted it since release_ref.  The caller frees the object returned.
TryDelete(t) ==
  /\ at[t] = "deleting"
  /\ GoIdle(t)
  /\ IF Found(hid[t]) /\ ~(slot[hid[t] % cap].ref > 0)
     THEN /\ slot' = [slot EXCEPT ![hid[t] % cap].id = 0]
          /\ n' = n - 1
          /\ heap' = heap \ {slot[hid[t] % cap].ud}
     ELSE UNCHANGED <<slot, n, heap>>
  /\ UNCHANGED <<lastid, cap, open>>

-----------------------------------------------------------------------------

Next ==
  \E t \in Threads :
    \/ \E o \in Objects : New(t, o)
    \/ NewFails(t)
    \/ \E id \in Ids : Grab(t, id) \/ GrabMiss(t, id)
    \/ Release(t)
    \/ \E h \in open : Close(t, h)
    \/ TryDelete(t)

Spec == Init /\ [][Next]_vars

-----------------------------------------------------------------------------
(* Correctness *)

Occupied == {i \in 0 .. cap - 1 : slot[i].id # 0}
Holders(id) == {t \in Threads : at[t] = "holding" /\ hid[t] = id}
OpenIds == {h.id : h \in open}

\* The map's fields, the threads' places and the ghosts stay in their ranges,
\* and an occupied slot is where its id selects it.
TypeOK ==
  /\ lastid \in 0 .. IdMod - 1
  /\ cap \in Nat \ {0}
  /\ n \in Int
  /\ slot \in [0 .. cap - 1 -> [id : Nat, ref : Int, ud : Objects \cup {NULL}]]
  /\ \A i \in Occupied : slot[i].id % cap = i /\ slot[i].ud \in Objects
  /\ at \in [Threads -> {"idle", "holding", "deleting"}]
  /\ hid \in [Threads -> Nat]
  /\ hud \in [Threads -> Objects \cup {NULL}]
  /\ open \subseteq [id : Nat, ud : Objects]
  /\ heap \subseteq Objects

\* No use after free: the object behind an open handle and the object a thread
\* holds are allocated, whatever releases and deletions run meanwhile.
NoUseAfterFree ==
  /\ \A h \in open : h.ud \in heap
  /\ \A t \in Threads : at[t] = "holding" => hud[t] \in heap

\* The count of a findable handle is the creation reference plus the threads
\* that hold it, so the decrement to 0 is the last one.
RefCount ==
  \A i \in Occupied :
    slot[i].ref = (IF slot[i].id \in OpenIds THEN 1 ELSE 0)
                    + Cardinality(Holders(slot[i].id))

\* No leak: a handle whose count fell to 0 still has a thread on its way to
\* try_delete it, also when a grab revived it and went away again.
Reclaimed ==
  \A i \in Occupied :
    slot[i].ref <= 0 => \E t \in Threads : at[t] = "deleting" /\ hid[t] = slot[i].id

\* handlemap_new finds a free slot: its loop, under the write lock, ends.
SlotAvailable == Occupied # 0 .. cap - 1

\* Every handle handed out and not closed is found, and gives its own object:
\* 0 alone is the invalid id (comment at handlemap.c:110).
LiveHandlesFound ==
  \A h \in open : Found(h.id) /\ slot[h.id % cap].ud = h.ud

=============================================================================
