--------------------------- MODULE HandleMapProofs --------------------------
(***************************************************************************)
(* Proofs about the handle map: as long as the handle ids do not wrap, for *)
(* any number of threads, objects and slots, the count of a handle is      *)
(* exact and no object is freed while somebody may use it.                 *)
(***************************************************************************)
EXTENDS HandleMap, FiniteSetTheorems, TLAPS

\* The (handle, object) pairs somebody still knows: the owners of the open
\* handles, the threads that hold one, and the map itself.
Slotted == {[id |-> slot[i].id, ud |-> slot[i].ud] : i \in Occupied}
Held == {[id |-> hid[t], ud |-> hud[t]] : t \in {u \in Threads : at[u] = "holding"}}
Known == open \cup Held \cup Slotted

\* Whatever is known was issued and is allocated.
KnownSane == \A p \in Known : p.id \in 1 .. lastid /\ p.ud \in heap

\* A handle stands for one object and an object has one handle.
KnownUnique == \A p, q \in Known : p.id = q.id <=> p.ud = q.ud

\* A thread on its way to try_delete works on a real handle, not on id 0.
DeletingIssued == \A t \in Threads : at[t] = "deleting" => hid[t] # 0

IInv == TypeOK /\ RefCount /\ KnownSane /\ KnownUnique /\ DeletingIssued

-----------------------------------------------------------------------------
(* What the operators of the model do *)

\* An id selects a slot of the map.
LEMMA ModRange ==
  ASSUME NEW a \in Nat, NEW b \in Nat \ {0}
  PROVE  a % b \in 0 .. b - 1
  OBVIOUS

\* A handle that is found has an occupied slot of its own.
LEMMA FoundSlot ==
  ASSUME TypeOK, NEW id \in Nat \ {0}, Found(id)
  PROVE  /\ id % cap \in Occupied
         /\ slot[id % cap].id = id
         /\ \A j \in Occupied : slot[j].id = id => j = id % cap
<1>1. id % cap \in 0 .. cap - 1
  BY ModRange DEF TypeOK
<1> QED
  BY <1>1 DEF Found, Occupied, TypeOK

\* Changing the count of an occupied slot changes neither what the map holds
\* nor where.
LEMMA CountChanged ==
  ASSUME TypeOK, NEW i \in Occupied, NEW r \in Int,
         slot' = [slot EXCEPT ![i].ref = r], cap' = cap
  PROVE  /\ slot' \in [0 .. cap - 1 -> [id : Nat, ref : Int, ud : Objects \cup {NULL}]]
         /\ Occupied' = Occupied
         /\ Slotted' = Slotted
         /\ \A j \in Occupied : /\ slot'[j].id = slot[j].id
                                /\ slot'[j].ud = slot[j].ud
                                /\ slot'[j].ref = IF j = i THEN r ELSE slot[j].ref
<1>1. i \in 0 .. cap - 1
  BY DEF Occupied
<1>2. slot' \in [0 .. cap - 1 -> [id : Nat, ref : Int, ud : Objects \cup {NULL}]]
  <2> DEFINE Slots == [id : Nat, ref : Int, ud : Objects \cup {NULL}]
  <2>1. slot \in [0 .. cap - 1 -> Slots]
    BY DEF TypeOK
  <2>2. [slot[i] EXCEPT !.ref = r] \in Slots
    BY <1>1, <2>1
  <2>3. slot' = [slot EXCEPT ![i] = [slot[i] EXCEPT !.ref = r]]
    OBVIOUS
  <2> HIDE DEF Slots
  <2>4. slot' \in [0 .. cap - 1 -> Slots]
    BY <1>1, <2>1, <2>2, <2>3
  <2> QED
    BY <2>4 DEF Slots
<1>3. \A j \in 0 .. cap - 1 : /\ slot'[j].id = slot[j].id
                              /\ slot'[j].ud = slot[j].ud
                              /\ slot'[j].ref = IF j = i THEN r ELSE slot[j].ref
  BY <1>1 DEF TypeOK
<1>4. Occupied' = Occupied
  BY <1>3 DEF Occupied
<1>5. Slotted' = Slotted
  BY <1>3, <1>4 DEF Slotted, Occupied
<1> QED
  BY <1>2, <1>3, <1>4, <1>5 DEF Occupied

\* Clearing the id of an occupied slot empties that slot alone.
LEMMA SlotEmptied ==
  ASSUME TypeOK, NEW i \in Occupied, slot' = [slot EXCEPT ![i].id = 0], cap' = cap
  PROVE  /\ slot' \in [0 .. cap - 1 -> [id : Nat, ref : Int, ud : Objects \cup {NULL}]]
         /\ \A j \in 0 .. cap - 1 : slot'[j].id = IF j = i THEN 0 ELSE slot[j].id
         /\ \A j \in 0 .. cap - 1 : slot'[j].ud = slot[j].ud /\ slot'[j].ref = slot[j].ref
         /\ Occupied' = Occupied \ {i}
<1> DEFINE Slots == [id : Nat, ref : Int, ud : Objects \cup {NULL}]
<1>1. i \in 0 .. cap - 1 /\ slot \in [0 .. cap - 1 -> Slots]
  BY DEF Occupied, TypeOK
<1>2. [slot[i] EXCEPT !.id = 0] \in Slots
  BY <1>1
<1>3. slot' = [slot EXCEPT ![i] = [slot[i] EXCEPT !.id = 0]]
  OBVIOUS
<1>4. \A j \in 0 .. cap - 1 : /\ slot'[j].id = IF j = i THEN 0 ELSE slot[j].id
                              /\ slot'[j].ud = slot[j].ud
                              /\ slot'[j].ref = slot[j].ref
  BY <1>1
<1> HIDE DEF Slots
<1>5. slot' \in [0 .. cap - 1 -> Slots]
  BY <1>1, <1>2, <1>3
<1>6. Occupied' = Occupied \ {i}
  BY <1>4 DEF Occupied
<1> QED
  BY <1>4, <1>5, <1>6 DEF Slots

\* A thread that takes hold of a handle joins the holders of that handle.
LEMMA ThreadHolds ==
  ASSUME TypeOK, NEW t \in Threads, NEW id \in Nat, NEW o \in Objects, at[t] # "holding",
         at' = [at EXCEPT ![t] = "holding"], hid' = [hid EXCEPT ![t] = id],
         hud' = [hud EXCEPT ![t] = o]
  PROVE  /\ at' \in [Threads -> {"idle", "holding", "deleting"}]
         /\ hid' \in [Threads -> Nat]
         /\ hud' \in [Threads -> Objects \cup {NULL}]
         /\ \A x : t \notin Holders(x)
         /\ Holders(id)' = Holders(id) \cup {t}
         /\ \A x : x # id => Holders(x)' = Holders(x)
         /\ Held' \subseteq Held \cup {[id |-> id, ud |-> o]}
<1>1. /\ at' \in [Threads -> {"idle", "holding", "deleting"}]
      /\ hid' \in [Threads -> Nat]
      /\ hud' \in [Threads -> Objects \cup {NULL}]
  BY DEF TypeOK
<1>2. \A u \in Threads : /\ at'[u] = IF u = t THEN "holding" ELSE at[u]
                         /\ hid'[u] = IF u = t THEN id ELSE hid[u]
                         /\ hud'[u] = IF u = t THEN o ELSE hud[u]
  BY DEF TypeOK
<1>3. \A x : t \notin Holders(x)
  BY DEF Holders
<1>4. Holders(id)' = Holders(id) \cup {t}
  BY <1>2 DEF Holders
<1>5. \A x : x # id => Holders(x)' = Holders(x)
  BY <1>2 DEF Holders
<1>6. Held' \subseteq Held \cup {[id |-> id, ud |-> o]}
  BY <1>2 DEF Held
<1> QED
  BY <1>1, <1>3, <1>4, <1>5, <1>6

\* A thread that goes elsewhere holds nothing any more.
LEMMA ThreadLeaves ==
  ASSUME TypeOK, NEW t \in Threads, NEW a \in {"idle", "deleting"}, NEW id \in Nat,
         at' = [at EXCEPT ![t] = a], hid' = [hid EXCEPT ![t] = id],
         hud' = [hud EXCEPT ![t] = NULL]
  PROVE  /\ at' \in [Threads -> {"idle", "holding", "deleting"}]
         /\ hid' \in [Threads -> Nat]
         /\ hud' \in [Threads -> Objects \cup {NULL}]
         /\ \A x : Holders(x)' = Holders(x) \ {t}
         /\ Held' \subseteq Held
<1>1. /\ at' \in [Threads -> {"idle", "holding", "deleting"}]
      /\ hid' \in [Threads -> Nat]
      /\ hud' \in [Threads -> Objects \cup {NULL}]
  BY DEF TypeOK
<1>2. \A u \in Threads : /\ at'[u] = IF u = t THEN a ELSE at[u]
                         /\ hid'[u] = IF u = t THEN id ELSE hid[u]
                         /\ hud'[u] = IF u = t THEN NULL ELSE hud[u]
  BY DEF TypeOK
<1>3. \A x : Holders(x)' = Holders(x) \ {t}
  BY <1>2 DEF Holders
<1>4. Held' \subseteq Held
  BY <1>2 DEF Held
<1> QED
  BY <1>1, <1>3, <1>4

\* One thread more or less among the holders of a handle is one unit of count.
LEMMA HolderCounts ==
  ASSUME NEW t \in Threads, NEW x
  PROVE  /\ Cardinality(Holders(x)) \in Nat
         /\ Cardinality(Holders(x) \cup {t}) =
              IF t \in Holders(x) THEN Cardinality(Holders(x))
              ELSE Cardinality(Holders(x)) + 1
         /\ Cardinality(Holders(x) \ {t}) =
              IF t \in Holders(x) THEN Cardinality(Holders(x)) - 1
              ELSE Cardinality(Holders(x))
         /\ Cardinality(Holders(x)) = 0 <=> Holders(x) = {}
<1>1. IsFiniteSet(Holders(x))
  <2>1. Holders(x) \in SUBSET Threads
    BY DEF Holders
  <2> QED
    BY <2>1, FS_Subset, ThreadsFinite
<1> QED
  BY <1>1, FS_CardinalityType, FS_AddElement, FS_RemoveElement, FS_EmptySet

\* When nothing new becomes known and nothing is freed or issued, what is
\* known stays sane and unique.
LEMMA KnownShrinks ==
  ASSUME KnownSane, KnownUnique, Known' \subseteq Known,
         UNCHANGED <<lastid, heap>>
  PROVE  KnownSane' /\ KnownUnique'
  BY DEF KnownSane, KnownUnique

-----------------------------------------------------------------------------
(* Every action keeps the invariant *)

\* Giving a reference back: one unit less on the handle's slot, if it is there,
\* and the thread holds nothing any more.
LEMMA ReleaseRefStep ==
  ASSUME TypeOK, DeletingIssued, NEW t \in Threads, NEW id \in Nat \ {0},
         ReleaseRef(t, id)
  PROVE  /\ slot' \in [0 .. cap - 1 -> [id : Nat, ref : Int, ud : Objects \cup {NULL}]]
         /\ Occupied' = Occupied /\ Slotted' = Slotted /\ Held' \subseteq Held
         /\ \A j \in Occupied :
              /\ slot'[j].id = slot[j].id /\ slot'[j].ud = slot[j].ud
              /\ slot'[j].ref = IF slot[j].id = id THEN slot[j].ref - 1 ELSE slot[j].ref
         /\ at' \in [Threads -> {"idle", "holding", "deleting"}]
         /\ hid' \in [Threads -> Nat]
         /\ hud' \in [Threads -> Objects \cup {NULL}]
         /\ \A x : Holders(x)' = Holders(x) \ {t}
         /\ DeletingIssued'
<1>1. UNCHANGED <<lastid, cap, n, heap>>
  BY DEF ReleaseRef
<1>2. GoIdle(t) \/ GoDelete(t, id)
  BY DEF ReleaseRef
<1>3. /\ at' \in [Threads -> {"idle", "holding", "deleting"}]
      /\ hid' \in [Threads -> Nat]
      /\ hud' \in [Threads -> Objects \cup {NULL}]
      /\ \A x : Holders(x)' = Holders(x) \ {t}
      /\ Held' \subseteq Held
  <2>1. CASE GoIdle(t)
    BY <2>1, ThreadLeaves DEF GoIdle
  <2>2. CASE GoDelete(t, id)
    BY <2>2, ThreadLeaves DEF GoDelete
  <2> QED
    BY <1>2, <2>1, <2>2
<1>4. DeletingIssued'
  BY <1>2 DEF GoIdle, GoDelete, DeletingIssued, TypeOK
<1>5. CASE Found(id)
  <2>1. /\ id % cap \in Occupied
        /\ slot[id % cap].id = id
        /\ \A j \in Occupied : slot[j].id = id => j = id % cap
    BY <1>5, FoundSlot
  <2>2. slot' = [slot EXCEPT ![id % cap].ref = slot[id % cap].ref - 1]
    BY <1>5 DEF ReleaseRef
  <2>3. slot[id % cap].ref - 1 \in Int
    BY <2>1 DEF TypeOK, Occupied
  <2>4. /\ slot' \in [0 .. cap - 1 -> [id : Nat, ref : Int, ud : Objects \cup {NULL}]]
        /\ Occupied' = Occupied
        /\ Slotted' = Slotted
        /\ \A j \in Occupied : /\ slot'[j].id = slot[j].id
                               /\ slot'[j].ud = slot[j].ud
                               /\ slot'[j].ref = IF j = id % cap
                                                 THEN slot[id % cap].ref - 1
                                                 ELSE slot[j].ref
    BY <1>1, <2>1, <2>2, <2>3, CountChanged
  <2>5. \A j \in Occupied :
          slot'[j].ref = IF slot[j].id = id THEN slot[j].ref - 1 ELSE slot[j].ref
    BY <2>1, <2>4
  <2> QED
    BY <1>3, <1>4, <2>4, <2>5
<1>6. CASE ~Found(id)
  <2>1. slot' = slot
    BY <1>6 DEF ReleaseRef
  <2>2. \A j \in Occupied : slot[j].id # id
    BY <1>6 DEF Found, Occupied, TypeOK
  <2>3. /\ slot' \in [0 .. cap - 1 -> [id : Nat, ref : Int, ud : Objects \cup {NULL}]]
        /\ Occupied' = Occupied
        /\ Slotted' = Slotted
    BY <1>1, <2>1 DEF Occupied, Slotted, TypeOK
  <2> QED
    BY <1>3, <1>4, <2>1, <2>2, <2>3
<1> QED
  BY <1>5, <1>6

\* handlemap_grab
LEMMA GrabStep ==
  ASSUME IInv, NEW t \in Threads, NEW id \in Ids, Grab(t, id)
  PROVE  IInv'
<1> USE DEF IInv
<1> DEFINE i == id % cap
<1>1. id \in Nat \ {0}
  BY SizesPositive DEF Ids
<1>2. /\ i \in Occupied
      /\ slot[i].id = id
      /\ \A j \in Occupied : slot[j].id = id => j = i
  BY <1>1, FoundSlot DEF Grab
<1>3. i \in 0 .. cap - 1 /\ slot[i].ref \in Int /\ slot[i].ud \in Objects
  BY <1>2 DEF Occupied, TypeOK
<1>4. /\ slot' \in [0 .. cap - 1 -> [id : Nat, ref : Int, ud : Objects \cup {NULL}]]
      /\ Occupied' = Occupied
      /\ Slotted' = Slotted
      /\ \A j \in Occupied : /\ slot'[j].id = slot[j].id
                             /\ slot'[j].ud = slot[j].ud
                             /\ slot'[j].ref = IF j = i THEN slot[i].ref + 1
                                               ELSE slot[j].ref
  <2>1. slot' = [slot EXCEPT ![i].ref = slot[i].ref + 1] /\ cap' = cap
    BY DEF Grab
  <2>2. slot[i].ref + 1 \in Int
    BY <1>3
  <2> HIDE DEF i
  <2> QED
    BY <1>2, <2>1, <2>2, CountChanged
<1>5. /\ at' \in [Threads -> {"idle", "holding", "deleting"}]
      /\ hid' \in [Threads -> Nat]
      /\ hud' \in [Threads -> Objects \cup {NULL}]
      /\ \A x : t \notin Holders(x)
      /\ Holders(id)' = Holders(id) \cup {t}
      /\ \A x : x # id => Holders(x)' = Holders(x)
      /\ Held' \subseteq Held \cup {[id |-> id, ud |-> slot[i].ud]}
  <2>1. /\ at[t] # "holding"
        /\ at' = [at EXCEPT ![t] = "holding"]
        /\ hid' = [hid EXCEPT ![t] = id]
        /\ hud' = [hud EXCEPT ![t] = slot[i].ud]
    BY DEF Grab
  <2> HIDE DEF i
  <2> QED
    BY <1>1, <1>3, <2>1, ThreadHolds
<1>6. TypeOK'
  BY <1>4, <1>5 DEF TypeOK, Grab
<1>7. RefCount'
  <2> SUFFICES ASSUME NEW j \in Occupied, NEW x, slot[j].id = x
               PROVE  slot'[j].ref = (IF x \in OpenIds' THEN 1 ELSE 0)
                                       + Cardinality(Holders(x)')
    BY <1>4 DEF RefCount, Holders
  <2>1. OpenIds' = OpenIds
    BY DEF Grab, OpenIds
  <2>2. t \notin Holders(x)
    BY <1>5
  <2>3. /\ Cardinality(Holders(x)) \in Nat
        /\ Cardinality(Holders(x) \cup {t}) = Cardinality(Holders(x)) + 1
    BY <2>2, HolderCounts
  <2>4. slot[j].ref = (IF x \in OpenIds THEN 1 ELSE 0) + Cardinality(Holders(x))
    BY DEF RefCount
  <2>5. CASE x = id
    <3>1. slot'[j].ref = slot[j].ref + 1
      BY <1>2, <1>4, <2>5
    <3>2. Holders(x)' = Holders(x) \cup {t}
      BY <1>5, <2>5
    <3>3. Cardinality(Holders(x)') = Cardinality(Holders(x)) + 1
      BY <2>3, <3>2
    <3> QED
      BY <2>1, <2>3, <2>4, <3>1, <3>3
  <2>6. CASE x # id
    <3>1. slot'[j].ref = slot[j].ref
      BY <1>2, <1>4, <2>6
    <3>2. Cardinality(Holders(x)') = Cardinality(Holders(x))
      BY <1>5, <2>6
    <3> QED
      BY <2>1, <2>4, <3>1, <3>2
  <2> QED
    BY <2>5, <2>6
<1>8. KnownSane' /\ KnownUnique'
  <2>1. [id |-> id, ud |-> slot[i].ud] \in Slotted
    BY <1>2 DEF Slotted
  <2>2. Known' \subseteq Known
    BY <1>4, <1>5, <2>1 DEF Known, Grab
  <2> QED
    BY <2>2, KnownShrinks DEF Grab
<1>9. DeletingIssued'
  BY DEF Grab, DeletingIssued, TypeOK
<1> QED
  BY <1>6, <1>7, <1>8, <1>9

\* handlemap_release by a thread that holds the handle
LEMMA ReleaseStep ==
  ASSUME IInv, NEW t \in Threads, Release(t)
  PROVE  IInv'
<1> USE DEF IInv
<1> DEFINE id == hid[t]
<1>1. at[t] = "holding" /\ ReleaseRef(t, id) /\ UNCHANGED <<lastid, cap, n, open, heap>>
  BY DEF Release, ReleaseRef
<1>2. id \in Nat \ {0}
  <2>1. [id |-> hid[t], ud |-> hud[t]] \in Known
    BY <1>1 DEF Known, Held
  <2> QED
    BY <2>1 DEF KnownSane, TypeOK
<1> HIDE DEF id
<1>3. /\ slot' \in [0 .. cap - 1 -> [id : Nat, ref : Int, ud : Objects \cup {NULL}]]
      /\ Occupied' = Occupied /\ Slotted' = Slotted /\ Held' \subseteq Held
      /\ \A j \in Occupied :
           /\ slot'[j].id = slot[j].id /\ slot'[j].ud = slot[j].ud
           /\ slot'[j].ref = IF slot[j].id = id THEN slot[j].ref - 1 ELSE slot[j].ref
      /\ at' \in [Threads -> {"idle", "holding", "deleting"}]
      /\ hid' \in [Threads -> Nat]
      /\ hud' \in [Threads -> Objects \cup {NULL}]
      /\ \A x : Holders(x)' = Holders(x) \ {t}
      /\ DeletingIssued'
  BY <1>1, <1>2, ReleaseRefStep
<1>4. TypeOK'
  BY <1>1, <1>3 DEF TypeOK
<1>5. RefCount'
  <2> SUFFICES ASSUME NEW j \in Occupied, NEW x, slot[j].id = x
               PROVE  slot'[j].ref = (IF x \in OpenIds' THEN 1 ELSE 0)
                                       + Cardinality(Holders(x)')
    BY <1>3 DEF RefCount, Holders
  <2>1. OpenIds' = OpenIds
    BY <1>1 DEF OpenIds
  <2>2. t \in Holders(x) <=> x = id
    BY <1>1 DEF Holders, id
  <2>3. /\ Cardinality(Holders(x)) \in Nat
        /\ Cardinality(Holders(x)') = IF x = id THEN Cardinality(Holders(x)) - 1
                                      ELSE Cardinality(Holders(x))
    BY <1>3, <2>2, HolderCounts
  <2>4. slot[j].ref = (IF x \in OpenIds THEN 1 ELSE 0) + Cardinality(Holders(x))
    BY DEF RefCount
  <2> QED
    BY <1>3, <2>1, <2>3, <2>4
<1>6. Known' \subseteq Known
  BY <1>1, <1>3 DEF Known
<1> QED
  BY <1>1, <1>3, <1>4, <1>5, <1>6, KnownShrinks

\* handlemap_release by the owner, who gives the creation reference back
LEMMA CloseStep ==
  ASSUME IInv, NEW t \in Threads, NEW h \in open, Close(t, h)
  PROVE  IInv'
<1> USE DEF IInv
<1>1. /\ at[t] = "idle" /\ ReleaseRef(t, h.id) /\ open' = open \ {h}
      /\ UNCHANGED <<lastid, cap, n, heap>>
  BY DEF Close, ReleaseRef
<1>2. h.id \in Nat \ {0}
  BY DEF Known, KnownSane, TypeOK
<1>3. /\ slot' \in [0 .. cap - 1 -> [id : Nat, ref : Int, ud : Objects \cup {NULL}]]
      /\ Occupied' = Occupied /\ Slotted' = Slotted /\ Held' \subseteq Held
      /\ \A j \in Occupied :
           /\ slot'[j].id = slot[j].id /\ slot'[j].ud = slot[j].ud
           /\ slot'[j].ref = IF slot[j].id = h.id THEN slot[j].ref - 1 ELSE slot[j].ref
      /\ at' \in [Threads -> {"idle", "holding", "deleting"}]
      /\ hid' \in [Threads -> Nat]
      /\ hud' \in [Threads -> Objects \cup {NULL}]
      /\ \A x : Holders(x)' = Holders(x) \ {t}
      /\ DeletingIssued'
  BY <1>1, <1>2, ReleaseRefStep
<1>4. TypeOK'
  BY <1>1, <1>3 DEF TypeOK
<1>5. OpenIds' = OpenIds \ {h.id} /\ h.id \in OpenIds
  <2>1. \A g \in open : g.id = h.id => g = h
    <3>1. \A g \in open : g = [id |-> g.id, ud |-> g.ud]
      BY DEF TypeOK
    <3>2. \A g \in open : g.id = h.id => g.ud = h.ud
      BY DEF KnownUnique, Known
    <3> QED
      BY <3>1, <3>2
  <2> QED
    BY <1>1, <2>1 DEF OpenIds
<1>6. RefCount'
  <2> SUFFICES ASSUME NEW j \in Occupied, NEW x, slot[j].id = x
               PROVE  slot'[j].ref = (IF x \in OpenIds' THEN 1 ELSE 0)
                                       + Cardinality(Holders(x)')
    BY <1>3 DEF RefCount, Holders
  <2>1. t \notin Holders(x)
    BY <1>1 DEF Holders
  <2>2. /\ Cardinality(Holders(x)) \in Nat
        /\ Cardinality(Holders(x)') = Cardinality(Holders(x))
    BY <1>3, <2>1, HolderCounts
  <2>3. slot[j].ref = (IF x \in OpenIds THEN 1 ELSE 0) + Cardinality(Holders(x))
    BY DEF RefCount
  <2>4. CASE x = h.id
    <3>1. x \in OpenIds /\ x \notin OpenIds' /\ slot'[j].ref = slot[j].ref - 1
      BY <1>3, <1>5, <2>4
    <3> QED
      BY <2>2, <2>3, <3>1
  <2>5. CASE x # h.id
    <3>1. (x \in OpenIds <=> x \in OpenIds') /\ slot'[j].ref = slot[j].ref
      BY <1>3, <1>5, <2>5
    <3> QED
      BY <2>2, <2>3, <3>1
  <2> QED
    BY <2>4, <2>5
<1>7. Known' \subseteq Known
  BY <1>1, <1>3 DEF Known
<1> QED
  BY <1>1, <1>3, <1>4, <1>6, <1>7, KnownShrinks

\* try_delete: the object goes only when nobody knows it any more.
LEMMA TryDeleteStep ==
  ASSUME IInv, NEW t \in Threads, TryDelete(t)
  PROVE  IInv'
<1> USE DEF IInv
<1> DEFINE id == hid[t]
           i == id % cap
<1>1. at[t] = "deleting" /\ GoIdle(t) /\ UNCHANGED <<lastid, cap, open>>
  BY DEF TryDelete
<1>2. id \in Nat \ {0}
  BY <1>1 DEF DeletingIssued, TypeOK
<1>3. /\ at' \in [Threads -> {"idle", "holding", "deleting"}]
      /\ hid' \in [Threads -> Nat]
      /\ hud' \in [Threads -> Objects \cup {NULL}]
      /\ \A x : Holders(x)' = Holders(x) \ {t}
      /\ Held' \subseteq Held
  BY <1>1, ThreadLeaves DEF GoIdle
<1>4. \A x : Holders(x)' = Holders(x)
  BY <1>1, <1>3 DEF Holders
<1>5. OpenIds' = OpenIds
  BY <1>1 DEF OpenIds
<1>6. DeletingIssued'
  BY <1>1 DEF GoIdle, DeletingIssued, TypeOK
<1> HIDE DEF id, i
<1>7. CASE Found(id) /\ ~(slot[i].ref > 0)
  <2>1. /\ slot' = [slot EXCEPT ![i].id = 0] /\ n' = n - 1
        /\ heap' = heap \ {slot[i].ud}
    BY <1>7 DEF TryDelete, id, i
  <2>2. /\ i \in Occupied /\ slot[i].id = id
        /\ \A j \in Occupied : slot[j].id = id => j = i
    BY <1>2, <1>7, FoundSlot DEF i
  <2>3. i \in 0 .. cap - 1 /\ slot[i].ud \in Objects
    BY <2>2 DEF Occupied, TypeOK
  <2>4. /\ slot' \in [0 .. cap - 1 -> [id : Nat, ref : Int, ud : Objects \cup {NULL}]]
        /\ \A j \in 0 .. cap - 1 : slot'[j].id = IF j = i THEN 0 ELSE slot[j].id
        /\ \A j \in 0 .. cap - 1 : slot'[j].ud = slot[j].ud /\ slot'[j].ref = slot[j].ref
    BY <1>1, <2>1, <2>2, SlotEmptied
  <2>5. Occupied' = Occupied \ {i}
    BY <1>1, <2>1, <2>2, SlotEmptied
  <2>6. TypeOK'
    <3>1. \A j \in Occupied' : slot'[j].id % cap' = j /\ slot'[j].ud \in Objects
      BY <1>1, <2>4, <2>5 DEF TypeOK, Occupied
    <3>2. n' \in Int
      BY <2>1 DEF TypeOK
    <3> QED
      BY <1>1, <1>3, <2>1, <2>4, <3>1, <3>2 DEF TypeOK
  <2>7. RefCount'
    <3> SUFFICES ASSUME NEW j \in Occupied, j # i, NEW x, slot[j].id = x
                 PROVE  slot[j].ref = (IF x \in OpenIds' THEN 1 ELSE 0)
                                        + Cardinality(Holders(x)')
      BY <2>4, <2>5 DEF RefCount, Holders, Occupied
    <3>1. slot[j].ref = (IF x \in OpenIds THEN 1 ELSE 0) + Cardinality(Holders(x))
      BY DEF RefCount
    <3>2. Cardinality(Holders(x)') = Cardinality(Holders(x))
      BY <1>4
    <3> QED
      BY <1>5, <3>1, <3>2
  <2>8. \A p \in Known' : p \in Known /\ p.id # id
    <3>1. id \notin OpenIds /\ Holders(id) = {}
      <4>1. slot[i].ref = (IF id \in OpenIds THEN 1 ELSE 0) + Cardinality(Holders(id))
        BY <2>2 DEF RefCount
      <4>2. \A x : Cardinality(Holders(x)) \in Nat
                    /\ (Cardinality(Holders(x)) = 0 <=> Holders(x) = {})
        BY HolderCounts
      <4>3. id \notin OpenIds /\ Cardinality(Holders(id)) = 0
        BY <1>7, <4>1, <4>2
      <4> QED
        BY <4>2, <4>3
    <3>2. \A p \in open' : p \in Known /\ p.id # id
      BY <1>1, <3>1 DEF OpenIds, Known
    <3>3. \A p \in Held' : p \in Known /\ p.id # id
      BY <1>3, <3>1 DEF Held, Holders, Known
    <3>4. \A p \in Slotted' : p \in Known /\ p.id # id
      BY <2>2, <2>4, <2>5 DEF Slotted, Known, Occupied
    <3> QED
      BY <3>2, <3>3, <3>4 DEF Known
  <2>9. KnownSane' /\ KnownUnique'
    <3>1. [id |-> id, ud |-> slot[i].ud] \in Known
      BY <2>2 DEF Slotted, Known
    <3>2. \A p \in Known' : p.ud # slot[i].ud
      BY <2>8, <3>1 DEF KnownUnique
    <3> QED
      BY <1>1, <2>1, <2>8, <3>2 DEF KnownSane, KnownUnique
  <2> QED
    BY <1>6, <2>6, <2>7, <2>9
<1>8. CASE ~(Found(id) /\ ~(slot[i].ref > 0))
  <2>1. UNCHANGED <<slot, n, heap>>
    BY <1>8 DEF TryDelete, id, i
  <2>2. Occupied' = Occupied /\ Slotted' = Slotted
    BY <1>1, <2>1 DEF Occupied, Slotted
  <2>3. TypeOK'
    BY <1>1, <1>3, <2>1, <2>2 DEF TypeOK
  <2>4. RefCount'
    <3> SUFFICES ASSUME NEW j \in Occupied, NEW x, slot[j].id = x
                 PROVE  slot[j].ref = (IF x \in OpenIds' THEN 1 ELSE 0)
                                        + Cardinality(Holders(x)')
      BY <2>1, <2>2 DEF RefCount, Holders
    <3> QED
      BY <1>4, <1>5 DEF RefCount
  <2>5. Known' \subseteq Known
    BY <1>1, <1>3, <2>2 DEF Known
  <2> QED
    BY <1>1, <1>6, <2>1, <2>3, <2>4, <2>5, KnownShrinks
<1> QED
  BY <1>7, <1>8

\* The table in which handlemap_new looks for a free slot, expanded or not, has
\* only slots of the old one in it, each where its id selects it.
LEMMA TableSlots ==
  ASSUME TypeOK
  PROVE  /\ TableCap \in Nat \ {0}
         /\ Table \in [0 .. TableCap - 1 -> [id : Nat, ref : Int, ud : Objects \cup {NULL}]]
         /\ \A j \in 0 .. TableCap - 1 :
              Table[j].id # 0 => /\ Table[j].id % TableCap = j
                                 /\ \E i \in Occupied : Table[j] = slot[i]
<1> DEFINE Slots == [id : Nat, ref : Int, ud : Objects \cup {NULL}]
<1>1. slot \in [0 .. cap - 1 -> Slots] /\ cap \in Nat \ {0}
  BY DEF TypeOK
<1>2. CASE NeedsExpansion
  <2>1. TableCap = 2 * cap /\ Table = Expanded
    BY <1>2 DEF Table, TableCap
  <2>2. EmptySlot \in Slots /\ EmptySlot.id = 0
    BY DEF EmptySlot
  <2> HIDE DEF Slots
  <2>3. ASSUME NEW j \in 0 .. 2 * cap - 1
        PROVE  /\ Expanded[j] \in Slots
               /\ Expanded[j].id # 0 => /\ Expanded[j].id % (2 * cap) = j
                                        /\ \E i \in Occupied : Expanded[j] = slot[i]
    <3>1. CASE \E i \in 0 .. cap - 1 : LastCopied(j, i)
      <4>1. PICK i \in 0 .. cap - 1 : LastCopied(j, i) /\ Expanded[j] = slot[i]
        BY <3>1 DEF Expanded
      <4> QED
        BY <1>1, <4>1 DEF LastCopied, Occupied
    <3>2. CASE ~ \E i \in 0 .. cap - 1 : LastCopied(j, i)
      <4>1. Expanded[j] = EmptySlot
        BY <3>2 DEF Expanded
      <4> QED
        BY <2>2, <4>1
    <3> QED
      BY <3>1, <3>2
  <2>4. Expanded \in [0 .. 2 * cap - 1 -> Slots]
    BY <2>3 DEF Expanded
  <2>5. 2 * cap \in Nat \ {0}
    BY <1>1
  <2> QED
    BY <2>1, <2>3, <2>4, <2>5 DEF Slots
<1>3. CASE ~NeedsExpansion
  BY <1>3 DEF Table, TableCap, TypeOK, Occupied
<1> QED
  BY <1>2, <1>3

\* handlemap_new: the new handle is one nobody knows, and its object is fresh.
LEMMA NewStep ==
  ASSUME IInv, LastIdLimit < IdMod, NEW t \in Threads, NEW o \in Objects, New(t, o)
  PROVE  IInv'
<1> USE DEF IInv
<1>1. PICK k \in 1 .. TableCap + 1 :
        /\ lastid + k <= LastIdLimit
        /\ Table[Candidate(k) % TableCap].id = 0
        /\ lastid' = Candidate(k)
        /\ slot' = [Table EXCEPT ![Candidate(k) % TableCap] =
                                   [id |-> Candidate(k), ref |-> 1, ud |-> o]]
        /\ open' = open \cup {[id |-> Candidate(k), ud |-> o]}
  BY DEF New
<1>2. /\ cap' = TableCap /\ n' = n + 1 /\ heap' = heap \cup {o} /\ o \notin heap
      /\ UNCHANGED <<at, hid, hud>>
  BY DEF New
<1> DEFINE id == Candidate(k)
           s == id % TableCap
           new == [id |-> id, ref |-> 1, ud |-> o]
<1>3. /\ TableCap \in Nat \ {0}
      /\ Table \in [0 .. TableCap - 1 -> [id : Nat, ref : Int, ud : Objects \cup {NULL}]]
      /\ \A j \in 0 .. TableCap - 1 :
           Table[j].id # 0 => /\ Table[j].id % TableCap = j
                              /\ \E i \in Occupied : Table[j] = slot[i]
  BY TableSlots
<1>4. id = lastid + k /\ lastid \in Nat /\ k \in Nat \ {0} /\ id \in 1 .. IdMod - 1
  BY <1>1, <1>3, SizesPositive DEF Candidate, TypeOK
<1>5. s \in 0 .. TableCap - 1 /\ id % TableCap = s
  <2>1. id \in Nat
    BY <1>4, SizesPositive
  <2> HIDE DEF id
  <2> QED
    BY <1>3, <2>1, ModRange
<1>6. /\ slot' = [Table EXCEPT ![s] = new] /\ lastid' = id
      /\ open' = open \cup {[id |-> id, ud |-> o]}
  BY <1>1
<1> HIDE DEF id, s
<1>7. /\ slot' \in [0 .. TableCap - 1 -> [id : Nat, ref : Int, ud : Objects \cup {NULL}]]
      /\ slot'[s] = new
      /\ \A j \in 0 .. TableCap - 1 : j # s => slot'[j] = Table[j]
  <2>1. new \in [id : Nat, ref : Int, ud : Objects \cup {NULL}]
    BY <1>4
  <2> HIDE DEF new
  <2> QED
    BY <1>3, <1>5, <1>6, <2>1
<1>8. \A j \in Occupied' : \/ j = s
                           \/ /\ j \in 0 .. TableCap - 1 /\ j # s
                              /\ slot'[j] = Table[j] /\ Table[j].id # 0
  BY <1>2, <1>7 DEF Occupied
<1>9. \A p \in Known : p.id \in 1 .. lastid /\ p.id # id /\ p.ud # o /\ p.ud \in heap
  BY <1>2, <1>4 DEF KnownSane, TypeOK
<1>10. TypeOK'
  <2>1. \A j \in Occupied' : slot'[j].id % TableCap = j /\ slot'[j].ud \in Objects
    <3>1. slot'[s].id % TableCap = s /\ slot'[s].ud \in Objects
      BY <1>5, <1>7
    <3>2. \A i \in Occupied : slot[i].ud \in Objects
      BY DEF TypeOK
    <3> QED
      BY <1>3, <1>8, <3>1, <3>2
  <2>2. lastid' \in 0 .. IdMod - 1
    BY <1>4, <1>6
  <2>3. open' \subseteq [id : Nat, ud : Objects] /\ heap' \subseteq Objects
    BY <1>2, <1>4, <1>6 DEF TypeOK
  <2>4. /\ at' \in [Threads -> {"idle", "holding", "deleting"}]
        /\ hid' \in [Threads -> Nat]
        /\ hud' \in [Threads -> Objects \cup {NULL}]
        /\ n' \in Int
    BY <1>2 DEF TypeOK
  <2> QED
    BY <1>2, <1>3, <1>7, <2>1, <2>2, <2>3, <2>4 DEF TypeOK
<1>11. Held' = Held /\ \A x : Holders(x)' = Holders(x)
  <2>1. Held' = Held
    BY <1>2 DEF Held
  <2>2. \A x : Holders(x)' = Holders(x)
    BY <1>2 DEF Holders
  <2> QED
    BY <2>1, <2>2
<1>12. OpenIds' = OpenIds \cup {id}
  <2> DEFINE h == [id |-> id, ud |-> o]
  <2>1. open' = open \cup {h} /\ h.id = id
    BY <1>6
  <2> HIDE DEF h
  <2> QED
    BY <2>1 DEF OpenIds
<1>13. RefCount'
  <2> SUFFICES ASSUME NEW j \in Occupied', NEW x, slot'[j].id = x
               PROVE  slot'[j].ref = (IF x \in OpenIds' THEN 1 ELSE 0)
                                       + Cardinality(Holders(x)')
    BY DEF RefCount, Holders
  <2>1. CASE j = s
    <3>1. x = id /\ slot'[j].ref = 1
      BY <1>7, <2>1
    <3>2. Holders(id) = {}
      <4>1. \A u \in Threads : at[u] = "holding" => [id |-> hid[u], ud |-> hud[u]] \in Known
        BY DEF Known, Held
      <4> QED
        BY <1>9, <4>1 DEF Holders
    <3>3. Cardinality(Holders(x)') = 0
      BY <1>11, <3>1, <3>2, FS_EmptySet
    <3> QED
      BY <1>12, <3>1, <3>3
  <2>2. CASE j # s
    <3>1. PICK i \in Occupied : slot'[j] = slot[i]
      BY <1>3, <1>8, <2>2
    <3>2. [id |-> x, ud |-> slot[i].ud] \in Known
      BY <3>1 DEF Known, Slotted
    <3>3. x # id
      BY <1>9, <3>2
    <3>4. slot[i].ref = (IF x \in OpenIds THEN 1 ELSE 0) + Cardinality(Holders(x))
      BY <3>1 DEF RefCount
    <3> QED
      BY <1>11, <1>12, <3>1, <3>3, <3>4
  <2> QED
    BY <2>1, <2>2
<1>14. Known' \subseteq Known \cup {[id |-> id, ud |-> o]}
  <2>1. \A p \in Slotted' : p \in Known \/ p = [id |-> id, ud |-> o]
    <3> SUFFICES ASSUME NEW j \in Occupied'
                 PROVE  LET p == [id |-> slot'[j].id, ud |-> slot'[j].ud]
                        IN  p \in Known \/ p = [id |-> id, ud |-> o]
      BY DEF Slotted
    <3>1. CASE j = s
      BY <1>7, <3>1
    <3>2. CASE j # s
      <4>1. PICK i \in Occupied : slot'[j] = slot[i]
        BY <1>3, <1>8, <3>2
      <4> QED
        BY <4>1 DEF Known, Slotted
    <3> QED
      BY <3>1, <3>2
  <2> QED
    BY <1>6, <1>11, <2>1 DEF Known
<1>15. KnownSane'
  BY <1>2, <1>4, <1>6, <1>9, <1>14 DEF KnownSane
<1>16. KnownUnique'
  BY <1>9, <1>14 DEF KnownUnique
<1>17. DeletingIssued'
  BY <1>2 DEF DeletingIssued
<1> QED
  BY <1>10, <1>13, <1>15, <1>16, <1>17

-----------------------------------------------------------------------------
(* The theorems *)

\* The map of handlemap_init is empty and nobody knows a handle.
LEMMA InitIInv == Init => IInv
<1> SUFFICES ASSUME Init PROVE IInv
  OBVIOUS
<1>1. /\ slot = [i \in 0 .. InitSlots - 1 |-> EmptySlot] /\ cap = InitSlots
      /\ EmptySlot \in [id : Nat, ref : Int, ud : Objects \cup {NULL}]
      /\ EmptySlot.id = 0
  BY DEF Init, EmptySlot
<1>2. Occupied = {}
  BY <1>1 DEF Occupied
<1>3. Known = {}
  BY <1>2 DEF Init, Known, Held, Slotted
<1>4. slot \in [0 .. cap - 1 -> [id : Nat, ref : Int, ud : Objects \cup {NULL}]]
  <2> HIDE DEF EmptySlot
  <2> QED
    BY <1>1
<1>5. TypeOK
  <2>1. /\ lastid \in 0 .. IdMod - 1 /\ cap \in Nat \ {0} /\ n \in Int
        /\ open \subseteq [id : Nat, ud : Objects] /\ heap \subseteq Objects
    BY SizesPositive DEF Init
  <2>2. /\ at \in [Threads -> {"idle", "holding", "deleting"}]
        /\ hid \in [Threads -> Nat]
        /\ hud \in [Threads -> Objects \cup {NULL}]
    BY DEF Init
  <2> QED
    BY <1>2, <1>4, <2>1, <2>2 DEF TypeOK
<1> QED
  BY <1>2, <1>3, <1>5
     DEF Init, IInv, RefCount, KnownSane, KnownUnique, DeletingIssued

\* Every critical section of handlemap.c keeps the invariant, unless the ids
\* wrap around.
LEMMA StepIInv ==
  ASSUME LastIdLimit < IdMod
  PROVE  IInv /\ [Next]_vars => IInv'
<1> SUFFICES ASSUME IInv, [Next]_vars PROVE IInv'
  OBVIOUS
<1>1. CASE UNCHANGED vars
  <2> USE <1>1 DEF vars
  <2>1. Occupied' = Occupied /\ OpenIds' = OpenIds /\ Held' = Held
    BY DEF Occupied, OpenIds, Held
  <2>2. TypeOK'
    BY <2>1 DEF IInv, TypeOK
  <2>3. \A x : Holders(x)' = Holders(x)
    BY DEF Holders
  <2>4. RefCount'
    <3> SUFFICES ASSUME NEW j \in Occupied, NEW x, slot[j].id = x
                 PROVE  slot[j].ref = (IF x \in OpenIds THEN 1 ELSE 0)
                                        + Cardinality(Holders(x))
      BY <2>1 DEF RefCount, Holders
    <3> QED
      BY DEF IInv, RefCount
  <2>5. Known' = Known
    BY <2>1 DEF Known, Slotted
  <2>6. KnownSane' /\ KnownUnique' /\ DeletingIssued'
    BY <2>5 DEF IInv, KnownSane, KnownUnique, DeletingIssued
  <2> QED
    BY <2>2, <2>4, <2>6 DEF IInv
<1>2. ASSUME NEW t \in Threads,
             \/ \E o \in Objects : New(t, o)
             \/ NewFails(t)
             \/ \E id \in Ids : Grab(t, id) \/ GrabMiss(t, id)
             \/ Release(t)
             \/ \E h \in open : Close(t, h)
             \/ TryDelete(t)
      PROVE  IInv'
  <2>1. ASSUME NEW o \in Objects, New(t, o) PROVE IInv'
    BY <2>1, NewStep
  <2>2. ASSUME NEW id \in Ids, Grab(t, id) PROVE IInv'
    BY <2>2, GrabStep
  <2>3. CASE Release(t)
    BY <2>3, ReleaseStep
  <2>4. ASSUME NEW h \in open, Close(t, h) PROVE IInv'
    BY <2>4, CloseStep
  <2>5. CASE TryDelete(t)
    BY <2>5, TryDeleteStep
  <2>6. CASE NewFails(t) \/ \E id \in Ids : GrabMiss(t, id)
    BY <1>1, <2>6 DEF NewFails, GrabMiss
  <2> QED
    BY <1>2, <2>1, <2>2, <2>3, <2>4, <2>5, <2>6
<1> QED
  BY <1>1, <1>2 DEF Next

\* Without a wrap of the ids the invariant holds in every reachable state.
THEOREM Invariance ==
  ASSUME LastIdLimit < IdMod
  PROVE  Spec => []IInv
<1>1. IInv /\ [Next]_vars => IInv'
  BY StepIInv
<1> QED
  BY <1>1, InitIInv, PTL DEF Spec

\* No use after free, for any number of threads, objects and slots: handlemap.c
\* frees an object only when no owner and no thread can reach it any more.
THEOREM Safety ==
  ASSUME LastIdLimit < IdMod
  PROVE  Spec => []NoUseAfterFree
<1>1. IInv => NoUseAfterFree
  <2> SUFFICES ASSUME IInv PROVE NoUseAfterFree
    OBVIOUS
  <2>1. \A p \in Known : p.ud \in heap
    BY DEF IInv, KnownSane
  <2>2. \A t \in Threads : at[t] = "holding" => [id |-> hid[t], ud |-> hud[t]] \in Known
    BY DEF Known, Held
  <2>3. \A h \in open : h \in Known
    BY DEF Known
  <2> QED
    BY <2>1, <2>2, <2>3 DEF NoUseAfterFree
<1> QED
  BY <1>1, Invariance, PTL

\* The count of a findable handle is exact: release_ref sees 0 once, at the last
\* release.
THEOREM CountsExact ==
  ASSUME LastIdLimit < IdMod
  PROVE  Spec => []RefCount
<1>1. IInv => RefCount
  BY DEF IInv
<1> QED
  BY <1>1, Invariance, PTL

\* The map keeps its shape: the slots, the ids and the places of the threads.
THEOREM TypeCorrect ==
  ASSUME LastIdLimit < IdMod
  PROVE  Spec => []TypeOK
<1>1. IInv => TypeOK
  BY DEF IInv
<1> QED
  BY <1>1, Invariance, PTL

-----------------------------------------------------------------------------
(* No leak *)

\* Whoever lets the count of a handle fall to 0 goes on to delete it.
LEMMA ReleaseReclaims ==
  ASSUME TypeOK, DeletingIssued, Reclaimed, NEW t \in Threads, NEW id \in Nat \ {0},
         at[t] # "deleting", ReleaseRef(t, id)
  PROVE  Reclaimed'
<1>1. /\ Occupied' = Occupied
      /\ \A j \in Occupied :
           /\ slot'[j].id = slot[j].id
           /\ slot'[j].ref = IF slot[j].id = id THEN slot[j].ref - 1 ELSE slot[j].ref
  BY ReleaseRefStep
<1>2. SUFFICES ASSUME NEW j \in Occupied, slot'[j].ref <= 0
               PROVE  \E u \in Threads : at'[u] = "deleting" /\ hid'[u] = slot[j].id
  BY <1>1 DEF Reclaimed
<1>3. GoIdle(t) \/ GoDelete(t, id)
  BY DEF ReleaseRef
<1>4. \A u \in Threads : u # t => at'[u] = at[u] /\ hid'[u] = hid[u]
  BY <1>3 DEF GoIdle, GoDelete, TypeOK
<1>5. CASE slot[j].id = id
  <2>1. j = id % cap /\ slot[j].ref \in Int
    BY <1>5 DEF TypeOK, Occupied
  <2>2. Found(id) /\ slot[id % cap].ref <= 1
    BY <1>1, <1>2, <1>5, <2>1 DEF Found
  <2>3. GoDelete(t, id)
    BY <2>2 DEF ReleaseRef
  <2> QED
    BY <1>5, <2>3 DEF GoDelete, TypeOK
<1>6. CASE slot[j].id # id
  <2>1. PICK u \in Threads : at[u] = "deleting" /\ hid[u] = slot[j].id
    BY <1>1, <1>2, <1>6 DEF Reclaimed
  <2> QED
    BY <1>4, <2>1
<1> QED
  BY <1>5, <1>6

\* handlemap_new, with or without an expansion: the slots of the table it
\* searches, and a new one with the creation reference.
LEMMA NewShape ==
  ASSUME TypeOK, LastIdLimit < IdMod, NEW t \in Threads, NEW o \in Objects, New(t, o)
  PROVE  \E s \in 0 .. TableCap - 1 :
           /\ Table[s].id = 0 /\ slot'[s].id # 0 /\ slot'[s].ref = 1
           /\ \A j \in 0 .. TableCap - 1 : j # s => slot'[j] = Table[j]
<1>1. PICK k \in 1 .. TableCap + 1 :
        /\ lastid + k <= LastIdLimit
        /\ Table[Candidate(k) % TableCap].id = 0
        /\ slot' = [Table EXCEPT ![Candidate(k) % TableCap] =
                                   [id |-> Candidate(k), ref |-> 1, ud |-> o]]
  BY DEF New
<1> DEFINE id == Candidate(k)
           s == id % TableCap
<1>2. TableCap \in Nat \ {0} /\ DOMAIN Table = 0 .. TableCap - 1
  BY TableSlots
<1>3. id \in Nat \ {0}
  BY <1>1, <1>2, SizesPositive DEF Candidate, TypeOK
<1>4. Table[s].id = 0 /\ slot' = [Table EXCEPT ![s] = [id |-> id, ref |-> 1, ud |-> o]]
  BY <1>1
<1> HIDE DEF id
<1>5. s \in 0 .. TableCap - 1
  BY <1>2, <1>3, ModRange
<1> HIDE DEF s
<1>6. /\ slot'[s] = [id |-> id, ref |-> 1, ud |-> o]
      /\ \A j \in 0 .. TableCap - 1 : j # s => slot'[j] = Table[j]
  BY <1>2, <1>4, <1>5
<1> QED
  BY <1>3, <1>4, <1>5, <1>6

LEMMA NewReclaims ==
  ASSUME TypeOK, Reclaimed, LastIdLimit < IdMod, NEW t \in Threads, NEW o \in Objects, New(t, o)
  PROVE  Reclaimed'
<1>1. PICK s \in 0 .. TableCap - 1 :
        /\ slot'[s].ref = 1
        /\ \A j \in 0 .. TableCap - 1 : j # s => slot'[j] = Table[j]
  BY NewShape
<1>2. cap' = TableCap /\ UNCHANGED <<at, hid>>
  BY DEF New
<1>3. SUFFICES ASSUME NEW j \in Occupied', slot'[j].ref <= 0
               PROVE  \E u \in Threads : at[u] = "deleting" /\ hid[u] = slot'[j].id
  BY <1>2 DEF Reclaimed
<1>4. j \in 0 .. TableCap - 1 /\ slot'[j].id # 0 /\ j # s
  BY <1>1, <1>2, <1>3 DEF Occupied
<1>5. PICK i \in Occupied : slot'[j] = slot[i]
  BY <1>1, <1>4, TableSlots
<1> QED
  BY <1>3, <1>5 DEF Reclaimed

\* A thread leaves try_delete without deleting only a handle that somebody has
\* grabbed again, or that is gone.
LEMMA TryDeleteReclaims ==
  ASSUME TypeOK, DeletingIssued, Reclaimed, NEW t \in Threads, TryDelete(t)
  PROVE  Reclaimed'
<1> DEFINE id == hid[t]
           i == id % cap
<1>1. at[t] = "deleting" /\ GoIdle(t) /\ cap' = cap
  BY DEF TryDelete
<1>2. id \in Nat \ {0}
  BY <1>1 DEF DeletingIssued, TypeOK
<1>3. \A u \in Threads : u # t => at'[u] = at[u] /\ hid'[u] = hid[u]
  BY <1>1 DEF GoIdle, TypeOK
<1>4. ASSUME NEW j \in Occupied, slot[j].ref <= 0, slot[j].id # id
      PROVE  \E u \in Threads : at'[u] = "deleting" /\ hid'[u] = slot[j].id
  <2>1. PICK u \in Threads : at[u] = "deleting" /\ hid[u] = slot[j].id
    BY <1>4 DEF Reclaimed
  <2> QED
    BY <1>3, <1>4, <2>1
<1> HIDE DEF id, i
<1>5. CASE Found(id) /\ ~(slot[i].ref > 0)
  <2>1. slot' = [slot EXCEPT ![i].id = 0]
    BY <1>5 DEF TryDelete, id, i
  <2>2. i \in Occupied /\ \A j \in Occupied : slot[j].id = id => j = i
    BY <1>2, <1>5, FoundSlot DEF i
  <2>3. /\ Occupied' = Occupied \ {i}
        /\ \A j \in 0 .. cap - 1 : slot'[j].id = IF j = i THEN 0 ELSE slot[j].id
        /\ \A j \in 0 .. cap - 1 : slot'[j].ref = slot[j].ref
    BY <1>1, <2>1, <2>2, SlotEmptied
  <2>4. \A j \in Occupied' : j \in Occupied /\ slot[j].id # id /\ slot'[j].id = slot[j].id /\ slot'[j].ref = slot[j].ref
    BY <2>2, <2>3 DEF Occupied
  <2> QED
    BY <1>4, <2>4 DEF Reclaimed
<1>6. CASE ~(Found(id) /\ ~(slot[i].ref > 0))
  <2>1. slot' = slot /\ Occupied' = Occupied
    BY <1>1, <1>6 DEF TryDelete, id, i, Occupied
  <2>2. \A j \in Occupied : slot[j].ref <= 0 => slot[j].id # id
    BY <1>6 DEF Found, Occupied, TypeOK, i
  <2> QED
    BY <1>4, <2>1, <2>2 DEF Reclaimed
<1> QED
  BY <1>5, <1>6

LEMMA StepReclaimed ==
  ASSUME IInv, Reclaimed, LastIdLimit < IdMod, [Next]_vars
  PROVE  Reclaimed'
<1> USE DEF IInv
<1>1. CASE UNCHANGED vars
  BY <1>1 DEF Reclaimed, Occupied, vars
<1>2. ASSUME NEW t \in Threads, NEW o \in Objects, New(t, o)
      PROVE  Reclaimed'
  BY <1>2, NewReclaims
<1>3. ASSUME NEW t \in Threads, NEW id \in Ids, Grab(t, id)
      PROVE  Reclaimed'
  <2>1. id \in Nat \ {0}
    BY SizesPositive DEF Ids
  <2>2. id % cap \in Occupied
    BY <1>3, <2>1, FoundSlot DEF Grab
  <2>3. /\ slot' = [slot EXCEPT ![id % cap].ref = slot[id % cap].ref + 1] /\ cap' = cap
        /\ slot[id % cap].ref + 1 \in Int
    BY <1>3, <2>2 DEF Grab, TypeOK, Occupied
  <2>4. /\ Occupied' = Occupied
        /\ \A j \in Occupied : slot'[j].id = slot[j].id /\ slot'[j].ref >= slot[j].ref
    BY SMTT(20), <2>2, <2>3, CountChanged DEF TypeOK, Occupied
  <2>5. \A u \in Threads : at[u] = "deleting" => at'[u] = at[u] /\ hid'[u] = hid[u]
    BY <1>3 DEF Grab, TypeOK
  <2>6. \A j \in Occupied : slot'[j].ref <= 0 => slot[j].ref <= 0
    <3>1. \A j \in Occupied : slot[j].ref \in Int /\ slot'[j].ref \in Int
      BY <2>2, <2>3, CountChanged DEF TypeOK, Occupied
    <3> QED
      BY <2>4, <3>1
  <2> QED
    BY <2>4, <2>5, <2>6 DEF Reclaimed
<1>4. ASSUME NEW t \in Threads, Release(t)
      PROVE  Reclaimed'
  <2>1. [id |-> hid[t], ud |-> hud[t]] \in Known
    BY <1>4 DEF Release, Known, Held
  <2>2. hid[t] \in Nat \ {0}
    BY <2>1 DEF KnownSane, TypeOK
  <2> QED
    BY <1>4, <2>2, ReleaseReclaims DEF Release
<1>5. ASSUME NEW t \in Threads, NEW h \in open, Close(t, h)
      PROVE  Reclaimed'
  <2>1. h.id \in Nat \ {0}
    BY DEF Known, KnownSane, TypeOK
  <2> QED
    BY <1>5, <2>1, ReleaseReclaims DEF Close
<1>6. ASSUME NEW t \in Threads, TryDelete(t)
      PROVE  Reclaimed'
  BY <1>6, TryDeleteReclaims
<1> QED
  BY <1>1, <1>2, <1>3, <1>4, <1>5, <1>6 DEF Next, NewFails, GrabMiss

\* No leak: whenever the count of a handle is 0, a thread is on its way to
\* delete it, however grabs and releases cross.
THEOREM NoLeak ==
  ASSUME LastIdLimit < IdMod
  PROVE  Spec => []Reclaimed
<1>1. Init => Reclaimed
  BY SizesPositive DEF Init, Reclaimed, Occupied, EmptySlot
<1>2. IInv /\ Reclaimed /\ [Next]_vars => Reclaimed'
  BY StepReclaimed
<1> QED
  BY <1>1, <1>2, Invariance, PTL DEF Spec

-----------------------------------------------------------------------------
(* There is always a free slot *)

\* n counts at least the occupied slots (an expansion may lose some), and stays
\* at or below the threshold of the expansion.
Space == n <= (cap * 3) \div 4 /\ Cardinality(Occupied) <= n

LEMMA OccupiedFinite ==
  ASSUME TypeOK
  PROVE  IsFiniteSet(Occupied) /\ Cardinality(Occupied) \in Nat
<1>1. IsFiniteSet(0 .. cap - 1)
  BY FS_Interval DEF TypeOK
<1>2. Occupied \in SUBSET (0 .. cap - 1)
  BY DEF Occupied
<1> QED
  BY <1>1, <1>2, FS_Subset, FS_CardinalityType

\* An expansion occupies no more slots than were occupied.
LEMMA TableOccupied ==
  ASSUME TypeOK
  PROVE  LET O == {j \in 0 .. TableCap - 1 : Table[j].id # 0}
         IN  IsFiniteSet(O) /\ Cardinality(O) <= Cardinality(Occupied)
<1> DEFINE O == {j \in 0 .. TableCap - 1 : Table[j].id # 0}
           f == [j \in O |-> CHOOSE i \in Occupied : Table[j] = slot[i]]
<1>1. \A j \in O : Table[j].id % TableCap = j /\ \E i \in Occupied : Table[j] = slot[i]
  BY TableSlots
<1>2. \A j \in O : f[j] \in Occupied /\ Table[j] = slot[f[j]]
  BY <1>1
<1>3. \A j, k \in O : f[j] = f[k] => j = k
  BY <1>1, <1>2
<1>4. f \in [O -> Occupied]
  BY <1>2
<1> HIDE DEF f
<1>5. f \in Injection(O, Occupied)
  BY <1>3, <1>4 DEF Injection, IsInjective
<1> HIDE DEF O
<1>6. IsFiniteSet(O) /\ Cardinality(O) <= Cardinality(Occupied)
  BY <1>5, OccupiedFinite, FS_Injection
<1> QED
  BY <1>6 DEF O

\* handlemap_new occupies one slot more, below the threshold.
LEMMA NewSpace ==
  ASSUME TypeOK, Space, LastIdLimit < IdMod, NEW t \in Threads, NEW o \in Objects, New(t, o)
  PROVE  Space'
<1> DEFINE O == {j \in 0 .. TableCap - 1 : Table[j].id # 0}
<1>1. cap' = TableCap /\ n' = n + 1 /\ cap \in Nat \ {0} /\ n \in Int
  BY DEF New, TypeOK
<1>2. PICK s \in 0 .. TableCap - 1 :
        /\ Table[s].id = 0 /\ slot'[s].id # 0
        /\ \A j \in 0 .. TableCap - 1 : j # s => slot'[j] = Table[j]
  BY NewShape
<1>3. Occupied' = O \cup {s} /\ s \notin O
  BY <1>1, <1>2 DEF Occupied
<1>4. IsFiniteSet(O) /\ Cardinality(O) <= Cardinality(Occupied) /\ Cardinality(Occupied) \in Nat
  BY TableOccupied, OccupiedFinite
<1> HIDE DEF O
<1>5. Cardinality(O) \in Nat /\ Cardinality(Occupied') = Cardinality(O) + 1
  BY <1>3, <1>4, FS_AddElement, FS_CardinalityType
<1>6. n' <= (cap' * 3) \div 4
  <2>1. CASE NeedsExpansion
    <3>1. n <= (cap * 3) \div 4 /\ cap' = 2 * cap
      BY <1>1, <2>1 DEF Space, TableCap
    <3>2. (cap * 3) \div 4 + 1 <= (2 * cap * 3) \div 4
      BY <1>1
    <3> QED
      BY <1>1, <3>1, <3>2
  <2>2. CASE ~NeedsExpansion
    BY <1>1, <2>2 DEF NeedsExpansion, TableCap
  <2> QED
    BY <2>1, <2>2
<1> QED
  BY <1>1, <1>4, <1>5, <1>6 DEF Space

LEMMA TryDeleteSpace ==
  ASSUME IInv, Space, NEW t \in Threads, TryDelete(t)
  PROVE  Space'
<1> USE DEF IInv
<1> DEFINE id == hid[t]
           i == id % cap
<1>1. at[t] = "deleting" /\ cap' = cap
  BY DEF TryDelete
<1>2. id \in Nat \ {0}
  BY <1>1 DEF DeletingIssued, TypeOK
<1> HIDE DEF id, i
<1>3. CASE Found(id) /\ ~(slot[i].ref > 0)
  <2>1. slot' = [slot EXCEPT ![i].id = 0] /\ n' = n - 1
    BY <1>3 DEF TryDelete, id, i
  <2>2. i \in Occupied
    BY <1>2, <1>3, FoundSlot DEF i
  <2>3. Occupied' = Occupied \ {i}
    BY <1>1, <2>1, <2>2, SlotEmptied
  <2>4. Cardinality(Occupied') = Cardinality(Occupied) - 1 /\ Cardinality(Occupied) \in Nat
    BY <2>2, <2>3, OccupiedFinite, FS_RemoveElement
  <2>5. n \in Int /\ cap \in Nat
    BY DEF TypeOK
  <2> QED
    BY <1>1, <2>1, <2>4, <2>5 DEF Space
<1>4. CASE ~(Found(id) /\ ~(slot[i].ref > 0))
  BY <1>1, <1>4 DEF TryDelete, id, i, Occupied, Space
<1> QED
  BY <1>3, <1>4

LEMMA StepSpace ==
  ASSUME IInv, Space, LastIdLimit < IdMod, [Next]_vars
  PROVE  Space'
<1> USE DEF IInv
<1>1. ASSUME Occupied' = Occupied, UNCHANGED <<n, cap>>
      PROVE  Space'
  BY <1>1 DEF Space
<1>2. CASE UNCHANGED vars
  BY <1>1, <1>2 DEF Occupied, vars
<1>3. ASSUME NEW t \in Threads, NEW o \in Objects, New(t, o)
      PROVE  Space'
  BY <1>3, NewSpace
<1>4. ASSUME NEW t \in Threads, NEW id \in Ids, Grab(t, id)
      PROVE  Space'
  <2>1. id \in Nat \ {0}
    BY SizesPositive DEF Ids
  <2>2. id % cap \in Occupied
    BY <1>4, <2>1, FoundSlot DEF Grab
  <2>3. /\ slot' = [slot EXCEPT ![id % cap].ref = slot[id % cap].ref + 1] /\ UNCHANGED <<n, cap>>
        /\ slot[id % cap].ref + 1 \in Int
    BY <1>4, <2>2 DEF Grab, TypeOK, Occupied
  <2>4. Occupied' = Occupied
    BY <2>2, <2>3, CountChanged
  <2> QED
    BY <1>1, <2>3, <2>4
<1>5. ASSUME NEW t \in Threads, NEW id \in Nat \ {0}, ReleaseRef(t, id)
      PROVE  Space'
  <2>1. Occupied' = Occupied
    BY <1>5, ReleaseRefStep
  <2> QED
    BY <1>1, <1>5, <2>1 DEF ReleaseRef
<1>6. ASSUME NEW t \in Threads, Release(t)
      PROVE  Space'
  <2>1. [id |-> hid[t], ud |-> hud[t]] \in Known
    BY <1>6 DEF Release, Known, Held
  <2>2. hid[t] \in Nat \ {0}
    BY <2>1 DEF KnownSane, TypeOK
  <2> QED
    BY <1>5, <1>6, <2>2 DEF Release
<1>7. ASSUME NEW t \in Threads, NEW h \in open, Close(t, h)
      PROVE  Space'
  <2>1. h.id \in Nat \ {0}
    BY DEF Known, KnownSane, TypeOK
  <2> QED
    BY <1>5, <1>7, <2>1 DEF Close
<1>8. ASSUME NEW t \in Threads, TryDelete(t)
      PROVE  Space'
  BY <1>8, TryDeleteSpace
<1> QED
  BY <1>2, <1>3, <1>4, <1>6, <1>7, <1>8 DEF Next, NewFails, GrabMiss

\* The loop of handlemap_new, which runs under the write lock, ends: the table
\* never fills up.
THEOREM FreeSlot ==
  ASSUME LastIdLimit < IdMod
  PROVE  Spec => []SlotAvailable
<1>1. Init => Space
  <2> SUFFICES ASSUME Init PROVE Space
    OBVIOUS
  <2>1. Occupied = {}
    BY SizesPositive DEF Init, Occupied, EmptySlot
  <2>2. Cardinality(Occupied) = 0
    BY <2>1, FS_EmptySet
  <2> QED
    BY <2>2, SizesPositive DEF Init, Space
<1>2. IInv /\ Space /\ [Next]_vars => Space'
  BY StepSpace
<1>3. IInv /\ Space => SlotAvailable
  <2> SUFFICES ASSUME IInv, Space, Occupied = 0 .. cap - 1 PROVE FALSE
    BY DEF SlotAvailable
  <2>1. cap \in Nat \ {0} /\ n \in Int
    BY DEF IInv, TypeOK
  <2>2. Cardinality(Occupied) = cap
    BY <2>1, FS_Interval
  <2> QED
    BY <2>1, <2>2 DEF Space
<1> QED
  BY <1>1, <1>2, <1>3, Invariance, PTL DEF Spec

=============================================================================
