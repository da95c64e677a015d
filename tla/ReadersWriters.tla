--------------------------- MODULE ReadersWriters ---------------------------
(***************************************************************************)
(* What struct rwlock of simplelock.h promises to handlemap.c: any number  *)
(* of threads may be inside the lock as readers, or exactly one as writer. *)
(* RWLock is shown to implement this specification.                        *)
(***************************************************************************)

CONSTANT Threads

VARIABLES
  readers,   \* threads between the return of rwlock_rlock and rwlock_runlock
  writers    \* threads between the return of rwlock_wlock and rwlock_wunlock

vars == <<readers, writers>>

Init == readers = {} /\ writers = {}

EnterRead(t) ==
  /\ t \notin readers
  /\ writers = {}
  /\ readers' = readers \cup {t}
  /\ UNCHANGED writers

LeaveRead(t) ==
  /\ t \in readers
  /\ readers' = readers \ {t}
  /\ UNCHANGED writers

EnterWrite(t) ==
  /\ readers = {} /\ writers = {}
  /\ writers' = {t}
  /\ UNCHANGED readers

LeaveWrite(t) ==
  /\ t \in writers
  /\ writers' = writers \ {t}
  /\ UNCHANGED readers

Next == \E t \in Threads : EnterRead(t) \/ LeaveRead(t) \/ EnterWrite(t) \/ LeaveWrite(t)

Spec == Init /\ [][Next]_vars

=============================================================================
