------------------------------- MODULE RWLock -------------------------------
(***************************************************************************)
(* The read-write spin lock of src/ltask/simplelock.h, the lock of every   *)
(* handle map.  One action per access to the two lock words.  The GCC      *)
(* __sync builtins are atomic steps; memory is sequentially consistent.    *)
(***************************************************************************)
EXTENDS Integers, FiniteSets

CONSTANT Threads

ASSUME ThreadsFinite == IsFiniteSet(Threads)

VARIABLES
  write,   \* lock->write: 1 while a writer owns or drains the lock
  read,    \* lock->read: the number of readers that announced themselves
  pc       \* where each thread stands in the four lock operations

vars == <<write, read, pc>>

Init ==
  /\ write = 0
  /\ read = 0
  /\ pc = [t \in Threads |-> "out"]

Goto(t, from, to) ==
  /\ pc[t] = from
  /\ pc' = [pc EXCEPT ![t] = to]

-----------------------------------------------------------------------------
(* rwlock_rlock *)

CallReadLock(t) == Goto(t, "out", "rspin") /\ UNCHANGED <<write, read>>

\* while (lock->write) atom_sync();
ReadSpin(t) ==
  /\ write = 0
  /\ Goto(t, "rspin", "rinc")
  /\ UNCHANGED <<write, read>>

ReadAnnounce(t) ==
  /\ Goto(t, "rinc", "rcheck")
  /\ read' = read + 1
  /\ UNCHANGED write

\* Mutant: no second look at lock->write.
ReadCheckBlind(t) == Goto(t, "rcheck", "reading") /\ UNCHANGED <<write, read>>

\* The second look at lock->write: a writer that came in between wins.
ReadCheck(t) ==
  /\ \/ write = 0 /\ Goto(t, "rcheck", "reading")
     \/ write # 0 /\ Goto(t, "rcheck", "rundo")
  /\ UNCHANGED <<write, read>>

\* Mutant: the reader that gives way leaves its announcement behind.
ReadUndoForgotten(t) == Goto(t, "rundo", "rspin") /\ UNCHANGED <<write, read>>

ReadUndo(t) ==
  /\ Goto(t, "rundo", "rspin")
  /\ read' = read - 1
  /\ UNCHANGED write

(* rwlock_runlock *)
ReadUnlock(t) ==
  /\ Goto(t, "reading", "out")
  /\ read' = read - 1
  /\ UNCHANGED write

-----------------------------------------------------------------------------
(* rwlock_wlock *)

CallWriteLock(t) == Goto(t, "out", "wspin") /\ UNCHANGED <<write, read>>

\* atom_spinlock(&lock->write): test-and-set until the old value was 0.
WriteClaim(t) ==
  /\ write = 0
  /\ Goto(t, "wspin", "wdrain")
  /\ write' = 1
  /\ UNCHANGED read

\* Mutant: the writer does not wait for the readers to leave.
WriteDrainSkipped(t) == Goto(t, "wdrain", "writing") /\ UNCHANGED <<write, read>>

\* while (lock->read) atom_sync();
WriteDrain(t) ==
  /\ read = 0
  /\ Goto(t, "wdrain", "writing")
  /\ UNCHANGED <<write, read>>

(* rwlock_wunlock *)
WriteUnlock(t) ==
  /\ Goto(t, "writing", "out")
  /\ write' = 0
  /\ UNCHANGED read

-----------------------------------------------------------------------------

Call(t) == CallReadLock(t) \/ CallWriteLock(t)

Step(t) ==
  \/ ReadSpin(t) \/ ReadAnnounce(t) \/ ReadCheck(t) \/ ReadUndo(t) \/ ReadUnlock(t)
  \/ WriteClaim(t) \/ WriteDrain(t) \/ WriteUnlock(t)

Next == \E t \in Threads : Call(t) \/ Step(t)

Spec == Init /\ [][Next]_vars

\* A thread inside a lock operation or a critical section is scheduled again:
\* the critical sections of handlemap.c are finite and never block.
Fairness == \A t \in Threads : WF_vars(Step(t))

FairSpec == Spec /\ Fairness

-----------------------------------------------------------------------------
(* Correctness *)

PCs == {"out", "rspin", "rinc", "rcheck", "rundo", "reading",
        "wspin", "wdrain", "writing"}

\* The lock words and program counters stay in their ranges; read never
\* underflows although rundo and rwlock_runlock both decrement it.
TypeOK ==
  /\ write \in {0, 1}
  /\ read \in Nat
  /\ pc \in [Threads -> PCs]

\* A thread inside handlemap's write section (expansion, insertion, deletion)
\* is there alone: no reader uses m->slot while expand_map frees it.
MutualExclusion ==
  \A t, u \in Threads :
    t # u /\ pc[t] = "writing" => pc[u] \notin {"reading", "writing"}

\* Threads whose announcement is still in lock->read.
Announced == {t \in Threads : pc[t] \in {"rcheck", "rundo", "reading"}}

\* Threads that own the write word.
Claimants == {t \in Threads : pc[t] \in {"wdrain", "writing"}}

\* The two words say exactly who is inside: the strengthening that makes
\* MutualExclusion inductive, checked by proof.
WordsExact ==
  /\ read = Cardinality(Announced)
  /\ write = Cardinality(Claimants)
  /\ \A t, u \in Claimants : t = u
  /\ (\E t \in Threads : pc[t] = "writing") => \A u \in Threads : pc[u] # "reading"

IInv == TypeOK /\ WordsExact

\* The lock implements the abstract readers-writer lock.
RW == INSTANCE ReadersWriters WITH
        readers <- {t \in Threads : pc[t] = "reading"},
        writers <- {t \in Threads : pc[t] = "writing"}

Implements == RW!Spec

\* Writers are not starved by readers: once a writer has set lock->write it
\* gets in, whatever readers keep arriving.
WriterEnters ==
  \A t \in Threads : pc[t] = "wdrain" ~> pc[t] = "writing"

=============================================================================
