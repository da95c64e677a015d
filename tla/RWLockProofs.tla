---------------------------- MODULE RWLockProofs ----------------------------
(***************************************************************************)
(* Proofs about the read-write spin lock: for any finite set of threads    *)
(* the lock words count exactly who is inside, writers exclude everybody,  *)
(* and the lock implements the abstract readers-writer lock.               *)
(***************************************************************************)
EXTENDS RWLock, FiniteSetTheorems, TLAPS

\* The program counters at which a thread is counted in read, and in write.
ReadPCs == {"rcheck", "rundo", "reading"}
WritePCs == {"wdrain", "writing"}

\* One control transfer adds the thread to the announced set, or removes it,
\* according to where it goes; the same for the claimants.
LEMMA GotoSets ==
  ASSUME NEW t \in Threads, NEW from \in PCs, NEW to \in PCs,
         pc \in [Threads -> PCs], Goto(t, from, to)
  PROVE  /\ pc' \in [Threads -> PCs]
         /\ Announced' = IF to \in ReadPCs THEN Announced \cup {t} ELSE Announced \ {t}
         /\ Claimants' = IF to \in WritePCs THEN Claimants \cup {t} ELSE Claimants \ {t}
         /\ t \in Announced <=> from \in ReadPCs
         /\ t \in Claimants <=> from \in WritePCs
<1>1. pc' = [pc EXCEPT ![t] = to] /\ pc[t] = from
  BY DEF Goto
<1>2. pc' \in [Threads -> PCs]
  BY <1>1
<1>3. \A u \in Threads : pc'[u] = IF u = t THEN to ELSE pc[u]
  BY <1>1
<1>4. Announced' = IF to \in ReadPCs THEN Announced \cup {t} ELSE Announced \ {t}
  BY <1>3 DEF Announced, ReadPCs
<1>5. Claimants' = IF to \in WritePCs THEN Claimants \cup {t} ELSE Claimants \ {t}
  BY <1>3 DEF Claimants, WritePCs
<1>6. /\ t \in Announced <=> from \in ReadPCs
      /\ t \in Claimants <=> from \in WritePCs
  BY <1>1 DEF Announced, Claimants, ReadPCs, WritePCs
<1> QED
  BY <1>2, <1>4, <1>5, <1>6

\* Both counted sets are finite, so one thread more or less is one unit of the word.
LEMMA CountSteps ==
  ASSUME NEW t \in Threads
  PROVE  /\ Cardinality(Announced) \in Nat
         /\ Cardinality(Announced \cup {t}) =
              IF t \in Announced THEN Cardinality(Announced) ELSE Cardinality(Announced) + 1
         /\ Cardinality(Announced \ {t}) =
              IF t \in Announced THEN Cardinality(Announced) - 1 ELSE Cardinality(Announced)
         /\ Cardinality(Announced) = 0 <=> Announced = {}
         /\ Cardinality(Claimants) \in Nat
         /\ Cardinality(Claimants \cup {t}) =
              IF t \in Claimants THEN Cardinality(Claimants) ELSE Cardinality(Claimants) + 1
         /\ Cardinality(Claimants \ {t}) =
              IF t \in Claimants THEN Cardinality(Claimants) - 1 ELSE Cardinality(Claimants)
         /\ Cardinality(Claimants) = 0 <=> Claimants = {}
<1>1. IsFiniteSet(Announced) /\ IsFiniteSet(Claimants)
  <2>1. Announced \in SUBSET Threads /\ Claimants \in SUBSET Threads
    BY DEF Announced, Claimants
  <2> QED
    BY <2>1, FS_Subset, ThreadsFinite
<1>2. Cardinality(Announced) \in Nat /\ Cardinality(Claimants) \in Nat
  BY <1>1, FS_CardinalityType
<1>3. /\ Cardinality(Announced) = 0 <=> Announced = {}
      /\ Cardinality(Claimants) = 0 <=> Claimants = {}
  BY <1>1, FS_EmptySet
<1>4. /\ Cardinality(Announced \cup {t}) =
           IF t \in Announced THEN Cardinality(Announced) ELSE Cardinality(Announced) + 1
      /\ Cardinality(Claimants \cup {t}) =
           IF t \in Claimants THEN Cardinality(Claimants) ELSE Cardinality(Claimants) + 1
  BY <1>1, FS_AddElement
<1>5. /\ Cardinality(Announced \ {t}) =
           IF t \in Announced THEN Cardinality(Announced) - 1 ELSE Cardinality(Announced)
      /\ Cardinality(Claimants \ {t}) =
           IF t \in Claimants THEN Cardinality(Claimants) - 1 ELSE Cardinality(Claimants)
  BY <1>1, FS_RemoveElement
<1> QED
  BY <1>2, <1>3, <1>4, <1>5

\* Before any thread has called the lock, both words are 0 and nobody is counted.
LEMMA InitIInv == Init => IInv
<1> SUFFICES ASSUME Init PROVE IInv
  OBVIOUS
<1>1. TypeOK
  BY DEF Init, TypeOK, PCs
<1>2. Announced = {} /\ Claimants = {}
  BY DEF Init, Announced, Claimants
<1>3. WordsExact
  BY <1>2, FS_EmptySet DEF Init, WordsExact
<1> QED
  BY <1>1, <1>3 DEF IInv

\* A step that moves a thread between two places counted alike, neither of
\* them inside a section, changes nothing the invariant speaks of.
LEMMA QuietStep ==
  ASSUME IInv, NEW t \in Threads, NEW from \in PCs, NEW to \in PCs,
         Goto(t, from, to), UNCHANGED <<write, read>>,
         to \in ReadPCs <=> from \in ReadPCs,
         to \in WritePCs <=> from \in WritePCs,
         to # "reading", to # "writing"
  PROVE  IInv'
<1>1. /\ pc' \in [Threads -> PCs]
      /\ Announced' = Announced
      /\ Claimants' = Claimants
  BY GotoSets DEF IInv, TypeOK
<1>2. TypeOK'
  BY <1>1 DEF IInv, TypeOK
<1>3. \A u \in Threads : pc'[u] = IF u = t THEN to ELSE pc[u]
  BY DEF Goto, IInv, TypeOK
<1>4. (\E a \in Threads : pc'[a] = "writing") => \A u \in Threads : pc'[u] # "reading"
  BY <1>3 DEF IInv, WordsExact
<1>5. WordsExact'
  <2>1. read' = Cardinality(Announced') /\ write' = Cardinality(Claimants')
    BY <1>1 DEF IInv, WordsExact
  <2>2. \A a, b \in Claimants' : a = b
    BY <1>1 DEF IInv, WordsExact
  <2> QED
    BY <1>4, <2>1, <2>2 DEF WordsExact
<1> QED
  BY <1>2, <1>5 DEF IInv

\* Every step of every thread keeps the lock words exact.
LEMMA StepIInv == IInv /\ [Next]_vars => IInv'
<1> SUFFICES ASSUME IInv, [Next]_vars PROVE IInv'
  OBVIOUS
<1>0. CASE UNCHANGED vars
  BY <1>0 DEF vars, PCs, IInv, TypeOK, WordsExact, Announced, Claimants
<1>1. CASE Next
  <2>0. PICK t \in Threads : Call(t) \/ Step(t)
    BY <1>1 DEF Next
  <2>a. \A from, to \in PCs :
          Goto(t, from, to) =>
            /\ pc' \in [Threads -> PCs]
            /\ Announced' = IF to \in ReadPCs THEN Announced \cup {t} ELSE Announced \ {t}
            /\ Claimants' = IF to \in WritePCs THEN Claimants \cup {t} ELSE Claimants \ {t}
            /\ t \in Announced <=> from \in ReadPCs
            /\ t \in Claimants <=> from \in WritePCs
    BY GotoSets DEF IInv, TypeOK
  <2>b. \A from, to \in PCs :
          Goto(t, from, to) => \A u \in Threads : pc'[u] = IF u = t THEN to ELSE pc[u]
    BY DEF Goto, IInv, TypeOK
  <2>1. CASE CallReadLock(t)
    <3>1. Goto(t, "out", "rspin") /\ UNCHANGED <<write, read>>
      BY <2>1 DEF CallReadLock
    <3> QED BY <3>1, QuietStep DEF PCs, ReadPCs, WritePCs
  <2>2. CASE CallWriteLock(t)
    <3>1. Goto(t, "out", "wspin") /\ UNCHANGED <<write, read>>
      BY <2>2 DEF CallWriteLock
    <3> QED BY <3>1, QuietStep DEF PCs, ReadPCs, WritePCs
  <2>3. CASE ReadSpin(t)
    <3>1. Goto(t, "rspin", "rinc") /\ UNCHANGED <<write, read>>
      BY <2>3 DEF ReadSpin
    <3> QED BY <3>1, QuietStep DEF PCs, ReadPCs, WritePCs
  <2>c. ASSUME Goto(t, "rcheck", "rundo"), UNCHANGED <<write, read>>
        PROVE  IInv'
    BY <2>c, QuietStep DEF PCs, ReadPCs, WritePCs
  <2>4. CASE ReadAnnounce(t)
    <3>1. Goto(t, "rinc", "rcheck") /\ read' = read + 1 /\ write' = write
      BY <2>4 DEF ReadAnnounce
    <3>2. Announced' = Announced \cup {t} /\ t \notin Announced /\ Claimants' = Claimants
      BY <3>1, <2>a DEF PCs, ReadPCs, WritePCs
    <3> USE CountSteps DEF IInv, TypeOK, WordsExact, ReadPCs, WritePCs, PCs
    <3>3. TypeOK'
      BY <3>1, <3>2, <2>a, <2>b
    <3>4. read' = Cardinality(Announced') /\ write' = Cardinality(Claimants')
      BY <3>1, <3>2, <2>a, <2>b
    <3>5. \A a, b \in Claimants' : a = b
      BY <3>1, <3>2, <2>a, <2>b
    <3>6. (\E a \in Threads : pc'[a] = "writing") => \A u \in Threads : pc'[u] # "reading"
      BY <3>1, <3>2, <2>a, <2>b
    <3> QED BY <3>3, <3>4, <3>5, <3>6
  <2>5. CASE ReadCheck(t)
    <3>1. CASE write = 0 /\ Goto(t, "rcheck", "reading") /\ UNCHANGED <<write, read>>
      <4>1. Announced' = Announced /\ Claimants' = Claimants
        BY <3>1, <2>a DEF PCs, ReadPCs, WritePCs
      <4> USE CountSteps DEF IInv, TypeOK, WordsExact, ReadPCs, WritePCs, PCs
      <4>2. Claimants = {}
        BY <3>1
      <4>3. \A u \in Threads : pc'[u] # "writing"
        BY <4>2, <3>1, <2>b DEF Claimants
      <4> QED BY <3>1, <4>1, <4>3, <2>a
    <3>2. CASE write # 0 /\ Goto(t, "rcheck", "rundo") /\ UNCHANGED <<write, read>>
      BY <3>2, <2>c
    <3> QED BY <2>5, <3>1, <3>2 DEF ReadCheck
  <2>6. CASE ReadUndo(t)
    <3>1. Goto(t, "rundo", "rspin") /\ read' = read - 1 /\ write' = write
      BY <2>6 DEF ReadUndo
    <3>2. Announced' = Announced \ {t} /\ t \in Announced /\ Claimants' = Claimants
      BY <3>1, <2>a DEF PCs, ReadPCs, WritePCs
    <3> USE CountSteps DEF IInv, TypeOK, WordsExact, ReadPCs, WritePCs, PCs
    <3>3. read # 0
      BY <3>2
    <3>4. TypeOK'
      BY <3>1, <3>2, <3>3, <2>a, <2>b
    <3>5. read' = Cardinality(Announced') /\ write' = Cardinality(Claimants')
      <4>1. Cardinality(Announced') = Cardinality(Announced) - 1
        BY <3>2, CountSteps
      <4>2. Cardinality(Claimants') = Cardinality(Claimants)
        BY <3>2
      <4> QED BY <3>1, <4>1, <4>2
    <3>6. \A a, b \in Claimants' : a = b
      BY <3>1, <3>2, <3>3, <2>a, <2>b
    <3>7. (\E a \in Threads : pc'[a] = "writing") => \A u \in Threads : pc'[u] # "reading"
      BY <3>1, <3>2, <3>3, <2>a, <2>b
    <3> QED BY <3>4, <3>5, <3>6, <3>7
  <2>7. CASE ReadUnlock(t)
    <3>1. Goto(t, "reading", "out") /\ read' = read - 1 /\ write' = write
      BY <2>7 DEF ReadUnlock
    <3>2. Announced' = Announced \ {t} /\ t \in Announced /\ Claimants' = Claimants
      BY <3>1, <2>a DEF PCs, ReadPCs, WritePCs
    <3> USE CountSteps DEF IInv, TypeOK, WordsExact, ReadPCs, WritePCs, PCs
    <3>3. read # 0
      BY <3>2
    <3>4. TypeOK'
      BY <3>1, <3>2, <3>3, <2>a, <2>b
    <3>5. read' = Cardinality(Announced') /\ write' = Cardinality(Claimants')
      <4>1. Cardinality(Announced') = Cardinality(Announced) - 1
        BY <3>2, CountSteps
      <4>2. Cardinality(Claimants') = Cardinality(Claimants)
        BY <3>2
      <4> QED BY <3>1, <4>1, <4>2
    <3>6. \A a, b \in Claimants' : a = b
      BY <3>1, <3>2, <3>3, <2>a, <2>b
    <3>7. (\E a \in Threads : pc'[a] = "writing") => \A u \in Threads : pc'[u] # "reading"
      BY <3>1, <3>2, <3>3, <2>a, <2>b
    <3> QED BY <3>4, <3>5, <3>6, <3>7
  <2>8. CASE WriteClaim(t)
    <3>1. write = 0 /\ Goto(t, "wspin", "wdrain") /\ write' = 1 /\ read' = read
      BY <2>8 DEF WriteClaim
    <3>2. Announced' = Announced /\ Claimants' = Claimants \cup {t} /\ t \notin Claimants
      BY <3>1, <2>a DEF PCs, ReadPCs, WritePCs
    <3> USE CountSteps DEF IInv, TypeOK, WordsExact, ReadPCs, WritePCs, PCs
    <3>3. Claimants = {}
      BY <3>1
    <3>4. TypeOK'
      BY <3>1, <3>2, <3>3, <2>a, <2>b
    <3>5. read' = Cardinality(Announced') /\ write' = Cardinality(Claimants')
      <4>1. Cardinality(Claimants') = 1
        <5>1. Claimants' = {t}
          BY <3>2, <3>3
        <5> QED BY <5>1, FS_Singleton
      <4>2. Cardinality(Announced') = Cardinality(Announced)
        BY <3>2
      <4> QED BY <3>1, <4>1, <4>2
    <3>6. \A a, b \in Claimants' : a = b
      BY <3>1, <3>2, <3>3, <2>a, <2>b
    <3>7. (\E a \in Threads : pc'[a] = "writing") => \A u \in Threads : pc'[u] # "reading"
      BY <3>1, <3>2, <3>3, <2>a, <2>b
    <3> QED BY <3>4, <3>5, <3>6, <3>7
  <2>9. CASE WriteDrain(t)
    <3>1. read = 0 /\ Goto(t, "wdrain", "writing") /\ UNCHANGED <<write, read>>
      BY <2>9 DEF WriteDrain
    <3>2. Announced' = Announced /\ Claimants' = Claimants
      BY <3>1, <2>a DEF PCs, ReadPCs, WritePCs
    <3> USE CountSteps DEF IInv, TypeOK, WordsExact, ReadPCs, WritePCs, PCs
    <3>3. Announced = {}
      BY <3>1
    <3>4. \A u \in Threads : pc'[u] # "reading"
      BY <3>3, <3>1, <2>b DEF Announced
    <3> QED BY <3>1, <3>2, <3>4, <2>a
  <2>10. CASE WriteUnlock(t)
    <3>1. Goto(t, "writing", "out") /\ write' = 0 /\ read' = read
      BY <2>10 DEF WriteUnlock
    <3>2. Announced' = Announced /\ Claimants' = Claimants \ {t} /\ t \in Claimants
      BY <3>1, <2>a DEF PCs, ReadPCs, WritePCs
    <3> USE CountSteps DEF IInv, TypeOK, WordsExact, ReadPCs, WritePCs, PCs
    <3>3. Claimants' = {}
      BY <3>2
    <3>4. TypeOK'
      BY <3>1, <3>2, <3>3, <2>a, <2>b
    <3>5. read' = Cardinality(Announced') /\ write' = Cardinality(Claimants')
      <4>1. Cardinality(Claimants') = 0
        BY <3>3, FS_EmptySet
      <4>2. Cardinality(Announced') = Cardinality(Announced)
        BY <3>2
      <4> QED BY <3>1, <4>1, <4>2
    <3>6. \A a, b \in Claimants' : a = b
      BY <3>1, <3>2, <3>3, <2>a, <2>b
    <3>7. (\E a \in Threads : pc'[a] = "writing") => \A u \in Threads : pc'[u] # "reading"
      BY <3>1, <3>2, <3>3, <2>a, <2>b
    <3> QED BY <3>4, <3>5, <3>6, <3>7
  <2> QED
    BY <2>0, <2>1, <2>2, <2>3, <2>4, <2>5, <2>6, <2>7, <2>8, <2>9, <2>10 DEF Call, Step
<1> QED
  BY <1>0, <1>1

\* The inductive invariant of the lock holds in every reachable state, for
\* any number of threads.
THEOREM Invariance == Spec => []IInv
<1>1. Init => IInv
  BY InitIInv
<1>2. IInv /\ [Next]_vars => IInv'
  BY StepIInv
<1> QED
  BY <1>1, <1>2, PTL DEF Spec

\* The lock words stay in range: lock->read never underflows although both the
\* backing-off reader and rwlock_runlock decrement it.
THEOREM TypeCorrect == Spec => []TypeOK
<1>1. IInv => TypeOK
  BY DEF IInv
<1> QED
  BY <1>1, Invariance, PTL

\* What handlemap.c relies on: a thread in the write section is alone, so
\* expand_map frees the slot array while nobody reads it.
THEOREM WriterExcludesAll == Spec => []MutualExclusion
<1>1. IInv => MutualExclusion
  BY DEF IInv, WordsExact, MutualExclusion, Claimants
<1> QED
  BY <1>1, Invariance, PTL

\* The spin lock implements the abstract readers-writer lock: the steps that
\* move a thread into or out of a section are abstract steps, the others stutter.
THEOREM Refinement == Spec => Implements
<1>1. Init => RW!Init
  BY DEF Init, RW!Init
<1>2. IInv /\ [Next]_vars => [RW!Next]_RW!vars
  <2> SUFFICES ASSUME IInv, [Next]_vars PROVE [RW!Next]_RW!vars
    OBVIOUS
  <2> DEFINE readers == {t \in Threads : pc[t] = "reading"}
             writers == {t \in Threads : pc[t] = "writing"}
  <2> USE DEF IInv, TypeOK
  <2>0. CASE UNCHANGED vars
    BY <2>0 DEF vars, RW!vars
  <2>1. CASE Next
    <3>0. PICK t \in Threads : Call(t) \/ Step(t)
      BY <2>1 DEF Next
    <3>a. \A from, to :
            Goto(t, from, to) =>
              /\ readers' = IF to = "reading" THEN readers \cup {t} ELSE readers \ {t}
              /\ writers' = IF to = "writing" THEN writers \cup {t} ELSE writers \ {t}
              /\ t \in readers <=> from = "reading"
              /\ t \in writers <=> from = "writing"
      BY DEF Goto
    <3> HIDE DEF readers, writers
    <3>1. CASE \E from, to \in PCs \ {"reading", "writing"} : Goto(t, from, to)
      <4>1. readers' = readers /\ writers' = writers
        BY <3>1, <3>a
      <4> QED BY <4>1 DEF RW!vars, readers, writers
    <3>2. CASE ReadCheck(t) /\ write = 0
      <4>1. Goto(t, "rcheck", "reading")
        BY <3>2 DEF ReadCheck
      <4>2. Claimants = {}
        BY <3>2, CountSteps DEF WordsExact
      <4>3. writers = {} /\ writers' = {} /\ t \notin readers /\ readers' = readers \cup {t}
        BY <4>1, <4>2, <3>a DEF writers, Claimants
      <4>4. RW!EnterRead(t)
        BY <4>3 DEF RW!EnterRead, readers, writers
      <4> QED BY <4>4 DEF RW!Next
    <3>3. CASE ReadUnlock(t)
      <4>1. Goto(t, "reading", "out")
        BY <3>3 DEF ReadUnlock
      <4>2. t \in readers /\ readers' = readers \ {t} /\ writers' = writers
        BY <4>1, <3>a
      <4>3. RW!LeaveRead(t)
        BY <4>2 DEF RW!LeaveRead, readers, writers
      <4> QED BY <4>3 DEF RW!Next
    <3>4. CASE WriteDrain(t)
      <4>1. Goto(t, "wdrain", "writing") /\ read = 0
        BY <3>4 DEF WriteDrain
      <4>2. Announced = {} /\ t \in Claimants
        BY <4>1, CountSteps DEF WordsExact, Claimants, Goto
      <4>3. readers = {} /\ writers = {}
        BY <4>1, <4>2, <3>a DEF readers, writers, Announced, Claimants, WordsExact
      <4>4. readers' = {} /\ writers' = {t}
        BY <4>1, <4>3, <3>a
      <4>5. RW!EnterWrite(t)
        BY <4>3, <4>4 DEF RW!EnterWrite, readers, writers
      <4> QED BY <4>5 DEF RW!Next
    <3>5. CASE WriteUnlock(t)
      <4>1. Goto(t, "writing", "out")
        BY <3>5 DEF WriteUnlock
      <4>2. t \in writers /\ writers' = writers \ {t} /\ readers' = readers
        BY <4>1, <3>a
      <4>3. RW!LeaveWrite(t)
        BY <4>2 DEF RW!LeaveWrite, readers, writers
      <4> QED BY <4>3 DEF RW!Next
    <3>6. \/ \E from, to \in PCs \ {"reading", "writing"} : Goto(t, from, to)
          \/ ReadCheck(t) /\ write = 0
          \/ ReadUnlock(t) \/ WriteDrain(t) \/ WriteUnlock(t)
      BY <3>0 DEF Call, Step, CallReadLock, CallWriteLock, ReadSpin, ReadAnnounce,
                  ReadCheck, ReadUndo, WriteClaim, PCs
    <3> QED
      BY <3>1, <3>2, <3>3, <3>4, <3>5, <3>6
  <2> QED
    BY <2>0, <2>1
<1> QED
  BY <1>1, <1>2, Invariance, PTL DEF Spec, Implements, RW!Spec

=============================================================================
