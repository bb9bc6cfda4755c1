-------------------------- MODULE Concurrent_proofs -------------------------
(***************************************************************************)
(* Proofs for the gPb library's threads and two of its locks, for any      *)
(* threads, jobs and processors.                                           *)
(*                                                                         *)
(* The readers/writers lock.  Exclusion alone is not inductive: a writer   *)
(* is let in because _write_mutex is free, which means that nobody reads   *)
(* only as long as the counter is exact, which in turn holds because       *)
(* _rcnt_mutex and the gate guard their sections.  IInv is the conjunction *)
(* of these.                                                               *)
(*                                                                         *)
(* The semaphore.  At most one thread is responsible for unlocking         *)
(* _access_mutex, and only then may the mutex be locked although the value *)
(* is positive: this is what makes the value positive when a thread comes  *)
(* to decrement it.                                                        *)
(*                                                                         *)
(* The child threads.  RunIInv says how far the threads of a job are       *)
(* against the job, and how far the members of a group are against its     *)
(* thread; what a job has raised is part of it, since the job above takes  *)
(* it over.  The division of children and processors (DivisionOK,          *)
(* SharesOK) is arithmetic, proved apart from the steps.  That no more     *)
(* leaves are at work than there are processors follows from RunIInv,      *)
(* going up the tree of jobs: a group has at most one member at work.      *)
(***************************************************************************)
EXTENDS SynchronizedRW, Semaphore, ChildThreads, FiniteSums

USE DEF Has, GateSection, CounterSection, CountedSection

-----------------------------------------------------------------------------
(* The threads are finitely many, and so are those of any kind.            *)
LEMMA ThreadSets ==
  ASSUME NEW S \in SUBSET Threads
  PROVE  /\ IsFiniteSet(S)
         /\ Cardinality(S) \in Nat
         /\ Cardinality(S) = 0 <=> S = {}
  BY ThreadsAssumption, FS_Subset, FS_CardinalityType, FS_EmptySet

LEMMA CountedFinite == IsFiniteSet(Counted) /\ Cardinality(Counted) \in Nat
  BY ThreadSets DEF Counted

(* The counter is zero exactly when there is no reader.                    *)
LEMMA NoneCounted ==
  ASSUME CountIsReaders
  PROVE  nReaders = 0 <=> \A t \in Threads : ~Has(t, CountedSection)
<1>1. Counted = {} <=> \A t \in Threads : ~Has(t, CountedSection)
  BY DEF Counted
<1> QED
  BY <1>1, CountedFinite, FS_EmptySet DEF CountIsReaders

(* A thread that moves within, or outside, the counted section does not    *)
(* change the counter's meaning; one that enters or leaves it does by one. *)
LEMMA CountStep ==
  ASSUME TypeOK, CountIsReaders, NEW t \in Threads, NEW to \in Locations,
         pc' = [pc EXCEPT ![t] = to],
         \/ /\ pc[t] \in CountedSection <=> to \in CountedSection
            /\ nReaders' = nReaders
         \/ /\ pc[t] \notin CountedSection /\ to \in CountedSection
            /\ nReaders' = nReaders + 1
         \/ /\ pc[t] \in CountedSection /\ to \notin CountedSection
            /\ nReaders' = nReaders - 1
  PROVE  CountIsReaders'
<1>1. \A u \in Threads : pc'[u] = IF u = t THEN to ELSE pc[u]
  BY DEF TypeOK
<1>2. CASE /\ pc[t] \in CountedSection <=> to \in CountedSection
           /\ nReaders' = nReaders
  <2>1. Counted' = Counted
    BY <1>1, <1>2 DEF Counted
  <2> QED
    BY <1>2, <2>1 DEF CountIsReaders
<1>3. CASE /\ pc[t] \notin CountedSection /\ to \in CountedSection
           /\ nReaders' = nReaders + 1
  <2>1. Counted' = Counted \cup {t} /\ t \notin Counted
    BY <1>1, <1>3 DEF Counted
  <2> QED
    BY <1>3, <2>1, CountedFinite, FS_AddElement DEF CountIsReaders
<1>4. CASE /\ pc[t] \in CountedSection /\ to \notin CountedSection
           /\ nReaders' = nReaders - 1
  <2>1. Counted' = Counted \ {t} /\ t \in Counted
    BY <1>1, <1>4 DEF Counted
  <2> QED
    BY <1>4, <2>1, CountedFinite, FS_RemoveElement DEF CountIsReaders
<1> QED
  BY <1>2, <1>3, <1>4

-----------------------------------------------------------------------------
(* Each step preserves the inductive invariant; one step per operation.    *)
LEMMA Inductive == IInv /\ [Next]_vars => IInv'
<1> SUFFICES ASSUME IInv, [Next]_vars PROVE IInv'
  OBVIOUS
<1>1. CASE UNCHANGED vars
  BY <1>1 DEF IInv, vars, TypeOK, Guards, CountIsReaders, Counted, WriteMutexHeld, WriterAlone
<1>2. ASSUME NEW t \in Threads, NEW gate \in {"r_gate", "w_gate"}, Call(t, gate)
      PROVE  IInv'
  <2>1. CountIsReaders'
    BY <1>2, CountStep DEF Call, Go, IInv, Locations
  <2> QED
    BY <1>2, <2>1 DEF Call, Go, IInv, TypeOK, Locations, Guards, WriteMutexHeld, WriterAlone
<1>3. ASSUME NEW t \in Threads, Suspend(t) PROVE IInv'
  BY <1>3 DEF Suspend, IInv, TypeOK, Locations, Guards, CountIsReaders, Counted,
              WriteMutexHeld, WriterAlone
<1>4. ASSUME NEW t \in Threads, 
             \/ TakeGate(t, "r_gate", "r_rcnt")
             \/ TakeGate(t, "w_gate", "w_write")
      PROVE  IInv'
  <2>1. CountIsReaders'
    BY <1>4, CountStep DEF TakeGate, Go, IInv, Locations
  <2>2. TypeOK'
    <3>1. ahead' \in [Threads -> SUBSET Threads] /\ suspended' \subseteq Threads
      BY <1>4 DEF TakeGate, Admit, IInv, TypeOK
    <3> QED
      BY <1>4, <3>1 DEF TakeGate, Go, IInv, TypeOK, Locations
  <2> QED
    BY <1>4, <2>1, <2>2 DEF TakeGate, Go, IInv, TypeOK, Guards, WriteMutexHeld, WriterAlone
<1>5. ASSUME NEW t \in Threads, 
             \/ LeaveGate(t, "r_pass", "reading")
             \/ LeaveGate(t, "w_pass", "idle")
      PROVE  IInv'
  <2>1. CountIsReaders'
    BY <1>5, CountStep DEF LeaveGate, Go, IInv, Locations
  <2>2. TypeOK'
    BY <1>5 DEF LeaveGate, gateVars, Go, IInv, TypeOK, Locations
  <2> QED
    BY <1>5, <2>1, <2>2 DEF LeaveGate, Go, IInv, TypeOK, Guards, WriteMutexHeld, WriterAlone
<1>6. ASSUME NEW t \in Threads, 
             \/ TakeCounter(t, "r_rcnt", "r_first")
             \/ TakeCounter(t, "u_rcnt", "u_count")
      PROVE  IInv'
  <2>1. CountIsReaders'
    BY <1>6, CountStep DEF TakeCounter, Go, IInv, Locations
  <2>2. TypeOK'
    BY <1>6 DEF TakeCounter, gateVars, Go, IInv, TypeOK, Locations
  <2> QED
    BY <1>6, <2>1, <2>2 DEF TakeCounter, Go, IInv, TypeOK, Guards, WriteMutexHeld, WriterAlone
<1>7. ASSUME NEW t \in Threads, FirstReader(t) PROVE IInv'
  <2>1. CountIsReaders'
    BY <1>7, CountStep DEF FirstReader, Go, IInv, Locations
  <2>2. TypeOK'
    BY <1>7 DEF FirstReader, gateVars, Go, IInv, TypeOK, Locations
  <2>3. Guards(readMutex, GateSection)' /\ Guards(rcntMutex, CounterSection)'
    BY <1>7 DEF FirstReader, Go, IInv, TypeOK, Guards
  <2>4. WriteMutexHeld' /\ WriterAlone'
    BY <1>7, NoneCounted DEF FirstReader, Go, IInv, TypeOK, Guards, WriteMutexHeld, WriterAlone
  <2> QED
    BY <2>1, <2>2, <2>3, <2>4 DEF IInv
<1>8. ASSUME NEW t \in Threads, CountReader(t) PROVE IInv'
  <2>1. CountIsReaders'
    BY <1>8, CountStep DEF CountReader, Go, IInv, Locations
  <2>2. TypeOK'
    <3>1. nReaders' \in Nat
      BY <1>8 DEF CountReader, IInv, TypeOK
    <3> QED
      BY <1>8, <3>1 DEF CountReader, gateVars, Go, IInv, TypeOK, Locations
  <2> QED
    BY <1>8, <2>1, <2>2 DEF CountReader, Go, IInv, TypeOK, Guards, WriteMutexHeld, WriterAlone
<1>9. ASSUME NEW t \in Threads, CallReadUnlock(t) PROVE IInv'
  <2>1. CountIsReaders'
    BY <1>9, CountStep DEF CallReadUnlock, Go, IInv, Locations
  <2>2. TypeOK'
    BY <1>9 DEF CallReadUnlock, gateVars, Go, IInv, TypeOK, Locations
  <2> QED
    BY <1>9, <2>1, <2>2 DEF CallReadUnlock, Go, IInv, TypeOK, Guards, WriteMutexHeld, WriterAlone
<1>10. ASSUME NEW t \in Threads, UncountReader(t) PROVE IInv'
  <2>0. nReaders # 0
    BY <1>10, NoneCounted DEF UncountReader, Go, IInv
  <2>1. CountIsReaders'
    BY <1>10, CountStep DEF UncountReader, Go, IInv, Locations
  <2>2. TypeOK'
    BY <1>10, <2>0 DEF UncountReader, gateVars, Go, IInv, TypeOK, Locations
  <2>3. Guards(readMutex, GateSection)' /\ Guards(rcntMutex, CounterSection)'
    BY <1>10 DEF UncountReader, Go, IInv, TypeOK, Guards
  <2>4. nReaders' = 0 <=> \A u \in Threads : ~Has(u, CountedSection)'
    BY <2>1, ThreadSets DEF CountIsReaders, Counted
  <2>5. nReaders' = 0 <=> nReaders = 1
    BY <1>10, <2>0 DEF UncountReader, IInv, TypeOK
  <2>6. WriterAlone'
    BY <1>10 DEF UncountReader, Go, IInv, TypeOK, WriterAlone
  <2>7. \A u \in Threads : pc'[u] \notin {"r_count", "writing"}
    BY <1>10 DEF UncountReader, Go, IInv, TypeOK, Guards, WriterAlone
  <2>8. writeMutex
    BY <1>10 DEF UncountReader, Go, IInv, WriteMutexHeld
  <2>9. writeMutex' <=> nReaders' # 0
    BY <1>10, <2>5, <2>8 DEF UncountReader
  <2>10. WriteMutexHeld'
    BY <2>4, <2>7, <2>9 DEF WriteMutexHeld
  <2> QED
    BY <2>1, <2>2, <2>3, <2>6, <2>10 DEF IInv
<1>11. ASSUME NEW t \in Threads, LeaveCounter(t) PROVE IInv'
  <2>1. CountIsReaders'
    BY <1>11, CountStep DEF LeaveCounter, Go, IInv, Locations
  <2>2. TypeOK'
    BY <1>11 DEF LeaveCounter, gateVars, Go, IInv, TypeOK, Locations
  <2> QED
    BY <1>11, <2>1, <2>2 DEF LeaveCounter, Go, IInv, TypeOK, Guards, WriteMutexHeld, WriterAlone
<1>12. ASSUME NEW t \in Threads, TakeWrite(t) PROVE IInv'
  <2>1. CountIsReaders'
    BY <1>12, CountStep DEF TakeWrite, Go, IInv, Locations
  <2>2. TypeOK'
    BY <1>12 DEF TakeWrite, gateVars, Go, IInv, TypeOK, Locations
  <2> QED
    BY <1>12, <2>1, <2>2 DEF TakeWrite, Go, IInv, TypeOK, Guards, WriteMutexHeld, WriterAlone
<1>13. ASSUME NEW t \in Threads, LeaveWrite(t) PROVE IInv'
  <2>1. CountIsReaders'
    BY <1>13, CountStep DEF LeaveWrite, Go, IInv, Locations
  <2>2. TypeOK'
    BY <1>13 DEF LeaveWrite, gateVars, Go, IInv, TypeOK, Locations
  <2> QED
    BY <1>13, <2>1, <2>2 DEF LeaveWrite, Go, IInv, TypeOK, Guards, WriteMutexHeld, WriterAlone
<1> QED
  BY <1>1, <1>2, <1>3, <1>4, <1>5, <1>6, <1>7, <1>8, <1>9, <1>10, <1>11, <1>12, <1>13
  DEF Next, ReadLock, ReadUnlock, WriteLock, WriteUnlock

LEMMA Initially == Init => IInv
<1> SUFFICES ASSUME Init PROVE IInv
  OBVIOUS
<1>1. Counted = {}
  BY DEF Init, Counted
<1> QED
  BY <1>1, FS_EmptySet
  DEF Init, IInv, TypeOK, Locations, Guards, CountIsReaders, WriteMutexHeld, WriterAlone

(* Every reachable state satisfies the inductive invariant.                *)
THEOREM Invariance == Spec => []IInv
  BY Initially, Inductive, PTL DEF Spec

(* While a writer is active no other thread reads or writes: the promise   *)
(* of synchronized_rw.hh, for any number of threads.                       *)
THEOREM WriterExcludes == Spec => []Exclusion
<1>1. IInv => Exclusion
  BY DEF IInv, WriterAlone, Exclusion
<1> QED
  BY <1>1, Invariance, PTL

(* The counter of readers is exact at every step, so it never underflows.  *)
THEOREM CounterExact == Spec => []CountIsReaders
<1>1. IInv => CountIsReaders
  BY DEF IInv
<1> QED
  BY <1>1, Invariance, PTL

-----------------------------------------------------------------------------
(* A writer that waits at the gate is passed by no reader: a reader is let *)
(* in by CountReader alone, in the section that the writer is in.          *)
THEOREM WriterNotPassed == Spec => NoReaderPassesWriter
<1>1. IInv /\ [Next]_vars =>
        [(\E w \in Threads : pc[w] = "w_write") =>
           \A t \in Threads : pc'[t] = "r_pass" => pc[t] = "r_pass"]_vars
  <2> SUFFICES ASSUME IInv, Next, NEW w \in Threads, pc[w] = "w_write",
                      NEW t \in Threads, pc'[t] = "r_pass", pc[t] # "r_pass"
               PROVE  FALSE
    BY DEF vars
  <2>1. pc[t] # "r_count"
    BY DEF IInv, Guards
  <2>2. PICK u \in Threads : \/ Call(u, "r_gate") \/ Call(u, "w_gate") \/ Suspend(u)
                             \/ ReadLock(u) \/ ReadUnlock(u) \/ WriteLock(u) \/ WriteUnlock(u)
    BY DEF Next
  <2>3. pc' = pc \/ \E from \in Locations, to \in Locations :
                       Go(u, from, to) /\ (to = "r_pass" => from = "r_count")
    BY <2>2 DEF Call, Suspend, ReadLock, ReadUnlock, WriteLock, WriteUnlock, TakeGate,
                TakeCounter, FirstReader, CountReader, LeaveGate, CallReadUnlock,
                UncountReader, LeaveCounter, TakeWrite, LeaveWrite, Locations, Go
  <2> QED
    BY <2>1, <2>3 DEF Go, IInv, TypeOK
<1> QED
  BY <1>1, Invariance, PTL DEF Spec, NoReaderPassesWriter

-----------------------------------------------------------------------------
(* The lock implements ReadersWriters.  The abstract variables are sets of *)
(* at most one thread; these two facts read them off.                      *)
LEMMA TheOneOfNone == TheOne({}) = NoThread
  BY DEF TheOne

LEMMA TheOneOfOne == ASSUME NEW t \in Threads PROVE TheOne({t}) = t
  BY DEF TheOne

(* The threads entering or writing when a thread does are that one alone.  *)
LEMMA Alone ==
  ASSUME IInv, NEW t \in Threads
  PROVE  /\ ~readMutex => EnteringThreads = {} /\ WritingThreads = {}
         /\ Has(t, {"r_rcnt", "r_first", "r_count", "w_write"})
              => EnteringThreads = {t} /\ WritingThreads = {}
         /\ Has(t, {"r_pass", "w_pass"}) => EnteringThreads = {} /\ WritingThreads = {}
         /\ pc[t] = "writing" => EnteringThreads = {} /\ WritingThreads = {t}
  BY DEF IInv, Guards, EnteringThreads, WritingThreads

(* What a step of one thread does to the three sets.                       *)
LEMMA SetsAfter ==
  ASSUME TypeOK, NEW t \in Threads, NEW from, NEW to, Go(t, from, to)
  PROVE  /\ EnteringThreads' = IF to \in {"r_rcnt", "r_first", "r_count", "w_write"}
                               THEN EnteringThreads \cup {t} ELSE EnteringThreads \ {t}
         /\ WritingThreads' = IF to = "writing"
                              THEN WritingThreads \cup {t} ELSE WritingThreads \ {t}
         /\ Counted' = IF to \in CountedSection THEN Counted \cup {t} ELSE Counted \ {t}
         /\ t \in EnteringThreads <=> from \in {"r_rcnt", "r_first", "r_count", "w_write"}
         /\ t \in WritingThreads <=> from = "writing"
         /\ t \in Counted <=> from \in CountedSection
  BY DEF Go, TypeOK, EnteringThreads, WritingThreads, Counted

RWStep == [RW!RWNext]_(RW!rwVars)

(* A step that leaves the three sets alone leaves the abstract lock alone. *)
LEMMA Stutter ==
  ASSUME EnteringThreads' = EnteringThreads, WritingThreads' = WritingThreads,
         Counted' = Counted
  PROVE  RWStep
  BY DEF RWStep, RW!rwVars

LEMMA StepImplements == IInv /\ [Next]_vars => RWStep
<1> SUFFICES ASSUME IInv, [Next]_vars PROVE RWStep
  OBVIOUS
<1> USE DEF RWStep, RW!RWNext
<1>0. TypeOK
  BY DEF IInv
<1>1. CASE UNCHANGED vars
  BY <1>1, Stutter DEF vars, EnteringThreads, WritingThreads, Counted
<1>2. ASSUME NEW t \in Threads, NEW gate \in {"r_gate", "w_gate"}, Call(t, gate)
      PROVE  RWStep
  BY <1>0, <1>2, SetsAfter, Stutter DEF Call
<1>3. ASSUME NEW t \in Threads, Suspend(t) PROVE RWStep
  BY <1>3, Stutter DEF Suspend, EnteringThreads, WritingThreads, Counted
<1>4. ASSUME NEW t \in Threads, NEW gate \in {"r_gate", "w_gate"},
             NEW to \in {"r_rcnt", "w_write"}, TakeGate(t, gate, to)
      PROVE  RW!Enter(t)
  <2>1. EnteringThreads' = {t} /\ WritingThreads' = {} /\ Counted' = Counted
    BY <1>0, <1>4, SetsAfter, Alone DEF TakeGate
  <2>2. EnteringThreads = {} /\ WritingThreads = {}
    BY <1>4, Alone DEF TakeGate
  <2> QED
    BY <2>1, <2>2, TheOneOfNone, TheOneOfOne DEF RW!Enter
<1>5. ASSUME NEW t \in Threads,
             \/ LeaveGate(t, "r_pass", "reading") \/ LeaveGate(t, "w_pass", "idle")
             \/ TakeCounter(t, "r_rcnt", "r_first") \/ TakeCounter(t, "u_rcnt", "u_count")
             \/ FirstReader(t) \/ CallReadUnlock(t) \/ LeaveCounter(t)
      PROVE  RWStep
  BY <1>0, <1>5, SetsAfter, Stutter
  DEF LeaveGate, TakeCounter, FirstReader, CallReadUnlock, LeaveCounter
<1>6. ASSUME NEW t \in Threads, CountReader(t) PROVE RW!StartRead(t)
  <2>1. EnteringThreads = {t} /\ WritingThreads = {}
    BY <1>6, Alone DEF CountReader, Go
  <2>2. EnteringThreads' = {} /\ WritingThreads' = {} /\ Counted' = Counted \cup {t}
    BY <1>0, <1>6, <2>1, SetsAfter DEF CountReader
  <2> QED
    BY <2>1, <2>2, TheOneOfNone, TheOneOfOne DEF RW!StartRead
<1>7. ASSUME NEW t \in Threads, UncountReader(t) PROVE RW!EndRead(t)
  <2>1. /\ EnteringThreads' = EnteringThreads /\ WritingThreads' = WritingThreads
        /\ Counted' = Counted \ {t} /\ t \in Counted
    BY <1>0, <1>7, SetsAfter DEF UncountReader
  <2> QED
    BY <2>1 DEF RW!EndRead
<1>8. ASSUME NEW t \in Threads, TakeWrite(t) PROVE RW!StartWrite(t)
  <2>1. EnteringThreads = {t} /\ WritingThreads = {}
    BY <1>8, Alone DEF TakeWrite, Go
  <2>2. Counted = {}
    BY <1>8 DEF TakeWrite, IInv, WriteMutexHeld, Counted
  <2>3. EnteringThreads' = {} /\ WritingThreads' = {t} /\ Counted' = {}
    BY <1>0, <1>8, <2>1, <2>2, SetsAfter DEF TakeWrite
  <2> QED
    BY <2>1, <2>2, <2>3, TheOneOfNone, TheOneOfOne DEF RW!StartWrite
<1>9. ASSUME NEW t \in Threads, LeaveWrite(t) PROVE RW!EndWrite(t)
  <2>1. EnteringThreads = {} /\ WritingThreads = {t}
    BY <1>9, Alone DEF LeaveWrite, Go
  <2>2. EnteringThreads' = {} /\ WritingThreads' = {} /\ Counted' = Counted
    BY <1>0, <1>9, <2>1, SetsAfter DEF LeaveWrite
  <2> QED
    BY <2>1, <2>2, TheOneOfNone, TheOneOfOne DEF RW!EndWrite
<1> QED
  BY <1>1, <1>2, <1>3, <1>4, <1>5, <1>6, <1>7, <1>8, <1>9
  DEF Next, ReadLock, ReadUnlock, WriteLock, WriteUnlock

(* Every behaviour of the three mutexes and the counter is one of the      *)
(* readers/writers lock of the header.                                     *)
THEOREM Implementation == Spec => ImplementsReadersWriters
<1>1. Init => RW!RWInit
  <2> SUFFICES ASSUME Init PROVE RW!RWInit
    OBVIOUS
  <2>1. EnteringThreads = {} /\ WritingThreads = {} /\ Counted = {}
    BY DEF Init, EnteringThreads, WritingThreads, Counted
  <2> QED
    BY <2>1, TheOneOfNone DEF RW!RWInit
<1>2. IInv /\ [Next]_vars => [RW!RWNext]_(RW!rwVars)
  BY StepImplements DEF RWStep
<1> QED
  BY <1>1, <1>2, Invariance, PTL DEF Spec, ImplementsReadersWriters, RW!RWSpec

-----------------------------------------------------------------------------
(* The semaphore.                                                          *)

LEMMA SemInitially == SemInit => SemIInv
<1> SUFFICES ASSUME SemInit PROVE SemIInv
  OBVIOUS
<1>1. accessMutex <=> value = 0
  BY Zenon DEF SemInit
<1>2. \A t \in Threads : ~Holds(t)
  BY Zenon DEF SemInit, Holds
<1>3. accessMutex \in BOOLEAN /\ unlock \in [Threads -> BOOLEAN]
  BY Zenon DEF SemInit
<1>4. SemTypeOK /\ LeftToAcquire
  BY <1>3, SemaphoreAssumption DEF SemInit, SemTypeOK, SemLocations, LeftToAcquire
<1> QED
  BY <1>1, <1>2, <1>4 DEF SemIInv, OneUnlocks, LockedWhenZero

LEMMA SemInductive == SemIInv /\ [SemNext]_semVars => SemIInv'
<1> SUFFICES ASSUME SemIInv, [SemNext]_semVars PROVE SemIInv'
  OBVIOUS
<1> USE SemaphoreAssumption DEF Go
<1>1. CASE UNCHANGED semVars
  BY <1>1 DEF semVars, SemIInv, SemTypeOK, LeftToAcquire, OneUnlocks, LockedWhenZero, Holds
<1>2. ASSUME NEW t \in Threads, NEW n \in 0..MaxAmount, CallAcquire(t, n) PROVE SemIInv'
  <2>1. SemTypeOK' /\ LeftToAcquire'
    BY <1>2 DEF CallAcquire, SemIInv, SemTypeOK, SemLocations, LeftToAcquire
  <2>2. \A u \in Threads : Holds(u)' <=> Holds(u)
    BY <1>2 DEF CallAcquire, SemIInv, SemTypeOK, Holds
  <2> QED
    BY <1>2, <2>1, <2>2 DEF CallAcquire, SemIInv, OneUnlocks, LockedWhenZero
<1>3. ASSUME NEW t \in Threads, TakeAccess(t) PROVE SemIInv'
  <2>1. SemTypeOK' /\ LeftToAcquire'
    BY <1>3 DEF TakeAccess, SemIInv, SemTypeOK, SemLocations, LeftToAcquire
  <2>2. \A u \in Threads : ~Holds(u) /\ (Holds(u)' <=> u = t)
    BY <1>3 DEF TakeAccess, SemIInv, SemTypeOK, Holds, OneUnlocks
  <2>3. value > 0
    BY <1>3, <2>2 DEF TakeAccess, SemIInv, SemTypeOK, LockedWhenZero
  <2> QED
    BY <1>3, <2>1, <2>2, <2>3 DEF TakeAccess, SemIInv, OneUnlocks, LockedWhenZero
<1>4. ASSUME NEW t \in Threads, Decrement(t) PROVE SemIInv'
  <2>1. Holds(t) /\ value > 0 /\ accessMutex
    BY <1>4 DEF Decrement, SemIInv, OneUnlocks, Holds
  <2>2. value' \in Nat /\ value' = value - 1
    BY <1>4, <2>1 DEF Decrement, SemIInv, SemTypeOK
  <2>3. SemTypeOK' /\ LeftToAcquire'
    <3>1. left[t] - 1 \in 0..MaxAmount
      BY <1>4 DEF Decrement, SemIInv, SemTypeOK, LeftToAcquire
    <3>2. left' \in [Threads -> 0..MaxAmount]
      BY <1>4, <3>1 DEF Decrement, SemIInv, SemTypeOK
    <3>3. unlock' \in [Threads -> BOOLEAN]
      BY <1>4 DEF Decrement, SemIInv, SemTypeOK
    <3> QED
      BY <1>4, <2>2, <3>2, <3>3 DEF Decrement, SemIInv, SemTypeOK, SemLocations, LeftToAcquire
  <2>4. unlock'[t] <=> value' > 0
    <3>1. unlock'[t] = (value > 1)
      BY <1>4, Zenon DEF Decrement, SemIInv, SemTypeOK
    <3>2. value > 1 <=> value' > 0
      BY <2>2 DEF SemIInv, SemTypeOK
    <3> QED
      BY <3>1, <3>2, Zenon
  <2>5. \A u \in Threads : Holds(u)' <=> u = t /\ value' > 0
    BY <1>4, <2>1, <2>4 DEF Decrement, SemIInv, SemTypeOK, OneUnlocks, Holds
  <2>6. accessMutex'
    BY <1>4, <2>1 DEF Decrement
  <2>7. OneUnlocks'
    BY <2>5, <2>6 DEF OneUnlocks
  <2>8. LockedWhenZero'
    <3> SUFFICES ASSUME \A u \in Threads : ~Holds(u)'
                 PROVE  accessMutex' <=> value' = 0
      BY DEF LockedWhenZero
    <3>1. ~(value' > 0)
      BY <2>5
    <3>2. value' = 0
      <4>1. value' \in Nat
        BY <2>2
      <4> QED
        BY ONLY <3>1, <4>1
    <3> QED
      BY <2>6, <3>2, Zenon
  <2> QED
    BY <2>3, <2>7, <2>8 DEF SemIInv
<1>5. ASSUME NEW t \in Threads, NEW n \in 0..MaxAmount, Release(t, n) PROVE SemIInv'
  <2>1. value' \in Nat /\ value' >= value /\ (n > 0 => value' > 0) /\ (n = 0 => value' = value)
    BY <1>5 DEF Release, SemIInv, SemTypeOK
  <2>2. SemTypeOK' /\ LeftToAcquire'
    <3>1. unlock' \in [Threads -> BOOLEAN]
      BY <1>5 DEF Release, SemIInv, SemTypeOK
    <3> QED
      BY <1>5, <2>1, <3>1 DEF Release, SemIInv, SemTypeOK, SemLocations, LeftToAcquire
  <2>3. \A u \in Threads : u # t => (Holds(u)' <=> Holds(u))
    BY <1>5 DEF Release, SemIInv, SemTypeOK, Holds
  <2>4. Holds(t)' <=> value = 0 /\ n > 0
    BY <1>5 DEF Release, SemIInv, SemTypeOK, Holds
  <2>5. ~Holds(t)
    BY <1>5 DEF Release, Holds
  <2>6. accessMutex' = accessMutex
    BY <1>5 DEF Release
  <2>7. OneUnlocks'
    <3>1. value = 0 => (\A u \in Threads : ~Holds(u)) /\ accessMutex
      BY DEF SemIInv, OneUnlocks, LockedWhenZero
    <3>2. \A u, v \in Threads : Holds(u)' /\ Holds(v)' => u = v
      BY <2>3, <2>4, <2>5, <3>1 DEF SemIInv, OneUnlocks
    <3>3. \A u \in Threads : Holds(u)' => accessMutex' /\ value' > 0
      BY <2>1, <2>3, <2>4, <2>6, <3>1 DEF SemIInv, SemTypeOK, OneUnlocks
    <3> QED
      BY <3>2, <3>3 DEF OneUnlocks
  <2>8. LockedWhenZero'
    <3> SUFFICES ASSUME \A u \in Threads : ~Holds(u)'
                 PROVE  accessMutex' <=> value' = 0
      BY DEF LockedWhenZero
    <3>1. accessMutex <=> value = 0
      BY <2>3, <2>5 DEF SemIInv, LockedWhenZero
    <3>2. value = 0 => n = 0
      BY <2>4
    <3>3. value' = 0 <=> value = 0
      BY <2>1, <3>2 DEF SemIInv, SemTypeOK
    <3> QED
      BY <2>6, <3>1, <3>3
  <2> QED
    BY <2>2, <2>7, <2>8 DEF SemIInv
<1>6. ASSUME NEW t \in Threads, Acquired(t) \/ Released(t) PROVE SemIInv'
  <2>1. PICK from \in {"acquired", "released"}, to \in {"idle", "acquire"} :
           /\ LeaveAccess(t, from, to)
           /\ to = "acquire" => left[t] > 0
    BY <1>6 DEF Acquired, Released, SemIInv, SemTypeOK
  <2>2. SemTypeOK' /\ LeftToAcquire'
    <3>1. unlock' \in [Threads -> BOOLEAN] /\ accessMutex' \in BOOLEAN
      BY <2>1 DEF LeaveAccess, SemIInv, SemTypeOK
    <3> QED
      BY <2>1, <3>1 DEF LeaveAccess, SemIInv, SemTypeOK, SemLocations, LeftToAcquire
  <2>3. \A u \in Threads : Holds(u)' <=> Holds(u) /\ u # t
    BY <2>1 DEF LeaveAccess, SemIInv, SemTypeOK, Holds
  <2>4. Holds(t) <=> unlock[t]
    BY <2>1 DEF LeaveAccess, Holds
  <2>5. accessMutex' = (accessMutex /\ ~unlock[t]) /\ value' = value
    BY <2>1 DEF LeaveAccess
  <2>6. Holds(t) => accessMutex /\ value > 0 /\ \A u \in Threads \ {t} : ~Holds(u)
    BY DEF SemIInv, OneUnlocks
  <2>7. OneUnlocks'
    <3>1. \A u, v \in Threads : Holds(u)' /\ Holds(v)' => u = v
      BY <2>3 DEF SemIInv, OneUnlocks
    <3>2. \A u \in Threads : Holds(u)' => accessMutex /\ value > 0 /\ ~Holds(t)
      BY <2>3, <2>6 DEF SemIInv, OneUnlocks
    <3>3. \A u \in Threads : Holds(u)' => accessMutex' /\ value' > 0
      BY <2>4, <2>5, <3>2
    <3> QED
      BY <3>1, <3>3 DEF OneUnlocks
  <2>8. LockedWhenZero'
    <3> SUFFICES ASSUME \A u \in Threads : ~Holds(u)'
                 PROVE  accessMutex' <=> value' = 0
      BY DEF LockedWhenZero
    <3>1. CASE Holds(t)
      <4>1. ~accessMutex' /\ value' > 0
        BY <2>4, <2>5, <2>6, <3>1
      <4> QED
        BY <2>2, <4>1 DEF SemTypeOK
    <3>2. CASE ~Holds(t)
      <4>1. accessMutex <=> value = 0
        BY <2>3, <3>2 DEF SemIInv, LockedWhenZero
      <4>2. accessMutex' = accessMutex
        BY <2>4, <2>5, <3>2 DEF SemIInv, SemTypeOK
      <4> QED
        BY <2>5, <4>1, <4>2
    <3> QED
      BY <3>1, <3>2
  <2> QED
    BY <2>2, <2>7, <2>8 DEF SemIInv
<1> QED
  BY <1>1, <1>2, <1>3, <1>4, <1>5, <1>6 DEF SemNext, SemStep

THEOREM SemInvariance == SemSpec => []SemIInv
  BY SemInitially, SemInductive, PTL DEF SemSpec

(* A thread never decrements a value of zero: acquire() waits until the    *)
(* value is positive, and no other thread can take it away in between.     *)
THEOREM NeverUnderflows == SemSpec => []NoUnderflow
<1>1. SemIInv => NoUnderflow
  BY DEF SemIInv, OneUnlocks, NoUnderflow, Holds
<1> QED
  BY <1>1, SemInvariance, PTL

(* The mutex is locked exactly while the value is zero, but for the moment *)
(* in which one thread, and only one, is about to unlock it.               *)
THEOREM NoLostWakeup == SemSpec => [](OneUnlocks /\ LockedWhenZero)
<1>1. SemIInv => OneUnlocks /\ LockedWhenZero
  BY DEF SemIInv
<1> QED
  BY <1>1, SemInvariance, PTL

-----------------------------------------------------------------------------
(* The child threads: the invariant.                                       *)
RunTypeOK ==
  /\ failing \in Failures
  /\ job \in [Jobs -> {"idle", "called", "in thread", "joining", "returned", "threw"}]
  /\ procs \in [Jobs -> Nat]
  /\ raised \in [Jobs -> Jobs \union {None}]
  /\ count \in [Jobs -> Nat]
  /\ thread \in [Workers -> {"none", "running", "leaving", "gone"}]
  /\ at \in [Workers -> Nat \ {0}]
  /\ exception \in [Workers -> Jobs \union {None}]
  /\ joinLock \in [Workers -> BOOLEAN]

(* Nothing below a job that was not called has begun.                      *)
CallsOK ==
  \A j \in Jobs :
    /\ job[j] = "idle" => /\ count[j] = 0
                          /\ \A k \in DOMAIN Children[j] : /\ job[Children[j][k]] = "idle"
                                                           /\ thread[<<j, k>>] = "none"
    /\ job[j] # "idle" => procs[j] # 0
    /\ j \in Leaves => job[j] \notin {"in thread", "joining"}

(* The threads of a job against how far it is.                             *)
JobOK(j) ==
  LET n == Len(Groups(j)) IN
  /\ \A k \in DOMAIN Children[j] : k > n => thread[<<j, k>>] = "none"
  /\ job[j] = "called" /\ InThread(j) => thread[<<j, 1>>] = "none"
  /\ job[j] = "called" /\ ~ InThread(j) =>
       count[j] <= n /\ \A k \in 1 .. n : thread[<<j, k>>] = "none" <=> k > count[j]
  /\ job[j] = "in thread" => InThread(j) /\ thread[<<j, 1>>] \in {"running", "leaving"}
  /\ job[j] = "joining" =>
       /\ ~ InThread(j) /\ count[j] <= n
       /\ \A k \in 1 .. n : /\ thread[<<j, k>>] # "none"
                            /\ k <= count[j] => thread[<<j, k>>] = "gone"
  /\ Ended(j) => \A k \in 1 .. n : thread[<<j, k>>] = "gone"

JobsOK == \A j \in Jobs \ Leaves : job[j] # "idle" => JobOK(j)

LocksOK ==
  \A t \in Workers : joinLock[t] <=> thread[t] \in {"running", "leaving"} /\ ~ InThread(t[1])

(* The members of a thread's group before the one it is at have returned,  *)
(* those after it have not begun; and what the thread has of the exception *)
(* of the one it is at.                                                    *)
WorkerOK(t) ==
  LET m == Group(t).members IN
  /\ at[t] <= Len(m)
  /\ \A n \in 1 .. Len(m) :
       /\ n < at[t] => job[m[n]] = "returned"
       /\ n > at[t] \/ thread[t] = "none" => job[m[n]] = "idle"
       /\ job[m[n]] # "idle" => procs[m[n]] = Group(t).procs
  /\ thread[t] = "running" => exception[t] = None
  /\ thread[t] \in {"leaving", "gone"} =>
       \/ job[Member(t)] = "threw" /\ exception[t] = raised[Member(t)]
       \/ job[Member(t)] = "returned" /\ at[t] = Len(m) /\ exception[t] = None

(* A thread that the division of its job provides for.                     *)
Planned(t) == job[t[1]] # "idle" /\ t[2] <= Len(Groups(t[1]))

WorkersOK ==
  \A t \in Workers :
    /\ thread[t] = "none" => at[t] = 1 /\ exception[t] = None
    /\ Planned(t) => WorkerOK(t)

RunIInv == RunTypeOK /\ CallsOK /\ JobsOK /\ LocksOK /\ WorkersOK /\ FirstInOrder

(* How many children are in the groups before the k-th.                    *)
Start(j, k) ==
  LET m == Len(Children[j])
      n == procs[j]
  IN  IF InThread(j) THEN 0
      ELSE IF j \in Pairs \/ n >= m THEN k - 1
      ELSE GroupEnd(n, m, k - 1)

(* How many processors the groups up to the k-th have.                     *)
Given(j, k) ==
  LET m == Len(Children[j])
      n == procs[j]
  IN  IF InThread(j) THEN k
      ELSE IF j \in Pairs THEN IF k = 0 THEN 0 ELSE IF k = 1 THEN PairShare(n, 1) ELSE n
      ELSE IF n >= m THEN GroupEnd(m, n, k)
      ELSE k


-----------------------------------------------------------------------------
(* How children and processors are divided: the parts of a division of m   *)
(* by n are even and in order, and add up to m.                            *)
LEMMA Quotient ==
  ASSUME NEW m \in Nat, NEW n \in Nat \ {0}
  PROVE  /\ m \div n \in Nat
         /\ (m \div n) * n <= m
         /\ m - (m \div n) * n < n
  BY SMT

LEMMA EvenParts ==
  ASSUME NEW m \in Nat, NEW n \in Nat \ {0}
  PROVE  /\ GroupEnd(n, m, 0) = 0
         /\ GroupEnd(n, m, n) = m
         /\ \A k \in 1 .. n : 
              GroupEnd(n, m, k) = GroupEnd(n, m, k - 1) + (m \div n)
                                  + (IF k <= m - (m \div n) * n THEN 1 ELSE 0)
         /\ \A k \in 0 .. n : GroupEnd(n, m, k) \in Nat
         /\ \A k, l \in 0 .. n : k <= l => GroupEnd(n, m, k) <= GroupEnd(n, m, l)
         /\ n <= m => m \div n \in Nat \ {0}
         /\ n = m => m \div n = 1
<1>1. PICK q, e : q = m \div n /\ e = m - q * n
  OBVIOUS
<1>2. q \in Nat /\ e \in Nat /\ e < n /\ m = q * n + e
  BY <1>1, Quotient
<1>3. \A k \in 0 .. n : GroupEnd(n, m, k) = k * q + (IF k <= e THEN k ELSE e)
  BY <1>1 DEF GroupEnd
<1> HIDE <1>1
<1>4. \A k \in 1 .. n : k * q = (k - 1) * q + q
  BY <1>2
<1>5. \A k, l \in 0 .. n : k <= l => k * q <= l * q
  BY <1>2
<1>6. \A k \in 0 .. n : k * q \in Nat
  BY <1>2
<1>7. GroupEnd(n, m, 0) = 0 /\ GroupEnd(n, m, n) = m
  BY <1>2, <1>3
<1>8. \A k \in 1 .. n : GroupEnd(n, m, k) = GroupEnd(n, m, k - 1) + q + (IF k <= e THEN 1 ELSE 0)
  BY <1>2, <1>3, <1>4, <1>6
<1>9. \A k \in 0 .. n : GroupEnd(n, m, k) \in Nat
  BY <1>2, <1>3, <1>6
<1>10. \A k, l \in 0 .. n : k <= l => GroupEnd(n, m, k) <= GroupEnd(n, m, l)
  BY <1>2, <1>3, <1>5, <1>6
<1>11. n <= m => q \in Nat \ {0}
  BY <1>2
<1>12. n = m => q = 1
  <2>1. ASSUME n = m PROVE q = 1
    <3>1. n * 1 = q * n + e
      BY <1>2, <2>1
    <3>2. q < 2
      BY <1>2, <3>1
    <3>3. q # 0
      BY <1>2, <3>1
    <3> QED
      BY <1>2, <3>2, <3>3
  <2> QED
    BY <2>1
<1> QED
  BY <1>1, <1>7, <1>8, <1>9, <1>10, <1>11, <1>12

(* The same for one part: what GroupEnd grows by from one end to the next. *)
LEMMA NextPart ==
  ASSUME NEW m \in Nat, NEW n \in Nat \ {0}, NEW k \in 1 .. n
  PROVE  GroupEnd(n, m, k) = GroupEnd(n, m, k - 1) + (m \div n)
                                  + (IF k <= m - (m \div n) * n THEN 1 ELSE 0)
<1>1. \A l \in 1 .. n :
         GroupEnd(n, m, l) = GroupEnd(n, m, l - 1) + (m \div n)
                                  + (IF l <= m - (m \div n) * n THEN 1 ELSE 0)
  BY EvenParts, Zenon
<1> QED
  BY <1>1, Zenon

(* Each of m numbers is in one of the n parts.                             *)
LEMMA InAPart ==
  ASSUME NEW m \in Nat, NEW n \in Nat \ {0}, NEW c \in 1 .. m
  PROVE  \E k \in 1 .. n : GroupEnd(n, m, k - 1) < c /\ c <= GroupEnd(n, m, k)
<1> DEFINE B == {k \in 0 .. n : c <= GroupEnd(n, m, k)}
<1>1. n \in B /\ 0 \notin B
  BY EvenParts
<1>2. PICK k \in B : \A l \in B : k <= l
  <2>1. B \in SUBSET Nat /\ B # {}
    BY <1>1
  <2> HIDE DEF B
  <2> QED
    BY <2>1, LeastOf
<1>3. k \in 1 .. n /\ k - 1 \in 0 .. n /\ k - 1 \notin B
  BY <1>1, <1>2
<1>4. GroupEnd(n, m, k - 1) \in Nat
  BY <1>3, EvenParts
<1> QED
  BY <1>3, <1>4, <1>2

(* With at most as many parts as there are numbers, no part is empty.      *)
LEMMA PartsGrow ==
  ASSUME NEW m \in Nat, NEW n \in Nat \ {0}, n <= m
  PROVE  /\ \A k \in 0 .. n : GroupEnd(n, m, k) <= m
         /\ \A k \in 1 .. n : GroupEnd(n, m, k - 1) < GroupEnd(n, m, k)
<1>1. /\ GroupEnd(n, m, n) = m
      /\ \A k \in 0 .. n : GroupEnd(n, m, k) \in Nat
      /\ \A k, l \in 0 .. n : k <= l => GroupEnd(n, m, k) <= GroupEnd(n, m, l)
      /\ m \div n \in Nat \ {0}
  BY EvenParts
<1>2. \A k \in 1 .. n : GroupEnd(n, m, k) >= GroupEnd(n, m, k - 1) + (m \div n)
  <2> TAKE k \in 1 .. n
  <2>1. GroupEnd(n, m, k) = GroupEnd(n, m, k - 1) + (m \div n)
                                  + (IF k <= m - (m \div n) * n THEN 1 ELSE 0)
    BY NextPart, Zenon
  <2>2. GroupEnd(n, m, k - 1) \in Nat
    BY <1>1
  <2> QED
    BY <1>1, <2>1, <2>2
<1> QED
  BY <1>1, <1>2

(* What start gives to each of at most as many threads as processors.      *)
LEMMA Shares ==
  ASSUME NEW n \in Nat, NEW m \in Nat \ {0}, m <= n, NEW k \in 1 .. m
  PROVE  /\ Share(n, m, k) \in Nat \ {0}
         /\ GroupEnd(m, n, k) = GroupEnd(m, n, k - 1) + Share(n, m, k)
<1>1. /\ n \div m \in Nat \ {0}
      /\ n = m => n \div m = 1
      /\ GroupEnd(m, n, k) = GroupEnd(m, n, k - 1) + (n \div m)
                                  + (IF k <= n - (n \div m) * m THEN 1 ELSE 0)
      /\ GroupEnd(m, n, k - 1) \in Nat
  <2>1. k - 1 \in 0 .. m
    OBVIOUS
  <2>2. \A l \in 0 .. m : GroupEnd(m, n, l) \in Nat
    BY EvenParts
  <2> QED
    <3>1. n \div m \in Nat \ {0} /\ (n = m => n \div m = 1)
      BY EvenParts
    <3>2. GroupEnd(m, n, k) = GroupEnd(m, n, k - 1) + (n \div m)
                                  + (IF k <= n - (n \div m) * m THEN 1 ELSE 0)
      <4>1. m \in Nat \ {0}
        OBVIOUS
      <4> QED
        BY <4>1, NextPart, Zenon
    <3> QED
      BY <2>1, <2>2, <3>1, <3>2
<1>2. CASE n > m
  BY <1>1, <1>2 DEF Share
<1>3. CASE n = m
  <2>1. (n \div m) * m = m
    BY <1>1, <1>3
  <2>2. ~ (k <= n - (n \div m) * m)
    BY <1>3, <2>1
  <2> QED
    BY <1>1, <1>3, <2>2 DEF Share
<1> QED
  BY <1>2, <1>3

(* Of two or more processors each child of a pair gets one at least, and   *)
(* together they get all.                                                  *)
LEMMA PairShares ==
  ASSUME NEW n \in Nat, n > 1
  PROVE  /\ PairShare(n, 1) \in Nat \ {0} /\ PairShare(n, 2) \in Nat \ {0}
         /\ PairShare(n, 1) + PairShare(n, 2) = n
BY DEF PairShare

LEMMA PartOf ==
  ASSUME NEW s \in Seq(Jobs), NEW a \in Nat, NEW b \in Nat, a < b, b <= Len(s)
  PROVE  /\ Len(SubSeq(s, a + 1, b)) = b - a
         /\ \A i \in 1 .. b - a : SubSeq(s, a + 1, b)[i] = s[a + i]
  OBVIOUS

LEMMA FunctionsAreSequences ==
  ASSUME NEW f, NEW n \in Nat, DOMAIN f = 1 .. n
  PROVE  Len(f) = n
  OBVIOUS

(* Groups in the four ways that run divides.                               *)
LEMMA GroupsInThread ==
  ASSUME NEW j \in Pairs, procs[j] = 1
  PROVE  InThread(j) /\ Groups(j) = <<[members |-> Children[j], procs |-> 1]>>
BY DEF Groups, InThread

LEMMA GroupsOfPair ==
  ASSUME NEW j \in Pairs, procs[j] \in Nat, procs[j] > 1
  PROVE  /\ ~ InThread(j)
         /\ Groups(j) = [k \in 1 .. 2 |-> [members |-> <<Children[j][k]>>,
                                           procs |-> PairShare(procs[j], k)]]
BY DEF Groups, InThread

LEMMA GroupsOfOne ==
  ASSUME NEW j \in Jobs \ Pairs, procs[j] >= Len(Children[j])
  PROVE  /\ ~ InThread(j)
         /\ Groups(j) = [k \in 1 .. Len(Children[j]) |->
                           [members |-> <<Children[j][k]>>,
                            procs |-> Share(procs[j], Len(Children[j]), k)]]
BY DEF Groups, InThread

LEMMA GroupsOfMany ==
  ASSUME NEW j \in Jobs \ Pairs, ~ (procs[j] >= Len(Children[j]))
  PROVE  /\ ~ InThread(j)
         /\ Groups(j) = [k \in 1 .. procs[j] |->
              [members |-> SubSeq(Children[j], GroupEnd(procs[j], Len(Children[j]), k - 1) + 1,
                                               GroupEnd(procs[j], Len(Children[j]), k)),
               procs   |-> Share(procs[j], procs[j], k)]]
BY DEF Groups, InThread

(* Every child of a job is in one place of one group, groups come in the   *)
(* order of the children, and the processors are given out.                *)
DivisionOK(j) ==
  LET G == Groups(j)
      c == Children[j] IN
  /\ Len(G) \in Nat /\ DOMAIN G = 1 .. Len(G)
  /\ 1 <= Len(G) /\ Len(G) <= Len(c)
  /\ InThread(j) => Len(G) = 1
  /\ \A k \in 1 .. Len(G) :
       /\ Start(j, k) \in Nat
       /\ Len(G[k].members) \in Nat \ {0}
       /\ Start(j, k) + Len(G[k].members) <= Len(c)
       /\ \A n \in 1 .. Len(G[k].members) : G[k].members[n] = c[Start(j, k) + n]
       /\ \A l \in 1 .. Len(G) : k < l => Start(j, k) + Len(G[k].members) <= Start(j, l)
  /\ \A p \in 1 .. Len(c) : \E k \in 1 .. Len(G) :
       Start(j, k) < p /\ p <= Start(j, k) + Len(G[k].members)

SharesOK(j) ==
  LET G == Groups(j) IN
  /\ Given(j, 0) = 0 /\ Given(j, Len(G)) = procs[j]
  /\ \A k \in 1 .. Len(G) : /\ G[k].procs \in Nat \ {0}
                            /\ Given(j, k - 1) \in Nat
                            /\ Given(j, k) = Given(j, k - 1) + G[k].procs

(* In each of the four ways, for any number of processors.                 *)
LEMMA Division ==
  ASSUME NEW j \in Jobs \ Leaves, procs[j] \in Nat \ {0}
  PROVE  DivisionOK(j) /\ SharesOK(j)
<1> DEFINE m == Len(Children[j])
           n == procs[j]
<1>1. Children[j] \in Seq(Jobs) /\ m \in Nat \ {0} /\ n \in Nat \ {0}
  <2>1. Children[j] \in Seq(Jobs) /\ Children[j] # <<>>
    BY ChildThreadsAssumption DEF Leaves
  <2> QED
    BY <2>1
<1>2. CASE j \in Pairs /\ n = 1
  <2>1. InThread(j) /\ Groups(j) = <<[members |-> Children[j], procs |-> 1]>>
    BY <1>2, GroupsInThread
  <2>2. Len(Groups(j)) = 1 /\ DOMAIN Groups(j) = 1 .. 1 /\ Groups(j)[1].members = Children[j]
        /\ Groups(j)[1].procs = 1
    BY <2>1
  <2>3. \A k \in 0 .. 1 : Start(j, k) = 0 /\ Given(j, k) = k
    BY <2>1 DEF Start, Given
  <2> QED
    BY <1>1, <1>2, <2>1, <2>2, <2>3 DEF DivisionOK, SharesOK
<1>3. CASE j \in Pairs /\ n > 1
  <2>0. m = 2
    BY <1>3, ChildThreadsAssumption
  <2>1. ~ InThread(j) /\ Groups(j) = [k \in 1 .. 2 |-> [members |-> <<Children[j][k]>>,
                                           procs |-> PairShare(n, k)]]
    BY <1>1, <1>3, GroupsOfPair
  <2>2. /\ Len(Groups(j)) = 2 /\ DOMAIN Groups(j) = 1 .. 2
        /\ \A k \in 1 .. 2 : /\ Groups(j)[k].procs = PairShare(n, k)
                             /\ Groups(j)[k].members = <<Children[j][k]>>
                             /\ Len(Groups(j)[k].members) = 1
                             /\ Groups(j)[k].members[1] = Children[j][k]
    BY <2>1
  <2>3. \A k \in 0 .. 2 : Start(j, k) = k - 1
    BY <1>3, <2>1 DEF Start
  <2>4. Given(j, 0) = 0 /\ Given(j, 1) = PairShare(n, 1) /\ Given(j, 2) = n
    BY <1>3, <2>1 DEF Given
  <2>5. PairShare(n, 1) \in Nat \ {0} /\ PairShare(n, 2) \in Nat \ {0}
        /\ PairShare(n, 1) + PairShare(n, 2) = n
    BY <1>1, <1>3, PairShares
  <2>6. DivisionOK(j)
    <3> HIDE DEF m, n
    <3>1. \A p \in 1 .. 2 : \E k \in 1 .. 2 :
             Start(j, k) < p /\ p <= Start(j, k) + Len(Groups(j)[k].members)
      <4>1. \A p \in 1 .. 2 : Start(j, p) < p /\ p <= Start(j, p) + Len(Groups(j)[p].members)
        BY <2>2, <2>3
      <4> QED
        BY <4>1
    <3>2. ~ InThread(j)
      BY <2>1
    <3>3. Len(Children[j]) = 2
      BY <2>0 DEF m
    <3>4. \A k \in 1 .. 2 : Start(j, k) = k - 1
      BY <2>3
    <3>5. \A k \in 1 .. 2 : /\ Start(j, k) \in Nat
                            /\ Start(j, k) + Len(Groups(j)[k].members) <= 2
                            /\ \A l \in 1 .. 2 :
                                  k < l => Start(j, k) + Len(Groups(j)[k].members) <= Start(j, l)
                            /\ Groups(j)[k].members[1] = Children[j][Start(j, k) + 1]
      <4> TAKE k \in 1 .. 2
      <4>1. Start(j, k) + 1 = k /\ Start(j, k) = k - 1 /\ Len(Groups(j)[k].members) = 1
        BY <2>2, <3>4
      <4>2. Groups(j)[k].members[1] = Children[j][Start(j, k) + 1]
        BY <2>2, <4>1
      <4> QED
        BY <3>4, <4>1, <4>2
    <3> QED
      <4>1. \A k \in 1 .. 2 : \A i \in 1 .. Len(Groups(j)[k].members) :
               Groups(j)[k].members[i] = Children[j][Start(j, k) + i]
        <5> TAKE k \in 1 .. 2
        <5>1. Len(Groups(j)[k].members) = 1
          BY <2>2
        <5>2. Groups(j)[k].members[1] = Children[j][Start(j, k) + 1]
          BY <3>5
        <5> QED
          BY <5>1, <5>2
      <4>2. /\ Len(Groups(j)) = 2 /\ DOMAIN Groups(j) = 1 .. 2
            /\ \A k \in 1 .. 2 : Len(Groups(j)[k].members) \in Nat \ {0}
        BY <2>2
      <4> QED
        BY <3>1, <3>2, <3>3, <3>5, <4>1, <4>2 DEF DivisionOK
  <2> QED
    BY <2>2, <2>4, <2>5, <2>6 DEF SharesOK
<1>4. CASE j \notin Pairs /\ n >= m
  <2>1. ~ InThread(j) /\ Groups(j) = [k \in 1 .. m |-> [members |-> <<Children[j][k]>>,
                                           procs |-> Share(n, m, k)]]
    BY <1>4, GroupsOfOne
  <2>2. /\ Len(Groups(j)) = m /\ DOMAIN Groups(j) = 1 .. m
        /\ \A k \in 1 .. m : /\ Groups(j)[k].procs = Share(n, m, k)
                             /\ Groups(j)[k].members = <<Children[j][k]>>
                             /\ Len(Groups(j)[k].members) = 1
                             /\ Groups(j)[k].members[1] = Children[j][k]
    BY <1>1, <2>1
  <2>3. \A k \in 0 .. m : Start(j, k) = k - 1 /\ Given(j, k) = GroupEnd(m, n, k)
    BY <1>4, <2>1 DEF Start, Given
  <2>4. \A k \in 1 .. m : /\ Share(n, m, k) \in Nat \ {0}
                          /\ GroupEnd(m, n, k) = GroupEnd(m, n, k - 1) + Share(n, m, k)
    BY <1>1, <1>4, Shares
  <2>5. DivisionOK(j)
    <3>1. \A p \in 1 .. m : \E k \in 1 .. m :
             Start(j, k) < p /\ p <= Start(j, k) + Len(Groups(j)[k].members)
      <4>1. \A p \in 1 .. m : Start(j, p) < p /\ p <= Start(j, p) + Len(Groups(j)[p].members)
        BY <2>2, <2>3
      <4> QED
        BY <4>1
    <3>2. \A k \in 1 .. m : /\ Start(j, k) \in Nat
                            /\ Start(j, k) + Len(Groups(j)[k].members) <= m
                            /\ \A l \in 1 .. m :
                                  k < l => Start(j, k) + Len(Groups(j)[k].members) <= Start(j, l)
                            /\ Groups(j)[k].members[1] = Children[j][Start(j, k) + 1]
      <4> TAKE k \in 1 .. m
      <4>1. Start(j, k) + 1 = k /\ Start(j, k) = k - 1 /\ Len(Groups(j)[k].members) = 1
        BY <1>1, <2>2, <2>3
      <4>2. Groups(j)[k].members[1] = Children[j][Start(j, k) + 1]
        BY <2>2, <4>1
      <4>3. \A l \in 1 .. m : Start(j, l) = l - 1
        BY <2>3
      <4> HIDE DEF m
      <4> QED
        BY <1>1, <4>1, <4>2, <4>3
    <3> QED
      <4> HIDE DEF m, n
      <4>1. m = Len(Children[j])
        BY DEF m
      <4>2. ~ InThread(j)
        BY <2>1
      <4> QED
        <5>1. Len(Groups(j)) = m /\ DOMAIN Groups(j) = 1 .. m
          BY <2>2
        <5>2. \A k \in 1 .. m : /\ Len(Groups(j)[k].members) \in Nat \ {0}
                                /\ \A i \in 1 .. Len(Groups(j)[k].members) :
                                      Groups(j)[k].members[i] = Children[j][Start(j, k) + i]
          <6> TAKE k \in 1 .. m
          <6>1. Len(Groups(j)[k].members) = 1
            BY <2>2
          <6>2. Groups(j)[k].members[1] = Children[j][Start(j, k) + 1]
            BY <3>2
          <6> QED
            BY <6>1, <6>2
        <5>3. \A k \in 1 .. m : /\ Start(j, k) \in Nat
                                /\ Start(j, k) + Len(Groups(j)[k].members) <= m
                                /\ \A l \in 1 .. m :
                                  k < l => Start(j, k) + Len(Groups(j)[k].members) <= Start(j, l)
          BY <3>2
        <5>4. 1 <= m /\ m \in Nat
          BY <1>1
        <5> QED
          <6>1. \A k \in 1 .. Len(Groups(j)) :
             /\ Start(j, k) \in Nat
             /\ Len(Groups(j)[k].members) \in Nat \ {0}
             /\ Start(j, k) + Len(Groups(j)[k].members) <= Len(Children[j])
             /\ \A i \in 1 .. Len(Groups(j)[k].members) :
                   Groups(j)[k].members[i] = Children[j][Start(j, k) + i]
             /\ \A l \in 1 .. Len(Groups(j)) :
                   k < l => Start(j, k) + Len(Groups(j)[k].members) <= Start(j, l)
            BY <4>1, <5>1, <5>2, <5>3
          <6>2. \A p \in 1 .. Len(Children[j]) : \E k \in 1 .. Len(Groups(j)) :
                  Start(j, k) < p /\ p <= Start(j, k) + Len(Groups(j)[k].members)
            BY <3>1, <4>1, <5>1
          <6>3. /\ Len(Groups(j)) \in Nat /\ DOMAIN Groups(j) = 1 .. Len(Groups(j))
                /\ 1 <= Len(Groups(j)) /\ Len(Groups(j)) <= Len(Children[j])
            BY <4>1, <5>1, <5>4
          <6> QED
            BY <4>2, <6>1, <6>2, <6>3 DEF DivisionOK
  <2>6. GroupEnd(m, n, 0) = 0 /\ GroupEnd(m, n, m) = n /\ \A k \in 0 .. m : GroupEnd(m, n, k) \in Nat
    BY <1>1, EvenParts
  <2> QED
    <3> HIDE DEF m, n
    <3>1. \A k \in 1 .. m : k - 1 \in 0 .. m /\ k \in 0 .. m
      BY <1>1
    <3>2. m \in 0 .. m /\ 0 \in 0 .. m /\ n = procs[j]
      BY <1>1 DEF n
    <3>3. Given(j, 0) = 0 /\ Given(j, m) = procs[j]
      BY <2>3, <2>6, <3>2
    <3>4. ASSUME NEW k \in 1 .. m
          PROVE  /\ Groups(j)[k].procs \in Nat \ {0} /\ Given(j, k - 1) \in Nat
                 /\ Given(j, k) = Given(j, k - 1) + Groups(j)[k].procs
      <4>1. k \in 0 .. m /\ k - 1 \in 0 .. m
        BY <3>1
      <4>2. Given(j, k) = GroupEnd(m, n, k) /\ Given(j, k - 1) = GroupEnd(m, n, k - 1)
        BY <2>3, <4>1
      <4>3. GroupEnd(m, n, k - 1) \in Nat
        BY <2>6, <4>1
      <4> QED
        BY <2>2, <2>4, <4>2, <4>3
    <3>5. Len(Groups(j)) = m
      BY <2>2
    <3>6. Given(j, Len(Groups(j))) = procs[j]
      BY <3>3, <3>5, Zenon
    <3>7. \A k \in 1 .. Len(Groups(j)) :
            /\ Groups(j)[k].procs \in Nat \ {0}
            /\ Given(j, k - 1) \in Nat
            /\ Given(j, k) = Given(j, k - 1) + Groups(j)[k].procs
      BY <3>4, <3>5, Zenon
    <3>8. SharesOK(j)
      BY <3>3, <3>6, <3>7, Zenon DEF SharesOK
    <3> QED
      BY <2>5, <3>8
<1>5. CASE j \notin Pairs /\ n < m
  <2> DEFINE ge(k) == GroupEnd(n, m, k)
  <2>1. ~ InThread(j) /\ Groups(j) = [k \in 1 .. n |->
                            [members |-> SubSeq(Children[j], ge(k - 1) + 1, ge(k)),
                             procs |-> Share(n, n, k)]]
    BY <1>1, <1>5, GroupsOfMany
  <2>2. /\ ge(0) = 0 /\ ge(n) = m
        /\ \A k \in 0 .. n : ge(k) \in Nat /\ ge(k) <= m
        /\ \A k, l \in 0 .. n : k <= l => ge(k) <= ge(l)
        /\ \A k \in 1 .. n : ge(k - 1) < ge(k)
    <3>1. ge(0) = 0 /\ ge(n) = m /\ \A k \in 0 .. n : ge(k) \in Nat
      BY <1>1, EvenParts
    <3>2. \A k, l \in 0 .. n : k <= l => ge(k) <= ge(l)
      BY <1>1, EvenParts
    <3>3. \A k \in 0 .. n : ge(k) <= m
      BY <1>1, <1>5, PartsGrow
    <3>4. \A k \in 1 .. n : ge(k - 1) < ge(k)
      BY <1>1, <1>5, PartsGrow
    <3> QED
      BY <3>1, <3>2, <3>3, <3>4
  <2> HIDE DEF ge
  <2>3. /\ Len(Groups(j)) = n /\ DOMAIN Groups(j) = 1 .. n
        /\ \A k \in 1 .. n : /\ Groups(j)[k].procs = Share(n, n, k)
                             /\ Groups(j)[k].members = SubSeq(Children[j], ge(k - 1) + 1, ge(k))
    <3>1. n \in Nat
      BY <1>1
    <3> HIDE DEF n, m
    <3> QED
      BY <3>1, <2>1
  <2>4. \A k \in 1 .. n : /\ Len(Groups(j)[k].members) = ge(k) - ge(k - 1)
                          /\ \A i \in 1 .. ge(k) - ge(k - 1) :
                               Groups(j)[k].members[i] = Children[j][ge(k - 1) + i]
    <3> SUFFICES ASSUME NEW k \in 1 .. n
                 PROVE  /\ Len(Groups(j)[k].members) = ge(k) - ge(k - 1)
                        /\ \A i \in 1 .. ge(k) - ge(k - 1) :
                             Groups(j)[k].members[i] = Children[j][ge(k - 1) + i]
      OBVIOUS
    <3>1. ge(k) \in Nat /\ ge(k - 1) \in Nat /\ ge(k - 1) < ge(k) /\ ge(k) <= m
      BY <1>1, <2>2
    <3> QED
      <4>1. Groups(j)[k].members = SubSeq(Children[j], ge(k - 1) + 1, ge(k))
        BY <2>3
      <4>2. Children[j] \in Seq(Jobs) /\ m = Len(Children[j])
        BY <1>1
      <4> HIDE DEF m, n
      <4>3. PICK e, b : e = ge(k) /\ b = ge(k - 1)
        OBVIOUS
      <4>4. e \in Nat /\ b \in Nat /\ b < e /\ e <= Len(Children[j])
        BY <3>1, <4>2, <4>3
      <4>5. /\ Len(SubSeq(Children[j], b + 1, e)) = e - b
            /\ \A i \in 1 .. e - b : SubSeq(Children[j], b + 1, e)[i] = Children[j][b + i]
        <5>1. PICK s : s = Children[j]
          OBVIOUS
        <5>2. s \in Seq(Jobs) /\ e <= Len(s)
          BY <4>2, <4>4, <5>1
        <5>3. /\ Len(SubSeq(s, b + 1, e)) = e - b
              /\ \A i \in 1 .. e - b : SubSeq(s, b + 1, e)[i] = s[b + i]
          BY <4>4, <5>2, PartOf
        <5> QED
          BY <5>1, <5>3, Zenon
      <4>6. Groups(j)[k].members = SubSeq(Children[j], b + 1, e)
        BY <4>1, <4>3
      <4> QED
        BY <4>3, <4>5, <4>6, Zenon
  <2>5. \A k \in 1 .. n : Start(j, k) = ge(k - 1) 
    BY <1>5, <2>1 DEF Start, ge
  <2>6. \A k \in 0 .. n : Given(j, k) = k
    BY <1>5, <2>1 DEF Given
  <2>7. \A k \in 1 .. n : Share(n, n, k) = 1
    BY <1>1 DEF Share
  <2>8. DivisionOK(j)
    <3>1. \A p \in 1 .. m : \E k \in 1 .. n : ge(k - 1) < p /\ p <= ge(k)
      BY <1>1, InAPart DEF ge
    <3>2. \A p \in 1 .. m : \E k \in 1 .. n :
             Start(j, k) < p /\ p <= Start(j, k) + Len(Groups(j)[k].members)
      <4> SUFFICES ASSUME NEW p \in 1 .. m PROVE \E k \in 1 .. n :
             Start(j, k) < p /\ p <= Start(j, k) + Len(Groups(j)[k].members)
        OBVIOUS
      <4>1. PICK k \in 1 .. n : ge(k - 1) < p /\ p <= ge(k)
        BY <3>1
      <4>2. ge(k) \in Nat /\ ge(k - 1) \in Nat
        BY <1>1, <2>2
      <4> QED
        BY <2>4, <2>5, <4>1, <4>2
    <3>3. \A k \in 1 .. n :
       /\ Start(j, k) \in Nat
       /\ Len(Groups(j)[k].members) \in Nat \ {0}
       /\ Start(j, k) + Len(Groups(j)[k].members) = ge(k)
       /\ ge(k) <= m
       /\ \A i \in 1 .. Len(Groups(j)[k].members) : Groups(j)[k].members[i] = Children[j][Start(j, k) + i]
      <4> SUFFICES ASSUME NEW k \in 1 .. n
           PROVE /\ Start(j, k) \in Nat
             /\ Len(Groups(j)[k].members) \in Nat \ {0}
             /\ Start(j, k) + Len(Groups(j)[k].members) = ge(k)
             /\ ge(k) <= m
             /\ \A i \in 1 .. Len(Groups(j)[k].members) : Groups(j)[k].members[i] = Children[j][Start(j, k) + i]
        OBVIOUS
      <4>1. ge(k) \in Nat /\ ge(k - 1) \in Nat /\ ge(k - 1) < ge(k) /\ ge(k) <= m
        BY <1>1, <2>2
      <4>2. Start(j, k) = ge(k - 1)
        BY <2>5
      <4>3. /\ Len(Groups(j)[k].members) = ge(k) - ge(k - 1)
            /\ \A i \in 1 .. ge(k) - ge(k - 1) :
                 Groups(j)[k].members[i] = Children[j][ge(k - 1) + i]
        BY <2>4
      <4>4. PICK e, b : e = ge(k) /\ b = ge(k - 1)
        OBVIOUS
      <4>5. e \in Nat /\ b \in Nat /\ e - b \in Nat \ {0} /\ b + (e - b) = e
        BY <4>1, <4>4
      <4> HIDE DEF m, n
      <4> QED
        BY <4>1, <4>2, <4>3, <4>4, <4>5
    <3>4. \A k, l \in 1 .. n : k < l => ge(k) <= Start(j, l)
      BY <1>1, <2>2, <2>5
    <3> QED
      <4> HIDE DEF m, n
      <4>1. m = Len(Children[j])
        BY DEF m
      <4>2. ~ InThread(j)
        BY <2>1
      <4>3. \A k, l \in 1 .. n : k < l => Start(j, k) + Len(Groups(j)[k].members) <= Start(j, l)
        BY <3>3, <3>4
      <4>4. Len(Groups(j)) = n /\ DOMAIN Groups(j) = 1 .. n
        BY <2>3
      <4>5. \A k \in 1 .. n : Start(j, k) + Len(Groups(j)[k].members) <= m
        BY <3>3
      <4> QED
        BY <1>1, <1>5, <3>2, <3>3, <4>1, <4>2, <4>3, <4>4, <4>5 DEF DivisionOK
  <2> QED
    BY <1>1, <2>3, <2>6, <2>7, <2>8 DEF SharesOK
<1> QED
  BY <1>1, <1>2, <1>3, <1>4, <1>5
-----------------------------------------------------------------------------
(* Jobs, threads and members.                                              *)
LEMMA WorkerType ==
  /\ \A t \in Workers : /\ t = <<t[1], t[2]>>
                        /\ t[1] \in Jobs \ Leaves
                        /\ t[2] \in DOMAIN Children[t[1]]
                        /\ t[2] \in Nat \ {0}
  /\ \A j \in Jobs : \A k \in DOMAIN Children[j] : <<j, k>> \in Workers
<1>1. \A j \in Jobs : Children[j] \in Seq(Jobs)
  BY ChildThreadsAssumption
<1>2. \A j \in Jobs : DOMAIN Children[j] = 1 .. Len(Children[j]) /\ Len(Children[j]) \in Nat
  BY <1>1
<1>3. ASSUME NEW t \in Workers
      PROVE  /\ t = <<t[1], t[2]>> /\ t[1] \in Jobs \ Leaves
             /\ t[2] \in DOMAIN Children[t[1]] /\ t[2] \in Nat \ {0}
  <2>1. PICK j \in Jobs : t \in {j} \X DOMAIN Children[j]
    BY DEF Workers
  <2>2. t = <<t[1], t[2]>> /\ t[1] = j /\ t[2] \in DOMAIN Children[j]
    BY <2>1
  <2>3. t[2] \in 1 .. Len(Children[j])
    BY <1>2, <2>2
  <2>4. Children[j] # <<>>
    BY <2>3
  <2> QED
    BY <2>2, <2>3, <2>4, <1>2 DEF Leaves
<1>4. ASSUME NEW j \in Jobs, NEW k \in DOMAIN Children[j]
      PROVE  <<j, k>> \in Workers
  BY DEF Workers
<1> QED
  BY <1>3, <1>4

(* A job that was called has processors, and so its division is as it      *)
(* should.                                                                 *)
LEMMA Begun ==
  ASSUME RunTypeOK, CallsOK, NEW j \in Jobs \ Leaves, job[j] # "idle"
  PROVE  procs[j] \in Nat \ {0} /\ DivisionOK(j) /\ SharesOK(j)
<1>1. procs[j] \in Nat \ {0}
  BY DEF RunTypeOK, CallsOK
<1> QED
  BY <1>1, Division

(* Where a member of a group is among the children.                        *)
LEMMA MemberPlace ==
  ASSUME RunTypeOK, CallsOK, NEW t \in Workers, Planned(t), NEW n \in 1 .. Len(Group(t).members)
  PROVE  /\ Group(t).members[n] \in Jobs
         /\ Start(t[1], t[2]) + n \in DOMAIN Children[t[1]]
         /\ Group(t).members[n] = Children[t[1]][Start(t[1], t[2]) + n]
         /\ Start(t[1], t[2]) \in Nat
         /\ Start(t[1], t[2]) + n <= Start(t[1], t[2]) + Len(Group(t).members)
<1>1. t[1] \in Jobs \ Leaves /\ t[2] \in 1 .. Len(Groups(t[1])) /\ DivisionOK(t[1])
  <2>1. t[1] \in Jobs \ Leaves /\ t[2] \in Nat \ {0}
    BY WorkerType
  <2>2. DivisionOK(t[1])
    BY <2>1, Begun DEF Planned
  <2> QED
    BY <2>1, <2>2 DEF Planned, DivisionOK
<1>2. Children[t[1]] \in Seq(Jobs)
  BY <1>1, ChildThreadsAssumption
<1>3. /\ Start(t[1], t[2]) \in Nat /\ Len(Group(t).members) \in Nat
      /\ Start(t[1], t[2]) + Len(Group(t).members) <= Len(Children[t[1]])
      /\ Group(t).members[n] = Children[t[1]][Start(t[1], t[2]) + n]
  BY <1>1 DEF DivisionOK, Group
<1>4. Start(t[1], t[2]) + n \in 1 .. Len(Children[t[1]])
  BY <1>2, <1>3
<1> QED
  BY <1>2, <1>3, <1>4

(* No job is in two places.                                                *)
LEMMA OnePlace ==
  ASSUME RunTypeOK, CallsOK,
         NEW t \in Workers, Planned(t), NEW n \in 1 .. Len(Group(t).members),
         NEW u \in Workers, Planned(u), NEW i \in 1 .. Len(Group(u).members),
         Group(t).members[n] = Group(u).members[i]
  PROVE  t = u /\ n = i
<1>1. t = <<t[1], t[2]>> /\ t[1] \in Jobs \ Leaves /\ u = <<u[1], u[2]>> /\ u[1] \in Jobs \ Leaves
      /\ t[2] \in Nat \ {0} /\ u[2] \in Nat \ {0}
  BY WorkerType
<1>2. /\ Start(t[1], t[2]) + n \in DOMAIN Children[t[1]]
      /\ Group(t).members[n] = Children[t[1]][Start(t[1], t[2]) + n]
      /\ Start(t[1], t[2]) \in Nat
  BY MemberPlace
<1>3. /\ Start(u[1], u[2]) + i \in DOMAIN Children[u[1]]
      /\ Group(u).members[i] = Children[u[1]][Start(u[1], u[2]) + i]
      /\ Start(u[1], u[2]) \in Nat
  BY MemberPlace
<1>4. t[1] = u[1] /\ Start(t[1], t[2]) + n = Start(u[1], u[2]) + i
  <2>1. PICK p, q : p = Start(t[1], t[2]) + n /\ q = Start(u[1], u[2]) + i
    OBVIOUS
  <2>2. /\ p \in DOMAIN Children[t[1]] /\ q \in DOMAIN Children[u[1]]
        /\ Children[t[1]][p] = Children[u[1]][q]
    BY <1>2, <1>3, <2>1
  <2>3. t[1] \in Jobs /\ u[1] \in Jobs
    BY <1>1
  <2>4. t[1] = u[1] /\ p = q
    BY <2>2, <2>3, TreeAssumption
  <2> QED
    BY <2>1, <2>4
<1>5. DivisionOK(t[1])
  BY <1>1, Begun DEF Planned
<1>6. /\ t[2] \in 1 .. Len(Groups(t[1])) /\ u[2] \in 1 .. Len(Groups(t[1]))
      /\ Len(Group(t).members) \in Nat /\ Len(Group(u).members) \in Nat
  <2>1. /\ t[2] <= Len(Groups(t[1])) /\ u[2] <= Len(Groups(t[1])) /\ Len(Groups(t[1])) \in Nat
        /\ \A k \in 1 .. Len(Groups(t[1])) : Len(Groups(t[1])[k].members) \in Nat
    BY <1>4, <1>5 DEF Planned, DivisionOK
  <2>2. t[2] \in 1 .. Len(Groups(t[1])) /\ u[2] \in 1 .. Len(Groups(t[1]))
    BY <1>1, <2>1
  <2> QED
    BY <1>4, <2>1, <2>2 DEF Group
<1>7. /\ t[2] < u[2] => Start(t[1], t[2]) + Len(Group(t).members) <= Start(t[1], u[2])
      /\ u[2] < t[2] => Start(t[1], u[2]) + Len(Group(u).members) <= Start(t[1], t[2])
  BY <1>4, <1>5, <1>6 DEF DivisionOK, Group
<1>8. t[2] = u[2]
  <2>1. PICK p, q, a, b : /\ p = Start(t[1], t[2]) /\ q = Start(u[1], u[2])
                          /\ a = Len(Group(t).members) /\ b = Len(Group(u).members)
    OBVIOUS
  <2>2. /\ p \in Nat /\ q \in Nat /\ a \in Nat /\ b \in Nat /\ p + n = q + i
        /\ n \in 1 .. a /\ i \in 1 .. b
        /\ t[2] < u[2] => p + a <= q
        /\ u[2] < t[2] => q + b <= p
    BY <1>2, <1>3, <1>4, <1>6, <1>7, <2>1
  <2>3. PICK x, y : x = t[2] /\ y = u[2]
    OBVIOUS
  <2>4. x \in Nat /\ y \in Nat
    BY <1>1, <2>3
  <2>5. ~ (x < y)
    BY <2>2, <2>3
  <2>6. ~ (y < x)
    BY <2>2, <2>3
  <2>7. x = y
    BY <2>4, <2>5, <2>6
  <2> QED
    BY <2>3, <2>7
<1>9. t = u
  BY <1>1, <1>4, <1>8
<1>10. n = i
  BY <1>2, <1>4, <1>9
<1> QED
  BY <1>9, <1>10

(* Every child is a member of a group.                                     *)
LEMMA ChildPlace ==
  ASSUME RunTypeOK, CallsOK, NEW j \in Jobs \ Leaves, job[j] # "idle", NEW c \in DOMAIN Children[j]
  PROVE  \E k \in 1 .. Len(Groups(j)) :
           /\ <<j, k>> \in Workers /\ Planned(<<j, k>>)
           /\ Group(<<j, k>>) = Groups(j)[k]
           /\ c - Start(j, k) \in 1 .. Len(Groups(j)[k].members)
           /\ Groups(j)[k].members[c - Start(j, k)] = Children[j][c]
<1>1. DivisionOK(j)
  BY Begun
<1>2. Children[j] \in Seq(Jobs)
  BY ChildThreadsAssumption
<1>3. c \in 1 .. Len(Children[j]) /\ Len(Children[j]) \in Nat
  BY <1>2
<1>4. PICK k \in 1 .. Len(Groups(j)) : Start(j, k) < c /\ c <= Start(j, k) + Len(Groups(j)[k].members)
  BY <1>1, <1>3 DEF DivisionOK
<1>5. /\ Start(j, k) \in Nat /\ Len(Groups(j)[k].members) \in Nat
      /\ \A n \in 1 .. Len(Groups(j)[k].members) :
           Groups(j)[k].members[n] = Children[j][Start(j, k) + n]
  BY <1>1 DEF DivisionOK
<1>6. c - Start(j, k) \in 1 .. Len(Groups(j)[k].members) /\ Start(j, k) + (c - Start(j, k)) = c
  BY <1>3, <1>4, <1>5
<1>7. Groups(j)[k].members[c - Start(j, k)] = Children[j][c]
  BY <1>5, <1>6
<1>8. k \in DOMAIN Children[j]
  BY <1>1, <1>2, <1>3 DEF DivisionOK
<1>9. <<j, k>> \in Workers /\ Planned(<<j, k>>) /\ Group(<<j, k>>) = Groups(j)[k]
  BY <1>8, WorkerType DEF Planned, Group
<1> QED
  BY <1>6, <1>7, <1>9
-----------------------------------------------------------------------------
(* What a step leaves alone.                                               *)
LEMMA DivisionKept ==
  ASSUME NEW j, procs'[j] = procs[j]
  PROVE  Groups(j)' = Groups(j) /\ (InThread(j)' <=> InThread(j))
BY DEF Groups, InThread

(* A thread is at one of the members of its group.                         *)
LEMMA AtMember ==
  ASSUME RunTypeOK, CallsOK, NEW t \in Workers, Planned(t), WorkerOK(t)
  PROVE  at[t] \in 1 .. Len(Group(t).members) /\ Len(Group(t).members) \in Nat
<1>1. t[1] \in Jobs \ Leaves /\ t[2] \in Nat \ {0}
  BY WorkerType
<1>2. DivisionOK(t[1])
  BY <1>1, Begun DEF Planned
<1>3. Len(Group(t).members) \in Nat
  BY <1>1, <1>2 DEF DivisionOK, Planned, Group
<1>4. at[t] \in Nat \ {0}
  BY DEF RunTypeOK
<1>5. at[t] <= Len(Group(t).members)
  BY DEF WorkerOK
<1> QED
  BY <1>3, <1>4, <1>5

(* A thread that does not move keeps its part of the invariant when its    *)
(* members keep what they came to; so it does when it goes.                *)
LEMMA WorkerKept ==
  ASSUME RunTypeOK, CallsOK, NEW t \in Workers, Planned(t), WorkerOK(t),
         procs'[t[1]] = procs[t[1]], at'[t] = at[t],
         thread'[t] = thread[t] \/ (thread[t] = "leaving" /\ thread'[t] = "gone"),
         exception'[t] = exception[t],
         \A n \in 1 .. Len(Group(t).members) :
           LET x == Group(t).members[n] IN
           /\ job[x] \in {"idle", "returned", "threw"} =>
                job'[x] = job[x] /\ raised'[x] = raised[x]
           /\ job[x] # "idle" => procs'[x] = procs[x]
           /\ job[x] \notin {"idle", "returned", "threw"} => job'[x] # "idle"
  PROVE  WorkerOK(t)'
<1>1. Group(t)' = Group(t)
  BY DivisionKept DEF Group
<1>2. at[t] \in 1 .. Len(Group(t).members) /\ Len(Group(t).members) \in Nat
  BY AtMember
<1>3. PICK m : m = Group(t).members
  OBVIOUS
<1>4. Member(t) = m[at[t]] /\ Member(t)' = m[at[t]] /\ at[t] \in 1 .. Len(m)
  BY <1>1, <1>2, <1>3 DEF Member
<1>5. \A n \in 1 .. Len(m) :
       /\ n < at[t] => job'[m[n]] = "returned"
       /\ n > at[t] \/ thread[t] = "none" => job'[m[n]] = "idle"
       /\ job'[m[n]] # "idle" => procs'[m[n]] = Group(t).procs
  <2> SUFFICES ASSUME NEW n \in 1 .. Len(m)
               PROVE  /\ n < at[t] => job'[m[n]] = "returned"
                      /\ n > at[t] \/ thread[t] = "none" => job'[m[n]] = "idle"
                      /\ job'[m[n]] # "idle" => procs'[m[n]] = Group(t).procs
    OBVIOUS
  <2>1. /\ n < at[t] => job[m[n]] = "returned"
        /\ n > at[t] \/ thread[t] = "none" => job[m[n]] = "idle"
        /\ job[m[n]] # "idle" => procs[m[n]] = Group(t).procs
    BY <1>3 DEF WorkerOK
  <2>2. /\ job[m[n]] \in {"idle", "returned", "threw"} => job'[m[n]] = job[m[n]]
        /\ job[m[n]] # "idle" => procs'[m[n]] = procs[m[n]]
    BY <1>3
  <2> QED
    BY <2>1, <2>2
<1>6. /\ thread'[t] = "running" => exception'[t] = None
      /\ thread'[t] \in {"leaving", "gone"} =>
           \/ job'[m[at[t]]] = "threw" /\ exception[t] = raised'[m[at[t]]]
           \/ job'[m[at[t]]] = "returned" /\ at[t] = Len(m) /\ exception[t] = None
  <2>1. /\ job[m[at[t]]] \in {"idle", "returned", "threw"} =>
             job'[m[at[t]]] = job[m[at[t]]] /\ raised'[m[at[t]]] = raised[m[at[t]]]
    BY <1>3, <1>4
  <2>2. /\ thread[t] = "running" => exception[t] = None
        /\ thread[t] \in {"leaving", "gone"} =>
             \/ job[m[at[t]]] = "threw" /\ exception[t] = raised[m[at[t]]]
             \/ job[m[at[t]]] = "returned" /\ at[t] = Len(m) /\ exception[t] = None
    BY <1>3, <1>4 DEF WorkerOK
  <2> QED
    BY <2>1, <2>2
<1>7. at[t] <= Len(m)
  BY <1>3 DEF WorkerOK
<1>8. thread'[t] = "none" <=> thread[t] = "none"
  OBVIOUS
<1> QED
  BY <1>1, <1>3, <1>4, <1>5, <1>6, <1>7, <1>8 DEF WorkerOK

(* A job is as it was when neither it nor its threads move.                *)
LEMMA JobKept ==
  ASSUME NEW j \in Jobs \ Leaves, JobOK(j), DivisionOK(j),
         procs'[j] = procs[j], job'[j] = job[j], count'[j] = count[j],
         \A k \in DOMAIN Children[j] : thread'[<<j, k>>] = thread[<<j, k>>]
  PROVE  JobOK(j)'
<1>1. Groups(j)' = Groups(j) /\ (InThread(j)' <=> InThread(j))
  BY DivisionKept
<1>2. \A k \in 1 .. Len(Groups(j)) : k \in DOMAIN Children[j]
  <2>1. Children[j] \in Seq(Jobs)
    BY ChildThreadsAssumption
  <2> QED
    BY <2>1 DEF DivisionOK
<1>3. \A k \in 1 .. Len(Groups(j)) : thread'[<<j, k>>] = thread[<<j, k>>]
  BY <1>2
<1>4. 1 \in 1 .. Len(Groups(j))
  BY DEF DivisionOK
<1>5. thread'[<<j, 1>>] = thread[<<j, 1>>]
  BY <1>3, <1>4
<1> QED
  BY <1>1, <1>3, <1>5 DEF JobOK, Ended

(* What a job came to stays in order.                                      *)
LEMMA InOrderKept ==
  ASSUME RunTypeOK, NEW j \in Jobs, Ended(j), InOrder(j), failing' = failing,
         \A l \in Jobs : Ended(l) => job'[l] = job[l] /\ raised'[l] = raised[l]
  PROVE  InOrder(j)'
<1>1. LeavesBelow[j] \subseteq Jobs
  BY DEF LeavesBelow, Leaves
<1>2. job'[j] = job[j] /\ raised'[j] = raised[j]
  OBVIOUS
<1>3. \A l \in LeavesBelow[j] : job[l] = "returned" => job'[l] = "returned"
  BY <1>1 DEF Ended
<1> QED
  BY <1>2, <1>3 DEF InOrder
-----------------------------------------------------------------------------
(* The leaves below a job are those below its children.                    *)
LEMMA ChildIsJob ==
  ASSUME NEW j \in Jobs, NEW k \in DOMAIN Children[j]
  PROVE  Children[j][k] \in Jobs
<1>1. Children[j] \in Seq(Jobs)
  BY ChildThreadsAssumption
<1> QED
  BY <1>1

(* Under(j) is the least set with j that has the children of its jobs.     *)
LEMMA UnderClosed ==
  ASSUME NEW j \in Jobs
  PROVE  /\ j \in Under(j)
         /\ \A x \in Under(j) : \A k \in DOMAIN Children[x] : Children[x][k] \in Under(j)
<1>1. j \in Under(j)
  BY DEF Under
<1>2. ASSUME NEW x \in Under(j), NEW k \in DOMAIN Children[x]
      PROVE  Children[x][k] \in Under(j)
  <2>1. x \in Jobs /\ Children[x][k] \in Jobs
    BY ChildIsJob DEF Under
  <2>2. ASSUME NEW S \in SUBSET Jobs, j \in S,
               \A i \in S : \A n \in DOMAIN Children[i] : Children[i][n] \in S
        PROVE  Children[x][k] \in S
    <3>1. x \in S
      BY <2>2 DEF Under
    <3> QED
      BY <2>2, <3>1
  <2> QED
    BY <2>1, <2>2 DEF Under
<1> QED
  BY <1>1, <1>2

LEMMA UnderLeast ==
  ASSUME NEW j \in Jobs, NEW S \in SUBSET Jobs, j \in S,
         \A i \in S : \A n \in DOMAIN Children[i] : Children[i][n] \in S
  PROVE  Under(j) \subseteq S
BY DEF Under

LEMMA UnderJob ==
  ASSUME NEW j \in Jobs
  PROVE  \A l : l \in Under(j) <=> l = j \/ \E k \in DOMAIN Children[j] : l \in Under(Children[j][k])
<1> DEFINE S == {l \in Jobs : l = j \/ \E k \in DOMAIN Children[j] : l \in Under(Children[j][k])}
<1>1. ASSUME NEW i \in S, NEW n \in DOMAIN Children[i] PROVE Children[i][n] \in S
  <2>1. Children[i][n] \in Jobs
    BY ChildIsJob
  <2>2. CASE i = j
    <3>1. Children[i][n] \in Under(Children[j][n])
      BY <2>1, <2>2, UnderClosed
    <3> QED
      BY <2>1, <2>2, <3>1
  <2>3. CASE \E k \in DOMAIN Children[j] : i \in Under(Children[j][k])
    <3>1. PICK k \in DOMAIN Children[j] : i \in Under(Children[j][k])
      BY <2>3
    <3>2. Children[j][k] \in Jobs
      BY ChildIsJob
    <3>3. Children[i][n] \in Under(Children[j][k])
      BY <3>1, <3>2, UnderClosed
    <3> QED
      BY <2>1, <3>3
  <2> QED
    BY <2>2, <2>3
<1>2. Under(j) \subseteq S
  <2>1. S \in SUBSET Jobs /\ j \in S
    OBVIOUS
  <2> HIDE DEF S
  <2> QED
    BY <1>1, <2>1, UnderLeast
<1>3. ASSUME NEW k \in DOMAIN Children[j] PROVE Under(Children[j][k]) \subseteq Under(j)
  <2>1. Children[j][k] \in Jobs /\ Children[j][k] \in Under(j)
    BY ChildIsJob, UnderClosed
  <2>2. Under(j) \in SUBSET Jobs
    BY DEF Under
  <2> QED
    BY <2>1, <2>2, UnderClosed, UnderLeast
<1>4. j \in Under(j)
  BY UnderClosed
<1> QED
  BY <1>2, <1>3, <1>4

LEMMA Below ==
  /\ \A j \in Leaves : LeavesBelow[j] = {j}
  /\ \A j \in Jobs \ Leaves : \A l :
       l \in LeavesBelow[j] <=> \E k \in DOMAIN Children[j] : l \in LeavesBelow[Children[j][k]]
  /\ \A j \in Jobs : LeavesBelow[j] \subseteq Leaves
<1>1. \A j \in Jobs : LeavesBelow[j] = Under(j) \cap Leaves
  BY DEF LeavesBelow
<1>2. ASSUME NEW j \in Leaves PROVE LeavesBelow[j] = {j}
  <2>1. j \in Jobs /\ DOMAIN Children[j] = {}
    BY DEF Leaves
  <2> QED
    BY <1>1, <2>1, UnderJob
<1>3. ASSUME NEW j \in Jobs \ Leaves, NEW l
      PROVE  l \in LeavesBelow[j] <=> \E k \in DOMAIN Children[j] : l \in LeavesBelow[Children[j][k]]
  <2>1. l \in Under(j) <=> l = j \/ \E k \in DOMAIN Children[j] : l \in Under(Children[j][k])
    BY UnderJob
  <2>2. \A k \in DOMAIN Children[j] : LeavesBelow[Children[j][k]] = Under(Children[j][k]) \cap Leaves
    BY <1>1, ChildIsJob
  <2> QED
    BY <1>1, <2>1, <2>2
<1> QED
  BY <1>1, <1>2, <1>3
-----------------------------------------------------------------------------
(* Any step but the call of a member: what a job j at work, or one of its  *)
(* threads, does leaves the other jobs and threads as they were.           *)
LEMMA OthersKept ==
  ASSUME RunIInv, NEW j \in Jobs, job[j] \in {"called", "in thread", "joining"},
         job'[j] # "idle", j \in Leaves => job'[j] \notin {"in thread", "joining"},
         failing' = failing, procs' = procs,
         \A l \in Jobs : l # j => job'[l] = job[l] /\ raised'[l] = raised[l] /\ count'[l] = count[l],
         \A u \in Workers : u[1] # j => /\ thread'[u] = thread[u] /\ at'[u] = at[u]
                                        /\ exception'[u] = exception[u]
                                        /\ joinLock'[u] = joinLock[u]
  PROVE  /\ CallsOK'
         /\ \A l \in Jobs \ Leaves : l # j /\ job'[l] # "idle" => JobOK(l)'
         /\ \A u \in Workers :
              thread'[u] = thread[u] /\ at'[u] = at[u] /\ exception'[u] = exception[u] =>
                /\ thread'[u] = "none" => at'[u] = 1 /\ exception'[u] = None
                /\ Planned(u)' => WorkerOK(u)'
         /\ \A u \in Workers : u[1] # j =>
              (joinLock'[u] <=> thread'[u] \in {"running", "leaving"} /\ ~ InThread(u[1])')
         /\ \A l \in Jobs : l # j /\ Ended(l)' => InOrder(l)'
<1>1. \A l \in Jobs : job'[l] = "idle" <=> job[l] = "idle"
  OBVIOUS
<1>2. CallsOK'
  <2> SUFFICES ASSUME NEW l \in Jobs
               PROVE  /\ job'[l] = "idle" => /\ count'[l] = 0
                          /\ \A k \in DOMAIN Children[l] : /\ job'[Children[l][k]] = "idle"
                                                           /\ thread'[<<l, k>>] = "none"
                      /\ job'[l] # "idle" => procs'[l] # 0
                      /\ l \in Leaves => job'[l] \notin {"in thread", "joining"}
    BY DEF CallsOK
  <2>1. CASE l = j
    BY <2>1 DEF RunIInv, CallsOK
  <2>2. CASE l # j
    <3>1. ASSUME NEW k \in DOMAIN Children[l], job[l] = "idle"
          PROVE  job'[Children[l][k]] = "idle" /\ thread'[<<l, k>>] = "none"
      <4>1. Children[l][k] \in Jobs /\ <<l, k>> \in Workers
        BY ChildIsJob, WorkerType
      <4>2. job[Children[l][k]] = "idle" /\ thread[<<l, k>>] = "none"
        BY <3>1 DEF RunIInv, CallsOK
      <4> QED
        BY <1>1, <2>2, <4>1, <4>2
    <3> QED
      BY <2>2, <3>1 DEF RunIInv, CallsOK
  <2> QED
    BY <2>1, <2>2
<1>3. ASSUME NEW l \in Jobs \ Leaves, l # j, job'[l] # "idle" PROVE JobOK(l)'
  <2>1. DivisionOK(l) /\ JobOK(l)
    BY <1>3, Begun DEF RunIInv, JobsOK
  <2>2. \A k \in DOMAIN Children[l] : thread'[<<l, k>>] = thread[<<l, k>>]
    BY <1>3, WorkerType
  <2> QED
    BY <1>3, <2>1, <2>2, JobKept
<1>4. ASSUME NEW u \in Workers,
             thread'[u] = thread[u], at'[u] = at[u], exception'[u] = exception[u]
      PROVE  /\ thread'[u] = "none" => at'[u] = 1 /\ exception'[u] = None
             /\ Planned(u)' => WorkerOK(u)'
  <2>1. thread'[u] = "none" => at'[u] = 1 /\ exception'[u] = None
    BY <1>4 DEF RunIInv, WorkersOK
  <2>2. ASSUME Planned(u)' PROVE WorkerOK(u)'
    <3>1. u[1] \in Jobs
      BY WorkerType
    <3>2. Planned(u)
      BY <1>1, <2>2, <3>1, DivisionKept DEF Planned
    <3>3. WorkerOK(u)
      BY <3>2 DEF RunIInv, WorkersOK
    <3>4. \A n \in 1 .. Len(Group(u).members) :
            LET x == Group(u).members[n] IN
            /\ job[x] \in {"idle", "returned", "threw"} =>
                 job'[x] = job[x] /\ raised'[x] = raised[x]
            /\ job[x] # "idle" => procs'[x] = procs[x]
            /\ job[x] \notin {"idle", "returned", "threw"} => job'[x] # "idle"
      <4> TAKE n \in 1 .. Len(Group(u).members)
      <4>1. Group(u).members[n] \in Jobs
        BY <3>2, MemberPlace DEF RunIInv
      <4> QED
        BY <1>1, <4>1
    <3> QED
      BY <1>4, <3>1, <3>2, <3>3, <3>4, WorkerKept DEF RunIInv
  <2> QED
    BY <2>1, <2>2
<1>5. ASSUME NEW u \in Workers, u[1] # j
      PROVE  joinLock'[u] <=> thread'[u] \in {"running", "leaving"} /\ ~ InThread(u[1])'
  <2>1. InThread(u[1])' <=> InThread(u[1])
    BY DivisionKept
  <2>2. joinLock[u] <=> thread[u] \in {"running", "leaving"} /\ ~ InThread(u[1])
    BY DEF RunIInv, LocksOK
  <2> QED
    BY <1>5, <2>1, <2>2
<1>6. ASSUME NEW l \in Jobs, l # j, Ended(l)' PROVE InOrder(l)'
  <2>1. Ended(l)
    BY <1>6 DEF Ended
  <2>2. InOrder(l)
    BY <2>1 DEF RunIInv, FirstInOrder, InOrder
  <2>3. \A i \in Jobs : Ended(i) => job'[i] = job[i] /\ raised'[i] = raised[i]
    BY DEF Ended
  <2> QED
    BY <2>1, <2>2, <2>3, InOrderKept DEF RunIInv
<1> QED
  BY <1>2, <1>3, <1>4, <1>5, <1>6

(* A thread that runs was planned by a job at work, and is at one of its   *)
(* members.                                                                *)
LEMMA AtWork ==
  ASSUME RunIInv, NEW t \in Workers, thread[t] \in {"running", "leaving"}
  PROVE  /\ job[t[1]] \in {"called", "in thread", "joining"}
         /\ t[1] \in Jobs \ Leaves /\ t[2] \in 1 .. Len(Groups(t[1])) /\ t = <<t[1], t[2]>>
         /\ Planned(t) /\ WorkerOK(t) /\ DivisionOK(t[1]) /\ JobOK(t[1])
         /\ at[t] \in 1 .. Len(Group(t).members) /\ Len(Group(t).members) \in Nat
         /\ Member(t) \in Jobs
<1>1. t = <<t[1], t[2]>> /\ t[1] \in Jobs \ Leaves /\ t[2] \in DOMAIN Children[t[1]] /\ t[2] \in Nat \ {0}
  BY WorkerType
<1>2. job[t[1]] # "idle"
  BY <1>1 DEF RunIInv, CallsOK
<1>3. DivisionOK(t[1]) /\ JobOK(t[1])
  BY <1>1, <1>2, Begun DEF RunIInv, JobsOK
<1>4. t[2] \in 1 .. Len(Groups(t[1]))
  <2>1. t[2] <= Len(Groups(t[1]))
    <3>1. thread[<<t[1], t[2]>>] # "none"
      BY <1>1
    <3>2. ~ (t[2] > Len(Groups(t[1])))
      BY <1>1, <1>3, <3>1 DEF JobOK
    <3>3. Len(Groups(t[1])) \in Nat
      BY <1>3 DEF DivisionOK
    <3> QED
      BY <1>1, <3>2, <3>3
  <2> QED
    BY <1>1, <1>3, <2>1 DEF DivisionOK
<1>5. job[t[1]] \in {"called", "in thread", "joining"}
  <2>1. ~ Ended(t[1])
    BY <1>1, <1>3, <1>4 DEF JobOK
  <2> QED
    BY <1>1, <1>2, <2>1 DEF Ended, RunIInv, RunTypeOK
<1>6. Planned(t) /\ WorkerOK(t)
  BY <1>2, <1>4, <1>3 DEF Planned, RunIInv, WorkersOK, DivisionOK
<1>7. at[t] \in 1 .. Len(Group(t).members) /\ Len(Group(t).members) \in Nat
  <2>1. at[t] \in Nat \ {0}
    BY DEF RunIInv, RunTypeOK
  <2>2. at[t] <= Len(Group(t).members)
    BY <1>6 DEF WorkerOK
  <2>3. Len(Group(t).members) \in Nat
    BY <1>3, <1>4 DEF DivisionOK, Group
  <2> QED
    BY <2>1, <2>2, <2>3
<1>8. Member(t) \in Jobs
  BY <1>6, <1>7, MemberPlace DEF Member, RunIInv
<1> QED
  BY <1>1, <1>3, <1>4, <1>5, <1>6, <1>7, <1>8
-----------------------------------------------------------------------------
(* Every step keeps the types.                                             *)
LEMMA TypesKept == RunIInv /\ [RunNext]_runVars => RunTypeOK'
<1> SUFFICES ASSUME RunIInv, [RunNext]_runVars PROVE RunTypeOK'
  OBVIOUS
<1> USE DEF RunTypeOK
<1>0. RunTypeOK
  BY DEF RunIInv
<1>1. ASSUME NEW j \in Jobs, LeafEnds(j) PROVE RunTypeOK'
  <2>1. job' = [job EXCEPT ![j] = "returned"] \/ job' = [job EXCEPT ![j] = "threw"]
    BY <1>1 DEF LeafEnds
  <2>2. UNCHANGED raised \/ raised' = [raised EXCEPT ![j] = j]
    BY <1>1 DEF LeafEnds
  <2>3. UNCHANGED <<failing, procs, count, thread, at, exception, joinLock>>
    BY <1>1 DEF LeafEnds
  <2> QED
    BY <1>0, <2>1, <2>2, <2>3
<1>2. ASSUME NEW j \in Jobs, RunInThread(j) PROVE RunTypeOK'
  BY <1>0, <1>2 DEF RunInThread
<1>3. ASSUME NEW j \in Jobs, EndInThread(j) PROVE RunTypeOK'
  <2>1. j \in Jobs \ Leaves
    BY <1>3 DEF EndInThread, RunIInv, CallsOK
  <2>2. <<j, 1>> \in Workers
    <3>1. DivisionOK(j)
      BY <1>3, <2>1, Begun DEF EndInThread, RunIInv
    <3>2. Children[j] \in Seq(Jobs)
      BY ChildThreadsAssumption
    <3>3. 1 \in DOMAIN Children[j]
      BY <3>1, <3>2 DEF DivisionOK
    <3> QED
      BY <3>3, WorkerType
  <2> QED
    BY <1>0, <1>3, <2>2 DEF EndInThread
<1>4. ASSUME NEW j \in Jobs, StartThread(j) PROVE RunTypeOK'
  <2>1. count[j] + 1 \in Nat
    <3>1. count[j] \in Nat
      BY <1>0
    <3> QED
      BY <3>1
  <2>2. count' \in [Jobs -> Nat]
    BY <1>0, <1>4, <2>1 DEF StartThread
  <2> QED
    BY <1>0, <1>4, <2>2 DEF StartThread
<1>5. ASSUME NEW j \in Jobs, AllStarted(j) PROVE RunTypeOK'
  BY <1>0, <1>5 DEF AllStarted
<1>6. ASSUME NEW j \in Jobs, Join(j) PROVE RunTypeOK'
  <2>1. count[j] + 1 \in Nat
    <3>1. count[j] \in Nat
      BY <1>0
    <3> QED
      BY <3>1
  <2>2. count' \in [Jobs -> Nat]
    BY <1>0, <1>6, <2>1 DEF Join
  <2> QED
    BY <1>0, <1>6, <2>2 DEF Join
<1>7. ASSUME NEW j \in Jobs, Raise(j) PROVE RunTypeOK'
  <2>1. ASSUME Threw(j) # {} PROVE FirstException(j) \in Jobs \union {None}
    <3>1. j \in Jobs \ Leaves /\ job[j] # "idle"
      BY <1>7 DEF Raise, RunIInv, CallsOK
    <3>2. DivisionOK(j) /\ Children[j] \in Seq(Jobs)
      BY <3>1, Begun, ChildThreadsAssumption DEF RunIInv
    <3>3. Threw(j) \in SUBSET Nat /\ Threw(j) \subseteq DOMAIN Children[j]
      BY <3>2 DEF Threw, DivisionOK
    <3>4. \E k \in Threw(j) : \A l \in Threw(j) : k <= l
      BY <2>1, <3>3, LeastOf
    <3>5. PICK k : k = CHOOSE n \in Threw(j) : \A l \in Threw(j) : n <= l
      OBVIOUS
    <3>6. k \in Threw(j)
      BY <3>4, <3>5
    <3>7. <<j, k>> \in Workers
      BY <3>3, <3>6, WorkerType
    <3>8. FirstException(j) = exception[<<j, k>>]
      BY <3>5 DEF FirstException
    <3> QED
      BY <1>0, <3>7, <3>8
  <2>2. job' \in [Jobs -> {"idle", "called", "in thread", "joining", "returned", "threw"}]
    BY <1>0, <1>7 DEF Raise
  <2>3. raised' \in [Jobs -> Jobs \union {None}]
    BY <1>0, <1>7, <2>1 DEF Raise
  <2>4. UNCHANGED <<failing, procs, count, thread, at, exception, joinLock>>
    BY <1>7 DEF Raise
  <2> QED
    BY <1>0, <2>2, <2>3, <2>4
<1>8. ASSUME NEW t \in Workers, CallMember(t) PROVE RunTypeOK'
  <2>1. Group(t).procs \in Nat
    <3>1. SharesOK(t[1]) /\ t[2] \in 1 .. Len(Groups(t[1]))
      BY <1>8, AtWork, Begun DEF CallMember, RunIInv
    <3> QED
      BY <3>1 DEF SharesOK, Group
  <2> QED
    BY <1>0, <1>8, <2>1 DEF CallMember
<1>9. ASSUME NEW t \in Workers, MemberReturned(t) PROVE RunTypeOK'
  <2>1. at[t] + 1 \in Nat \ {0}
    <3>1. at[t] \in Nat
      BY <1>0
    <3> QED
      BY <3>1
  <2>2. at' \in [Workers -> Nat \ {0}]
    BY <1>0, <1>9, <2>1 DEF MemberReturned
  <2> QED
    BY <1>0, <1>9, <2>2 DEF MemberReturned
<1>10. ASSUME NEW t \in Workers, MemberThrew(t) PROVE RunTypeOK'
  <2>1. Member(t) \in Jobs
    BY <1>10, AtWork DEF MemberThrew
  <2> QED
    BY <1>0, <1>10, <2>1 DEF MemberThrew
<1>11. ASSUME NEW t \in Workers, Leave(t) PROVE RunTypeOK'
  BY <1>0, <1>11 DEF Leave
<1>12. CASE UNCHANGED runVars
  BY <1>0, <1>12 DEF runVars
<1> QED
  BY <1>1, <1>2, <1>3, <1>4, <1>5, <1>6, <1>7, <1>8, <1>9, <1>10, <1>11, <1>12
     DEF RunNext, JobStep, ThreadStep
-----------------------------------------------------------------------------
(* When a job returned all leaves below it have, and none throws.          *)
LEMMA ReturnedBelow ==
  ASSUME RunIInv, NEW x \in Jobs, job[x] = "returned"
  PROVE  \A l \in LeavesBelow[x] : l \notin failing /\ job[l] = "returned"
<1>1. InOrder(x)
  BY DEF RunIInv, FirstInOrder, InOrder, Ended
<1>2. LeavesBelow[x] \cap failing = {}
  BY <1>1 DEF InOrder
<1> QED
  BY <1>1, <1>2 DEF InOrder

(* A job that threw raised the exception of a leaf below it, one that      *)
(* comes before the others that throw.                                     *)
LEMMA ThrewBelow ==
  ASSUME RunIInv, NEW x \in Jobs, job[x] = "threw"
  PROVE  /\ raised[x] \in LeavesBelow[x] /\ raised[x] \in failing
         /\ \A l \in LeavesBelow[x] : l \in failing /\ l # raised[x] => Before(raised[x], l)
         /\ raised[x] # None
<1>1. InOrder(x)
  BY DEF RunIInv, FirstInOrder, InOrder, Ended
<1>2. LeavesBelow[x] \cap failing # {}
  BY <1>1 DEF InOrder
<1>3. raised[x] \in LeavesBelow[x] \cap failing
      /\ \A l \in (LeavesBelow[x] \cap failing) \ {raised[x]} : Before(raised[x], l)
  BY <1>1, <1>2 DEF InOrder
<1>4. raised[x] \in Jobs
  BY <1>3, Below DEF Leaves
<1> QED
  BY <1>3, <1>4, ChildThreadsAssumption

(* When all threads of a job are at an end: no exception is there only if  *)
(* every leaf below returned; and of those there, that of the first thread *)
(* is of the leaf that comes first, since a child before the one that      *)
(* threw is of the same group or of one before, and has returned.          *)
LEMMA Outcome ==
  ASSUME RunIInv, NEW j \in Jobs \ Leaves, job[j] # "idle",
         \A k \in 1 .. Len(Groups(j)) : thread[<<j, k>>] \in {"leaving", "gone"}
  PROVE  /\ Threw(j) = {} => \A l \in LeavesBelow[j] : l \notin failing /\ job[l] = "returned"
         /\ \A k \in Threw(j) : (\A i \in Threw(j) : k <= i) =>
              /\ exception[<<j, k>>] \in LeavesBelow[j]
              /\ exception[<<j, k>>] \in failing
              /\ \A l \in LeavesBelow[j] : l \in failing /\ l # exception[<<j, k>>] =>
                   Before(exception[<<j, k>>], l)
<1>0. DivisionOK(j) /\ Children[j] \in Seq(Jobs) /\ RunTypeOK /\ CallsOK
  BY Begun, ChildThreadsAssumption DEF RunIInv
<1>1. ASSUME NEW k \in 1 .. Len(Groups(j))
      PROVE  /\ <<j, k>> \in Workers /\ Planned(<<j, k>>) /\ WorkerOK(<<j, k>>)
             /\ Group(<<j, k>>) = Groups(j)[k]
             /\ at[<<j, k>>] \in 1 .. Len(Groups(j)[k].members)
             /\ Len(Groups(j)[k].members) \in Nat
             /\ Member(<<j, k>>) = Groups(j)[k].members[at[<<j, k>>]]
             /\ \A n \in 1 .. Len(Groups(j)[k].members) :
                  /\ n < at[<<j, k>>] => job[Groups(j)[k].members[n]] = "returned"
                  /\ Groups(j)[k].members[n] \in Jobs
                  /\ Start(j, k) + n \in DOMAIN Children[j]
                  /\ Groups(j)[k].members[n] = Children[j][Start(j, k) + n]
             /\ Start(j, k) \in Nat
             /\ Member(<<j, k>>) \in Jobs
  <2>1. k \in DOMAIN Children[j] /\ k <= Len(Groups(j))
    BY <1>0 DEF DivisionOK
  <2>2. <<j, k>> \in Workers /\ Planned(<<j, k>>) /\ Group(<<j, k>>) = Groups(j)[k]
    BY <2>1, WorkerType DEF Planned, Group
  <2>3. WorkerOK(<<j, k>>)
    BY <2>2 DEF RunIInv, WorkersOK
  <2>4. at[<<j, k>>] \in Nat \ {0}
    BY <2>2 DEF RunIInv, RunTypeOK
  <2>5. at[<<j, k>>] <= Len(Groups(j)[k].members)
    BY <2>2, <2>3 DEF WorkerOK
  <2>6. Len(Groups(j)[k].members) \in Nat
    BY <1>0 DEF DivisionOK
  <2>7. \A n \in 1 .. Len(Groups(j)[k].members) :
          n < at[<<j, k>>] => job[Groups(j)[k].members[n]] = "returned"
    BY <2>2, <2>3 DEF WorkerOK
  <2>8. \A n \in 1 .. Len(Groups(j)[k].members) :
          /\ Groups(j)[k].members[n] \in Jobs
          /\ Start(j, k) + n \in DOMAIN Children[j]
          /\ Groups(j)[k].members[n] = Children[j][Start(j, k) + n]
    <3>0. PICK t : t = <<j, k>>
      OBVIOUS
    <3>1. t[1] = j /\ t[2] = k
      BY <3>0
    <3>2. t \in Workers /\ Planned(t) /\ Group(t) = Groups(j)[k]
      BY <2>2, <3>0
    <3>3. ASSUME NEW n \in 1 .. Len(Group(t).members)
          PROVE  /\ Group(t).members[n] \in Jobs
                 /\ Start(t[1], t[2]) + n \in DOMAIN Children[t[1]]
                 /\ Group(t).members[n] = Children[t[1]][Start(t[1], t[2]) + n]
      BY <1>0, <3>2, MemberPlace
    <3> QED
      BY <3>1, <3>2, <3>3
  <2>9. Start(j, k) \in Nat
    BY <1>0 DEF DivisionOK
  <2>10. /\ Member(<<j, k>>) = Groups(j)[k].members[at[<<j, k>>]]
         /\ at[<<j, k>>] \in 1 .. Len(Groups(j)[k].members)
    BY <2>2, <2>4, <2>5, <2>6 DEF Member
  <2> QED
    BY <2>2, <2>3, <2>6, <2>7, <2>8, <2>9, <2>10
<1>2. ASSUME NEW k \in 1 .. Len(Groups(j)), NEW n \in 1 .. Len(Groups(j)[k].members),
             n < at[<<j, k>>] \/ k \notin Threw(j)
      PROVE  job[Groups(j)[k].members[n]] = "returned" /\ Groups(j)[k].members[n] \in Jobs
  <2>1. Groups(j)[k].members[n] \in Jobs
    BY <1>1
  <2>2. CASE n < at[<<j, k>>]
    BY <1>1, <2>1, <2>2
  <2>3. CASE k \notin Threw(j)
    <3>1. exception[<<j, k>>] = None
      BY <2>3 DEF Threw
    <3>2. Member(<<j, k>>) \in Jobs
      BY <1>1
    <3>3. job[Member(<<j, k>>)] # "threw" \/ exception[<<j, k>>] # raised[Member(<<j, k>>)]
      BY <3>1, <3>2, ThrewBelow
    <3>4. job[Member(<<j, k>>)] = "returned" /\ at[<<j, k>>] = Len(Groups(j)[k].members)
      BY <1>1, <3>3 DEF WorkerOK
    <3>5. CASE n < at[<<j, k>>]
      BY <1>1, <2>1, <3>5
    <3>6. CASE n = at[<<j, k>>]
      BY <1>1, <2>1, <3>4, <3>6
    <3> QED
      BY <1>1, <3>4, <3>5, <3>6
  <2> QED
    BY <1>2, <2>2, <2>3

(* Each leaf is below a member of a group.                                 *)
<1>3. ASSUME NEW l \in LeavesBelow[j]
      PROVE  \E c \in DOMAIN Children[j] : \E k \in 1 .. Len(Groups(j)) :
               /\ c - Start(j, k) \in 1 .. Len(Groups(j)[k].members)
               /\ Groups(j)[k].members[c - Start(j, k)] = Children[j][c]
               /\ l \in LeavesBelow[Children[j][c]]
  <2>1. PICK c \in DOMAIN Children[j] : l \in LeavesBelow[Children[j][c]]
    BY Below
  <2> QED
    BY <1>0, <2>1, ChildPlace
<1>4. ASSUME Threw(j) = {}, NEW l \in LeavesBelow[j]
      PROVE  l \notin failing /\ job[l] = "returned"
  <2>1. PICK c \in DOMAIN Children[j] : \E k \in 1 .. Len(Groups(j)) :
               /\ c - Start(j, k) \in 1 .. Len(Groups(j)[k].members)
               /\ Groups(j)[k].members[c - Start(j, k)] = Children[j][c]
               /\ l \in LeavesBelow[Children[j][c]]
    BY <1>3
  <2>2. PICK k \in 1 .. Len(Groups(j)) :
               /\ c - Start(j, k) \in 1 .. Len(Groups(j)[k].members)
               /\ Groups(j)[k].members[c - Start(j, k)] = Children[j][c]
               /\ l \in LeavesBelow[Children[j][c]]
    BY <2>1
  <2>3. job[Children[j][c]] = "returned" /\ Children[j][c] \in Jobs
    BY <1>2, <1>4, <2>2
  <2> QED
    BY <2>2, <2>3, ReturnedBelow
<1>5. ASSUME NEW k \in Threw(j), \A i \in Threw(j) : k <= i
      PROVE  /\ exception[<<j, k>>] \in LeavesBelow[j]
             /\ exception[<<j, k>>] \in failing
             /\ \A l \in LeavesBelow[j] : l \in failing /\ l # exception[<<j, k>>] =>
                  Before(exception[<<j, k>>], l)
  <2>1. k \in 1 .. Len(Groups(j)) /\ exception[<<j, k>>] # None
    BY DEF Threw
  <2>2. PICK p : p = Start(j, k) + at[<<j, k>>]
    OBVIOUS
  <2>3. /\ p \in DOMAIN Children[j] /\ Member(<<j, k>>) = Children[j][p]
        /\ Start(j, k) \in Nat /\ p <= Start(j, k) + Len(Groups(j)[k].members)
        /\ Member(<<j, k>>) \in Jobs
    <3>1. at[<<j, k>>] \in 1 .. Len(Groups(j)[k].members) /\ Len(Groups(j)[k].members) \in Nat
      BY <1>1, <2>1
    <3>2. /\ Start(j, k) + at[<<j, k>>] \in DOMAIN Children[j]
          /\ Member(<<j, k>>) = Children[j][Start(j, k) + at[<<j, k>>]]
          /\ Start(j, k) \in Nat /\ Member(<<j, k>>) \in Jobs
      <4>1. /\ Member(<<j, k>>) = Groups(j)[k].members[at[<<j, k>>]]
            /\ Start(j, k) \in Nat /\ Member(<<j, k>>) \in Jobs
        BY <1>1, <2>1
      <4>2. /\ Start(j, k) + at[<<j, k>>] \in DOMAIN Children[j]
            /\ Groups(j)[k].members[at[<<j, k>>]] = Children[j][Start(j, k) + at[<<j, k>>]]
        <5>1. \A n \in 1 .. Len(Groups(j)[k].members) :
                  /\ Start(j, k) + n \in DOMAIN Children[j]
                  /\ Groups(j)[k].members[n] = Children[j][Start(j, k) + n]
          BY <1>1, <2>1
        <5> QED
          BY <3>1, <5>1
      <4> QED
        BY <4>1, <4>2
    <3>3. p <= Start(j, k) + Len(Groups(j)[k].members)
      BY <2>2, <3>1, <3>2
    <3> QED
      BY <2>2, <3>2, <3>3
  <2>4. PICK x : x = Member(<<j, k>>)
    OBVIOUS
  <2>5. job[x] = "threw" /\ exception[<<j, k>>] = raised[x]
    BY <1>1, <2>1, <2>4 DEF WorkerOK
  <2>6. /\ raised[x] \in LeavesBelow[x] /\ raised[x] \in failing
        /\ \A l \in LeavesBelow[x] : l \in failing /\ l # raised[x] => Before(raised[x], l)
    BY <2>3, <2>4, <2>5, ThrewBelow
  <2>7. raised[x] \in LeavesBelow[j]
    BY <2>3, <2>4, <2>6, Below
  <2>8. ASSUME NEW l \in LeavesBelow[j], l \in failing, l # raised[x]
        PROVE  Before(raised[x], l)
    <3>1. PICK c \in DOMAIN Children[j] : \E i \in 1 .. Len(Groups(j)) :
               /\ c - Start(j, i) \in 1 .. Len(Groups(j)[i].members)
               /\ Groups(j)[i].members[c - Start(j, i)] = Children[j][c]
               /\ l \in LeavesBelow[Children[j][c]]
      BY <1>3
    <3>2. PICK i \in 1 .. Len(Groups(j)) :
               /\ c - Start(j, i) \in 1 .. Len(Groups(j)[i].members)
               /\ Groups(j)[i].members[c - Start(j, i)] = Children[j][c]
               /\ l \in LeavesBelow[Children[j][c]]
      BY <3>1
    <3>3. c \in Nat /\ p \in Nat
      BY <1>0, <2>3
    <3>4. CASE c = p
      BY <2>3, <2>4, <2>6, <2>8, <3>2, <3>4
    <3>5. CASE p < c
      BY <2>3, <2>4, <2>6, <3>2, <3>5 DEF Before
    <3>6. CASE c < p
      <4>1. /\ Start(j, i) \in Nat
            /\ k < i => Start(j, k) + Len(Groups(j)[k].members) <= Start(j, i)
        BY <1>0, <2>1 DEF DivisionOK
      <4>2. ~ (k < i)
        <5>1. PICK a, b, d : a = Start(j, k) + Len(Groups(j)[k].members) /\ b = Start(j, i)
                             /\ d = Len(Groups(j)[k].members)
          OBVIOUS
        <5>2. d \in Nat /\ Start(j, k) \in Nat /\ b \in Nat /\ a = Start(j, k) + d
          BY <1>1, <2>1, <2>3, <3>2, <4>1, <5>1
        <5>3. p <= a
          BY <1>1, <2>1, <2>3, <3>3, <5>1, <5>2
        <5>4. b < c
          BY <3>2, <3>3, <5>1, <5>2
        <5>5. k < i => a <= b
          BY <4>1, <5>1
        <5> QED
          BY <3>3, <3>6, <5>2, <5>3, <5>4, <5>5
      <4>3. (c - Start(j, i) < at[<<j, i>>]) \/ i \notin Threw(j)
        <5>1. CASE i = k
          <6>1. at[<<j, k>>] \in Nat
            <7>1. at[<<j, k>>] \in 1 .. Len(Groups(j)[k].members)
              BY <1>1, <2>1
            <7> QED
              BY <7>1
          <6> QED
            BY <2>2, <2>3, <3>3, <3>6, <5>1, <6>1
        <5>2. CASE i < k
          <6>1. \A q \in Threw(j) : ~ (q < k)
            <7>1. \A q \in Threw(j) : q \in Int
              BY DEF Threw
            <7> QED
              BY <1>5, <2>1, <7>1
          <6> QED
            BY <5>2, <6>1
        <5> QED
          BY <2>1, <4>2, <5>1, <5>2
      <4>4. job[Children[j][c]] = "returned" /\ Children[j][c] \in Jobs
        BY <1>2, <3>2, <4>3
      <4> QED
        BY <2>8, <3>2, <4>4, ReturnedBelow
    <3> QED
      BY <3>3, <3>4, <3>5, <3>6
  <2> QED
    BY <2>5, <2>6, <2>7, <2>8
<1> QED
  BY <1>4, <1>5
-----------------------------------------------------------------------------
(* What is left to show of a step.                                         *)
LEMMA Enough ==
  ASSUME RunIInv, RunTypeOK', NEW j \in Jobs, job[j] \in {"called", "in thread", "joining"},
         job'[j] # "idle", j \in Leaves => job'[j] \notin {"in thread", "joining"},
         failing' = failing, procs' = procs,
         \A l \in Jobs : l # j => job'[l] = job[l] /\ raised'[l] = raised[l] /\ count'[l] = count[l],
         \A u \in Workers : u[1] # j => /\ thread'[u] = thread[u] /\ at'[u] = at[u]
                                        /\ exception'[u] = exception[u]
                                        /\ joinLock'[u] = joinLock[u],
         j \notin Leaves => JobOK(j)',
         \A u \in Workers : u[1] = j =>
           /\ \/ thread'[u] = thread[u] /\ at'[u] = at[u] /\ exception'[u] = exception[u]
              \/ thread'[u] # "none" /\ WorkerOK(u)'
           /\ joinLock'[u] <=> thread'[u] \in {"running", "leaving"} /\ ~ InThread(j),
         Ended(j)' => InOrder(j)'
  PROVE  RunIInv'
<1>1. /\ CallsOK'
      /\ \A l \in Jobs \ Leaves : l # j /\ job'[l] # "idle" => JobOK(l)'
      /\ \A u \in Workers :
           thread'[u] = thread[u] /\ at'[u] = at[u] /\ exception'[u] = exception[u] =>
             /\ thread'[u] = "none" => at'[u] = 1 /\ exception'[u] = None
             /\ Planned(u)' => WorkerOK(u)'
      /\ \A u \in Workers : u[1] # j =>
           (joinLock'[u] <=> thread'[u] \in {"running", "leaving"} /\ ~ InThread(u[1])')
      /\ \A l \in Jobs : l # j /\ Ended(l)' => InOrder(l)'
  BY OthersKept
<1>2. JobsOK'
  BY <1>1 DEF JobsOK
<1>3. LocksOK'
  <2>1. InThread(j)' <=> InThread(j)
    BY DivisionKept
  <2> QED
    BY <1>1, <2>1 DEF LocksOK
<1>4. WorkersOK'
  BY <1>1 DEF WorkersOK
<1>5. FirstInOrder'
  <2>1. ASSUME NEW l \in Jobs, Ended(l)' PROVE InOrder(l)'
    <3>1. CASE l = j
      BY <2>1, <3>1
    <3>2. CASE l # j
      BY <1>1, <2>1, <3>2
    <3> QED
      BY <3>1, <3>2
  <2> QED
    BY <2>1 DEF FirstInOrder
<1> QED
  BY <1>1, <1>2, <1>3, <1>4, <1>5 DEF RunIInv

LEMMA LeafEndsStep == ASSUME RunIInv, RunTypeOK', NEW j \in Jobs, LeafEnds(j) PROVE RunIInv'
<1>1. /\ job[j] = "called" /\ j \in Leaves
      /\ UNCHANGED <<failing, procs, count, thread, at, exception, joinLock>>
      /\ \/ j \notin failing /\ job' = [job EXCEPT ![j] = "returned"] /\ raised' = raised
         \/ /\ j \in failing /\ job' = [job EXCEPT ![j] = "threw"]
            /\ raised' = [raised EXCEPT ![j] = j]
  BY DEF LeafEnds
<1>2. job \in [Jobs -> {"idle", "called", "in thread", "joining", "returned", "threw"}]
      /\ raised \in [Jobs -> Jobs \union {None}]
  BY DEF RunIInv, RunTypeOK
<1>3. /\ \A l \in Jobs : l # j => job'[l] = job[l] /\ raised'[l] = raised[l]
      /\ \/ j \notin failing /\ job'[j] = "returned"
         \/ j \in failing /\ job'[j] = "threw" /\ raised'[j] = j
  BY <1>1, <1>2
<1>4. InOrder(j)'
  <2>1. LeavesBelow[j] = {j}
    BY <1>1, Below
  <2> QED
    BY <1>1, <1>3, <2>1 DEF InOrder
<1>5. \A u \in Workers : u[1] # j
  BY <1>1, WorkerType
<1>6. /\ job[j] \in {"called", "in thread", "joining"} /\ job'[j] # "idle"
      /\ j \in Leaves => job'[j] \notin {"in thread", "joining"}
      /\ j \notin Leaves => JobOK(j)'
      /\ failing' = failing /\ procs' = procs
  BY <1>1, <1>3
<1>7. \A l \in Jobs : l # j => job'[l] = job[l] /\ raised'[l] = raised[l] /\ count'[l] = count[l]
  BY <1>1, <1>3
<1>8. \A u \in Workers : u[1] # j => /\ thread'[u] = thread[u] /\ at'[u] = at[u]
                                        /\ exception'[u] = exception[u]
                                        /\ joinLock'[u] = joinLock[u]
  BY <1>1
<1>9. \A u \in Workers : u[1] = j =>
        /\ \/ thread'[u] = thread[u] /\ at'[u] = at[u] /\ exception'[u] = exception[u]
           \/ thread'[u] # "none" /\ WorkerOK(u)'
        /\ joinLock'[u] <=> thread'[u] \in {"running", "leaving"} /\ ~ InThread(j)
  BY <1>5
<1> QED
  BY <1>4, <1>6, <1>7, <1>8, <1>9, Enough, ZenonT(30)

(* The threads of a job.                                                   *)
LEMMA OwnThreads ==
  ASSUME RunIInv, NEW j \in Jobs \ Leaves, job[j] # "idle"
  PROVE  /\ DivisionOK(j) /\ JobOK(j)
         /\ 1 \in 1 .. Len(Groups(j)) /\ Len(Groups(j)) \in Nat
         /\ \A k \in 1 .. Len(Groups(j)) :
              /\ <<j, k>> \in Workers /\ Planned(<<j, k>>) /\ WorkerOK(<<j, k>>)
              /\ joinLock[<<j, k>>] <=> /\ thread[<<j, k>>] \in {"running", "leaving"}
                                        /\ ~ InThread(j)
<1>1. DivisionOK(j) /\ JobOK(j) /\ Children[j] \in Seq(Jobs)
  BY Begun, ChildThreadsAssumption DEF RunIInv, JobsOK
<1>2. 1 \in 1 .. Len(Groups(j)) /\ Len(Groups(j)) \in Nat
  BY <1>1 DEF DivisionOK
<1>3. ASSUME NEW k \in 1 .. Len(Groups(j))
      PROVE  /\ <<j, k>> \in Workers /\ Planned(<<j, k>>) /\ WorkerOK(<<j, k>>)
             /\ joinLock[<<j, k>>] <=> /\ thread[<<j, k>>] \in {"running", "leaving"}
                                       /\ ~ InThread(j)
  <2>1. k \in DOMAIN Children[j] /\ k <= Len(Groups(j))
    BY <1>1 DEF DivisionOK
  <2>2. PICK t : t = <<j, k>>
    OBVIOUS
  <2>3. t[1] = j /\ t[2] = k
    BY <2>2
  <2>4. t \in Workers
    BY <2>1, <2>2, WorkerType
  <2>5. Planned(t)
    BY <2>1, <2>3 DEF Planned
  <2>6. WorkerOK(t) /\ (joinLock[t] <=> thread[t] \in {"running", "leaving"} /\ ~ InThread(j))
    BY <2>3, <2>4, <2>5 DEF RunIInv, WorkersOK, LocksOK
  <2> QED
    BY <2>2, <2>4, <2>5, <2>6
<1> QED
  BY <1>1, <1>2, <1>3

(* A thread that starts is before the first member of its group.           *)
LEMMA Starts ==
  ASSUME RunIInv, NEW t \in Workers, Planned(t), thread[t] = "none", thread'[t] = "running",
         at'[t] = at[t], exception'[t] = exception[t], procs'[t[1]] = procs[t[1]],
         \A x \in Jobs : job[x] = "idle" => job'[x] = "idle"
  PROVE  WorkerOK(t)'
<1>1. at[t] = 1 /\ exception[t] = None /\ WorkerOK(t)
  BY DEF RunIInv, WorkersOK
<1>2. Group(t)' = Group(t)
  BY DivisionKept DEF Group
<1>3. PICK m : m = Group(t).members
  OBVIOUS
<1>4. \A n \in 1 .. Len(m) : m[n] \in Jobs /\ job[m[n]] = "idle"
  BY <1>1, <1>3, MemberPlace DEF WorkerOK, RunIInv
<1>5. \A n \in 1 .. Len(m) : job'[m[n]] = "idle"
  BY <1>4
<1>6. 1 <= Len(m)
  BY <1>1, <1>3 DEF WorkerOK
<1>7. \A n \in 1 .. Len(m) : ~ (n < 1)
  BY <1>6
<1> QED
  BY <1>1, <1>2, <1>3, <1>5, <1>6, <1>7 DEF WorkerOK

LEMMA RunInThreadStep == ASSUME RunIInv, RunTypeOK', NEW j \in Jobs, RunInThread(j) PROVE RunIInv'
<1>1. /\ job[j] = "called" /\ j \notin Leaves /\ InThread(j)
      /\ job' = [job EXCEPT ![j] = "in thread"]
      /\ thread' = [thread EXCEPT ![<<j, 1>>] = "running"]
      /\ UNCHANGED <<failing, procs, raised, count, at, exception, joinLock>>
  BY DEF RunInThread
<1>2. job \in [Jobs -> {"idle", "called", "in thread", "joining", "returned", "threw"}]
      /\ thread \in [Workers -> {"none", "running", "leaving", "gone"}]
  BY DEF RunIInv, RunTypeOK
<1>3. /\ DivisionOK(j) /\ JobOK(j)
      /\ 1 \in 1 .. Len(Groups(j)) /\ Len(Groups(j)) = 1
      /\ <<j, 1>> \in Workers /\ Planned(<<j, 1>>) /\ WorkerOK(<<j, 1>>)
      /\ thread[<<j, 1>>] = "none"
  BY <1>1, OwnThreads DEF DivisionOK, JobOK
<1>4. /\ \A l \in Jobs : l # j => job'[l] = job[l]
      /\ job'[j] = "in thread" /\ thread'[<<j, 1>>] = "running"
      /\ \A u \in Workers : u # <<j, 1>> => thread'[u] = thread[u]
  BY <1>1, <1>2, <1>3
<1>5. Groups(j)' = Groups(j) /\ (InThread(j)' <=> InThread(j))
  BY <1>1, DivisionKept
<1>6. JobOK(j)'
  <2>1. \A k \in DOMAIN Children[j] : k > 1 => thread'[<<j, k>>] = "none"
    <3> TAKE k \in DOMAIN Children[j]
    <3>1. <<j, k>> \in Workers /\ (k > 1 => <<j, k>> # <<j, 1>>)
      BY WorkerType
    <3> QED
      BY <1>3, <1>4, <3>1 DEF JobOK
  <2> QED
    BY <1>1, <1>3, <1>4, <1>5, <2>1 DEF JobOK, Ended
<1>7. WorkerOK(<<j, 1>>)'
  <2>1. PICK t : t = <<j, 1>>
    OBVIOUS
  <2>2. t[1] = j /\ t \in Workers /\ thread[t] = "none" /\ thread'[t] = "running" /\ Planned(t)
    BY <1>3, <1>4, <2>1
  <2>3. \A i \in Jobs : job[i] = "idle" => job'[i] = "idle"
    BY <1>1, <1>4
  <2> QED
    BY <1>1, <2>1, <2>2, <2>3, Starts
<1>8. ASSUME NEW u \in Workers, u[1] = j
      PROVE  /\ \/ thread'[u] = thread[u] /\ at'[u] = at[u] /\ exception'[u] = exception[u]
                \/ thread'[u] # "none" /\ WorkerOK(u)'
             /\ joinLock'[u] <=> thread'[u] \in {"running", "leaving"} /\ ~ InThread(j)
  <2>1. ~ joinLock'[u]
    BY <1>1, <1>8 DEF RunIInv, LocksOK
  <2>2. CASE u = <<j, 1>>
    BY <1>1, <1>4, <1>7, <2>1, <2>2
  <2>3. CASE u # <<j, 1>>
    BY <1>1, <1>4, <2>1, <2>3
  <2> QED
    BY <2>2, <2>3
<1>9. \A u \in Workers : u[1] # j => /\ thread'[u] = thread[u] /\ at'[u] = at[u]
                                        /\ exception'[u] = exception[u]
                                        /\ joinLock'[u] = joinLock[u]
  <2> TAKE u \in Workers
  <2>1. u[1] # j => u # <<j, 1>>
    OBVIOUS
  <2> QED
    BY <1>1, <1>4, <2>1
<1>10. ~ Ended(j)'
  BY <1>4 DEF Ended
<1>11. \A l \in Jobs : l # j => job'[l] = job[l] /\ raised'[l] = raised[l] /\ count'[l] = count[l]
  BY <1>1, <1>4
<1>12. /\ job[j] \in {"called", "in thread", "joining"} /\ job'[j] # "idle"
       /\ j \notin Leaves /\ failing' = failing /\ procs' = procs
  BY <1>1, <1>4
<1>13. /\ j \in Leaves => job'[j] \notin {"in thread", "joining"}
       /\ j \notin Leaves => JobOK(j)'
       /\ Ended(j)' => InOrder(j)'
  BY <1>6, <1>10, <1>12
<1>14. \A u \in Workers : u[1] = j =>
         /\ \/ thread'[u] = thread[u] /\ at'[u] = at[u] /\ exception'[u] = exception[u]
            \/ thread'[u] # "none" /\ WorkerOK(u)'
         /\ joinLock'[u] <=> thread'[u] \in {"running", "leaving"} /\ ~ InThread(j)
  BY <1>8
<1> QED
  BY <1>9, <1>11, <1>12, <1>13, <1>14, Enough

(* What a job comes to in a step.                                          *)
LEMMA InOrderNow ==
  ASSUME NEW j \in Jobs \ Leaves, failing' = failing,
         \A l \in Jobs : l # j => job'[l] = job[l],
         \/ /\ job'[j] = "returned"
            /\ \A l \in LeavesBelow[j] : l \notin failing /\ job[l] = "returned"
         \/ /\ job'[j] = "threw"
            /\ raised'[j] \in LeavesBelow[j] /\ raised'[j] \in failing
            /\ \A l \in LeavesBelow[j] : l \in failing /\ l # raised'[j] => Before(raised'[j], l)
  PROVE  InOrder(j)'
<1>1. \A l \in LeavesBelow[j] : l \in Jobs /\ l # j
  BY Below DEF Leaves
<1>2. CASE /\ job'[j] = "returned"
           /\ \A l \in LeavesBelow[j] : l \notin failing /\ job[l] = "returned"
  <2>1. LeavesBelow[j] \cap failing' = {} /\ \A l \in LeavesBelow[j] : job'[l] = "returned"
    BY <1>1, <1>2
  <2> QED
    BY <1>2, <2>1 DEF InOrder
<1>3. CASE /\ job'[j] = "threw"
           /\ raised'[j] \in LeavesBelow[j] /\ raised'[j] \in failing
           /\ \A l \in LeavesBelow[j] : l \in failing /\ l # raised'[j] => Before(raised'[j], l)
  <2>1. LeavesBelow[j] \cap failing' # {} /\ raised'[j] \in LeavesBelow[j] \cap failing'
        /\ \A l \in (LeavesBelow[j] \cap failing') \ {raised'[j]} : Before(raised'[j], l)
    BY <1>3
  <2> QED
    BY <1>3, <2>1 DEF InOrder
<1> QED
  BY <1>2, <1>3

LEMMA EndInThreadStep == ASSUME RunIInv, RunTypeOK', NEW j \in Jobs, EndInThread(j) PROVE RunIInv'
<1>1. /\ job[j] = "in thread" /\ thread[<<j, 1>>] = "leaving"
      /\ thread' = [thread EXCEPT ![<<j, 1>>] = "gone"]
      /\ raised' = [raised EXCEPT ![j] = exception[<<j, 1>>]]
      /\ job' = [job EXCEPT ![j] = IF exception[<<j, 1>>] = None THEN "returned" ELSE "threw"]
      /\ UNCHANGED <<failing, procs, count, at, exception, joinLock>>
  BY DEF EndInThread
<1>2. /\ job \in [Jobs -> {"idle", "called", "in thread", "joining", "returned", "threw"}]
      /\ thread \in [Workers -> {"none", "running", "leaving", "gone"}]
      /\ raised \in [Jobs -> Jobs \union {None}]
  BY DEF RunIInv, RunTypeOK
<1>3. j \notin Leaves
  BY <1>1 DEF RunIInv, CallsOK
<1>4. /\ DivisionOK(j) /\ JobOK(j) /\ InThread(j)
      /\ 1 \in 1 .. Len(Groups(j)) /\ Len(Groups(j)) = 1
      /\ <<j, 1>> \in Workers /\ Planned(<<j, 1>>) /\ WorkerOK(<<j, 1>>)
  <2>1. DivisionOK(j) /\ JobOK(j) /\ 1 \in 1 .. Len(Groups(j))
        /\ <<j, 1>> \in Workers /\ Planned(<<j, 1>>) /\ WorkerOK(<<j, 1>>)
    BY <1>1, <1>3, OwnThreads
  <2>2. InThread(j)
    BY <1>1, <2>1 DEF JobOK
  <2>3. Len(Groups(j)) = 1
    BY <2>1, <2>2 DEF DivisionOK
  <2> QED
    BY <2>1, <2>2, <2>3
<1>5. /\ \A l \in Jobs : l # j => job'[l] = job[l] /\ raised'[l] = raised[l]
      /\ raised'[j] = exception[<<j, 1>>] /\ thread'[<<j, 1>>] = "gone"
      /\ job'[j] = IF exception[<<j, 1>>] = None THEN "returned" ELSE "threw"
      /\ \A u \in Workers : u # <<j, 1>> => thread'[u] = thread[u]
  BY <1>1, <1>2, <1>4
<1>6. Groups(j)' = Groups(j) /\ (InThread(j)' <=> InThread(j))
  BY <1>1, DivisionKept
<1>7. JobOK(j)'
  <2>1. \A k \in DOMAIN Children[j] : k > 1 => thread'[<<j, k>>] = "none"
    <3> TAKE k \in DOMAIN Children[j]
    <3>1. <<j, k>> \in Workers /\ (k > 1 => <<j, k>> # <<j, 1>>)
      BY WorkerType
    <3> QED
      BY <1>4, <1>5, <3>1 DEF JobOK
  <2>2. \A k \in 1 .. 1 : thread'[<<j, k>>] = "gone"
    BY <1>5
  <2>3. job'[j] \in {"returned", "threw"}
    BY <1>5
  <2> QED
    BY <1>4, <1>6, <2>1, <2>2, <2>3 DEF JobOK
<1>8. WorkerOK(<<j, 1>>)'
  <2>1. PICK t : t = <<j, 1>>
    OBVIOUS
  <2>2. t[1] = j /\ t \in Workers /\ thread[t] = "leaving" /\ thread'[t] = "gone" /\ Planned(t)
        /\ WorkerOK(t)
    BY <1>1, <1>4, <1>5, <2>1
  <2>3. \A n \in 1 .. Len(Group(t).members) :
           LET x == Group(t).members[n] IN
           /\ job[x] \in {"idle", "returned", "threw"} =>
                job'[x] = job[x] /\ raised'[x] = raised[x]
           /\ job[x] # "idle" => procs'[x] = procs[x]
           /\ job[x] \notin {"idle", "returned", "threw"} => job'[x] # "idle"
    <3> TAKE n \in 1 .. Len(Group(t).members)
    <3>1. Group(t).members[n] \in Jobs
      BY <2>2, MemberPlace DEF RunIInv
    <3>2. job'[j] # "idle"
      BY <1>5
    <3> QED
      BY <1>1, <1>5, <3>1, <3>2
  <2> QED
    BY <1>1, <2>1, <2>2, <2>3, WorkerKept DEF RunIInv
<1>9. ASSUME NEW u \in Workers, u[1] = j
      PROVE  /\ \/ thread'[u] = thread[u] /\ at'[u] = at[u] /\ exception'[u] = exception[u]
                \/ thread'[u] # "none" /\ WorkerOK(u)'
             /\ joinLock'[u] <=> thread'[u] \in {"running", "leaving"} /\ ~ InThread(j)
  <2>1. ~ joinLock'[u]
    BY <1>1, <1>4, <1>9 DEF RunIInv, LocksOK
  <2>2. CASE u = <<j, 1>>
    BY <1>4, <1>5, <1>8, <2>1, <2>2
  <2>3. CASE u # <<j, 1>>
    BY <1>1, <1>4, <1>5, <2>1, <2>3
  <2> QED
    BY <2>2, <2>3
<1>10. \A u \in Workers : u[1] # j => /\ thread'[u] = thread[u] /\ at'[u] = at[u]
                                      /\ exception'[u] = exception[u]
                                      /\ joinLock'[u] = joinLock[u]
  <2> TAKE u \in Workers
  <2>1. u[1] # j => u # <<j, 1>>
    OBVIOUS
  <2> QED
    BY <1>1, <1>5, <2>1
<1>11. InOrder(j)'
  <2>1. \A k \in 1 .. Len(Groups(j)) : thread[<<j, k>>] \in {"leaving", "gone"}
    <3>1. \A k \in 1 .. Len(Groups(j)) : k = 1
      BY <1>4
    <3> QED
      BY <1>1, <3>1
  <2>2. j \in Jobs \ Leaves /\ job[j] # "idle" /\ failing' = failing
    BY <1>1, <1>3
  <2>3. CASE exception[<<j, 1>>] = None
    <3>1. Threw(j) = {}
      BY <1>4, <2>3 DEF Threw
    <3> QED
      BY <1>5, <2>1, <2>2, <2>3, <3>1, Outcome, InOrderNow
  <2>4. CASE exception[<<j, 1>>] # None
    <3>1. Threw(j) = {1}
      BY <1>4, <2>4 DEF Threw
    <3>2. 1 \in Threw(j) /\ \A i \in Threw(j) : 1 <= i
      BY <3>1
    <3>3. /\ exception[<<j, 1>>] \in LeavesBelow[j] /\ exception[<<j, 1>>] \in failing
          /\ \A l \in LeavesBelow[j] : l \in failing /\ l # exception[<<j, 1>>] =>
                   Before(exception[<<j, 1>>], l)
      BY <2>1, <2>2, <3>2, Outcome
    <3> QED
      BY <1>5, <2>2, <2>4, <3>3, InOrderNow
  <2> QED
    BY <2>3, <2>4
<1>12. /\ job[j] \in {"called", "in thread", "joining"} /\ job'[j] # "idle"
       /\ j \notin Leaves /\ failing' = failing /\ procs' = procs
  <2>1. job'[j] \in {"returned", "threw"}
    BY <1>5
  <2> QED
    BY <1>1, <1>3, <2>1
<1>13. \A l \in Jobs : l # j => job'[l] = job[l] /\ raised'[l] = raised[l] /\ count'[l] = count[l]
  BY <1>1, <1>5
<1> QED
  BY <1>7, <1>9, <1>10, <1>11, <1>12, <1>13, Enough

LEMMA StartThreadStep == ASSUME RunIInv, RunTypeOK', NEW j \in Jobs, StartThread(j) PROVE RunIInv'
<1>0. PICK c : c = count[j] + 1
  OBVIOUS
<1>1. /\ job[j] = "called" /\ j \notin Leaves /\ ~ InThread(j) /\ count[j] < Len(Groups(j))
      /\ joinLock' = [joinLock EXCEPT ![<<j, c>>] = TRUE]
      /\ thread' = [thread EXCEPT ![<<j, c>>] = "running"]
      /\ count' = [count EXCEPT ![j] = c]
      /\ UNCHANGED <<failing, job, procs, raised, at, exception>>
  BY <1>0 DEF StartThread
<1>2. /\ thread \in [Workers -> {"none", "running", "leaving", "gone"}]
      /\ joinLock \in [Workers -> BOOLEAN] /\ count \in [Jobs -> Nat]
  BY DEF RunIInv, RunTypeOK
<1>3. /\ DivisionOK(j) /\ JobOK(j) /\ Len(Groups(j)) \in Nat
      /\ c \in 1 .. Len(Groups(j)) /\ c \in Nat
      /\ <<j, c>> \in Workers /\ Planned(<<j, c>>)
      /\ \A k \in 1 .. Len(Groups(j)) : <<j, k>> \in Workers
      /\ \A k \in 1 .. Len(Groups(j)) : thread[<<j, k>>] = "none" <=> k > count[j]
      /\ thread[<<j, c>>] = "none"
  <2>1. /\ DivisionOK(j) /\ JobOK(j) /\ Len(Groups(j)) \in Nat
        /\ \A k \in 1 .. Len(Groups(j)) : <<j, k>> \in Workers /\ Planned(<<j, k>>)
    BY <1>1, OwnThreads
  <2>2. count[j] \in Nat
    BY <1>2
  <2>3. c \in 1 .. Len(Groups(j)) /\ c \in Nat /\ c > count[j]
    BY <1>0, <1>1, <2>1, <2>2
  <2>4. \A k \in 1 .. Len(Groups(j)) : thread[<<j, k>>] = "none" <=> k > count[j]
    BY <1>1, <2>1 DEF JobOK
  <2> QED
    BY <2>1, <2>3, <2>4
<1>4. /\ thread'[<<j, c>>] = "running" /\ joinLock'[<<j, c>>] = TRUE /\ count'[j] = c
      /\ \A u \in Workers : u # <<j, c>> => thread'[u] = thread[u] /\ joinLock'[u] = joinLock[u]
      /\ \A l \in Jobs : l # j => count'[l] = count[l]
  <2> QED
    BY <1>1, <1>2, <1>3
<1>5. Groups(j)' = Groups(j) /\ (InThread(j)' <=> InThread(j))
  BY <1>1, DivisionKept
<1>6. JobOK(j)'
  <2>1. \A k \in DOMAIN Children[j] : k > Len(Groups(j)) => thread'[<<j, k>>] = "none"
    <3> TAKE k \in DOMAIN Children[j]
    <3>1. <<j, k>> \in Workers /\ (k > Len(Groups(j)) => k # c)
      BY <1>3, WorkerType
    <3>2. k > Len(Groups(j)) => thread[<<j, k>>] = "none"
      BY <1>3 DEF JobOK
    <3>3. k # c => <<j, k>> # <<j, c>>
      OBVIOUS
    <3> QED
      BY <1>4, <3>1, <3>2, <3>3
  <2>2. \A k \in 1 .. Len(Groups(j)) : thread'[<<j, k>>] = "none" <=> k > c
    <3> TAKE k \in 1 .. Len(Groups(j))
    <3>1. CASE k = c
      <4>1. thread'[<<j, k>>] = "running" /\ ~ (k > c)
        BY <1>3, <1>4, <3>1
      <4> QED
        BY <4>1
    <3>2. CASE k # c
      <4>1. thread'[<<j, k>>] = thread[<<j, k>>]
        <5>1. <<j, k>> \in Workers /\ <<j, k>> # <<j, c>>
          BY <1>3, <3>2
        <5> QED
          BY <1>4, <5>1
      <4>2. count[j] \in Nat
        BY <1>2
      <4>3. k > count[j] <=> k > c
        BY <1>0, <3>2, <4>2
      <4> QED
        BY <1>3, <4>1, <4>3
    <3> QED
      BY <3>1, <3>2
  <2>3. c <= Len(Groups(j))
    BY <1>3
  <2>4. job'[j] = "called"
    BY <1>1
  <2> QED
    BY <1>1, <1>4, <1>5, <2>1, <2>2, <2>3, <2>4 DEF JobOK, Ended
<1>7. WorkerOK(<<j, c>>)'
  <2>1. PICK t : t = <<j, c>>
    OBVIOUS
  <2>2. t[1] = j /\ t \in Workers /\ thread[t] = "none" /\ thread'[t] = "running" /\ Planned(t)
    BY <1>3, <1>4, <2>1
  <2>3. /\ at'[t] = at[t] /\ exception'[t] = exception[t] /\ procs'[t[1]] = procs[t[1]]
        /\ \A x \in Jobs : job[x] = "idle" => job'[x] = "idle"
    BY <1>1
  <2> QED
    BY <2>1, <2>2, <2>3, Starts
<1>8. ASSUME NEW u \in Workers, u[1] = j
      PROVE  /\ \/ thread'[u] = thread[u] /\ at'[u] = at[u] /\ exception'[u] = exception[u]
                \/ thread'[u] # "none" /\ WorkerOK(u)'
             /\ joinLock'[u] <=> thread'[u] \in {"running", "leaving"} /\ ~ InThread(j)
  <2>1. CASE u = <<j, c>>
    <3>1. thread'[u] = "running" /\ joinLock'[u] = TRUE
      BY <1>4, <2>1
    <3>2. WorkerOK(u)'
      BY <1>7, <2>1
    <3> QED
      BY <1>1, <3>1, <3>2
  <2>2. CASE u # <<j, c>>
    BY <1>1, <1>4, <1>8, <2>2 DEF RunIInv, LocksOK
  <2> QED
    BY <2>1, <2>2
<1>9. \A u \in Workers : u[1] # j => /\ thread'[u] = thread[u] /\ at'[u] = at[u]
                                     /\ exception'[u] = exception[u]
                                     /\ joinLock'[u] = joinLock[u]
  <2> TAKE u \in Workers
  <2>1. u[1] # j => u # <<j, c>>
    OBVIOUS
  <2> QED
    BY <1>1, <1>4, <2>1
<1>10. /\ job[j] \in {"called", "in thread", "joining"} /\ job'[j] # "idle" /\ ~ Ended(j)'
       /\ j \notin Leaves /\ failing' = failing /\ procs' = procs
  BY <1>1 DEF Ended
<1>11. \A l \in Jobs : l # j => job'[l] = job[l] /\ raised'[l] = raised[l] /\ count'[l] = count[l]
  BY <1>1, <1>4
<1> QED
  BY <1>6, <1>8, <1>9, <1>10, <1>11, Enough

(* Steps of the loops of start over the threads: no thread moves.          *)
LEMMA LoopStep ==
  ASSUME RunIInv, RunTypeOK', NEW j \in Jobs \ Leaves, job[j] \in {"called", "joining"},
         job'[j] # "idle",
         \A l \in Jobs : l # j => job'[l] = job[l] /\ raised'[l] = raised[l] /\ count'[l] = count[l],
         UNCHANGED <<failing, procs, thread, at, exception, joinLock>>,
         JobOK(j)', Ended(j)' => InOrder(j)'
  PROVE  RunIInv'
<1>1. ASSUME NEW u \in Workers, u[1] = j
      PROVE  /\ \/ thread'[u] = thread[u] /\ at'[u] = at[u] /\ exception'[u] = exception[u]
                \/ thread'[u] # "none" /\ WorkerOK(u)'
             /\ joinLock'[u] <=> thread'[u] \in {"running", "leaving"} /\ ~ InThread(j)
  BY <1>1 DEF RunIInv, LocksOK
<1>2. /\ job[j] \in {"called", "in thread", "joining"}
      /\ j \notin Leaves /\ failing' = failing /\ procs' = procs
  OBVIOUS
<1>3. \A u \in Workers : u[1] # j => /\ thread'[u] = thread[u] /\ at'[u] = at[u]
                                     /\ exception'[u] = exception[u]
                                     /\ joinLock'[u] = joinLock[u]
  OBVIOUS
<1> QED
  BY <1>1, <1>2, <1>3, Enough

LEMMA AllStartedStep == ASSUME RunIInv, RunTypeOK', NEW j \in Jobs, AllStarted(j) PROVE RunIInv'
<1>1. /\ job[j] = "called" /\ j \notin Leaves /\ ~ InThread(j) /\ count[j] = Len(Groups(j))
      /\ job' = [job EXCEPT ![j] = "joining"]
      /\ count' = [count EXCEPT ![j] = 0]
      /\ UNCHANGED <<failing, procs, raised, thread, at, exception, joinLock>>
  BY DEF AllStarted
<1>2. job \in [Jobs -> {"idle", "called", "in thread", "joining", "returned", "threw"}]
      /\ count \in [Jobs -> Nat]
  BY DEF RunIInv, RunTypeOK
<1>3. /\ job'[j] = "joining" /\ count'[j] = 0
      /\ \A l \in Jobs : l # j => job'[l] = job[l] /\ count'[l] = count[l]
  BY <1>1, <1>2
<1>4. /\ DivisionOK(j) /\ JobOK(j) /\ Len(Groups(j)) \in Nat
      /\ Groups(j)' = Groups(j) /\ (InThread(j)' <=> InThread(j))
  BY <1>1, OwnThreads, DivisionKept
<1>5. JobOK(j)'
  <2>1. \A k \in 1 .. Len(Groups(j)) : thread[<<j, k>>] # "none" /\ ~ (k <= 0)
    <3>1. \A k \in 1 .. Len(Groups(j)) : ~ (k > count[j]) /\ ~ (k <= 0)
      BY <1>1, <1>4
    <3> QED
      BY <1>1, <1>4, <3>1 DEF JobOK
  <2>2. \A k \in DOMAIN Children[j] : k > Len(Groups(j)) => thread[<<j, k>>] = "none"
    BY <1>4 DEF JobOK
  <2>3. job'[j] = "joining" /\ thread' = thread /\ ~ InThread(j)' /\ Groups(j)' = Groups(j)
        /\ count'[j] = 0 /\ 0 <= Len(Groups(j))
    BY <1>1, <1>3, <1>4
  <2> QED
    BY <2>1, <2>2, <2>3 DEF JobOK, Ended
<1>6. ~ Ended(j)'
  BY <1>3 DEF Ended
<1> QED
  BY <1>1, <1>3, <1>5, <1>6, LoopStep

LEMMA JoinStep == ASSUME RunIInv, RunTypeOK', NEW j \in Jobs, Join(j) PROVE RunIInv'
<1> DEFINE c == count[j] + 1
<1>1. /\ job[j] = "joining" /\ count[j] < Len(Groups(j)) /\ ~ joinLock[<<j, c>>]
      /\ count' = [count EXCEPT ![j] = c]
      /\ UNCHANGED <<failing, job, procs, raised, thread, at, exception, joinLock>>
  BY DEF Join
<1>2. count \in [Jobs -> Nat] /\ count[j] \in Nat /\ j \notin Leaves
  BY <1>1 DEF RunIInv, RunTypeOK, CallsOK
<1>3. count'[j] = c /\ \A l \in Jobs : l # j => count'[l] = count[l]
  <2> HIDE DEF c
  <2> QED
    BY <1>1, <1>2
<1>4. /\ DivisionOK(j) /\ JobOK(j) /\ Len(Groups(j)) \in Nat
      /\ Groups(j)' = Groups(j) /\ (InThread(j)' <=> InThread(j))
      /\ \A k \in 1 .. Len(Groups(j)) : <<j, k>> \in Workers
      /\ \A k \in 1 .. Len(Groups(j)) :
           joinLock[<<j, k>>] <=> thread[<<j, k>>] \in {"running", "leaving"} /\ ~ InThread(j)
  BY <1>1, <1>2, OwnThreads, DivisionKept
<1>5. c \in 1 .. Len(Groups(j))
  BY <1>1, <1>2, <1>4
<1>6. /\ ~ InThread(j)
      /\ \A k \in 1 .. Len(Groups(j)) : /\ thread[<<j, k>>] # "none"
                                        /\ k <= count[j] => thread[<<j, k>>] = "gone"
  BY <1>1, <1>4 DEF JobOK
<1>7. thread[<<j, c>>] = "gone"
  <2>1. thread[<<j, c>>] \in {"none", "running", "leaving", "gone"}
    BY <1>4, <1>5 DEF RunIInv, RunTypeOK
  <2> HIDE DEF c
  <2> QED
    BY <1>1, <1>4, <1>5, <1>6, <2>1
<1>8. JobOK(j)'
  <2>1. \A k \in 1 .. Len(Groups(j)) : k <= c => thread[<<j, k>>] = "gone"
    <3> TAKE k \in 1 .. Len(Groups(j))
    <3>1. k <= c => k = c \/ k <= count[j]
      BY <1>2
    <3> HIDE DEF c
    <3> QED
      BY <1>6, <1>7, <3>1
  <2>2. \A k \in DOMAIN Children[j] : k > Len(Groups(j)) => thread[<<j, k>>] = "none"
    BY <1>4 DEF JobOK
  <2>3. c <= Len(Groups(j))
    BY <1>5
  <2>4. job'[j] = "joining" /\ thread' = thread
    BY <1>1
  <2> HIDE DEF c
  <2> QED
    BY <1>3, <1>4, <1>6, <2>1, <2>2, <2>3, <2>4 DEF JobOK, Ended
<1>9. ~ Ended(j)'
  BY <1>1 DEF Ended
<1> HIDE DEF c
<1>10. /\ job[j] \in {"called", "joining"} /\ job'[j] # "idle"
       /\ \A l \in Jobs : l # j => job'[l] = job[l] /\ raised'[l] = raised[l] /\ count'[l] = count[l]
       /\ UNCHANGED <<failing, procs, thread, at, exception, joinLock>>
  BY <1>1, <1>3
<1> QED
  BY <1>2, <1>8, <1>9, <1>10, LoopStep

LEMMA RaiseStep == ASSUME RunIInv, RunTypeOK', NEW j \in Jobs, Raise(j) PROVE RunIInv'
<1>1. /\ job[j] = "joining" /\ count[j] = Len(Groups(j))
      /\ \/ Threw(j) = {} /\ job' = [job EXCEPT ![j] = "returned"] /\ raised' = raised
         \/ /\ Threw(j) # {} /\ job' = [job EXCEPT ![j] = "threw"]
            /\ raised' = [raised EXCEPT ![j] = FirstException(j)]
      /\ UNCHANGED <<failing, procs, count, thread, at, exception, joinLock>>
  BY DEF Raise
<1>2. /\ job \in [Jobs -> {"idle", "called", "in thread", "joining", "returned", "threw"}]
      /\ raised \in [Jobs -> Jobs \union {None}]
      /\ j \notin Leaves
  BY <1>1 DEF RunIInv, RunTypeOK, CallsOK
<1>3. /\ \A l \in Jobs : l # j => job'[l] = job[l] /\ raised'[l] = raised[l]
      /\ \/ Threw(j) = {} /\ job'[j] = "returned"
         \/ Threw(j) # {} /\ job'[j] = "threw" /\ raised'[j] = FirstException(j)
  BY <1>1, <1>2
<1>4. /\ DivisionOK(j) /\ JobOK(j) /\ Len(Groups(j)) \in Nat
      /\ Groups(j)' = Groups(j) /\ (InThread(j)' <=> InThread(j))
  BY <1>1, <1>2, OwnThreads, DivisionKept
<1>5. \A k \in 1 .. Len(Groups(j)) : thread[<<j, k>>] = "gone"
  <2>1. \A k \in 1 .. Len(Groups(j)) : k <= count[j]
    BY <1>1, <1>4
  <2> QED
    BY <1>1, <1>4, <2>1 DEF JobOK
<1>6. JobOK(j)'
  <2>1. \A k \in DOMAIN Children[j] : k > Len(Groups(j)) => thread[<<j, k>>] = "none"
    BY <1>4 DEF JobOK
  <2>2. job'[j] \in {"returned", "threw"} /\ thread' = thread
    BY <1>1, <1>3
  <2> QED
    BY <1>4, <1>5, <2>1, <2>2 DEF JobOK
<1>7. InOrder(j)'
  <2>1. j \in Jobs \ Leaves /\ job[j] # "idle" /\ failing' = failing
        /\ \A k \in 1 .. Len(Groups(j)) : thread[<<j, k>>] \in {"leaving", "gone"}
    BY <1>1, <1>2, <1>5
  <2>2. CASE Threw(j) = {} /\ job'[j] = "returned"
    BY <1>3, <2>1, <2>2, Outcome, InOrderNow
  <2>3. CASE Threw(j) # {} /\ job'[j] = "threw" /\ raised'[j] = FirstException(j)
    <3>1. Threw(j) \in SUBSET Nat
      BY <1>4 DEF Threw
    <3>2. \E k \in Threw(j) : \A l \in Threw(j) : k <= l
      BY <2>3, <3>1, LeastOf
    <3>3. PICK k : k = CHOOSE n \in Threw(j) : \A l \in Threw(j) : n <= l
      OBVIOUS
    <3>4. k \in Threw(j) /\ \A l \in Threw(j) : k <= l
      BY <3>2, <3>3
    <3>5. raised'[j] = exception[<<j, k>>]
      BY <2>3, <3>3 DEF FirstException
    <3>6. /\ exception[<<j, k>>] \in LeavesBelow[j] /\ exception[<<j, k>>] \in failing
          /\ \A l \in LeavesBelow[j] : l \in failing /\ l # exception[<<j, k>>] =>
                   Before(exception[<<j, k>>], l)
      BY <2>1, <3>4, Outcome
    <3> QED
      BY <1>3, <2>1, <2>3, <3>5, <3>6, InOrderNow
  <2> QED
    BY <1>3, <2>2, <2>3
<1>8. /\ job[j] \in {"called", "joining"} /\ job'[j] # "idle"
      /\ \A l \in Jobs : l # j => job'[l] = job[l] /\ raised'[l] = raised[l] /\ count'[l] = count[l]
      /\ UNCHANGED <<failing, procs, thread, at, exception, joinLock>>
  BY <1>1, <1>3
<1> QED
  BY <1>2, <1>6, <1>7, <1>8, LoopStep
-----------------------------------------------------------------------------
(* The steps of a thread.                                                  *)
(* Every thread that the division provides for is one the job can have.    *)
LEMMA OwnRange ==
  ASSUME NEW j \in Jobs \ Leaves, DivisionOK(j)
  PROVE  /\ Len(Groups(j)) \in Nat
         /\ \A k \in 1 .. Len(Groups(j)) : k \in DOMAIN Children[j]
         /\ 1 \in 1 .. Len(Groups(j))
         /\ \A k \in 1 .. Len(Groups(j)) : InThread(j) => k = 1
<1>1. Children[j] \in Seq(Jobs)
  BY ChildThreadsAssumption
<1>2. DOMAIN Children[j] = 1 .. Len(Children[j]) /\ Len(Children[j]) \in Nat
  BY <1>1
<1>3. /\ Len(Groups(j)) \in Nat /\ 1 <= Len(Groups(j)) /\ Len(Groups(j)) <= Len(Children[j])
      /\ InThread(j) => Len(Groups(j)) = 1
  BY DEF DivisionOK
<1>4. 1 \in 1 .. Len(Groups(j)) /\ \A k \in 1 .. Len(Groups(j)) : k \in DOMAIN Children[j]
  BY <1>2, <1>3
<1>5. InThread(j) => \A k \in 1 .. 1 : k = 1
  OBVIOUS
<1> QED
  BY <1>3, <1>4, <1>5

(* A thread of a job at work that moves on leaves what is said of the job  *)
(* true.                                                                   *)
LEMMA ThreadMoves ==
  ASSUME NEW j \in Jobs \ Leaves, JobOK(j), DivisionOK(j), procs'[j] = procs[j],
         job'[j] = job[j], job[j] \in {"called", "in thread", "joining"}, count'[j] = count[j],
         NEW i \in 1 .. Len(Groups(j)), thread[<<j, i>>] \in {"running", "leaving"},
         \/ thread'[<<j, i>>] \in {"running", "leaving"}
         \/ thread'[<<j, i>>] = "gone" /\ ~ InThread(j),
         \A k \in DOMAIN Children[j] : k # i => thread'[<<j, k>>] = thread[<<j, k>>]
  PROVE  JobOK(j)'
<1>1. Groups(j)' = Groups(j) /\ (InThread(j)' <=> InThread(j))
  BY DivisionKept
<1>3. /\ Len(Groups(j)) \in Nat
      /\ \A k \in 1 .. Len(Groups(j)) : k \in DOMAIN Children[j]
      /\ 1 \in 1 .. Len(Groups(j))
  BY OwnRange
<1>4. \A k \in DOMAIN Children[j] :
        /\ thread'[<<j, k>>] = "none" <=> thread[<<j, k>>] = "none"
        /\ thread[<<j, k>>] = "gone" => thread'[<<j, k>>] = "gone"
  <2> TAKE k \in DOMAIN Children[j]
  <2>1. CASE k = i
    BY <2>1
  <2>2. CASE k # i
    BY <2>2
  <2> QED
    BY <2>1, <2>2
<1>5. \A k \in 1 .. Len(Groups(j)) :
        /\ thread'[<<j, k>>] = "none" <=> thread[<<j, k>>] = "none"
        /\ thread[<<j, k>>] = "gone" => thread'[<<j, k>>] = "gone"
  BY <1>3, <1>4
<1>6. InThread(j) => i = 1
  BY OwnRange
<1>7. job[j] = "called" /\ InThread(j) => FALSE
  BY <1>6 DEF JobOK
<1>8. job[j] = "in thread" => InThread(j) /\ thread'[<<j, 1>>] \in {"running", "leaving"}
  BY <1>6 DEF JobOK
<1>9. ~ Ended(j)'
  BY DEF Ended
<1>10. \A k \in DOMAIN Children[j] : k > Len(Groups(j)) => thread'[<<j, k>>] = "none"
  BY <1>4 DEF JobOK
<1>11. job[j] = "called" /\ ~ InThread(j) =>
         /\ count[j] <= Len(Groups(j))
         /\ \A k \in 1 .. Len(Groups(j)) : thread'[<<j, k>>] = "none" <=> k > count[j]
  BY <1>5 DEF JobOK
<1>12. job[j] = "joining" =>
         /\ ~ InThread(j) /\ count[j] <= Len(Groups(j))
         /\ \A k \in 1 .. Len(Groups(j)) : /\ thread'[<<j, k>>] # "none"
                                           /\ k <= count[j] => thread'[<<j, k>>] = "gone"
  BY <1>5 DEF JobOK
<1> QED
  BY <1>1, <1>7, <1>8, <1>9, <1>10, <1>11, <1>12 DEF JobOK

(* What is left to show of a step of a thread that calls no member.        *)
LEMMA MoveStep ==
  ASSUME RunIInv, RunTypeOK', NEW t \in Workers, thread[t] \in {"running", "leaving"},
         \/ thread'[t] \in {"running", "leaving"}
         \/ thread'[t] = "gone" /\ ~ InThread(t[1]),
         \A u \in Workers : u # t => /\ thread'[u] = thread[u] /\ at'[u] = at[u]
                                     /\ exception'[u] = exception[u]
                                     /\ joinLock'[u] = joinLock[u],
         joinLock'[t] <=> thread'[t] \in {"running", "leaving"} /\ ~ InThread(t[1]),
         UNCHANGED <<failing, job, procs, raised, count>>,
         WorkerOK(t)'
  PROVE  RunIInv'
<1>1. PICK j, i : j = t[1] /\ i = t[2]
  OBVIOUS
<1>2. /\ job[j] \in {"called", "in thread", "joining"} /\ t = <<j, i>>
      /\ j \in Jobs \ Leaves /\ i \in 1 .. Len(Groups(j)) /\ DivisionOK(j) /\ JobOK(j)
  BY <1>1, AtWork
<1>3. JobOK(j)'
  <2>1. \A k \in DOMAIN Children[j] : k # i => thread'[<<j, k>>] = thread[<<j, k>>]
    <3> TAKE k \in DOMAIN Children[j]
    <3>1. <<j, k>> \in Workers /\ (k # i => <<j, k>> # t)
      BY <1>2, WorkerType
    <3> QED
      BY <3>1
  <2>2. thread[<<j, i>>] \in {"running", "leaving"}
        /\ \/ thread'[<<j, i>>] \in {"running", "leaving"}
           \/ thread'[<<j, i>>] = "gone" /\ ~ InThread(j)
    BY <1>1, <1>2
  <2>3. procs'[j] = procs[j] /\ job'[j] = job[j] /\ count'[j] = count[j]
    OBVIOUS
  <2> QED
    BY <1>2, <2>1, <2>2, <2>3, ThreadMoves
<1>4. ASSUME NEW u \in Workers, u[1] = j
      PROVE  /\ \/ thread'[u] = thread[u] /\ at'[u] = at[u] /\ exception'[u] = exception[u]
                \/ thread'[u] # "none" /\ WorkerOK(u)'
             /\ joinLock'[u] <=> thread'[u] \in {"running", "leaving"} /\ ~ InThread(j)
  <2>1. CASE u = t
    <3>1. thread'[t] # "none"
      OBVIOUS
    <3> QED
      BY <1>1, <2>1, <3>1
  <2>2. CASE u # t
    BY <1>4, <2>2 DEF RunIInv, LocksOK
  <2> QED
    BY <2>1, <2>2
<1>5. \A u \in Workers : u[1] # j => /\ thread'[u] = thread[u] /\ at'[u] = at[u]
                                     /\ exception'[u] = exception[u]
                                     /\ joinLock'[u] = joinLock[u]
  <2> TAKE u \in Workers
  <2>1. u[1] # j => u # t
    BY <1>1
  <2> QED
    BY <2>1
<1>6. /\ job'[j] # "idle" /\ ~ Ended(j)' /\ failing' = failing /\ procs' = procs
      /\ \A l \in Jobs : l # j => job'[l] = job[l] /\ raised'[l] = raised[l] /\ count'[l] = count[l]
  BY <1>2 DEF Ended
<1> QED
  BY <1>2, <1>3, <1>4, <1>5, <1>6, Enough

LEMMA MemberReturnedStep ==
  ASSUME RunIInv, RunTypeOK', NEW t \in Workers, MemberReturned(t) PROVE RunIInv'
<1>1. /\ thread[t] = "running" /\ job[Member(t)] = "returned"
      /\ \/ at[t] < Len(Group(t).members) /\ at' = [at EXCEPT ![t] = at[t] + 1] /\ thread' = thread
         \/ at[t] = Len(Group(t).members) /\ thread' = [thread EXCEPT ![t] = "leaving"] /\ at' = at
      /\ UNCHANGED <<failing, job, procs, raised, count, exception, joinLock>>
  BY DEF MemberReturned
<1>2. /\ thread \in [Workers -> {"none", "running", "leaving", "gone"}]
      /\ at \in [Workers -> Nat \ {0}]
  BY DEF RunIInv, RunTypeOK
<1>3. PICK m : m = Group(t).members
  OBVIOUS
<1>4. /\ WorkerOK(t) /\ at[t] \in 1 .. Len(m) /\ Len(m) \in Nat /\ Member(t) = m[at[t]]
      /\ Group(t)' = Group(t)
  <2>1. WorkerOK(t) /\ at[t] \in 1 .. Len(m) /\ Len(m) \in Nat /\ Member(t) = m[at[t]]
    BY <1>1, <1>3, AtWork DEF Member
  <2>2. Group(t)' = Group(t)
    BY <1>1, DivisionKept DEF Group
  <2> QED
    BY <2>1, <2>2
<1>5. \A u \in Workers : u # t => thread'[u] = thread[u] /\ at'[u] = at[u]
  BY <1>1, <1>2
<1>6. \/ at[t] < Len(m) /\ at'[t] = at[t] + 1 /\ thread'[t] = "running"
      \/ at[t] = Len(m) /\ at'[t] = at[t] /\ thread'[t] = "leaving"
  BY <1>1, <1>2, <1>3
<1>7. /\ \A n \in 1 .. Len(m) : /\ n < at[t] => job[m[n]] = "returned"
                                /\ n > at[t] => job[m[n]] = "idle"
                                /\ job[m[n]] # "idle" => procs[m[n]] = Group(t).procs
      /\ exception[t] = None /\ job[m[at[t]]] = "returned"
  BY <1>1, <1>3, <1>4 DEF WorkerOK
<1>8. /\ at'[t] <= Len(m)
      /\ \A n \in 1 .. Len(m) : /\ n < at'[t] => n < at[t] \/ n = at[t]
                                /\ n > at'[t] => n > at[t]
  BY <1>4, <1>6
<1>9. Member(t)' = m[at'[t]]
  BY <1>3, <1>4 DEF Member
<1>10. thread'[t] \in {"leaving", "gone"} => job'[Member(t)'] = "returned" /\ at'[t] = Len(m)
  BY <1>1, <1>6, <1>7, <1>9
<1>11. WorkerOK(t)'
  <2>1. \A n \in 1 .. Len(m) :
          /\ n < at'[t] => job'[m[n]] = "returned"
          /\ n > at'[t] \/ thread'[t] = "none" => job'[m[n]] = "idle"
          /\ job'[m[n]] # "idle" => procs'[m[n]] = Group(t).procs
    <3> TAKE n \in 1 .. Len(m)
    <3>1. job'[m[n]] = job[m[n]] /\ procs'[m[n]] = procs[m[n]] /\ thread'[t] # "none"
      BY <1>1, <1>6
    <3>2. n < at'[t] => job[m[n]] = "returned"
      BY <1>7, <1>8
    <3>3. n > at'[t] => job[m[n]] = "idle"
      BY <1>7, <1>8
    <3> QED
      BY <1>7, <3>1, <3>2, <3>3
  <2>2. exception'[t] = None
    BY <1>1, <1>7
  <2> QED
    BY <1>3, <1>4, <1>8, <1>10, <2>1, <2>2 DEF WorkerOK
<1>12. joinLock'[t] <=> thread'[t] \in {"running", "leaving"} /\ ~ InThread(t[1])
  <2>1. joinLock[t] <=> ~ InThread(t[1])
    BY <1>1 DEF RunIInv, LocksOK
  <2> QED
    BY <1>1, <1>6, <2>1
<1>13. thread'[t] \in {"running", "leaving"}
  BY <1>6
<1> QED
  BY <1>1, <1>5, <1>11, <1>12, <1>13, MoveStep

LEMMA MemberThrewStep ==
  ASSUME RunIInv, RunTypeOK', NEW t \in Workers, MemberThrew(t) PROVE RunIInv'
<1>1. /\ thread[t] = "running" /\ job[Member(t)] = "threw"
      /\ exception' = [exception EXCEPT ![t] = raised[Member(t)]]
      /\ thread' = [thread EXCEPT ![t] = "leaving"]
      /\ UNCHANGED <<failing, job, procs, raised, count, at, joinLock>>
  BY DEF MemberThrew
<1>2. /\ thread \in [Workers -> {"none", "running", "leaving", "gone"}]
      /\ exception \in [Workers -> Jobs \union {None}]
  BY DEF RunIInv, RunTypeOK
<1>3. WorkerOK(t) /\ Group(t)' = Group(t)
  BY <1>1, AtWork, DivisionKept DEF Group
<1>4. /\ thread'[t] = "leaving" /\ exception'[t] = raised[Member(t)]
      /\ \A u \in Workers : u # t => thread'[u] = thread[u] /\ exception'[u] = exception[u]
  BY <1>1, <1>2
<1>5. Member(t)' = Member(t)
  BY <1>1, <1>3 DEF Member
<1>6. WorkerOK(t)'
  <2>1. /\ at'[t] <= Len(Group(t).members)
        /\ \A n \in 1 .. Len(Group(t).members) :
             /\ n < at'[t] => job'[Group(t).members[n]] = "returned"
             /\ n > at'[t] => job'[Group(t).members[n]] = "idle"
             /\ job'[Group(t).members[n]] # "idle" =>
                   procs'[Group(t).members[n]] = Group(t).procs
    BY <1>1, <1>3 DEF WorkerOK
  <2>2. job'[Member(t)'] = "threw" /\ exception'[t] = raised'[Member(t)']
    BY <1>1, <1>4, <1>5
  <2> QED
    BY <1>3, <1>4, <2>1, <2>2 DEF WorkerOK
<1>7. joinLock'[t] <=> thread'[t] \in {"running", "leaving"} /\ ~ InThread(t[1])
  <2>1. joinLock[t] <=> ~ InThread(t[1])
    BY <1>1 DEF RunIInv, LocksOK
  <2> QED
    BY <1>1, <1>4, <2>1
<1>8. thread'[t] \in {"running", "leaving"}
  BY <1>4
<1> QED
  BY <1>1, <1>4, <1>6, <1>7, <1>8, MoveStep

LEMMA LeaveStep ==
  ASSUME RunIInv, RunTypeOK', NEW t \in Workers, Leave(t) PROVE RunIInv'
<1>1. /\ thread[t] = "leaving" /\ ~ InThread(t[1])
      /\ joinLock' = [joinLock EXCEPT ![t] = FALSE]
      /\ thread' = [thread EXCEPT ![t] = "gone"]
      /\ UNCHANGED <<failing, job, procs, raised, count, at, exception>>
  BY DEF Leave
<1>2. /\ thread \in [Workers -> {"none", "running", "leaving", "gone"}]
      /\ joinLock \in [Workers -> BOOLEAN]
  BY DEF RunIInv, RunTypeOK
<1>3. /\ thread'[t] = "gone" /\ joinLock'[t] = FALSE
      /\ \A u \in Workers : u # t => thread'[u] = thread[u] /\ joinLock'[u] = joinLock[u]
  BY <1>1, <1>2
<1>4. WorkerOK(t)'
  <2>1. Planned(t) /\ WorkerOK(t)
    BY <1>1, AtWork
  <2>2. \A n \in 1 .. Len(Group(t).members) :
           LET x == Group(t).members[n] IN
           /\ job[x] \in {"idle", "returned", "threw"} =>
                job'[x] = job[x] /\ raised'[x] = raised[x]
           /\ job[x] # "idle" => procs'[x] = procs[x]
           /\ job[x] \notin {"idle", "returned", "threw"} => job'[x] # "idle"
    BY <1>1
  <2>3. /\ procs'[t[1]] = procs[t[1]] /\ at'[t] = at[t] /\ exception'[t] = exception[t]
        /\ thread'[t] = thread[t] \/ (thread[t] = "leaving" /\ thread'[t] = "gone")
        /\ RunTypeOK /\ CallsOK
    BY <1>1, <1>3 DEF RunIInv
  <2> QED
    BY <2>1, <2>2, <2>3, WorkerKept
<1>5. joinLock'[t] <=> thread'[t] \in {"running", "leaving"} /\ ~ InThread(t[1])
  BY <1>3
<1>6. thread[t] \in {"running", "leaving"} /\ thread'[t] = "gone"
  BY <1>1, <1>3
<1> QED
  BY <1>1, <1>3, <1>4, <1>5, <1>6, MoveStep

(* What call sets going: the division of a job that is called, in the next *)
(* state.                                                                  *)
LEMMA Divisions ==
  \A j \in Jobs \ Leaves : procs[j] \in Nat \ {0} => DivisionOK(j)
BY Division

(* A member is called: it has not begun, no other thread has it for a      *)
(* member, and nothing below it has begun.                                 *)
LEMMA CallMemberStep ==
  ASSUME RunIInv, RunTypeOK', NEW t \in Workers, CallMember(t) PROVE RunIInv'
<1>1. PICK x, p : x = Member(t) /\ p = Start(t[1], t[2]) + at[t]
  OBVIOUS
<1>2. /\ thread[t] = "running" /\ job[x] = "idle"
      /\ job' = [job EXCEPT ![x] = "called"]
      /\ procs' = [procs EXCEPT ![x] = Group(t).procs]
      /\ UNCHANGED <<failing, raised, count, thread, at, exception, joinLock>>
  BY <1>1 DEF CallMember
<1>3. /\ job \in [Jobs -> {"idle", "called", "in thread", "joining", "returned", "threw"}]
      /\ procs \in [Jobs -> Nat] /\ procs' \in [Jobs -> Nat]
      /\ RunTypeOK /\ CallsOK
  BY DEF RunIInv, RunTypeOK
<1>4. /\ t[1] \in Jobs \ Leaves /\ t[2] \in 1 .. Len(Groups(t[1])) /\ job[t[1]] # "idle"
      /\ Planned(t) /\ WorkerOK(t) /\ at[t] \in 1 .. Len(Group(t).members)
      /\ x \in Jobs
  BY <1>1, <1>2, AtWork
<1>5. /\ job'[x] = "called" /\ procs'[x] = Group(t).procs /\ x # t[1]
      /\ \A l \in Jobs : l # x => job'[l] = job[l] /\ procs'[l] = procs[l]
  BY <1>2, <1>3, <1>4
<1>6. p \in DOMAIN Children[t[1]] /\ x = Children[t[1]][p] /\ x = Group(t).members[at[t]]
  BY <1>1, <1>3, <1>4, MemberPlace DEF Member
<1>7. \A l \in Jobs : \A k \in DOMAIN Children[l] : Children[l][k] = x => l = t[1]
  <2> TAKE l \in Jobs
  <2> TAKE k \in DOMAIN Children[l]
  <2>1. t[1] \in Jobs
    BY <1>4
  <2>2. Children[l][k] = Children[t[1]][p] => l = t[1]
    BY <1>6, <2>1, TreeAssumption
  <2> QED
    BY <1>6, <2>2
<1>8. Group(t).procs \in Nat \ {0}
  <2>1. SharesOK(t[1])
    BY <1>3, <1>4, Begun
  <2> QED
    BY <1>4, <2>1 DEF SharesOK, Group
<1>9. count[x] = 0 /\ \A k \in DOMAIN Children[x] : /\ job[Children[x][k]] = "idle"
                                                  /\ thread[<<x, k>>] = "none"
  BY <1>2, <1>3, <1>4 DEF CallsOK
<1>10. CallsOK'
  <2> SUFFICES ASSUME NEW l \in Jobs
               PROVE  /\ job'[l] = "idle" => /\ count'[l] = 0
                          /\ \A k \in DOMAIN Children[l] : /\ job'[Children[l][k]] = "idle"
                                                           /\ thread'[<<l, k>>] = "none"
                      /\ job'[l] # "idle" => procs'[l] # 0
                      /\ l \in Leaves => job'[l] \notin {"in thread", "joining"}
    BY DEF CallsOK
  <2>1. CASE l = x
    BY <1>5, <1>8, <2>1
  <2>2. CASE l # x
    <3>1. ASSUME NEW k \in DOMAIN Children[l], job[l] = "idle"
          PROVE  job'[Children[l][k]] = "idle" /\ thread'[<<l, k>>] = "none"
      <4>1. Children[l][k] \in Jobs /\ Children[l][k] # x
        BY <1>4, <1>7, <3>1, ChildIsJob
      <4>2. job[Children[l][k]] = "idle" /\ thread[<<l, k>>] = "none"
        BY <1>3, <3>1 DEF CallsOK
      <4> QED
        BY <1>2, <1>5, <4>1, <4>2
    <3>2. /\ job'[l] = job[l] /\ procs'[l] = procs[l] /\ count'[l] = count[l]
          /\ job[l] = "idle" => count[l] = 0
          /\ job[l] # "idle" => procs[l] # 0
          /\ l \in Leaves => job[l] \notin {"in thread", "joining"}
      BY <1>2, <1>3, <1>5, <2>2 DEF CallsOK
    <3> QED
      BY <3>1, <3>2
  <2> QED
    BY <2>1, <2>2
<1>11. x \notin Leaves => DivisionOK(x)'
  <2>1. (\A j \in Jobs \ Leaves : procs[j] \in Nat \ {0} => DivisionOK(j))'
    BY Divisions, PTL
  <2> QED
    BY <1>4, <1>5, <1>8, <2>1
<1>12. JobsOK'
  <2> SUFFICES ASSUME NEW l \in Jobs \ Leaves, job'[l] # "idle" PROVE JobOK(l)'
    BY DEF JobsOK
  <2>1. CASE l = x
    <3>1. /\ \A k \in DOMAIN Children[x] : thread'[<<x, k>>] = "none"
          /\ job'[x] = "called" /\ count'[x] = 0
      BY <1>2, <1>5, <1>9
    <3>2. DivisionOK(x)' /\ Children[x] \in Seq(Jobs)
      BY <1>4, <1>11, <2>1, ChildThreadsAssumption
    <3>3. PICK n : n = Len(Groups(x))'
      OBVIOUS
    <3>4. n \in Nat /\ 1 <= n /\ n <= Len(Children[x])
      BY <3>2, <3>3 DEF DivisionOK
    <3>5. \A k \in 1 .. n : k \in DOMAIN Children[x] /\ k > 0
      BY <3>2, <3>4
    <3>6. thread'[<<x, 1>>] = "none" /\ 0 <= n /\ \A k \in 1 .. n : thread'[<<x, k>>] = "none"
      <4>1. 1 \in 1 .. n
        BY <3>4
      <4> QED
        BY <3>1, <3>4, <3>5, <4>1
    <3> QED
      BY <2>1, <3>1, <3>3, <3>5, <3>6 DEF JobOK, Ended
  <2>2. CASE l # x
    <3>1. job[l] # "idle" /\ procs'[l] = procs[l] /\ job'[l] = job[l] /\ count'[l] = count[l]
      BY <1>2, <1>5, <2>2
    <3>2. JobOK(l) /\ DivisionOK(l)
      BY <1>3, <3>1, Begun DEF RunIInv, JobsOK
    <3>3. \A k \in DOMAIN Children[l] : thread'[<<l, k>>] = thread[<<l, k>>]
      BY <1>2
    <3> QED
      BY <3>1, <3>2, <3>3, JobKept
  <2> QED
    BY <2>1, <2>2
<1>13. LocksOK'
  <2> SUFFICES ASSUME NEW u \in Workers
               PROVE  joinLock'[u] <=> thread'[u] \in {"running", "leaving"} /\ ~ InThread(u[1])'
    BY DEF LocksOK
  <2>1. u = <<u[1], u[2]>> /\ u[1] \in Jobs /\ u[2] \in DOMAIN Children[u[1]]
    BY WorkerType
  <2>2. joinLock[u] <=> thread[u] \in {"running", "leaving"} /\ ~ InThread(u[1])
    BY DEF RunIInv, LocksOK
  <2>3. CASE u[1] = x
    <3>1. thread[u] = "none"
      BY <1>9, <2>1, <2>3
    <3> QED
      BY <1>2, <2>2, <3>1
  <2>4. CASE u[1] # x
    <3>1. InThread(u[1])' <=> InThread(u[1])
      BY <1>5, <2>1, <2>4, DivisionKept
    <3> QED
      BY <1>2, <2>2, <3>1
  <2> QED
    BY <2>3, <2>4
<1>14. WorkersOK'
  <2> SUFFICES ASSUME NEW u \in Workers
               PROVE  /\ thread'[u] = "none" => at'[u] = 1 /\ exception'[u] = None
                      /\ Planned(u)' => WorkerOK(u)'
    BY DEF WorkersOK
  <2>1. u = <<u[1], u[2]>> /\ u[1] \in Jobs \ Leaves /\ u[2] \in DOMAIN Children[u[1]]
        /\ u[2] \in Nat \ {0}
    BY WorkerType
  <2>2. thread'[u] = "none" => at'[u] = 1 /\ exception'[u] = None
    BY <1>2 DEF RunIInv, WorkersOK
  <2>3. ASSUME Planned(u)', u[1] = x PROVE WorkerOK(u)'
    <3>1. thread'[u] = "none" /\ at'[u] = 1 /\ exception'[u] = None
      BY <1>2, <1>9, <2>1, <2>2, <2>3
    <3>2. PICK m : m = Group(u).members'
      OBVIOUS
    <3>3. DivisionOK(x)' /\ u[2] \in 1 .. Len(Groups(x))'
      <4>1. DivisionOK(x)'
        BY <1>11, <2>1, <2>3
      <4>2. Len(Groups(x))' \in Nat /\ u[2] <= Len(Groups(x))'
        BY <2>3, <4>1 DEF DivisionOK, Planned
      <4> QED
        BY <2>1, <4>1, <4>2
    <3>4. PICK s : s = Start(x, u[2])'
      OBVIOUS
    <3>5. /\ s \in Nat /\ Len(m) \in Nat \ {0} /\ s + Len(m) <= Len(Children[x])
          /\ \A n \in 1 .. Len(m) : m[n] = Children[x][s + n]
      BY <2>3, <3>2, <3>3, <3>4 DEF DivisionOK, Group
    <3>6. \A n \in 1 .. Len(m) : s + n \in DOMAIN Children[x]
      <4>1. Children[x] \in Seq(Jobs)
        BY <1>4, ChildThreadsAssumption
      <4>2. DOMAIN Children[x] = 1 .. Len(Children[x]) /\ Len(Children[x]) \in Nat
        BY <4>1
      <4> QED
        BY <3>5, <4>2
    <3>7. \A n \in 1 .. Len(m) : job'[m[n]] = "idle"
      <4> TAKE n \in 1 .. Len(m)
      <4>1. m[n] \in Jobs /\ m[n] # x /\ job[m[n]] = "idle"
        <5>1. s + n \in DOMAIN Children[x] /\ m[n] = Children[x][s + n]
          BY <3>5, <3>6
        <5>2. PICK k \in DOMAIN Children[x] : m[n] = Children[x][k]
          BY <5>1
        <5>3. m[n] \in Jobs
          BY <1>4, <5>2, ChildIsJob
        <5>4. m[n] # x
          BY <1>4, <1>5, <1>7, <5>2
        <5>5. job[m[n]] = "idle"
          BY <1>9, <5>2
        <5> QED
          BY <5>3, <5>4, <5>5
      <4> QED
        BY <1>5, <4>1
    <3>8. 1 <= Len(m) /\ \A n \in 1 .. Len(m) : ~ (n < 1)
      BY <3>5
    <3> QED
      BY <3>1, <3>2, <3>7, <3>8 DEF WorkerOK
  <2>4. ASSUME Planned(u)', u[1] # x PROVE WorkerOK(u)'
    <3>1. procs'[u[1]] = procs[u[1]] /\ job'[u[1]] = job[u[1]]
      BY <1>5, <2>1, <2>4
    <3>2. Group(u)' = Group(u) /\ Groups(u[1])' = Groups(u[1])
      BY <3>1, DivisionKept DEF Group
    <3>3. Planned(u)
      BY <2>4, <3>1, <3>2 DEF Planned
    <3>4. WorkerOK(u) /\ at[u] \in 1 .. Len(Group(u).members)
      BY <3>3, AtMember DEF RunIInv, WorkersOK
    <3>5. PICK m : m = Group(u).members
      OBVIOUS
    <3>6. ASSUME NEW n \in 1 .. Len(m), m[n] = x PROVE u = t /\ n = at[t]
      <4>1. PICK a : a = at[t]
        OBVIOUS
      <4>2. /\ Group(u).members[n] = Group(t).members[a]
            /\ n \in 1 .. Len(Group(u).members) /\ a \in 1 .. Len(Group(t).members)
        BY <1>4, <1>6, <3>5, <3>6, <4>1
      <4>3. u = t /\ n = a
        BY <1>3, <1>4, <3>3, <4>2, OnePlace
      <4> QED
        BY <4>1, <4>3
    <3>7. \A n \in 1 .. Len(m) : m[n] \in Jobs
      BY <1>3, <3>3, <3>5, MemberPlace
    <3>8. \A n \in 1 .. Len(m) :
            /\ n < at[u] => job[m[n]] = "returned"
            /\ n > at[u] \/ thread[u] = "none" => job[m[n]] = "idle"
            /\ job[m[n]] # "idle" => procs[m[n]] = Group(u).procs
      BY <3>4, <3>5 DEF WorkerOK
    <3>9. \A n \in 1 .. Len(m) :
            /\ n < at[u] => job'[m[n]] = "returned"
            /\ n > at[u] \/ thread[u] = "none" => job'[m[n]] = "idle"
            /\ job'[m[n]] # "idle" => procs'[m[n]] = Group(u).procs
      <4> TAKE n \in 1 .. Len(m)
      <4>1. CASE m[n] = x
        <5>1. u = t /\ n = at[u]
          BY <3>6, <4>1
        <5>2. ~ (n < at[u]) /\ ~ (n > at[u])
          BY <1>4, <5>1
        <5> QED
          BY <1>2, <1>5, <4>1, <5>1, <5>2
      <4>2. CASE m[n] # x
        BY <1>5, <3>7, <3>8, <4>2
      <4> QED
        BY <4>1, <4>2
    <3>10. Member(u)' = Member(u) /\ Member(u) = m[at[u]] /\ at[u] \in 1 .. Len(m)
      BY <1>2, <3>2, <3>4, <3>5 DEF Member
    <3>11. thread[u] \in {"leaving", "gone"} =>
             job'[Member(u)] = job[Member(u)]
      <4>1. u = t => thread[u] = "running"
        BY <1>2
      <4>2. Member(u) = x => u = t
        BY <3>6, <3>10
      <4> QED
        BY <1>5, <3>7, <3>10, <4>1, <4>2
    <3>12. /\ at'[u] <= Len(m)
           /\ thread'[u] = "running" => exception'[u] = None
           /\ thread'[u] \in {"leaving", "gone"} =>
              \/ job'[Member(u)'] = "threw" /\ exception'[u] = raised'[Member(u)']
              \/ job'[Member(u)'] = "returned" /\ at'[u] = Len(m) /\ exception'[u] = None
      <4>1. /\ at[u] <= Len(m)
            /\ thread[u] = "running" => exception[u] = None
            /\ thread[u] \in {"leaving", "gone"} =>
               \/ job[Member(u)] = "threw" /\ exception[u] = raised[Member(u)]
               \/ job[Member(u)] = "returned" /\ at[u] = Len(m) /\ exception[u] = None
        BY <3>4, <3>5 DEF WorkerOK
      <4> QED
        BY <1>2, <3>10, <3>11, <4>1
    <3>13. at'[u] = at[u] /\ thread'[u] = thread[u]
      BY <1>2
    <3> QED
      BY <3>2, <3>5, <3>9, <3>12, <3>13 DEF WorkerOK
  <2> QED
    BY <2>2, <2>3, <2>4
<1>15. FirstInOrder'
  <2> SUFFICES ASSUME NEW l \in Jobs, Ended(l)' PROVE InOrder(l)'
    BY DEF FirstInOrder, InOrder
  <2>1. l # x
    BY <1>5 DEF Ended
  <2>2. Ended(l)
    BY <1>5, <2>1 DEF Ended
  <2>3. InOrder(l)
    BY <2>2 DEF RunIInv, FirstInOrder, InOrder
  <2>4. \A i \in Jobs : Ended(i) => job'[i] = job[i] /\ raised'[i] = raised[i]
    BY <1>2, <1>5 DEF Ended
  <2> QED
    BY <1>2, <1>3, <2>2, <2>3, <2>4, InOrderKept
<1> QED
  BY <1>10, <1>12, <1>13, <1>14, <1>15 DEF RunIInv
-----------------------------------------------------------------------------
(* At first the root is called and no thread there.                        *)
LEMMA RunIInvHolds == RunInit => RunIInv
<1> SUFFICES ASSUME RunInit PROVE RunIInv
  OBVIOUS
<1>1. PICK n \in Counts : procs = [j \in Jobs |-> IF j = Root THEN n ELSE 0]
  BY DEF RunInit
<1>2. n \in Nat \ {0} /\ Root \in Jobs
  BY ChildThreadsAssumption
<1>3. /\ failing \in Failures /\ raised = [j \in Jobs |-> None] /\ count = [j \in Jobs |-> 0]
      /\ job = [j \in Jobs |-> IF j = Root THEN "called" ELSE "idle"]
      /\ thread = [t \in Workers |-> "none"] /\ at = [t \in Workers |-> 1]
      /\ exception = [t \in Workers |-> None] /\ joinLock = [t \in Workers |-> FALSE]
  BY DEF RunInit
<1>4. RunTypeOK
  <2>1. job \in [Jobs -> {"idle", "called", "in thread", "joining", "returned", "threw"}]
    BY <1>3
  <2>2. procs \in [Jobs -> Nat]
    BY <1>1, <1>2
  <2> QED
    BY <1>3, <2>1, <2>2 DEF RunTypeOK
<1>5. \A j \in Jobs : (job[j] = "idle" <=> j # Root) /\ (j = Root => job[j] = "called" /\ procs[j] = n)
                      /\ count[j] = 0
  BY <1>1, <1>3
<1>6. \A t \in Workers : thread[t] = "none" /\ at[t] = 1 /\ exception[t] = None /\ ~ joinLock[t]
  BY <1>3
<1>7. CallsOK
  <2> SUFFICES ASSUME NEW j \in Jobs
               PROVE  /\ job[j] = "idle" => /\ count[j] = 0
                          /\ \A k \in DOMAIN Children[j] : /\ job[Children[j][k]] = "idle"
                                                           /\ thread[<<j, k>>] = "none"
                      /\ job[j] # "idle" => procs[j] # 0
                      /\ j \in Leaves => job[j] \notin {"in thread", "joining"}
    BY DEF CallsOK
  <2>1. \A k \in DOMAIN Children[j] : job[Children[j][k]] = "idle" /\ thread[<<j, k>>] = "none"
    <3> TAKE k \in DOMAIN Children[j]
    <3>1. Children[j][k] \in Jobs /\ Children[j][k] # Root /\ <<j, k>> \in Workers
      BY ChildIsJob, TreeAssumption, WorkerType
    <3> QED
      BY <1>5, <1>6, <3>1
  <2>2. job[j] # "idle" => procs[j] # 0 /\ job[j] = "called"
    BY <1>2, <1>5
  <2>3. count[j] = 0
    BY <1>5
  <2> QED
    BY <2>1, <2>2, <2>3
<1>8. JobsOK
  <2> SUFFICES ASSUME NEW j \in Jobs \ Leaves, job[j] # "idle" PROVE JobOK(j)
    BY DEF JobsOK
  <2>1. DivisionOK(j)
    BY <1>4, <1>7, Begun
  <2>2. /\ Len(Groups(j)) \in Nat /\ 1 \in 1 .. Len(Groups(j))
        /\ \A k \in 1 .. Len(Groups(j)) : k \in DOMAIN Children[j]
    BY <2>1, OwnRange
  <2>3. \A k \in DOMAIN Children[j] : thread[<<j, k>>] = "none"
    BY <1>6, WorkerType
  <2>4. job[j] = "called" /\ count[j] = 0
    BY <1>5
  <2>5. /\ thread[<<j, 1>>] = "none" /\ 0 <= Len(Groups(j))
        /\ \A k \in 1 .. Len(Groups(j)) : thread[<<j, k>>] = "none" /\ k > 0
    BY <2>2, <2>3
  <2> QED
    BY <2>3, <2>4, <2>5 DEF JobOK, Ended
<1>9. LocksOK
  BY <1>6 DEF LocksOK
<1>10. WorkersOK
  <2> SUFFICES ASSUME NEW u \in Workers, Planned(u) PROVE WorkerOK(u)
    BY <1>6 DEF WorkersOK
  <2>1. u[1] \in Jobs \ Leaves /\ u[1] = Root /\ u[2] \in Nat \ {0}
    BY <1>5, WorkerType DEF Planned
  <2>2. DivisionOK(u[1])
    BY <1>4, <1>7, <2>1, Begun DEF Planned
  <2>3. PICK m : m = Group(u).members
    OBVIOUS
  <2>4. Len(m) \in Nat \ {0}
    BY <2>1, <2>2, <2>3 DEF DivisionOK, Planned, Group
  <2>5. \A i \in 1 .. Len(m) : job[m[i]] = "idle" /\ ~ (i < 1)
    <3> TAKE i \in 1 .. Len(m)
    <3>1. /\ m[i] \in Jobs /\ Start(u[1], u[2]) + i \in DOMAIN Children[u[1]]
          /\ m[i] = Children[u[1]][Start(u[1], u[2]) + i]
      BY <1>4, <1>7, <2>3, MemberPlace
    <3>2. m[i] # Root
      BY <2>1, <3>1, TreeAssumption
    <3> QED
      BY <1>5, <2>4, <3>1, <3>2
  <2>6. at[u] = 1 /\ 1 <= Len(m) /\ thread[u] = "none"
    BY <1>6, <2>4
  <2> QED
    BY <2>3, <2>5, <2>6 DEF WorkerOK
<1>11. FirstInOrder
  <2>1. \A j \in Jobs : ~ Ended(j)
    BY <1>3 DEF Ended
  <2> QED
    BY <2>1 DEF FirstInOrder
<1> QED
  BY <1>4, <1>7, <1>8, <1>9, <1>10, <1>11 DEF RunIInv

LEMMA RunIInvKept == RunIInv /\ [RunNext]_runVars => RunIInv'
<1> SUFFICES ASSUME RunIInv, [RunNext]_runVars PROVE RunIInv'
  OBVIOUS
<1>1. RunTypeOK'
  BY TypesKept
<1>2. CASE UNCHANGED runVars
  <2>1. /\ failing' = failing /\ job' = job /\ procs' = procs /\ raised' = raised
        /\ count' = count /\ thread' = thread /\ at' = at /\ exception' = exception
        /\ joinLock' = joinLock
    BY <1>2 DEF runVars
  <2>2. /\ \A j \in Jobs : Groups(j)' = Groups(j) /\ (InThread(j)' <=> InThread(j))
        /\ \A t \in Workers : Group(t)' = Group(t)
    BY <2>1, DivisionKept DEF Group
  <2>3. CallsOK' /\ LocksOK'
    <3>1. \A t \in Workers : InThread(t[1])' <=> InThread(t[1])
      BY <2>2, WorkerType
    <3>2. CallsOK'
      BY <2>1 DEF RunIInv, CallsOK
    <3>3. LocksOK'
      <4> SUFFICES ASSUME NEW t \in Workers
                   PROVE  joinLock'[t] <=> thread'[t] \in {"running", "leaving"} /\ ~ InThread(t[1])'
        BY DEF LocksOK
      <4>1. joinLock[t] <=> thread[t] \in {"running", "leaving"} /\ ~ InThread(t[1])
        BY DEF RunIInv, LocksOK
      <4> QED
        BY <2>1, <3>1, <4>1
    <3> QED
      BY <3>2, <3>3
  <2>4. JobsOK'
    <3> SUFFICES ASSUME NEW j \in Jobs \ Leaves, job[j] # "idle" PROVE JobOK(j)'
      BY <2>1 DEF JobsOK
    <3>1. JobOK(j) /\ DivisionOK(j)
      BY Begun DEF RunIInv, JobsOK
    <3> QED
      BY <2>1, <3>1, JobKept
  <2>5. WorkersOK'
    <3> SUFFICES ASSUME NEW t \in Workers
                 PROVE  /\ thread'[t] = "none" => at'[t] = 1 /\ exception'[t] = None
                        /\ Planned(t)' => WorkerOK(t)'
      BY DEF WorkersOK
    <3>1. Planned(t)' => Planned(t)
      BY <2>1, <2>2, WorkerType DEF Planned
    <3>2. /\ thread[t] = "none" => at[t] = 1 /\ exception[t] = None
          /\ Planned(t) => WorkerOK(t)
      BY DEF RunIInv, WorkersOK
    <3>3. ASSUME Planned(t) PROVE WorkerOK(t)'
      BY <2>1, <3>2, <3>3, WorkerKept DEF RunIInv
    <3> QED
      BY <2>1, <3>1, <3>2, <3>3
  <2>6. FirstInOrder'
    BY <2>1 DEF RunIInv, FirstInOrder, InOrder, Ended
  <2> QED
    BY <1>1, <2>3, <2>4, <2>5, <2>6 DEF RunIInv
<1>3. ASSUME NEW j \in Jobs, JobStep(j) PROVE RunIInv'
  BY <1>1, <1>3, LeafEndsStep, RunInThreadStep, EndInThreadStep, StartThreadStep, AllStartedStep,
     JoinStep, RaiseStep DEF JobStep
<1>4. ASSUME NEW t \in Workers, ThreadStep(t) PROVE RunIInv'
  BY <1>1, <1>4, CallMemberStep, MemberReturnedStep, MemberThrewStep, LeaveStep DEF ThreadStep
<1> QED
  BY <1>2, <1>3, <1>4 DEF RunNext

(* The invariant of jobs, threads and members holds in every state.        *)
THEOREM RunInvariance == RunSpec => []RunIInv
BY RunIInvHolds, RunIInvKept, PTL DEF RunSpec

(* What a job raises is what running its children in order raises, for any *)
(* tree of jobs and any number of processors.                              *)
THEOREM RaisesTheFirst == RunSpec => []FirstInOrder
<1>1. RunIInv => FirstInOrder
  BY DEF RunIInv
<1> QED
  BY <1>1, RunInvariance, PTL

LEMMA NothingLeftNow == RunIInv => NothingLeftRunning
<1>1. ASSUME RunIInv, NEW j \in Jobs, Ended(j)
      PROVE  /\ \A t \in Workers : t[1] = j => thread[t] \in {"none", "gone"}
             /\ \A k \in DOMAIN Children[j] :
                  job[Children[j][k]] = "idle" \/ Ended(Children[j][k])
  <2>1. ASSUME NEW t \in Workers, t[1] = j PROVE thread[t] \in {"none", "gone"}
    <3>1. CASE thread[t] \in {"running", "leaving"}
      <4>1. job[j] \in {"called", "in thread", "joining"}
        BY <1>1, <2>1, <3>1, AtWork
      <4> QED
        BY <1>1, <4>1 DEF Ended
    <3> QED
      BY <1>1, <3>1 DEF RunIInv, RunTypeOK
  <2>2. ASSUME NEW k \in DOMAIN Children[j]
        PROVE  job[Children[j][k]] = "idle" \/ Ended(Children[j][k])
    <3>1. j \in Jobs \ Leaves /\ job[j] # "idle"
      <4>1. Children[j] # <<>>
        OBVIOUS
      <4> QED
        BY <1>1, <4>1 DEF Ended, Leaves
    <3>2. PICK i \in 1 .. Len(Groups(j)) :
             /\ <<j, i>> \in Workers /\ Planned(<<j, i>>)
             /\ Group(<<j, i>>) = Groups(j)[i]
             /\ k - Start(j, i) \in 1 .. Len(Groups(j)[i].members)
             /\ Groups(j)[i].members[k - Start(j, i)] = Children[j][k]
      BY <1>1, <3>1, ChildPlace DEF RunIInv
    <3>3. PICK t, m, n : /\ t = <<j, i>> /\ m = Group(t).members
                         /\ n = k - Start(j, i)
      OBVIOUS
    <3>4. t \in Workers /\ Planned(t) /\ n \in 1 .. Len(m) /\ m[n] = Children[j][k] /\ t[1] = j
      BY <3>2, <3>3
    <3>5. WorkerOK(t) /\ at[t] \in 1 .. Len(m)
      BY <1>1, <3>3, <3>4, AtMember DEF RunIInv, WorkersOK
    <3>6. thread[t] \in {"none", "gone"}
      BY <2>1, <3>4
    <3>7. CASE thread[t] = "none"
      BY <3>3, <3>4, <3>5, <3>7 DEF WorkerOK
    <3>8. CASE thread[t] = "gone"
      <4>1. /\ n < at[t] => job[m[n]] = "returned"
            /\ n > at[t] => job[m[n]] = "idle"
            /\ job[m[at[t]]] \in {"threw", "returned"}
        BY <3>3, <3>4, <3>5, <3>8 DEF WorkerOK, Member
      <4>2. n < at[t] \/ n > at[t] \/ n = at[t]
        BY <3>4, <3>5
      <4> QED
        BY <3>4, <4>1, <4>2 DEF Ended
    <3> QED
      BY <3>6, <3>7, <3>8
  <2> QED
    BY <2>1, <2>2
<1> QED
  BY <1>1 DEF NothingLeftRunning

(* When run is over, no thread that was started for it still runs, and     *)
(* none of its children is at work.                                        *)
THEOREM NothingLeft == RunSpec => []NothingLeftRunning
BY NothingLeftNow, RunInvariance, PTL
-----------------------------------------------------------------------------
(* Counting: sets whose sizes are below the steps of g; pairs.             *)
(* As many sets as there are steps, each smaller than its step.            *)
LEMMA FewInAll ==
  ASSUME NEW N \in Nat, NEW A, NEW g, \A k \in 0 .. N : g[k] \in Nat,
         \A k \in 1 .. N : /\ IsFiniteSet(A[k])
                           /\ Cardinality(A[k]) <= g[k] - g[k - 1]
  PROVE  /\ IsFiniteSet(UNION {A[k] : k \in 1 .. N})
         /\ Cardinality(UNION {A[k] : k \in 1 .. N}) <= g[N]
<1> DEFINE U(n) == UNION {A[k] : k \in 1 .. n}
           G == {n \in Nat : n <= N => IsFiniteSet(U(n)) /\ Cardinality(U(n)) <= g[n]}
<1>1. 0 \in G
  <2>1. U(0) = {}
    OBVIOUS
  <2>2. IsFiniteSet(U(0)) /\ Cardinality(U(0)) = 0
    BY <2>1, FS_EmptySet
  <2>3. g[0] \in Nat
    OBVIOUS
  <2> QED
    BY <2>2, <2>3
<1>2. ASSUME NEW n \in Nat, n \in G PROVE n + 1 \in G
  <2> SUFFICES ASSUME n + 1 <= N
               PROVE  IsFiniteSet(U(n + 1)) /\ Cardinality(U(n + 1)) <= g[n + 1]
    OBVIOUS
  <2>1. IsFiniteSet(U(n)) /\ Cardinality(U(n)) <= g[n]
    BY <1>2
  <2>2. U(n + 1) = U(n) \cup A[n + 1]
    <3>1. 1 .. n + 1 = (1 .. n) \cup {n + 1}
      OBVIOUS
    <3> QED
      BY <3>1
  <2>3. /\ IsFiniteSet(A[n + 1]) /\ Cardinality(A[n + 1]) <= g[n + 1] - g[n]
        /\ g[n] \in Nat /\ g[n + 1] \in Nat
    <3>1. n + 1 \in 1 .. N /\ n \in 0 .. N /\ n + 1 \in 0 .. N /\ (n + 1) - 1 = n
      OBVIOUS
    <3> QED
      BY <3>1
  <2> HIDE DEF U
  <2>4. /\ IsFiniteSet(U(n) \cup A[n + 1])
        /\ Cardinality(U(n) \cup A[n + 1]) =
             Cardinality(U(n)) + Cardinality(A[n + 1]) - Cardinality(U(n) \cap A[n + 1])
    BY <2>1, <2>3, FS_Union
  <2>5. /\ Cardinality(U(n)) \in Nat /\ Cardinality(A[n + 1]) \in Nat
        /\ Cardinality(U(n) \cap A[n + 1]) \in Nat
    <3>1. U(n) \cap A[n + 1] \in SUBSET U(n)
      OBVIOUS
    <3>2. IsFiniteSet(U(n) \cap A[n + 1])
      BY <2>1, <3>1, FS_Subset
    <3> QED
      BY <2>1, <2>3, <3>2, FS_CardinalityType
  <2>6. PICK u, a, c, v, w : /\ u = Cardinality(U(n)) /\ a = Cardinality(A[n + 1])
                            /\ c = Cardinality(U(n) \cap A[n + 1])
                            /\ v = g[n] /\ w = g[n + 1]
    OBVIOUS
  <2>7. u \in Nat /\ a \in Nat /\ c \in Nat /\ v \in Nat /\ w \in Nat /\ u <= v /\ a <= w - v
    BY <2>1, <2>3, <2>5, <2>6
  <2>8. u + a - c <= w
    BY <2>7
  <2> QED
    BY <2>2, <2>4, <2>6, <2>8
<1>3. N \in G
  <2> HIDE DEF G
  <2> QED
    BY <1>1, <1>2, InductionOnNat
<1> QED
  BY <1>3

(* A number is at most the sum of it with others.                          *)
LEMMA Rises ==
  ASSUME NEW N \in Nat, NEW b, NEW g, \A k \in 0 .. N : g[k] \in Nat,
         \A k \in 1 .. N : b[k] \in Nat /\ g[k] = g[k - 1] + b[k]
  PROVE  \A k \in 1 .. N : b[k] <= g[N]
<1> DEFINE G == {d \in Nat : d <= N => g[N - d] <= g[N]}
<1>1. 0 \in G
  <2>1. N - 0 = N /\ g[N] \in Nat
    OBVIOUS
  <2> QED
    BY <2>1
<1>2. ASSUME NEW d \in Nat, d \in G PROVE d + 1 \in G
  <2> SUFFICES ASSUME d + 1 <= N PROVE g[N - (d + 1)] <= g[N]
    OBVIOUS
  <2>1. PICK e : e = N - d
    OBVIOUS
  <2>2. e \in 1 .. N /\ e - 1 = N - (d + 1) /\ e - 1 \in 0 .. N /\ e \in 0 .. N /\ N \in 0 .. N
    BY <2>1
  <2>3. g[e] = g[e - 1] + b[e] /\ b[e] \in Nat /\ g[e] <= g[N]
        /\ g[e] \in Nat /\ g[e - 1] \in Nat /\ g[N] \in Nat
    BY <1>2, <2>1, <2>2
  <2>4. g[e - 1] <= g[N]
    BY <2>3
  <2> QED
    BY <2>2, <2>4
<1>3. \A d \in Nat : d \in G
  <2> HIDE DEF G
  <2> QED
    BY <1>1, <1>2, InductionOnNat
<1>4. ASSUME NEW k \in 1 .. N PROVE b[k] <= g[N]
  <2>1. N - k \in Nat /\ N - k <= N /\ N - (N - k) = k /\ k \in 0 .. N /\ k - 1 \in 0 .. N
    OBVIOUS
  <2>2. g[k] <= g[N]
    BY <1>3, <2>1
  <2>3. g[k] = g[k - 1] + b[k] /\ b[k] \in Nat /\ g[k - 1] \in Nat /\ g[N] \in Nat
    BY <2>1
  <2> QED
    BY <2>2, <2>3
<1> QED
  BY <1>4

LEMMA ColumnOfPairs ==
  ASSUME NEW k, NEW m \in Nat
  PROVE  IsFiniteSet({k} \X (1 .. m)) /\ Cardinality({k} \X (1 .. m)) = m
<1>1. IsFiniteSet(1 .. m) /\ Cardinality(1 .. m) = m
  BY FS_Interval
<1>2. IsFiniteSet({k}) /\ Cardinality({k}) = 1
  BY FS_Singleton
<1>3. /\ IsFiniteSet({k} \X (1 .. m))
      /\ Cardinality({k} \X (1 .. m)) = Cardinality({k}) * Cardinality(1 .. m)
  BY <1>1, <1>2, FS_Product, Zenon
<1> QED
  BY <1>1, <1>2, <1>3

PairsBelow(N, b, p) == {x \in (1 .. N) \X (1 .. p + 1) : x[2] <= b[x[1]]}

LEMMA PairsCounted ==
  ASSUME NEW N \in Nat, NEW b, NEW g, NEW p \in Nat,
         \A k \in 0 .. N : g[k] \in Nat,
         \A k \in 1 .. N : b[k] \in Nat /\ g[k] = g[k - 1] + b[k],
         g[0] = 0, g[N] <= p
  PROVE  Cardinality(PairsBelow(N, b, p)) = g[N]
<1> DEFINE P(n) == {x \in (1 .. n) \X (1 .. p + 1) : x[2] <= b[x[1]]}
           G == {n \in Nat : n <= N => IsFiniteSet(P(n)) /\ Cardinality(P(n)) = g[n]}
<1>1. 0 \in G
  <2>1. P(0) = {}
    OBVIOUS
  <2>2. IsFiniteSet(P(0)) /\ Cardinality(P(0)) = 0
    BY <2>1, FS_EmptySet
  <2> QED
    BY <2>2
<1>2. ASSUME NEW n \in Nat, n \in G PROVE n + 1 \in G
  <2> SUFFICES ASSUME n + 1 <= N
               PROVE  IsFiniteSet(P(n + 1)) /\ Cardinality(P(n + 1)) = g[n + 1]
    OBVIOUS
  <2>1. IsFiniteSet(P(n)) /\ Cardinality(P(n)) = g[n]
    BY <1>2
  <2>2. PICK i : i = n + 1
    OBVIOUS
  <2>3. /\ i \in 1 .. N /\ b[i] \in Nat /\ g[i] = g[n] + b[i] /\ b[i] <= p + 1
        /\ g[n] \in Nat /\ g[i] \in Nat
    <3>1. i \in 1 .. N /\ n \in 0 .. N /\ i \in 0 .. N /\ i - 1 = n /\ N \in 0 .. N
      BY <2>2
    <3>2. b[i] <= g[N]
      BY <3>1, Rises
    <3>3. g[N] \in Nat /\ b[i] \in Nat
      BY <3>1
    <3> QED
      BY <3>1, <3>2, <3>3
  <2>4. P(i) = P(n) \cup ({i} \X (1 .. b[i]))
    <3>1. 1 .. i = (1 .. n) \cup {i}
      BY <2>2
    <3>2. \A y \in 1 .. p + 1 : y <= b[i] <=> y \in 1 .. b[i]
      BY <2>3
    <3>3. 1 .. b[i] \subseteq 1 .. p + 1
      BY <2>3
    <3> QED
      BY <3>1, <3>2, <3>3
  <2>5. P(n) \cap ({i} \X (1 .. b[i])) = {}
    <3>1. i \notin 1 .. n
      BY <2>2
    <3> QED
      BY <3>1
  <2> HIDE DEF P
  <2>6. /\ IsFiniteSet({i} \X (1 .. b[i])) /\ Cardinality({i} \X (1 .. b[i])) = b[i]
    BY <2>3, ColumnOfPairs
  <2>7. /\ IsFiniteSet(P(i))
        /\ Cardinality(P(i)) = g[n] + b[i] - Cardinality(P(n) \cap ({i} \X (1 .. b[i])))
    <3>1. /\ IsFiniteSet(P(n) \cup ({i} \X (1 .. b[i])))
          /\ Cardinality(P(n) \cup ({i} \X (1 .. b[i]))) =
               Cardinality(P(n)) + Cardinality({i} \X (1 .. b[i]))
                 - Cardinality(P(n) \cap ({i} \X (1 .. b[i])))
      BY <2>1, <2>6, FS_Union
    <3> QED
      BY <2>1, <2>4, <2>6, <3>1
  <2>8. Cardinality(P(n) \cap ({i} \X (1 .. b[i]))) = 0
    BY <2>5, FS_EmptySet
  <2> QED
    BY <2>2, <2>3, <2>7, <2>8
<1>3. N \in G
  <2> HIDE DEF G
  <2> QED
    BY <1>1, <1>2, InductionOnNat
<1> QED
  BY <1>3 DEF PairsBelow
-----------------------------------------------------------------------------
(* The leaves at work below a job, and its processors.                     *)
Busy(j) == {l \in LeavesBelow[j] : job[l] = "called"}

(* Below a job that was not called, or is over, no leaf is at work.        *)
LEMMA NotBusy ==
  ASSUME RunIInv, NEW j \in Jobs, job[j] = "idle" \/ Ended(j)
  PROVE  Busy(j) = {}
<1> DEFINE S == {i \in Jobs : job[i] = "idle" \/ Ended(i)}
<1>1. S \in SUBSET Jobs /\ j \in S
  OBVIOUS
<1>2. ASSUME NEW i \in S, NEW n \in DOMAIN Children[i] PROVE Children[i][n] \in S
  <2>1. Children[i][n] \in Jobs
    BY ChildIsJob
  <2>2. CASE job[i] = "idle"
    BY <2>1, <2>2 DEF RunIInv, CallsOK
  <2>3. CASE Ended(i)
    <3>1. NothingLeftRunning
      BY NothingLeftNow
    <3> QED
      BY <2>1, <2>3, <3>1 DEF NothingLeftRunning
  <2> QED
    BY <2>2, <2>3
<1>3. Under(j) \subseteq S
  <2> HIDE DEF S
  <2> QED
    BY <1>1, <1>2, UnderLeast
<1>4. \A l \in LeavesBelow[j] : l \in S
  BY <1>3 DEF LeavesBelow
<1>5. \A l \in S : job[l] # "called"
  BY DEF Ended
<1> QED
  BY <1>4, <1>5 DEF Busy

(* At most one member of each group is at work.                            *)
LEMMA BusyBelow ==
  ASSUME RunIInv, NEW j \in Jobs \ Leaves, job[j] # "idle"
  PROVE  Busy(j) \subseteq UNION {Busy(Member(<<j, k>>)) : k \in 1 .. Len(Groups(j))}
<1> SUFFICES ASSUME NEW l \in Busy(j)
             PROVE  \E k \in 1 .. Len(Groups(j)) : l \in Busy(Member(<<j, k>>))
  OBVIOUS
<1>1. l \in LeavesBelow[j] /\ job[l] = "called"
  BY DEF Busy
<1>2. PICK c \in DOMAIN Children[j] : l \in LeavesBelow[Children[j][c]]
  BY <1>1, Below
<1>3. l \in Busy(Children[j][c]) /\ Children[j][c] \in Jobs
  BY <1>1, <1>2, ChildIsJob DEF Busy
<1>4. PICK k \in 1 .. Len(Groups(j)) :
         /\ <<j, k>> \in Workers /\ Planned(<<j, k>>)
         /\ Group(<<j, k>>) = Groups(j)[k]
         /\ c - Start(j, k) \in 1 .. Len(Groups(j)[k].members)
         /\ Groups(j)[k].members[c - Start(j, k)] = Children[j][c]
  BY ChildPlace DEF RunIInv
<1>5. PICK t, m, n : t = <<j, k>> /\ m = Group(t).members /\ n = c - Start(j, k)
  OBVIOUS
<1>6. t \in Workers /\ Planned(t) /\ n \in 1 .. Len(m) /\ m[n] = Children[j][c]
  BY <1>4, <1>5
<1>7. WorkerOK(t) /\ at[t] \in 1 .. Len(m)
  BY <1>5, <1>6, AtMember DEF RunIInv, WorkersOK
<1>8. /\ n < at[t] => job[m[n]] = "returned"
      /\ n > at[t] => job[m[n]] = "idle"
  BY <1>5, <1>6, <1>7 DEF WorkerOK
<1>9. job[m[n]] # "idle" /\ job[m[n]] # "returned"
  BY <1>3, <1>6, NotBusy DEF Ended
<1>10. n = at[t]
  BY <1>6, <1>7, <1>8, <1>9
<1>11. Member(t) = Children[j][c]
  BY <1>5, <1>6, <1>10 DEF Member
<1> QED
  BY <1>3, <1>5, <1>11

LEMMA BusyMember ==
  ASSUME RunIInv, NEW j \in Jobs \ Leaves, job[j] # "idle", NEW k \in 1 .. Len(Groups(j)),
         \A c \in DOMAIN Children[j] :
           job[Children[j][c]] # "idle" =>
             /\ IsFiniteSet(Busy(Children[j][c]))
             /\ Cardinality(Busy(Children[j][c])) <= procs[Children[j][c]]
  PROVE  /\ IsFiniteSet(Busy(Member(<<j, k>>)))
         /\ Cardinality(Busy(Member(<<j, k>>))) <= Groups(j)[k].procs
<1>1. PICK t, m, n, x : t = <<j, k>> /\ m = Group(t).members /\ n = at[t] /\ x = Member(t)
  OBVIOUS
<1>2. t \in Workers /\ Planned(t) /\ WorkerOK(t) /\ t[1] = j /\ t[2] = k
  BY <1>1, OwnThreads
<1>3. n \in 1 .. Len(m) /\ x = m[n]
  BY <1>1, <1>2, AtMember DEF RunIInv, Member
<1>4. /\ x \in Jobs /\ Start(j, k) + n \in DOMAIN Children[j]
      /\ x = Children[j][Start(j, k) + n]
  BY <1>1, <1>2, <1>3, MemberPlace DEF RunIInv
<1>5. job[x] # "idle" => procs[x] = Groups(j)[k].procs
  <2>1. Group(t) = Groups(j)[k]
    BY <1>2 DEF Group
  <2>2. \A i \in 1 .. Len(m) : job[m[i]] # "idle" => procs[m[i]] = Group(t).procs
    BY <1>1, <1>2 DEF WorkerOK
  <2> QED
    BY <1>3, <2>1, <2>2
<1>6. CASE job[x] = "idle"
  <2>1. Busy(x) = {}
    BY <1>4, <1>6, NotBusy
  <2>2. Groups(j)[k].procs \in Nat
    BY Begun DEF RunIInv, SharesOK
  <2>3. PICK p : p = Groups(j)[k].procs
    OBVIOUS
  <2>4. IsFiniteSet(Busy(x)) /\ Cardinality(Busy(x)) = 0
    BY <2>1, FS_EmptySet
  <2>5. p \in Nat
    BY <2>2, <2>3
  <2>6. Cardinality(Busy(x)) <= p
    BY <2>4, <2>5
  <2> QED
    BY <1>1, <2>3, <2>4, <2>6
<1>7. CASE job[x] # "idle"
  <2>1. /\ IsFiniteSet(Busy(x)) /\ Cardinality(Busy(x)) <= procs[x]
    BY <1>4, <1>7
  <2> QED
    BY <1>1, <1>5, <1>7, <2>1
<1> QED
  BY <1>6, <1>7

(* A leaf is one leaf; any other job has at work no more leaves than its   *)
(* groups have processors, when that is so of its children.                *)
LEMMA BusyJob ==
  ASSUME RunIInv, NEW j \in Jobs, job[j] # "idle",
         \A c \in DOMAIN Children[j] :
           job[Children[j][c]] # "idle" =>
             /\ IsFiniteSet(Busy(Children[j][c]))
             /\ Cardinality(Busy(Children[j][c])) <= procs[Children[j][c]]
  PROVE  IsFiniteSet(Busy(j)) /\ Cardinality(Busy(j)) <= procs[j]
<1>1. CASE j \in Leaves
  <2>1. Busy(j) \in SUBSET {j}
    BY <1>1, Below DEF Busy
  <2>2. IsFiniteSet(Busy(j)) /\ Cardinality(Busy(j)) <= 1
    <3>1. IsFiniteSet({j}) /\ Cardinality({j}) = 1
      BY FS_Singleton
    <3>2. IsFiniteSet(Busy(j)) /\ Cardinality(Busy(j)) <= Cardinality({j})
      BY <2>1, <3>1, FS_Subset
    <3> QED
      BY <3>1, <3>2
  <2>3. procs[j] \in Nat /\ procs[j] # 0
    BY DEF RunIInv, RunTypeOK, CallsOK
  <2>4. Cardinality(Busy(j)) \in Nat
    BY <2>2, FS_CardinalityType
  <2> QED
    BY <2>2, <2>3, <2>4
<1>2. CASE j \notin Leaves
  <2>1. SharesOK(j) /\ DivisionOK(j)
    BY <1>2, Begun DEF RunIInv
  <2>2. PICK N : N = Len(Groups(j))
    OBVIOUS
  <2>3. PICK A, g : /\ A = [k \in 1 .. N |-> Busy(Member(<<j, k>>))]
                    /\ g = [k \in 0 .. N |-> Given(j, k)]
    OBVIOUS
  <2>4. N \in Nat /\ 1 <= N
    BY <2>1, <2>2 DEF DivisionOK
  <2>5. \A k \in 1 .. N : /\ A[k] = Busy(Member(<<j, k>>))
                          /\ IsFiniteSet(A[k]) /\ Cardinality(A[k]) <= Groups(j)[k].procs
    BY <1>2, <2>2, <2>3, BusyMember
  <2>6. /\ g[0] = 0 /\ g[N] = procs[j]
        /\ \A k \in 1 .. N : /\ g[k - 1] \in Nat /\ Groups(j)[k].procs \in Nat
                             /\ g[k] = g[k - 1] + Groups(j)[k].procs
    <3>1. 0 \in 0 .. N /\ N \in 0 .. N /\ \A k \in 1 .. N : k \in 0 .. N /\ k - 1 \in 0 .. N
      BY <2>4
    <3> QED
      BY <2>1, <2>2, <2>3, <3>1 DEF SharesOK
  <2>7. \A k \in 0 .. N : g[k] \in Nat
    <3> TAKE k \in 0 .. N
    <3>1. k = 0 \/ k \in 1 .. N
      BY <2>4
    <3> QED
      BY <2>6, <3>1
  <2>8. \A k \in 1 .. N : IsFiniteSet(A[k]) /\ Cardinality(A[k]) <= g[k] - g[k - 1]
    <3> TAKE k \in 1 .. N
    <3>1. Cardinality(A[k]) \in Nat
      BY <2>5, FS_CardinalityType
    <3>2. PICK a, b, d, e : /\ a = g[k] /\ b = g[k - 1] /\ d = Groups(j)[k].procs
                            /\ e = Cardinality(A[k])
      OBVIOUS
    <3>3. a = b + d /\ b \in Nat /\ d \in Nat /\ e \in Nat /\ e <= d
      BY <2>5, <2>6, <3>1, <3>2
    <3>4. e <= a - b
      BY <3>3
    <3> QED
      BY <2>5, <3>2, <3>4
  <2>9. /\ IsFiniteSet(UNION {A[k] : k \in 1 .. N})
        /\ Cardinality(UNION {A[k] : k \in 1 .. N}) <= procs[j]
    <3>1. /\ IsFiniteSet(UNION {A[k] : k \in 1 .. N})
          /\ Cardinality(UNION {A[k] : k \in 1 .. N}) <= g[N]
      BY <2>4, <2>7, <2>8, FewInAll
    <3> QED
      BY <2>6, <3>1
  <2>10. Busy(j) \in SUBSET UNION {A[k] : k \in 1 .. N}
    <3>1. Busy(j) \subseteq UNION {Busy(Member(<<j, k>>)) : k \in 1 .. N}
      BY <1>2, <2>2, BusyBelow
    <3> QED
      BY <2>5, <3>1
  <2>11. IsFiniteSet(Busy(j)) /\ Cardinality(Busy(j)) <= Cardinality(UNION {A[k] : k \in 1 .. N})
    BY <2>9, <2>10, FS_Subset
  <2>12. /\ Cardinality(Busy(j)) \in Nat /\ procs[j] \in Nat
         /\ Cardinality(UNION {A[k] : k \in 1 .. N}) \in Nat
    BY <2>9, <2>11, FS_CardinalityType DEF RunIInv, RunTypeOK
  <2> QED
    BY <2>9, <2>11, <2>12
<1> QED
  BY <1>1, <1>2

(* So it is of every job, for else there were a job of which it is false   *)
(* and is true of its children.                                            *)
LEMMA FewBusy ==
  ASSUME RunIInv
  PROVE  \A j \in Jobs : job[j] # "idle" => IsFiniteSet(Busy(j)) /\ Cardinality(Busy(j)) <= procs[j]
<1> DEFINE S == {j \in Jobs : /\ job[j] # "idle"
                              /\ ~ (IsFiniteSet(Busy(j)) /\ Cardinality(Busy(j)) <= procs[j])}
<1> SUFFICES ASSUME S # {} PROVE FALSE
  OBVIOUS
<1>1. PICK j \in S : \A k \in DOMAIN Children[j] : Children[j][k] \notin S
  <2>1. S \in (SUBSET Jobs) \ {{}}
    OBVIOUS
  <2> HIDE DEF S
  <2> QED
    BY <2>1, TreeAssumption
<1>2. j \in Jobs /\ job[j] # "idle"
  OBVIOUS
<1>3. \A c \in DOMAIN Children[j] :
           job[Children[j][c]] # "idle" =>
             /\ IsFiniteSet(Busy(Children[j][c]))
             /\ Cardinality(Busy(Children[j][c])) <= procs[Children[j][c]]
  BY <1>1, <1>2, ChildIsJob
<1> HIDE DEF S
<1>4. IsFiniteSet(Busy(j)) /\ Cardinality(Busy(j)) <= procs[j]
  BY <1>2, <1>3, BusyJob
<1> USE DEF S
<1> QED
  BY <1>4

(* The processors of the groups add up to those of the job.                *)
LEMMA AllGiven ==
  ASSUME RunIInv, NEW j \in Jobs \ Leaves, job[j] # "idle"
  PROVE  Cardinality({g \in (DOMAIN Groups(j)) \X (1 .. procs[j] + 1) :
                        g[2] <= Groups(j)[g[1]].procs}) = procs[j]
<1>1. SharesOK(j) /\ DivisionOK(j) /\ procs[j] \in Nat
  BY Begun DEF RunIInv
<1>2. PICK N, p : N = Len(Groups(j)) /\ p = procs[j]
  OBVIOUS
<1>3. PICK b, g : /\ b = [k \in 1 .. N |-> Groups(j)[k].procs]
                  /\ g = [k \in 0 .. N |-> Given(j, k)]
  OBVIOUS
<1>4. N \in Nat /\ 1 <= N /\ DOMAIN Groups(j) = 1 .. N /\ p \in Nat
  BY <1>1, <1>2 DEF DivisionOK
<1>5. /\ g[0] = 0 /\ g[N] = p
      /\ \A k \in 1 .. N : /\ g[k - 1] \in Nat /\ b[k] \in Nat /\ b[k] = Groups(j)[k].procs
                           /\ g[k] = g[k - 1] + b[k]
  <2>1. 0 \in 0 .. N /\ N \in 0 .. N /\ \A k \in 1 .. N : k \in 0 .. N /\ k - 1 \in 0 .. N
    BY <1>4
  <2> QED
    BY <1>1, <1>2, <1>3, <2>1 DEF SharesOK
<1>6. \A k \in 0 .. N : g[k] \in Nat
  <2> TAKE k \in 0 .. N
  <2>1. k = 0 \/ k \in 1 .. N
    BY <1>4
  <2> QED
    BY <1>5, <2>1
<1>7. g[N] <= p
  BY <1>4, <1>5
<1>8. Cardinality(PairsBelow(N, b, p)) = g[N]
  <2>1. \A k \in 1 .. N : b[k] \in Nat /\ g[k] = g[k - 1] + b[k]
    BY <1>5
  <2>2. N \in Nat /\ p \in Nat /\ g[0] = 0
    BY <1>4, <1>5
  <2> QED
    BY <1>6, <1>7, <2>1, <2>2, PairsCounted
<1>9. PairsBelow(N, b, p)
      = {x \in (DOMAIN Groups(j)) \X (1 .. procs[j] + 1) : x[2] <= Groups(j)[x[1]].procs}
  BY <1>2, <1>4, <1>5 DEF PairsBelow
<1> QED
  BY <1>2, <1>5, <1>8, <1>9

(* There are never more leaves at work below a job than it has processors, *)
(* and every processor is given to a child.                                *)
THEOREM NeverTooMany == RunSpec => []ProcessorsShared
<1>1. RunIInv => ProcessorsShared
  <2> SUFFICES ASSUME RunIInv, NEW j \in Jobs, job[j] # "idle"
               PROVE  /\ Cardinality({l \in LeavesBelow[j] : job[l] = "called"}) <= procs[j]
                      /\ j \notin Leaves =>
                           Cardinality({g \in (DOMAIN Groups(j)) \X (1 .. procs[j] + 1) :
                                          g[2] <= Groups(j)[g[1]].procs}) = procs[j]
    BY DEF ProcessorsShared
  <2>1. Cardinality({l \in LeavesBelow[j] : job[l] = "called"}) <= procs[j]
    BY FewBusy DEF Busy
  <2> QED
    BY <2>1, AllGiven
<1> QED
  BY <1>1, RunInvariance, PTL
=============================================================================
