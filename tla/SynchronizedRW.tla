--------------------------- MODULE SynchronizedRW ---------------------------
(***************************************************************************)
(* One readers/writers lock of the gPb library, synchronized_rw.cc, and    *)
(* the threads that use it.  It is built from three mutexes and a counter: *)
(*                                                                         *)
(*   _read_mutex   the gate every thread enters through                    *)
(*   _rcnt_mutex   protects _n_readers                                     *)
(*   _write_mutex  held by the active writer, or by the readers together:  *)
(*                 the first takes it and the last releases it             *)
(*                                                                         *)
(* A step of a thread goes from one mutex operation to the next; what it   *)
(* does between them is protected by a mutex it holds.  A mutex is locked  *)
(* or not: pthread keeps no owner of a default mutex, and _write_mutex is  *)
(* indeed unlocked by another reader than the one that locked it.  lock()  *)
(* and unlock() are write_lock() and write_unlock() line for line.         *)
(***************************************************************************)
EXTENDS ThreadSteps, Naturals, FiniteSets

CONSTANT NoThread

ASSUME ThreadsAssumption == IsFiniteSet(Threads) /\ NoThread \notin Threads

VARIABLES
  readMutex, rcntMutex, writeMutex,  (* TRUE when locked *)
  nReaders,
  suspended, (* the threads suspended at the gate *)
  ahead      (* history: ahead[t], those suspended there before t came *)

gateVars == <<suspended, ahead>>
vars == <<readMutex, rcntMutex, writeMutex, nReaders, pc, suspended, ahead>>

Locations ==
  {"idle",
   "r_gate", "r_rcnt", "r_first", "r_count", "r_pass", "reading",
   "u_rcnt", "u_count", "u_done",
   "w_gate", "w_write", "writing", "w_pass"}

Init ==
  /\ readMutex = FALSE /\ rcntMutex = FALSE /\ writeMutex = FALSE
  /\ nReaders = 0
  /\ pc = [t \in Threads |-> "idle"]
  /\ suspended = {}
  /\ ahead = [t \in Threads |-> {}]

-----------------------------------------------------------------------------
(* A thread calls read_lock or write_lock.                                 *)
Call(t, gate) ==
  /\ Go(t, "idle", gate)
  /\ ahead' = [ahead EXCEPT ![t] = suspended]
  /\ UNCHANGED <<readMutex, rcntMutex, writeMutex, nReaders, suspended>>

(* It finds _read_mutex locked and is suspended.                           *)
Suspend(t) ==
  /\ readMutex /\ pc[t] \in {"r_gate", "w_gate"} /\ t \notin suspended
  /\ suspended' = suspended \cup {t}
  /\ UNCHANGED <<readMutex, rcntMutex, writeMutex, nReaders, pc, ahead>>

Admit(t) ==
  /\ suspended' = suspended \ {t}
  /\ ahead' = [u \in Threads |-> IF u = t THEN {} ELSE ahead[u] \ {t}]

(* Variant with a bug: the gate is not taken.                              *)
TakeGate_Skip(t, gate, to) ==
  /\ Go(t, gate, to)
  /\ Admit(t)
  /\ UNCHANGED <<readMutex, rcntMutex, writeMutex, nReaders>>

(* pthread_mutex_lock gives the mutex to any thread that asks for it, one  *)
(* just arriving or one of the suspended.                                  *)
TakeGate(t, gate, to) ==
  /\ ~readMutex
  /\ Go(t, gate, to)
  /\ readMutex' = TRUE
  /\ Admit(t)
  /\ UNCHANGED <<rcntMutex, writeMutex, nReaders>>

LeaveGate(t, from, to) ==
  /\ Go(t, from, to)
  /\ readMutex' = FALSE
  /\ UNCHANGED <<rcntMutex, writeMutex, nReaders, gateVars>>

(* read_lock: claims the counter, ...                                      *)
TakeCounter(t, from, to) ==
  /\ ~rcntMutex
  /\ Go(t, from, to)
  /\ rcntMutex' = TRUE
  /\ UNCHANGED <<readMutex, writeMutex, nReaders, gateVars>>

(* Variant with a bug: the reader does not look at the counter.            *)
FirstReader_Never(t) ==
  /\ Go(t, "r_first", "r_count")
  /\ UNCHANGED <<readMutex, rcntMutex, writeMutex, nReaders, gateVars>>

(* ... the first reader waits for the writer to leave, ...                 *)
FirstReader(t) ==
  /\ Go(t, "r_first", "r_count")
  /\ \/ nReaders = 0 /\ ~writeMutex /\ writeMutex' = TRUE
     \/ nReaders # 0 /\ UNCHANGED writeMutex
  /\ UNCHANGED <<readMutex, rcntMutex, nReaders, gateVars>>

(* ... and counts itself.                                                  *)
CountReader(t) ==
  /\ Go(t, "r_count", "r_pass")
  /\ nReaders' = nReaders + 1
  /\ rcntMutex' = FALSE
  /\ UNCHANGED <<readMutex, writeMutex, gateVars>>

(* Variants with a bug: every reader that leaves lets a writer in; it does *)
(* not give the counter back.                                              *)
UncountReader_Always(t) ==
  /\ Go(t, "u_count", "u_done")
  /\ nReaders' = nReaders - 1
  /\ writeMutex' = FALSE
  /\ UNCHANGED <<readMutex, rcntMutex, gateVars>>

LeaveCounter_Forget(t) ==
  /\ Go(t, "u_done", "idle")
  /\ UNCHANGED <<readMutex, rcntMutex, writeMutex, nReaders, gateVars>>

(* read_unlock: the last reader lets a writer in.                          *)
UncountReader(t) ==
  /\ Go(t, "u_count", "u_done")
  /\ nReaders' = nReaders - 1
  /\ writeMutex' = (writeMutex /\ nReaders # 1)
  /\ UNCHANGED <<readMutex, rcntMutex, gateVars>>

LeaveCounter(t) ==
  /\ Go(t, "u_done", "idle")
  /\ rcntMutex' = FALSE
  /\ UNCHANGED <<readMutex, writeMutex, nReaders, gateVars>>

(* write_lock waits at the gate for the readers to leave, and keeps it.    *)
TakeWrite(t) ==
  /\ ~writeMutex
  /\ Go(t, "w_write", "writing")
  /\ writeMutex' = TRUE
  /\ UNCHANGED <<readMutex, rcntMutex, nReaders, gateVars>>

(* write_unlock: _write_mutex first, then the gate.                        *)
LeaveWrite(t) ==
  /\ Go(t, "writing", "w_pass")
  /\ writeMutex' = FALSE
  /\ UNCHANGED <<readMutex, rcntMutex, nReaders, gateVars>>

(* The thread has read, and calls read_unlock.                             *)
CallReadUnlock(t) ==
  /\ Go(t, "reading", "u_rcnt")
  /\ UNCHANGED <<readMutex, rcntMutex, writeMutex, nReaders, gateVars>>

-----------------------------------------------------------------------------
ReadLock(t) ==
  \/ TakeGate(t, "r_gate", "r_rcnt")
  \/ TakeCounter(t, "r_rcnt", "r_first")
  \/ FirstReader(t)
  \/ CountReader(t)
  \/ LeaveGate(t, "r_pass", "reading")

ReadUnlock(t) ==
  \/ CallReadUnlock(t)
  \/ TakeCounter(t, "u_rcnt", "u_count")
  \/ UncountReader(t)
  \/ LeaveCounter(t)

WriteLock(t) == TakeGate(t, "w_gate", "w_write") \/ TakeWrite(t)

WriteUnlock(t) == LeaveWrite(t) \/ LeaveGate(t, "w_pass", "idle")

Next ==
  \E t \in Threads :
    \/ Call(t, "r_gate") \/ Call(t, "w_gate") \/ Suspend(t)
    \/ ReadLock(t) \/ ReadUnlock(t) \/ WriteLock(t) \/ WriteUnlock(t)

Spec == Init /\ [][Next]_vars

(* A thread that can go on does: the scheduler runs it, and the code it    *)
(* runs with the lock held comes to an end.  Nothing is assumed of the     *)
(* choice a mutex makes among the threads that wait for it, and a thread   *)
(* need not call the lock.                                                 *)
FairSpec ==
  Spec /\ \A t \in Threads :
            WF_vars(ReadLock(t) \/ ReadUnlock(t) \/ WriteLock(t) \/ WriteUnlock(t))

-----------------------------------------------------------------------------
Has(t, locations) == pc[t] \in locations

GateSection == {"r_rcnt", "r_first", "r_count", "r_pass", "w_write", "writing", "w_pass"}
CounterSection == {"r_first", "r_count", "u_count", "u_done"}

(* Readers from the moment they are counted until they are no more.        *)
CountedSection == {"r_pass", "reading", "u_rcnt", "u_count"}
Counted == {t \in Threads : Has(t, CountedSection)}

TypeOK ==
  /\ readMutex \in BOOLEAN /\ rcntMutex \in BOOLEAN /\ writeMutex \in BOOLEAN
  /\ nReaders \in Nat
  /\ pc \in [Threads -> Locations]
  /\ suspended \subseteq Threads
  /\ ahead \in [Threads -> SUBSET Threads]

(* A mutex is locked exactly when a thread is in the section it guards,    *)
(* and then by one thread.                                                 *)
Guards(mutex, section) ==
  /\ mutex <=> \E t \in Threads : Has(t, section)
  /\ \A t, u \in Threads : Has(t, section) /\ Has(u, section) => t = u

(* When a writer is active there is no other writer and no reader.         *)
Exclusion ==
  \A t, u \in Threads :
    pc[t] = "writing" /\ u # t => pc[u] \notin {"writing", "reading"}

(* _n_readers is the number of readers that have been let in and have not  *)
(* left, and _write_mutex is locked as long as there is one or a writer.   *)
CountIsReaders == nReaders = Cardinality(Counted)
WriteMutexHeld == 
  writeMutex <=> \E t \in Threads : Has(t, CountedSection \cup {"r_count", "writing"})

WriterAlone ==
  \A t, u \in Threads :
    pc[t] = "writing" /\ u # t => ~Has(u, CountedSection \cup {"r_count", "writing"})

(* The inductive invariant: the two mutexes that are locked and unlocked   *)
(* by one thread guard their sections, the counter counts, _write_mutex is *)
(* locked for whoever needs it, and a writer has the lock for itself.      *)
IInv ==
  /\ TypeOK
  /\ Guards(readMutex, GateSection)
  /\ Guards(rcntMutex, CounterSection)
  /\ CountIsReaders
  /\ WriteMutexHeld
  /\ WriterAlone

(* No reader starts to read while a writer waits at the gate: a writer is  *)
(* not starved by readers that come after it.                              *)
NoReaderPassesWriter ==
  [][(\E w \in Threads : pc[w] = "w_write") =>
       \A t \in Threads : pc'[t] = "r_pass" => pc[t] = "r_pass"]_vars

(* A thread that is through the gate is granted the access it asked for,   *)
(* although no mutex is fair: whoever could keep it from one is inside     *)
(* already, and leaves.                                                    *)
GateLeadsToAccess ==
  \A t \in Threads :
    /\ pc[t] = "w_write" ~> pc[t] = "writing"
    /\ pc[t] = "r_rcnt" ~> pc[t] = "reading"

(* The lock implements the one its header describes: a thread enters when  *)
(* it takes the gate, a reader is active while it is counted, a writer     *)
(* until it unlocks _write_mutex.                                          *)
TheOne(S) == IF S = {} THEN NoThread ELSE CHOOSE t \in Threads : t \in S

EnteringThreads == {t \in Threads : Has(t, {"r_rcnt", "r_first", "r_count", "w_write"})}
WritingThreads == {t \in Threads : pc[t] = "writing"}

RW == INSTANCE ReadersWriters WITH
        entering <- TheOne(EnteringThreads),
        readers <- Counted,
        writer <- TheOne(WritingThreads)

ImplementsReadersWriters == RW!RWSpec

(* "Access is granted on a first-come first-serve basis."                  *)
(* synchronized_rw.hh.  A thread passes the gate before one that was       *)
(* suspended there when it came only if both come to read.                 *)
FirstComeFirstServed ==
  [][\A t \in Threads :
       pc[t] \in {"r_gate", "w_gate"} /\ pc'[t] # pc[t] =>
         \A u \in ahead[t] : pc[t] = "r_gate" /\ pc[u] = "r_gate"]_vars
=============================================================================
