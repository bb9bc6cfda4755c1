----------------------------- MODULE Semaphore -----------------------------
(***************************************************************************)
(* The counting semaphore of the gPb library, semphore.cc, and the threads *)
(* that use it.                                                            *)
(*                                                                         *)
(* The semaphore is a value and two mutexes: _value_mutex makes each       *)
(* change of the value atomic, and _access_mutex stays locked while the    *)
(* value is zero.  A thread that acquires holds _access_mutex from before  *)
(* it decrements the value until it has seen that some is left; when none  *)
(* is, it leaves it locked, and the release that makes the value positive  *)
(* unlocks it.  A step goes from one use of _access_mutex to the next.     *)
(***************************************************************************)
EXTENDS ThreadSteps, Naturals, FiniteSets

CONSTANTS
  Initial,   (* the value the semaphore is made with *)
  MaxAmount, (* bound: what one call acquires or releases *)
  MaxValue   (* bound: releases that would exceed it are not called *)

ASSUME SemaphoreAssumption ==
  /\ Initial \in Nat /\ MaxAmount \in Nat /\ MaxValue \in Nat
  /\ Initial <= MaxValue

VARIABLES
  value,
  accessMutex,  (* TRUE when locked *)
  left,         (* left[t]: how many more times acquire(n) is to acquire *)
  unlock        (* unlock[t]: the local variable `unlock' *)

semVars == <<value, accessMutex, pc, left, unlock>>

SemLocations == {"idle", "acquire", "decrement", "acquired", "released"}

(* Both constructors lock the semaphore when its value is zero.            *)
SemInit ==
  /\ value = Initial
  /\ accessMutex = (Initial = 0)
  /\ pc = [t \in Threads |-> "idle"]
  /\ left = [t \in Threads |-> 0]
  /\ unlock = [t \in Threads |-> FALSE]

-----------------------------------------------------------------------------
(* acquire(n) is n times acquire().                                        *)
CallAcquire(t, n) ==
  /\ Go(t, "idle", IF n = 0 THEN "idle" ELSE "acquire")
  /\ left' = [left EXCEPT ![t] = n]
  /\ UNCHANGED <<value, accessMutex, unlock>>

TakeAccess(t) ==
  /\ ~accessMutex
  /\ Go(t, "acquire", "decrement")
  /\ accessMutex' = TRUE
  /\ UNCHANGED <<value, left, unlock>>

(* Variant with a bug: the value is compared before it is decremented.     *)
Decrement_TestFirst(t) ==
  /\ Go(t, "decrement", "acquired")
  /\ value' = value - 1
  /\ unlock' = [unlock EXCEPT ![t] = value > 0]
  /\ left' = [left EXCEPT ![t] = @ - 1]
  /\ UNCHANGED accessMutex

Decrement(t) ==
  /\ Go(t, "decrement", "acquired")
  /\ value' = value - 1
  /\ unlock' = [unlock EXCEPT ![t] = value > 1]
  /\ left' = [left EXCEPT ![t] = @ - 1]
  /\ UNCHANGED accessMutex

LeaveAccess(t, from, to) ==
  /\ Go(t, from, to)
  /\ accessMutex' = (accessMutex /\ ~unlock[t])
  /\ unlock' = [unlock EXCEPT ![t] = FALSE]
  /\ UNCHANGED <<value, left>>

Acquired(t) == LeaveAccess(t, "acquired", IF left[t] = 0 THEN "idle" ELSE "acquire")

(* Variant with a bug: no release unlocks.                                 *)
Release_Never(t, n) ==
  /\ value + n <= MaxValue
  /\ Go(t, "idle", "released")
  /\ value' = value + n
  /\ UNCHANGED <<accessMutex, left, unlock>>

(* release(n); release() is release(1).                                    *)
Release(t, n) ==
  /\ value + n <= MaxValue
  /\ Go(t, "idle", "released")
  /\ value' = value + n
  /\ unlock' = [unlock EXCEPT ![t] = value = 0 /\ n > 0]
  /\ UNCHANGED <<accessMutex, left>>

Released(t) == LeaveAccess(t, "released", "idle")

-----------------------------------------------------------------------------
SemStep(t) == TakeAccess(t) \/ Decrement(t) \/ Acquired(t) \/ Released(t)

SemNext ==
  \E t \in Threads :
    \/ SemStep(t)
    \/ \E n \in 0..MaxAmount : CallAcquire(t, n) \/ Release(t, n)

SemSpec == SemInit /\ [][SemNext]_semVars

(* A thread that can go on does; it need not call the semaphore.           *)
SemFairSpec == SemSpec /\ \A t \in Threads : WF_semVars(SemStep(t))

-----------------------------------------------------------------------------
SemTypeOK ==
  /\ value \in Nat
  /\ accessMutex \in BOOLEAN
  /\ pc \in [Threads -> SemLocations]
  /\ left \in [Threads -> 0..MaxAmount]
  /\ unlock \in [Threads -> BOOLEAN]

(* The threads that are to unlock _access_mutex.                           *)
Holds(t) ==
  \/ pc[t] = "decrement"
  \/ pc[t] \in {"acquired", "released"} /\ unlock[t]

(* "Wait until the semaphore value is greater than 0, then decrement it":  *)
(* a thread that is about to decrement finds the value positive, whatever  *)
(* was acquired and released since it was let in.                          *)
NoUnderflow == \A t \in Threads : pc[t] = "decrement" => value > 0

(* At most one thread is to unlock _access_mutex, so no unlock is one too  *)
(* many, and then the value is positive.                                   *)
OneUnlocks ==
  /\ \A t, u \in Threads : Holds(t) /\ Holds(u) => t = u
  /\ \A t \in Threads : Holds(t) => accessMutex /\ value > 0

(* No wake-up is lost: when nobody is to unlock _access_mutex, it is       *)
(* locked exactly if the value is zero.                                    *)
LockedWhenZero ==
  (\A t \in Threads : ~Holds(t)) => (accessMutex <=> value = 0)

(* A thread inside acquire(n) has something left to acquire.               *)
LeftToAcquire == \A t \in Threads : pc[t] \in {"acquire", "decrement"} => left[t] > 0

SemIInv == SemTypeOK /\ LeftToAcquire /\ OneUnlocks /\ LockedWhenZero

(* What is released is acquired: when some is left and a thread waits for  *)
(* it, a thread gets it, or others have acquired all of it.                *)
AvailableIsAcquired ==
  (value > 0 /\ \E t \in Threads : pc[t] = "acquire")
    ~> (value = 0 \/ \E t \in Threads : pc[t] = "decrement")
=============================================================================
