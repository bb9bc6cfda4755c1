--------------------------- MODULE Synchronizable ---------------------------
(***************************************************************************)
(* Claiming two objects of the gPb library at once, synchronizable.cc.     *)
(* Every object has an identity that id_next issues; the functions that    *)
(* claim two objects claim the one with the smaller identity first, and    *)
(* only one when the identities are equal.                                 *)
(*                                                                         *)
(* The lock of an object is the one of ReadersWriters, which               *)
(* SynchronizedRW implements: a thread enters, is granted its access when  *)
(* the readers (for a writer) have left, and releases it.  An unsynchro-   *)
(* nized object has identity 0 and its lock functions do nothing.          *)
(***************************************************************************)
EXTENDS Naturals, FiniteSets

CONSTANTS
  Threads, NoThread,
  Objects,
  Unsynchronized,  (* those that need no lock *)
  IdLimit,         (* 2^w, w the width of an unsigned long *)
  NoId, NoOp

ASSUME SynchronizableAssumption ==
  /\ NoThread \notin Threads
  /\ Unsynchronized \subseteq Objects
  /\ IsFiniteSet(Objects)
  /\ IdLimit \in Nat /\ Cardinality(Objects \ Unsynchronized) < IdLimit
  /\ NoId \notin Nat

VARIABLES
  nextId,    (* the static variable of id_next *)
  id,        (* id[o], NoId until o is constructed *)
  entering,  (* entering[o]: the thread being let in, or NoThread *)
  readers,   (* readers[o] *)
  writer,    (* writer[o], or NoThread *)
  op,        (* op[t]: the call thread t is in, or NoOp *)
  pc         (* pc[t]: how far it is *)

lockVars == <<entering, readers, writer>>
vars == <<nextId, id, entering, readers, writer, op, pc>>

Kinds == {"lock", "read_lock", "write_lock", "read_write_lock"}
Operations == [kind : Kinds, s0 : Objects, s1 : Objects]
Locations == {"idle", "first", "first_in", "second", "second_in", "inside", "left"}

(* The counter starts at 1 and is anywhere once objects have come and gone. *)
Init ==
  /\ nextId \in 0..(IdLimit - 1)
  /\ id = [o \in Objects |-> NoId]
  /\ entering = [o \in Objects |-> NoThread]
  /\ readers = [o \in Objects |-> {}]
  /\ writer = [o \in Objects |-> NoThread]
  /\ op = [t \in Threads |-> NoOp]
  /\ pc = [t \in Threads |-> "idle"]

-----------------------------------------------------------------------------
(* The constructors.  id_next skips 0 when the counter wraps; the reserved *)
(* identity 0 is given to unsynchronized objects.                          *)
IdIssued == IF nextId = 0 THEN 1 ELSE nextId

Construct(o) ==
  /\ id[o] = NoId
  /\ IF o \in Unsynchronized
     THEN /\ id' = [id EXCEPT ![o] = 0]
          /\ UNCHANGED nextId
     ELSE /\ id' = [id EXCEPT ![o] = IdIssued]
          /\ nextId' = IF IdIssued + 1 = IdLimit THEN 0 ELSE IdIssued + 1
  /\ UNCHANGED <<lockVars, op, pc>>

-----------------------------------------------------------------------------
(* Which object is claimed first, and how each is claimed.                 *)
Same(c) == id[c.s0] = id[c.s1]

(* Variant with a bug: in the order of the arguments.                      *)
First_AsGiven(c) == c.s0

First(c) == IF id[c.s0] <= id[c.s1] THEN c.s0 ELSE c.s1
Second(c) == IF First(c) = c.s0 THEN c.s1 ELSE c.s0

Reads(c, o) ==
  \/ c.kind = "read_lock"
  \/ c.kind = "read_write_lock" /\ o = c.s0 /\ ~Same(c)

Call(t, c) ==
  /\ pc[t] = "idle"
  /\ id[c.s0] # NoId /\ id[c.s1] # NoId
  /\ op' = [op EXCEPT ![t] = c]
  /\ pc' = [pc EXCEPT ![t] = "first"]
  /\ UNCHANGED <<nextId, id, lockVars>>

(* The thread asks for object o: its lock functions do nothing when it is  *)
(* unsynchronized.                                                         *)
Enter(t, o, entered, granted) ==
  /\ IF o \in Unsynchronized
     THEN /\ pc' = [pc EXCEPT ![t] = granted]
          /\ UNCHANGED lockVars
     ELSE /\ entering[o] = NoThread /\ writer[o] = NoThread
          /\ entering' = [entering EXCEPT ![o] = t]
          /\ pc' = [pc EXCEPT ![t] = entered]
          /\ UNCHANGED <<readers, writer>>
  /\ UNCHANGED <<nextId, id, op>>

Grant(t, o, granted) ==
  /\ entering' = [entering EXCEPT ![o] = NoThread]
  /\ IF Reads(op[t], o)
     THEN /\ readers' = [readers EXCEPT ![o] = @ \cup {t}]
          /\ UNCHANGED writer
     ELSE /\ readers[o] = {}
          /\ writer' = [writer EXCEPT ![o] = t]
          /\ UNCHANGED readers
  /\ pc' = [pc EXCEPT ![t] = granted]
  /\ UNCHANGED <<nextId, id, op>>

AfterFirst(t) == IF Same(op[t]) THEN "inside" ELSE "second"

EnterFirst(t) == pc[t] = "first" /\ Enter(t, First(op[t]), "first_in", AfterFirst(t))
GrantFirst(t) == pc[t] = "first_in" /\ Grant(t, First(op[t]), AfterFirst(t))
EnterSecond(t) == pc[t] = "second" /\ Enter(t, Second(op[t]), "second_in", "inside")
GrantSecond(t) == pc[t] = "second_in" /\ Grant(t, Second(op[t]), "inside")

(* The unlock functions release s0, then s1 unless the identities are equal.*)
Release(t, o) ==
  IF o \in Unsynchronized THEN UNCHANGED lockVars
  ELSE /\ IF Reads(op[t], o)
          THEN /\ readers' = [readers EXCEPT ![o] = @ \ {t}]
               /\ UNCHANGED writer
          ELSE /\ writer' = [writer EXCEPT ![o] = NoThread]
               /\ UNCHANGED readers
       /\ UNCHANGED entering

Return(t) ==
  /\ pc' = [pc EXCEPT ![t] = "idle"]
  /\ op' = [op EXCEPT ![t] = NoOp]

Unlock(t) ==
  /\ pc[t] = "inside"
  /\ Release(t, op[t].s0)
  /\ IF Same(op[t]) THEN Return(t)
     ELSE /\ pc' = [pc EXCEPT ![t] = "left"]
          /\ UNCHANGED op
  /\ UNCHANGED <<nextId, id>>

(* Variant with a bug: the second object is forgotten.                     *)
UnlockSecond_Forget(t) ==
  /\ pc[t] = "left"
  /\ Return(t)
  /\ UNCHANGED <<nextId, id, lockVars>>

UnlockSecond(t) ==
  /\ pc[t] = "left"
  /\ Release(t, op[t].s1)
  /\ Return(t)
  /\ UNCHANGED <<nextId, id>>

-----------------------------------------------------------------------------
Step(t) ==
  \/ EnterFirst(t) \/ GrantFirst(t) \/ EnterSecond(t) \/ GrantSecond(t)
  \/ Unlock(t) \/ UnlockSecond(t)

Next ==
  \/ \E o \in Objects : Construct(o)
  \/ \E t \in Threads : Step(t) \/ \E c \in Operations : Call(t, c)

Spec == Init /\ [][Next]_vars

-----------------------------------------------------------------------------
TypeOK ==
  /\ nextId \in 0..(IdLimit - 1)
  /\ id \in [Objects -> 0..(IdLimit - 1) \cup {NoId}]
  /\ entering \in [Objects -> Threads \cup {NoThread}]
  /\ readers \in [Objects -> SUBSET Threads]
  /\ writer \in [Objects -> Threads \cup {NoThread}]
  /\ op \in [Threads -> Operations \cup {NoOp}]
  /\ pc \in [Threads -> Locations]

(* No two synchronized objects are taken for one and the same: the two-    *)
(* object functions never leave one of two objects unlocked.               *)
IdsDistinct ==
  \A o, p \in Objects \ Unsynchronized : o # p /\ id[o] # NoId => id[o] # id[p]

(* How long ago, in identities issued, the identity i was issued.          *)
Age(i) == IF i < IdIssued THEN IdIssued - i ELSE IdIssued - i + (IdLimit - 1)

Constructed == {o \in Objects \ Unsynchronized : id[o] # NoId}

(* An identity is issued again only after all others.                      *)
IdsOK ==
  /\ \A o \in Unsynchronized : id[o] \in {0, NoId}
  /\ \A o \in Constructed : id[o] > 0 /\ Age(id[o]) <= Cardinality(Constructed)
  /\ IdsDistinct

(* Calls name constructed objects, and get to the second only if there is  *)
(* one; nobody is let in by an unsynchronized object.                      *)
CallsOK ==
  \A t \in Threads : pc[t] # "idle" =>
    /\ op[t] \in Operations
    /\ id[op[t].s0] # NoId /\ id[op[t].s1] # NoId
    /\ pc[t] \in {"second", "second_in", "left"} => ~Same(op[t])
    /\ pc[t] = "first_in" => First(op[t]) \notin Unsynchronized
    /\ pc[t] = "second_in" => Second(op[t]) \notin Unsynchronized

(* What thread t has been granted and not released yet, and where it has   *)
(* entered, by how far its call is.                                        *)
Holds(t, o) ==
  \/ pc[t] \in {"second", "second_in"} /\ o = First(op[t])
  \/ pc[t] = "inside" /\ o \in {op[t].s0, op[t].s1}
  \/ pc[t] = "left" /\ o = op[t].s1

EntersAt(t, o) == \/ pc[t] = "first_in" /\ o = First(op[t])
                  \/ pc[t] = "second_in" /\ o = Second(op[t])

(* The locks are what the calls say.                                       *)
LocksOK ==
  /\ \A o \in Unsynchronized :
       entering[o] = NoThread /\ writer[o] = NoThread /\ readers[o] = {}
  /\ \A o \in Objects : entering[o] # NoThread => writer[o] = NoThread
  /\ \A t \in Threads, o \in Objects \ Unsynchronized :
       /\ entering[o] = t <=> EntersAt(t, o)
       /\ t \in readers[o] <=> Holds(t, o) /\ Reads(op[t], o)
       /\ writer[o] = t <=> Holds(t, o) /\ ~Reads(op[t], o)

(* The inductive invariant.                                                *)
IInv == TypeOK /\ IdsOK /\ CallsOK /\ LocksOK

HasLock(t, o) == t \in readers[o] \/ writer[o] = t

(* The object whose lock thread t is waiting for, as a set.                *)
Wanted(t) ==
  CASE pc[t] \in {"first", "first_in"}   -> {First(op[t])}
    [] pc[t] \in {"second", "second_in"} -> {Second(op[t])}
    [] OTHER                             -> {}

(* t cannot go on before u does: u is ahead of it at an object.            *)
WaitsFor(t, u) ==
  \E o \in Wanted(t) :
    \/ pc[t] \in {"first", "second"} /\ u \in {entering[o], writer[o]}
    \/ pc[t] \in {"first_in", "second_in"} /\ ~Reads(op[t], o) /\ u \in readers[o]

(* Threads that claim pairs of objects, in whatever order they name them   *)
(* and to read or to write, never wait for each other in a circle.         *)
NoCircularWait ==
  \A S \in (SUBSET Threads) \ {{}} : \E t \in S : \A u \in S : ~WaitsFor(t, u)

(* A thread that has returned holds nothing, and one that has what it      *)
(* asked for holds what it will release.                                   *)
HoldsWhatItAskedFor ==
  \A t \in Threads, o \in Objects \ Unsynchronized :
    /\ pc[t] = "idle" => ~HasLock(t, o) /\ entering[o] # t
    /\ pc[t] = "inside" =>
         /\ o \in {op[t].s0, op[t].s1} <=> HasLock(t, o)
         /\ HasLock(t, o) => (t \in readers[o] <=> Reads(op[t], o))
=============================================================================
