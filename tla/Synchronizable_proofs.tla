----------------------- MODULE Synchronizable_proofs -----------------------
(* Proofs for claims of two objects, for any threads, objects and width of   *)
(* the identity counter: the locks are at all times what the calls under way *)
(* say, and threads wait along growing identities, so never in a circle.     *)
EXTENDS Synchronizable, FiniteSums

(* A constructed object has a number for its identity, and the first of the  *)
(* two objects of a call has the smaller one unless there is only one.       *)
LEMMA CallFacts ==
  ASSUME IInv, NEW t \in Threads, pc[t] # "idle"
  PROVE  /\ op[t] \in Operations /\ op[t].s0 \in Objects /\ op[t].s1 \in Objects
         /\ First(op[t]) \in {op[t].s0, op[t].s1}
         /\ Second(op[t]) \in {op[t].s0, op[t].s1}
         /\ id[op[t].s0] \in Nat /\ id[op[t].s1] \in Nat
         /\ Same(op[t]) => First(op[t]) = op[t].s0
         /\ ~Same(op[t]) => /\ id[First(op[t])] < id[Second(op[t])]
                            /\ {First(op[t]), Second(op[t])} = {op[t].s0, op[t].s1}
                            /\ op[t].s0 # op[t].s1
<1>1. /\ op[t] \in Operations /\ op[t].s0 \in Objects /\ op[t].s1 \in Objects
      /\ id[op[t].s0] # NoId /\ id[op[t].s1] # NoId
  BY DEF IInv, CallsOK, Operations
<1>2. id[op[t].s0] \in Nat /\ id[op[t].s1] \in Nat
  BY <1>1, SynchronizableAssumption DEF IInv, TypeOK
<1> QED
  BY <1>1, <1>2 DEF Same, First, Second

(* Equal identities are those of one object, or of two that need no lock.    *)
LEMMA SameObject ==
  ASSUME IInv, NEW t \in Threads, pc[t] # "idle", Same(op[t]),
         NEW o \in Objects \ Unsynchronized, o \in {op[t].s0, op[t].s1}
  PROVE  op[t].s0 = op[t].s1
<1>1. op[t].s0 \in Objects /\ op[t].s1 \in Objects /\ id[op[t].s0] = id[op[t].s1]
      /\ id[op[t].s0] # NoId
  BY CallFacts DEF Same, IInv, CallsOK
<1>2. o \in Constructed /\ id[o] # NoId /\ id[o] > 0
  BY <1>1 DEF IInv, IdsOK, Constructed
<1>3. op[t].s0 \notin Unsynchronized /\ op[t].s1 \notin Unsynchronized
  BY <1>1, <1>2 DEF IInv, IdsOK
<1> QED
  BY <1>1, <1>3 DEF IInv, IdsOK, IdsDistinct

LEMMA IdsKept == IInv /\ UNCHANGED <<nextId, id>> => IdsOK'
BY DEF IInv, IdsOK, Constructed, Age, IdIssued, IdsDistinct

LEMMA Initially == Init => IInv
<1> SUFFICES ASSUME Init PROVE IInv
  OBVIOUS
<1> USE SynchronizableAssumption
<1>1. TypeOK
  BY DEF Init, TypeOK, Locations
<1>2. IdsOK
  BY DEF Init, IdsOK, Constructed, IdsDistinct
<1>3. CallsOK
  BY DEF Init, CallsOK
<1>4. LocksOK
  BY DEF Init, LocksOK, Holds, EntersAt
<1> QED
  BY <1>1, <1>2, <1>3, <1>4 DEF IInv
-----------------------------------------------------------------------------
(* Constructing another object changes nothing of a call.                    *)
LEMMA ConstructKeepsCalls ==
  ASSUME IInv, NEW o \in Objects, Construct(o) PROVE CallsOK' /\ LocksOK'
<1> USE SynchronizableAssumption
<1>1. /\ id[o] = NoId /\ \A p \in Objects : p # o => id'[p] = id[p]
      /\ UNCHANGED <<entering, readers, writer, op, pc>>
  BY DEF IInv, TypeOK, Construct, lockVars
<1>2. ASSUME NEW t \in Threads, pc[t] # "idle"
      PROVE  /\ id'[op[t].s0] = id[op[t].s0] /\ id'[op[t].s1] = id[op[t].s1]
             /\ Same(op[t])' = Same(op[t])
             /\ First(op[t])' = First(op[t]) /\ Second(op[t])' = Second(op[t])
             /\ \A p : Reads(op[t], p)' = Reads(op[t], p)
  <2>1. id'[op[t].s0] = id[op[t].s0] /\ id'[op[t].s1] = id[op[t].s1]
    BY <1>1, <1>2, CallFacts DEF IInv, CallsOK
  <2> QED
    BY <1>1, <2>1 DEF Same, First, Second, Reads
<1>3. CallsOK'
  BY <1>1, <1>2 DEF IInv, CallsOK
<1>4. ASSUME NEW t \in Threads, NEW p \in Objects \ Unsynchronized
      PROVE  /\ Holds(t, p)' <=> Holds(t, p)
             /\ EntersAt(t, p)' <=> EntersAt(t, p)
             /\ pc[t] # "idle" => (Reads(op[t], p)' <=> Reads(op[t], p))
  BY <1>1, <1>2 DEF Holds, EntersAt
<1>5. \A t \in Threads, p \in Objects \ Unsynchronized :
        Holds(t, p) => pc[t] # "idle"
  BY DEF Holds
<1>6. LocksOK'
  BY <1>1, <1>4, <1>5 DEF IInv, LocksOK
<1> QED
  BY <1>3, <1>6

LEMMA ConstructStep == ASSUME IInv, NEW o \in Objects, Construct(o) PROVE IInv'
<1> USE SynchronizableAssumption
<1>1. CASE o \in Unsynchronized
  <2>1. id' = [id EXCEPT ![o] = 0] /\ UNCHANGED <<nextId, lockVars, op, pc>>
    BY <1>1 DEF Construct
  <2>2. \A p \in Objects \ Unsynchronized : id'[p] = id[p]
    BY <1>1, <2>1 DEF IInv, TypeOK
  <2>3. Constructed' = Constructed
    BY <2>2 DEF Constructed
  <2>4. TypeOK'
    BY <2>1 DEF IInv, TypeOK, lockVars
  <2>5. /\ IdsDistinct'
        /\ \A p \in Unsynchronized : id'[p] \in {0, NoId}
        /\ \A i : Age(i)' = Age(i)
    BY <2>1, <2>2 DEF IInv, TypeOK, IdsOK, IdsDistinct, Age, IdIssued
  <2>6. IdsOK'
    BY <2>2, <2>3, <2>5 DEF IInv, IdsOK, Constructed
  <2> QED
    BY <2>4, <2>6, ConstructKeepsCalls DEF IInv
<1>2. CASE o \notin Unsynchronized
  <2>0. PICK issued : issued = IdIssued
    OBVIOUS
  <2>1. /\ id[o] = NoId /\ id' = [id EXCEPT ![o] = issued]
        /\ nextId' = IF issued + 1 = IdLimit THEN 0 ELSE issued + 1
        /\ UNCHANGED <<lockVars, op, pc>>
    BY <1>2, <2>0 DEF Construct
  <2>2. IsFiniteSet(Objects \ Unsynchronized) /\ IsFiniteSet(Constructed)
    BY FS_Subset DEF Constructed
  <2>3. o \notin Constructed /\ Constructed' = Constructed \union {o}
    <3>1. issued # NoId
      BY <2>0 DEF IdIssued, IInv, TypeOK
    <3> QED
      BY <1>2, <2>1, <3>1 DEF Constructed, IInv, TypeOK
  <2>4. /\ Cardinality(Constructed) \in Nat
        /\ Cardinality(Constructed') = Cardinality(Constructed) + 1
        /\ IsFiniteSet(Constructed')
    BY <2>2, <2>3, FS_AddElement, FS_CardinalityType
  <2>5. Cardinality(Constructed) + 1 < IdLimit
    <3>1. Constructed' \subseteq Objects \ Unsynchronized
      BY DEF Constructed
    <3> QED
      BY <2>2, <2>4, <3>1, FS_Subset, FS_CardinalityType
  <2>6. issued \in 1 .. IdLimit - 1
    BY <2>0, <2>4, <2>5 DEF IdIssued, IInv, TypeOK
  <2>7. \A p \in Constructed : /\ id[p] \in 1 .. IdLimit - 1
                               /\ Age(id[p]) <= Cardinality(Constructed)
    BY DEF IInv, IdsOK, TypeOK, Constructed
  <2>8. \A p \in Constructed : id[p] # issued
    BY <2>0, <2>4, <2>5, <2>6, <2>7 DEF Age
  <2>9. TypeOK'
    BY <2>1, <2>6 DEF IInv, TypeOK, lockVars
  <2>10. IdIssued' = IF issued = IdLimit - 1 THEN 1 ELSE issued + 1
    BY <2>1, <2>6 DEF IdIssued
  <2>11. ASSUME NEW i \in 1 .. IdLimit - 1, i # issued PROVE Age(i)' = Age(i) + 1
    <3>1. Age(i) = IF i < issued THEN issued - i ELSE issued - i + (IdLimit - 1)
      BY <2>0 DEF Age
    <3>2. Age(i)' = IF i < IdIssued' THEN IdIssued' - i ELSE IdIssued' - i + (IdLimit - 1)
      BY DEF Age
    <3> QED
      BY <2>6, <2>10, <2>11, <3>1, <3>2
  <2>12. Age(issued)' = 1
    <3>1. Age(issued)' = IF issued < IdIssued' THEN IdIssued' - issued
                                               ELSE IdIssued' - issued + (IdLimit - 1)
      BY DEF Age
    <3> QED
      BY <2>6, <2>10, <3>1
  <2>13. id'[o] = issued /\ \A p \in Objects : p # o => id'[p] = id[p]
    BY <2>1 DEF IInv, TypeOK
  <2>14. IdsDistinct'
    <3> SUFFICES ASSUME NEW p \in Objects \ Unsynchronized, NEW q \in Objects \ Unsynchronized,
                        p # q, id'[p] # NoId
                 PROVE  id'[p] # id'[q]
      BY DEF IdsDistinct
    <3> QED
      BY <2>6, <2>8, <2>13 DEF Constructed, IInv, IdsOK, IdsDistinct
  <2>15. \A p \in Constructed' : id'[p] > 0 /\ Age(id[p])' <= Cardinality(Constructed')
    <3> SUFFICES ASSUME NEW p \in Constructed'
                 PROVE  id'[p] > 0 /\ Age(id[p])' <= Cardinality(Constructed')
      OBVIOUS
    <3>1. CASE p = o
      <4>1. Age(id[p])' = 1
        BY <3>1, <2>12, <2>13 DEF Age
      <4> QED
        BY <3>1, <4>1, <2>4, <2>6, <2>13
    <3>2. CASE p # o
      <4>1. PICK i : i = id[p]
        OBVIOUS
      <4>2. p \in Constructed /\ id'[p] = i
        BY <3>2, <4>1, <2>3, <2>13 DEF Constructed
      <4>3. i \in 1 .. IdLimit - 1 /\ i # issued /\ Age(i) <= Cardinality(Constructed)
        BY <4>1, <4>2, <2>7, <2>8
      <4>4. Age(id[p])' = Age(i)' /\ Age(i)' = Age(i) + 1
        BY <4>2, <4>3, <2>11 DEF Age
      <4>5. Age(i) \in Int
        BY <4>3, <2>0, <2>6 DEF Age
      <4> QED
        BY <4>2, <4>3, <4>4, <4>5, <2>4
    <3> QED
      BY <3>1, <3>2
  <2>16. \A p \in Unsynchronized : id'[p] \in {0, NoId}
    BY <1>2, <2>13 DEF IInv, IdsOK
  <2>17. IdsOK'
    BY <2>14, <2>15, <2>16 DEF IdsOK
  <2> QED
    BY <2>9, <2>17, ConstructKeepsCalls DEF IInv
<1> QED
  BY <1>1, <1>2
-----------------------------------------------------------------------------
(* A step of one thread leaves what the others hold and where they enter.    *)
LEMMA OthersKept ==
  ASSUME NEW t \in Threads, NEW u \in Threads, UNCHANGED id,
         pc'[u] = pc[u], op'[u] = op[u]
  PROVE  \A o : /\ Holds(u, o)' <=> Holds(u, o)
                /\ EntersAt(u, o)' <=> EntersAt(u, o)
                /\ Reads(op[u], o)' <=> Reads(op[u], o)
BY DEF Holds, EntersAt, Reads, First, Second, Same

LEMMA CallStep ==
  ASSUME IInv, NEW t \in Threads, NEW c \in Operations, Call(t, c) PROVE IInv'
<1>1. /\ pc[t] = "idle" /\ pc' = [pc EXCEPT ![t] = "first"] /\ op' = [op EXCEPT ![t] = c]
      /\ id[c.s0] # NoId /\ id[c.s1] # NoId
      /\ UNCHANGED <<nextId, id, entering, readers, writer>>
  BY DEF Call, lockVars
<1>2. /\ pc'[t] = "first" /\ op'[t] = c
      /\ \A u \in Threads : u # t => pc'[u] = pc[u] /\ op'[u] = op[u]
  BY <1>1 DEF IInv, TypeOK
<1>3. TypeOK'
  BY <1>1 DEF IInv, TypeOK, Locations
<1>4. CallsOK'
  BY <1>1, <1>2 DEF IInv, CallsOK, Same, First, Second
<1>5. LocksOK'
  <2>1. \A o : ~Holds(t, o) /\ ~EntersAt(t, o) /\ ~Holds(t, o)' /\ ~EntersAt(t, o)'
    BY <1>1, <1>2 DEF Holds, EntersAt
  <2>2. \A u \in Threads, o \in Objects : u # t =>
          /\ Holds(u, o)' <=> Holds(u, o)
          /\ EntersAt(u, o)' <=> EntersAt(u, o)
          /\ Reads(op[u], o)' <=> Reads(op[u], o)
    BY <1>1, <1>2, OthersKept
  <2> QED
    BY <1>1, <2>1, <2>2 DEF IInv, LocksOK
<1> QED
  BY <1>1, <1>3, <1>4, <1>5, IdsKept DEF IInv

(* What a step of thread t that only moves it along leaves alone.            *)
LEMMA Moved ==
  ASSUME IInv, NEW t \in Threads, NEW l \in Locations,
         pc' = [pc EXCEPT ![t] = l], UNCHANGED <<nextId, id, op>>
  PROVE  /\ pc' \in [Threads -> Locations] /\ pc'[t] = l
         /\ \A u \in Threads : u # t => pc'[u] = pc[u]
         /\ \A u \in Threads, o \in Objects : u # t =>
              /\ Holds(u, o)' <=> Holds(u, o)
              /\ EntersAt(u, o)' <=> EntersAt(u, o)
         /\ \A u \in Threads : /\ Same(op[u])' = Same(op[u])
                               /\ First(op[u])' = First(op[u])
                               /\ Second(op[u])' = Second(op[u])
                               /\ \A o \in Objects : Reads(op[u], o)' <=> Reads(op[u], o)
<1>1. pc' \in [Threads -> Locations] /\ pc'[t] = l
      /\ \A u \in Threads : u # t => pc'[u] = pc[u]
  BY DEF IInv, TypeOK
<1>2. \A u \in Threads, o \in Objects : u # t =>
        (Holds(u, o)' <=> Holds(u, o)) /\ (EntersAt(u, o)' <=> EntersAt(u, o))
  BY <1>1, OthersKept
<1>3. \A u \in Threads : /\ Same(op[u])' = Same(op[u])
                         /\ First(op[u])' = First(op[u])
                         /\ Second(op[u])' = Second(op[u])
                         /\ \A o \in Objects : Reads(op[u], o)' <=> Reads(op[u], o)
  BY DEF Same, First, Second, Reads
<1> QED
  BY <1>1, <1>2, <1>3

(* The thread at an object that needs no lock: it is let through.            *)
LEMMA PassStep ==
  ASSUME IInv, NEW t \in Threads, NEW o \in Unsynchronized,
         \/ pc[t] = "first" /\ o = First(op[t]) /\ pc' = [pc EXCEPT ![t] = AfterFirst(t)]
         \/ pc[t] = "second" /\ o = Second(op[t]) /\ pc' = [pc EXCEPT ![t] = "inside"],
         UNCHANGED <<nextId, id, op, entering, readers, writer>>
  PROVE  IInv'
<1>1. PICK l \in {"inside", "second"} :
        /\ pc' = [pc EXCEPT ![t] = l]
        /\ l = IF pc[t] = "first" THEN AfterFirst(t) ELSE "inside"
  BY DEF AfterFirst
<1>2. l \in Locations
  BY <1>1 DEF Locations
<1>m. /\ pc' \in [Threads -> Locations] /\ pc'[t] = l
      /\ \A u \in Threads : u # t => pc'[u] = pc[u]
      /\ \A u \in Threads, p \in Objects : u # t =>
           (Holds(u, p)' <=> Holds(u, p)) /\ (EntersAt(u, p)' <=> EntersAt(u, p))
      /\ \A u \in Threads : /\ Same(op[u])' = Same(op[u])
                            /\ First(op[u])' = First(op[u])
                            /\ Second(op[u])' = Second(op[u])
                            /\ \A p \in Objects : Reads(op[u], p)' <=> Reads(op[u], p)
  BY <1>1, <1>2, Moved
<1>3. TypeOK'
  BY <1>m DEF IInv, TypeOK
<1>4. CallsOK'
  BY <1>1, <1>m DEF IInv, CallsOK, AfterFirst
<1>5. ASSUME NEW p \in Objects \ Unsynchronized
      PROVE  (Holds(t, p)' <=> Holds(t, p)) /\ (EntersAt(t, p)' <=> EntersAt(t, p))
  <2>1. pc[t] # "idle" /\ p # o /\ op'[t] = op[t]
    OBVIOUS
  <2>2. CASE pc[t] = "first" /\ Same(op[t])
    <3>1. p \notin {op[t].s0, op[t].s1}
      BY <2>1, <2>2, SameObject, CallFacts
    <3> QED
      BY <2>1, <2>2, <3>1, <1>1, <1>m DEF Holds, EntersAt, AfterFirst
  <2>3. CASE pc[t] = "first" /\ ~Same(op[t])
    BY <2>1, <2>3, <1>1, <1>m DEF Holds, EntersAt, AfterFirst
  <2>4. CASE pc[t] = "second"
    <3>1. {First(op[t]), Second(op[t])} = {op[t].s0, op[t].s1}
      BY <2>1, <2>4, CallFacts DEF IInv, CallsOK
    <3> QED
      BY <2>1, <2>4, <3>1, <1>1, <1>m DEF Holds, EntersAt
  <2> QED
    BY <2>2, <2>3, <2>4
<1>6. LocksOK'
  BY <1>5, <1>m DEF IInv, LocksOK
<1> QED
  BY <1>3, <1>4, <1>6, IdsKept DEF IInv

(* The thread enters an object, which is nobody's else.                      *)
LEMMA EntryStep ==
  ASSUME IInv, NEW t \in Threads, NEW o \in Objects \ Unsynchronized, NEW l,
         \/ pc[t] = "first" /\ o = First(op[t]) /\ l = "first_in"
         \/ pc[t] = "second" /\ o = Second(op[t]) /\ l = "second_in",
         entering[o] = NoThread, writer[o] = NoThread,
         entering' = [entering EXCEPT ![o] = t], pc' = [pc EXCEPT ![t] = l],
         UNCHANGED <<nextId, id, op, readers, writer>>
  PROVE  IInv'
<1> USE SynchronizableAssumption
<1>2. l \in Locations
  BY DEF Locations
<1>m. /\ pc' \in [Threads -> Locations] /\ pc'[t] = l
      /\ \A u \in Threads : u # t => pc'[u] = pc[u]
      /\ \A u \in Threads, p \in Objects : u # t =>
           (Holds(u, p)' <=> Holds(u, p)) /\ (EntersAt(u, p)' <=> EntersAt(u, p))
      /\ \A u \in Threads : /\ Same(op[u])' = Same(op[u])
                            /\ First(op[u])' = First(op[u])
                            /\ Second(op[u])' = Second(op[u])
                            /\ \A p \in Objects : Reads(op[u], p)' <=> Reads(op[u], p)
  BY <1>2, Moved
<1>3. TypeOK'
  BY <1>m DEF IInv, TypeOK
<1>4. CallsOK'
  BY <1>m DEF IInv, CallsOK
<1>5. \A p \in Objects \ Unsynchronized :
        /\ Holds(t, p)' <=> Holds(t, p)
        /\ ~EntersAt(t, p)
        /\ EntersAt(t, p)' <=> p = o
  BY <1>m DEF Holds, EntersAt
<1>6. entering'[o] = t /\ \A p \in Objects : p # o => entering'[p] = entering[p]
  BY DEF IInv, TypeOK
<1>7. LocksOK'
  BY <1>5, <1>6, <1>m DEF IInv, LocksOK
<1> QED
  BY <1>3, <1>4, <1>7, IdsKept DEF IInv

LEMMA EnterStep ==
  ASSUME IInv, NEW t \in Threads, EnterFirst(t) \/ EnterSecond(t) PROVE IInv'
<1>1. CASE EnterFirst(t)
  <2>1. First(op[t]) \in Objects
    BY <1>1, CallFacts DEF EnterFirst
  <2> QED
    BY <1>1, <2>1, PassStep, EntryStep DEF EnterFirst, Enter, lockVars
<1>2. CASE EnterSecond(t)
  <2>1. Second(op[t]) \in Objects
    BY <1>2, CallFacts DEF EnterSecond
  <2> QED
    BY <1>2, <2>1, PassStep, EntryStep DEF EnterSecond, Enter, lockVars
<1> QED
  BY <1>1, <1>2
-----------------------------------------------------------------------------
(* The thread is granted the object it has entered.                          *)
LEMMA GrantStep ==
  ASSUME IInv, NEW t \in Threads, GrantFirst(t) \/ GrantSecond(t) PROVE IInv'
<1> USE SynchronizableAssumption
<1>1. PICK o \in Objects \ Unsynchronized, l \in {"inside", "second"} :
        /\ Grant(t, o, l)
        /\ \/ pc[t] = "first_in" /\ o = First(op[t]) /\ l = AfterFirst(t)
           \/ pc[t] = "second_in" /\ o = Second(op[t]) /\ l = "inside"
  BY CallFacts DEF GrantFirst, GrantSecond, AfterFirst, IInv, CallsOK
<1>2. /\ l \in Locations /\ pc' = [pc EXCEPT ![t] = l] /\ UNCHANGED <<nextId, id, op>>
      /\ pc[t] # "idle"
  BY <1>1 DEF Locations, Grant
<1>m. /\ pc' \in [Threads -> Locations] /\ pc'[t] = l
      /\ \A u \in Threads : u # t => pc'[u] = pc[u]
      /\ \A u \in Threads, p \in Objects : u # t =>
           (Holds(u, p)' <=> Holds(u, p)) /\ (EntersAt(u, p)' <=> EntersAt(u, p))
      /\ \A u \in Threads : /\ Same(op[u])' = Same(op[u])
                            /\ First(op[u])' = First(op[u])
                            /\ Second(op[u])' = Second(op[u])
                            /\ \A p \in Objects : Reads(op[u], p)' <=> Reads(op[u], p)
  BY <1>2, Moved
<1>3. TypeOK'
  BY <1>1, <1>2, <1>m DEF IInv, TypeOK, Grant
<1>4. CallsOK'
  BY <1>1, <1>2, <1>m DEF IInv, CallsOK, AfterFirst
<1>5. EntersAt(t, o) /\ entering[o] = t /\ writer[o] = NoThread
  BY <1>1 DEF EntersAt, IInv, LocksOK
<1>6. ASSUME NEW p \in Objects \ Unsynchronized
      PROVE  /\ Holds(t, p)' <=> Holds(t, p) \/ p = o
             /\ EntersAt(t, p) <=> p = o
             /\ ~EntersAt(t, p)'
             /\ ~Holds(t, o)
  <2>1. CASE pc[t] = "first_in" /\ Same(op[t])
    <3>1. op[t].s0 = op[t].s1 /\ o = op[t].s0
      BY <1>1, <1>2, <2>1, SameObject, CallFacts
    <3> QED
      BY <2>1, <3>1, <1>1, <1>2, <1>m DEF Holds, EntersAt, AfterFirst
  <2>2. CASE pc[t] = "first_in" /\ ~Same(op[t])
    BY <2>2, <1>1, <1>2, <1>m DEF Holds, EntersAt, AfterFirst
  <2>3. CASE pc[t] = "second_in"
    <3>1. {First(op[t]), Second(op[t])} = {op[t].s0, op[t].s1} /\ First(op[t]) # Second(op[t])
      BY <1>2, <2>3, CallFacts DEF IInv, CallsOK
    <3> QED
      BY <2>3, <3>1, <1>1, <1>2, <1>m DEF Holds, EntersAt
  <2> QED
    BY <1>1, <2>1, <2>2, <2>3
<1>7. entering'[o] = NoThread /\ \A p \in Objects : p # o => entering'[p] = entering[p]
  BY <1>1 DEF Grant, IInv, TypeOK
<1>8. CASE Reads(op[t], o)
  <2>1. /\ writer' = writer /\ readers'[o] = readers[o] \cup {t}
        /\ \A p \in Objects : p # o => readers'[p] = readers[p]
    BY <1>1, <1>8 DEF Grant, IInv, TypeOK
  <2>2. LocksOK'
    BY <1>2, <1>5, <1>6, <1>7, <1>8, <1>m, <2>1 DEF IInv, LocksOK
  <2> QED
    BY <1>2, <1>3, <1>4, <2>2, IdsKept DEF IInv
<1>9. CASE ~Reads(op[t], o)
  <2>1. /\ readers' = readers /\ writer'[o] = t
        /\ \A p \in Objects : p # o => writer'[p] = writer[p]
    BY <1>1, <1>9 DEF Grant, IInv, TypeOK
  <2>2. LocksOK'
    BY <1>2, <1>5, <1>6, <1>7, <1>9, <1>m, <2>1 DEF IInv, LocksOK
  <2> QED
    BY <1>2, <1>3, <1>4, <2>2, IdsKept DEF IInv
<1> QED
  BY <1>8, <1>9
-----------------------------------------------------------------------------
(* Releasing an object the thread holds takes it from that thread alone.     *)
LEMMA Released ==
  ASSUME IInv, NEW t \in Threads, NEW o \in Objects, Release(t, o),
         o \notin Unsynchronized => Holds(t, o)
  PROVE  /\ entering' = entering
         /\ readers' \in [Objects -> SUBSET Threads]
         /\ writer' \in [Objects -> Threads \cup {NoThread}]
         /\ \A p \in Unsynchronized : writer'[p] = NoThread /\ readers'[p] = {}
         /\ \A p \in Objects : entering'[p] # NoThread => writer'[p] = NoThread
         /\ \A u \in Threads, p \in Objects \ Unsynchronized :
              /\ u \in readers'[p] <=> u \in readers[p] /\ ~(u = t /\ p = o)
              /\ writer'[p] = u <=> writer[p] = u /\ ~(u = t /\ p = o)
<1> USE SynchronizableAssumption
<1>1. CASE o \in Unsynchronized
  BY <1>1 DEF Release, lockVars, IInv, TypeOK, LocksOK
<1>2. CASE o \notin Unsynchronized /\ Reads(op[t], o)
  <2>1. /\ entering' = entering /\ writer' = writer
        /\ readers'[o] = readers[o] \ {t} /\ writer[o] # t
        /\ \A p \in Objects : p # o => readers'[p] = readers[p]
        /\ readers' \in [Objects -> SUBSET Threads]
    BY <1>2 DEF Release, IInv, TypeOK, LocksOK
  <2> QED
    BY <1>2, <2>1 DEF IInv, TypeOK, LocksOK
<1>3. CASE o \notin Unsynchronized /\ ~Reads(op[t], o)
  <2>1. /\ entering' = entering /\ readers' = readers
        /\ writer'[o] = NoThread /\ writer[o] = t /\ t \notin readers[o]
        /\ \A p \in Objects : p # o => writer'[p] = writer[p]
        /\ writer' \in [Objects -> Threads \cup {NoThread}]
    BY <1>3 DEF Release, IInv, TypeOK, LocksOK
  <2> QED
    BY <1>3, <2>1 DEF IInv, TypeOK, LocksOK
<1> QED
  BY <1>1, <1>2, <1>3

(* A call that returns has nothing left to release.                          *)
LEMMA ReturnStep ==
  ASSUME IInv, NEW t \in Threads, NEW o \in Objects,
         Release(t, o), Return(t), UNCHANGED <<nextId, id>>,
         o \notin Unsynchronized => Holds(t, o),
         \A p \in Objects \ Unsynchronized :
           ~EntersAt(t, p) /\ (Holds(t, p) => p = o)
  PROVE  IInv'
<1> USE SynchronizableAssumption
<1>1. /\ pc' \in [Threads -> Locations] /\ op' \in [Threads -> Operations \cup {NoOp}]
      /\ pc'[t] = "idle" /\ \A u \in Threads : u # t => pc'[u] = pc[u] /\ op'[u] = op[u]
  BY DEF Return, IInv, TypeOK, Locations
<1>2. /\ entering' = entering
      /\ readers' \in [Objects -> SUBSET Threads]
      /\ writer' \in [Objects -> Threads \cup {NoThread}]
      /\ \A p \in Unsynchronized : writer'[p] = NoThread /\ readers'[p] = {}
      /\ \A p \in Objects : entering'[p] # NoThread => writer'[p] = NoThread
      /\ \A u \in Threads, p \in Objects \ Unsynchronized :
           /\ u \in readers'[p] <=> u \in readers[p] /\ ~(u = t /\ p = o)
           /\ writer'[p] = u <=> writer[p] = u /\ ~(u = t /\ p = o)
  BY Released
<1>3. TypeOK'
  BY <1>1, <1>2 DEF IInv, TypeOK
<1>4. CallsOK'
  BY <1>1 DEF IInv, CallsOK, Same, First, Second
<1>5. \A p \in Objects : ~Holds(t, p)' /\ ~EntersAt(t, p)'
  BY <1>1 DEF Holds, EntersAt
<1>6. \A u \in Threads, p \in Objects : u # t =>
        /\ Holds(u, p)' <=> Holds(u, p)
        /\ EntersAt(u, p)' <=> EntersAt(u, p)
        /\ Reads(op[u], p)' <=> Reads(op[u], p)
  BY <1>1, OthersKept
<1>7. LocksOK'
  BY <1>2, <1>5, <1>6 DEF IInv, LocksOK
<1> QED
  BY <1>3, <1>4, <1>7, IdsKept DEF IInv

LEMMA UnlockStep == ASSUME IInv, NEW t \in Threads, Unlock(t) PROVE IInv'
<1> USE SynchronizableAssumption
<1>1. /\ pc[t] = "inside" /\ Release(t, op[t].s0) /\ UNCHANGED <<nextId, id>>
      /\ op[t].s0 \in Objects /\ op[t].s1 \in Objects
  BY CallFacts DEF Unlock
<1>2. \A p \in Objects : ~EntersAt(t, p) /\ (Holds(t, p) <=> p \in {op[t].s0, op[t].s1})
  BY <1>1 DEF Holds, EntersAt
<1>3. CASE Same(op[t])
  <2>1. \A p \in Objects \ Unsynchronized : Holds(t, p) => p = op[t].s0
    BY <1>1, <1>2, <1>3, SameObject
  <2> QED
    BY <1>1, <1>2, <1>3, <2>1, ReturnStep DEF Unlock
<1>4. CASE ~Same(op[t])
  <2>1. /\ "left" \in Locations /\ pc' = [pc EXCEPT ![t] = "left"]
        /\ UNCHANGED <<nextId, id, op>>
    BY <1>1, <1>4 DEF Unlock, Locations
  <2>m. /\ pc' \in [Threads -> Locations] /\ pc'[t] = "left"
        /\ \A u \in Threads : u # t => pc'[u] = pc[u]
        /\ \A u \in Threads, p \in Objects : u # t =>
             (Holds(u, p)' <=> Holds(u, p)) /\ (EntersAt(u, p)' <=> EntersAt(u, p))
        /\ \A u \in Threads : /\ Same(op[u])' = Same(op[u])
                              /\ First(op[u])' = First(op[u])
                              /\ Second(op[u])' = Second(op[u])
                              /\ \A p \in Objects : Reads(op[u], p)' <=> Reads(op[u], p)
    BY <2>1, Moved
  <2>2. /\ entering' = entering
        /\ readers' \in [Objects -> SUBSET Threads]
        /\ writer' \in [Objects -> Threads \cup {NoThread}]
        /\ \A p \in Unsynchronized : writer'[p] = NoThread /\ readers'[p] = {}
        /\ \A p \in Objects : entering'[p] # NoThread => writer'[p] = NoThread
        /\ \A u \in Threads, p \in Objects \ Unsynchronized :
             /\ u \in readers'[p] <=> u \in readers[p] /\ ~(u = t /\ p = op[t].s0)
             /\ writer'[p] = u <=> writer[p] = u /\ ~(u = t /\ p = op[t].s0)
    BY <1>1, <1>2, Released
  <2>3. TypeOK'
    BY <2>1, <2>m, <2>2 DEF IInv, TypeOK
  <2>4. CallsOK'
    BY <1>1, <1>4, <2>1, <2>m DEF IInv, CallsOK
  <2>5. op[t].s0 # op[t].s1
    BY <1>4 DEF Same
  <2>6. \A p \in Objects :
          /\ Holds(t, p)' <=> Holds(t, p) /\ p # op[t].s0
          /\ ~EntersAt(t, p)'
    BY <1>1, <1>2, <2>1, <2>m, <2>5 DEF Holds, EntersAt
  <2>7. LocksOK'
    BY <1>2, <2>1, <2>m, <2>2, <2>6 DEF IInv, LocksOK
  <2> QED
    BY <2>1, <2>3, <2>4, <2>7, IdsKept DEF IInv
<1> QED
  BY <1>3, <1>4

LEMMA UnlockSecondStep == ASSUME IInv, NEW t \in Threads, UnlockSecond(t) PROVE IInv'
<1>1. /\ pc[t] = "left" /\ Release(t, op[t].s1) /\ Return(t) /\ UNCHANGED <<nextId, id>>
      /\ op[t].s1 \in Objects
  BY CallFacts DEF UnlockSecond
<1>2. \A p \in Objects : ~EntersAt(t, p) /\ (Holds(t, p) <=> p = op[t].s1)
  BY <1>1 DEF Holds, EntersAt
<1> QED
  BY <1>1, <1>2, ReturnStep

LEMMA Inductive == IInv /\ [Next]_vars => IInv'
<1> SUFFICES ASSUME IInv, [Next]_vars PROVE IInv'
  OBVIOUS
<1>1. CASE \E o \in Objects : Construct(o)
  BY <1>1, ConstructStep
<1>2. CASE \E t \in Threads, c \in Operations : Call(t, c)
  BY <1>2, CallStep
<1>3. CASE \E t \in Threads : Step(t)
  BY <1>3, EnterStep, GrantStep, UnlockStep, UnlockSecondStep DEF Step
<1>4. CASE UNCHANGED vars
  <2>1. UNCHANGED <<nextId, id, entering, readers, writer, op, pc>>
    BY <1>4 DEF vars
  <2> QED
    BY <2>1 DEF IInv, TypeOK, IdsOK, Constructed, Age, IdIssued, IdsDistinct, CallsOK,
                LocksOK, Holds, EntersAt, Reads, First, Second, Same
<1> QED
  BY <1>1, <1>2, <1>3, <1>4 DEF Next

(* The locks are at all times what the calls under way say: an object is     *)
(* entered, read or written by the threads whose call is at that point, and  *)
(* no two synchronized objects share an identity.                            *)
THEOREM Invariance == Spec => []IInv
BY Initially, Inductive, PTL DEF Spec
-----------------------------------------------------------------------------
(* A thread inside holds what it asked for, to read or to write as it asked, *)
(* and one that has returned holds nothing and is in nobody's way.           *)
THEOREM AsksAndHolds == Spec => []HoldsWhatItAskedFor
<1>1. IInv => HoldsWhatItAskedFor
  <2> SUFFICES ASSUME IInv, NEW t \in Threads, NEW o \in Objects \ Unsynchronized
               PROVE  /\ pc[t] = "idle" => ~HasLock(t, o) /\ entering[o] # t
                      /\ pc[t] = "inside" =>
                           /\ o \in {op[t].s0, op[t].s1} <=> HasLock(t, o)
                           /\ HasLock(t, o) => (t \in readers[o] <=> Reads(op[t], o))
    BY DEF HoldsWhatItAskedFor
  <2>1. HasLock(t, o) <=> Holds(t, o)
    BY DEF HasLock, IInv, LocksOK
  <2>2. pc[t] = "idle" => ~Holds(t, o) /\ ~EntersAt(t, o)
    BY DEF Holds, EntersAt
  <2>3. pc[t] = "inside" => (o \in {op[t].s0, op[t].s1} <=> Holds(t, o))
    BY DEF Holds
  <2> QED
    BY <2>1, <2>2, <2>3 DEF IInv, LocksOK
<1> QED
  BY <1>1, Invariance, PTL

(* How far a thread is on its way up the identities: the object it waits at, *)
(* and whether it is in already; above all objects when it waits at none.    *)
Height(t) ==
  CASE pc[t] = "first"     -> 2 * id[First(op[t])]
    [] pc[t] = "first_in"  -> 2 * id[First(op[t])] + 1
    [] pc[t] = "second"    -> 2 * id[Second(op[t])]
    [] pc[t] = "second_in" -> 2 * id[Second(op[t])] + 1
    [] OTHER               -> 2 * IdLimit

LEMMA HeightType ==
  ASSUME IInv, NEW t \in Threads PROVE Height(t) \in 0 .. 2 * IdLimit
<1> USE SynchronizableAssumption
<1>1. CASE pc[t] \in {"first", "first_in", "second", "second_in"}
  <2>1. id[First(op[t])] \in 0 .. IdLimit - 1 /\ id[Second(op[t])] \in 0 .. IdLimit - 1
    BY <1>1, CallFacts DEF IInv, TypeOK, CallsOK
  <2> QED
    BY <1>1, <2>1 DEF Height
<1>2. CASE pc[t] \notin {"first", "first_in", "second", "second_in"}
  BY <1>2 DEF Height
<1> QED
  BY <1>1, <1>2

(* The thread that is waited for is further up than the one that waits.      *)
LEMMA WaitsUpwards ==
  ASSUME IInv, NEW t \in Threads, NEW u \in Threads, WaitsFor(t, u)
  PROVE  Height(t) < Height(u)
<1> USE SynchronizableAssumption
<1>1. PICK o \in Wanted(t) :
        \/ pc[t] \in {"first", "second"} /\ u \in {entering[o], writer[o]}
        \/ pc[t] \in {"first_in", "second_in"} /\ u \in readers[o]
  BY DEF WaitsFor
<1>2. pc[t] \in {"first", "first_in", "second", "second_in"}
  BY <1>1
<1>3. /\ o \in Objects /\ id[o] \in 0 .. IdLimit - 1
      /\ o = IF pc[t] \in {"first", "first_in"} THEN First(op[t]) ELSE Second(op[t])
  <2>1. o = IF pc[t] \in {"first", "first_in"} THEN First(op[t]) ELSE Second(op[t])
    BY <1>1, <1>2 DEF Wanted
  <2> QED
    BY <1>2, <2>1, CallFacts DEF IInv, TypeOK, CallsOK
<1>4. o \notin Unsynchronized
  BY <1>1, <1>3 DEF IInv, LocksOK
<1>5. Height(t) = IF pc[t] \in {"first", "second"} THEN 2 * id[o] ELSE 2 * id[o] + 1
  BY <1>2, <1>3 DEF Height
<1>6. CASE EntersAt(u, o)
  <2>0. ~Holds(u, o)
    BY <1>6, CallFacts DEF EntersAt, Holds, IInv, CallsOK
  <2>1. pc[t] \in {"first", "second"}
    BY <1>1, <1>3, <1>4, <2>0 DEF IInv, LocksOK
  <2>2. Height(u) = 2 * id[o] + 1
    BY <1>6 DEF EntersAt, Height
  <2> QED
    BY <1>3, <1>5, <2>1, <2>2
<1>7. CASE Holds(u, o)
  <2>1. CASE pc[u] \in {"second", "second_in"}
    <3>1. /\ o = First(op[u]) /\ id[First(op[u])] < id[Second(op[u])]
          /\ id[Second(op[u])] \in 0 .. IdLimit - 1
      BY <1>7, <2>1, CallFacts DEF Holds, IInv, CallsOK, TypeOK
    <3>2. Height(u) >= 2 * id[Second(op[u])]
      BY <2>1, <3>1 DEF Height
    <3>3. Height(u) \in Int
      BY HeightType
    <3> QED
      BY <1>3, <1>5, <3>1, <3>2, <3>3
  <2>2. CASE pc[u] \notin {"second", "second_in"}
    <3>1. Height(u) = 2 * IdLimit
      BY <1>7, <2>2 DEF Holds, Height
    <3> QED
      BY <1>3, <1>5, <3>1
  <2> QED
    BY <2>1, <2>2
<1> QED
  BY <1>1, <1>3, <1>4, <1>6, <1>7 DEF IInv, LocksOK

(* Threads never wait for each other in a circle: of those that would, one   *)
(* is furthest up, and it waits for none of them.                            *)
THEOREM NoCircle == Spec => []NoCircularWait
<1>1. IInv => NoCircularWait
  <2> SUFFICES ASSUME IInv, NEW S \in SUBSET Threads, S # {}
               PROVE  \E t \in S : \A u \in S : ~WaitsFor(t, u)
    BY DEF NoCircularWait
  <2> USE SynchronizableAssumption
  <2> DEFINE below == {2 * IdLimit - Height(t) : t \in S}
  <2>1. below \subseteq Nat /\ below # {}
    BY HeightType
  <2>2. PICK m \in below : \A n \in below : m <= n
    <3> HIDE DEF below
    <3> QED
      BY <2>1, LeastOf
  <2>3. PICK t \in S : m = 2 * IdLimit - Height(t)
    BY <2>2
  <2>4. ASSUME NEW u \in S PROVE ~WaitsFor(t, u)
    <3>1. 2 * IdLimit - Height(t) <= 2 * IdLimit - Height(u)
      BY <2>2, <2>3
    <3>2. ~(Height(t) < Height(u))
      BY <3>1, HeightType
    <3> QED
      BY <3>2, WaitsUpwards
  <2> QED
    BY <2>4
<1> QED
  BY <1>1, Invariance, PTL
=============================================================================
