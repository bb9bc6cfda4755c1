---------------------------- MODULE ChildThreads ----------------------------
(* child_thread::run and start of the gPb library, and the threads they use  *)
(* (src/segmentation/gpb: concurrent/threads/child_thread.cc, thread.cc): a  *)
(* job that has children runs them on the processors it was given, as many   *)
(* at a time as there are processors, waits for all of them and raises the   *)
(* first exception.  Children may have children of their own.                *)
EXTENDS Integers, Sequences, FiniteSets

CONSTANTS Jobs, Root,
          Children,     \* the children of each job in order, none for a leaf
          Pairs,        \* the jobs that run two children, run(t0, t1); the
                        \* others run a collection, run(c)
          Counts,       \* what the number of processors may be
          Failures,     \* the sets of leaves that may be those that throw
          None

ASSUME ChildThreadsAssumption ==
  /\ Root \in Jobs /\ Pairs \subseteq Jobs /\ None \notin Jobs
  /\ Children \in [Jobs -> Seq(Jobs)]
  /\ \A j \in Pairs : Len(Children[j]) = 2
  /\ Counts \subseteq Nat \ {0}
  /\ \A F \in Failures : F \subseteq Jobs /\ \A j \in F : Children[j] = <<>>

(* A job is one call of run(), and so it is a child of no other job and not  *)
(* its own descendant: the jobs are a tree.                                  *)
ASSUME TreeAssumption ==
  /\ \A i, j \in Jobs : \A k \in DOMAIN Children[i], l \in DOMAIN Children[j] :
       Children[i][k] = Children[j][l] => i = j /\ k = l
  /\ \A j \in Jobs : \A k \in DOMAIN Children[j] : Children[j][k] # Root
  /\ \A S \in (SUBSET Jobs) \ {{}} :
       \E j \in S : \A k \in DOMAIN Children[j] : Children[j][k] \notin S

Leaves == {j \in Jobs : Children[j] = <<>>}

(* A job starts at most as many threads as it has children.                  *)
Workers == UNION {{j} \X DOMAIN Children[j] : j \in Jobs}

VARIABLES
  failing,      \* the leaves whose run() throws
  job,          \* where each job is; "idle" before run() is called
  procs,        \* thread::processors() in the thread that runs the job
  raised,       \* the leaf whose exception the job's run() let out
  count,        \* the position of start's loops over the threads
  thread,       \* each thread: "none", "running", "leaving" or "gone"
  at,           \* the member of its group that it runs
  exception,    \* _exception of its child_runnable
  joinLock      \* its _join_lock

runVars == <<failing, job, procs, raised, count, thread, at, exception, joinLock>>

RunInit == /\ failing \in Failures
           /\ job = [j \in Jobs |-> IF j = Root THEN "called" ELSE "idle"]
           /\ \E n \in Counts : procs = [j \in Jobs |-> IF j = Root THEN n ELSE 0]
           /\ raised = [j \in Jobs |-> None]
           /\ count = [j \in Jobs |-> 0]
           /\ thread = [t \in Workers |-> "none"]
           /\ at = [t \in Workers |-> 1]
           /\ exception = [t \in Workers |-> None]
           /\ joinLock = [t \in Workers |-> FALSE]
-----------------------------------------------------------------------------
(* start(t0, t1): half of the processors for each child.                     *)
PairShare(n, k) == IF n <= 2 THEN 1 ELSE IF k = 1 THEN n \div 2 ELSE n - n \div 2

(* Variant with a bug: one processor more for every child.                   *)
Share_AllMore(n, m, k) == IF n > m THEN n \div m + 1 ELSE 1

(* start(c): the processors evenly, one more for the first of the children.  *)
Share(n, m, k) == IF n > m THEN n \div m + (IF k <= n - (n \div m) * m THEN 1 ELSE 0)
                           ELSE 1

(* run(c) with fewer processors than children: where the k-th group ends.    *)
GroupEnd(n, m, k) == LET extra == m - (m \div n) * n
                     IN  k * (m \div n) + (IF k <= extra THEN k ELSE extra)

(* The groups of children that a job runs next to each other, and with how   *)
(* many processors; the members of a group run one after the other.          *)
Groups(j) ==
  LET c == Children[j]
      m == Len(c)
      n == procs[j]
  IN  IF j \in Pairs /\ n > 1
      THEN [k \in 1 .. 2 |-> [members |-> <<c[k]>>, procs |-> PairShare(n, k)]]
      ELSE IF j \in Pairs
      THEN <<[members |-> c, procs |-> n]>>
      ELSE IF n >= m
      THEN [k \in 1 .. m |-> [members |-> <<c[k]>>, procs |-> Share(n, m, k)]]
      ELSE [k \in 1 .. n |->
              [members |-> SubSeq(c, GroupEnd(n, m, k - 1) + 1, GroupEnd(n, m, k)),
               procs   |-> Share(n, n, k)]]

(* A pair with one processor runs in the thread of the job itself.           *)
InThread(j) == j \in Pairs /\ procs[j] = 1

Group(t) == Groups(t[1])[t[2]]

Member(t) == Group(t).members[at[t]]
-----------------------------------------------------------------------------
LeafEnds(j) ==
  /\ job[j] = "called" /\ j \in Leaves
  /\ \/ j \notin failing /\ job' = [job EXCEPT ![j] = "returned"] /\ UNCHANGED raised
     \/ /\ j \in failing
        /\ job' = [job EXCEPT ![j] = "threw"]
        /\ raised' = [raised EXCEPT ![j] = j]
  /\ UNCHANGED <<failing, procs, count, thread, at, exception, joinLock>>

(* run(t0, t1) with one processor *)
RunInThread(j) ==
  /\ job[j] = "called" /\ j \notin Leaves
  /\ InThread(j)
  /\ job' = [job EXCEPT ![j] = "in thread"]
  /\ thread' = [thread EXCEPT ![<<j, 1>>] = "running"]
  /\ UNCHANGED <<failing, procs, raised, count, at, exception, joinLock>>

EndInThread(j) ==
  /\ job[j] = "in thread"
  /\ thread[<<j, 1>>] = "leaving"
  /\ thread' = [thread EXCEPT ![<<j, 1>>] = "gone"]
  /\ raised' = [raised EXCEPT ![j] = exception[<<j, 1>>]]
  /\ job' = [job EXCEPT ![j] = IF exception[<<j, 1>>] = None THEN "returned" ELSE "threw"]
  /\ UNCHANGED <<failing, procs, count, at, exception, joinLock>>

(* start: one thread for each group; thread::start locks the join lock.  It  *)
(* does not look at what pthread_create returns, which is success here.      *)
StartThread(j) ==
  LET t == <<j, count[j] + 1>> IN
  /\ job[j] = "called" /\ j \notin Leaves
  /\ ~ InThread(j)
  /\ count[j] < Len(Groups(j))
  /\ joinLock' = [joinLock EXCEPT ![t] = TRUE]
  /\ thread' = [thread EXCEPT ![t] = "running"]
  /\ count' = [count EXCEPT ![j] = count[j] + 1]
  /\ UNCHANGED <<failing, job, procs, raised, at, exception>>

AllStarted(j) ==
  /\ job[j] = "called" /\ j \notin Leaves
  /\ ~ InThread(j)
  /\ count[j] = Len(Groups(j))
  /\ job' = [job EXCEPT ![j] = "joining"]
  /\ count' = [count EXCEPT ![j] = 0]
  /\ UNCHANGED <<failing, procs, raised, thread, at, exception, joinLock>>

(* Variant with a bug: join does not wait.                                   *)
Join_NoWait(j) ==
  /\ job[j] = "joining"
  /\ count[j] < Len(Groups(j))
  /\ count' = [count EXCEPT ![j] = count[j] + 1]
  /\ UNCHANGED <<failing, job, procs, raised, thread, at, exception, joinLock>>

(* join locks and unlocks the join lock.                                     *)
Join(j) ==
  /\ job[j] = "joining"
  /\ count[j] < Len(Groups(j))
  /\ ~ joinLock[<<j, count[j] + 1>>]
  /\ count' = [count EXCEPT ![j] = count[j] + 1]
  /\ UNCHANGED <<failing, job, procs, raised, thread, at, exception, joinLock>>

Threw(j) == {k \in 1 .. Len(Groups(j)) : exception[<<j, k>>] # None}

(* Variant with a bug: the exception of the last thread comes first.         *)
FirstException_LastFirst(j) ==
  exception[<<j, CHOOSE k \in Threw(j) : \A l \in Threw(j) : k >= l>>]

FirstException(j) ==
  exception[<<j, CHOOSE k \in Threw(j) : \A l \in Threw(j) : k <= l>>]

Raise(j) ==
  /\ job[j] = "joining"
  /\ count[j] = Len(Groups(j))
  /\ \/ /\ Threw(j) = {}
        /\ job' = [job EXCEPT ![j] = "returned"]
        /\ UNCHANGED raised
     \/ /\ Threw(j) # {}
        /\ job' = [job EXCEPT ![j] = "threw"]
        /\ raised' = [raised EXCEPT ![j] = FirstException(j)]
  /\ UNCHANGED <<failing, procs, count, thread, at, exception, joinLock>>
-----------------------------------------------------------------------------
(* The threads.  child_runnable::run passes its processors on.               *)
CallMember(t) ==
  /\ thread[t] = "running"
  /\ job[Member(t)] = "idle"
  /\ job' = [job EXCEPT ![Member(t)] = "called"]
  /\ procs' = [procs EXCEPT ![Member(t)] = Group(t).procs]
  /\ UNCHANGED <<failing, raised, count, thread, at, exception, joinLock>>

MemberReturned(t) ==
  /\ thread[t] = "running"
  /\ job[Member(t)] = "returned"
  /\ \/ at[t] < Len(Group(t).members) /\ at' = [at EXCEPT ![t] = at[t] + 1] /\ UNCHANGED thread
     \/ at[t] = Len(Group(t).members) /\ thread' = [thread EXCEPT ![t] = "leaving"] /\ UNCHANGED at
  /\ UNCHANGED <<failing, job, procs, raised, count, exception, joinLock>>

(* The rest of the group is not run.                                         *)
MemberThrew(t) ==
  /\ thread[t] = "running"
  /\ job[Member(t)] = "threw"
  /\ exception' = [exception EXCEPT ![t] = raised[Member(t)]]
  /\ thread' = [thread EXCEPT ![t] = "leaving"]
  /\ UNCHANGED <<failing, job, procs, raised, count, at, joinLock>>

(* Variant with a bug: an exception skips the unlock of the join lock.       *)
Leave_LockedAfterThrow(t) ==
  /\ thread[t] = "leaving"
  /\ ~ InThread(t[1])
  /\ joinLock' = [joinLock EXCEPT ![t] = exception[t] # None]
  /\ thread' = [thread EXCEPT ![t] = "gone"]
  /\ UNCHANGED <<failing, job, procs, raised, count, at, exception>>

Leave(t) ==
  /\ thread[t] = "leaving"
  /\ ~ InThread(t[1])
  /\ joinLock' = [joinLock EXCEPT ![t] = FALSE]
  /\ thread' = [thread EXCEPT ![t] = "gone"]
  /\ UNCHANGED <<failing, job, procs, raised, count, at, exception>>

JobStep(j) == \/ LeafEnds(j) \/ RunInThread(j) \/ EndInThread(j) \/ StartThread(j)
              \/ AllStarted(j) \/ Join(j) \/ Raise(j)

ThreadStep(t) == CallMember(t) \/ MemberReturned(t) \/ MemberThrew(t) \/ Leave(t)

RunNext == (\E j \in Jobs : JobStep(j)) \/ (\E t \in Workers : ThreadStep(t))

RunSpec == RunInit /\ [][RunNext]_runVars

(* As long as some thread can go on, one does.                               *)
FairRunSpec == RunSpec /\ WF_runVars(RunNext)
-----------------------------------------------------------------------------
Ended(j) == job[j] \in {"returned", "threw"}

(* What is reached from job j going from jobs to their children.             *)
Under(j) == {l \in Jobs : \A S \in SUBSET Jobs :
               /\ j \in S
               /\ \A i \in S : \A k \in DOMAIN Children[i] : Children[i][k] \in S
               => l \in S}

LeavesBelow == [j \in Jobs |-> Under(j) \cap Leaves]

(* Leaf l is run before leaf m if the jobs are run one after another.        *)
Before(l, m) ==
  \E j \in Jobs : \E a, b \in DOMAIN Children[j] :
    a < b /\ l \in LeavesBelow[Children[j][a]] /\ m \in LeavesBelow[Children[j][b]]

(* No more leaves below a job are at work at any time than the job has       *)
(* processors, however the divisions round, and no processor is lost: what   *)
(* the groups of its children get adds up to what it has.                    *)
ProcessorsShared ==
  \A j \in Jobs : job[j] # "idle" =>
    /\ Cardinality({l \in LeavesBelow[j] : job[l] = "called"}) <= procs[j]
    /\ j \notin Leaves =>
         LET given == Groups(j)
         IN  Cardinality({g \in (DOMAIN given) \X (1 .. procs[j] + 1) :
                            g[2] <= given[g[1]].procs}) = procs[j]

(* What job j let out against the leaves below it: the exception that        *)
(* running the children one after another raises, none when no leaf throws.  *)
InOrder(j) ==
  LET bad == LeavesBelow[j] \cap failing
  IN  IF bad = {}
      THEN job[j] = "returned" /\ \A l \in LeavesBelow[j] : job[l] = "returned"
      ELSE /\ job[j] = "threw" /\ raised[j] \in bad
           /\ \A l \in bad \ {raised[j]} : Before(raised[j], l)

(* What run raises does not depend on the processors nor on which child is   *)
(* first in time: it is the exception that running the children one after    *)
(* another raises.  When it returns instead, every leaf has run.             *)
FirstInOrder == \A j \in Jobs : Ended(j) => InOrder(j)

(* When run is over, nothing that was started for it still runs: a thread    *)
(* that is left holds objects of its parent's stack.                         *)
NothingLeftRunning ==
  \A j \in Jobs : Ended(j) =>
    /\ \A t \in Workers : t[1] = j => thread[t] \in {"none", "gone"}
    /\ \A k \in DOMAIN Children[j] : job[Children[j][k]] = "idle" \/ Ended(Children[j][k])

(* Every call of run comes to an end.                                        *)
Finishes == <>Ended(Root)
=============================================================================
