---------------------------- MODULE WorkerGroup -----------------------------
(***************************************************************************)
(* WorkerGroup::run (include/common/runtime/Concurrency.hpp): the calling  *)
(* thread creates the tree of barriers, hands one task per worker but the  *)
(* last to a TBB task group, is the last worker itself, waits for the      *)
(* tasks and frees the tree.  Every worker runs the same function, which   *)
(* calls barrier() MaxMeetings times.                                      *)
(*                                                                         *)
(* Of TBB the model has that a task is started by a thread of the pool, or *)
(* by the calling thread while that is in wait().                          *)
(***************************************************************************)
EXTENDS HierarchicBarrier

CONSTANTS
  PoolThreads,  \* the threads of TBB; the benchmarks ask for one per worker
  MaxSize       \* bound: the largest tree that is looked at

ASSUME MaxSizeAssumption == MaxSize \in Nat

Caller == Size - 1
Spawned == 0 .. Size - 2

VARIABLES
  caller,      \* where the calling thread is: "spawn", "f", "wait" or "done"
  task,        \* the task of each spawned worker: "none", "queued", "running"
               \* or "done"
  inPool,      \* the tasks that threads of the pool are running
  this_worker, \* the worker that the calling thread takes itself for
  freed        \* the barriers that have been freed

group == <<caller, task, inPool, this_worker, freed>>
groupVars == <<vars, group>>

GroupInit ==
  /\ Init
  /\ caller = "spawn"
  /\ task = [i \in Spawned |-> "none"]
  /\ inPool = {}
  /\ this_worker = Caller
  /\ freed = <<>>

\* Worker t has made all its calls of barrier().
Through(t) == pc[t] = "out" /\ passed[t] = MaxMeetings

Active(t) == IF t = Caller THEN caller = "f" ELSE task[t] = "running"

-----------------------------------------------------------------------------
\* g.run([worker, i]() { ... });
Spawn(i) ==
  /\ caller = "spawn"
  /\ task[i] = "none"
  /\ \A j \in 0 .. i - 1 : task[j] # "none"
  /\ task' = [task EXCEPT ![i] = "queued"]
  /\ UNCHANGED <<vars, caller, inPool, this_worker, freed>>

\* f(); on the calling thread
EnterF ==
  /\ caller = "spawn"
  /\ \A i \in Spawned : task[i] # "none"
  /\ caller' = "f"
  /\ UNCHANGED <<vars, task, inPool, this_worker, freed>>

\* Mutant: wait() is not called.
LeaveF_NoWait ==
  /\ caller = "f"
  /\ Through(Caller)
  /\ caller' = "done"
  /\ freed' = Freed(Size)
  /\ UNCHANGED <<vars, task, inPool, this_worker>>

\* f() has returned: g.wait();
LeaveF ==
  /\ caller = "f"
  /\ Through(Caller)
  /\ caller' = "wait"
  /\ UNCHANGED <<vars, task, inPool, this_worker, freed>>

\* worker->start(): by a thread of the pool, or by the caller in wait().
Start(i) ==
  /\ task[i] = "queued"
  /\ task' = [task EXCEPT ![i] = "running"]
  /\ \/ /\ Cardinality(inPool) < PoolThreads
        /\ inPool' = inPool \cup {i}
        /\ UNCHANGED this_worker
     \/ /\ caller = "wait"
        /\ this_worker' = i
        /\ UNCHANGED inPool
  /\ UNCHANGED <<vars, caller, freed>>

\* The task returns; nobody resets this_worker.
Finish(i) ==
  /\ task[i] = "running"
  /\ Through(i)
  /\ task' = [task EXCEPT ![i] = "done"]
  /\ inPool' = inPool \ {i}
  /\ UNCHANGED <<vars, caller, this_worker, freed>>

\* wait() returns: HierarchicBarrier::destroy(barriers);
Destroy ==
  /\ caller = "wait"
  /\ \A i \in Spawned : task[i] = "done"
  /\ caller' = "done"
  /\ freed' = Freed(Size)
  /\ UNCHANGED <<vars, task, inPool, this_worker>>

\* A step of barrier().
InBarrier(t) ==
  /\ Active(t)
  /\ Step(t)
  /\ UNCHANGED group

GroupTerminated ==
  caller = "done" /\ (\A i \in Spawned : task[i] = "done") /\ UNCHANGED groupVars

GroupNext ==
  \/ \E i \in Spawned : Spawn(i) \/ Start(i) \/ Finish(i)
  \/ EnterF
  \/ LeaveF
  \/ Destroy
  \/ \E t \in Threads : InBarrier(t)
  \/ GroupTerminated

GroupSpec == GroupInit /\ [][GroupNext]_groupVars

\* The caller and the threads of the pool are scheduled by the operating
\* system, and a thread of the pool without a task takes one.
GroupFairSpec ==
  /\ GroupSpec
  /\ \A i \in Spawned : WF_groupVars(Start(i)) /\ WF_groupVars(Finish(i))
  /\ WF_groupVars((\E i \in Spawned : Spawn(i)) \/ EnterF \/ LeaveF \/ Destroy)
  /\ \A t \in Threads : WF_groupVars(InBarrier(t))

-----------------------------------------------------------------------------
\* The tree has just been created: the state in which trees are looked at.
Created == caller = "spawn" /\ \A i \in Spawned : task[i] = "none"

\* For every size of a group, each barrier waits for exactly the workers or
\* barriers that come to it, and the barriers form one tree: see BarrierTree.
TreesFit == Created => \A size \in 1 .. MaxSize : CountsMatch(size) /\ OneRoot(size)

\* For every size, destroy frees each barrier once and leaves none.
TreesAreFreed == Created => \A size \in 1 .. MaxSize : FreedOnce(size)

(***************************************************************************)
(* "calling worker temporarily joins this group": the calling thread is    *)
(* its own worker again when run() returns.  It would not be if wait() had *)
(* it execute a task, which leaves this_worker at a Worker of the group;   *)
(* what prevents that is the barrier in every function that is run.        *)
(***************************************************************************)
CallerKeepsItsWorker == this_worker = Caller

\* No barrier is freed while a worker may still be inside of it, although a
\* worker leaves the barriers of its path after it has released the others.
NoUseAfterFree ==
  freed # <<>> => \A t \in Threads : pc[t] = "out" /\ ~Active(t)

\* run() returns.
RunReturns == <>(caller = "done")
=============================================================================
