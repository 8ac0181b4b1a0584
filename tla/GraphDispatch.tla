---------------------------- MODULE GraphDispatch ---------------------------
(***************************************************************************)
(* dispatcher::executeGraphinDevice (include/dispatcher/graph_api.h) and   *)
(* queueExecution (runtime_api.h): the kernels of a query graph are put    *)
(* into the command queue of one device, vertex by vertex.  A kernel gets  *)
(* as wait list the events of the kernels queued before it at the level    *)
(* before its own; the levels are computed along a topological order.      *)
(*                                                                         *)
(* The dispatchers add the vertices of a graph in the order in which they  *)
(* may run (q6Dispatcher, q1Dispatcher): every edge ascends.  The code     *)
(* relies on it, for it queues them in that order and not in make_order.   *)
(*                                                                         *)
(* The device may start any command whose wait list is complete.  That is  *)
(* more than the queue of the code allows it, which is in order: the model *)
(* shows that the wait lists are enough.                                   *)
(***************************************************************************)
EXTENDS Naturals, Sequences, SequencesExt, FiniteSetsExt

CONSTANTS
  N,        \* the number of kernels of the graph
  Garbage   \* what a slot of evt holds that no kernel was queued with

ASSUME NAssumption == N \in Nat \ {0}
ASSUME GarbageAssumption == Garbage \notin Nat

Vertices == 0 .. N - 1
Ascending == {e \in Vertices \X Vertices : e[1] < e[2]}

VARIABLES
  edges,           \* kernelGraph
  make_order,      \* the topological order that Boost has found
  err,             \* whether the global err is CL_SUCCESS
  iv,              \* the vertex to be queued next
  prevTime,        \* the level of the last one
  relatedEvents,   \* the wait list for this level
  returnedEvents,  \* the events of this level so far
  evt,             \* the slots of evt up to num_of_available_events
  command,         \* what has become of each kernel: see Status
  waits,           \* the wait list it was queued with
  pc               \* "queue", "finish" (in clFinish), "returned" or "crashed"

graph == <<edges, make_order>>
host == <<err, iv, prevTime, relatedEvents, returnedEvents, evt, pc>>
vars == <<edges, make_order, err, iv, prevTime, relatedEvents, returnedEvents,
          evt, command, waits, pc>>

Status == {"none", "failed", "queued", "running", "complete"}

source(v, E) == {e[1] : e \in {d \in E : d[2] = v}}

\* topological_sort: any order in which all edges ascend; Boost finds one.
TopologicalOrders(E) ==
  {o \in SetToSeqs(Vertices) :
     \A e \in E : \A a, b \in DOMAIN o : (o[a] = e[1] /\ o[b] = e[2]) => a < b}

-----------------------------------------------------------------------------
\* Mutant: a vertex gets the level of its sources.
TimeBehind_Same(maxdist) == maxdist

\* time[*i] = maxdist + 1;
TimeBehind(maxdist) == maxdist + 1

(***************************************************************************)
(* The levels and maxdist behind k steps of the loop over the order o.     *)
(* maxdist is set to 0 once and not for every vertex, so a vertex may get  *)
(* a higher level than its depth.                                          *)
(***************************************************************************)
levels(E, o) ==
  LET level[k \in 0 .. N] ==
        IF k = 0 THEN [time |-> [v \in Vertices |-> 0], maxdist |-> 0]
        ELSE LET old == level[k - 1]
                 v == o[k]
                 maxdist == Max({old.maxdist} \cup {old.time[u] : u \in source(v, E)})
             IN  IF source(v, E) = {} THEN old
                 ELSE [time |-> [old.time EXCEPT ![v] = TimeBehind(maxdist)],
                       maxdist |-> maxdist]
  IN  level

time == levels(edges, make_order)[N].time

Init ==
  /\ edges \in SUBSET Ascending
  /\ make_order \in TopologicalOrders(edges)
  /\ err \in BOOLEAN     \* an earlier write may have failed: see add_data
  /\ iv = 0
  /\ prevTime = 0
  /\ relatedEvents = {}
  /\ returnedEvents = {}
  /\ evt = <<>>
  /\ command = [v \in Vertices |-> "none"]
  /\ waits = [v \in Vertices |-> {}]
  /\ pc = "queue"

(***************************************************************************)
(* queueExecution for vertex iv: a slot of evt is taken first.  An         *)
(* argument that cannot be set, an err that is left from before, a wait    *)
(* list that is not valid or a lack of resources end it, with err reset    *)
(* and nothing written to the slot.                                        *)
(***************************************************************************)
\* Mutant: the event is among those waited for, as if it were pushed before.
Queued_WaitsForItself(related) ==
  /\ err
  /\ Garbage \notin related
  /\ command' = [command EXCEPT ![iv] = "queued"]
  /\ waits' = [waits EXCEPT ![iv] = related \cup {iv}]
  /\ evt' = Append(evt, iv)
  /\ UNCHANGED err

Queued(related) ==
  /\ err
  /\ Garbage \notin related
  /\ command' = [command EXCEPT ![iv] = "queued"]
  /\ waits' = [waits EXCEPT ![iv] = related]
  /\ evt' = Append(evt, iv)
  /\ UNCHANGED err

Failed ==
  /\ command' = [command EXCEPT ![iv] = "failed"]
  /\ evt' = Append(evt, Garbage)
  /\ err' = TRUE
  /\ UNCHANGED waits

queueExecution(related) == Queued(related) \/ Failed

\* for (...; ++iv)
NextVertex ==
  /\ iv' = iv + 1
  /\ pc' = IF iv + 1 = N THEN "finish" ELSE "queue"

\* if (time[*iv] == prevTime)
SameLevel ==
  /\ pc = "queue"
  /\ time[iv] = prevTime
  /\ queueExecution(relatedEvents)
  /\ returnedEvents' = returnedEvents \cup {Last(evt')}
  /\ NextVertex
  /\ UNCHANGED <<graph, prevTime, relatedEvents>>

\* else: relatedEvents = returnedEvents; returnedEvents.clear(); ...
OtherLevel ==
  /\ pc = "queue"
  /\ time[iv] # prevTime
  /\ queueExecution(returnedEvents)
  /\ relatedEvents' = returnedEvents
  /\ returnedEvents' = {Last(evt')}
  /\ prevTime' = time[iv]
  /\ NextVertex
  /\ UNCHANGED graph

\* executeGraph: clFinish; the durations are only added up behind it.
Finish ==
  /\ pc = "finish"
  /\ \A v \in Vertices : command[v] \notin {"queued", "running"}
  /\ pc' = "returned"
  /\ UNCHANGED <<graph, err, iv, prevTime, relatedEvents, returnedEvents, evt, command, waits>>

\* OpenCL is given a slot that nothing was written to, in a wait list or by
\* getDuration: it is not bound to return an error.
Crash ==
  /\ \/ pc = "queue" /\ Garbage \in IF time[iv] = prevTime THEN relatedEvents ELSE returnedEvents
     \/ pc = "finish" /\ Garbage \in ToSet(evt)
  /\ pc' = "crashed"
  /\ UNCHANGED <<graph, err, iv, prevTime, relatedEvents, returnedEvents, evt, command, waits>>

Host == SameLevel \/ OtherLevel \/ Finish

\* The device runs a command when the commands of its wait list are complete.
Run(v) ==
  /\ command[v] = "queued"
  /\ \A u \in waits[v] : command[u] = "complete"
  /\ command' = [command EXCEPT ![v] = "running"]
  /\ UNCHANGED <<graph, host, waits>>

Complete(v) ==
  /\ command[v] = "running"
  /\ command' = [command EXCEPT ![v] = "complete"]
  /\ UNCHANGED <<graph, host, waits>>

Next == Host \/ Crash \/ (\E v \in Vertices : Run(v) \/ Complete(v))

Spec == Init /\ [][Next]_vars

\* The host thread runs, and the device works off what is queued.
FairSpec ==
  /\ Spec
  /\ WF_vars(Host)
  /\ \A v \in Vertices : WF_vars(Run(v)) /\ WF_vars(Complete(v))

-----------------------------------------------------------------------------
(***************************************************************************)
(* A kernel runs only when all kernels whose output it reads are complete, *)
(* whichever of them could not be queued: a failure stops what depends on  *)
(* it, although nothing looks at the result of queueExecution.             *)
(***************************************************************************)
KernelsInOrder ==
  \A e \in edges : command[e[2]] \in {"running", "complete"} => command[e[1]] = "complete"

\* executeGraphinDevice returns unless OpenCL crashes: no wait list has an
\* event that never completes.
EveryGraphEnds == <>(pc \in {"returned", "crashed"})
=============================================================================
