------------------------- MODULE HierarchicBarrier --------------------------
(***************************************************************************)
(* runtime::HierarchicBarrier (include/common/runtime/Barrier.hpp), the    *)
(* barrier of a worker group: a tree of counting barriers.  The last       *)
(* thread to arrive at a barrier waits at its parent on behalf of all the  *)
(* others, as the finalizer of its own wait(); the last thread at the root *)
(* runs the caller's finalizer.  The way back opens the barriers from the  *)
(* root down to the leaves.                                                *)
(***************************************************************************)
EXTENDS BarrierTree, SequencesExt

CONSTANTS
  Size,         \* the number of workers of the group
  RoundMod,     \* the number of values of the type of round (256 in the code)
  MaxMeetings   \* bound: how often each worker calls barrier()

ASSUME SizeAssumption == Size \in Nat \ {0}
ASSUME RoundModAssumption == RoundMod \in Nat /\ RoundMod >= 2
ASSUME MaxMeetingsAssumption == MaxMeetings \in Nat

Threads == 0 .. Size - 1
Barriers == Tree(Size)
leaf(t) == Leaf(Size, t)

VARIABLES
  pc,          \* where each thread is: see Location
  frames,      \* the barriers in whose wait() it is, its leaf first
  prevRound,   \* prevRound of that wait()
  result,      \* the value of the innermost wait() that has returned
  cntr,        \* the atomic cntr of each barrier object
  round,       \* the atomic round of each barrier object
  \* History variables: nothing above depends on them.
  passed,      \* passed[t]: how many calls of thread t have returned
  finals,      \* how many finalizers of the callers have run
  leader,      \* the thread that ran the last of them
  trues        \* how many calls have returned TRUE

shared == <<cntr, round>>
history == <<passed, finals, leader, trues>>
vars == <<pc, frames, prevRound, result, cntr, round, passed, finals, leader, trues>>

\* As in module Barrier, and "enter": about to read the round of the parent.
Location == {"out", "enter", "loaded", "spin", "last", "finalize", "publish"}

Init ==
  /\ pc        = [t \in Threads |-> "out"]
  /\ frames    = [t \in Threads |-> <<leaf(t)>>]
  /\ prevRound = [t \in Threads |-> 0]
  /\ result    = [t \in Threads |-> FALSE]
  /\ cntr      = [b \in Barriers |-> threadCount(b)]
  /\ round     = [b \in Barriers |-> 0]
  /\ passed    = [t \in Threads |-> 0]
  /\ finals    = 0
  /\ leader    = 0
  /\ trues     = 0

\* The barrier whose wait() is innermost; the leaf, also outside of wait().
at(t) == Last(frames[t])
AtLeaf(t) == Len(frames[t]) = 1

(***************************************************************************)
(* wait() of the barrier at(t) returns r: at the leaf to the caller, above *)
(* it to the finalizer of the barrier below, which can now be opened.      *)
(***************************************************************************)
ReturnFrom(t, r) ==
  IF AtLeaf(t)
  THEN /\ pc' = [pc EXCEPT ![t] = "out"]
       /\ passed' = [passed EXCEPT ![t] = @ + 1]
       /\ trues' = IF r THEN trues + 1 ELSE trues
       /\ result' = [result EXCEPT ![t] = r]
       /\ UNCHANGED frames
  ELSE /\ pc' = [pc EXCEPT ![t] = "publish"]
       /\ frames' = [frames EXCEPT ![t] = Front(@)]
       /\ result' = [result EXCEPT ![t] = r]
       /\ UNCHANGED <<passed, trues>>

-----------------------------------------------------------------------------
\* A call of barrier(): auto prevRound = round.load() at the thread's leaf.
Call(t) ==
  /\ pc[t] = "out"
  /\ passed[t] < MaxMeetings
  /\ prevRound' = [prevRound EXCEPT ![t] = round[at(t)]]
  /\ pc' = [pc EXCEPT ![t] = "loaded"]
  /\ UNCHANGED <<frames, result, shared, history>>

\* auto prevRound = round.load(); of the parent's wait()
LoadRound(t) ==
  /\ pc[t] = "enter"
  /\ prevRound' = [prevRound EXCEPT ![t] = round[at(t)]]
  /\ pc' = [pc EXCEPT ![t] = "loaded"]
  /\ UNCHANGED <<frames, result, shared, history>>

\* auto prev = cntr.fetch_sub(1);  if (prev == 1) ... else ...
FetchSub(t) ==
  /\ pc[t] = "loaded"
  /\ cntr' = [cntr EXCEPT ![at(t)] = @ - 1]
  /\ pc' = [pc EXCEPT ![t] = IF cntr[at(t)] = 1 THEN "last" ELSE "spin"]
  /\ UNCHANGED <<frames, prevRound, result, round, history>>

\* cntr = threadCount;
ResetCounter(t) ==
  /\ pc[t] = "last"
  /\ cntr' = [cntr EXCEPT ![at(t)] = threadCount(at(t))]
  /\ pc' = [pc EXCEPT ![t] = "finalize"]
  /\ UNCHANGED <<frames, prevRound, result, round, history>>

\* return p->wait(finalizer);
WaitAtParent(t) ==
  /\ pc[t] = "finalize"
  /\ Parent(at(t)) # NoParent
  /\ frames' = [frames EXCEPT ![t] = Append(@, Parent(at(t)))]
  /\ pc' = [pc EXCEPT ![t] = "enter"]
  /\ UNCHANGED <<prevRound, result, shared, history>>

\* finalizer();  return true;
RunFinalizer(t) ==
  /\ pc[t] = "finalize"
  /\ Parent(at(t)) = NoParent
  /\ finals' = finals + 1
  /\ leader' = t
  /\ result' = [result EXCEPT ![t] = TRUE]
  /\ pc' = [pc EXCEPT ![t] = "publish"]
  /\ UNCHANGED <<frames, prevRound, shared, passed, trues>>

\* Mutant: a thread that opens a barrier tells its caller it is the leader.
Publish_AlwaysTrue(t) ==
  /\ pc[t] = "publish"
  /\ round' = [round EXCEPT ![at(t)] = (@ + 1) % RoundMod]
  /\ ReturnFrom(t, TRUE)
  /\ UNCHANGED <<prevRound, cntr, finals, leader>>

\* Mutant: the round of a barrier is never moved.
Publish_RoundKept(t) ==
  /\ pc[t] = "publish"
  /\ ReturnFrom(t, result[t])
  /\ UNCHANGED <<prevRound, shared, finals, leader>>

\* round++;  return r;
Publish(t) ==
  /\ pc[t] = "publish"
  /\ round' = [round EXCEPT ![at(t)] = (@ + 1) % RoundMod]
  /\ ReturnFrom(t, result[t])
  /\ UNCHANGED <<prevRound, cntr, finals, leader>>

\* Mutant: the spin loop is left at once.
Leave_NoSpin(t) ==
  /\ pc[t] = "spin"
  /\ ReturnFrom(t, FALSE)
  /\ UNCHANGED <<prevRound, shared, finals, leader>>

\* while (round == prevRound) pause;  return false;
Leave(t) ==
  /\ pc[t] = "spin"
  /\ round[at(t)] # prevRound[t]
  /\ ReturnFrom(t, FALSE)
  /\ UNCHANGED <<prevRound, shared, finals, leader>>

Step(t) ==
  \/ Call(t)
  \/ LoadRound(t)
  \/ FetchSub(t)
  \/ ResetCounter(t)
  \/ WaitAtParent(t)
  \/ RunFinalizer(t)
  \/ Publish(t)
  \/ Leave(t)

Next == \E t \in Threads : Step(t)

Spec == Init /\ [][Next]_vars

-----------------------------------------------------------------------------
TypeOK ==
  /\ pc        \in [Threads -> Location]
  /\ \A t \in Threads : frames[t] # <<>> /\ Range(frames[t]) \subseteq Barriers
  /\ prevRound \in [Threads -> 0 .. RoundMod - 1]
  /\ result    \in [Threads -> BOOLEAN]
  /\ \A b \in Barriers : cntr[b] \in 0 .. threadCount(b)
  /\ round     \in [Barriers -> 0 .. RoundMod - 1]
  /\ passed    \in [Threads -> 0 .. MaxMeetings]
  /\ finals    \in Nat
  /\ leader    \in Threads
  /\ trues     \in Nat

\* The barriers that thread t has closed, as the last to arrive, and not opened
\* again: those below the innermost wait() that it is in, and the one of this
\* wait() unless it has yet to arrive there, or spins.
Closed(t) ==
  {frames[t][i] : i \in {j \in DOMAIN frames[t] :
     j = Len(frames[t]) => pc[t] \in {"last", "finalize", "publish"}}}

\* At barrier b thread t stands for the participant p: for itself, at a leaf, and
\* above for the barrier below that it has closed.
StandsFor(t, b, p) == IF b[1] = Size THEN p = t ELSE p \in Closed(t)

(***************************************************************************)
(* A thread speaks for all the participants of every barrier that it has   *)
(* closed, at any level of the tree: each participant that is not its own  *)
(* has a thread that stands for it and stays in the spin loop of this      *)
(* barrier until it is opened.  Above the leaves such a thread has closed  *)
(* a barrier, too, so that the same holds of everybody below.              *)
(***************************************************************************)
RepresentativeSpeaksForAll ==
  \A t \in Threads : \A b \in Closed(t) : \A p \in Participants(Size, b) :
     \/ StandsFor(t, b, p)
     \/ \E u \in Threads : /\ StandsFor(u, b, p)
                           /\ pc[u] = "spin" /\ at(u) = b /\ prevRound[u] = round[b]

\* While the caller's finalizer is due or the root is about to open, every
\* other worker of the group spins somewhere in the tree.
FinalizerAlone ==
  \A t \in Threads :
     pc[t] \in {"last", "finalize", "publish"} /\ Parent(at(t)) = NoParent =>
        \A u \in Threads \ {t} :
           pc[u] = "spin" /\ prevRound[u] = round[at(u)]

\* The refinement: a call counts as made once the leaf's cntr is decremented.
calls ==
  [t \in Threads |->
     IF pc[t] = "out" \/ (pc[t] = "loaded" /\ AtLeaf(t))
     THEN passed[t] ELSE passed[t] + 1]

Meeting == INSTANCE Rendezvous WITH returns <- passed

\* The tree behaves like one barrier: one finalizer per meeting, after all
\* arrivals and before any return, and TRUE for one caller only.
Implements == Meeting!Spec
=============================================================================
