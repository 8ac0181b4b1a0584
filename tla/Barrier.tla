------------------------------ MODULE Barrier -------------------------------
(***************************************************************************)
(* runtime::Barrier (include/common/runtime/Barrier.hpp): a reusable       *)
(* counting barrier of two atomics.  wait() reads the round, decrements    *)
(* the counter, and either spins until the round has moved or, as the last *)
(* to arrive, re-arms the counter, runs the finalizer and moves the round. *)
(* Each access to an atomic is an action of its own; the atomics are       *)
(* sequentially consistent, so interleaving them is all that can happen.   *)
(*                                                                         *)
(* The round is a uint8_t: it wraps at RoundMod (256 in the code).         *)
(***************************************************************************)
EXTENDS Naturals, FiniteSets

CONSTANTS
  Threads,      \* the threads that share the barrier
  RoundMod,     \* the number of values of the type of round
  MaxMeetings   \* bound: how often each thread calls wait()

ASSUME ThreadsAssumption == IsFiniteSet(Threads) /\ Threads # {}
ASSUME RoundModAssumption == RoundMod \in Nat /\ RoundMod >= 2
ASSUME MaxMeetingsAssumption == MaxMeetings \in Nat

VARIABLES
  pc,          \* where each thread is: see Location
  prevRound,   \* the local variable of wait(): the round read on entry
  cntr,        \* atomic: arrivals still missing
  round,       \* atomic: changes when the barrier opens
  \* History variables: nothing above depends on them.
  passed,      \* passed[t]: how many calls of thread t have returned
  gen,         \* how many times the barrier has opened
  finals,      \* how many finalizers have run
  leader,      \* the thread that ran the last of them
  trues        \* how many calls have returned the finalizer's result

atomics == <<cntr, round>>
history == <<passed, gen, finals, leader, trues>>
vars == <<pc, prevRound, cntr, round, passed, gen, finals, leader, trues>>

threadCount == Cardinality(Threads)

Rounds == 0 .. RoundMod - 1

\* Mutant: a round that saturates instead of wrapping.
NextRound_Saturating(r) == IF r = RoundMod - 1 THEN r ELSE r + 1

\* round++ on an unsigned integer wraps.
NextRound(r) == IF r = RoundMod - 1 THEN 0 ELSE r + 1

(***************************************************************************)
(* "out"       not in wait()                                               *)
(* "loaded"    has read round, is about to decrement cntr                  *)
(* "spin"      in the loop that waits for the round to move                *)
(* "last"      has brought cntr to zero, is about to re-arm it             *)
(* "finalize"  is about to run the finalizer                               *)
(* "publish"   has run it and is about to increment round                  *)
(***************************************************************************)
Location == {"out", "loaded", "spin", "last", "finalize", "publish"}

Init ==
  /\ pc        = [t \in Threads |-> "out"]
  /\ prevRound = [t \in Threads |-> 0]
  /\ cntr      = threadCount
  /\ round     = 0
  /\ passed    = [t \in Threads |-> 0]
  /\ gen       = 0
  /\ finals    = 0
  /\ leader    \in Threads
  /\ trues     = 0

-----------------------------------------------------------------------------
\* Mutant: the round read in an earlier call is used again.
LoadRound_Stale(t) ==
  /\ pc[t] = "out"
  /\ passed[t] < MaxMeetings
  /\ pc' = [pc EXCEPT ![t] = "loaded"]
  /\ UNCHANGED <<prevRound, atomics, history>>

\* auto prevRound = round.load();
LoadRound(t) ==
  /\ pc[t] = "out"
  /\ passed[t] < MaxMeetings
  /\ prevRound' = [prevRound EXCEPT ![t] = round]
  /\ pc' = [pc EXCEPT ![t] = "loaded"]
  /\ UNCHANGED <<atomics, history>>

\* Mutant: the thread before the last takes itself for the last.
FetchSub_OffByOne(t) ==
  /\ pc[t] = "loaded"
  /\ cntr' = cntr - 1
  /\ pc' = [pc EXCEPT ![t] = IF cntr <= 2 THEN "last" ELSE "spin"]
  /\ UNCHANGED <<prevRound, round, history>>

\* auto prev = cntr.fetch_sub(1);  if (prev == 1) ... else ...
FetchSub(t) ==
  /\ pc[t] = "loaded"
  /\ cntr' = cntr - 1
  /\ pc' = [pc EXCEPT ![t] = IF cntr = 1 THEN "last" ELSE "spin"]
  /\ UNCHANGED <<prevRound, round, history>>

\* cntr = threadCount;
ResetCounter(t) ==
  /\ pc[t] = "last"
  /\ cntr' = threadCount
  /\ pc' = [pc EXCEPT ![t] = "finalize"]
  /\ UNCHANGED <<prevRound, round, history>>

\* auto r = finalizer();
RunFinalizer(t) ==
  /\ pc[t] = "finalize"
  /\ finals' = finals + 1
  /\ leader' = t
  /\ pc' = [pc EXCEPT ![t] = "publish"]
  /\ UNCHANGED <<prevRound, atomics, passed, gen, trues>>

\* Mutant: the barrier is opened without waiting for the finalizer.
Publish_BeforeFinalizer(t) ==
  /\ pc[t] = "finalize"
  /\ round' = NextRound(round)
  /\ gen' = gen + 1
  /\ passed' = [passed EXCEPT ![t] = @ + 1]
  /\ trues' = trues + 1
  /\ pc' = [pc EXCEPT ![t] = "out"]
  /\ UNCHANGED <<prevRound, cntr, finals, leader>>

\* round++;  return r;
Publish(t) ==
  /\ pc[t] = "publish"
  /\ round' = NextRound(round)
  /\ gen' = gen + 1
  /\ passed' = [passed EXCEPT ![t] = @ + 1]
  /\ trues' = trues + 1
  /\ pc' = [pc EXCEPT ![t] = "out"]
  /\ UNCHANGED <<prevRound, cntr, finals, leader>>

\* while (round == prevRound) pause;  return false;
Leave(t) ==
  /\ pc[t] = "spin"
  /\ round # prevRound[t]
  /\ passed' = [passed EXCEPT ![t] = @ + 1]
  /\ pc' = [pc EXCEPT ![t] = "out"]
  /\ UNCHANGED <<prevRound, atomics, gen, finals, leader, trues>>

Step(t) ==
  \/ LoadRound(t)
  \/ FetchSub(t)
  \/ ResetCounter(t)
  \/ RunFinalizer(t)
  \/ Publish(t)
  \/ Leave(t)

\* Every thread has made its MaxMeetings calls: the only state to stop in.
Terminated ==
  /\ \A t \in Threads : pc[t] = "out" /\ passed[t] = MaxMeetings
  /\ UNCHANGED vars

Next == (\E t \in Threads : Step(t)) \/ Terminated

Spec == Init /\ [][Next]_vars

(***************************************************************************)
(* Each of the threads is scheduled again and again by the operating       *)
(* system and no thread stays away from the barrier for ever: every worker *)
(* runs the same function, with the same number of barrier() calls.        *)
(***************************************************************************)
FairSpec == Spec /\ \A t \in Threads : WF_vars(Step(t))

-----------------------------------------------------------------------------
TypeOK ==
  /\ pc        \in [Threads -> Location]
  /\ prevRound \in [Threads -> Rounds]
  /\ cntr      \in 0 .. threadCount
  /\ round     \in Rounds
  /\ passed    \in [Threads -> Nat]
  /\ gen       \in Nat
  /\ finals    \in Nat
  /\ leader    \in Threads
  /\ trues     \in Nat

\* The threads that have been counted and wait for the barrier to open.
Arrived == {t \in Threads : pc[t] = "spin" /\ passed[t] = gen}

\* The thread that closes the meeting.
Closing(t) == pc[t] \in {"last", "finalize", "publish"}

(***************************************************************************)
(* While one thread re-arms the counter, runs the finalizer or opens the   *)
(* barrier, every other thread is inside the spin loop of the same         *)
(* meeting: the finalizer works on the shared state alone.                 *)
(***************************************************************************)
FinalizerAlone ==
  \A t \in Threads : Closing(t) =>
     \A u \in Threads \ {t} : u \in Arrived /\ prevRound[u] = round

(***************************************************************************)
(* Nobody gets ahead: a call returns only after the finalizer of its       *)
(* meeting has run, and no two threads are more than one meeting apart     *)
(* although a fast thread may be in its next call while a slow one still   *)
(* spins in the previous.                                                  *)
(***************************************************************************)
NoOvertaking ==
  \A t \in Threads :
     /\ passed[t] <= finals
     /\ \A u \in Threads : passed[t] <= passed[u] + 1

(***************************************************************************)
(* A slow waiter cannot miss the opening, whatever the width of the round: *)
(* as long as it spins the round is the one it read or the next, and if    *)
(* its meeting is over the round differs from the one it read.             *)
(***************************************************************************)
NoMissedRound ==
  \A t \in Threads : pc[t] = "spin" =>
     /\ passed[t] = gen     => prevRound[t] = round
     /\ passed[t] # gen     => /\ passed[t] + 1 = gen
                               /\ round = NextRound(prevRound[t])

(***************************************************************************)
(* Exactly one call of each meeting returns the finalizer's result; while  *)
(* the leader has not returned, that result is still owed.                 *)
(***************************************************************************)
OneLeader ==
  finals = trues + Cardinality({t \in Threads : pc[t] = "publish"})

\* The refinement: a call counts as made once cntr has been decremented.
calls == [t \in Threads |->
            IF pc[t] \in {"out", "loaded"} THEN passed[t] ELSE passed[t] + 1]

Meeting == INSTANCE Rendezvous WITH returns <- passed

\* Callers may rely on the meeting semantics of Rendezvous.
Implements == Meeting!Spec

\* A thread that has read the round gets out of wait() again.
EveryCallReturns == \A t \in Threads : (pc[t] # "out") ~> (pc[t] = "out")
=============================================================================
