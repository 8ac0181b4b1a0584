--------------------------- MODULE BarrierProofs ----------------------------
(***************************************************************************)
(* Theorems about Barrier, for every finite set of threads, every width of *)
(* the round (one bit is enough) and every number of meetings.             *)
(***************************************************************************)
EXTENDS Barrier, FiniteSetTheorems, TLAPS

USE ThreadsAssumption, RoundModAssumption, MaxMeetingsAssumption

-----------------------------------------------------------------------------
(***************************************************************************)
(* The inductive invariant.                                                *)
(***************************************************************************)

\* A thread that does not wait has returned from every meeting so far.
NotWaitingIsCurrent ==
  \A t \in Threads :
     /\ pc[t] # "spin" => passed[t] = gen
     /\ pc[t] = "loaded" => prevRound[t] = round

\* A waiter is in the present meeting, or in the one that has just ended.
WaiterIsCloseBehind ==
  \A t \in Threads : pc[t] = "spin" =>
     \/ passed[t] = gen /\ prevRound[t] = round
     \/ /\ passed[t] + 1 = gen
        /\ round = NextRound(prevRound[t])
        /\ t # leader

\* At most one thread closes a meeting, and then all the others wait for it.
CloserIsAlone ==
  \A t \in Threads : Closing(t) => \A u \in Threads \ {t} : u \in Arrived

\* What cntr counts, in each phase of a meeting.
CounterCounts ==
  /\ (\A t \in Threads : ~Closing(t)) =>
        /\ cntr + Cardinality(Arrived) = threadCount
        /\ Arrived # Threads
  /\ \A t \in Threads :
        /\ pc[t] = "last" => cntr = 0
        /\ pc[t] \in {"finalize", "publish"} => cntr = threadCount

\* The finalizer has run once per opening, plus once if one is imminent.
FinalsCount ==
  /\ \A t \in Threads : pc[t] = "publish" => leader = t /\ finals = gen + 1
  /\ (\A t \in Threads : pc[t] # "publish") => finals = gen
  /\ trues = gen

IInv ==
  /\ TypeOK
  /\ NotWaitingIsCurrent
  /\ WaiterIsCloseBehind
  /\ CloserIsAlone
  /\ CounterCounts
  /\ FinalsCount

-----------------------------------------------------------------------------
LEMMA ThreadCountType == threadCount \in Nat /\ threadCount >= 1
  BY FS_CardinalityType, FS_EmptySet DEF threadCount

\* With two or more values, incrementing a round changes it.
LEMMA NextRoundMoves ==
  ASSUME NEW r \in Rounds
  PROVE  NextRound(r) \in Rounds /\ NextRound(r) # r
  BY DEF Rounds, NextRound

LEMMA ArrivedFinite ==
  /\ IsFiniteSet(Arrived)
  /\ Cardinality(Arrived) \in Nat
  /\ Cardinality(Arrived) <= threadCount
  /\ Cardinality(Arrived) = threadCount => Arrived = Threads
  BY FS_Subset, FS_CardinalityType DEF Arrived, threadCount

LEMMA InitIInv == Init => IInv
  <1> SUFFICES ASSUME Init PROVE IInv
    OBVIOUS
  <1>1. Arrived = {}
    BY DEF Init, Arrived
  <1>2. TypeOK
    BY ThreadCountType DEF Init, TypeOK, Location, Rounds
  <1>3. NotWaitingIsCurrent /\ WaiterIsCloseBehind /\ CloserIsAlone /\ FinalsCount
    BY DEF Init, NotWaitingIsCurrent, WaiterIsCloseBehind, CloserIsAlone,
           FinalsCount, Closing
  <1>4. CounterCounts
    BY <1>1, FS_EmptySet, ThreadCountType DEF Init, CounterCounts
  <1> QED
    BY <1>2, <1>3, <1>4 DEF IInv

LEMMA LoadRoundKeeps ==
  ASSUME IInv, NEW t \in Threads, LoadRound(t)
  PROVE  IInv'
  <1> USE DEF LoadRound, atomics, history
  <1>1. Arrived' = Arrived /\ \A u \in Threads : Closing(u)' = Closing(u)
    BY DEF IInv, TypeOK, Arrived, Closing, Location
  <1>2. TypeOK'
    BY DEF IInv, TypeOK, Location
  <1>3. NotWaitingIsCurrent' /\ WaiterIsCloseBehind'
    BY DEF IInv, TypeOK, NotWaitingIsCurrent, WaiterIsCloseBehind
  <1>4. CloserIsAlone'
    BY <1>1 DEF IInv, CloserIsAlone
  <1>5. CounterCounts'
    BY <1>1, Zenon DEF IInv, TypeOK, CounterCounts, threadCount, Closing
  <1>6. FinalsCount'
    BY DEF IInv, TypeOK, FinalsCount
  <1> QED
    BY <1>2, <1>3, <1>4, <1>5, <1>6 DEF IInv

LEMMA FetchSubKeeps ==
  ASSUME IInv, NEW t \in Threads, FetchSub(t)
  PROVE  IInv'
  <1> USE DEF FetchSub, history
  \* As t comes in, nobody is closing: t itself would have to wait for it.
  <1>1. \A u \in Threads : ~Closing(u)
    BY DEF IInv, CloserIsAlone, Arrived, Closing
  <1>2. /\ cntr + Cardinality(Arrived) = threadCount
        /\ cntr \in Nat /\ cntr >= 1
        /\ t \notin Arrived
    BY <1>1, ArrivedFinite, ThreadCountType
       DEF IInv, TypeOK, CounterCounts, Arrived
  <1>3. /\ IsFiniteSet(Arrived \cup {t})
        /\ Cardinality(Arrived \cup {t}) = Cardinality(Arrived) + 1
    BY <1>2, ArrivedFinite, FS_AddElement
  <1>4. NotWaitingIsCurrent' /\ WaiterIsCloseBehind' /\ FinalsCount'
    BY DEF IInv, TypeOK, NotWaitingIsCurrent, WaiterIsCloseBehind, FinalsCount,
           Location
  <1>5. TypeOK'
    BY <1>2, ThreadCountType DEF IInv, TypeOK, Location
  <1>6. CASE cntr = 1
    <2>1. pc' = [pc EXCEPT ![t] = "last"] /\ cntr' = 0
      BY <1>6
    <2>2. Arrived' = Arrived
      BY <1>2, <2>1 DEF IInv, TypeOK, Arrived
    <2>3. Arrived \cup {t} = Threads
      <3>1. Cardinality(Arrived \cup {t}) = threadCount
        BY <1>2, <1>3, <1>6, ArrivedFinite, ThreadCountType
      <3>2. (Arrived \cup {t}) \in SUBSET Threads
        BY DEF Arrived
      <3> QED
        BY <3>1, <3>2, FS_Subset DEF threadCount
    <2>4. CloserIsAlone'
      BY <1>1, <2>1, <2>2, <2>3 DEF IInv, TypeOK, CloserIsAlone, Closing
    <2>5. CounterCounts'
      BY <1>1, <2>1 DEF IInv, TypeOK, CounterCounts, Closing
    <2> QED
      BY <1>4, <1>5, <2>4, <2>5 DEF IInv
  <1>7. CASE cntr # 1
    <2>1. pc' = [pc EXCEPT ![t] = "spin"] /\ cntr' = cntr - 1
      BY <1>7
    <2>2. Arrived' = Arrived \cup {t}
      BY <2>1 DEF IInv, TypeOK, NotWaitingIsCurrent, Arrived
    <2>3. \A u \in Threads : ~Closing(u)'
      BY <1>1, <2>1 DEF IInv, TypeOK, Closing
    <2>4. CloserIsAlone'
      BY <2>3 DEF CloserIsAlone
    <2>5. /\ cntr' + Cardinality(Arrived') = threadCount
          /\ Arrived' # Threads
      BY <1>2, <1>3, <1>7, <2>1, <2>2, ArrivedFinite, ThreadCountType
         DEF threadCount
    <2>6. CounterCounts'
      BY <2>3, <2>5 DEF CounterCounts, Closing, threadCount
    <2> QED
      BY <1>4, <1>5, <2>4, <2>6 DEF IInv
  <1> QED
    BY <1>6, <1>7

LEMMA ResetCounterKeeps ==
  ASSUME IInv, NEW t \in Threads, ResetCounter(t)
  PROVE  IInv'
  <1> USE DEF ResetCounter, history
  <1>1. Arrived' = Arrived /\ \A u \in Threads : Closing(u)' = Closing(u)
    BY DEF IInv, TypeOK, Arrived, Closing
  <1>2. TypeOK'
    BY ThreadCountType DEF IInv, TypeOK, Location
  <1>3. NotWaitingIsCurrent' /\ WaiterIsCloseBehind' /\ FinalsCount'
    BY DEF IInv, TypeOK, NotWaitingIsCurrent, WaiterIsCloseBehind, FinalsCount
  <1>4. CloserIsAlone'
    BY <1>1 DEF IInv, CloserIsAlone
  <1>5. CounterCounts'
    BY DEF IInv, TypeOK, CounterCounts, CloserIsAlone, Closing, Arrived, threadCount
  <1> QED
    BY <1>2, <1>3, <1>4, <1>5 DEF IInv

LEMMA RunFinalizerKeeps ==
  ASSUME IInv, NEW t \in Threads, RunFinalizer(t)
  PROVE  IInv'
  <1> USE DEF RunFinalizer, atomics
  <1>1. Arrived' = Arrived /\ \A u \in Threads : Closing(u)' = Closing(u)
    BY DEF IInv, TypeOK, Arrived, Closing
  <1>2. \A u \in Threads \ {t} : pc[u] = "spin" /\ passed[u] = gen
    BY DEF IInv, CloserIsAlone, Closing, Arrived
  <1>3. TypeOK'
    BY DEF IInv, TypeOK, Location
  <1>4. NotWaitingIsCurrent' /\ WaiterIsCloseBehind'
    BY <1>2 DEF IInv, TypeOK, NotWaitingIsCurrent, WaiterIsCloseBehind
  <1>5. CloserIsAlone'
    BY <1>1 DEF IInv, CloserIsAlone
  <1>6. CounterCounts'
    BY <1>2 DEF IInv, TypeOK, CounterCounts, Closing, Arrived, threadCount
  <1>7. FinalsCount'
    BY <1>2 DEF IInv, TypeOK, FinalsCount
  <1> QED
    BY <1>3, <1>4, <1>5, <1>6, <1>7 DEF IInv

LEMMA PublishKeeps ==
  ASSUME IInv, NEW t \in Threads, Publish(t)
  PROVE  IInv'
  <1> USE DEF Publish
  <1>1. \A u \in Threads \ {t} : pc[u] = "spin" /\ passed[u] = gen
    BY DEF IInv, CloserIsAlone, Closing, Arrived
  <1>2. leader = t /\ cntr = threadCount /\ passed[t] = gen
    BY DEF IInv, FinalsCount, CounterCounts, NotWaitingIsCurrent
  <1>3. round' \in Rounds /\ round' # round
    BY NextRoundMoves DEF IInv, TypeOK
  <1>4. TypeOK'
    BY <1>3 DEF IInv, TypeOK, Location
  <1>5. NotWaitingIsCurrent'
    BY <1>1, <1>2 DEF IInv, TypeOK, NotWaitingIsCurrent
  \* Everybody waits in the meeting that ends with this step.
  <1>6. WaiterIsCloseBehind'
    BY <1>1, <1>2, <1>3 DEF IInv, TypeOK, WaiterIsCloseBehind
  <1>7. Arrived' = {} /\ \A u \in Threads : ~Closing(u)'
    BY <1>1, <1>2 DEF IInv, TypeOK, Arrived, Closing
  <1>8. CloserIsAlone'
    BY <1>7 DEF CloserIsAlone
  <1>9. CounterCounts'
    BY <1>2, <1>7, FS_EmptySet, ThreadCountType
       DEF CounterCounts, Closing, threadCount
  <1>10. FinalsCount'
    BY <1>1, <1>2 DEF IInv, TypeOK, FinalsCount
  <1> QED
    BY <1>4, <1>5, <1>6, <1>8, <1>9, <1>10 DEF IInv

LEMMA LeaveKeeps ==
  ASSUME IInv, NEW t \in Threads, Leave(t)
  PROVE  IInv'
  <1> USE DEF Leave, atomics
  \* The round has moved, so t waits in the meeting that is over.
  <1>1. passed[t] + 1 = gen /\ t # leader
    BY DEF IInv, TypeOK, WaiterIsCloseBehind
  <1>2. Arrived' = Arrived /\ \A u \in Threads : Closing(u)' = Closing(u)
    BY <1>1 DEF IInv, TypeOK, Arrived, Closing
  <1>3. TypeOK'
    BY DEF IInv, TypeOK, Location
  <1>4. NotWaitingIsCurrent' /\ WaiterIsCloseBehind' /\ FinalsCount'
    BY <1>1 DEF IInv, TypeOK, NotWaitingIsCurrent, WaiterIsCloseBehind, FinalsCount
  <1>5. CloserIsAlone'
    BY <1>2 DEF IInv, CloserIsAlone
  <1>6. CounterCounts'
    BY <1>1, <1>2 DEF IInv, TypeOK, CounterCounts, threadCount
  <1> QED
    BY <1>3, <1>4, <1>5, <1>6 DEF IInv

LEMMA StutterKeeps ==
  ASSUME IInv, UNCHANGED vars
  PROVE  IInv'
  <1>1. Arrived' = Arrived /\ \A u \in Threads : Closing(u)' = Closing(u)
    BY DEF vars, Arrived, Closing
  <1>2. TypeOK' /\ NotWaitingIsCurrent' /\ WaiterIsCloseBehind' /\ FinalsCount'
    BY DEF vars, IInv, TypeOK, NotWaitingIsCurrent, WaiterIsCloseBehind, FinalsCount
  <1>3. CloserIsAlone'
    BY <1>1 DEF IInv, CloserIsAlone
  <1>4. CounterCounts'
    BY <1>1, Zenon DEF vars, IInv, CounterCounts, threadCount
  <1> QED
    BY <1>2, <1>3, <1>4 DEF IInv

(***************************************************************************)
(* The invariant holds in every reachable state of a barrier.              *)
(***************************************************************************)
THEOREM BarrierInvariant == Spec => []IInv
  <1>1. IInv /\ [Next]_vars => IInv'
    BY LoadRoundKeeps, FetchSubKeeps, ResetCounterKeeps, RunFinalizerKeeps,
       PublishKeeps, LeaveKeeps, StutterKeeps, Zenon DEF Next, Step, Terminated
  <1> QED
    BY <1>1, InitIInv, PTL DEF Spec

-----------------------------------------------------------------------------
\* Every variable keeps its type; in particular cntr never leaves
\* 0 .. threadCount, so the unsigned counter of the code cannot wrap.
THEOREM TypeCorrect == Spec => []TypeOK
  BY BarrierInvariant, PTL DEF IInv

LEMMA FinalizerAloneHolds == IInv => FinalizerAlone
  BY DEF IInv, TypeOK, CloserIsAlone, WaiterIsCloseBehind, FinalizerAlone, Arrived

\* The finalizer works on the shared state alone: all other threads wait
\* in the spin loop of the same meeting.
THEOREM FinalizerRunsAlone == Spec => []FinalizerAlone
  BY BarrierInvariant, FinalizerAloneHolds, PTL

LEMMA NoOvertakingHolds == IInv => NoOvertaking
  <1> SUFFICES ASSUME IInv PROVE NoOvertaking
    OBVIOUS
  <1>1. gen <= finals /\ finals \in Nat /\ gen \in Nat
    BY DEF IInv, TypeOK, FinalsCount
  <1>2. \A t \in Threads : passed[t] \in Nat /\ passed[t] <= gen /\ gen <= passed[t] + 1
    BY DEF IInv, TypeOK, NotWaitingIsCurrent, WaiterIsCloseBehind
  <1> QED
    BY <1>1, <1>2 DEF NoOvertaking

\* No call returns before the finalizer of its meeting has run, and no two
\* threads are ever more than one meeting apart.
THEOREM NobodyGetsAhead == Spec => []NoOvertaking
  BY BarrierInvariant, NoOvertakingHolds, PTL

LEMMA NoMissedRoundHolds == IInv => NoMissedRound
  BY DEF IInv, TypeOK, WaiterIsCloseBehind, NoMissedRound

\* A waiter whose meeting is over sees a round that differs from the one it
\* read, even if the round has only two values.
THEOREM OpeningIsNeverMissed == Spec => []NoMissedRound
  BY BarrierInvariant, NoMissedRoundHolds, PTL

LEMMA OneLeaderHolds == IInv => OneLeader
  <1> SUFFICES ASSUME IInv PROVE OneLeader
    OBVIOUS
  <1> DEFINE Publishing == {t \in Threads : pc[t] = "publish"}
  <1>1. CASE Publishing = {}
    BY <1>1, FS_EmptySet DEF IInv, TypeOK, FinalsCount, OneLeader
  <1>2. CASE Publishing # {}
    <2>1. PICK t \in Threads : pc[t] = "publish"
      BY <1>2
    <2>2. Publishing = {t}
      BY <2>1 DEF IInv, CloserIsAlone, Closing, Arrived
    <2>3. finals = trues + 1
      BY <2>1 DEF IInv, TypeOK, FinalsCount
    <2> QED
      BY <2>2, <2>3, FS_Singleton DEF OneLeader
  <1> QED
    BY <1>1, <1>2

\* In each meeting exactly one call returns the finalizer's result.
THEOREM ExactlyOneLeader == Spec => []OneLeader
  BY BarrierInvariant, OneLeaderHolds, PTL

-----------------------------------------------------------------------------
(***************************************************************************)
(* Refinement: the barrier implements the meeting of module Rendezvous.    *)
(***************************************************************************)
\* A thread that is in a call has not yet made all its calls.
PassedBound ==
  \A t \in Threads :
     /\ passed[t] <= MaxMeetings
     /\ pc[t] # "out" => passed[t] < MaxMeetings

LEMMA PassedBoundHolds == Spec => []PassedBound
  <1>1. Init => PassedBound
    BY DEF Init, PassedBound
  <1>2. TypeOK /\ PassedBound /\ [Next]_vars => PassedBound'
    <2> SUFFICES ASSUME TypeOK, PassedBound, [Next]_vars
                 PROVE  PassedBound'
      OBVIOUS
    <2> USE DEF TypeOK, PassedBound
    <2>1. ASSUME NEW t \in Threads, LoadRound(t) \/ FetchSub(t) \/ ResetCounter(t)
                                                \/ RunFinalizer(t)
          PROVE  PassedBound'
      BY <2>1 DEF LoadRound, FetchSub, ResetCounter, RunFinalizer, history
    <2>2. ASSUME NEW t \in Threads, Publish(t) \/ Leave(t)
          PROVE  PassedBound'
      BY <2>2 DEF Publish, Leave
    <2>3. CASE UNCHANGED vars
      BY <2>3 DEF vars
    <2> QED
      BY <2>1, <2>2, <2>3 DEF Next, Step, Terminated
  <1> QED
    BY <1>1, <1>2, TypeCorrect, PTL DEF Spec

LEMMA InitMaps == Init => Meeting!Init
  BY DEF Init, Meeting!Init, calls

LEMMA StepMaps ==
  ASSUME IInv, PassedBound, NEW t \in Threads, Step(t)
  PROVE  Meeting!Next \/ UNCHANGED Meeting!vars
  <1> USE DEF IInv, TypeOK, Meeting!vars, calls
  <1>1. CASE LoadRound(t)
    BY <1>1 DEF LoadRound, atomics, history
  <1>2. CASE FetchSub(t)
    <2>1. passed[t] < MaxMeetings
      BY <1>2 DEF FetchSub, PassedBound
    <2>2. calls' = [calls EXCEPT ![t] = @ + 1]
      BY <1>2 DEF FetchSub, history
    <2>3. Meeting!Arrive(t)
      BY <1>2, <2>1, <2>2 DEF FetchSub, history, Meeting!Arrive
    <2> QED
      BY <2>3 DEF Meeting!Next
  <1>3. CASE ResetCounter(t)
    BY <1>3 DEF ResetCounter, history
  <1>4. CASE RunFinalizer(t)
    <2>1. \A u \in Threads : calls[u] = finals + 1
      BY <1>4 DEF RunFinalizer, CloserIsAlone, Closing, Arrived, FinalsCount,
                  NotWaitingIsCurrent
    <2>2. calls' = calls
      BY <1>4 DEF RunFinalizer
    <2>3. Meeting!Finalize(t)
      BY <1>4, <2>1, <2>2 DEF RunFinalizer, Meeting!Finalize
    <2> QED
      BY <2>3 DEF Meeting!Next
  <1>5. CASE Publish(t)
    <2>1. /\ passed[t] < calls[t] /\ passed[t] < finals /\ leader = t
          /\ calls' = calls
      BY <1>5 DEF Publish, FinalsCount, NotWaitingIsCurrent
    <2>2. Meeting!Return(t)
      BY <1>5, <2>1 DEF Publish, Meeting!Return
    <2> QED
      BY <2>2 DEF Meeting!Next
  <1>6. CASE Leave(t)
    <2>1. /\ passed[t] < calls[t] /\ passed[t] < finals /\ leader # t
          /\ calls' = calls
      BY <1>6 DEF Leave, FinalsCount, WaiterIsCloseBehind
    <2>2. Meeting!Return(t)
      BY <1>6, <2>1 DEF Leave, atomics, Meeting!Return
    <2> QED
      BY <2>2 DEF Meeting!Next
  <1> QED
    BY <1>1, <1>2, <1>3, <1>4, <1>5, <1>6 DEF Step

\* Every behaviour of the barrier is, seen from outside, a behaviour of the
\* abstract meeting: one finalizer per meeting, after all arrivals and
\* before any return, and TRUE for the leader only.
THEOREM BarrierImplementsRendezvous == Spec => Implements
  <1>1. IInv /\ PassedBound /\ [Next]_vars => [Meeting!Next]_(Meeting!vars)
    <2>1. UNCHANGED vars => UNCHANGED Meeting!vars
      BY DEF vars, Meeting!vars, calls
    <2> QED
      BY <2>1, StepMaps DEF Next, Terminated
  <1> QED
    BY <1>1, InitMaps, BarrierInvariant, PassedBoundHolds, PTL DEF Spec, Implements, Meeting!Spec
=============================================================================
