----------------------------- MODULE Rendezvous -----------------------------
(***************************************************************************)
(* What a caller of runtime::barrier() may rely on, whatever the barrier   *)
(* is built from: the abstract specification that Barrier (one counting    *)
(* barrier) and HierarchicBarrier (a tree of them) implement.              *)
(*                                                                         *)
(* Every worker of a group calls wait() again and again.  The n-th calls   *)
(* of all workers form the n-th meeting.  Once all of them have arrived,   *)
(* one of them, the leader, runs the finalizer; after that the calls       *)
(* return, in any order, TRUE for the leader and FALSE for the others.     *)
(***************************************************************************)
EXTENDS Naturals

CONSTANTS
  Threads,      \* the workers of one group
  MaxMeetings   \* bound: how often each worker calls wait()

VARIABLES
  calls,     \* calls[t]: how many calls of wait() worker t has made
  returns,   \* returns[t]: how many of them have returned
  finals,    \* how many finalizers have run
  leader,    \* the worker that ran the last of them
  trues      \* how many calls have returned TRUE

vars == <<calls, returns, finals, leader, trues>>

Init ==
  /\ calls   = [t \in Threads |-> 0]
  /\ returns = [t \in Threads |-> 0]
  /\ finals  = 0
  /\ leader  \in Threads
  /\ trues   = 0

Arrive(t) ==
  /\ calls[t] = returns[t]
  /\ calls[t] < MaxMeetings
  /\ calls' = [calls EXCEPT ![t] = @ + 1]
  /\ UNCHANGED <<returns, finals, leader, trues>>

\* The finalizer runs between the last arrival and the first return.
Finalize(t) ==
  /\ \A u \in Threads : calls[u] = finals + 1
  /\ finals' = finals + 1
  /\ leader' = t
  /\ UNCHANGED <<calls, returns, trues>>

Return(t) ==
  /\ returns[t] < calls[t]
  /\ returns[t] < finals
  /\ returns' = [returns EXCEPT ![t] = @ + 1]
  /\ trues' = IF leader = t THEN trues + 1 ELSE trues
  /\ UNCHANGED <<calls, finals, leader>>

Next == \E t \in Threads : Arrive(t) \/ Finalize(t) \/ Return(t)

Spec == Init /\ [][Next]_vars
=============================================================================
