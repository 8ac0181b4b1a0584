----------------------------- MODULE JoinTable ------------------------------
(***************************************************************************)
(* The build phase of several joins (HashJoinBuild) with the table of the  *)
(* last one in full (Hashmap): what HashJoinBuild takes as the insertion of*)
(* one entry is the call of insert_tagged() that several workers are in at *)
(* the same time.  An entry of Hashmap is one that its worker may          *)
(* materialize for the last join; those it does not materialize stay in    *)
(* todo, and their insertion never begins.                                 *)
(***************************************************************************)
EXTENDS Hashmap

CONSTANTS
  NrJoins,    \* the number of joins in the operator tree
  MaxFound    \* bound: the most tuples that one worker finds for one join

ASSUME ThreadsAssumption == IsFiniteSet(Threads)
ASSUME NrJoinsAssumption == NrJoins \in Nat \ {0}
ASSUME MaxFoundAssumption ==
  \A t \in Threads : MaxFound = Cardinality({e \in Entries : Owner[e] = t})

VARIABLES nesting, calls, returns, finals, leader, trues, found, tableSize, inserted,
          join, mine, at       \* see HashJoinBuild, where at is pc

Build == INSTANCE HashJoinBuild WITH Workers <- Threads, pc <- at

tableVars == vars
buildVars == <<nesting, calls, returns, finals, leader, trues, found, tableSize, inserted,
               join, mine, at>>

JoinInit == Build!Init /\ Init

-----------------------------------------------------------------------------
\* Worker t is in insertAllEntries() for the last join.
Inserting(t) == at[t] = "insert" /\ join[t] = NrJoins

\* The steps of insert_tagged() up to the exchange, and an exchange that fails.
InsertStep(t) ==
  /\ Inserting(t)
  /\ \/ mine[t] > 0 /\ \E e \in Entries : Begin(t, e)
     \/ Load(t)
     \/ Link(t)
     \/ Publish(t) /\ pc'[t] # "idle"
  /\ UNCHANGED buildVars

\* An exchange that succeeds: the entry is inserted.
InsertDone(t) ==
  /\ Inserting(t)
  /\ Publish(t) /\ pc'[t] = "idle"
  /\ Build!Insert(t)

\* The steps of the build phase besides these.
BuildStep(t) ==
  /\ \/ Build!Materialize(t)
     \/ Build!Count(t)
     \/ Build!ArriveCounted(t)
     \/ Build!SetSize(t)
     \/ Build!LeaveSizing(t)
     \/ Build!CheckEmpty(t)
     \/ ~Inserting(t) /\ Build!Insert(t)
     \/ Build!ArriveBuilt(t)
     \/ Build!FinalizeBuilt(t)
     \/ Build!LeaveBuilt(t)
     \/ Build!Probe(t)
  /\ UNCHANGED tableVars

JoinStep(t) == InsertStep(t) \/ InsertDone(t) \/ BuildStep(t)

JoinTerminated == Build!Terminated /\ UNCHANGED tableVars

JoinNext == (\E t \in Threads : JoinStep(t)) \/ JoinTerminated

\* Worker threads that can run do run.
JoinSpec == /\ JoinInit /\ [][JoinNext]_<<tableVars, buildVars>>
            /\ \A t \in Threads : WF_<<tableVars, buildVars>>(JoinStep(t))

-----------------------------------------------------------------------------
\* See HashJoinBuild: the workers at the barrier have come from the same call.
SameMeeting == Build!SameMeeting

\* Whoever inserts into a table finds it sized for all the entries of all workers.
\* Whoever reads it, to build a later one or to probe, finds it complete, and nobody
\* inserts any more; in the table of the last join, as many entries as the workers
\* have counted are found through the filter and the chains.
SizedThenComplete ==
  /\ Build!SizedBeforeInsert
  /\ Build!CompleteBeforeProbe
  /\ (\E t \in Threads : at[t] = "probe") =>
        Cardinality({e \in Entries : e \in Walk(find_chain_tagged(Hash[e]))}) = found[NrJoins]

\* Every worker gets to the end: no barrier waits for one that has left, and no
\* worker tries its exchange forever.
EveryJoinEnds == Build!EveryJoinEnds
=============================================================================
