---------------------------- MODULE HashJoinBuild ---------------------------
(***************************************************************************)
(* The build phase of vectorwise::Hashjoin::next() (src/vectorwise/        *)
(* Operators.cpp), run by all workers of a group on their copies of one    *)
(* operator tree, in which several joins are built one after the other:    *)
(* each is the left child of the next, which materializes what it finds,   *)
(* or the next is its right child, which it builds before its first probe. *)
(* The workers share a counter and a hash table per join, and one barrier  *)
(* for all joins; the barrier is the abstract one of Rendezvous.           *)
(***************************************************************************)
EXTENDS Naturals, FiniteSets

CONSTANTS
  Workers,    \* the workers of the group
  NrJoins,    \* the number of joins in the operator tree
  MaxFound    \* bound: the most tuples that one worker finds for one join

VARIABLES
  nesting,     \* "left" or "right": where a join hangs under its parent
  calls, returns, finals, leader, trues,   \* the barrier: see Rendezvous
  found,       \* Shared::found of every join
  tableSize,   \* what Shared::ht has been sized for
  inserted,    \* how many entries Shared::ht has
  join,        \* which join each worker is at
  mine,        \* how many entries it has materialized and not yet inserted
  pc           \* where it is in next(): see Location

barrierVars == <<calls, returns, finals, leader, trues>>
tables == <<found, tableSize, inserted>>
vars == <<nesting, barrierVars, tables, join, mine, pc>>

(***************************************************************************)
(* "build"    materializing the tuples of the left child                   *)
(* "counted"  behind shared.found.fetch_add                                *)
(* "sizing"   in the first barrier, "sized" behind it                      *)
(* "insert"   inserting the entries                                        *)
(* "waiting"  in the second barrier                                        *)
(* "probe"    all joins are built                                          *)
(* "end"      behind EndOfStream                                           *)
(***************************************************************************)
Location == {"build", "counted", "sizing", "sized", "insert", "waiting",
             "probe", "end"}

Meeting == INSTANCE Rendezvous WITH Threads <- Workers, MaxMeetings <- 2 * NrJoins

Init ==
  /\ nesting \in {"left", "right"}
  /\ Meeting!Init
  /\ found     = [k \in 1 .. NrJoins |-> 0]
  /\ tableSize = [k \in 1 .. NrJoins |-> 0]
  /\ inserted  = [k \in 1 .. NrJoins |-> 0]
  /\ join = [w \in Workers |-> 1]
  /\ mine = [w \in Workers |-> 0]
  /\ pc   = [w \in Workers |-> "build"]

Goto(w, l) == pc' = [pc EXCEPT ![w] = l]

-----------------------------------------------------------------------------
\* The left child returns EndOfStream at once: it is an empty join.
BarrenChild(w) == nesting = "left" /\ join[w] > 1 /\ found[join[w] - 1] = 0

\* A vector of the left child; its size does not matter.
Materialize(w) ==
  /\ pc[w] = "build"
  /\ ~BarrenChild(w)
  /\ mine[w] < MaxFound
  /\ mine' = [mine EXCEPT ![w] = @ + 1]
  /\ UNCHANGED <<nesting, barrierVars, tables, join, pc>>

\* Mutant: the counter is loaded and stored, and what another worker adds in
\* between is lost; here, what an earlier worker has added.
Count_Stored(w) ==
  /\ pc[w] = "build"
  /\ found' = [found EXCEPT ![join[w]] = mine[w]]
  /\ Goto(w, "counted")
  /\ UNCHANGED <<nesting, barrierVars, tableSize, inserted, join, mine>>

\* shared.found.fetch_add(found);
Count(w) ==
  /\ pc[w] = "build"
  /\ found' = [found EXCEPT ![join[w]] = @ + mine[w]]
  /\ Goto(w, "counted")
  /\ UNCHANGED <<nesting, barrierVars, tableSize, inserted, join, mine>>

\* barrier([&]() { ...
ArriveCounted(w) ==
  /\ pc[w] = "counted"
  /\ Meeting!Arrive(w)
  /\ Goto(w, "sizing")
  /\ UNCHANGED <<nesting, tables, join, mine>>

\* The finalizer of the first barrier, run by the worker that arrives last:
\* if (globalFound) shared.ht.setSize(globalFound);
SetSize(w) ==
  /\ pc[w] = "sizing"
  /\ Meeting!Finalize(w)
  /\ tableSize' = [tableSize EXCEPT ![join[w]] = found[join[w]]]
  /\ UNCHANGED <<nesting, found, inserted, join, mine, pc>>

LeaveSizing(w) ==
  /\ pc[w] = "sizing"
  /\ Meeting!Return(w)
  /\ Goto(w, "sized")
  /\ UNCHANGED <<nesting, tables, join, mine>>

\* Mutant: a worker that has found nothing itself takes the join for empty.
NothingFound_Local(w) == mine[w] = 0

NothingFound(w) == found[join[w]] = 0

\* Mutant: a worker without entries goes on to the next join at once.
CheckEmpty_SkipsBarrier(w) ==
  /\ pc[w] = "sized"
  /\ join' = [join EXCEPT ![w] = IF mine[w] = 0 /\ @ < NrJoins THEN @ + 1 ELSE @]
  /\ Goto(w, IF NothingFound(w) THEN "end"
             ELSE IF mine[w] = 0 /\ join[w] < NrJoins THEN "build" ELSE "insert")
  /\ UNCHANGED <<nesting, barrierVars, tables, mine>>

\* if (globalFound == 0) return EndOfStream; to the join above or to the end.
CheckEmpty(w) ==
  LET toParent == nesting = "left" /\ join[w] < NrJoins
  IN /\ pc[w] = "sized"
     /\ IF NothingFound(w)
        THEN /\ join' = IF toParent THEN [join EXCEPT ![w] = @ + 1] ELSE join
             /\ mine' = [mine EXCEPT ![w] = 0]
             /\ Goto(w, IF toParent THEN "build" ELSE "end")
        ELSE /\ Goto(w, "insert")
             /\ UNCHANGED <<join, mine>>
     /\ UNCHANGED <<nesting, barrierVars, tables>>

\* insertAllEntries(allocations, shared.ht, ht_entry_size);
Insert(w) ==
  /\ pc[w] = "insert"
  /\ mine[w] > 0
  /\ mine' = [mine EXCEPT ![w] = @ - 1]
  /\ inserted' = [inserted EXCEPT ![join[w]] = @ + 1]
  /\ UNCHANGED <<nesting, barrierVars, found, tableSize, join, pc>>

\* Mutant: the second barrier is missing.
ArriveBuilt_NoBarrier(w) ==
  /\ pc[w] = "insert"
  /\ mine[w] = 0
  /\ join' = [join EXCEPT ![w] = IF @ < NrJoins THEN @ + 1 ELSE @]
  /\ Goto(w, IF join[w] < NrJoins THEN "build" ELSE "probe")
  /\ UNCHANGED <<nesting, barrierVars, tables, mine>>

\* barrier(); // wait for all threads to finish build phase
ArriveBuilt(w) ==
  /\ pc[w] = "insert"
  /\ mine[w] = 0
  /\ Meeting!Arrive(w)
  /\ Goto(w, "waiting")
  /\ UNCHANGED <<nesting, tables, join, mine>>

\* The finalizer of the second barrier does nothing.
FinalizeBuilt(w) ==
  /\ pc[w] = "waiting"
  /\ Meeting!Finalize(w)
  /\ UNCHANGED <<nesting, tables, join, mine, pc>>

\* The next join of the tree is built, if there is one.
LeaveBuilt(w) ==
  /\ pc[w] = "waiting"
  /\ Meeting!Return(w)
  /\ join' = [join EXCEPT ![w] = IF @ < NrJoins THEN @ + 1 ELSE @]
  /\ Goto(w, IF join[w] < NrJoins THEN "build" ELSE "probe")
  /\ UNCHANGED <<nesting, tables, mine>>

\* The probe phase, up to its end: see ProbeSide.
Probe(w) ==
  /\ pc[w] = "probe"
  /\ Goto(w, "end")
  /\ UNCHANGED <<nesting, barrierVars, tables, join, mine>>

Step(w) ==
  \/ Materialize(w)
  \/ Count(w)
  \/ ArriveCounted(w)
  \/ SetSize(w)
  \/ LeaveSizing(w)
  \/ CheckEmpty(w)
  \/ Insert(w)
  \/ ArriveBuilt(w)
  \/ FinalizeBuilt(w)
  \/ LeaveBuilt(w)
  \/ Probe(w)

Terminated == (\A w \in Workers : pc[w] = "end") /\ UNCHANGED vars

Next == (\E w \in Workers : Step(w)) \/ Terminated

Spec == Init /\ [][Next]_vars

\* Worker threads that can run do run; MaxFound bounds what the children of
\* the joins return.
FairSpec == Spec /\ \A w \in Workers : WF_vars(Step(w))

-----------------------------------------------------------------------------
TypeOK ==
  /\ nesting \in {"left", "right"}
  /\ found \in [1 .. NrJoins -> Nat]
  /\ tableSize \in [1 .. NrJoins -> Nat]
  /\ inserted \in [1 .. NrJoins -> Nat]
  /\ join \in [Workers -> 1 .. NrJoins]
  /\ mine \in [Workers -> 0 .. MaxFound]
  /\ pc \in [Workers -> Location]

\* A worker that inserts into the table of a join finds it sized for all the
\* entries of all workers, and the size stays while they insert.
SizedBeforeInsert ==
  \A w \in Workers : pc[w] \in {"insert", "waiting"} =>
     /\ tableSize[join[w]] = found[join[w]]
     /\ inserted[join[w]] <= tableSize[join[w]]

\* Whoever reads the table of a join, to build a later one or to probe, finds
\* all entries of all workers in it, and nobody is inserting any more.
CompleteBeforeProbe ==
  \A w \in Workers : \A k \in 1 .. NrJoins :
     (k < join[w] \/ pc[w] = "probe") =>
        /\ inserted[k] = found[k] /\ tableSize[k] = found[k]
        /\ \A u \in Workers : (join[u] = k /\ pc[u] = "insert") => mine[u] = 0

\* The workers that meet at the barrier have come from the same call of it:
\* nobody runs another join's finalizer, or meets those that are still
\* building in place of those that are done.
SameMeeting ==
  \A w, u \in Workers :
     (calls[w] > returns[w] /\ calls[u] > returns[u] /\ calls[w] = calls[u]) =>
        pc[w] = pc[u] /\ join[w] = join[u]

\* Every worker gets to the end: no barrier waits for one that has left.
EveryJoinEnds == <>(\A w \in Workers : pc[w] = "end")
=============================================================================
