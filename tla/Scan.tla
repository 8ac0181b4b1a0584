-------------------------------- MODULE Scan --------------------------------
(***************************************************************************)
(* vectorwise::Scan (src/vectorwise/Operators.cpp): each worker has a Scan *)
(* of its own over the same columns, and the scans share one counter of    *)
(* chunks.  A scan steps through its chunk one vector at a time; behind    *)
(* its last vector it fetches the number of another chunk and moves its    *)
(* column pointers there with one relative step.                           *)
(***************************************************************************)
EXTENDS Integers

CONSTANTS
  Workers,        \* the worker threads
  TableSizes,     \* the numbers of tuples a table may have
  VecSizes,       \* the vector sizes it may be scanned with
  MorselSize      \* scanMorselSize (10240 in the code)

ASSUME TableSizesAssumption == TableSizes \subseteq Nat
ASSUME VecSizesAssumption == VecSizes \subseteq Nat \ {0}
ASSUME MorselSizeAssumption == MorselSize \in Nat

VARIABLES
  nrTuples,      \* the arguments of the constructor
  vecSize,
  pos,           \* Shared::pos: the number of the next chunk
  needsInit,     \* Scan::needsInit, and so on, of every worker
  currentChunk,
  vecInChunk,
  lastOffset,
  column,        \* how far the column pointers have been moved, in tuples
  step,          \* the local variable of next()
  found,         \* what next() has returned
  pc,            \* "next" in next(), "step" behind the fetch_add in it,
                 \* "work" on a vector, "end" after EndOfStream
  remaining      \* history: the tuples that no worker has seen

table == <<nrTuples, vecSize>>
vars == <<nrTuples, vecSize, pos, needsInit, currentChunk, vecInChunk,
          lastOffset, column, step, found, pc, remaining>>

\* The number of vectors in a chunk.
scanChunkSize == IF vecSize < MorselSize THEN MorselSize \div vecSize + 1 ELSE 1

min(a, b) == IF a <= b THEN a ELSE b

Tuples == 0 .. nrTuples - 1

\* The tuples that worker w sees through its column pointers.
Vector(w) == column[w] .. column[w] + found[w] - 1

Init ==
  /\ nrTuples \in TableSizes
  /\ vecSize \in VecSizes
  /\ pos = 0
  /\ needsInit    = [w \in Workers |-> TRUE]
  /\ currentChunk = [w \in Workers |-> 0]
  /\ vecInChunk   = [w \in Workers |-> scanChunkSize]
  /\ lastOffset   = [w \in Workers |-> 0]
  /\ column       = [w \in Workers |-> 0]
  /\ step         = [w \in Workers |-> 1]
  /\ found        = [w \in Workers |-> 0]
  /\ pc           = [w \in Workers |-> "next"]
  /\ remaining    = Tuples

-----------------------------------------------------------------------------
\* Mutant: the first chunk is approached like the later ones.
StepTo_NoInit(w, chunk) == (chunk - currentChunk[w] - 1) * scanChunkSize + 1

\* Mutant: the step counts from the start of the last chunk, not from its end.
StepTo_FromChunkStart(w, chunk) == (chunk - currentChunk[w]) * scanChunkSize

(***************************************************************************)
(* The distance, in vectors, from the vector that the column pointers are  *)
(* at to the first one of a new chunk.  They start at vector 0, and are at *)
(* the last vector of a chunk later.                                       *)
(***************************************************************************)
StepTo(w, chunk) ==
  LET chunkSkip == chunk - currentChunk[w]
  IN  IF needsInit[w] THEN chunkSkip * scanChunkSize
                      ELSE (chunkSkip - 1) * scanChunkSize + 1

\* if (vecInChunk == scanChunkSize) currentChunk = shared.pos.fetch_add(1) ...
FetchChunk(w) ==
  /\ pc[w] = "next"
  /\ vecInChunk[w] = scanChunkSize
  /\ currentChunk' = [currentChunk EXCEPT ![w] = pos]
  /\ pos' = pos + 1
  /\ step' = [step EXCEPT ![w] = StepTo(w, pos)]
  /\ needsInit' = [needsInit EXCEPT ![w] = FALSE]
  /\ vecInChunk' = [vecInChunk EXCEPT ![w] = 0]
  /\ pc' = [pc EXCEPT ![w] = "step"]
  /\ UNCHANGED <<table, lastOffset, column, found, remaining>>

\* The chunk goes on.
StayInChunk(w) ==
  /\ pc[w] = "next"
  /\ vecInChunk[w] # scanChunkSize
  /\ step' = [step EXCEPT ![w] = 1]
  /\ pc' = [pc EXCEPT ![w] = "step"]
  /\ UNCHANGED <<table, pos, needsInit, currentChunk, vecInChunk, lastOffset,
                 column, found, remaining>>

nextBegin(w) == lastOffset[w] + step[w] * vecSize

nextBatchSize(w) == min(nrTuples - nextBegin(w), vecSize)

\* Mutant: the last vector is taken for the end.
AtEnd_Early(w) == nextBegin(w) + vecSize > nrTuples

AtEnd(w) == nextBegin(w) >= nrTuples

\* The rest of next(), where it returns a vector.
ReturnVector(w) ==
  /\ pc[w] = "step"
  /\ ~AtEnd(w)
  /\ found' = [found EXCEPT ![w] = nextBatchSize(w)]
  /\ column' = [column EXCEPT ![w] = @ + step[w] * vecSize]
  /\ lastOffset' = [lastOffset EXCEPT ![w] = nextBegin(w)]
  /\ vecInChunk' = [vecInChunk EXCEPT ![w] = @ + 1]
  /\ pc' = [pc EXCEPT ![w] = "work"]
  /\ remaining' = remaining \ Vector(w)'
  /\ UNCHANGED <<table, pos, needsInit, currentChunk, step>>

\* return EndOfStream;  nobody calls next() after that.
ReturnEnd(w) ==
  /\ pc[w] = "step"
  /\ AtEnd(w)
  /\ found' = [found EXCEPT ![w] = 0]
  /\ pc' = [pc EXCEPT ![w] = "end"]
  /\ UNCHANGED <<table, pos, needsInit, currentChunk, vecInChunk, lastOffset,
                 column, step, remaining>>

\* The operator above has dealt with the vector and calls next() again.
CallNext(w) ==
  /\ pc[w] = "work"
  /\ pc' = [pc EXCEPT ![w] = "next"]
  /\ UNCHANGED <<table, pos, needsInit, currentChunk, vecInChunk, lastOffset,
                 column, step, found, remaining>>

Step(w) ==
  \/ FetchChunk(w)
  \/ StayInChunk(w)
  \/ ReturnVector(w)
  \/ ReturnEnd(w)
  \/ CallNext(w)

Terminated == (\A w \in Workers : pc[w] = "end") /\ UNCHANGED vars

Next == (\E w \in Workers : Step(w)) \/ Terminated

Spec == Init /\ [][Next]_vars

\* Worker threads that can run do run.
FairSpec == Spec /\ \A w \in Workers : WF_vars(Step(w))

-----------------------------------------------------------------------------
TypeOK ==
  /\ nrTuples \in TableSizes /\ vecSize \in VecSizes
  /\ pos \in Nat
  /\ needsInit \in [Workers -> BOOLEAN]
  /\ currentChunk \in [Workers -> Nat]
  /\ vecInChunk \in [Workers -> 0 .. scanChunkSize]
  /\ lastOffset \in [Workers -> Nat]
  /\ column \in [Workers -> Nat]
  /\ step \in [Workers -> Nat]
  /\ found \in [Workers -> 0 .. vecSize]
  /\ pc \in [Workers -> {"next", "step", "work", "end"}]
  /\ remaining \subseteq Tuples

(***************************************************************************)
(* The scans hand every tuple to exactly one worker, exactly once, and the *)
(* last of them to end leaves nothing behind.                              *)
(***************************************************************************)
Source == INSTANCE Handout WITH
  holding  <- [w \in Workers |-> IF pc[w] = "work" THEN Vector(w) ELSE {}],
  finished <- {w \in Workers : pc[w] = "end"}

Implements == Source!Spec

\* The whole table is scanned and every worker gets its end of stream.
EveryScanEnds == <>(remaining = {} /\ \A w \in Workers : pc[w] = "end")
=============================================================================
