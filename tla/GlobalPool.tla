----------------------------- MODULE GlobalPool -----------------------------
(***************************************************************************)
(* runtime::GlobalPool (src/common/runtime/MemoryPool.cpp): the memory     *)
(* source that all worker threads of a query share.  allocate() bumps the  *)
(* atomic start without a lock; only a thread that finds too little space  *)
(* takes the refill mutex, closes the current chunk, maps a new one and    *)
(* publishes its bounds in two separate stores.  Another thread may read   *)
(* start and end between any two of these steps.                           *)
(*                                                                         *)
(* Addresses are numbers.  The operating system places a chunk wherever    *)
(* there is room: above or below the current one.                          *)
(***************************************************************************)
EXTENDS Naturals, FiniteSets

CONSTANTS
  Threads,        \* the threads that allocate
  Sizes,          \* the sizes they ask for
  Bases,          \* the addresses at which a chunk may be mapped
  Header,         \* sizeof(Chunk)
  InitAllocSize,  \* the size of the first chunk (128 MiB in the code)
  MaxCalls,       \* bound: how many calls of allocate are made
  NoThread        \* the owner of a free mutex

ASSUME SizesAssumption == Sizes \subseteq Nat \ {0}
ASSUME BasesAssumption == Bases \subseteq Nat
ASSUME HeaderAssumption == Header \in Nat \ {0}
ASSUME InitAllocSizeAssumption == InitAllocSize \in Nat \ {0}
ASSUME MaxCallsAssumption == MaxCalls \in Nat
ASSUME NoThreadAssumption == NoThread \notin Threads

VARIABLES
  start,       \* atomic: the first free byte of the current chunk
  end,         \* atomic: the first byte behind it
  refill,      \* the owner of the mutex
  current,     \* the current chunk: the newest, as far as it is published
  allocSize,   \* the size of the newest chunk
  chunks,      \* all chunks mapped so far, the list that starts at current
  pc,          \* where each thread is: see Location
  size,        \* the argument of allocate()
  start_,      \* the local variables of allocate()
  end_,
  chunk,
  \* History variables: nothing above depends on them.
  ncalls,      \* how many calls have been made
  nth,         \* the number of the call that each thread is in
  blocks,      \* what the calls have returned
  active,      \* the chunk that start points into
  opened       \* the chunks that have ever been active

atomics == <<start, end>>
guarded == <<refill, current, allocSize, chunks>>
locals == <<size, start_, end_, chunk>>
calls == <<ncalls, nth, blocks>>
space == <<active, opened>>
vars == <<start, end, refill, current, allocSize, chunks, pc, size, start_,
          end_, chunk, ncalls, nth, blocks, active, opened>>

(***************************************************************************)
(* "idle"        outside of allocate()                                     *)
(* "loadStart", "loadEnd"   the two loads at the head of the loop          *)
(* "lock"        about to lock refill                                      *)
(* "recheckStart", "recheckEnd"   the loads that repeat the test           *)
(* "closeLoad", "closeCas"   the loop that moves start to end              *)
(* "newChunk"    about to map a chunk                                      *)
(* "endFirst", "startSecond"   publication of a chunk below the current    *)
(* "startFirst", "endSecond"   publication of a chunk above it             *)
(* "unlock"      about to set current and to unlock                        *)
(* "cas"         about to claim start_ .. start_ + size                    *)
(***************************************************************************)
Location == {"idle", "loadStart", "loadEnd", "lock", "recheckStart",
             "recheckEnd", "closeLoad", "closeCas", "newChunk", "endFirst",
             "startSecond", "startFirst", "endSecond", "unlock", "cas"}

max(a, b) == IF a >= b THEN a ELSE b

\* A chunk at address b with room for n bytes, its payload, and its extent.
Chunk(b, n) == [base |-> b, size |-> n]
Low(c) == c.base + Header
High(c) == c.base + Header + c.size

\* Mapped memory does not overlap.
Apart(c, d) == High(c) <= d.base \/ High(d) <= c.base

\* What the nth call returns: the address of n bytes.
Block(call, addr, n) == [nth |-> call, addr |-> addr, size |-> n]

goto(t, l) == pc' = [pc EXCEPT ![t] = l]
Full(t, e) == start_[t] + size[t] >= e

Init ==
  /\ \E b \in Bases : current = Chunk(b, InitAllocSize)
  /\ start = Low(current)
  /\ end = High(current)
  /\ chunks = {current}
  /\ chunk = [t \in Threads |-> current]
  /\ active = current
  /\ opened = {current}
  /\ allocSize = InitAllocSize
  /\ refill = NoThread
  /\ pc     = [t \in Threads |-> "idle"]
  /\ size   = [t \in Threads |-> 0]
  /\ start_ = [t \in Threads |-> 0]
  /\ end_   = [t \in Threads |-> 0]
  /\ blocks = {}
  /\ nth    = [t \in Threads |-> 0]
  /\ ncalls = 0

-----------------------------------------------------------------------------
\* A call of allocate(n).
Call(t, n) ==
  /\ pc[t] = "idle"
  /\ ncalls < MaxCalls
  /\ ncalls' = ncalls + 1
  /\ nth' = [nth EXCEPT ![t] = ncalls + 1]
  /\ size' = [size EXCEPT ![t] = n]
  /\ goto(t, "loadStart")
  /\ UNCHANGED <<atomics, guarded, start_, end_, chunk, blocks, space>>

\* start_ = start.load();
LoadStart(t) ==
  /\ pc[t] = "loadStart"
  /\ start_' = [start_ EXCEPT ![t] = start]
  /\ goto(t, "loadEnd")
  /\ UNCHANGED <<atomics, guarded, size, end_, chunk, calls, space>>

\* end_ = end.load();  if (start_ + size >= end_)
LoadEnd(t) ==
  /\ pc[t] = "loadEnd"
  /\ end_' = [end_ EXCEPT ![t] = end]
  /\ goto(t, IF Full(t, end) THEN "lock" ELSE "cas")
  /\ UNCHANGED <<atomics, guarded, size, start_, chunk, calls, space>>

\* std::lock_guard<std::mutex> lock(refill);
Lock(t) ==
  /\ pc[t] = "lock"
  /\ refill = NoThread
  /\ refill' = t
  /\ goto(t, "recheckStart")
  /\ UNCHANGED <<atomics, current, allocSize, chunks, locals, calls, space>>

\* start_ = start.load();
RecheckStart(t) ==
  /\ pc[t] = "recheckStart"
  /\ start_' = [start_ EXCEPT ![t] = start]
  /\ goto(t, "recheckEnd")
  /\ UNCHANGED <<atomics, guarded, size, end_, chunk, calls, space>>

\* Mutant: the early exit keeps the mutex.
RecheckEnd_KeepsLock(t) ==
  /\ pc[t] = "recheckEnd"
  /\ end_' = [end_ EXCEPT ![t] = end]
  /\ goto(t, IF Full(t, end) THEN "closeLoad" ELSE "loadStart")
  /\ UNCHANGED <<atomics, guarded, size, start_, chunk, calls, space>>

\* end_ = end.load();  if (start_ + size >= end_) ... else goto restart;
RecheckEnd(t) ==
  /\ pc[t] = "recheckEnd"
  /\ end_' = [end_ EXCEPT ![t] = end]
  /\ goto(t, IF Full(t, end) THEN "closeLoad" ELSE "loadStart")
  /\ refill' = IF Full(t, end) THEN t ELSE NoThread
  /\ UNCHANGED <<atomics, current, allocSize, chunks, size, start_, chunk, calls, space>>

\* do end_ = end.load();
CloseLoad(t) ==
  /\ pc[t] = "closeLoad"
  /\ end_' = [end_ EXCEPT ![t] = end]
  /\ goto(t, "closeCas")
  /\ UNCHANGED <<atomics, guarded, size, start_, chunk, calls, space>>

\* while (!start.compare_exchange_weak(start_, end_));
CloseCas(t) ==
  /\ pc[t] = "closeCas"
  /\ IF start = start_[t]
     THEN /\ start' = end_[t]
          /\ goto(t, "newChunk")
          /\ UNCHANGED start_
     ELSE /\ start_' = [start_ EXCEPT ![t] = start]
          /\ goto(t, "closeLoad")
          /\ UNCHANGED start
  /\ UNCHANGED <<end, guarded, size, end_, chunk, calls, space>>

\* Mutant: the new chunk has the size of the last one, whatever is asked for.
NewChunk_NotGrown(t) ==
  /\ pc[t] = "newChunk"
  /\ \E b \in Bases :
        LET c == Chunk(b, allocSize) IN
        /\ \A d \in chunks : Apart(c, d)
        /\ chunks' = chunks \cup {c}
        /\ chunk' = [chunk EXCEPT ![t] = c]
        /\ start_' = [start_ EXCEPT ![t] = Low(c)]
        /\ end_' = [end_ EXCEPT ![t] = High(c)]
        /\ goto(t, IF b < current.base THEN "endFirst" ELSE "startFirst")
  /\ UNCHANGED <<atomics, refill, current, allocSize, size, calls, space>>

\* Mutant: the stores are made in the wrong order.
NewChunk_WrongOrder(t) ==
  /\ pc[t] = "newChunk"
  /\ allocSize' = max(allocSize * 2, size[t])
  /\ \E b \in Bases :
        LET c == Chunk(b, allocSize') IN
        /\ \A d \in chunks : Apart(c, d)
        /\ chunks' = chunks \cup {c}
        /\ chunk' = [chunk EXCEPT ![t] = c]
        /\ start_' = [start_ EXCEPT ![t] = Low(c)]
        /\ end_' = [end_ EXCEPT ![t] = High(c)]
        /\ goto(t, IF b > current.base THEN "endFirst" ELSE "startFirst")
  /\ UNCHANGED <<atomics, refill, current, size, calls, space>>

(***************************************************************************)
(* allocSize = max(allocSize * 2, size);  chunk = newChunk(allocSize);     *)
(* the order of the two stores depends on where the chunk lies.            *)
(***************************************************************************)
NewChunk(t) ==
  /\ pc[t] = "newChunk"
  /\ allocSize' = max(allocSize * 2, size[t])
  /\ \E b \in Bases :
        LET c == Chunk(b, allocSize') IN
        /\ \A d \in chunks : Apart(c, d)
        /\ chunks' = chunks \cup {c}
        /\ chunk' = [chunk EXCEPT ![t] = c]
        /\ start_' = [start_ EXCEPT ![t] = Low(c)]
        /\ end_' = [end_ EXCEPT ![t] = High(c)]
        /\ goto(t, IF b < current.base THEN "endFirst" ELSE "startFirst")
  /\ UNCHANGED <<atomics, refill, current, size, calls, space>>

\* end = end_;
StoreEnd(t) ==
  /\ pc[t] \in {"endFirst", "endSecond"}
  /\ end' = end_[t]
  /\ goto(t, IF pc[t] = "endFirst" THEN "startSecond" ELSE "unlock")
  /\ UNCHANGED <<start, guarded, locals, calls, space>>

\* start = start_;
StoreStart(t) ==
  /\ pc[t] \in {"startFirst", "startSecond"}
  /\ start' = start_[t]
  /\ goto(t, IF pc[t] = "startFirst" THEN "endSecond" ELSE "unlock")
  /\ active' = chunk[t]
  /\ opened' = opened \cup {chunk[t]}
  /\ UNCHANGED <<end, guarded, locals, calls>>

\* current = chunk;  the lock_guard goes out of scope
Unlock(t) ==
  /\ pc[t] = "unlock"
  /\ current' = chunk[t]
  /\ refill' = NoThread
  /\ goto(t, "cas")
  /\ UNCHANGED <<atomics, allocSize, chunks, locals, calls, space>>

\* Mutant: the claim is a load and a store instead of a compare-exchange.
Claim_NoCompare(t) ==
  /\ pc[t] = "cas"
  /\ start' = start_[t] + size[t]
  /\ blocks' = blocks \cup {Block(nth[t], start_[t], size[t])}
  /\ goto(t, "idle")
  /\ UNCHANGED <<end, guarded, locals, ncalls, nth, space>>

\* alloc = start_;  while (!start.compare_exchange_weak(start_, start_ + size));
Claim(t) ==
  /\ pc[t] = "cas"
  /\ IF start = start_[t]
     THEN /\ start' = start_[t] + size[t]
          /\ blocks' = blocks \cup {Block(nth[t], start_[t], size[t])}
          /\ goto(t, "idle")
          /\ UNCHANGED start_
     ELSE /\ start_' = [start_ EXCEPT ![t] = start]
          /\ goto(t, "loadStart")
          /\ UNCHANGED <<start, blocks>>
  /\ UNCHANGED <<end, guarded, size, end_, chunk, ncalls, nth, space>>

\* Every step of allocate() but the call itself.
Step(t) ==
  \/ LoadStart(t)
  \/ LoadEnd(t)
  \/ Lock(t)
  \/ RecheckStart(t)
  \/ RecheckEnd(t)
  \/ CloseLoad(t)
  \/ CloseCas(t)
  \/ NewChunk(t)
  \/ StoreEnd(t)
  \/ StoreStart(t)
  \/ Unlock(t)
  \/ Claim(t)

\* All calls have been made and have returned: the only state to stop in.
Terminated ==
  /\ ncalls = MaxCalls
  /\ \A t \in Threads : pc[t] = "idle"
  /\ UNCHANGED vars

Next ==
  \/ \E t \in Threads : Step(t) \/ \E n \in Sizes : Call(t, n)
  \/ Terminated

Spec == Init /\ [][Next]_vars

\* Threads inside allocate() are scheduled; the mutex need not be handed on
\* fairly, as only finitely many calls are made.
FairSpec == Spec /\ \A t \in Threads : WF_vars(Step(t))

-----------------------------------------------------------------------------
ChunkRecord == [base : Bases, size : Nat \ {0}]

TypeOK ==
  /\ start \in Nat /\ end \in Nat
  /\ refill \in Threads \cup {NoThread}
  /\ current \in chunks
  /\ allocSize \in Nat \ {0}
  /\ chunks \subseteq ChunkRecord
  /\ pc \in [Threads -> Location]
  /\ size \in [Threads -> Sizes \cup {0}]
  /\ start_ \in [Threads -> Nat]
  /\ end_ \in [Threads -> Nat]
  /\ chunk \in [Threads -> chunks]
  /\ ncalls \in Nat
  /\ nth \in [Threads -> Nat]
  /\ blocks \subseteq [nth : Nat, addr : Nat, size : Sizes]
  /\ active \in opened
  /\ opened \subseteq chunks

\* No byte is handed out twice, to whichever threads.
BlocksAreDisjoint ==
  \A x, y \in blocks : x # y =>
     x.addr + x.size <= y.addr \/ y.addr + y.size <= x.addr

\* What is handed out lies in the payload of one mapped chunk, so it neither
\* runs over the end of a chunk nor over the list of chunks.
BlocksAreMapped ==
  \A x \in blocks : \E c \in chunks :
     Low(c) <= x.addr /\ x.addr + x.size <= High(c)

(***************************************************************************)
(* The claim needs no second look at end: whoever is about to exchange a   *)
(* start that is still current has enough room behind it, although its     *)
(* test may have mixed the bounds of two chunks.                           *)
(***************************************************************************)
ClaimIsSafe ==
  \A t \in Threads : (pc[t] = "cas" /\ start_[t] = start) =>
     \E c \in chunks : Low(c) <= start /\ start + size[t] <= High(c)

\* Every call of allocate() returns.
EveryCallReturns == \A t \in Threads : (pc[t] # "idle") ~> (pc[t] = "idle")
=============================================================================
