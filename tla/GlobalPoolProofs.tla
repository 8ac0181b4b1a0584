-------------------------- MODULE GlobalPoolProofs --------------------------
(***************************************************************************)
(* Theorems about GlobalPool, for every number of threads, every set of    *)
(* sizes and every placement of the chunks by the operating system.        *)
(***************************************************************************)
EXTENDS GlobalPool, TLAPS

USE SizesAssumption, BasesAssumption, HeaderAssumption,
    InitAllocSizeAssumption, MaxCallsAssumption, NoThreadAssumption

-----------------------------------------------------------------------------
(***************************************************************************)
(* The inductive invariant.                                                *)
(***************************************************************************)
Critical == {"recheckStart", "recheckEnd", "closeLoad", "closeCas", "newChunk",
             "endFirst", "startSecond", "startFirst", "endSecond", "unlock"}

\* The mutex protects what it should.
MutexInv == \A t \in Threads : pc[t] \in Critical <=> refill = t

\* The arguments of pending calls.
SizeInv == \A t \in Threads : pc[t] # "idle" => size[t] \in Sizes

ChunksInv == \A c, d \in chunks : c # d => Apart(c, d)

\* start never leaves the active chunk, and end is never beyond that chunk,
\* although it may belong to another one.
BoundsInv ==
  /\ Low(active) <= start /\ start <= High(active)
  /\ end <= High(active)

\* Closed: nobody can claim anything.  The chunk is active once start points
\* into it, and current once the mutex is released.
PhaseInv ==
  /\ \A t \in Threads :
        /\ pc[t] \in {"closeCas", "startSecond"} => end_[t] = end
        /\ pc[t] \in {"newChunk", "endFirst", "startFirst", "startSecond"} =>
              active = current /\ start = High(active)
        /\ pc[t] \in {"endFirst", "startSecond", "startFirst", "endSecond"} =>
              /\ start_[t] = Low(chunk[t]) /\ end_[t] = High(chunk[t])
              /\ chunk[t] # current /\ size[t] <= chunk[t].size
        /\ pc[t] \in {"endFirst", "startFirst", "startSecond"} =>
              chunk[t] \notin opened
        /\ pc[t] \in {"endFirst", "startSecond"} => High(chunk[t]) <= current.base
        /\ pc[t] = "startFirst" => High(current) <= chunk[t].base
        /\ pc[t] \in {"endSecond", "unlock"} => active = chunk[t]
        /\ pc[t] = "unlock" => end = High(active)
  /\ (\A t \in Threads : pc[t] \notin {"startSecond", "endSecond", "unlock"}) =>
        active = current /\ end = High(active)

\* An address that start has left for good.
Past(v) ==
  \E c \in opened : Low(c) <= v /\ v <= High(c) /\ (c = active => v < start)

\* What a thread has read from start is still there or will never be again.
ReadInv ==
  \A t \in Threads :
     pc[t] \in {"loadEnd", "endSecond", "unlock", "cas"} =>
        start_[t] = start \/ Past(start_[t])

\* If it is still there, the thread may claim it.
ClaimInv ==
  \A t \in Threads :
     (pc[t] \in {"endSecond", "unlock", "cas"} /\ start_[t] = start) =>
        start + size[t] <= High(active)

\* The blocks handed out lie in the past.
BlocksInv ==
  \A x \in blocks : \E c \in opened :
     /\ Low(c) <= x.addr /\ x.addr + x.size <= High(c)
     /\ c = active => x.addr + x.size <= start

IInv ==
  /\ TypeOK
  /\ MutexInv
  /\ SizeInv
  /\ ChunksInv
  /\ BoundsInv
  /\ PhaseInv
  /\ ReadInv
  /\ ClaimInv
  /\ BlocksInv
  /\ BlocksAreDisjoint

-----------------------------------------------------------------------------
LEMMA ChunkType ==
  ASSUME NEW c \in ChunkRecord
  PROVE  /\ c.base \in Nat /\ c.size \in Nat \ {0}
         /\ Low(c) \in Nat /\ High(c) \in Nat
         /\ c.base < Low(c) /\ Low(c) < High(c)
         /\ High(c) = Low(c) + c.size
  <1>1. c.base \in Nat /\ c.size \in Nat \ {0}
    BY DEF ChunkRecord
  <1> QED
    BY <1>1 DEF Low, High

LEMMA InitIInv == Init => IInv
  <1> SUFFICES ASSUME Init PROVE IInv
    OBVIOUS
  <1>1. PICK b \in Bases : current = Chunk(b, InitAllocSize)
    BY DEF Init
  <1>2. current \in ChunkRecord
    BY <1>1 DEF Chunk, ChunkRecord
  <1>3. TypeOK
    BY <1>2, ChunkType DEF Init, TypeOK, Location
  <1>4. MutexInv /\ SizeInv /\ ChunksInv /\ PhaseInv /\ ReadInv /\ ClaimInv
    BY DEF Init, MutexInv, SizeInv, ChunksInv, PhaseInv, ReadInv, ClaimInv, Critical
  <1>5. BoundsInv
    BY <1>2, ChunkType DEF Init, BoundsInv
  <1>6. BlocksInv /\ BlocksAreDisjoint
    BY DEF Init, BlocksInv, BlocksAreDisjoint
  <1> QED
    BY <1>3, <1>4, <1>5, <1>6 DEF IInv

-----------------------------------------------------------------------------
(***************************************************************************)
(* Facts about a state that satisfies the invariant.                       *)
(***************************************************************************)
LEMMA ActiveChunk ==
  ASSUME IInv
  PROVE  /\ active \in ChunkRecord /\ current \in ChunkRecord
         /\ active \in chunks /\ active \in opened
         /\ Low(active) \in Nat /\ High(active) \in Nat
         /\ Low(active) <= start /\ start <= High(active)
  BY ChunkType DEF IInv, TypeOK, BoundsInv

\* What is past is not ahead in the active chunk: start will not get there.
LEMMA PastIsNotAhead ==
  ASSUME IInv, NEW v \in Nat, Past(v), start <= v, v <= High(active)
  PROVE  FALSE
  <1>1. PICK c \in opened : Low(c) <= v /\ v <= High(c) /\ (c = active => v < start)
    BY DEF Past
  <1>2. CASE c = active
    BY <1>1, <1>2 DEF IInv, TypeOK
  <1>3. CASE c # active
    <2>1. c \in chunks /\ c \in ChunkRecord
      BY DEF IInv, TypeOK
    <2>2. High(c) <= active.base \/ High(active) <= c.base
      BY <1>3, <2>1, ActiveChunk DEF IInv, ChunksInv, Apart
    <2>3. /\ c.base \in Nat /\ Low(c) \in Nat /\ High(c) \in Nat
          /\ c.base < Low(c)
          /\ active.base \in Nat /\ active.base < Low(active)
      BY <2>1, ActiveChunk, ChunkType
    <2> QED
      BY <1>1, <2>2, <2>3, ActiveChunk DEF IInv, TypeOK
  <1> QED
    BY <1>2, <1>3

\* Steps that leave the memory alone keep what is said about it.
LEMMA SameMemory ==
  ASSUME IInv, UNCHANGED <<start, end, blocks, active, opened>>
  PROVE  /\ BoundsInv' /\ BlocksInv' /\ BlocksAreDisjoint'
         /\ chunks' = chunks => ChunksInv'
         /\ \A v : Past(v)' <=> Past(v)
  <1>1. BoundsInv' /\ (chunks' = chunks => ChunksInv')
    BY DEF IInv, ChunksInv, BoundsInv, Apart, Low, High
  <1>2. BlocksInv' /\ BlocksAreDisjoint'
    BY DEF IInv, BlocksInv, BlocksAreDisjoint, Low, High
  <1>3. \A v : Past(v)' <=> Past(v)
    BY DEF Past, Low, High
  <1> QED
    BY <1>1, <1>2, <1>3

-----------------------------------------------------------------------------
(***************************************************************************)
(* One lemma per action.                                                   *)
(***************************************************************************)
LEMMA CallKeeps ==
  ASSUME IInv, NEW t \in Threads, NEW n \in Sizes, Call(t, n)
  PROVE  IInv'
  <1> USE DEF Call, goto, atomics, guarded, space
  <1>1. TypeOK' /\ SizeInv'
    BY DEF IInv, TypeOK, SizeInv, Location
  <1>2. MutexInv'
    BY DEF IInv, TypeOK, MutexInv, Critical
  <1>3. PhaseInv'
    BY DEF IInv, TypeOK, PhaseInv, Low, High
  <1>4. ReadInv' /\ ClaimInv'
    BY SameMemory DEF IInv, TypeOK, ReadInv, ClaimInv, High
  <1> QED
    BY <1>1, <1>2, <1>3, <1>4, SameMemory DEF IInv

LEMMA LoadStartKeeps ==
  ASSUME IInv, NEW t \in Threads, LoadStart(t)
  PROVE  IInv'
  <1> USE DEF LoadStart, goto, atomics, guarded, calls, space
  <1>1. TypeOK' /\ SizeInv'
    BY DEF IInv, TypeOK, SizeInv, Location
  <1>2. MutexInv'
    BY DEF IInv, TypeOK, MutexInv, Critical
  <1>3. PhaseInv'
    BY DEF IInv, TypeOK, PhaseInv, Low, High
  <1>4. ReadInv' /\ ClaimInv'
    BY SameMemory DEF IInv, TypeOK, ReadInv, ClaimInv, High
  <1> QED
    BY <1>1, <1>2, <1>3, <1>4, SameMemory DEF IInv

\* The two loads may mix the bounds of two chunks; but if start has not
\* moved, end, wherever it points, is not beyond the active chunk.
LEMMA LoadEndKeeps ==
  ASSUME IInv, NEW t \in Threads, LoadEnd(t)
  PROVE  IInv'
  <1> USE DEF LoadEnd, goto, atomics, guarded, calls, space
  <1>1. TypeOK' /\ SizeInv'
    BY DEF IInv, TypeOK, SizeInv, Location
  <1>2. MutexInv'
    BY DEF IInv, TypeOK, MutexInv, Critical
  <1>3. PhaseInv'
    BY DEF IInv, TypeOK, PhaseInv, Low, High
  <1>4. ReadInv'
    BY SameMemory DEF IInv, TypeOK, ReadInv
  <1>5. ClaimInv'
    <2>1. size[t] \in Nat /\ end \in Nat /\ start \in Nat /\ end <= High(active)
      BY DEF IInv, TypeOK, SizeInv, BoundsInv
    <2>2. (start_[t] = start /\ ~Full(t, end)) => start + size[t] <= High(active)
      BY <2>1, ActiveChunk DEF Full
    <2> QED
      BY <2>2 DEF IInv, TypeOK, ClaimInv, High
  <1> QED
    BY <1>1, <1>2, <1>3, <1>4, <1>5, SameMemory DEF IInv

LEMMA LockKeeps ==
  ASSUME IInv, NEW t \in Threads, Lock(t)
  PROVE  IInv'
  <1> USE DEF Lock, goto, atomics, calls, space, locals
  <1>1. TypeOK' /\ SizeInv'
    BY DEF IInv, TypeOK, SizeInv, Location
  <1>2. MutexInv'
    BY DEF IInv, TypeOK, MutexInv, Critical
  <1>3. PhaseInv'
    BY DEF IInv, TypeOK, PhaseInv, Low, High
  <1>4. ReadInv' /\ ClaimInv'
    BY SameMemory DEF IInv, TypeOK, ReadInv, ClaimInv, High
  <1> QED
    BY <1>1, <1>2, <1>3, <1>4, SameMemory DEF IInv

LEMMA RecheckStartKeeps ==
  ASSUME IInv, NEW t \in Threads, RecheckStart(t)
  PROVE  IInv'
  <1> USE DEF RecheckStart, goto, atomics, guarded, calls, space
  <1>1. TypeOK' /\ SizeInv'
    BY DEF IInv, TypeOK, SizeInv, Location
  <1>2. MutexInv'
    BY DEF IInv, TypeOK, MutexInv, Critical
  <1>3. PhaseInv'
    BY DEF IInv, TypeOK, PhaseInv, Low, High
  <1>4. ReadInv' /\ ClaimInv'
    BY SameMemory DEF IInv, TypeOK, ReadInv, ClaimInv, High
  <1> QED
    BY <1>1, <1>2, <1>3, <1>4, SameMemory DEF IInv

LEMMA RecheckEndKeeps ==
  ASSUME IInv, NEW t \in Threads, RecheckEnd(t)
  PROVE  IInv'
  <1> USE DEF RecheckEnd, goto, atomics, calls, space
  <1>1. TypeOK' /\ SizeInv'
    BY DEF IInv, TypeOK, SizeInv, Location
  <1>2. MutexInv'
    BY DEF IInv, TypeOK, MutexInv, Critical
  <1>3. PhaseInv'
    BY DEF IInv, TypeOK, PhaseInv, MutexInv, Critical, Low, High
  <1>4. ReadInv' /\ ClaimInv'
    BY SameMemory DEF IInv, TypeOK, ReadInv, ClaimInv, High
  <1> QED
    BY <1>1, <1>2, <1>3, <1>4, SameMemory DEF IInv

LEMMA CloseLoadKeeps ==
  ASSUME IInv, NEW t \in Threads, CloseLoad(t)
  PROVE  IInv'
  <1> USE DEF CloseLoad, goto, atomics, guarded, calls, space
  <1>1. TypeOK' /\ SizeInv'
    BY DEF IInv, TypeOK, SizeInv, Location
  <1>2. MutexInv'
    BY DEF IInv, TypeOK, MutexInv, Critical
  <1>3. PhaseInv'
    BY DEF IInv, TypeOK, PhaseInv, Low, High
  <1>4. ReadInv' /\ ClaimInv'
    BY SameMemory DEF IInv, TypeOK, ReadInv, ClaimInv, High
  <1> QED
    BY <1>1, <1>2, <1>3, <1>4, SameMemory DEF IInv

\* Whoever holds the mutex outside of a publication sees the current chunk.
LEMMA HolderSeesCurrent ==
  ASSUME IInv, NEW t \in Threads, pc[t] \in Critical,
         pc[t] \notin {"startSecond", "endSecond", "unlock"}
  PROVE  /\ active = current /\ end = High(active)
         /\ \A u \in Threads \ {t} : pc[u] \notin Critical
  <1>1. \A u \in Threads \ {t} : pc[u] \notin Critical
    BY DEF IInv, MutexInv
  <1> QED
    BY <1>1 DEF IInv, PhaseInv, Critical

\* Moving start forward inside the active chunk makes what was read past.
LEMMA StartMovesForward ==
  ASSUME IInv, start' \in Nat, start < start', start' <= High(active),
         UNCHANGED <<active, opened>>
  PROVE  \A v \in Nat : v = start \/ Past(v) => Past(v)'
  <1>1. ASSUME NEW v \in Nat, v = start
        PROVE  Past(v)'
    BY <1>1, ActiveChunk DEF Past, Low, High
  <1>2. ASSUME NEW v \in Nat, Past(v)
        PROVE  Past(v)'
    BY <1>2, ActiveChunk DEF Past, Low, High, IInv, TypeOK
  <1> QED
    BY <1>1, <1>2

LEMMA BlocksStayPast ==
  ASSUME IInv, start' \in Nat, start <= start', NEW x \in blocks
  PROVE  \E c \in opened : /\ Low(c) <= x.addr /\ x.addr + x.size <= High(c)
                           /\ c = active => x.addr + x.size <= start'
  <1>1. x.addr \in Nat /\ x.size \in Nat /\ start \in Nat
    BY DEF IInv, TypeOK
  <1>2. x.addr + x.size \in Nat
    BY <1>1
  <1>3. PICK c \in opened : /\ Low(c) <= x.addr /\ x.addr + x.size <= High(c)
                            /\ c = active => x.addr + x.size <= start
    BY DEF IInv, BlocksInv
  <1>4. c = active => x.addr + x.size <= start'
    BY <1>1, <1>2, <1>3
  <1> QED
    BY <1>3, <1>4

LEMMA CloseCasKeeps ==
  ASSUME IInv, NEW t \in Threads, CloseCas(t)
  PROVE  IInv'
  <1> USE DEF CloseCas, goto, guarded, calls, space
  <1>1. /\ active = current /\ end = High(active) /\ end_[t] = end
        /\ \A u \in Threads \ {t} : pc[u] \notin Critical
    BY HolderSeesCurrent DEF Critical, IInv, PhaseInv
  <1>2. TypeOK' /\ SizeInv'
    BY DEF IInv, TypeOK, SizeInv, Location
  <1>3. MutexInv'
    BY DEF IInv, TypeOK, MutexInv, Critical
  <1>4. CASE start # start_[t]
    <2> USE <1>4
    <2>1. PhaseInv'
      BY <1>1 DEF IInv, TypeOK, PhaseInv, Critical, Low, High
    <2>2. ReadInv' /\ ClaimInv'
      BY SameMemory DEF IInv, TypeOK, ReadInv, ClaimInv, High
    <2> QED
      BY <1>2, <1>3, <2>1, <2>2, SameMemory DEF IInv
  <1>5. CASE start = start_[t]
    <2> USE <1>5
    <2>1. start' = High(active) /\ start <= start'
      BY <1>1, ActiveChunk
    <2>2. CASE start = start'
      <3>1. PhaseInv'
        BY <1>1, <2>1, <2>2 DEF IInv, TypeOK, PhaseInv, Critical, Low, High
      <3>2. ReadInv' /\ ClaimInv'
        BY <2>2, SameMemory DEF IInv, TypeOK, ReadInv, ClaimInv, High
      <3> QED
        BY <1>2, <1>3, <2>2, <3>1, <3>2, SameMemory DEF IInv
    <2>3. CASE start # start'
      <3>1. start < start' /\ start' \in Nat
        BY <1>2, <2>1, <2>3, ActiveChunk DEF IInv, TypeOK
      <3>2. PhaseInv'
        BY <1>1, <2>1 DEF IInv, TypeOK, PhaseInv, Critical, Low, High
      <3>3. ASSUME NEW u \in Threads,
                   pc'[u] \in {"loadEnd", "endSecond", "unlock", "cas"}
            PROVE  Past(start_[u])'
        <4>1. start_[u] \in Nat /\ (start_[u] = start \/ Past(start_[u]))
          BY <3>3, <1>5 DEF IInv, TypeOK, ReadInv
        <4>2. \A v \in Nat : v = start \/ Past(v) => Past(v)'
          BY <2>1, <3>1, ActiveChunk, StartMovesForward
        <4> QED
          BY <4>1, <4>2, start_' = start_
      <3>4. ReadInv'
        BY <3>3 DEF ReadInv
      <3>5. ClaimInv'
        <4>1. ASSUME NEW u \in Threads, start_[u] = start',
                     pc[u] \in {"endSecond", "unlock", "cas"}
              PROVE  FALSE
          BY <3>1, <4>1, <2>1, PastIsNotAhead, ActiveChunk DEF IInv, TypeOK, ReadInv
        <4> QED
          BY <4>1 DEF IInv, TypeOK, ClaimInv
      <3>6. ChunksInv' /\ BoundsInv'
        <4>1. Low(active) <= start' /\ start' <= High(active) /\ end <= High(active)
          BY <1>1, <2>1, ActiveChunk, ChunkType
        <4>2. BoundsInv'
          BY <4>1 DEF BoundsInv, Low, High
        <4> QED
          BY <4>2 DEF IInv, ChunksInv, Apart, Low, High
      <3>7. BlocksInv'
        <4>1. active' = active /\ opened' = opened /\ blocks' = blocks
          OBVIOUS
        <4> QED
          BY <2>1, <3>1, <4>1, BlocksStayPast DEF BlocksInv, Low, High
      <3>8. BlocksAreDisjoint'
        BY DEF IInv, BlocksAreDisjoint
      <3> QED
        BY <1>2, <1>3, <3>2, <3>4, <3>5, <3>6, <3>7, <3>8 DEF IInv
    <2> QED
      BY <2>2, <2>3
  <1> QED
    BY <1>4, <1>5

LEMMA NewChunkKeeps ==
  ASSUME IInv, NEW t \in Threads, NewChunk(t)
  PROVE  IInv'
  <1> USE DEF goto, atomics, calls, space
  <1> DEFINE c == chunk'[t]
  <1>1. /\ active = current /\ end = High(active) /\ start = High(active)
        /\ \A u \in Threads \ {t} : pc[u] \notin Critical
        /\ pc[t] = "newChunk" /\ size[t] \in Nat
    BY HolderSeesCurrent DEF Critical, IInv, PhaseInv, SizeInv, TypeOK, NewChunk
  <1>2. allocSize' \in Nat \ {0} /\ size[t] <= allocSize'
    BY <1>1 DEF IInv, TypeOK, NewChunk, max
  <1>3. /\ c.base \in Bases /\ c.size = allocSize' /\ c \in ChunkRecord
        /\ \A d \in chunks : Apart(c, d)
        /\ chunks' = chunks \cup {c}
        /\ chunk' = [chunk EXCEPT ![t] = c]
        /\ start_' = [start_ EXCEPT ![t] = Low(c)]
        /\ end_' = [end_ EXCEPT ![t] = High(c)]
        /\ goto(t, IF c.base < current.base THEN "endFirst" ELSE "startFirst")
    BY <1>2 DEF NewChunk, Chunk, ChunkRecord, IInv, TypeOK
  <1>4. UNCHANGED <<start, end, refill, current, size, blocks, active, opened>>
    BY DEF NewChunk
  <1> HIDE DEF c
  <1>5. c \notin chunks
    BY <1>3, ChunkType DEF Apart
  <1>6. c.size = allocSize' /\ size[t] <= c.size
    BY <1>2, <1>3
  <1>7. IF c.base < current.base THEN High(c) <= current.base ELSE High(current) <= c.base
    <2>1. current \in chunks /\ current \in ChunkRecord
      BY DEF IInv, TypeOK
    <2> QED
      BY <1>3, <2>1, ChunkType DEF Apart
  <1>8. TypeOK' /\ SizeInv'
    <2>1. UNCHANGED <<ncalls, nth>>
      BY DEF NewChunk
    <2> QED
      BY <1>1, <1>2, <1>3, <1>4, <2>1, ChunkType DEF IInv, TypeOK, SizeInv, Location
  <1>9. MutexInv'
    BY <1>1, <1>3, <1>4 DEF IInv, TypeOK, MutexInv, Critical
  <1>10. ChunksInv'
    <2>1. \A d, e \in chunks' : d # e => Apart(d, e)
      BY <1>3 DEF IInv, ChunksInv, Apart
    <2> QED
      BY <2>1 DEF ChunksInv, Apart, Low, High
  <1>11. PhaseInv'
    BY <1>1, <1>3, <1>4, <1>5, <1>6, <1>7 DEF IInv, TypeOK, PhaseInv, Critical, Low, High
  <1>12. ReadInv' /\ ClaimInv'
    BY <1>1, <1>3, <1>4, SameMemory DEF IInv, TypeOK, ReadInv, ClaimInv, High
  <1> QED
    BY <1>4, <1>8, <1>9, <1>10, <1>11, <1>12, SameMemory DEF IInv

LEMMA StoreEndKeeps ==
  ASSUME IInv, NEW t \in Threads, StoreEnd(t)
  PROVE  IInv'
  <1> USE DEF StoreEnd, goto, guarded, locals, calls, space
  <1>1. end' = High(chunk[t]) /\ chunk[t] \in ChunkRecord
    BY DEF IInv, TypeOK, PhaseInv
  <1>2. \A u \in Threads \ {t} : pc[u] \notin Critical
    BY DEF IInv, MutexInv, Critical
  <1>3. TypeOK' /\ SizeInv'
    BY DEF IInv, TypeOK, SizeInv, Location
  <1>4. MutexInv'
    BY DEF IInv, TypeOK, MutexInv, Critical
  <1>5. BoundsInv'
    <2>1. end' <= High(active)
      BY <1>1, ActiveChunk, ChunkType DEF IInv, TypeOK, PhaseInv
    <2> QED
      BY <2>1 DEF IInv, BoundsInv, Low, High
  <1>6. PhaseInv'
    BY <1>1, <1>2 DEF IInv, TypeOK, PhaseInv, Critical, Low, High
  <1>7. ReadInv' /\ ClaimInv'
    <2>1. \A v : Past(v)' <=> Past(v)
      BY DEF Past, Low, High
    <2> QED
      BY <2>1 DEF IInv, TypeOK, ReadInv, ClaimInv, High
  <1>8. ChunksInv' /\ BlocksInv' /\ BlocksAreDisjoint'
    BY DEF IInv, ChunksInv, BlocksInv, BlocksAreDisjoint, Apart, Low, High
  <1> QED
    BY <1>3, <1>4, <1>5, <1>6, <1>7, <1>8 DEF IInv

LEMMA UnlockKeeps ==
  ASSUME IInv, NEW t \in Threads, Unlock(t)
  PROVE  IInv'
  <1> USE DEF Unlock, goto, atomics, locals, calls, space
  <1>1. \A u \in Threads \ {t} : pc[u] \notin Critical
    BY DEF IInv, MutexInv, Critical
  <1>2. TypeOK' /\ SizeInv'
    BY DEF IInv, TypeOK, SizeInv, Location
  <1>3. MutexInv'
    BY DEF IInv, TypeOK, MutexInv, Critical
  <1>4. PhaseInv'
    BY <1>1 DEF IInv, TypeOK, PhaseInv, Critical, Low, High
  <1>5. ReadInv' /\ ClaimInv'
    BY SameMemory DEF IInv, TypeOK, ReadInv, ClaimInv, High
  <1> QED
    BY <1>2, <1>3, <1>4, <1>5, SameMemory DEF IInv

\* start moves to the new chunk: everything read before is past, and nobody
\* who read it can meet the new start.
LEMMA StoreStartKeeps ==
  ASSUME IInv, NEW t \in Threads, StoreStart(t)
  PROVE  IInv'
  <1> USE DEF StoreStart, goto, guarded, locals, calls
  <1>1. /\ start' = Low(chunk[t]) /\ end_[t] = High(chunk[t])
        /\ chunk[t] \in chunks /\ chunk[t] \in ChunkRecord /\ chunk[t] \notin opened
        /\ size[t] \in Nat /\ size[t] <= chunk[t].size
    BY DEF IInv, TypeOK, PhaseInv, SizeInv
  <1>2. \A u \in Threads \ {t} : pc[u] \notin Critical
    BY DEF IInv, MutexInv, Critical
  <1>3. TypeOK' /\ SizeInv'
    BY <1>1, ChunkType DEF IInv, TypeOK, SizeInv, Location
  <1>4. MutexInv'
    BY DEF IInv, TypeOK, MutexInv, Critical
  <1>5. BoundsInv'
    <2>1. end <= High(chunk[t])
      <3>1. CASE pc[t] = "startFirst"
        <4>1. end = High(current) /\ High(current) <= chunk[t].base
          BY <3>1, HolderSeesCurrent DEF Critical, IInv, PhaseInv
        <4> QED
          BY <4>1, <1>1, ActiveChunk, ChunkType
      <3>2. CASE pc[t] = "startSecond"
        BY <3>2, <1>1, ChunkType DEF IInv, PhaseInv
      <3> QED
        BY <3>1, <3>2
    <2> QED
      BY <1>1, <2>1, ChunkType DEF BoundsInv, Low, High
  <1>6. PhaseInv'
    BY <1>1, <1>2 DEF IInv, TypeOK, PhaseInv, Critical, Low, High
  <1>7. ASSUME NEW v \in Nat, v = start \/ Past(v)
        PROVE  \E c \in opened : Low(c) <= v /\ v <= High(c)
    BY <1>7, ActiveChunk DEF Past
  <1>8. ASSUME NEW v \in Nat, v = start \/ Past(v)
        PROVE  Past(v)'
    BY <1>1, <1>7, <1>8 DEF Past, Low, High
  <1>9. ASSUME NEW v \in Nat, v = start \/ Past(v)
        PROVE  v # start'
    <2>1. PICK c \in opened : Low(c) <= v /\ v <= High(c)
      BY <1>7, <1>9
    <2>2. c \in chunks /\ c \in ChunkRecord /\ c # chunk[t]
      BY <1>1 DEF IInv, TypeOK
    <2>3. Apart(c, chunk[t])
      BY <1>1, <2>2 DEF IInv, ChunksInv
    <2> QED
      BY <1>1, <2>1, <2>2, <2>3, ChunkType DEF Apart
  <1>10. ReadInv'
    <2>1. ASSUME NEW u \in Threads \ {t},
                 pc[u] \in {"loadEnd", "endSecond", "unlock", "cas"}
          PROVE  Past(start_[u])'
      BY <1>8, <2>1 DEF IInv, TypeOK, ReadInv
    <2> QED
      BY <2>1 DEF IInv, TypeOK, ReadInv
  <1>11. ClaimInv'
    <2>1. ASSUME NEW u \in Threads \ {t}, pc[u] \in {"endSecond", "unlock", "cas"}
          PROVE  start_[u] # start'
      BY <1>9, <2>1 DEF IInv, TypeOK, ReadInv
    <2>2. start' + size[t] <= High(chunk[t])
      BY <1>1, ChunkType
    <2> QED
      BY <2>1, <2>2 DEF IInv, TypeOK, ClaimInv, High
  <1>12. BlocksInv'
    BY <1>1 DEF IInv, BlocksInv, Low, High
  <1>13. ChunksInv' /\ BlocksAreDisjoint'
    BY DEF IInv, ChunksInv, BlocksAreDisjoint, Apart, Low, High
  <1> QED
    BY <1>3, <1>4, <1>5, <1>6, <1>10, <1>11, <1>12, <1>13 DEF IInv

LEMMA ClaimKeeps ==
  ASSUME IInv, NEW t \in Threads, Claim(t)
  PROVE  IInv'
  <1> USE DEF Claim, goto, guarded, space
  <1>1. TypeOK' /\ SizeInv'
    <2>1. start_[t] \in Nat /\ size[t] \in Nat /\ size[t] \in Sizes /\ nth[t] \in Nat
      BY DEF IInv, TypeOK, SizeInv
    <2>2. start_[t] + size[t] \in Nat
      BY <2>1
    <2> QED
      BY <2>1, <2>2 DEF IInv, TypeOK, SizeInv, Location, Block
  <1>2. MutexInv'
    BY DEF IInv, TypeOK, MutexInv, Critical
  <1>3. CASE start # start_[t]
    <2> USE <1>3
    <2>1. PhaseInv'
      BY DEF IInv, TypeOK, PhaseInv, Critical, Low, High
    <2>2. ReadInv' /\ ClaimInv'
      BY SameMemory DEF IInv, TypeOK, ReadInv, ClaimInv, High
    <2> QED
      BY <1>1, <1>2, <2>1, <2>2, SameMemory DEF IInv
  <1>4. CASE start = start_[t]
    <2> USE <1>4
    <2> DEFINE x == Block(nth[t], start, size[t])
    <2>1. /\ size[t] \in Nat \ {0} /\ start' = start + size[t]
          /\ start' <= High(active) /\ blocks' = blocks \cup {x}
          /\ UNCHANGED <<active, opened, chunks, end, start_, current, end_, chunk, size>>
      BY DEF IInv, TypeOK, SizeInv, ClaimInv
    <2>2. start' \in Nat /\ start < start'
      BY <2>1 DEF IInv, TypeOK
    <2>3. BoundsInv'
      <3>1. Low(active) <= start'
        BY <2>1, <2>2, ActiveChunk DEF IInv, TypeOK
      <3> QED
        BY <2>1, <3>1 DEF IInv, BoundsInv, Low, High
    <2>4. PhaseInv'
      <3>1. start # High(active)
        BY <2>1, <2>2, ActiveChunk DEF IInv, TypeOK
      <3>2. \A u \in Threads : pc[u] \notin {"newChunk", "endFirst", "startFirst", "startSecond"}
        BY <3>1 DEF IInv, PhaseInv
      <3> QED
        BY <2>1, <3>2 DEF IInv, TypeOK, PhaseInv, Low, High
    <2>5. ReadInv'
      <3>1. ASSUME NEW u \in Threads,
                   pc'[u] \in {"loadEnd", "endSecond", "unlock", "cas"}
            PROVE  Past(start_[u])'
        <4>1. start_[u] \in Nat /\ (start_[u] = start \/ Past(start_[u]))
          BY <3>1 DEF IInv, TypeOK, ReadInv
        <4>2. \A v \in Nat : v = start \/ Past(v) => Past(v)'
          BY <2>1, <2>2, StartMovesForward
        <4> QED
          BY <4>1, <4>2, <2>1
      <3> QED
        BY <3>1 DEF ReadInv
    <2>6. ClaimInv'
      <3>1. ASSUME NEW u \in Threads, start_[u] = start',
                   pc[u] \in {"endSecond", "unlock", "cas"}
            PROVE  FALSE
        BY <2>1, <2>2, <3>1, PastIsNotAhead DEF IInv, TypeOK, ReadInv
      <3> QED
        BY <2>1, <3>1 DEF IInv, TypeOK, ClaimInv
    <2>7. BlocksInv'
      <3>1. /\ Low(active) <= x.addr /\ x.addr + x.size <= High(active)
            /\ x.addr + x.size <= start'
        BY <2>1, <2>2, ActiveChunk DEF Block
      <3>2. \A y \in blocks : \E c \in opened :
               /\ Low(c) <= y.addr /\ y.addr + y.size <= High(c)
               /\ c = active => y.addr + y.size <= start'
        BY <2>2, BlocksStayPast DEF IInv, TypeOK
      <3> HIDE DEF x
      <3> QED
        BY <2>1, <3>1, <3>2, ActiveChunk DEF BlocksInv, Low, High
    <2>8. BlocksAreDisjoint'
      <3>1. ASSUME NEW y \in blocks
            PROVE  y.addr + y.size <= start \/ start + size[t] <= y.addr
        <4>1. PICK c \in opened : /\ Low(c) <= y.addr /\ y.addr + y.size <= High(c)
                                  /\ c = active => y.addr + y.size <= start
          BY DEF IInv, BlocksInv
        <4>2. CASE c = active
          BY <4>1, <4>2
        <4>3. CASE c # active
          <5>1. c \in chunks /\ c \in ChunkRecord /\ Apart(c, active)
            BY <4>3, ActiveChunk DEF IInv, TypeOK, ChunksInv
          <5>2. y.addr \in Nat /\ y.size \in Nat
            BY DEF IInv, TypeOK
          <5>3. y.addr + y.size \in Nat
            BY <5>2
          <5>4. High(c) <= active.base => y.addr + y.size <= start
            BY <4>1, <5>1, <5>3, ActiveChunk, ChunkType DEF IInv, TypeOK
          <5>5. High(active) <= c.base => start + size[t] <= y.addr
            BY <2>1, <2>2, <4>1, <5>1, <5>2, ActiveChunk, ChunkType
          <5> QED
            BY <5>1, <5>4, <5>5 DEF Apart
        <4> QED
          BY <4>2, <4>3
      <3>2. x.addr = start /\ x.size = size[t]
        BY DEF Block
      <3> HIDE DEF x
      <3> QED
        BY <2>1, <3>1, <3>2 DEF IInv, BlocksAreDisjoint
    <2>9. ChunksInv'
      BY <2>1 DEF IInv, ChunksInv, Apart, Low, High
    <2> QED
      BY <1>1, <1>2, <2>3, <2>4, <2>5, <2>6, <2>7, <2>8, <2>9 DEF IInv
  <1> QED
    BY <1>3, <1>4

LEMMA StutterKeeps == IInv /\ UNCHANGED vars => IInv'
  <1> SUFFICES ASSUME IInv, UNCHANGED vars PROVE IInv'
    OBVIOUS
  <1> USE DEF vars
  <1>1. TypeOK' /\ SizeInv' /\ MutexInv'
    BY DEF IInv, TypeOK, SizeInv, MutexInv
  <1>2. PhaseInv'
    BY DEF IInv, PhaseInv, Low, High
  <1>3. ReadInv' /\ ClaimInv'
    BY SameMemory DEF IInv, ReadInv, ClaimInv, High
  <1> QED
    BY <1>1, <1>2, <1>3, SameMemory DEF IInv

-----------------------------------------------------------------------------
(***************************************************************************)
(* The theorems.                                                           *)
(***************************************************************************)

\* Every reachable state of GlobalPool satisfies the inductive invariant.
THEOREM PoolInvariant == Spec => []IInv
  <1>1. IInv /\ [Next]_vars => IInv'
    <2> SUFFICES ASSUME IInv, [Next]_vars PROVE IInv'
      OBVIOUS
    <2>1. ASSUME NEW t \in Threads, Step(t)
          PROVE  IInv'
      BY <2>1, LoadStartKeeps, LoadEndKeeps, LockKeeps, RecheckStartKeeps,
         RecheckEndKeeps, CloseLoadKeeps, CloseCasKeeps, NewChunkKeeps,
         StoreEndKeeps, StoreStartKeeps, UnlockKeeps, ClaimKeeps DEF Step
    <2>2. ASSUME NEW t \in Threads, NEW n \in Sizes, Call(t, n)
          PROVE  IInv'
      BY <2>2, CallKeeps
    <2>3. CASE Terminated \/ UNCHANGED vars
      BY <2>3, StutterKeeps DEF Terminated
    <2> QED
      BY <2>1, <2>2, <2>3 DEF Next
  <1> QED
    BY InitIInv, <1>1, PTL DEF Spec

\* The variables of the pool keep their types.
THEOREM PoolTypeCorrect == Spec => []TypeOK
  BY PoolInvariant, PTL DEF IInv

\* GlobalPool::allocate never hands out a byte twice: for any number of
\* threads, any sizes and any placement of the chunks.
THEOREM AllocatedBlocksAreDisjoint == Spec => []BlocksAreDisjoint
  BY PoolInvariant, PTL DEF IInv

\* What GlobalPool::allocate returns lies inside of one mapped chunk.
THEOREM AllocatedBlocksAreMapped == Spec => []BlocksAreMapped
  <1>1. IInv => BlocksAreMapped
    BY DEF IInv, TypeOK, BlocksInv, BlocksAreMapped
  <1> QED
    BY <1>1, PoolInvariant, PTL

\* The compare-exchange of GlobalPool::allocate succeeds only where there is
\* room, although the test before it may have mixed the bounds of two chunks.
THEOREM ClaimsAreSafe == Spec => []ClaimIsSafe
  <1>1. IInv => ClaimIsSafe
    BY ActiveChunk DEF IInv, ClaimInv, ClaimIsSafe, TypeOK
  <1> QED
    BY <1>1, PoolInvariant, PTL
=============================================================================
