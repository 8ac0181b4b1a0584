------------------------ MODULE GraphDispatchProofs -------------------------
(***************************************************************************)
(* Proofs about GraphDispatch, for graphs of any size: two kernels on an   *)
(* edge have different levels, and so no kernel runs before those whose    *)
(* output it reads are complete.                                           *)
(***************************************************************************)
EXTENDS GraphDispatch, Induction, FunctionTheorems, TLAPS

Level == [time : [Vertices -> Nat], maxdist : Nat]

\* maxdist for the vertex v, and the levels behind it.
MaxDist(old, v, E) == Max({old.maxdist} \cup {old.time[u] : u \in source(v, E)})
Behind(old, v, E) ==
  IF source(v, E) = {} THEN old
  ELSE [time |-> [old.time EXCEPT ![v] = TimeBehind(MaxDist(old, v, E))],
        maxdist |-> MaxDist(old, v, E)]

\* An order has every vertex, once.
LEMMA OrderIsBijection ==
  ASSUME NEW E, NEW o \in TopologicalOrders(E)
  PROVE  /\ o \in [1 .. N -> Vertices]
         /\ \A i, j \in 1 .. N : o[i] = o[j] => i = j
         /\ \A v \in Vertices : \E i \in 1 .. N : o[i] = v
  <1>1. IsFiniteSet(Vertices) /\ Cardinality(Vertices) = N
    <2>1. 0 \in Int /\ N - 1 \in Int /\ ~(0 > N - 1) /\ (N - 1) - 0 + 1 = N
      BY NAssumption
    <2> QED
      BY <2>1, FS_Interval DEF Vertices
  <1>2. o \in [1 .. N -> Vertices] /\ \A i, j \in 1 .. N : i # j => o[i] # o[j]
    BY <1>1 DEF TopologicalOrders, SetToSeqs
  <1>3. o \in Injection(1 .. N, Vertices)
    BY <1>2 DEF Injection, IsInjective
  <1>4. Cardinality(1 .. N) = N
    <2>1. 1 \in Int /\ N \in Int /\ ~(1 > N) /\ N - 1 + 1 = N
      BY NAssumption
    <2> QED
      BY <2>1, FS_Interval
  <1>5. o \in Surjection(1 .. N, Vertices)
    BY <1>1, <1>3, <1>4, FS_Injection
  <1> QED
    BY <1>2, <1>5 DEF Surjection

\* The greatest of maxdist and the levels of the sources exists.
LEMMA MaxDistIsGreatest ==
  ASSUME NEW E, E \subseteq Ascending, NEW old \in Level, NEW v \in Vertices
  PROVE  /\ MaxDist(old, v, E) \in Nat
         /\ \A u \in source(v, E) : u \in Vertices /\ old.time[u] <= MaxDist(old, v, E)
  <1> DEFINE U == source(v, E)
  <1> DEFINE D == {old.time[u] : u \in U}
  <1> DEFINE X == D \cup {old.maxdist}
  <1>1. U \subseteq Vertices
    BY DEF source, Ascending
  <1>2. IsFiniteSet(U)
    <2>1. IsFiniteSet(Vertices)
      <3>1. 0 \in Int /\ N - 1 \in Int
        BY NAssumption
      <3> QED
        BY <3>1, FS_Interval DEF Vertices
    <2> HIDE DEF U
    <2> QED
      BY <1>1, <2>1, FS_Subset
  <1> HIDE DEF U
  <1>3. IsFiniteSet(D)
    <2> DEFINE f == [u \in U |-> old.time[u]]
    <2>1. f \in Surjection(U, D)
      BY DEF Surjection
    <2> HIDE DEF f, D
    <2> QED
      BY <1>2, <2>1, FS_Surjection
  <1>4. D \subseteq Nat /\ old.maxdist \in Nat
    BY <1>1 DEF Level
  <1>5. PICK m \in X : \A y \in X : y <= m
    <2>1. X \subseteq Nat /\ IsFiniteSet(X) /\ X # {}
      <3> HIDE DEF D
      <3> QED
        BY <1>3, <1>4, FS_AddElement
    <2> HIDE DEF X
    <2> QED
      BY <2>1, FiniteMaximum
  <1>6. MaxDist(old, v, E) \in X /\ \A y \in X : MaxDist(old, v, E) >= y
    <2>1. MaxDist(old, v, E) = CHOOSE x \in X : \A y \in X : x >= y
      BY DEF MaxDist, Max, U
    <2>2. m \in X /\ \A y \in X : m >= y
      BY <1>4, <1>5
    <2> HIDE DEF X
    <2> QED
      BY <2>1, <2>2
  <1> QED
    BY <1>1, <1>4, <1>6 DEF U

\* The levels before the first vertex.
AtFirst == [time |-> [v \in Vertices |-> 0], maxdist |-> 0]

\* The recursive function in levels() exists, and is what its equation says.
LEMMA LevelsSteps ==
  ASSUME NEW E, E \subseteq Ascending, NEW o \in TopologicalOrders(E)
  PROVE  /\ levels(E, o) \in [0 .. N -> Level]
         /\ levels(E, o)[0] = AtFirst
         /\ \A k \in 0 .. N - 1 : levels(E, o)[k + 1] = Behind(levels(E, o)[k], o[k + 1], E)
  <1> DEFINE Body(level) ==
        [k \in 0 .. N |->
          IF k = 0 THEN AtFirst
          ELSE Behind(level[k - 1], o[k], E)]
  <1> DEFINE level == CHOOSE f : f = Body(f)
  <1>1. AtFirst \in Level
    BY DEF AtFirst, Level
  <1>2. ASSUME NEW old \in Level, NEW v \in Vertices
        PROVE  Behind(old, v, E) \in Level
    BY MaxDistIsGreatest DEF Behind, Level, TimeBehind
  <1> DEFINE step == [n \in Nat |-> [old \in Level |->
                        IF n < N THEN Behind(old, o[n + 1], E) ELSE old]]
  <1>3. step \in Steps(Level)
    <2> SUFFICES ASSUME NEW n \in Nat, NEW old \in Level
                 PROVE  (IF n < N THEN Behind(old, o[n + 1], E) ELSE old) \in Level
      BY DEF Steps
    <2>1. CASE n < N
      <3>1. o[n + 1] \in Vertices
        BY <2>1, NAssumption, OrderIsBijection
      <3> QED
        BY <1>2, <2>1, <3>1
    <2> QED
      BY <2>1
  <1>4. PICK f : Follows(f, Level, AtFirst, step)
    <2> HIDE DEF step
    <2> QED
      BY <1>1, <1>3, RecursionOnNat
  <1> DEFINE g == [k \in 0 .. N |-> f[k]]
  <1>5. \A k \in 0 .. N : g[k] \in Level /\ k \in Nat
    BY <1>4 DEF Follows
  <1>6. \A k \in 0 .. N - 1 : g[k + 1] = Behind(g[k], o[k + 1], E)
    <2> SUFFICES ASSUME NEW k \in 0 .. N - 1
                 PROVE  g[k + 1] = Behind(g[k], o[k + 1], E)
      OBVIOUS
    <2>1. k \in Nat /\ k < N /\ k \in 0 .. N /\ k + 1 \in 0 .. N
      BY NAssumption
    <2>2. f[k + 1] = step[k][f[k]]
      BY <1>4, <2>1 DEF Follows
    <2>3. step[k][f[k]] = Behind(f[k], o[k + 1], E)
      BY <1>5, <2>1
    <2> QED
      BY <2>1, <2>2, <2>3
  <1>7. g = Body(g)
    <2>1. ASSUME NEW k \in 0 .. N
          PROVE  g[k] = Body(g)[k]
      <3>1. CASE k = 0
        BY <1>4, <3>1 DEF Follows
      <3>2. CASE k # 0
        <4>1. k - 1 \in 0 .. N - 1 /\ (k - 1) + 1 = k
          BY <3>2, NAssumption
        <4>2. g[k] = Behind(g[k - 1], o[k], E)
          <5> HIDE DEF g
          <5> QED
            BY <1>6, <4>1
        <4> HIDE DEF g
        <4> QED
          BY <3>2, <4>2
      <3> QED
        BY <3>1, <3>2
    <2> HIDE DEF Body
    <2>2. g = [k \in 0 .. N |-> g[k]]
      OBVIOUS
    <2>3. Body(g) = [k \in 0 .. N |-> Body(g)[k]]
      BY DEF Body
    <2> HIDE DEF g
    <2> QED
      BY <2>1, <2>2, <2>3
  <1>8. level = Body(level)
    <2> HIDE DEF Body
    <2> QED
      BY <1>7
  <1>9. levels(E, o) = level
    BY DEF levels, Behind, MaxDist, AtFirst
  <1> HIDE DEF level
  <1>10. level[0] = AtFirst
    BY <1>8, NAssumption
  <1>11. ASSUME NEW k \in 0 .. N - 1
         PROVE  level[k + 1] = Behind(level[k], o[k + 1], E)
    <2>1. k + 1 \in 0 .. N /\ k + 1 # 0 /\ (k + 1) - 1 = k
      BY NAssumption
    <2> QED
      BY <1>8, <2>1
  <1>12. \A k \in 0 .. N : level[k] \in Level
    <2> DEFINE Q == {n \in Nat : n <= N => level[n] \in Level}
    <2>1. 0 \in Q
      BY <1>1, <1>10
    <2>2. ASSUME NEW n \in Nat, n \in Q
          PROVE  n + 1 \in Q
      <3> SUFFICES ASSUME n + 1 <= N PROVE level[n + 1] \in Level
        OBVIOUS
      <3>1. n \in 0 .. N - 1 /\ n + 1 \in 1 .. N /\ n <= N
        BY NAssumption
      <3>2. o[n + 1] \in Vertices
        BY <3>1, OrderIsBijection
      <3> QED
        BY <1>2, <1>11, <2>2, <3>1, <3>2
    <2> HIDE DEF Q
    <2>3. Nat \subseteq Q
      BY <2>1, <2>2, InductionOnNat
    <2> QED
      BY <2>3, NAssumption DEF Q
  <1>13. level = [k \in 0 .. N |-> level[k]]
    BY <1>8
  <1> HIDE DEF Body
  <1> QED
    BY <1>9, <1>10, <1>11, <1>12, <1>13

\* An edge leads to a higher level.
LEMMA LevelsRise ==
  ASSUME NEW E, E \subseteq Ascending, NEW o \in TopologicalOrders(E), NEW d \in E
  PROVE  /\ levels(E, o)[N].time \in [Vertices -> Nat]
         /\ levels(E, o)[N].time[d[1]] < levels(E, o)[N].time[d[2]]
  <1> DEFINE level == levels(E, o)
  <1>1. /\ level \in [0 .. N -> Level]
        /\ \A k \in 0 .. N - 1 : level[k + 1] = Behind(level[k], o[k + 1], E)
    BY LevelsSteps
  <1> HIDE DEF level
  <1>2. d[1] \in Vertices /\ d[2] \in Vertices
    BY DEF Ascending
  <1>3. PICK a \in 1 .. N : o[a] = d[1]
    BY <1>2, OrderIsBijection
  <1>4. PICK b \in 1 .. N : o[b] = d[2]
    BY <1>2, OrderIsBijection
  <1>5. a < b
    <2>1. DOMAIN o = 1 .. N
      BY OrderIsBijection
    <2>2. \A i, j \in DOMAIN o : o[i] = d[1] /\ o[j] = d[2] => i < j
      BY DEF TopologicalOrders
    <2> QED
      BY <1>3, <1>4, <2>1, <2>2
  \* A level is changed at the step of its vertex only.
  <1>6. ASSUME NEW c \in 1 .. N, NEW n \in 0 .. N, c <= n
        PROVE  level[n].time[o[c]] = level[c].time[o[c]]
    <2> DEFINE Q == {m \in Nat : c + m <= N => level[c + m].time[o[c]] = level[c].time[o[c]]}
    <2>1. 0 \in Q
      OBVIOUS
    <2>2. ASSUME NEW m \in Nat, m \in Q
          PROVE  m + 1 \in Q
      <3> SUFFICES ASSUME c + (m + 1) <= N
                   PROVE  level[c + (m + 1)].time[o[c]] = level[c].time[o[c]]
        OBVIOUS
      <3> DEFINE r == c + m
      <3>1. /\ r \in 0 .. N - 1 /\ r + 1 \in 1 .. N /\ r + 1 # c
            /\ c + (m + 1) = r + 1 /\ c + m <= N
        BY NAssumption
      <3>2. o[r + 1] \in Vertices /\ o[c] \in Vertices /\ o[r + 1] # o[c]
        <4>1. r + 1 \in 1 .. N /\ c \in 1 .. N /\ r + 1 # c
          BY <3>1
        <4>2. /\ o \in [1 .. N -> Vertices]
              /\ \A i, j \in 1 .. N : o[i] = o[j] => i = j
          BY OrderIsBijection
        <4> HIDE DEF r
        <4> QED
          BY <4>1, <4>2
      <3>3. level[r + 1] = Behind(level[r], o[r + 1], E) /\ level[r] \in Level
        BY <1>1, <3>1
      <3>4. level[r + 1].time[o[c]] = level[r].time[o[c]]
        BY <3>2, <3>3 DEF Behind, Level
      <3> QED
        BY <2>2, <3>1, <3>4
    <2> HIDE DEF Q
    <2>3. Nat \subseteq Q
      BY <2>1, <2>2, InductionOnNat
    <2>4. n - c \in Nat /\ c + (n - c) = n /\ n <= N
      BY <1>6, NAssumption
    <2>5. n - c \in Q
      BY <2>3, <2>4
    <2> QED
      BY <2>4, <2>5 DEF Q
  <1> DEFINE old == level[b - 1]
  <1> DEFINE top == MaxDist(old, d[2], E)
  <1>7. b - 1 \in 0 .. N - 1 /\ (b - 1) + 1 = b /\ b - 1 \in 0 .. N /\ a <= b - 1 /\ N \in 0 .. N
    BY <1>5, NAssumption
  <1>8. old \in Level /\ level[b] = Behind(old, d[2], E)
    BY <1>1, <1>4, <1>7
  <1>9. d[1] \in source(d[2], E)
    BY DEF source
  <1> HIDE DEF old
  <1>10. top \in Nat /\ old.time[d[1]] <= top
    BY <1>2, <1>8, <1>9, MaxDistIsGreatest
  <1>11. level[b].time[d[2]] = top + 1
    <2>1. level[b].time = [old.time EXCEPT ![d[2]] = TimeBehind(top)]
      BY <1>8, <1>9 DEF Behind
    <2> QED
      BY <1>2, <1>8, <2>1 DEF Level, TimeBehind
  <1>12. level[N].time[d[2]] = level[b].time[d[2]]
    BY <1>4, <1>6, <1>7
  <1>13. level[N].time[d[1]] = old.time[d[1]]
    BY <1>3, <1>6, <1>7 DEF old
  <1>14. level[N].time \in [Vertices -> Nat] /\ old.time[d[1]] \in Nat
    BY <1>1, <1>2, <1>7, <1>8 DEF Level
  <1> QED
    BY <1>10, <1>11, <1>12, <1>13, <1>14 DEF level

-----------------------------------------------------------------------------
\* The kernels from u to v are of one level.
SameRun(u, v) == u <= v /\ \A w \in u .. v : time[w] = time[v]

\* The run of u is the one before that of v.
RunBefore(u, v) == \E s \in u .. v - 1 : SameRun(u, s) /\ SameRun(s + 1, v) /\ time[s] # time[v]

\* The event that the host has for a kernel it has come to.
EventOf(u) == IF command[u] = "failed" THEN Garbage ELSE u

Events == Vertices \cup {Garbage}

TypeOK ==
  /\ edges \subseteq Ascending
  /\ make_order \in TopologicalOrders(edges)
  /\ err \in BOOLEAN
  /\ iv \in 0 .. N
  /\ prevTime \in Nat
  /\ relatedEvents \subseteq Events
  /\ returnedEvents \subseteq Events
  /\ evt \in Seq(Events)
  /\ command \in [Vertices -> Status]
  /\ waits \in [Vertices -> SUBSET Vertices]
  /\ pc \in {"queue", "finish", "returned", "crashed"}
  /\ pc = "queue" => iv < N

\* What is in the wait lists of the host: the events of the last run of kernels
\* of one level, and those of the run before it.
EventsInv ==
  /\ iv > 0 => prevTime = time[iv - 1]
  /\ \A u \in 0 .. iv - 1 :
        /\ SameRun(u, iv - 1) => EventOf(u) \in returnedEvents
        /\ RunBefore(u, iv - 1) => EventOf(u) \in relatedEvents

\* A kernel that is in the queue waits for the whole run before its own.
WaitsInv ==
  /\ \A v \in Vertices : command[v] # "none" => v < iv
  /\ \A v \in Vertices : command[v] \in {"queued", "running", "complete"} =>
        \A u \in Vertices : RunBefore(u, v) => u \in waits[v]

\* When a kernel runs, all kernels of all runs before its own are complete.
OrderInv ==
  \A u, v \in Vertices :
     command[v] \in {"running", "complete"} /\ u < v /\ ~SameRun(u, v) => command[u] = "complete"

\* The invariant that every step preserves.
IInv == TypeOK /\ EventsInv /\ WaitsInv /\ OrderInv

-----------------------------------------------------------------------------
\* The levels are numbers, and an edge leads to a higher one.
LEMMA TimeRises ==
  ASSUME TypeOK
  PROVE  \A d \in edges : time[d[1]] < time[d[2]] /\ time \in [Vertices -> Nat]
  BY LevelsRise DEF TypeOK, time

\* Every vertex has a level.
LEMMA TimeIsFunction ==
  ASSUME TypeOK
  PROVE  time \in [Vertices -> Nat]
  <1>1. levels(edges, make_order) \in [0 .. N -> Level] /\ N \in 0 .. N
    BY LevelsSteps, NAssumption DEF TypeOK
  <1> QED
    BY <1>1 DEF time, Level

\* The kernels before the one to be queued, when it is of the level of the last one.
LEMMA RunGoesOn ==
  ASSUME TypeOK, iv > 0, pc = "queue", time[iv] = time[iv - 1], NEW u \in 0 .. iv - 1
  PROVE  /\ SameRun(u, iv) => SameRun(u, iv - 1)
         /\ RunBefore(u, iv) => RunBefore(u, iv - 1)
  <1>1. iv \in Nat /\ u \in Nat
    BY DEF TypeOK
  <1>2. ASSUME NEW s \in Nat, SameRun(s, iv), s < iv
        PROVE  SameRun(s, iv - 1)
    BY <1>1, <1>2 DEF SameRun
  <1>3. ASSUME RunBefore(u, iv)
        PROVE  RunBefore(u, iv - 1)
    <2>1. PICK s \in u .. iv - 1 : SameRun(u, s) /\ SameRun(s + 1, iv) /\ time[s] # time[iv]
      BY <1>3 DEF RunBefore
    <2>2. s # iv - 1
      BY <2>1
    <2>3. s \in u .. (iv - 1) - 1 /\ s + 1 < iv /\ s + 1 \in Nat
      BY <1>1, <2>2
    <2>4. SameRun(s + 1, iv - 1)
      BY <1>2, <2>1, <2>3
    <2> QED
      BY <2>1, <2>3, <2>4 DEF RunBefore
  <1> QED
    BY <1>1, <1>2, <1>3

\* The same when it is of another level: its run begins with it.
LEMMA RunBegins ==
  ASSUME TypeOK, iv > 0, pc = "queue", time[iv] # time[iv - 1], NEW u \in 0 .. iv - 1
  PROVE  /\ ~SameRun(u, iv)
         /\ RunBefore(u, iv) => SameRun(u, iv - 1)
  <1>1. iv \in Nat /\ u \in Nat
    BY DEF TypeOK
  <1>2. ASSUME NEW s \in Nat, s < iv
        PROVE  ~SameRun(s, iv)
    <2>1. iv - 1 \in s .. iv
      BY <1>1, <1>2
    <2> QED
      BY <2>1 DEF SameRun
  <1>3. ASSUME RunBefore(u, iv)
        PROVE  SameRun(u, iv - 1)
    <2>1. PICK s \in u .. iv - 1 : SameRun(u, s) /\ SameRun(s + 1, iv)
      BY <1>3 DEF RunBefore
    <2>2. s \in Nat /\ s + 1 \in Nat /\ s <= iv - 1
      BY <1>1, <2>1
    <2>3. ~(s + 1 < iv)
      BY <1>2, <2>1, <2>2
    <2>4. s = iv - 1
      BY <1>1, <2>2, <2>3
    <2> QED
      BY <2>1, <2>4
  <1> QED
    BY <1>1, <1>2, <1>3

\* Where the run of u is not that of v, a last kernel s before the run of v exists,
\* and the run of s is the one before.
LEMMA LastBefore ==
  ASSUME TypeOK, NEW u \in Vertices, NEW v \in Vertices, u < v, ~SameRun(u, v)
  PROVE  \E s \in Vertices :
            u <= s /\ s < v /\ RunBefore(s, v) /\ (SameRun(u, s) => RunBefore(u, v))
  <1> DEFINE T == {w \in Nat : w \in u .. v /\ time[w] # time[v]}
  <1>1. u \in Nat /\ v \in Nat /\ v < N
    BY NAssumption DEF Vertices
  <1>2. PICK y \in T : TRUE
    BY <1>1 DEF SameRun
  <1>3. T \subseteq Nat /\ T # {} /\ \A w \in T : w <= v
    BY <1>1, <1>2
  <1>4. PICK s \in T : \A w \in T : w <= s
    <2> HIDE DEF T
    <2> QED
      BY <1>1, <1>3, LargestNatural
  <1>5. s \in u .. v - 1 /\ time[s] # time[v] /\ s \in Nat
    BY <1>1, <1>4
  <1>6. SameRun(s + 1, v)
    <2>1. s + 1 <= v
      BY <1>1, <1>5
    <2>2. ASSUME NEW w \in s + 1 .. v
          PROVE  time[w] = time[v]
      <3>1. w \in u .. v /\ w \in Nat /\ ~(w <= s)
        BY <1>1, <1>5
      <3> QED
        BY <1>4, <3>1
    <2> QED
      BY <2>1, <2>2 DEF SameRun
  <1>7. SameRun(s, s)
    BY <1>5 DEF SameRun
  <1>8. RunBefore(s, v)
    <2>1. s \in s .. v - 1
      BY <1>1, <1>5
    <2> QED
      BY <1>5, <1>6, <1>7, <2>1 DEF RunBefore
  <1>9. SameRun(u, s) => RunBefore(u, v)
    BY <1>5, <1>6 DEF RunBefore
  <1>10. s \in Vertices /\ u <= s /\ s < v
    BY <1>1, <1>5, NAssumption DEF Vertices
  <1> QED
    BY <1>8, <1>9, <1>10

\* The graph and with it the levels and the runs stay as they are.
LEMMA TimeStays ==
  ASSUME UNCHANGED graph
  PROVE  /\ time' = time
         /\ \A u, v : SameRun(u, v)' <=> SameRun(u, v)
         /\ \A u, v : RunBefore(u, v)' <=> RunBefore(u, v)
  <1>1. time' = time
    BY DEF graph, time
  <1> QED
    BY <1>1 DEF SameRun, RunBefore

\* Nothing is queued at first.
LEMMA InitIInv == Init => IInv
  <1> SUFFICES ASSUME Init PROVE IInv
    OBVIOUS
  <1>1. TypeOK
    BY NAssumption DEF Init, TypeOK, Events, Status, Ascending
  <1> QED
    BY <1>1, NAssumption DEF Init, IInv, EventsInv, WaitsInv, OrderInv, Vertices

\* What a call of queueExecution with a wait list does to the types.
LEMMA QueueTypes ==
  ASSUME TypeOK, pc = "queue", NEW related \in SUBSET Events,
         queueExecution(related), NextVertex, UNCHANGED graph
  PROVE  /\ iv \in Vertices /\ iv' = iv + 1 /\ iv' \in 0 .. N
         /\ err' \in BOOLEAN /\ evt' \in Seq(Events)
         /\ command' \in [Vertices -> Status] /\ waits' \in [Vertices -> SUBSET Vertices]
         /\ pc' \in {"queue", "finish"} /\ (pc' = "queue" => iv' < N)
         /\ Last(evt') = (IF command'[iv] = "failed" THEN Garbage ELSE iv) /\ Last(evt') \in Events
         /\ \A v \in Vertices : v # iv => command'[v] = command[v] /\ waits'[v] = waits[v]
         /\ command'[iv] \in {"queued", "failed"}
         /\ command'[iv] = "queued" => Garbage \notin related /\ waits'[iv] = related
  <1>1. iv \in Vertices /\ iv' = iv + 1 /\ iv' \in 0 .. N
    BY NAssumption DEF TypeOK, NextVertex, Vertices
  <1>2. pc' \in {"queue", "finish"} /\ (pc' = "queue" => iv' < N)
    BY <1>1, NAssumption DEF NextVertex, Vertices
  <1>3. CASE Queued(related)
    <2>1. evt' \in Seq(Events) /\ Last(evt') = iv
      BY <1>1, <1>3 DEF Queued, TypeOK, Events, Last
    <2>2. command'[iv] = "queued"
      BY <1>1, <1>3 DEF Queued, TypeOK
    <2> QED
      BY <1>1, <1>2, <1>3, <2>1, <2>2 DEF Queued, TypeOK, Events, Status
  <1>4. CASE Failed
    <2>1. evt' \in Seq(Events) /\ Last(evt') = Garbage
      BY <1>1, <1>4 DEF Failed, TypeOK, Events, Last
    <2> QED
      BY <1>1, <1>2, <1>4, <2>1 DEF Failed, TypeOK, Events, Status
  <1> QED
    BY <1>3, <1>4 DEF queueExecution

\* Both steps of the host preserve the invariant: they queue the next kernel with a
\* wait list that has the events of the run before it, and keep those of its own run.
LEMMA QueueKeeps ==
  ASSUME IInv, pc = "queue", NEW related \in SUBSET Events,
         queueExecution(related), NextVertex, UNCHANGED graph,
         relatedEvents' = related, prevTime' = time[iv],
         \A u \in 0 .. iv - 1 : RunBefore(u, iv) => EventOf(u) \in related,
         Last(evt') \in returnedEvents', returnedEvents' \subseteq Events,
         \A u \in 0 .. iv - 1 : SameRun(u, iv) => EventOf(u) \in returnedEvents'
  PROVE  IInv'
  <1> USE DEF IInv
  <1>1. /\ iv \in Vertices /\ iv' = iv + 1 /\ iv' \in 0 .. N /\ iv \in Nat
        /\ command' \in [Vertices -> Status]
        /\ Last(evt') = (IF command'[iv] = "failed" THEN Garbage ELSE iv)
        /\ \A v \in Vertices : v # iv => command'[v] = command[v] /\ waits'[v] = waits[v]
        /\ command'[iv] \in {"queued", "failed"}
        /\ command'[iv] = "queued" => Garbage \notin related /\ waits'[iv] = related
    BY QueueTypes DEF Vertices
  <1>2. /\ time' = time
        /\ \A u, v : SameRun(u, v)' <=> SameRun(u, v)
        /\ \A u, v : RunBefore(u, v)' <=> RunBefore(u, v)
    BY TimeStays
  <1>3. TypeOK'
    <2>1. edges' \subseteq Ascending /\ make_order' \in TopologicalOrders(edges')
      BY DEF graph, TypeOK
    <2>2. prevTime' \in Nat
      BY <1>1, TimeIsFunction
    <2> QED
      BY <2>1, <2>2, QueueTypes DEF TypeOK
  <1>4. EventsInv'
    <2>1. iv' - 1 = iv
      BY <1>1
    <2>2. ASSUME NEW u \in 0 .. iv - 1
          PROVE  EventOf(u)' = EventOf(u)
      <3>1. u \in Vertices /\ u # iv
        BY <1>1, NAssumption DEF Vertices
      <3> QED
        BY <1>1, <3>1 DEF EventOf
    <2>3. ASSUME NEW u \in 0 .. iv
          PROVE  /\ SameRun(u, iv) => EventOf(u)' \in returnedEvents'
                 /\ RunBefore(u, iv) => EventOf(u)' \in relatedEvents'
      <3>1. CASE u = iv
        <4>1. EventOf(u)' \in returnedEvents'
          BY <1>1, <3>1 DEF EventOf
        <4>2. ~RunBefore(iv, iv)
          BY <1>1 DEF RunBefore
        <4> QED
          BY <3>1, <4>1, <4>2
      <3>2. CASE u # iv
        <4>1. u \in 0 .. iv - 1
          BY <1>1, <3>2
        <4> QED
          BY <2>2, <4>1
      <3> QED
        BY <3>1, <3>2
    <2> QED
      BY <1>1, <1>2, <2>1, <2>3 DEF EventsInv
  <1>5. WaitsInv'
    <2>1. ASSUME NEW v \in Vertices, command'[v] # "none"
          PROVE  v < iv'
      BY <1>1, <2>1 DEF WaitsInv, Vertices
    <2>2. ASSUME NEW v \in Vertices, command'[v] \in {"queued", "running", "complete"},
                 NEW u \in Vertices, RunBefore(u, v)
          PROVE  u \in waits'[v]
      <3>1. CASE v = iv
        <4>1. u \in 0 .. iv - 1
          BY <1>1, <2>2, <3>1 DEF RunBefore, Vertices
        <4>2. EventOf(u) \in related /\ Garbage \notin related /\ waits'[iv] = related
          BY <1>1, <2>2, <3>1, <4>1
        <4> QED
          BY <3>1, <4>2 DEF EventOf
      <3>2. CASE v # iv
        BY <1>1, <2>2, <3>2 DEF WaitsInv
      <3> QED
        BY <3>1, <3>2
    <2> QED
      BY <1>2, <2>1, <2>2 DEF WaitsInv
  <1>6. OrderInv'
    <2> SUFFICES ASSUME NEW u \in Vertices, NEW v \in Vertices,
                        command'[v] \in {"running", "complete"}, u < v, ~SameRun(u, v)
                 PROVE  command'[u] = "complete"
      BY <1>2 DEF OrderInv
    <2>1. v # iv /\ command[u] = "complete"
      BY <1>1 DEF OrderInv
    <2>2. u # iv
      BY <1>1, <2>1 DEF WaitsInv
    <2> QED
      BY <1>1, <2>1, <2>2
  <1> QED
    BY <1>3, <1>4, <1>5, <1>6

\* A kernel of the level of the last one waits for what that one waited for.
LEMMA SameLevelKeeps == IInv /\ SameLevel => IInv'
  <1> SUFFICES ASSUME IInv, SameLevel PROVE IInv'
    OBVIOUS
  <1> USE DEF IInv
  <1>1. pc = "queue" /\ time[iv] = prevTime /\ iv \in Nat /\ iv < N
    BY DEF SameLevel, TypeOK
  <1>2. ASSUME NEW u \in 0 .. iv - 1
        PROVE  /\ SameRun(u, iv) => EventOf(u) \in returnedEvents
               /\ RunBefore(u, iv) => EventOf(u) \in relatedEvents
    <2>1. iv > 0 /\ time[iv] = time[iv - 1]
      BY <1>1 DEF EventsInv
    <2> QED
      BY <1>1, <2>1, RunGoesOn DEF EventsInv
  <1>3. /\ queueExecution(relatedEvents) /\ NextVertex /\ UNCHANGED graph
        /\ relatedEvents' = relatedEvents /\ prevTime' = time[iv]
        /\ relatedEvents \in SUBSET Events
        /\ returnedEvents' = returnedEvents \cup {Last(evt')}
    BY <1>1 DEF SameLevel, TypeOK
  <1>4. Last(evt') \in Events /\ returnedEvents' \subseteq Events
    BY <1>1, <1>3, QueueTypes DEF TypeOK
  <1> QED
    BY <1>1, <1>2, <1>3, <1>4, QueueKeeps

\* A kernel of another level waits for the run of kernels that ends before it.
LEMMA OtherLevelKeeps == IInv /\ OtherLevel => IInv'
  <1> SUFFICES ASSUME IInv, OtherLevel PROVE IInv'
    OBVIOUS
  <1> USE DEF IInv
  <1>1. pc = "queue" /\ time[iv] # prevTime /\ iv \in Nat /\ iv < N
    BY DEF OtherLevel, TypeOK
  <1>2. ASSUME NEW u \in 0 .. iv - 1
        PROVE  /\ ~SameRun(u, iv)
               /\ RunBefore(u, iv) => EventOf(u) \in returnedEvents
    <2>1. iv > 0 /\ time[iv] # time[iv - 1]
      BY <1>1 DEF EventsInv
    <2> QED
      BY <1>1, <2>1, RunBegins DEF EventsInv
  <1>3. /\ queueExecution(returnedEvents) /\ NextVertex /\ UNCHANGED graph
        /\ relatedEvents' = returnedEvents /\ prevTime' = time[iv]
        /\ returnedEvents \in SUBSET Events
        /\ returnedEvents' = {Last(evt')}
    BY <1>1 DEF OtherLevel, TypeOK
  <1>4. Last(evt') \in Events /\ returnedEvents' \subseteq Events
    BY <1>1, <1>3, QueueTypes DEF TypeOK
  <1> QED
    BY <1>1, <1>2, <1>3, <1>4, QueueKeeps

\* A kernel that starts finds the run before its own complete, and with it all runs
\* before that one.
LEMMA RunKeeps ==
  ASSUME IInv, NEW v \in Vertices, Run(v)
  PROVE  IInv'
  <1> USE DEF IInv
  <1>1. /\ time' = time
        /\ \A a, b : SameRun(a, b)' <=> SameRun(a, b)
        /\ \A a, b : RunBefore(a, b)' <=> RunBefore(a, b)
    BY TimeStays DEF Run
  <1>2. TypeOK'
    BY DEF Run, TypeOK, graph, host, Status
  <1>3. ASSUME NEW u
        PROVE  EventOf(u)' = EventOf(u)
    BY DEF Run, EventOf, TypeOK
  <1>4. EventsInv'
    BY <1>1, <1>3 DEF EventsInv, Run, host
  <1>5. WaitsInv'
    BY <1>1 DEF WaitsInv, Run, host, TypeOK
  <1>6. OrderInv'
    <2> SUFFICES ASSUME NEW a \in Vertices, NEW b \in Vertices,
                        command'[b] \in {"running", "complete"}, a < b, ~SameRun(a, b)
                 PROVE  command'[a] = "complete"
      BY <1>1 DEF OrderInv
    <2>1. command[a] = "complete" => command'[a] = "complete"
      BY DEF Run, TypeOK
    <2>2. CASE b # v
      BY <2>1, <2>2 DEF OrderInv, Run, TypeOK
    <2>3. CASE b = v
      <3>1. PICK s \in Vertices : a <= s /\ s < v /\ RunBefore(s, v)
                                /\ (SameRun(a, s) => RunBefore(a, v))
        BY <2>3, LastBefore
      <3>2. \A w \in Vertices : RunBefore(w, v) => command[w] = "complete"
        BY DEF WaitsInv, Run
      <3>3. CASE SameRun(a, s)
        BY <2>1, <3>1, <3>2, <3>3
      <3>4. CASE ~SameRun(a, s)
        <4>1. a # s
          BY <3>4 DEF SameRun, Vertices
        <4>2. a < s
          BY <3>1, <4>1, NAssumption DEF Vertices
        <4>3. command[s] = "complete"
          BY <3>1, <3>2
        <4> QED
          BY <2>1, <3>4, <4>2, <4>3 DEF OrderInv
      <3> QED
        BY <3>3, <3>4
    <2> QED
      BY <2>2, <2>3
  <1> QED
    BY <1>2, <1>4, <1>5, <1>6

\* A kernel completes only when what it waits for is complete.
LEMMA CompleteKeeps ==
  ASSUME IInv, NEW v \in Vertices, Complete(v)
  PROVE  IInv'
  <1> USE DEF IInv
  <1>1. /\ time' = time
        /\ \A a, b : SameRun(a, b)' <=> SameRun(a, b)
        /\ \A a, b : RunBefore(a, b)' <=> RunBefore(a, b)
    BY TimeStays DEF Complete
  <1>2. TypeOK'
    BY DEF Complete, TypeOK, graph, host, Status
  <1>3. ASSUME NEW u
        PROVE  EventOf(u)' = EventOf(u)
    BY DEF Complete, EventOf, TypeOK
  <1>4. EventsInv'
    BY <1>1, <1>3 DEF EventsInv, Complete, host
  <1>5. WaitsInv'
    BY <1>1 DEF WaitsInv, Complete, host, TypeOK
  <1>6. OrderInv'
    BY <1>1 DEF OrderInv, Complete, TypeOK
  <1> QED
    BY <1>2, <1>4, <1>5, <1>6

\* Steps that change neither the graph nor the queue nor the wait lists of the host.
LEMMA OthersKeep ==
  ASSUME IInv, UNCHANGED <<graph, err, iv, prevTime, relatedEvents, returnedEvents, evt,
                           command, waits>>,
         pc' \in {"queue", "finish", "returned", "crashed"}, pc' = "queue" => pc = "queue"
  PROVE  IInv'
  <1> USE DEF IInv
  <1>1. /\ time' = time
        /\ \A a, b : SameRun(a, b)' <=> SameRun(a, b)
        /\ \A a, b : RunBefore(a, b)' <=> RunBefore(a, b)
    BY TimeStays
  <1>2. TypeOK'
    BY DEF TypeOK, graph
  <1>3. \A u : EventOf(u)' = EventOf(u)
    BY DEF EventOf
  <1>4. EventsInv' /\ WaitsInv' /\ OrderInv'
    BY <1>1, <1>3 DEF EventsInv, WaitsInv, OrderInv
  <1> QED
    BY <1>2, <1>4

-----------------------------------------------------------------------------
\* Every reachable state of GraphDispatch satisfies the inductive invariant.
THEOREM GraphDispatchInvariant == Spec => []IInv
  <1>1. IInv /\ [Next]_vars => IInv'
    <2> SUFFICES ASSUME IInv, [Next]_vars PROVE IInv'
      OBVIOUS
    <2>1. CASE SameLevel \/ OtherLevel
      BY <2>1, SameLevelKeeps, OtherLevelKeeps
    <2>2. CASE Finish \/ Crash
      BY <2>2, OthersKeep DEF Finish, Crash
    <2>3. ASSUME NEW v \in Vertices, Run(v) \/ Complete(v)
          PROVE  IInv'
      BY <2>3, RunKeeps, CompleteKeeps
    <2>4. CASE UNCHANGED vars
      <3>1. pc' \in {"queue", "finish", "returned", "crashed"}
        BY <2>4 DEF IInv, TypeOK, vars
      <3> QED
        BY <2>4, <3>1, OthersKeep DEF vars, graph
    <2> QED
      BY <2>1, <2>2, <2>3, <2>4 DEF Next, Host
  <1> QED
    BY InitIInv, <1>1, PTL DEF Spec

\* The variables of GraphDispatch keep their types.
THEOREM GraphDispatchTypeCorrect == Spec => []TypeOK
  BY GraphDispatchInvariant, PTL DEF IInv

\* The kernels of a graph of any size run in order, whatever topological order is
\* found and whichever kernels fail to be queued.
THEOREM GraphDispatchKernelsInOrder == Spec => []KernelsInOrder
  <1>1. IInv => KernelsInOrder
    <2> SUFFICES ASSUME IInv, NEW d \in edges, command[d[2]] \in {"running", "complete"}
                 PROVE  command[d[1]] = "complete"
      BY DEF KernelsInOrder
    <2>1. d[1] \in Vertices /\ d[2] \in Vertices /\ d[1] < d[2]
      BY DEF IInv, TypeOK, Ascending
    <2>2. time[d[1]] < time[d[2]] /\ time \in [Vertices -> Nat]
      BY TimeRises DEF IInv
    <2>3. ~SameRun(d[1], d[2])
      <3>1. d[1] \in d[1] .. d[2] /\ time[d[1]] # time[d[2]]
        BY <2>1, <2>2 DEF Vertices
      <3> QED
        BY <3>1 DEF SameRun
    <2> QED
      BY <2>1, <2>3 DEF IInv, OrderInv
  <1> QED
    BY <1>1, GraphDispatchInvariant, PTL
=============================================================================
