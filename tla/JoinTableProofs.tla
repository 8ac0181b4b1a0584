--------------------------- MODULE JoinTableProofs --------------------------
(***************************************************************************)
(* Theorems about Hashmap and about JoinTable, which inserts into it, for  *)
(* any number of threads, joins and entries and any hashes.                *)
(***************************************************************************)
EXTENDS JoinTable, Induction, TLAPS

USE OwnerAssumption, HashAssumption, NullAssumption

-----------------------------------------------------------------------------
(***************************************************************************)
(* The inductive invariant.                                                *)
(***************************************************************************)
\* An entry is with its owner until it is in a chain, and what it is linked
\* to before the exchange is what the exchange expects.
PrivateInv ==
  \A t \in Threads :
    /\ pc[t] # "idle" => /\ entry[t] \in Entries /\ Owner[entry[t]] = t
                         /\ entry[t] \notin todo[t]
    /\ pc[t] = "cas" => next[entry[t]] = loc[t].ptr
    /\ \A e \in todo[t] : Owner[e] = t

IInv ==
  /\ TypeOK
  /\ PrivateInv
  /\ ChainsAreLinked
  /\ ChainsAreComplete
  /\ TagsAreExact

-----------------------------------------------------------------------------
\* What a push to the front makes of a sequence.
LEMMA PushFront ==
  ASSUME NEW S, NEW s \in Seq(S), NEW e \in S
  PROVE  LET p == <<e>> \o s
         IN /\ p \in Seq(S) /\ Len(p) = Len(s) + 1 /\ DOMAIN p = 1 .. Len(s) + 1
            /\ p # <<>> /\ p[1] = e
            /\ \A i \in DOMAIN s : p[i + 1] = s[i]
            /\ \A i \in DOMAIN p : i = 1 \/ (i - 1 \in DOMAIN s /\ p[i] = s[i - 1])
  OBVIOUS

\* An empty table satisfies the invariant.
LEMMA InitIInv == Init => IInv
  <1> SUFFICES ASSUME Init PROVE IInv
    OBVIOUS
  <1>1. TypeOK /\ PrivateInv
    BY DEF Init, TypeOK, PrivateInv, NoEntries, Pointers, Words
  <1>2. ChainsAreLinked /\ TagsAreExact
    BY DEF Init, ChainsAreLinked, TagsAreExact, NoEntries
  <1>3. Inserted = {}
    BY DEF Init, Inserted
  <1>4. ChainsAreComplete
    BY <1>3 DEF Init, ChainsAreComplete
  <1> QED
    BY <1>1, <1>2, <1>4 DEF IInv

\* Steps before the exchange keep the chains.
LEMMA SameChains ==
  ASSUME IInv, UNCHANGED <<entries, next, chain>>, Inserted' = Inserted
  PROVE  ChainsAreLinked' /\ ChainsAreComplete' /\ TagsAreExact'
  BY DEF IInv, ChainsAreLinked, ChainsAreComplete, TagsAreExact

\* An entry that a thread is inserting is in no chain.
LEMMA PrivateEntry ==
  ASSUME IInv, NEW t \in Threads, pc[t] # "idle"
  PROVE  /\ entry[t] \in Entries /\ Owner[entry[t]] = t /\ entry[t] \notin Inserted
         /\ SlotOf(entry[t]) \in Slots /\ Hash[entry[t]].tag \in Tags
         /\ \A s \in Slots : \A i \in DOMAIN chain[s] : chain[s][i] # entry[t]
         /\ \A u \in Threads \ {t} : pc[u] # "idle" => entry[u] # entry[t]
  <1>1. entry[t] \in Entries /\ Owner[entry[t]] = t /\ entry[t] \notin Inserted
    BY DEF IInv, PrivateInv, Inserted
  <1>2. SlotOf(entry[t]) \in Slots /\ Hash[entry[t]].tag \in Tags
    BY <1>1 DEF SlotOf
  <1>3. \A s \in Slots : \A i \in DOMAIN chain[s] : chain[s][i] \in Inserted
    BY DEF IInv, ChainsAreComplete
  <1>4. \A u \in Threads \ {t} : pc[u] # "idle" => entry[u] # entry[t]
    BY <1>1 DEF IInv, PrivateInv
  <1> QED
    BY <1>1, <1>2, <1>3, <1>4

\* A call that begins has a new entry, which is in no chain yet.
LEMMA BeginKeeps ==
  ASSUME IInv, NEW t \in Threads, NEW e \in Entries, Begin(t, e)
  PROVE  IInv'
  <1> USE DEF Begin, Goto, shared
  <1>1. TypeOK'
    BY DEF IInv, TypeOK, Pointers
  <1>2. PrivateInv'
    <2>1. Owner[e] = t
      BY DEF IInv, PrivateInv
    <2> QED
      BY <2>1 DEF IInv, TypeOK, PrivateInv
  <1>3. Inserted' = Inserted
    BY DEF IInv, TypeOK, Inserted
  <1> QED
    BY <1>1, <1>2, <1>3, SameChains DEF IInv

\* Reading the bucket changes the loading thread only.
LEMMA LoadKeeps ==
  ASSUME IInv, NEW t \in Threads, Load(t)
  PROVE  IInv'
  <1> USE DEF Load, Goto, shared
  <1>1. TypeOK'
    BY PrivateEntry DEF IInv, TypeOK
  <1>2. PrivateInv'
    BY DEF IInv, TypeOK, PrivateInv
  <1>3. Inserted' = Inserted
    BY DEF IInv, TypeOK, Inserted
  <1> QED
    BY <1>1, <1>2, <1>3, SameChains DEF IInv

\* Only the entry that is being inserted is linked, and nobody has met it.
LEMMA LinkKeeps ==
  ASSUME IInv, NEW t \in Threads, Link(t)
  PROVE  IInv'
  <1> USE DEF Link, Goto
  <1>1. TypeOK'
    BY DEF IInv, TypeOK, Words
  <1>2. Inserted' = Inserted
    BY DEF IInv, TypeOK, Inserted
  <1>3. \A e \in Entries : e # entry[t] => next'[e] = next[e]
    BY DEF IInv, TypeOK
  <1>4. PrivateInv'
    <2>1. next'[entry[t]] = loc[t].ptr
      BY PrivateEntry DEF IInv, TypeOK
    <2> QED
      BY <1>3, <2>1, PrivateEntry DEF IInv, TypeOK, PrivateInv
  <1>5. ChainsAreLinked'
    <2>1. ASSUME NEW s \in Slots, NEW i \in DOMAIN chain[s]
          PROVE  next'[chain[s][i]] = next[chain[s][i]]
      <3>1. chain[s] \in Seq(Entries)
        BY DEF IInv, TypeOK
      <3>2. chain[s][i] \in Entries
        BY <3>1
      <3>3. chain[s][i] # entry[t]
        BY PrivateEntry
      <3> QED
        BY <1>3, <3>2, <3>3
    <2> QED
      BY <2>1 DEF IInv, ChainsAreLinked
  <1>6. ChainsAreComplete' /\ TagsAreExact'
    BY <1>2 DEF IInv, ChainsAreComplete, TagsAreExact
  <1> QED
    BY <1>1, <1>4, <1>5, <1>6 DEF IInv

\* A successful exchange puts the linked entry in front of the chain.
LEMMA PublishKeeps ==
  ASSUME IInv, NEW t \in Threads, Publish(t)
  PROVE  IInv'
  <1> DEFINE e == entry[t]
  <1> DEFINE s == SlotOf(e)
  <1>1. /\ pc[t] = "cas" /\ e \in Entries /\ s \in Slots /\ Hash[e].tag \in Tags
        /\ Owner[e] = t /\ e \notin Inserted /\ e \notin todo[t]
        /\ \A q \in Slots : \A i \in DOMAIN chain[q] : chain[q][i] # e
        /\ \A u \in Threads \ {t} : pc[u] # "idle" => entry[u] # e
        /\ next[e] = loc[t].ptr
        /\ chain[s] \in Seq(Entries)
    BY PrivateEntry DEF Publish, IInv, PrivateInv, TypeOK
  <1>2. CASE entries[s] # loc[t]
    <2> USE <1>2 DEF Publish, Goto
    <2>1. TypeOK'
      <3>1. entries[s] \in Words
        BY <1>1 DEF IInv, TypeOK
      <3> HIDE DEF s, e
      <3>2. loc' = [loc EXCEPT ![t] = entries[s]] /\ pc' = [pc EXCEPT ![t] = "link"]
        BY DEF s, e
      <3> QED
        BY <3>1, <3>2 DEF IInv, TypeOK
    <2>2. PrivateInv'
      BY DEF IInv, TypeOK, PrivateInv
    <2>3. Inserted' = Inserted
      BY DEF IInv, TypeOK, Inserted
    <2> QED
      BY <2>1, <2>2, <2>3, SameChains DEF IInv
  <1>3. CASE entries[s] = loc[t]
    <2> DEFINE p == <<e>> \o chain[s]
    <2>1. /\ entries' = [entries EXCEPT ![s] = update(loc[t], e)]
          /\ chain' = [chain EXCEPT ![s] = p]
          /\ pc' = [pc EXCEPT ![t] = "idle"]
          /\ UNCHANGED <<next, todo, entry, loc>>
      BY <1>3 DEF Publish, Goto
    <2>2. /\ p \in Seq(Entries) /\ Len(p) = Len(chain[s]) + 1
          /\ DOMAIN p = 1 .. Len(chain[s]) + 1 /\ p # <<>> /\ p[1] = e
          /\ \A i \in DOMAIN chain[s] : p[i + 1] = chain[s][i]
          /\ \A i \in DOMAIN p :
                i = 1 \/ (i - 1 \in DOMAIN chain[s] /\ p[i] = chain[s][i - 1])
      BY <1>1, PushFront
    <2>3. /\ chain'[s] = p /\ entries'[s] = update(loc[t], e)
          /\ \A q \in Slots \ {s} : chain'[q] = chain[q] /\ entries'[q] = entries[q]
          /\ Len(chain[s]) \in Nat /\ DOMAIN chain[s] = 1 .. Len(chain[s])
      BY <1>1, <2>1 DEF IInv, TypeOK
    <2> HIDE DEF e, s, p
    <2>4. update(loc[t], e) \in Words /\ update(loc[t], e).ptr = e
          /\ update(loc[t], e).tags = entries[s].tags \cup {Hash[e].tag}
      BY <1>1, <1>3 DEF update, Words, Pointers, IInv, TypeOK
    <2>5. TypeOK'
      BY <1>1, <2>1, <2>2, <2>4 DEF IInv, TypeOK
    <2>6. PrivateInv'
      BY <2>1 DEF IInv, TypeOK, PrivateInv
    <2>7. Inserted' = Inserted \cup {e}
      BY <1>1, <2>1 DEF IInv, TypeOK, PrivateInv, Inserted, e
    <2>8. ChainsAreLinked'
      <3>1. ASSUME NEW q \in Slots \ {s}
            PROVE  /\ entries'[q].ptr = IF chain'[q] = <<>> THEN Null ELSE chain'[q][1]
                   /\ \A i \in DOMAIN chain'[q] :
                         next'[chain'[q][i]] = IF i = Len(chain'[q]) THEN Null ELSE chain'[q][i + 1]
                   /\ \A i, j \in DOMAIN chain'[q] : chain'[q][i] = chain'[q][j] => i = j
        BY <2>1, <2>3 DEF IInv, ChainsAreLinked
      <3>2. entries'[s].ptr = IF chain'[s] = <<>> THEN Null ELSE chain'[s][1]
        BY <2>2, <2>3, <2>4
      <3>3. ASSUME NEW i \in DOMAIN p
            PROVE  next'[p[i]] = IF i = Len(p) THEN Null ELSE p[i + 1]
        <4>1. CASE i = 1
          <5>1. next'[p[i]] = entries[s].ptr
            BY <1>1, <1>3, <2>1, <2>2, <4>1
          <5>2. entries[s].ptr = IF chain[s] = <<>> THEN Null ELSE chain[s][1]
            BY <1>1 DEF IInv, ChainsAreLinked
          <5>3. chain[s] = <<>> <=> Len(p) = 1
            BY <1>1, <2>2
          <5>4. chain[s] # <<>> => p[2] = chain[s][1]
            <6>1. chain[s] # <<>> => 1 \in DOMAIN chain[s]
              BY <1>1, <2>3
            <6>2. 1 \in DOMAIN chain[s] => p[1 + 1] = chain[s][1]
              BY <2>2
            <6> QED
              BY <6>1, <6>2
          <5> QED
            BY <4>1, <5>1, <5>2, <5>3, <5>4
        <4>2. CASE i # 1
          <5>1. i - 1 \in DOMAIN chain[s] /\ p[i] = chain[s][i - 1]
            BY <2>2, <4>2
          <5>2. next[chain[s][i - 1]] =
                  IF i - 1 = Len(chain[s]) THEN Null ELSE chain[s][i - 1 + 1]
            BY <1>1, <5>1 DEF IInv, ChainsAreLinked
          <5>3. i \in Nat /\ i - 1 + 1 = i
            BY <2>2, <2>3
          <5>4. i # Len(p) => i \in DOMAIN chain[s]
            BY <2>2, <2>3, <5>1, <5>3
          <5>5. i # Len(p) => p[i + 1] = chain[s][i]
            BY <2>2, <5>4
          <5> QED
            BY <2>1, <2>2, <2>3, <5>1, <5>2, <5>3, <5>5
        <4> QED
          BY <4>1, <4>2
      <3>4. ASSUME NEW i \in DOMAIN p, NEW j \in DOMAIN p, p[i] = p[j]
            PROVE  i = j
        <4>1. \A k, l \in DOMAIN chain[s] : chain[s][k] = chain[s][l] => k = l
          BY <1>1 DEF IInv, ChainsAreLinked
        <4> QED
          BY <1>1, <2>2, <2>3, <3>4, <4>1, SMTT(30)
      <3> QED
        BY <2>3, <3>1, <3>2, <3>3, <3>4 DEF ChainsAreLinked
    <2>9. {p[i] : i \in DOMAIN p} = {chain[s][i] : i \in DOMAIN chain[s]} \cup {e}
      <3>1. 1 \in DOMAIN p /\ \A i \in DOMAIN chain[s] : i + 1 \in DOMAIN p
        BY <2>2, <2>3
      <3> QED
        BY <2>2, <3>1, SMTT(30)
    <2>10. ChainsAreComplete'
      <3>1. SlotOf(e) = s
        BY DEF s
      <3>2. ASSUME NEW q \in Slots
            PROVE  {chain'[q][i] : i \in DOMAIN chain'[q]} = {f \in Inserted' : SlotOf(f) = q}
        <4>1. {chain[q][i] : i \in DOMAIN chain[q]} = {f \in Inserted : SlotOf(f) = q}
          BY DEF IInv, ChainsAreComplete
        <4>2. CASE q = s
          <5>1. {f \in Inserted' : SlotOf(f) = s} = {f \in Inserted : SlotOf(f) = s} \cup {e}
            BY <2>7, <3>1
          <5>2. {chain[s][i] : i \in DOMAIN chain[s]} = {f \in Inserted : SlotOf(f) = s}
            BY <4>1, <4>2
          <5>3. {chain'[s][i] : i \in DOMAIN chain'[s]} = {p[i] : i \in DOMAIN p}
            BY <2>3
          <5> QED
            BY <2>9, <4>2, <5>1, <5>2, <5>3
        <4>3. CASE q # s
          BY <2>3, <2>7, <3>1, <4>1, <4>3
        <4> QED
          BY <4>2, <4>3
      <3> QED
        BY <3>2 DEF ChainsAreComplete
    <2>11. TagsAreExact'
      <3>1. {Hash[p[i]].tag : i \in DOMAIN p} =
              {Hash[chain[s][i]].tag : i \in DOMAIN chain[s]} \cup {Hash[e].tag}
        <4>1. 1 \in DOMAIN p /\ \A i \in DOMAIN chain[s] : i + 1 \in DOMAIN p
          BY <2>2, <2>3
        <4> QED
          BY <2>2, <4>1, SMTT(30)
      <3>2. entries[s].tags = {Hash[chain[s][i]].tag : i \in DOMAIN chain[s]}
        BY <1>1 DEF IInv, TagsAreExact
      <3>3. ASSUME NEW q \in Slots
            PROVE  entries'[q].tags = {Hash[chain'[q][i]].tag : i \in DOMAIN chain'[q]}
        <4>1. CASE q = s
          <5>1. {Hash[chain'[s][i]].tag : i \in DOMAIN chain'[s]} = {Hash[p[i]].tag : i \in DOMAIN p}
            BY <2>3
          <5> QED
            BY <2>3, <2>4, <3>1, <3>2, <4>1, <5>1, SMTT(30)
        <4>2. CASE q # s
          BY <2>3, <4>2 DEF IInv, TagsAreExact
        <4> QED
          BY <4>1, <4>2
      <3> QED
        BY <3>3 DEF TagsAreExact
    <2> QED
      BY <2>5, <2>6, <2>8, <2>10, <2>11 DEF IInv
  <1> QED
    BY <1>2, <1>3

-----------------------------------------------------------------------------
\* Every reachable state of Hashmap satisfies the inductive invariant.
THEOREM HashmapInvariant == Spec => []IInv
  <1>1. IInv /\ [Next]_vars => IInv'
    <2> SUFFICES ASSUME IInv, [Next]_vars PROVE IInv'
      OBVIOUS
    <2>1. ASSUME NEW t \in Threads, Step(t)
          PROVE  IInv'
      BY <2>1, BeginKeeps, LoadKeeps, LinkKeeps, PublishKeeps DEF Step
    <2>2. CASE UNCHANGED vars
      BY <2>2 DEF vars, shared, IInv, TypeOK, PrivateInv, ChainsAreLinked,
                  ChainsAreComplete, TagsAreExact, Inserted
    <2> QED
      BY <2>1, <2>2 DEF Next, Terminated
  <1> QED
    BY InitIInv, <1>1, PTL DEF Spec

\* The variables of Hashmap keep their types.
THEOREM HashmapTypeCorrect == Spec => []TypeOK
  BY HashmapInvariant, PTL DEF IInv

\* insert_tagged() keeps one chain per slot that ends and has nothing twice,
\* for any number of threads, entries and collisions.
THEOREM HashmapChainsLinked == Spec => []ChainsAreLinked
  BY HashmapInvariant, PTL DEF IInv

\* insert_tagged() loses no entry: what has been inserted is in its chain.
THEOREM HashmapChainsComplete == Spec => []ChainsAreComplete
  BY HashmapInvariant, PTL DEF IInv

\* The tags in the slots are those of the entries in the chains.
THEOREM HashmapTagsExact == Spec => []TagsAreExact
  BY HashmapInvariant, PTL DEF IInv

\* find_chain_tagged() returns the whole chain for the hash of each entry that
\* has been inserted: the filter has no false negatives.
THEOREM FilterLetsPass ==
  Spec => [](\A e \in Inserted : find_chain_tagged(Hash[e]) = chain[SlotOf(e)][1])
  <1>1. IInv => \A e \in Inserted : find_chain_tagged(Hash[e]) = chain[SlotOf(e)][1]
    <2> SUFFICES ASSUME IInv, NEW e \in Inserted
                 PROVE  find_chain_tagged(Hash[e]) = chain[SlotOf(e)][1]
      OBVIOUS
    <2>1. SlotOf(e) \in Slots /\ e \in Entries
      BY DEF Inserted, SlotOf
    <2>2. PICK i \in DOMAIN chain[SlotOf(e)] : chain[SlotOf(e)][i] = e
      BY <2>1 DEF IInv, ChainsAreComplete
    <2>3. Hash[e].tag \in entries[SlotOf(e)].tags
      BY <2>1, <2>2 DEF IInv, TagsAreExact
    <2>4. entries[SlotOf(e)].ptr = chain[SlotOf(e)][1]
      BY <2>1, <2>2 DEF IInv, ChainsAreLinked
    <2> QED
      BY <2>3, <2>4 DEF find_chain_tagged, SlotOf
  <1> QED
    BY <1>1, HashmapInvariant, PTL

-----------------------------------------------------------------------------
\* What is added to the entries reached in a walk by one more step.
Onward(X) == X \cup {next[e] : e \in X \ {Null}}

\* The recursive function in Walk exists, and is what its equation says.
LEMMA WalkSteps ==
  ASSUME TypeOK, NEW p \in Pointers
  PROVE  \E f \in [Nat -> SUBSET Pointers] :
            /\ f[0] = {p}
            /\ \A n \in Nat : f[n + 1] = Onward(f[n])
            /\ Walk(p) = f[Cardinality(Entries)] \ {Null}
  <1> DEFINE Body(f) == [n \in Nat |-> IF n = 0 THEN {p}
                          ELSE f[n - 1] \cup {next[e] : e \in f[n - 1] \ {Null}}]
  <1> DEFINE reached == CHOOSE f : f = Body(f)
  <1> DEFINE step == [n \in Nat |-> [X \in SUBSET Pointers |-> Onward(X)]]
  <1>1. \A X \in SUBSET Pointers : Onward(X) \in SUBSET Pointers
    BY DEF TypeOK, Pointers, Onward
  <1>2. step \in [Nat -> [SUBSET Pointers -> SUBSET Pointers]]
    BY <1>1
  <1>3. PICK f \in [Nat -> SUBSET Pointers] :
           f[0] = {p} /\ \A n \in Nat : f[n + 1] = step[n][f[n]]
    <2>1. {p} \in SUBSET Pointers /\ step \in Steps(SUBSET Pointers)
      BY <1>2 DEF Steps
    <2> HIDE DEF step
    <2>2. PICK f : Follows(f, SUBSET Pointers, {p}, step)
      BY <2>1, RecursionOnNat
    <2> QED
      BY <2>2 DEF Follows
  <1>4. \A n \in Nat : f[n + 1] = Onward(f[n])
    BY <1>3
  <1>5. f = Body(f)
    <2>1. ASSUME NEW n \in Nat
          PROVE  f[n] = Body(f)[n]
      <3>1. CASE n = 0
        BY <1>3, <3>1
      <3>2. CASE n # 0
        <4>1. n - 1 \in Nat /\ (n - 1) + 1 = n
          BY <3>2
        <4> QED
          BY <1>4, <3>2, <4>1 DEF Onward
      <3> QED
        BY <3>1, <3>2
    <2> QED
      BY <2>1
  <1>6. reached = Body(reached)
    <2> HIDE DEF Body
    <2> QED
      BY <1>5
  <1>7. Walk(p) = reached[Cardinality(Entries)] \ {Null}
    BY DEF Walk
  <1> HIDE DEF reached
  <1>8. \A n \in Nat : reached[n] = f[n]
    <2> DEFINE Q == {n \in Nat : reached[n] = f[n]}
    <2>1. 0 \in Q
      BY <1>3, <1>6
    <2>2. ASSUME NEW n \in Nat, n \in Q
          PROVE  n + 1 \in Q
      <3>1. n + 1 \in Nat /\ n + 1 # 0 /\ (n + 1) - 1 = n
        OBVIOUS
      <3>2. reached[n + 1] = Onward(reached[n])
        BY <1>6, <3>1 DEF Onward
      <3> QED
        BY <1>4, <2>2, <3>1, <3>2
    <2> HIDE DEF Q
    <2>3. Nat \subseteq Q
      BY <2>1, <2>2, InductionOnNat
    <2> QED
      BY <2>3 DEF Q
  <1>9. Cardinality(Entries) \in Nat
    BY EntriesAssumption, FS_CardinalityType
  <1> QED
    BY <1>3, <1>4, <1>7, <1>8, <1>9

\* A chain is not longer than there are entries.
LEMMA ChainIsShort ==
  ASSUME IInv, NEW s \in Slots
  PROVE  /\ Len(chain[s]) \in Nat /\ Len(chain[s]) <= Cardinality(Entries)
         /\ Cardinality(Entries) \in Nat
         /\ chain[s] \in [1 .. Len(chain[s]) -> Entries]
  <1>1. chain[s] \in Seq(Entries) /\ Len(chain[s]) \in Nat
        /\ chain[s] \in [1 .. Len(chain[s]) -> Entries]
    BY DEF IInv, TypeOK
  <1>2. chain[s] \in Injection(1 .. Len(chain[s]), Entries)
    BY <1>1 DEF Injection, IsInjective, IInv, ChainsAreLinked
  <1>3. Cardinality(1 .. Len(chain[s])) = Len(chain[s])
    <2> DEFINE n == Len(chain[s])
    <2>1. n \in Nat /\ 1 \in Int /\ n \in Int
      BY <1>1
    <2> HIDE DEF n
    <2>2. Cardinality(1 .. n) = IF 1 > n THEN 0 ELSE n - 1 + 1
      BY <2>1, FS_Interval
    <2>3. Cardinality(1 .. n) = n
      BY <2>1, <2>2
    <2> QED
      BY <2>3 DEF n
  <1>4. Cardinality(1 .. Len(chain[s])) <= Cardinality(Entries)
    BY <1>2, EntriesAssumption, FS_Injection
  <1>5. Cardinality(Entries) \in Nat
    BY EntriesAssumption, FS_CardinalityType
  <1> QED
    BY <1>1, <1>3, <1>4, <1>5

\* A walk from the slot comes to the entries of its chain, and to no others.
LEMMA WalkIsChain ==
  ASSUME IInv, NEW s \in Slots
  PROVE  Walk(entries[s].ptr) = {chain[s][i] : i \in DOMAIN chain[s]}
  <1> DEFINE p == entries[s].ptr
  <1> DEFINE c == chain[s]
  <1> DEFINE N == Cardinality(Entries)
  <1> DEFINE L == Len(c)
  <1>1. p \in Pointers
    BY DEF IInv, TypeOK, Words
  <1>2. PICK f \in [Nat -> SUBSET Pointers] :
           /\ f[0] = {p}
           /\ \A n \in Nat : f[n + 1] = Onward(f[n])
           /\ Walk(p) = f[N] \ {Null}
    BY <1>1, WalkSteps DEF IInv
  <1>3. /\ L \in Nat /\ N \in Nat /\ L <= N
        /\ c \in [1 .. L -> Entries] /\ DOMAIN c = 1 .. L
    BY ChainIsShort
  <1>4. /\ p = IF c = <<>> THEN Null ELSE c[1]
        /\ \A i \in DOMAIN c : next[c[i]] = IF i = L THEN Null ELSE c[i + 1]
    BY DEF IInv, ChainsAreLinked
  <1>5. c = <<>> <=> L = 0
    BY <1>3 DEF IInv, TypeOK
  <1> HIDE DEF p, c, N, L
  <1>6. {c[i] : i \in 1 .. L} \subseteq f[N]
    <2> DEFINE Q == {n \in Nat : \A i \in 1 .. L : i <= n + 1 => c[i] \in f[n]}
    <2>1. 0 \in Q
      BY <1>2, <1>3, <1>4, <1>5
    <2>2. ASSUME NEW n \in Nat, n \in Q
          PROVE  n + 1 \in Q
      <3> SUFFICES ASSUME NEW i \in 1 .. L, i <= (n + 1) + 1
                   PROVE  c[i] \in f[n + 1]
        OBVIOUS
      <3>1. f[n + 1] = f[n] \cup {next[e] : e \in f[n] \ {Null}}
        BY <1>2 DEF Onward
      <3>2. CASE i <= n + 1
        BY <2>2, <3>1, <3>2
      <3>3. CASE i = n + 2
        <4>1. i - 1 \in 1 .. L /\ i - 1 <= n + 1 /\ (i - 1) + 1 = i /\ i - 1 # L
          BY <1>3, <3>3
        <4>2. c[i - 1] \in f[n] \ {Null}
          BY <1>3, <2>2, <4>1, NullAssumption
        <4>3. next[c[i - 1]] = c[i]
          BY <1>3, <1>4, <4>1
        <4> QED
          BY <3>1, <4>2, <4>3
      <3> QED
        BY <1>3, <3>2, <3>3
    <2> HIDE DEF Q
    <2>3. N \in Q
      BY <1>3, <2>1, <2>2, InductionOnNat
    <2> QED
      BY <1>3, <2>3 DEF Q
  <1>7. f[N] \subseteq {c[i] : i \in 1 .. L} \cup {Null}
    <2> DEFINE R == {c[i] : i \in 1 .. L} \cup {Null}
    <2> DEFINE Q == {n \in Nat : f[n] \subseteq R}
    <2>1. 0 \in Q
      BY <1>2, <1>3, <1>4, <1>5
    <2>2. ASSUME NEW n \in Nat, n \in Q
          PROVE  n + 1 \in Q
      <3>1. f[n + 1] = f[n] \cup {next[e] : e \in f[n] \ {Null}}
        BY <1>2 DEF Onward
      <3>2. ASSUME NEW e \in f[n] \ {Null}
            PROVE  next[e] \in R
        <4>1. PICK i \in 1 .. L : e = c[i]
          BY <2>2, <3>2
        <4>2. i # L => i + 1 \in 1 .. L
          BY <1>3
        <4> QED
          BY <1>3, <1>4, <4>1, <4>2
      <3> HIDE DEF R
      <3> QED
        BY <2>2, <3>1, <3>2
    <2> HIDE DEF Q, R
    <2>3. N \in Q
      BY <1>3, <2>1, <2>2, InductionOnNat
    <2> QED
      BY <2>3 DEF Q, R
  <1>8. Null \notin {c[i] : i \in 1 .. L}
    BY <1>3, NullAssumption
  <1>9. Walk(p) = {c[i] : i \in 1 .. L}
    BY <1>2, <1>6, <1>7, <1>8
  <1> QED
    BY <1>3, <1>9 DEF p, c, L

\* A walk from end() comes to nothing.
LEMMA WalkOfNull ==
  ASSUME IInv
  PROVE  Walk(Null) = {}
  <1>1. PICK f \in [Nat -> SUBSET Pointers] :
           /\ f[0] = {Null}
           /\ \A n \in Nat : f[n + 1] = Onward(f[n])
           /\ Walk(Null) = f[Cardinality(Entries)] \ {Null}
    BY WalkSteps DEF IInv, Pointers
  <1> DEFINE Q == {n \in Nat : f[n] = {Null}}
  <1>2. 0 \in Q
    BY <1>1
  <1>3. ASSUME NEW n \in Nat, n \in Q
        PROVE  n + 1 \in Q
    <2>1. Onward({Null}) = {Null}
      BY DEF Onward
    <2>2. f[n] = {Null} /\ f[n + 1] = Onward(f[n])
      BY <1>1, <1>3
    <2>3. f[n + 1] = {Null}
      BY <2>1, <2>2
    <2> QED
      BY <2>3
  <1> HIDE DEF Q
  <1>4. Cardinality(Entries) \in Q
    BY <1>2, <1>3, InductionOnNat, EntriesAssumption, FS_CardinalityType
  <1> QED
    BY <1>1, <1>4 DEF Q

\* Whatever has been inserted is found through the filter and the pointers,
\* while other threads go on inserting.
THEOREM HashmapInsertedIsFound == Spec => []InsertedIsFound
  <1>1. IInv => InsertedIsFound
    <2> SUFFICES ASSUME IInv, NEW e \in Inserted
                 PROVE  e \in Walk(find_chain_tagged(Hash[e]))
      BY DEF InsertedIsFound
    <2>1. SlotOf(e) \in Slots /\ e \in Entries
      BY DEF Inserted, SlotOf
    <2>2. PICK i \in DOMAIN chain[SlotOf(e)] : chain[SlotOf(e)][i] = e
      BY <2>1 DEF IInv, ChainsAreComplete
    <2>3. Hash[e].tag \in entries[SlotOf(e)].tags
      BY <2>1, <2>2 DEF IInv, TagsAreExact
    <2>4. find_chain_tagged(Hash[e]) = entries[SlotOf(e)].ptr
      BY <2>3 DEF find_chain_tagged, SlotOf
    <2>5. Walk(entries[SlotOf(e)].ptr) =
            {chain[SlotOf(e)][n] : n \in DOMAIN chain[SlotOf(e)]}
      BY <2>1, WalkIsChain
    <2> QED
      BY <2>2, <2>4, <2>5
  <1> QED
    BY <1>1, HashmapInvariant, PTL

-----------------------------------------------------------------------------
(***************************************************************************)
(* The build phase.  The calls of the barrier that a worker has made when  *)
(* it comes to join j are one for each join before that is empty and two   *)
(* for each other one.                                                     *)
(***************************************************************************)
CallsBefore(f, j) == (j - 1) + Cardinality({k \in 1 .. j - 1 : f[k] # 0})

Founds == [1 .. NrJoins -> Nat]

\* The calls of barrier() in the joins before one are a number.
LEMMA CallsBeforeType ==
  ASSUME NEW f \in Founds, NEW j \in 1 .. NrJoins
  PROVE  /\ CallsBefore(f, j) \in Nat
         /\ IsFiniteSet({k \in 1 .. j - 1 : f[k] # 0})
         /\ Cardinality({k \in 1 .. j - 1 : f[k] # 0}) \in Nat
  <1> DEFINE A == {k \in 1 .. j - 1 : f[k] # 0}
  <1>1. j \in Nat /\ j - 1 \in Nat /\ 1 \in Int /\ j - 1 \in Int
    BY NrJoinsAssumption
  <1>2. IsFiniteSet(1 .. j - 1) /\ A \in SUBSET (1 .. j - 1)
    BY <1>1, FS_Interval
  <1> HIDE DEF A
  <1>3. IsFiniteSet(A) /\ Cardinality(A) \in Nat
    BY <1>2, FS_Subset, FS_CardinalityType
  <1> QED
    BY <1>1, <1>3 DEF CallsBefore, A

\* A join has one call of barrier() if it found nothing, and two otherwise.
LEMMA CallsBeforeNext ==
  ASSUME NEW f \in Founds, NEW j \in 1 .. NrJoins - 1
  PROVE  CallsBefore(f, j + 1) = CallsBefore(f, j) + (IF f[j] = 0 THEN 1 ELSE 2)
  <1> DEFINE A == {k \in 1 .. j - 1 : f[k] # 0}
  <1> DEFINE B == {k \in 1 .. (j + 1) - 1 : f[k] # 0}
  <1>1. j \in 1 .. NrJoins /\ j \in Nat /\ (j + 1) - 1 = j
    BY NrJoinsAssumption
  <1>2. B = IF f[j] = 0 THEN A ELSE A \cup {j}
    BY <1>1
  <1>3. j \notin A /\ IsFiniteSet(A) /\ Cardinality(A) \in Nat
    BY <1>1, CallsBeforeType
  <1>4. Cardinality(B) = Cardinality(A) + (IF f[j] = 0 THEN 0 ELSE 1)
    <2> HIDE DEF A, B
    <2>1. CASE f[j] = 0
      BY <1>2, <1>3, <2>1
    <2>2. CASE f[j] # 0
      <3>1. Cardinality(A \cup {j}) = Cardinality(A) + 1
        BY <1>3, FS_AddElement
      <3> QED
        BY <1>2, <2>2, <3>1
    <2> QED
      BY <2>1, <2>2
  <1>5. CallsBefore(f, j + 1) = j + Cardinality(B) /\ CallsBefore(f, j) = (j - 1) + Cardinality(A)
    BY <1>1 DEF CallsBefore
  <1> HIDE DEF A, B
  <1> QED
    BY <1>1, <1>3, <1>4, <1>5

\* The calls of an earlier join come before those of a later one.
LEMMA CallsBeforeGrows ==
  ASSUME NEW f \in Founds, NEW i \in 1 .. NrJoins, NEW j \in 1 .. NrJoins, i < j
  PROVE  CallsBefore(f, i) + (IF f[i] = 0 THEN 1 ELSE 2) <= CallsBefore(f, j)
  <1> DEFINE Q == {n \in Nat : i + 1 + n <= NrJoins =>
                     CallsBefore(f, i) + (IF f[i] = 0 THEN 1 ELSE 2) <= CallsBefore(f, i + 1 + n)}
  <1>1. 0 \in Q
    <2>1. i + 1 + 0 = i + 1 /\ i \in 1 .. NrJoins - 1
      BY NrJoinsAssumption
    <2>2. CallsBefore(f, i + 1) = CallsBefore(f, i) + (IF f[i] = 0 THEN 1 ELSE 2)
      BY <2>1, CallsBeforeNext
    <2>3. CallsBefore(f, i) \in Nat
      BY CallsBeforeType
    <2> QED
      BY <2>1, <2>2, <2>3
  <1>2. ASSUME NEW n \in Nat, n \in Q
        PROVE  n + 1 \in Q
    <2> SUFFICES ASSUME i + 1 + (n + 1) <= NrJoins
                 PROVE  CallsBefore(f, i) + (IF f[i] = 0 THEN 1 ELSE 2)
                          <= CallsBefore(f, i + 1 + (n + 1))
      OBVIOUS
    <2> DEFINE m == i + 1 + n
    <2>1. m \in 1 .. NrJoins - 1 /\ m \in 1 .. NrJoins /\ m + 1 = i + 1 + (n + 1) /\ m <= NrJoins
      BY NrJoinsAssumption
    <2>2. CallsBefore(f, i) + (IF f[i] = 0 THEN 1 ELSE 2) <= CallsBefore(f, m)
      BY <1>2, <2>1
    <2> HIDE DEF m
    <2>3. CallsBefore(f, m + 1) = CallsBefore(f, m) + (IF f[m] = 0 THEN 1 ELSE 2)
      BY <2>1, CallsBeforeNext
    <2>4. CallsBefore(f, m) \in Nat /\ CallsBefore(f, i) \in Nat
      BY <2>1, CallsBeforeType
    <2>5. CallsBefore(f, i) + (IF f[i] = 0 THEN 1 ELSE 2) <= CallsBefore(f, m + 1)
      BY <2>2, <2>3, <2>4
    <2> QED
      BY <2>1, <2>5
  <1> HIDE DEF Q
  <1>3. Nat \subseteq Q
    BY <1>1, <1>2, InductionOnNat
  <1>4. j - i - 1 \in Nat /\ i + 1 + (j - i - 1) = j /\ j <= NrJoins
    BY NrJoinsAssumption
  <1>5. j - i - 1 \in Q
    BY <1>3, <1>4
  <1> QED
    BY <1>4, <1>5 DEF Q

\* What is found for a join does not change the calls before it.
LEMMA CallsBeforeSame ==
  ASSUME NEW f, NEW g, NEW j \in 1 .. NrJoins, \A k \in 1 .. j - 1 : f[k] = g[k]
  PROVE  CallsBefore(f, j) = CallsBefore(g, j)
  <1>1. {k \in 1 .. j - 1 : f[k] # 0} = {k \in 1 .. j - 1 : g[k] # 0}
    OBVIOUS
  <1> QED
    BY <1>1 DEF CallsBefore

-----------------------------------------------------------------------------
(***************************************************************************)
(* A sum over all workers is the number of elements of a set: w[t]         *)
(* elements for worker t.                                                  *)
(***************************************************************************)
Weights == [Threads -> 0 .. MaxFound]
Units(w) == {p \in Threads \X (1 .. MaxFound) : p[2] <= w[p[1]]}
Sum(w) == Cardinality(Units(w))

\* The bound on the tuples of a worker is a number.
LEMMA MaxFoundType ==
  ASSUME NEW t \in Threads
  PROVE  MaxFound \in Nat
  <1> DEFINE E == {e \in Entries : Owner[e] = t}
  <1>1. IsFiniteSet(E)
    <2>1. E \in SUBSET Entries
      OBVIOUS
    <2> HIDE DEF E
    <2> QED
      BY <2>1, EntriesAssumption, FS_Subset
  <1>2. Cardinality(E) \in Nat
    <2> HIDE DEF E
    <2> QED
      BY <1>1, FS_CardinalityType
  <1> QED
    BY <1>2, MaxFoundAssumption

\* The sum of a weight for each worker is a number.
LEMMA SumType ==
  ASSUME NEW w \in Weights
  PROVE  IsFiniteSet(Units(w)) /\ Sum(w) \in Nat
  <1>1. CASE Threads = {}
    <2>1. Units(w) = {}
      BY <1>1 DEF Units
    <2> QED
      BY <2>1, FS_EmptySet DEF Sum
  <1>2. CASE Threads # {}
    <2>1. MaxFound \in Int /\ 1 \in Int
      BY <1>2, MaxFoundType
    <2>2. IsFiniteSet(1 .. MaxFound)
      BY <2>1, FS_Interval
    <2>3. IsFiniteSet(Threads \X (1 .. MaxFound))
      BY <2>2, ThreadsAssumption, FS_Product
    <2>4. Units(w) \in SUBSET (Threads \X (1 .. MaxFound))
      BY DEF Units
    <2>5. IsFiniteSet(Units(w))
      BY <2>3, <2>4, FS_Subset
    <2> QED
      BY <2>5, FS_CardinalityType DEF Sum
  <1> QED
    BY <1>1, <1>2

\* One more for one worker.
LEMMA SumNext ==
  ASSUME NEW w \in Weights, NEW t \in Threads, w[t] < MaxFound
  PROVE  LET v == [w EXCEPT ![t] = w[t] + 1]
         IN  v \in Weights /\ Sum(v) = Sum(w) + 1
  <1> DEFINE v == [w EXCEPT ![t] = w[t] + 1]
  <1>1. MaxFound \in Nat /\ w[t] \in Nat /\ w[t] + 1 \in 1 .. MaxFound
    BY MaxFoundType DEF Weights
  <1>2. v \in Weights
    BY <1>1 DEF Weights
  <1> DEFINE q == <<t, w[t] + 1>>
  <1>3. Units(v) = Units(w) \cup {q}
    <2>1. ASSUME NEW p \in Threads \X (1 .. MaxFound)
          PROVE  p[2] <= v[p[1]] <=> (p[2] <= w[p[1]] \/ p = q)
      <3>1. p = <<p[1], p[2]>> /\ p[1] \in Threads /\ p[2] \in 1 .. MaxFound
        OBVIOUS
      <3>2. CASE p[1] = t
        <4>1. v[t] = w[t] + 1 /\ p[2] \in Nat
          BY <1>1, <3>1 DEF Weights
        <4>2. p = q <=> p[2] = w[t] + 1
          BY <3>1, <3>2
        <4> HIDE DEF v, q
        <4> QED
          BY <1>1, <3>2, <4>1, <4>2
      <3>3. CASE p[1] # t
        <4>1. v[p[1]] = w[p[1]] /\ p # q
          BY <3>1, <3>3 DEF Weights
        <4> QED
          BY <4>1
      <3> QED
        BY <3>2, <3>3
    <2>2. q \in Threads \X (1 .. MaxFound)
      BY <1>1
    <2> HIDE DEF v, q
    <2> QED
      BY <2>1, <2>2 DEF Units
  <1>4. q \notin Units(w)
    BY <1>1 DEF Units
  <1>5. IsFiniteSet(Units(w))
    BY SumType
  <1>6. Sum(v) = Sum(w) + 1
    <2> HIDE DEF v, q
    <2> QED
      BY <1>3, <1>4, <1>5, FS_AddElement DEF Sum
  <1> QED
    BY <1>2, <1>6

\* n for one worker who had none.
LEMMA SumAdds ==
  ASSUME NEW w \in Weights, NEW t \in Threads, w[t] = 0, NEW n \in 0 .. MaxFound
  PROVE  Sum([w EXCEPT ![t] = n]) = Sum(w) + n
  <1> DEFINE v(m) == [w EXCEPT ![t] = m]
  <1> DEFINE Q == {m \in Nat : m <= MaxFound => v(m) \in Weights /\ Sum(v(m)) = Sum(w) + m}
  <1>1. MaxFound \in Nat /\ Sum(w) \in Nat
    BY MaxFoundType, SumType
  <1>2. 0 \in Q
    <2>1. v(0) = w
      BY DEF Weights
    <2> QED
      BY <1>1, <2>1
  <1>3. ASSUME NEW m \in Nat, m \in Q
        PROVE  m + 1 \in Q
    <2> SUFFICES ASSUME m + 1 <= MaxFound
                 PROVE  v(m + 1) \in Weights /\ Sum(v(m + 1)) = Sum(w) + (m + 1)
      OBVIOUS
    <2>1. m <= MaxFound /\ m < MaxFound
      BY <1>1
    <2>2. v(m) \in Weights /\ Sum(v(m)) = Sum(w) + m
      BY <1>3, <2>1
    <2>3. v(m)[t] = m
      BY DEF Weights
    <2>4. v(m + 1) = [v(m) EXCEPT ![t] = v(m)[t] + 1]
      BY <2>3 DEF Weights
    <2> DEFINE x == v(m)
    <2>5. x \in Weights /\ x[t] = m /\ x[t] < MaxFound /\ v(m + 1) = [x EXCEPT ![t] = x[t] + 1]
      BY <2>1, <2>2, <2>3, <2>4
    <2> HIDE DEF v, x
    <2>6. v(m + 1) \in Weights /\ Sum(v(m + 1)) = Sum(x) + 1
      BY <2>5, SumNext, SMTT(30)
    <2> QED
      BY <1>1, <2>2, <2>6 DEF x
  <1> HIDE DEF Q
  <1>4. n \in Q /\ n <= MaxFound
    BY <1>1, <1>2, <1>3, InductionOnNat
  <1> QED
    BY <1>4 DEF Q

\* One less for one worker.
LEMMA SumTakes ==
  ASSUME NEW w \in Weights, NEW t \in Threads, w[t] > 0
  PROVE  Sum(w) > 0 /\ Sum([w EXCEPT ![t] = w[t] - 1]) = Sum(w) - 1
  <1> DEFINE v == [w EXCEPT ![t] = w[t] - 1]
  <1>1. MaxFound \in Nat /\ w[t] \in 1 .. MaxFound /\ w[t] - 1 \in 0 .. MaxFound /\ Sum(w) \in Nat
    BY MaxFoundType, SumType DEF Weights
  <1>2. v \in Weights /\ v[t] = w[t] - 1 /\ v[t] < MaxFound
    BY <1>1 DEF Weights
  <1>3. [v EXCEPT ![t] = v[t] + 1] = w
    <2>1. w = [u \in Threads |-> w[u]] /\ v[t] + 1 = w[t]
      BY <1>1, <1>2 DEF Weights
    <2>2. [v EXCEPT ![t] = v[t] + 1] = [u \in Threads |-> IF u = t THEN v[t] + 1 ELSE w[u]]
      BY <2>1
    <2> HIDE DEF v
    <2> QED
      BY <2>1, <2>2
  <1>4. Sum(v) \in Nat /\ Sum(w) = Sum(v) + 1
    <2> HIDE DEF v
    <2>1. Sum([v EXCEPT ![t] = v[t] + 1]) = Sum(v) + 1
      BY <1>2, SumNext
    <2> QED
      BY <1>2, <1>3, <2>1, SumType
  <1> QED
    BY <1>1, <1>4

\* The sum is 0 when nobody has anything, and only then.
LEMMA SumZero ==
  ASSUME NEW w \in Weights
  PROVE  Sum(w) = 0 <=> \A t \in Threads : w[t] = 0
  <1>1. ASSUME NEW t \in Threads, w[t] # 0
        PROVE  Sum(w) # 0
    <2>1. w[t] > 0
      BY <1>1 DEF Weights
    <2>2. Sum(w) > 0 /\ Sum(w) \in Nat
      BY <2>1, SumTakes, SumType
    <2> QED
      BY <2>2
  <1>2. ASSUME \A t \in Threads : w[t] = 0
        PROVE  Sum(w) = 0
    <2>1. Units(w) = {}
      BY <1>2 DEF Units
    <2> QED
      BY <2>1, FS_EmptySet DEF Sum
  <1> QED
    BY <1>1, <1>2

-----------------------------------------------------------------------------
(***************************************************************************)
(* The inductive invariant of the build phase.                             *)
(***************************************************************************)
JoinTypeOK ==
  /\ calls \in [Threads -> Nat] /\ returns \in [Threads -> Nat] /\ finals \in Nat
  /\ found \in Founds /\ inserted \in Founds /\ tableSize \in Founds
  /\ join \in [Threads -> 1 .. NrJoins]
  /\ mine \in Weights
  /\ at \in [Threads -> Build!Location]

\* How many calls of the barrier a worker has made for the join that it is at.
CallsHere(t) ==
  IF at[t] \in {"build", "counted"} THEN 0
  ELSE IF at[t] \in {"sizing", "sized", "insert"} THEN 1
  ELSE IF at[t] \in {"waiting", "probe"} THEN 2
  ELSE IF found[join[t]] = 0 THEN 1 ELSE 2

\* Where a worker is follows from how often it has called the barrier.
CallsInv ==
  \A t \in Threads :
    /\ calls[t] = CallsBefore(found, join[t]) + CallsHere(t)
    /\ calls[t] = IF at[t] \in {"sizing", "waiting"} THEN returns[t] + 1 ELSE returns[t]
    /\ returns[t] <= finals /\ finals <= calls[t]

LocalInv ==
  \A t \in Threads :
    /\ at[t] \in {"insert", "waiting", "probe"} => found[join[t]] # 0
    /\ at[t] \in {"waiting", "probe", "end"} => mine[t] = 0
    /\ at[t] = "probe" => join[t] = NrJoins

\* Behind the first meeting for a join, its table has the size of what was found.
SizeInv ==
  \A j \in 1 .. NrJoins : finals > CallsBefore(found, j) => tableSize[j] = found[j]

\* What each worker has counted for join k and not inserted yet.
Pending(k) ==
  [t \in Threads |-> IF join[t] = k /\ at[t] # "build" THEN mine[t] ELSE 0]

\* Nothing that was found is lost or inserted twice.
SumInv == \A k \in 1 .. NrJoins : found[k] = inserted[k] + Sum(Pending(k))

\* The entries in the chains are what the workers have inserted for the last join.
LastInv == Cardinality(Inserted) = inserted[NrJoins]

BuildInv == JoinTypeOK /\ CallsInv /\ LocalInv /\ SizeInv /\ SumInv

\* The invariant that every step of JoinTable preserves.
JoinInv == IInv /\ BuildInv /\ LastInv

-----------------------------------------------------------------------------
\* What a worker is still to insert is a weight.
LEMMA PendingType ==
  ASSUME JoinTypeOK, NEW k
  PROVE  Pending(k) \in Weights
  <1> SUFFICES ASSUME NEW t \in Threads
               PROVE  (IF join[t] = k /\ at[t] # "build" THEN mine[t] ELSE 0) \in 0 .. MaxFound
    BY DEF Pending, Weights
  <1> QED
    BY MaxFoundType DEF JoinTypeOK, Weights

\* What is known of a worker.
LEMMA Worker ==
  ASSUME BuildInv, NEW t \in Threads
  PROVE  /\ join[t] \in 1 .. NrJoins /\ at[t] \in Build!Location /\ mine[t] \in Nat
         /\ found[join[t]] \in Nat /\ calls[t] \in Nat /\ returns[t] \in Nat /\ finals \in Nat
         /\ CallsBefore(found, join[t]) \in Nat
         /\ CallsBefore(found, join[t]) <= returns[t]
         /\ calls[t] <= returns[t] + 1 /\ returns[t] <= finals /\ finals <= calls[t]
  <1>1. /\ join[t] \in 1 .. NrJoins /\ at[t] \in Build!Location /\ mine[t] \in Nat
        /\ found[join[t]] \in Nat /\ calls[t] \in Nat /\ returns[t] \in Nat /\ finals \in Nat
    BY DEF BuildInv, JoinTypeOK, Weights, Founds
  <1>2. CallsBefore(found, join[t]) \in Nat
    BY <1>1, CallsBeforeType DEF BuildInv, JoinTypeOK
  <1> QED
    BY <1>1, <1>2 DEF BuildInv, CallsInv, CallsHere

\* While a worker builds for a join, nobody is beyond the first meeting for it.
LEMMA NobodyBeyond ==
  ASSUME BuildInv, NEW t \in Threads, at[t] \in {"build", "counted"}, NEW u \in Threads
  PROVE  /\ join[u] <= join[t]
         /\ join[u] = join[t] => at[u] \in {"build", "counted", "sizing"}
         /\ finals <= CallsBefore(found, join[t])
  <1> DEFINE a == CallsBefore(found, join[t])
  <1> DEFINE b == CallsBefore(found, join[u])
  <1>1. calls[t] = a /\ finals <= a
    BY Worker DEF BuildInv, CallsInv, CallsHere
  <1>2. a \in Nat /\ b \in Nat /\ returns[u] <= finals /\ b <= returns[u] /\ finals \in Nat
        /\ returns[u] \in Nat
    BY Worker
  <1>3. ~(join[t] < join[u])
    <2> SUFFICES ASSUME join[t] < join[u] PROVE FALSE
      OBVIOUS
    <2>1. a + (IF found[join[t]] = 0 THEN 1 ELSE 2) <= b
      BY Worker, CallsBeforeGrows DEF BuildInv, JoinTypeOK
    <2> HIDE DEF a, b
    <2> QED
      BY <1>1, <1>2, <2>1
  <1>4. join[u] <= join[t]
    <2>1. join[u] \in Nat /\ join[t] \in Nat
      BY Worker
    <2> QED
      BY <1>3, <2>1
  <1>5. ASSUME join[u] = join[t]
        PROVE  at[u] \in {"build", "counted", "sizing"}
    <2>1. calls[u] = a + CallsHere(u) /\ a = b
          /\ calls[u] = IF at[u] \in {"sizing", "waiting"} THEN returns[u] + 1 ELSE returns[u]
      BY <1>5 DEF BuildInv, CallsInv
    <2>2. returns[u] = a
      BY <1>1, <1>2, <2>1
    <2> HIDE DEF a, b
    <2>3. at[u] \in Build!Location
      BY Worker
    <2> QED
      BY <1>2, <2>1, <2>2, <2>3 DEF CallsHere, Build!Location
  <1> QED
    BY <1>1, <1>4, <1>5

\* Behind the first meeting for a join nobody builds for it or a join before; behind
\* the second one, everything that was found is inserted.
LEMMA BehindMeeting ==
  ASSUME BuildInv, NEW k \in 1 .. NrJoins,
         finals >= CallsBefore(found, k) + (IF found[k] = 0 THEN 1 ELSE 2)
  PROVE  /\ inserted[k] = found[k] /\ tableSize[k] = found[k]
         /\ \A u \in Threads : join[u] = k => mine[u] = 0 \/ at[u] = "build"
  <1>1. CallsBefore(found, k) \in Nat /\ found[k] \in Nat /\ inserted[k] \in Nat /\ finals \in Nat
    BY CallsBeforeType DEF BuildInv, JoinTypeOK, Founds
  <1>2. tableSize[k] = found[k]
    BY <1>1 DEF BuildInv, SizeInv
  <1>3. Pending(k) \in Weights /\ Sum(Pending(k)) \in Nat /\ found[k] = inserted[k] + Sum(Pending(k))
    BY PendingType, SumType DEF BuildInv, SumInv
  <1>4. Sum(Pending(k)) = 0
    <2>1. CASE found[k] = 0
      BY <1>1, <1>3, <2>1
    <2>2. CASE found[k] # 0
      <3>1. ASSUME NEW u \in Threads, join[u] = k
            PROVE  mine[u] = 0
        <4>1. at[u] \in {"waiting", "probe", "end"}
          BY <1>1, <2>2, <3>1, Worker DEF BuildInv, CallsInv, CallsHere, Build!Location
        <4> QED
          BY <4>1 DEF BuildInv, LocalInv
      <3>2. \A u \in Threads : Pending(k)[u] = 0
        BY <3>1 DEF Pending
      <3> QED
        BY <1>3, <3>2, SumZero
    <2> QED
      BY <2>1, <2>2
  <1>5. \A u \in Threads : Pending(k)[u] = 0
    BY <1>3, <1>4, SumZero
  <1> QED
    BY <1>1, <1>2, <1>3, <1>4, <1>5 DEF Pending

-----------------------------------------------------------------------------
\* Steps that neither count nor insert.
LEMMA SumStays ==
  ASSUME BuildInv, UNCHANGED <<found, inserted>>,
         \A k \in 1 .. NrJoins : Pending(k)' = Pending(k)
  PROVE  SumInv'
  BY DEF BuildInv, SumInv

\* A worker that materializes a tuple has one more of its own, not yet counted.
LEMMA MaterializeKeeps ==
  ASSUME BuildInv, NEW t \in Threads, Build!Materialize(t)
  PROVE  BuildInv'
  <1> USE DEF Build!Materialize, Build!barrierVars, Build!tables, BuildInv
  <1>1. JoinTypeOK'
    <2>1. mine[t] + 1 \in 0 .. MaxFound
      BY MaxFoundType DEF JoinTypeOK, Weights
    <2> QED
      BY <2>1 DEF JoinTypeOK, Weights
  <1>2. CallsInv' /\ SizeInv'
    BY DEF CallsInv, SizeInv, CallsHere
  <1>3. LocalInv'
    BY DEF LocalInv, JoinTypeOK, Weights
  <1>4. \A k \in 1 .. NrJoins : Pending(k)' = Pending(k)
    BY DEF Pending, JoinTypeOK, Weights
  <1> QED
    BY <1>1, <1>2, <1>3, <1>4, SumStays

\* What a worker counts it counts before anyone is through the first meeting.
LEMMA CountKeeps ==
  ASSUME BuildInv, NEW t \in Threads, Build!Count(t)
  PROVE  BuildInv'
  <1> DEFINE j == join[t]
  <1>1. /\ at[t] = "build" /\ found' = [found EXCEPT ![j] = @ + mine[t]]
        /\ at' = [at EXCEPT ![t] = "counted"]
        /\ UNCHANGED <<nesting, calls, returns, finals, leader, trues, tableSize, inserted, join, mine>>
    BY DEF Build!Count, Build!Goto, Build!barrierVars
  <1>2. /\ j \in 1 .. NrJoins /\ mine[t] \in Nat /\ found[j] \in Nat /\ j \in Nat
    BY Worker
  <1>3. JoinTypeOK'
    BY <1>1, <1>2 DEF BuildInv, JoinTypeOK, Founds, Build!Location
  <1>4. \A u \in Threads : /\ join[u] <= j /\ join[u] \in Nat
                           /\ join[u] = j => at[u] \in {"build", "counted", "sizing"}
    BY <1>1, Worker, NobodyBeyond
  <1>5. finals <= CallsBefore(found, j)
    BY <1>1, NobodyBeyond
  <1>6. \A k \in 1 .. NrJoins : k # j => found'[k] = found[k]
    BY <1>1 DEF BuildInv, JoinTypeOK, Founds
  <1>7. \A k \in 1 .. NrJoins : k <= j => CallsBefore(found', k) = CallsBefore(found, k)
    <2> SUFFICES ASSUME NEW k \in 1 .. NrJoins, k <= j
                 PROVE  CallsBefore(found', k) = CallsBefore(found, k)
      OBVIOUS
    <2>1. \A n \in 1 .. k - 1 : found'[n] = found[n]
      BY <1>2, <1>6, NrJoinsAssumption
    <2> QED
      BY <2>1, CallsBeforeSame
  <1> HIDE DEF j
  <1>8. CallsInv'
    <2> SUFFICES ASSUME NEW u \in Threads
                 PROVE  /\ calls[u] = CallsBefore(found, join[u])' + CallsHere(u)'
                        /\ calls[u] = IF at'[u] \in {"sizing", "waiting"}
                                      THEN returns[u] + 1 ELSE returns[u]
                        /\ returns[u] <= finals /\ finals <= calls[u]
      BY <1>1 DEF CallsInv, CallsBefore
    <2>1. CallsBefore(found, join[u])' = CallsBefore(found, join[u])
      <3>1. join[u] \in 1 .. NrJoins /\ join[u] <= j
        BY <1>4, Worker
      <3>2. CallsBefore(found, join[u])' = CallsBefore(found', join[u])
        BY <1>1 DEF CallsBefore
      <3> QED
        BY <1>7, <3>1, <3>2
    <2>2. CallsHere(u)' = CallsHere(u)
      <3>1. CASE u = t
        BY <1>1, <3>1 DEF CallsHere, BuildInv, JoinTypeOK
      <3>2. CASE u # t
        <4>1. at'[u] = at[u] /\ join'[u] = join[u]
          BY <1>1, <3>2 DEF BuildInv, JoinTypeOK
        <4>2. CASE join[u] = j
          BY <1>4, <4>1, <4>2 DEF CallsHere
        <4>3. CASE join[u] # j
          <5>1. found'[join[u]] = found[join[u]]
            BY <1>6, <4>3, Worker
          <5> QED
            BY <4>1, <5>1 DEF CallsHere
        <4> QED
          BY <4>2, <4>3
      <3> QED
        BY <3>1, <3>2
    <2>3. at'[u] \in {"sizing", "waiting"} <=> at[u] \in {"sizing", "waiting"}
      BY <1>1 DEF BuildInv, JoinTypeOK
    <2> QED
      BY <2>1, <2>2, <2>3 DEF BuildInv, CallsInv
  <1>9. LocalInv'
    <2> SUFFICES ASSUME NEW u \in Threads
                 PROVE  /\ at'[u] \in {"insert", "waiting", "probe"} => found'[join[u]] # 0
                        /\ at'[u] \in {"waiting", "probe", "end"} => mine[u] = 0
                        /\ at'[u] = "probe" => join[u] = NrJoins
      BY <1>1 DEF LocalInv
    <2>1. CASE u = t
      BY <1>1, <2>1 DEF BuildInv, JoinTypeOK
    <2>2. CASE u # t
      <3>1. at'[u] = at[u]
        BY <1>1, <2>2 DEF BuildInv, JoinTypeOK
      <3>2. CASE join[u] = j
        BY <1>4, <3>1, <3>2 DEF BuildInv, LocalInv
      <3>3. CASE join[u] # j
        <4>1. found'[join[u]] = found[join[u]]
          BY <1>6, <3>3, Worker
        <4> QED
          BY <3>1, <4>1 DEF BuildInv, LocalInv
      <3> QED
        BY <3>2, <3>3
    <2> QED
      BY <2>1, <2>2
  <1>10. SizeInv'
    <2> SUFFICES ASSUME NEW k \in 1 .. NrJoins, finals > CallsBefore(found, k)'
                 PROVE  tableSize[k] = found'[k]
      BY <1>1 DEF SizeInv, CallsBefore
    <2>1. CallsBefore(found', j) = CallsBefore(found, j) /\ CallsBefore(found, j) \in Nat
      <3>1. found \in Founds /\ j <= j
        BY <1>2 DEF BuildInv, JoinTypeOK
      <3>2. CallsBefore(found, j) \in Nat
        BY <1>2, <3>1, CallsBeforeType
      <3> QED
        BY <1>2, <1>7, <3>1, <3>2
    <2>2. ~(j < k)
      <3> SUFFICES ASSUME j < k PROVE FALSE
        OBVIOUS
      <3>1. found' \in Founds
        BY <1>3 DEF JoinTypeOK
      <3>2. CallsBefore(found', j) + (IF found'[j] = 0 THEN 1 ELSE 2) <= CallsBefore(found', k)
        BY <1>2, <3>1, CallsBeforeGrows
      <3>3. CallsBefore(found', k) \in Nat /\ CallsBefore(found', j) = CallsBefore(found, j)
            /\ CallsBefore(found, k)' = CallsBefore(found', k)
        BY <2>1, <3>1, CallsBeforeType DEF CallsBefore
      <3>4. finals \in Nat
        BY DEF BuildInv, JoinTypeOK
      <3> QED
        BY <1>5, <2>1, <3>2, <3>3, <3>4
    <2>3. k <= j /\ CallsBefore(found, k)' = CallsBefore(found, k)
      BY <1>2, <1>7, <2>2
    <2>4. k # j
      BY <1>5, <2>1, <2>3 DEF BuildInv, JoinTypeOK
    <2> QED
      BY <1>6, <2>3, <2>4 DEF BuildInv, SizeInv
  <1>11. SumInv'
    <2> SUFFICES ASSUME NEW k \in 1 .. NrJoins
                 PROVE  found'[k] = inserted[k] + Sum(Pending(k)')
      BY <1>1 DEF SumInv, Sum, Units
    <2>1. Pending(k) \in Weights /\ Sum(Pending(k)) \in Nat /\ inserted[k] \in Nat
          /\ found[k] = inserted[k] + Sum(Pending(k))
      BY PendingType, SumType DEF BuildInv, SumInv, JoinTypeOK, Founds
    <2>2. CASE k # j
      <3>1. Pending(k)' = Pending(k)
        BY <1>1, <2>2 DEF Pending, BuildInv, JoinTypeOK, j
      <3> QED
        BY <1>6, <2>1, <2>2, <3>1
    <2>3. CASE k = j
      <3>1. Pending(k)[t] = 0 /\ mine[t] \in 0 .. MaxFound
        BY <1>1 DEF Pending, BuildInv, JoinTypeOK, Weights
      <3>2. Pending(k)' = [Pending(k) EXCEPT ![t] = mine[t]]
        BY <1>1, <2>3 DEF Pending, BuildInv, JoinTypeOK, j
      <3>3. Sum(Pending(k)') = Sum(Pending(k)) + mine[t]
        <4> DEFINE w == Pending(k)
        <4>1. w \in Weights /\ w[t] = 0
          BY <2>1, <3>1
        <4> HIDE DEF w
        <4>2. Sum([w EXCEPT ![t] = mine[t]]) = Sum(w) + mine[t]
          BY <3>1, <4>1, SumAdds
        <4> QED
          BY <3>2, <4>2 DEF w
      <3>4. found'[k] = found[k] + mine[t]
        BY <1>1, <1>2, <2>3 DEF BuildInv, JoinTypeOK, Founds
      <3> QED
        BY <1>2, <2>1, <3>3, <3>4
    <2> QED
      BY <2>2, <2>3
  <1> QED
    BY <1>3, <1>8, <1>9, <1>10, <1>11 DEF BuildInv

\* A step of one worker that neither counts nor inserts nor runs a finalizer.
LEMMA MovesKeep ==
  ASSUME BuildInv, NEW t \in Threads, UNCHANGED <<found, inserted, tableSize, finals>>, JoinTypeOK',
         \A u \in Threads \ {t} : /\ calls'[u] = calls[u] /\ returns'[u] = returns[u]
                                 /\ join'[u] = join[u] /\ mine'[u] = mine[u] /\ at'[u] = at[u],
         /\ calls'[t] = CallsBefore(found, join'[t]) + CallsHere(t)'
         /\ calls'[t] = IF at'[t] \in {"sizing", "waiting"} THEN returns'[t] + 1 ELSE returns'[t]
         /\ returns'[t] <= finals /\ finals <= calls'[t],
         /\ at'[t] \in {"insert", "waiting", "probe"} => found[join'[t]] # 0
         /\ at'[t] \in {"waiting", "probe", "end"} => mine'[t] = 0
         /\ at'[t] = "probe" => join'[t] = NrJoins,
         \/ mine[t] = 0 /\ mine'[t] = 0
         \/ UNCHANGED <<join, mine>> /\ at[t] # "build" /\ at'[t] # "build"
  PROVE  BuildInv'
  <1>1. CallsInv'
    <2>1. ASSUME NEW u \in Threads
          PROVE  /\ calls'[u] = CallsBefore(found', join'[u]) + CallsHere(u)'
                 /\ calls'[u] = IF at'[u] \in {"sizing", "waiting"} THEN returns'[u] + 1 ELSE returns'[u]
                 /\ returns'[u] <= finals' /\ finals' <= calls'[u]
      <3>1. CASE u = t
        BY <3>1
      <3>2. CASE u # t
        BY <3>2 DEF BuildInv, CallsInv, CallsHere
      <3> QED
        BY <3>1, <3>2
    <2> QED
      BY <2>1 DEF CallsInv, CallsBefore
  <1>2. LocalInv'
    BY DEF BuildInv, LocalInv
  <1>3. SizeInv'
    BY DEF BuildInv, SizeInv, CallsBefore
  <1>4. ASSUME NEW k \in 1 .. NrJoins
        PROVE  Pending(k)' = Pending(k)
    <2>1. ASSUME NEW u \in Threads
          PROVE  (IF join'[u] = k /\ at'[u] # "build" THEN mine'[u] ELSE 0)
                 = (IF join[u] = k /\ at[u] # "build" THEN mine[u] ELSE 0)
      <3>1. CASE u = t
        BY <3>1
      <3>2. CASE u # t
        BY <3>2
      <3> QED
        BY <3>1, <3>2
    <2> QED
      BY <2>1 DEF Pending
  <1> QED
    BY <1>1, <1>2, <1>3, <1>4, SumStays DEF BuildInv

\* A worker that arrives at the first meeting of a join adds one call.
LEMMA ArriveCountedKeeps ==
  ASSUME BuildInv, NEW t \in Threads, Build!ArriveCounted(t)
  PROVE  BuildInv'
  <1>1. /\ at[t] = "counted" /\ calls' = [calls EXCEPT ![t] = @ + 1]
        /\ at' = [at EXCEPT ![t] = "sizing"]
        /\ UNCHANGED <<returns, finals, found, inserted, tableSize, join, mine>>
    BY DEF Build!ArriveCounted, Build!Goto, Build!tables, Build!Meeting!Arrive
  <1>2. JoinTypeOK'
    BY <1>1 DEF BuildInv, JoinTypeOK, Build!Location
  <1>3. \A u \in Threads \ {t} : /\ calls'[u] = calls[u] /\ returns'[u] = returns[u]
                                /\ join'[u] = join[u] /\ mine'[u] = mine[u] /\ at'[u] = at[u]
    BY <1>1 DEF BuildInv, JoinTypeOK
  <1>4. calls'[t] = calls[t] + 1 /\ at'[t] = "sizing"
    BY <1>1 DEF BuildInv, JoinTypeOK
  <1>5. calls[t] = CallsBefore(found, join[t]) + 0 /\ calls[t] = returns[t] /\ finals <= calls[t]
    BY <1>1 DEF BuildInv, CallsInv, CallsHere
  <1>6. CallsHere(t)' = 1
    BY <1>4 DEF CallsHere
  <1>7. /\ calls'[t] = CallsBefore(found, join'[t]) + CallsHere(t)'
        /\ calls'[t] = returns'[t] + 1 /\ returns'[t] <= finals /\ finals <= calls'[t]
    BY <1>1, <1>4, <1>5, <1>6, Worker
  <1> QED
    BY <1>1, <1>2, <1>3, <1>4, <1>7, MovesKeep

\* A worker that leaves the first meeting finds the table sized.
LEMMA LeaveSizingKeeps ==
  ASSUME BuildInv, NEW t \in Threads, Build!LeaveSizing(t)
  PROVE  BuildInv'
  <1>1. /\ at[t] = "sizing" /\ returns' = [returns EXCEPT ![t] = @ + 1] /\ returns[t] < finals
        /\ at' = [at EXCEPT ![t] = "sized"]
        /\ UNCHANGED <<calls, finals, found, inserted, tableSize, join, mine>>
    BY DEF Build!LeaveSizing, Build!Goto, Build!tables, Build!Meeting!Return
  <1>2. JoinTypeOK'
    BY <1>1 DEF BuildInv, JoinTypeOK, Build!Location
  <1>3. \A u \in Threads \ {t} : /\ calls'[u] = calls[u] /\ returns'[u] = returns[u]
                                /\ join'[u] = join[u] /\ mine'[u] = mine[u] /\ at'[u] = at[u]
    BY <1>1 DEF BuildInv, JoinTypeOK
  <1>4. returns'[t] = returns[t] + 1 /\ at'[t] = "sized"
    BY <1>1 DEF BuildInv, JoinTypeOK
  <1>5. calls[t] = CallsBefore(found, join[t]) + 1 /\ calls[t] = returns[t] + 1
    BY <1>1 DEF BuildInv, CallsInv, CallsHere
  <1>6. CallsHere(t)' = 1
    BY <1>4 DEF CallsHere
  <1>7. /\ calls'[t] = CallsBefore(found, join'[t]) + CallsHere(t)'
        /\ calls'[t] = returns'[t] /\ returns'[t] <= finals /\ finals <= calls'[t]
    BY <1>1, <1>4, <1>5, <1>6, Worker
  <1> QED
    BY <1>1, <1>2, <1>3, <1>4, <1>7, MovesKeep

\* A worker goes on from an empty join without a second meeting, and so do all others.
LEMMA CheckEmptyKeeps ==
  ASSUME BuildInv, NEW t \in Threads, Build!CheckEmpty(t)
  PROVE  BuildInv'
  <1> DEFINE j == join[t]
  <1>1. at[t] = "sized" /\ UNCHANGED <<calls, returns, finals, found, inserted, tableSize>>
    BY DEF Build!CheckEmpty, Build!tables, Build!barrierVars
  <1>2. /\ calls[t] = CallsBefore(found, j) + 1 /\ calls[t] = returns[t]
        /\ returns[t] <= finals /\ finals <= calls[t]
        /\ j \in 1 .. NrJoins /\ CallsBefore(found, j) \in Nat
    BY <1>1, Worker DEF BuildInv, CallsInv, CallsHere
  <1>3. CASE found[j] # 0
    <2>1. at' = [at EXCEPT ![t] = "insert"] /\ UNCHANGED <<join, mine>>
      BY <1>3 DEF Build!CheckEmpty, Build!NothingFound, Build!Goto
    <2>2. JoinTypeOK'
      BY <1>1, <2>1 DEF BuildInv, JoinTypeOK, Build!Location
    <2>3. \A u \in Threads \ {t} : /\ calls'[u] = calls[u] /\ returns'[u] = returns[u]
                                  /\ join'[u] = join[u] /\ mine'[u] = mine[u] /\ at'[u] = at[u]
      BY <1>1, <2>1 DEF BuildInv, JoinTypeOK
    <2>4. at'[t] = "insert"
      BY <2>1 DEF BuildInv, JoinTypeOK
    <2>5. CallsHere(t)' = 1
      BY <2>4 DEF CallsHere
    <2>6. /\ calls'[t] = CallsBefore(found, join'[t]) + CallsHere(t)'
          /\ calls'[t] = returns'[t] /\ returns'[t] <= finals /\ finals <= calls'[t]
          /\ found[join'[t]] # 0
      BY <1>1, <1>2, <1>3, <2>1, <2>5
    <2> QED
      BY <1>1, <2>1, <2>2, <2>3, <2>4, <2>6, MovesKeep
  <1>4. CASE found[j] = 0
    <2> DEFINE toParent == nesting = "left" /\ j < NrJoins
    <2>1. /\ join' = IF toParent THEN [join EXCEPT ![t] = @ + 1] ELSE join
          /\ mine' = [mine EXCEPT ![t] = 0]
          /\ at' = [at EXCEPT ![t] = IF toParent THEN "build" ELSE "end"]
      BY <1>4 DEF Build!CheckEmpty, Build!NothingFound, Build!Goto
    <2>2. /\ join'[t] = (IF toParent THEN j + 1 ELSE j) /\ mine'[t] = 0
          /\ at'[t] = (IF toParent THEN "build" ELSE "end")
      BY <2>1 DEF BuildInv, JoinTypeOK, Weights
    <2>3. JoinTypeOK'
      <3>1. toParent => j + 1 \in 1 .. NrJoins
        BY <1>2, NrJoinsAssumption
      <3>2. 0 \in 0 .. MaxFound
        BY MaxFoundType
      <3>3. join' \in [Threads -> 1 .. NrJoins]
        BY <2>1, <3>1 DEF BuildInv, JoinTypeOK
      <3>4. mine' \in Weights /\ at' \in [Threads -> Build!Location]
        BY <2>1, <3>2 DEF BuildInv, JoinTypeOK, Weights, Build!Location
      <3> QED
        BY <1>1, <3>3, <3>4 DEF BuildInv, JoinTypeOK
    <2>4. \A u \in Threads \ {t} : /\ calls'[u] = calls[u] /\ returns'[u] = returns[u]
                                  /\ join'[u] = join[u] /\ mine'[u] = mine[u] /\ at'[u] = at[u]
      BY <1>1, <2>1 DEF BuildInv, JoinTypeOK, Weights
    <2>5. mine[t] = 0
      <3>1. Pending(j) \in Weights /\ Sum(Pending(j)) \in Nat /\ inserted[j] \in Nat
            /\ found[j] = inserted[j] + Sum(Pending(j))
        BY <1>2, PendingType, SumType DEF BuildInv, SumInv, JoinTypeOK, Founds
      <3>2. Sum(Pending(j)) = 0
        BY <1>4, <3>1
      <3>3. Pending(j)[t] = 0
        BY <3>1, <3>2, SumZero
      <3> QED
        BY <1>1, <3>3 DEF Pending
    <2>6. calls'[t] = CallsBefore(found, join'[t]) + CallsHere(t)'
      <3>1. CASE toParent
        <4>1. j \in 1 .. NrJoins - 1
          BY <1>2, <3>1, NrJoinsAssumption
        <4>2. CallsBefore(found, j + 1) = CallsBefore(found, j) + 1
          BY <1>4, <4>1, CallsBeforeNext DEF BuildInv, JoinTypeOK
        <4>3. CallsHere(t)' = 0
          BY <2>2, <3>1 DEF CallsHere
        <4> QED
          BY <1>1, <1>2, <2>2, <3>1, <4>2, <4>3
      <3>2. CASE ~toParent
        <4>1. CallsHere(t)' = 1
          BY <1>1, <1>4, <2>2, <3>2 DEF CallsHere
        <4> QED
          BY <1>1, <1>2, <2>2, <3>2, <4>1
      <3> QED
        BY <3>1, <3>2
    <2>7. at'[t] \in {"build", "end"}
      BY <2>2
    <2> HIDE DEF toParent
    <2> QED
      BY <1>1, <1>2, <2>2, <2>3, <2>4, <2>5, <2>6, <2>7, MovesKeep
  <1> QED
    BY <1>3, <1>4

\* A worker that arrives at the second meeting has inserted all it had.
LEMMA ArriveBuiltKeeps ==
  ASSUME BuildInv, NEW t \in Threads, Build!ArriveBuilt(t)
  PROVE  BuildInv'
  <1>1. /\ at[t] = "insert" /\ mine[t] = 0 /\ calls' = [calls EXCEPT ![t] = @ + 1]
        /\ at' = [at EXCEPT ![t] = "waiting"]
        /\ UNCHANGED <<returns, finals, found, inserted, tableSize, join, mine>>
    BY DEF Build!ArriveBuilt, Build!Goto, Build!tables, Build!Meeting!Arrive
  <1>2. JoinTypeOK'
    BY <1>1 DEF BuildInv, JoinTypeOK, Build!Location
  <1>3. \A u \in Threads \ {t} : /\ calls'[u] = calls[u] /\ returns'[u] = returns[u]
                                /\ join'[u] = join[u] /\ mine'[u] = mine[u] /\ at'[u] = at[u]
    BY <1>1 DEF BuildInv, JoinTypeOK
  <1>4. calls'[t] = calls[t] + 1 /\ at'[t] = "waiting"
    BY <1>1 DEF BuildInv, JoinTypeOK
  <1>5. /\ calls[t] = CallsBefore(found, join[t]) + 1 /\ calls[t] = returns[t] /\ finals <= calls[t]
        /\ found[join[t]] # 0
    BY <1>1 DEF BuildInv, CallsInv, CallsHere, LocalInv
  <1>6. CallsHere(t)' = 2
    BY <1>4 DEF CallsHere
  <1>7. /\ calls'[t] = CallsBefore(found, join'[t]) + CallsHere(t)'
        /\ calls'[t] = returns'[t] + 1 /\ returns'[t] <= finals /\ finals <= calls'[t]
        /\ found[join'[t]] # 0 /\ mine'[t] = 0
    BY <1>1, <1>4, <1>5, <1>6, Worker
  <1> QED
    BY <1>1, <1>2, <1>3, <1>4, <1>7, MovesKeep

\* The next join begins where the calls for this one end.
LEMMA LeaveBuiltKeeps ==
  ASSUME BuildInv, NEW t \in Threads, Build!LeaveBuilt(t)
  PROVE  BuildInv'
  <1> DEFINE j == join[t]
  <1>1. /\ at[t] = "waiting" /\ returns' = [returns EXCEPT ![t] = @ + 1] /\ returns[t] < finals
        /\ join' = [join EXCEPT ![t] = IF j < NrJoins THEN j + 1 ELSE j]
        /\ at' = [at EXCEPT ![t] = IF j < NrJoins THEN "build" ELSE "probe"]
        /\ UNCHANGED <<calls, finals, found, inserted, tableSize, mine>>
    BY DEF Build!LeaveBuilt, Build!Goto, Build!tables, Build!Meeting!Return
  <1>2. /\ calls[t] = CallsBefore(found, j) + 2 /\ calls[t] = returns[t] + 1
        /\ found[j] # 0 /\ mine[t] = 0 /\ j \in 1 .. NrJoins
    BY <1>1, Worker DEF BuildInv, CallsInv, CallsHere, LocalInv
  <1>3. JoinTypeOK'
    <2>1. (IF j < NrJoins THEN j + 1 ELSE j) \in 1 .. NrJoins
      BY <1>2, NrJoinsAssumption
    <2> HIDE DEF j
    <2> QED
      BY <1>1, <2>1 DEF BuildInv, JoinTypeOK, Build!Location
  <1>4. \A u \in Threads \ {t} : /\ calls'[u] = calls[u] /\ returns'[u] = returns[u]
                                /\ join'[u] = join[u] /\ mine'[u] = mine[u] /\ at'[u] = at[u]
    BY <1>1 DEF BuildInv, JoinTypeOK
  <1>5. /\ returns'[t] = returns[t] + 1 /\ join'[t] = (IF j < NrJoins THEN j + 1 ELSE j)
        /\ at'[t] = (IF j < NrJoins THEN "build" ELSE "probe") /\ mine'[t] = 0
    BY <1>1, <1>2 DEF BuildInv, JoinTypeOK
  <1>6. calls'[t] = CallsBefore(found, join'[t]) + CallsHere(t)'
    <2>1. CASE j < NrJoins
      <3>1. j \in 1 .. NrJoins - 1
        BY <1>2, <2>1, NrJoinsAssumption
      <3>2. CallsBefore(found, j + 1) = CallsBefore(found, j) + 2
        BY <1>2, <3>1, CallsBeforeNext DEF BuildInv, JoinTypeOK
      <3>3. CallsHere(t)' = 0
        BY <1>5, <2>1 DEF CallsHere
      <3>4. CallsBefore(found, j) \in Nat
        BY Worker
      <3> QED
        BY <1>1, <1>2, <1>5, <2>1, <3>2, <3>3, <3>4
    <2>2. CASE ~(j < NrJoins)
      <3>1. CallsHere(t)' = 2
        BY <1>5, <2>2 DEF CallsHere
      <3> QED
        BY <1>1, <1>2, <1>5, <2>2, <3>1
    <2> QED
      BY <2>1, <2>2
  <1>7. /\ calls'[t] = returns'[t] /\ returns'[t] <= finals /\ finals <= calls'[t]
        /\ at'[t] \in {"build", "probe"}
        /\ at'[t] = "probe" => join'[t] = NrJoins /\ found[join'[t]] # 0
    <2>1. /\ calls'[t] = returns'[t] /\ returns'[t] <= finals /\ finals <= calls'[t]
          /\ at'[t] \in {"build", "probe"}
      <3>1. returns[t] \in Nat /\ finals \in Nat /\ finals <= calls[t]
        BY Worker
      <3> HIDE DEF j
      <3> QED
        BY <1>1, <1>2, <1>5, <3>1
    <2>2. at'[t] = "probe" => j = NrJoins /\ join'[t] = j
      BY <1>2, <1>5, NrJoinsAssumption
    <2> QED
      BY <1>2, <2>1, <2>2
  <1> HIDE DEF j
  <1> QED
    BY <1>1, <1>2, <1>3, <1>4, <1>5, <1>6, <1>7, MovesKeep

\* A worker that has probed is at its end.
LEMMA ProbeKeeps ==
  ASSUME BuildInv, NEW t \in Threads, Build!Probe(t)
  PROVE  BuildInv'
  <1>1. /\ at[t] = "probe" /\ at' = [at EXCEPT ![t] = "end"]
        /\ UNCHANGED <<calls, returns, finals, found, inserted, tableSize, join, mine>>
    BY DEF Build!Probe, Build!Goto, Build!tables, Build!barrierVars
  <1>2. JoinTypeOK'
    BY <1>1 DEF BuildInv, JoinTypeOK, Build!Location
  <1>3. \A u \in Threads \ {t} : /\ calls'[u] = calls[u] /\ returns'[u] = returns[u]
                                /\ join'[u] = join[u] /\ mine'[u] = mine[u] /\ at'[u] = at[u]
    BY <1>1 DEF BuildInv, JoinTypeOK
  <1>4. at'[t] = "end"
    BY <1>1 DEF BuildInv, JoinTypeOK
  <1>5. /\ calls[t] = CallsBefore(found, join[t]) + 2 /\ calls[t] = returns[t] /\ finals <= calls[t]
        /\ returns[t] <= finals /\ found[join[t]] # 0 /\ mine[t] = 0
    BY <1>1 DEF BuildInv, CallsInv, CallsHere, LocalInv
  <1>6. CallsHere(t)' = 2
    BY <1>1, <1>4, <1>5 DEF CallsHere
  <1>7. /\ calls'[t] = CallsBefore(found, join'[t]) + CallsHere(t)'
        /\ calls'[t] = returns'[t] /\ returns'[t] <= finals /\ finals <= calls'[t]
        /\ found[join'[t]] # 0 /\ mine'[t] = 0
    BY <1>1, <1>4, <1>5, <1>6
  <1> QED
    BY <1>1, <1>2, <1>3, <1>4, <1>5, <1>7, MovesKeep

\* insert_tagged() moves one entry from what is pending to what is inserted.
LEMMA InsertKeeps ==
  ASSUME BuildInv, NEW t \in Threads, Build!Insert(t)
  PROVE  /\ BuildInv'
         /\ inserted'[NrJoins] = inserted[NrJoins] + (IF join[t] = NrJoins THEN 1 ELSE 0)
  <1> DEFINE j == join[t]
  <1>1. /\ at[t] = "insert" /\ mine[t] > 0 /\ mine' = [mine EXCEPT ![t] = @ - 1]
        /\ inserted' = [inserted EXCEPT ![j] = @ + 1]
        /\ UNCHANGED <<calls, returns, finals, found, tableSize, join, at>>
    BY DEF Build!Insert, Build!barrierVars
  <1>2. /\ j \in 1 .. NrJoins /\ mine[t] \in 0 .. MaxFound /\ MaxFound \in Nat
        /\ inserted \in Founds /\ NrJoins \in 1 .. NrJoins
    BY MaxFoundType, NrJoinsAssumption DEF BuildInv, JoinTypeOK, Weights
  <1>3. JoinTypeOK'
    <2>1. mine[t] - 1 \in 0 .. MaxFound /\ inserted[j] + 1 \in Nat
      BY <1>1, <1>2 DEF Founds
    <2> QED
      BY <1>1, <1>2, <2>1 DEF BuildInv, JoinTypeOK, Weights, Founds
  <1>4. CallsInv' /\ SizeInv'
    BY <1>1, SMTT(30) DEF BuildInv, CallsInv, CallsHere, SizeInv, CallsBefore
  <1>5. LocalInv'
    BY <1>1 DEF BuildInv, LocalInv, JoinTypeOK, Weights
  <1>6. SumInv'
    <2> SUFFICES ASSUME NEW k \in 1 .. NrJoins
                 PROVE  found[k] = inserted'[k] + Sum(Pending(k)')
      BY <1>1 DEF SumInv, Sum, Units
    <2>1. Pending(k) \in Weights /\ Sum(Pending(k)) \in Nat /\ inserted[k] \in Nat
          /\ found[k] = inserted[k] + Sum(Pending(k))
      BY PendingType, SumType DEF BuildInv, SumInv, JoinTypeOK, Founds
    <2>2. CASE k # j
      <3>1. Pending(k)' = Pending(k)
        BY <1>1, <2>2 DEF Pending, BuildInv, JoinTypeOK, Weights
      <3>2. inserted'[k] = inserted[k]
        BY <1>1, <1>2, <2>2 DEF Founds
      <3> QED
        BY <2>1, <3>1, <3>2
    <2>3. CASE k = j
      <3> DEFINE w == Pending(k)
      <3>1. w \in Weights /\ w[t] = mine[t]
        BY <1>1, <2>1, <2>3 DEF Pending
      <3>2. Pending(k)' = [w EXCEPT ![t] = w[t] - 1]
        BY <1>1, <2>3, <3>1 DEF Pending, BuildInv, JoinTypeOK, Weights
      <3> HIDE DEF w
      <3>3. Sum(w) > 0 /\ Sum([w EXCEPT ![t] = w[t] - 1]) = Sum(w) - 1
        BY <1>1, <3>1, SumTakes
      <3>4. inserted'[k] = inserted[k] + 1
        BY <1>1, <1>2, <2>3 DEF Founds
      <3> QED
        BY <2>1, <3>2, <3>3, <3>4 DEF w
    <2> QED
      BY <2>2, <2>3
  <1>7. inserted'[NrJoins] = inserted[NrJoins] + (IF j = NrJoins THEN 1 ELSE 0)
    BY <1>1, <1>2 DEF Founds
  <1> QED
    BY <1>3, <1>4, <1>5, <1>6, <1>7 DEF BuildInv

-----------------------------------------------------------------------------
\* When all workers have come to the barrier, they have come to it in the same place.
LEMMA AllAtOnePlace ==
  ASSUME BuildInv, NEW t \in Threads, NEW u \in Threads, calls[t] = calls[u],
         at[t] \in {"sizing", "waiting"}, at[u] \in {"sizing", "waiting"}
  PROVE  at[t] = at[u] /\ join[t] = join[u]
  <1> DEFINE a == CallsBefore(found, join[t])
  <1> DEFINE b == CallsBefore(found, join[u])
  <1>1. a \in Nat /\ b \in Nat /\ join[t] \in 1 .. NrJoins /\ join[u] \in 1 .. NrJoins
        /\ found \in Founds
    BY Worker DEF BuildInv, JoinTypeOK
  <1> DEFINE x == IF at[t] = "sizing" THEN 1 ELSE 2
  <1> DEFINE y == IF at[u] = "sizing" THEN 1 ELSE 2
  <1>2. /\ a + x = b + y /\ x \in {1, 2} /\ y \in {1, 2}
        /\ x = 2 => found[join[t]] # 0
        /\ y = 2 => found[join[u]] # 0
        /\ x = y => at[t] = at[u]
    BY DEF BuildInv, CallsInv, CallsHere, LocalInv
  <1>3. ~(join[t] < join[u])
    <2> SUFFICES ASSUME join[t] < join[u] PROVE FALSE
      OBVIOUS
    <2>1. a + (IF found[join[t]] = 0 THEN 1 ELSE 2) <= b
      BY <1>1, CallsBeforeGrows
    <2> HIDE DEF a, b, x, y
    <2>2. a + x <= b
      BY <1>1, <1>2, <2>1
    <2> QED
      BY <1>1, <1>2, <2>2
  <1>4. ~(join[u] < join[t])
    <2> SUFFICES ASSUME join[u] < join[t] PROVE FALSE
      OBVIOUS
    <2>1. b + (IF found[join[u]] = 0 THEN 1 ELSE 2) <= a
      BY <1>1, CallsBeforeGrows
    <2> HIDE DEF a, b, x, y
    <2>2. b + y <= a
      BY <1>1, <1>2, <2>1
    <2> QED
      BY <1>1, <1>2, <2>2
  <1>5. join[t] = join[u]
    BY <1>1, <1>3, <1>4
  <1>6. a = b
    BY <1>5
  <1> HIDE DEF a, b, x, y
  <1>7. x = y
    BY <1>1, <1>2, <1>6
  <1> QED
    BY <1>2, <1>5, <1>7

\* The last one to come to the first meeting for its join sizes the table of that join,
\* for nobody has yet come to a later meeting.
LEMMA SetSizeKeeps ==
  ASSUME BuildInv, NEW t \in Threads, Build!SetSize(t)
  PROVE  BuildInv'
  <1> DEFINE j == join[t]
  <1>1. /\ at[t] = "sizing" /\ finals' = finals + 1 /\ \A u \in Threads : calls[u] = finals + 1
        /\ tableSize' = [tableSize EXCEPT ![j] = found[j]]
        /\ UNCHANGED <<calls, returns, found, inserted, join, mine, at>>
    BY DEF Build!SetSize, Build!Meeting!Finalize
  <1>2. /\ j \in 1 .. NrJoins /\ found \in Founds /\ finals \in Nat /\ tableSize \in Founds
        /\ calls[t] = CallsBefore(found, j) + 1 /\ CallsBefore(found, j) \in Nat
    BY <1>1, Worker DEF BuildInv, JoinTypeOK, CallsInv, CallsHere
  <1>3. JoinTypeOK'
    BY <1>1, <1>2 DEF BuildInv, JoinTypeOK, Founds
  <1>4. CallsInv'
    <2>1. ASSUME NEW u \in Threads
          PROVE  returns[u] <= finals' /\ finals' <= calls[u]
      BY <1>1, Worker
    <2> QED
      BY <1>1, <2>1 DEF BuildInv, CallsInv, CallsHere, CallsBefore
  <1>5. LocalInv' /\ (\A k \in 1 .. NrJoins : Pending(k)' = Pending(k))
    BY <1>1 DEF BuildInv, LocalInv, Pending
  <1>6. SizeInv'
    <2> SUFFICES ASSUME NEW k \in 1 .. NrJoins, finals' > CallsBefore(found, k)
                 PROVE  tableSize'[k] = found[k]
      BY <1>1 DEF SizeInv, CallsBefore
    <2>1. CASE k = j
      BY <1>1, <1>2, <2>1 DEF Founds
    <2>2. CASE k # j
      <3>1. CallsBefore(found, k) \in Nat
        BY <1>2, CallsBeforeType
      <3>2. ~(j < k)
        <4>1. j < k => CallsBefore(found, j) + (IF found[j] = 0 THEN 1 ELSE 2) <= CallsBefore(found, k)
          BY <1>2, CallsBeforeGrows
        <4> QED
          BY <1>1, <1>2, <3>1, <4>1
      <3>3. k < j
        BY <1>2, <2>2, <3>2
      <3>4. CallsBefore(found, k) + (IF found[k] = 0 THEN 1 ELSE 2) <= CallsBefore(found, j)
        BY <1>2, <3>3, CallsBeforeGrows
      <3>5. finals > CallsBefore(found, k)
        BY <1>1, <1>2, <3>1, <3>4
      <3> QED
        BY <1>1, <1>2, <2>2, <3>5 DEF BuildInv, SizeInv, Founds
    <2> QED
      BY <2>1, <2>2
  <1> QED
    BY <1>1, <1>3, <1>4, <1>5, <1>6, SumStays DEF BuildInv

\* When the second meeting closes, every worker has inserted all it had.
LEMMA FinalizeBuiltKeeps ==
  ASSUME BuildInv, NEW t \in Threads, Build!FinalizeBuilt(t)
  PROVE  BuildInv'
  <1> DEFINE j == join[t]
  <1>1. /\ at[t] = "waiting" /\ finals' = finals + 1 /\ \A u \in Threads : calls[u] = finals + 1
        /\ UNCHANGED <<calls, returns, found, inserted, tableSize, join, mine, at>>
    BY DEF Build!FinalizeBuilt, Build!tables, Build!Meeting!Finalize
  <1>2. /\ j \in 1 .. NrJoins /\ found \in Founds /\ finals \in Nat
        /\ calls[t] = CallsBefore(found, j) + 2 /\ CallsBefore(found, j) \in Nat /\ found[j] # 0
    BY <1>1, Worker DEF BuildInv, JoinTypeOK, CallsInv, CallsHere, LocalInv
  <1>3. JoinTypeOK'
    BY <1>1, <1>2 DEF BuildInv, JoinTypeOK
  <1>4. CallsInv'
    <2>1. ASSUME NEW u \in Threads
          PROVE  returns[u] <= finals' /\ finals' <= calls[u]
      BY <1>1, Worker
    <2> QED
      BY <1>1, <2>1 DEF BuildInv, CallsInv, CallsHere, CallsBefore
  <1>5. LocalInv' /\ (\A k \in 1 .. NrJoins : Pending(k)' = Pending(k))
    BY <1>1 DEF BuildInv, LocalInv, Pending
  <1>6. SizeInv'
    <2> SUFFICES ASSUME NEW k \in 1 .. NrJoins, finals' > CallsBefore(found, k)
                 PROVE  finals > CallsBefore(found, k)
      BY <1>1 DEF BuildInv, SizeInv, CallsBefore
    <2>1. CallsBefore(found, k) \in Nat
      BY <1>2, CallsBeforeType
    <2>2. j < k => CallsBefore(found, j) + (IF found[j] = 0 THEN 1 ELSE 2) <= CallsBefore(found, k)
      BY <1>2, CallsBeforeGrows
    <2>3. k < j => CallsBefore(found, k) + (IF found[k] = 0 THEN 1 ELSE 2) <= CallsBefore(found, j)
      BY <1>2, CallsBeforeGrows
    <2>4. k = j \/ j < k \/ k < j
      BY <1>2
    <2> HIDE DEF j
    <2> QED
      BY <1>1, <1>2, <2>1, <2>2, <2>3, <2>4
  <1> QED
    BY <1>1, <1>3, <1>4, <1>5, <1>6, SumStays DEF BuildInv

-----------------------------------------------------------------------------
\* The steps of insert_tagged() up to the exchange insert nothing.
LEMMA InsertedStays ==
  ASSUME IInv, NEW t \in Threads,
         \/ \E e \in Entries : Begin(t, e)
         \/ Load(t)
         \/ Link(t)
         \/ Publish(t) /\ pc'[t] # "idle"
  PROVE  Inserted' = Inserted
  <1>1. ASSUME NEW e \in Entries, Begin(t, e)
        PROVE  Inserted' = Inserted
    BY <1>1 DEF Begin, Goto, shared, IInv, TypeOK, Inserted
  <1>2. CASE Load(t)
    BY <1>2 DEF Load, Goto, shared, IInv, TypeOK, Inserted
  <1>3. CASE Link(t)
    BY <1>3 DEF Link, Goto, IInv, TypeOK, Inserted
  <1>4. CASE Publish(t) /\ pc'[t] # "idle"
    <2>1. entries[SlotOf(entry[t])] # loc[t]
      BY <1>4 DEF Publish, Goto, IInv, TypeOK
    <2> QED
      BY <1>4, <2>1 DEF Publish, Goto, IInv, TypeOK, Inserted
  <1> QED
    BY <1>1, <1>2, <1>3, <1>4

\* An exchange that succeeds inserts one entry.
LEMMA InsertedGrows ==
  ASSUME IInv, NEW t \in Threads, Publish(t), pc'[t] = "idle"
  PROVE  Inserted' = Inserted \cup {entry[t]} /\ entry[t] \notin Inserted
  <1>1. pc[t] = "cas"
    BY DEF Publish
  <1>2. /\ entry[t] \in Entries /\ Owner[entry[t]] = t /\ entry[t] \notin Inserted
        /\ entry[t] \notin todo[t]
        /\ \A u \in Threads \ {t} : pc[u] # "idle" => entry[u] # entry[t]
    BY <1>1, PrivateEntry DEF IInv, PrivateInv
  <1>3. entries[SlotOf(entry[t])] = loc[t]
    BY DEF Publish, Goto, IInv, TypeOK
  <1>4. pc' = [pc EXCEPT ![t] = "idle"] /\ UNCHANGED <<todo, entry>>
    BY <1>3 DEF Publish, Goto
  <1> QED
    BY <1>1, <1>2, <1>4 DEF IInv, TypeOK, PrivateInv, Inserted

\* The inserted entries can be counted.
LEMMA InsertedFinite ==
  IsFiniteSet(Inserted) /\ Cardinality(Inserted) \in Nat
  <1>1. Inserted \in SUBSET Entries
    BY DEF Inserted
  <1>2. IsFiniteSet(Inserted)
    BY <1>1, EntriesAssumption, FS_Subset
  <1> QED
    BY <1>2, FS_CardinalityType

\* A step that leaves the table alone keeps its invariant.
LEMMA TableStutters ==
  ASSUME IInv, UNCHANGED vars
  PROVE  IInv' /\ Inserted' = Inserted
  BY DEF vars, shared, IInv, TypeOK, PrivateInv, ChainsAreLinked,
         ChainsAreComplete, TagsAreExact, Inserted

\* A step that leaves the build phase alone keeps its invariant.
LEMMA BuildStutters ==
  ASSUME BuildInv, UNCHANGED buildVars
  PROVE  BuildInv'
  <1>1. JoinTypeOK' /\ CallsInv' /\ LocalInv' /\ SizeInv'
    BY DEF buildVars, BuildInv, JoinTypeOK, CallsInv, CallsHere, LocalInv, SizeInv, CallsBefore
  <1>2. \A k \in 1 .. NrJoins : Pending(k)' = Pending(k)
    BY DEF buildVars, Pending
  <1> QED
    BY <1>1, <1>2, SumStays DEF buildVars, BuildInv

\* The build phase begins with empty tables and no calls.
LEMMA InitJoinInv == JoinInit => JoinInv
  <1> SUFFICES ASSUME JoinInit PROVE JoinInv
    OBVIOUS
  <1>1. IInv
    BY InitIInv DEF JoinInit
  <1>2. /\ calls = [t \in Threads |-> 0] /\ returns = [t \in Threads |-> 0] /\ finals = 0
        /\ found = [k \in 1 .. NrJoins |-> 0] /\ tableSize = found /\ inserted = found
        /\ join = [t \in Threads |-> 1] /\ mine = [t \in Threads |-> 0]
        /\ at = [t \in Threads |-> "build"] /\ Init
    BY DEF JoinInit, Build!Init, Build!Meeting!Init
  <1>3. JoinTypeOK
    <2>1. 1 \in 1 .. NrJoins
      BY NrJoinsAssumption
    <2>2. \A t \in Threads : 0 \in 0 .. MaxFound
      BY MaxFoundType
    <2> QED
      BY <1>2, <2>1, <2>2 DEF JoinTypeOK, Founds, Weights, Build!Location
  <1>4. CallsInv
    <2>1. CallsBefore(found, 1) = 0
      <3>1. {k \in 1 .. 1 - 1 : found[k] # 0} = {}
        OBVIOUS
      <3>2. CallsBefore(found, 1) = (1 - 1) + Cardinality({})
        BY <3>1 DEF CallsBefore
      <3> QED
        BY <3>2, FS_EmptySet
    <2> QED
      BY <1>2, <2>1 DEF CallsInv, CallsHere
  <1>5. LocalInv
    BY <1>2 DEF LocalInv
  <1>6. SizeInv
    BY <1>2 DEF SizeInv
  <1>7. SumInv
    <2> SUFFICES ASSUME NEW k \in 1 .. NrJoins
                 PROVE  found[k] = inserted[k] + Sum(Pending(k))
      BY DEF SumInv
    <2>1. \A t \in Threads : Pending(k)[t] = 0
      BY <1>2 DEF Pending
    <2>2. Sum(Pending(k)) = 0
      BY <1>3, <2>1, PendingType, SumZero
    <2> QED
      BY <1>2, <2>2
  <1>8. LastInv
    <2>1. Inserted = {}
      BY <1>2 DEF Init, Inserted
    <2>2. inserted[NrJoins] = 0
      BY <1>2, NrJoinsAssumption
    <2> QED
      BY <2>1, <2>2, FS_EmptySet DEF LastInv
  <1> QED
    BY <1>1, <1>3, <1>4, <1>5, <1>6, <1>7, <1>8 DEF JoinInv, BuildInv

\* A step within an insertion is one of the table alone.
LEMMA InsertStepKeeps ==
  ASSUME JoinInv, NEW t \in Threads, InsertStep(t)
  PROVE  JoinInv'
  <1>1. IInv /\ BuildInv /\ LastInv /\ UNCHANGED buildVars
    BY DEF JoinInv, InsertStep
  <1>2. \/ \E e \in Entries : Begin(t, e)
        \/ Load(t)
        \/ Link(t)
        \/ Publish(t) /\ pc'[t] # "idle"
    BY DEF InsertStep
  <1>3. IInv'
    BY <1>1, <1>2, BeginKeeps, LoadKeeps, LinkKeeps, PublishKeeps
  <1>4. Inserted' = Inserted
    BY <1>1, <1>2, InsertedStays
  <1>5. LastInv'
    BY <1>1, <1>4 DEF LastInv, buildVars
  <1> QED
    BY <1>1, <1>3, <1>5, BuildStutters DEF JoinInv

\* The last step of an insertion counts the entry in both.
LEMMA InsertDoneKeeps ==
  ASSUME JoinInv, NEW t \in Threads, InsertDone(t)
  PROVE  JoinInv'
  <1>1. /\ IInv /\ BuildInv /\ Publish(t) /\ pc'[t] = "idle" /\ Build!Insert(t)
        /\ join[t] = NrJoins /\ Cardinality(Inserted) = inserted[NrJoins]
    BY DEF JoinInv, InsertDone, Inserting, LastInv
  <1>2. BuildInv' /\ inserted'[NrJoins] = inserted[NrJoins] + 1
    BY <1>1, InsertKeeps
  <1>3. Inserted' = Inserted \cup {entry[t]} /\ entry[t] \notin Inserted
    BY <1>1, InsertedGrows
  <1>4. Cardinality(Inserted \cup {entry[t]}) = Cardinality(Inserted) + 1
    BY <1>3, InsertedFinite, FS_AddElement
  <1>5. LastInv'
    BY <1>1, <1>2, <1>3, <1>4 DEF LastInv
  <1> QED
    BY <1>1, <1>2, <1>5, PublishKeeps DEF JoinInv

\* Every other step is one of the build phase alone.
LEMMA BuildStepKeeps ==
  ASSUME JoinInv, NEW t \in Threads, BuildStep(t)
  PROVE  JoinInv'
  <1>1. IInv /\ BuildInv /\ LastInv /\ UNCHANGED vars
    BY DEF JoinInv, BuildStep, tableVars
  <1>2. IInv' /\ Inserted' = Inserted
    BY <1>1, TableStutters
  <1>3. CASE ~Inserting(t) /\ Build!Insert(t)
    <2>1. join[t] # NrJoins
      BY <1>3 DEF Inserting, Build!Insert
    <2>2. BuildInv' /\ inserted'[NrJoins] = inserted[NrJoins] + 0
      BY <1>1, <1>3, <2>1, InsertKeeps
    <2>3. inserted[NrJoins] \in Nat
      BY <1>1, NrJoinsAssumption DEF BuildInv, JoinTypeOK, Founds
    <2> QED
      BY <1>1, <1>2, <2>2, <2>3 DEF JoinInv, LastInv
  <1>4. CASE \/ Build!Materialize(t)
             \/ Build!Count(t)
             \/ Build!ArriveCounted(t)
             \/ Build!SetSize(t)
             \/ Build!LeaveSizing(t)
             \/ Build!CheckEmpty(t)
             \/ Build!ArriveBuilt(t)
             \/ Build!FinalizeBuilt(t)
             \/ Build!LeaveBuilt(t)
             \/ Build!Probe(t)
    <2>1. BuildInv'
      BY <1>1, <1>4, MaterializeKeeps, CountKeeps, ArriveCountedKeeps, SetSizeKeeps,
         LeaveSizingKeeps, CheckEmptyKeeps, ArriveBuiltKeeps, FinalizeBuiltKeeps,
         LeaveBuiltKeeps, ProbeKeeps
    <2>2. inserted' = inserted
      BY <1>4 DEF Build!Materialize, Build!Count, Build!ArriveCounted, Build!SetSize,
                  Build!LeaveSizing, Build!CheckEmpty, Build!ArriveBuilt, Build!FinalizeBuilt,
                  Build!LeaveBuilt, Build!Probe, Build!tables
    <2> QED
      BY <1>1, <1>2, <2>1, <2>2 DEF JoinInv, LastInv
  <1> QED
    BY <1>3, <1>4 DEF BuildStep

-----------------------------------------------------------------------------
\* Every reachable state of JoinTable satisfies the inductive invariant.
THEOREM JoinTableInvariant == JoinSpec => []JoinInv
  <1>1. JoinInv /\ [JoinNext]_<<tableVars, buildVars>> => JoinInv'
    <2> SUFFICES ASSUME JoinInv, [JoinNext]_<<tableVars, buildVars>> PROVE JoinInv'
      OBVIOUS
    <2>1. ASSUME NEW t \in Threads, JoinStep(t)
          PROVE  JoinInv'
      BY <2>1, InsertStepKeeps, InsertDoneKeeps, BuildStepKeeps DEF JoinStep
    <2>2. CASE UNCHANGED <<tableVars, buildVars>>
      BY <2>2, TableStutters, BuildStutters DEF JoinInv, LastInv, tableVars, buildVars
    <2>3. CASE JoinTerminated
      BY <2>2, <2>3 DEF JoinTerminated, Build!Terminated, Build!vars, Build!barrierVars,
                        Build!tables, buildVars
    <2> QED
      BY <2>1, <2>2, <2>3 DEF JoinNext
  <1> QED
    BY InitJoinInv, <1>1, PTL DEF JoinSpec

\* The steps of the build phase are steps of Hashmap, or leave its table alone: what is
\* proved of insert_tagged() holds for the table of the last join.
THEOREM JoinImplementsHashmap == JoinSpec => Spec
  <1>1. JoinInit => Init
    BY DEF JoinInit
  <1>2. [JoinNext]_<<tableVars, buildVars>> => [Next]_vars
    BY DEF JoinNext, JoinStep, InsertStep, InsertDone, BuildStep, JoinTerminated, Next, Step, tableVars
  <1> QED
    BY <1>1, <1>2, PTL DEF JoinSpec, Spec

\* The workers that are at the barrier together have come from the same call of it, for
\* the same join: the barriers of the joins never get mixed up.
THEOREM JoinTableSameMeeting == JoinSpec => []SameMeeting
  <1>1. JoinInv => SameMeeting
    <2> SUFFICES ASSUME JoinInv, NEW t \in Threads, NEW u \in Threads,
                        calls[t] > returns[t], calls[u] > returns[u], calls[t] = calls[u]
                 PROVE  at[t] = at[u] /\ join[t] = join[u]
      BY DEF SameMeeting, Build!SameMeeting
    <2>1. BuildInv
      BY DEF JoinInv
    <2>2. at[t] \in {"sizing", "waiting"}
      BY <2>1, Worker DEF BuildInv, CallsInv
    <2>3. at[u] \in {"sizing", "waiting"}
      BY <2>1, Worker DEF BuildInv, CallsInv
    <2> QED
      BY <2>1, <2>2, <2>3, AllAtOnePlace
  <1> QED
    BY <1>1, JoinTableInvariant, PTL

\* A worker that comes to insert has gone through the first meeting for its join.
LEMMA TablesAreSized ==
  ASSUME BuildInv
  PROVE  Build!SizedBeforeInsert
  <1> SUFFICES ASSUME NEW t \in Threads, at[t] \in {"insert", "waiting"}
               PROVE  /\ tableSize[join[t]] = found[join[t]]
                      /\ inserted[join[t]] <= tableSize[join[t]]
    BY DEF Build!SizedBeforeInsert
  <1> DEFINE j == join[t]
  <1>1. /\ j \in 1 .. NrJoins /\ CallsBefore(found, j) \in Nat /\ finals \in Nat
        /\ returns[t] = CallsBefore(found, j) + 1 /\ returns[t] <= finals
    BY Worker DEF BuildInv, CallsInv, CallsHere
  <1>2. tableSize[j] = found[j]
    BY <1>1 DEF BuildInv, SizeInv
  <1>3. inserted[j] \in Nat /\ Sum(Pending(j)) \in Nat /\ found[j] = inserted[j] + Sum(Pending(j))
    BY <1>1, PendingType, SumType DEF BuildInv, SumInv, JoinTypeOK, Founds
  <1> QED
    BY <1>2, <1>3

\* Whoever is beyond a join finds its table complete.
LEMMA TablesAreComplete ==
  ASSUME BuildInv
  PROVE  Build!CompleteBeforeProbe
  <1> SUFFICES ASSUME NEW t \in Threads, NEW k \in 1 .. NrJoins, k < join[t] \/ at[t] = "probe"
               PROVE  /\ inserted[k] = found[k] /\ tableSize[k] = found[k]
                      /\ \A u \in Threads : (join[u] = k /\ at[u] = "insert") => mine[u] = 0
    BY DEF Build!CompleteBeforeProbe
  <1> DEFINE j == join[t]
  <1> DEFINE a == CallsBefore(found, k)
  <1>1. /\ j \in 1 .. NrJoins /\ found \in Founds /\ finals \in Nat /\ returns[t] \in Nat
        /\ CallsBefore(found, j) <= returns[t] /\ returns[t] <= finals
        /\ CallsBefore(found, j) \in Nat
    BY Worker DEF BuildInv, JoinTypeOK
  <1>2. a \in Nat
    BY <1>1, CallsBeforeType
  <1>3. finals >= a + (IF found[k] = 0 THEN 1 ELSE 2)
    <2>1. CASE k < j
      <3>1. a + (IF found[k] = 0 THEN 1 ELSE 2) <= CallsBefore(found, j)
        BY <1>1, <2>1, CallsBeforeGrows
      <3> HIDE DEF a
      <3> QED
        BY <1>1, <1>2, <3>1
    <2>2. CASE at[t] = "probe" /\ ~(k < j)
      <3>1. j = NrJoins /\ found[j] # 0 /\ returns[t] = CallsBefore(found, j) + 2
        BY <2>2, Worker DEF BuildInv, CallsInv, CallsHere, LocalInv
      <3>2. k = j
        BY <2>2, <3>1, NrJoinsAssumption
      <3> QED
        BY <1>1, <1>2, <3>1, <3>2
    <2> QED
      BY <2>1, <2>2
  <1> QED
    BY <1>3, BehindMeeting

\* In the chains are the entries that have been inserted, and no others.
LEMMA FoundIsInserted ==
  ASSUME IInv
  PROVE  {e \in Entries : e \in Walk(find_chain_tagged(Hash[e]))} = Inserted
  <1>1. ASSUME NEW e \in Inserted
        PROVE  e \in Entries /\ e \in Walk(find_chain_tagged(Hash[e]))
    <2>1. SlotOf(e) \in Slots /\ e \in Entries
      BY DEF Inserted, SlotOf
    <2>2. PICK i \in DOMAIN chain[SlotOf(e)] : chain[SlotOf(e)][i] = e
      BY <2>1 DEF IInv, ChainsAreComplete
    <2>3. find_chain_tagged(Hash[e]) = entries[SlotOf(e)].ptr
      BY <2>1, <2>2 DEF find_chain_tagged, SlotOf, IInv, TagsAreExact
    <2> QED
      BY <2>1, <2>2, <2>3, WalkIsChain
  <1>2. ASSUME NEW e \in Entries, e \in Walk(find_chain_tagged(Hash[e]))
        PROVE  e \in Inserted
    <2>1. SlotOf(e) \in Slots
      BY DEF SlotOf
    <2>2. Hash[e].tag \in entries[SlotOf(e)].tags
      <3> SUFFICES ASSUME Hash[e].tag \notin entries[SlotOf(e)].tags PROVE FALSE
        OBVIOUS
      <3>1. e \in Walk(Null)
        BY <1>2 DEF find_chain_tagged, SlotOf
      <3> QED
        BY <3>1, WalkOfNull
    <2>3. find_chain_tagged(Hash[e]) = entries[SlotOf(e)].ptr
      BY <2>2 DEF find_chain_tagged, SlotOf
    <2>4. e \in {chain[SlotOf(e)][i] : i \in DOMAIN chain[SlotOf(e)]}
      BY <1>2, <2>1, <2>3, WalkIsChain
    <2> QED
      BY <2>1, <2>4 DEF IInv, ChainsAreComplete
  <1>3. Inserted \subseteq Entries
    BY DEF Inserted
  <1> QED
    BY <1>1, <1>2, <1>3

\* Tables are sized before and complete after, for any number of workers and joins; in
\* that of the last join, all that the workers have found can be found.
THEOREM JoinTableSizedThenComplete == JoinSpec => []SizedThenComplete
  <1>1. JoinInv => SizedThenComplete
    <2> SUFFICES ASSUME JoinInv PROVE SizedThenComplete
      OBVIOUS
    <2>1. Build!SizedBeforeInsert /\ Build!CompleteBeforeProbe
      BY TablesAreSized, TablesAreComplete DEF JoinInv
    <2>2. ASSUME NEW t \in Threads, at[t] = "probe"
          PROVE  Cardinality({e \in Entries : e \in Walk(find_chain_tagged(Hash[e]))})
                   = found[NrJoins]
      <3>1. inserted[NrJoins] = found[NrJoins]
        BY <2>1, <2>2, NrJoinsAssumption DEF Build!CompleteBeforeProbe
      <3> QED
        BY <3>1, FoundIsInserted DEF JoinInv, LastInv
    <2> QED
      BY <2>1, <2>2 DEF SizedThenComplete
  <1> QED
    BY <1>1, JoinTableInvariant, PTL
=============================================================================
