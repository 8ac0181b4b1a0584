------------------------------- MODULE Hashmap ------------------------------
(***************************************************************************)
(* runtime::Hashmap (include/common/runtime/Hashmap.hpp) while several     *)
(* threads insert entries: insert_tagged() pushes an entry to the front of *)
(* the chain of its slot with a compare-exchange.  The upper 16 bits of    *)
(* the pointer to the chain are a filter: a bit for the upper 4 bits of    *)
(* every hash in the chain.                                                *)
(*                                                                         *)
(* A hash is what the code uses of it: its lower bits, which select the    *)
(* slot, and its upper bits, which select the bit of the filter.           *)
(***************************************************************************)
EXTENDS Naturals, Sequences, FiniteSets

CONSTANTS
  Threads,    \* the threads that insert
  Entries,    \* the entries they have materialized
  Owner,      \* who inserts which: a function from Entries to Threads
  Hash,       \* the hashes of the entries: a function
  Slots,      \* the slots of the table: 0 .. mask in the code
  Tags,       \* the bits of the filter
  Null        \* end()

ASSUME EntriesAssumption == IsFiniteSet(Entries)
ASSUME OwnerAssumption == Owner \in [Entries -> Threads]
ASSUME HashAssumption == Hash \in [Entries -> [slot : Slots, tag : Tags]]
ASSUME NullAssumption == Null \notin Entries

VARIABLES
  entries,    \* the slots: each a pointer and its tags
  next,       \* EntryHeader::next of every entry
  todo,       \* the entries that insertAll_tagged() has not come to yet
  entry,      \* the local variables of insert_tagged()
  loc,
  pc,
  chain       \* history: the chains, as sequences

shared == <<entries, next>>
vars == <<entries, next, todo, entry, loc, pc, chain>>

NoEntries == [ptr |-> Null, tags |-> {}]

Init ==
  /\ entries = [s \in Slots |-> NoEntries]   \* malloc_huge returns zeros
  /\ next = [e \in Entries |-> Null]
  /\ todo = [t \in Threads |-> {e \in Entries : Owner[e] = t}]
  /\ entry = [t \in Threads |-> Null]
  /\ loc = [t \in Threads |-> NoEntries]
  /\ pc = [t \in Threads |-> "idle"]
  /\ chain = [s \in Slots |-> <<>>]

Goto(t, l) == pc' = [pc EXCEPT ![t] = l]
SlotOf(e) == Hash[e].slot

-----------------------------------------------------------------------------
\* The next entry of insertAll_tagged().
Begin(t, e) ==
  /\ pc[t] = "idle"
  /\ e \in todo[t]
  /\ todo' = [todo EXCEPT ![t] = @ \ {e}]
  /\ entry' = [entry EXCEPT ![t] = e]
  /\ Goto(t, "load")
  /\ UNCHANGED <<shared, loc, chain>>

\* EntryHeader* loc = locPtr->load();
Load(t) ==
  /\ pc[t] = "load"
  /\ loc' = [loc EXCEPT ![t] = entries[SlotOf(entry[t])]]
  /\ Goto(t, "link")
  /\ UNCHANGED <<shared, todo, entry, chain>>

\* entry->next = ptr(loc);
Link(t) ==
  /\ pc[t] = "link"
  /\ next' = [next EXCEPT ![entry[t]] = loc[t].ptr]
  /\ Goto(t, "cas")
  /\ UNCHANGED <<entries, todo, entry, loc, chain>>

\* Mutant: the tags of the entries that are there already are dropped.
update_DropsOld(old, e) == [ptr |-> e, tags |-> {Hash[e].tag}]

\* Mutant: the new entry leaves the tags as they are.
update_NoTag(old, e) == [ptr |-> e, tags |-> IF old.ptr = Null THEN {Hash[e].tag} ELSE old.tags]

\* p | (old & maskTag) | tag(hash)
update(old, e) == [ptr |-> e, tags |-> old.tags \cup {Hash[e].tag}]

\* Mutant: a failed exchange does not link the entry anew.
Publish_OldLink(t) ==
  LET s == SlotOf(entry[t]) IN
  /\ pc[t] = "cas"
  /\ IF entries[s] = loc[t]
     THEN /\ entries' = [entries EXCEPT ![s] = update(loc[t], entry[t])]
          /\ chain' = [chain EXCEPT ![s] = <<entry[t]>> \o @]
          /\ Goto(t, "idle")
          /\ UNCHANGED loc
     ELSE /\ loc' = [loc EXCEPT ![t] = entries[s]]
          /\ UNCHANGED <<entries, chain, pc>>
  /\ UNCHANGED <<next, todo, entry>>

\* Mutant: a failed exchange does not load the slot anew.
Publish_OldLoc(t) ==
  LET s == SlotOf(entry[t]) IN
  /\ pc[t] = "cas"
  /\ IF entries[s] = loc[t]
     THEN /\ entries' = [entries EXCEPT ![s] = update(loc[t], entry[t])]
          /\ chain' = [chain EXCEPT ![s] = <<entry[t]>> \o @]
          /\ Goto(t, "idle")
     ELSE /\ Goto(t, "link")
          /\ UNCHANGED <<entries, chain>>
  /\ UNCHANGED <<next, todo, entry, loc>>

\* while (!locPtr->compare_exchange_weak(loc, newLoc));  which loads loc anew
\* when it fails
Publish(t) ==
  LET s == SlotOf(entry[t]) IN
  /\ pc[t] = "cas"
  /\ IF entries[s] = loc[t]
     THEN /\ entries' = [entries EXCEPT ![s] = update(loc[t], entry[t])]
          /\ chain' = [chain EXCEPT ![s] = <<entry[t]>> \o @]
          /\ Goto(t, "idle")
          /\ UNCHANGED loc
     ELSE /\ loc' = [loc EXCEPT ![t] = entries[s]]
          /\ Goto(t, "link")
          /\ UNCHANGED <<entries, chain>>
  /\ UNCHANGED <<next, todo, entry>>

Step(t) ==
  \/ \E e \in Entries : Begin(t, e)
  \/ Load(t)
  \/ Link(t)
  \/ Publish(t)

Terminated ==
  /\ \A t \in Threads : pc[t] = "idle" /\ todo[t] = {}
  /\ UNCHANGED vars

Next == (\E t \in Threads : Step(t)) \/ Terminated

Spec == Init /\ [][Next]_vars

\* Worker threads that can run do run.
FairSpec == Spec /\ \A t \in Threads : WF_vars(Step(t))

-----------------------------------------------------------------------------
Pointers == Entries \cup {Null}
Words == [ptr : Pointers, tags : SUBSET Tags]

TypeOK ==
  /\ entries \in [Slots -> Words]
  /\ next \in [Entries -> Pointers]
  /\ todo \in [Threads -> SUBSET Entries]
  /\ entry \in [Threads -> Pointers]
  /\ loc \in [Threads -> Words]
  /\ pc \in [Threads -> {"idle", "load", "link", "cas"}]
  /\ chain \in [Slots -> Seq(Entries)]

\* What the calls of insert_tagged() so far have inserted.
Inserted == {e \in Entries : /\ e \notin todo[Owner[e]]
                             /\ entry[Owner[e]] = e => pc[Owner[e]] = "idle"}

\* find_chain_tagged(hash)
find_chain_tagged(h) ==
  IF h.tag \in entries[h.slot].tags THEN entries[h.slot].ptr ELSE Null

\* The entries that a loop over a chain comes to, from its first entry p on.
Walk(p) ==
  LET reached[n \in Nat] ==
        IF n = 0 THEN {p}
        ELSE reached[n - 1] \cup {next[e] : e \in reached[n - 1] \ {Null}}
  IN  reached[Cardinality(Entries)] \ {Null}

(***************************************************************************)
(* What has been inserted is found, in the middle of other insertions too: *)
(* no concurrent insertion unlinks an entry, and the filter lets every     *)
(* hash pass that is in the chain.                                         *)
(***************************************************************************)
InsertedIsFound == \A e \in Inserted : e \in Walk(find_chain_tagged(Hash[e]))

\* The pointers form one chain per slot, which ends and in which nothing is
\* twice: chain records the exchanges that have succeeded.
ChainsAreLinked ==
  \A s \in Slots :
    /\ entries[s].ptr = IF chain[s] = <<>> THEN Null ELSE chain[s][1]
    /\ \A i \in DOMAIN chain[s] :
          next[chain[s][i]] = IF i = Len(chain[s]) THEN Null ELSE chain[s][i + 1]
    /\ \A i, j \in DOMAIN chain[s] : chain[s][i] = chain[s][j] => i = j

\* Each entry is in the chain of its own slot, once it is inserted.
ChainsAreComplete ==
  \A s \in Slots :
     {chain[s][i] : i \in DOMAIN chain[s]} = {e \in Inserted : SlotOf(e) = s}

\* The filter of a slot has the tags of its chain, no more and no fewer.
TagsAreExact ==
  \A s \in Slots :
     entries[s].tags = {Hash[chain[s][i]].tag : i \in DOMAIN chain[s]}

\* Although an exchange may fail, every entry is inserted.
EverythingInserted == <>(Inserted = Entries)
=============================================================================
