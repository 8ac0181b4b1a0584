---------------------------- MODULE HashmapSmall ----------------------------
(***************************************************************************)
(* runtime::HashmapSmall (include/common/runtime/HashmapSmall.hpp) as it   *)
(* is used by the first pass of partition_by_key (include/vectorwise/      *)
(* Primitives.hpp): the rows of a vector whose groups were not found are   *)
(* counted per key.  The map has a directory of references into its        *)
(* storage, and chains of references in there.                             *)
(*                                                                         *)
(* A reference is a signed integer of RefBytes bytes.  The directory is    *)
(* cleared with memset, which writes the lowest byte of `empty` to every   *)
(* byte.  What is read outside of the storage in use is undefined: any     *)
(* outcome of a comparison, and any of the next references of OutsideRefs. *)
(***************************************************************************)
EXTENDS Integers, Sequences

CONSTANTS
  Inputs,        \* what partition_by_key may be called with: sequences of keys
  Hash,          \* the hash of each key
  RefBytes,      \* sizeof(ref): 4 in the code
  InitCapacity,  \* capacity at first: at most 256 in the code
  OutsideRefs    \* what may be read as a reference outside of the storage

VARIABLES
  keys,      \* the keys of the rows
  i,         \* the row that is being counted
  entries,   \* the directory
  storage,   \* the entries in use: next, key (the number of a row) and value
  capacity,  \* the part of the directory that is in use: mask + 1
  cand,      \* cand of findFirst
  pc         \* "count", "walk", "insert" or "counted"

vars == <<keys, i, entries, storage, capacity, cand, pc>>

\* std::numeric_limits<ref>::max()
empty == 2 ^ (8 * RefBytes - 1) - 1

\* A word of RefBytes equal bytes, as a signed integer.
Repeated(byte) ==
  LET unsigned[n \in 0 .. RefBytes] == IF n = 0 THEN 0 ELSE 256 * unsigned[n - 1] + byte
  IN  IF unsigned[RefBytes] > empty THEN unsigned[RefBytes] - 2 ^ (8 * RefBytes)
      ELSE unsigned[RefBytes]

\* std::memset(entries, empty, capacity * sizeof(*entries));
clearByMemset(size) == [slot \in 0 .. size - 1 |-> Repeated(empty % 256)]

capLimit == (7 * capacity) \div 10

Slot(row, size) == Hash[keys[row]] % size

Init ==
  /\ keys \in Inputs
  /\ i = 1
  /\ entries = clearByMemset(InitCapacity)
  /\ storage = <<>>
  /\ capacity = InitCapacity
  /\ cand = empty
  /\ pc = "count"

-----------------------------------------------------------------------------
\* Whether storage[cand] is one of the entries in use, which count from 0.
InUse(ref) == ref + 1 \in DOMAIN storage

\* auto cand = entries[hash & mask];  if (cand == empty) return nullptr;
Begin ==
  /\ pc = "count"
  /\ i <= Len(keys)
  /\ cand' = entries[Slot(i, capacity)]
  /\ pc' = IF cand' = empty THEN "insert" ELSE "walk"
  /\ UNCHANGED <<keys, i, entries, storage, capacity>>

\* if (comp(candPtr->key)) return &candPtr->value;  and (*el)++ behind it
Count ==
  /\ pc = "walk"
  /\ IF InUse(cand)
     THEN /\ keys[storage[cand + 1].key] = keys[i]
          /\ storage' = [storage EXCEPT ![cand + 1].value = @ + 1]
     ELSE UNCHANGED storage
  /\ i' = i + 1
  /\ pc' = "count"
  /\ UNCHANGED <<keys, entries, capacity, cand>>

\* cand = candPtr->next, candPtr = &storage[cand]; cand != empty
Follow ==
  /\ pc = "walk"
  /\ IF InUse(cand)
     THEN keys[storage[cand + 1].key] # keys[i] /\ cand' = storage[cand + 1].next
     ELSE cand' \in OutsideRefs
  /\ pc' = IF cand' = empty THEN "insert" ELSE "walk"
  /\ UNCHANGED <<keys, i, entries, storage, capacity>>

\* Entry n gets to the front of its chain in a directory of this size.
Linked(map, n, size) ==
  LET slot == Slot(map.storage[n].key, size)
  IN  [entries |-> [map.entries EXCEPT ![slot] = n - 1],
       storage |-> [map.storage EXCEPT ![n].next = map.entries[slot]]]

\* The directory is cleared for its new size, and all entries are linked again.
Rebuilt(entered, size) ==
  LET map[n \in 0 .. Len(entered)] ==
        IF n = 0 THEN [entries |-> clearByMemset(size), storage |-> entered]
        ELSE Linked(map[n - 1], n, size)
  IN  map[Len(entered)]

\* ht->insert(s, hash, one), with what it does when the map has to grow.
Insert ==
  LET entered == Append(storage, [next |-> empty, key |-> i, value |-> 1])
      grows == Len(entered) > capLimit
      map == IF grows THEN Rebuilt(entered, 2 * capacity)
             ELSE Linked([entries |-> entries, storage |-> entered], Len(entered), capacity)
  IN /\ pc = "insert"
     /\ entries' = map.entries
     /\ storage' = map.storage
     /\ capacity' = IF grows THEN 2 * capacity ELSE capacity
     /\ i' = i + 1
     /\ pc' = "count"
     /\ UNCHANGED <<keys, cand>>

End ==
  /\ pc = "count"
  /\ i > Len(keys)
  /\ pc' = "counted"
  /\ UNCHANGED <<keys, i, entries, storage, capacity, cand>>

Next == Begin \/ Count \/ Follow \/ Insert \/ End \/ (pc = "counted" /\ UNCHANGED vars)

Spec == Init /\ [][Next]_vars

-----------------------------------------------------------------------------
(***************************************************************************)
(* "Pass 1: Determine frequency for each value" (Primitives.hpp:838): when *)
(* all rows are counted, each key has one entry, with as many as there are *)
(* rows of it.  The code breaks it, for memset does not write `empty`: the *)
(* bytes of the largest reference are not equal, and a chain that is meant *)
(* to be empty begins with the reference -1.                               *)
(***************************************************************************)
Frequencies ==
  pc = "counted" =>
     \A r \in DOMAIN keys :
        \E n \in DOMAIN storage :
           /\ {m \in DOMAIN storage : keys[storage[m].key] = keys[r]} = {n}
           /\ storage[n].value = Len(SelectSeq(keys, LAMBDA k : k = keys[r]))
=============================================================================
