----------------------------- MODULE GroupLookup ----------------------------
(***************************************************************************)
(* HashGroup::GroupLookup (include/vectorwise/Operators.hpp): how a vector *)
(* of rows is added to the groups of a hash table that one worker has for  *)
(* itself.  A row is a key and the set of input tuples that it stands for: *)
(* one of them in the local preaggregation, those of a whole group in the  *)
(* global aggregation.  A group is a row too, and adding a row to a group  *)
(* unites their tuples, as the aggregates do with the values.              *)
(*                                                                         *)
(* The groups are numbered in the order of their creation; insert() puts a *)
(* group to the front of the chain of its slot, so a chain is a set of     *)
(* groups that is read from the newest to the oldest.  The rows of one new *)
(* key are found with partition_by_key, which is taken at its word here:   *)
(* see HashmapSmall.                                                       *)
(***************************************************************************)
EXTENDS Naturals, Sequences, SequencesExt, FiniteSets

CONSTANTS
  Keys,   \* the group keys
  Hash    \* their hashes: a slot of the table, a partition, and the rest

ASSUME HashAssumption == \A k \in Keys : DOMAIN Hash[k] = {"slot", "part", "rest"}

HashOf(row) == Hash[row.key]

\* The elements of s that are in S, in their order.
Kept(s, S) ==
  LET kept[n \in 0 .. Len(s)] ==
        IF n = 0 THEN <<>>
        ELSE IF s[n] \in S THEN Append(kept[n - 1], s[n]) ELSE kept[n - 1]
  IN  kept[Len(s)]

\* The chain for a hash: find_chain(hash) and the next pointers.
find_chain(groups, hash) == {g \in DOMAIN groups : HashOf(groups[g]).slot = hash.slot}

\* The first group of a chain that has the hash, or 0.
FirstWithHash(groups, chain, hash) ==
  Max({0} \cup {g \in chain : HashOf(groups[g]) = hash})

\* What the chain has behind group g.
Behind(chain, g) == {h \in chain : h < g}

\* keyEquality.evaluate: the rows found whose match has another key, ascending.
keysNEq(groups, rows, htMatches, found) ==
  Kept([n \in DOMAIN rows |-> n], {n \in found : groups[htMatches[n]].key # rows[n].key})

\* The lookup before the first key comparison.
htLookup(groups, rows) ==
  LET match(n) == FirstWithHash(groups, find_chain(groups, HashOf(rows[n])), HashOf(rows[n]))
      found == {n \in DOMAIN rows : match(n) # 0}
      htMatches == [n \in DOMAIN rows |-> match(n)]
  IN  [htMatches |-> htMatches,
       groupsNotFound |-> DOMAIN rows \ found,
       keysNEq |-> keysNEq(groups, rows, htMatches, found)]

(***************************************************************************)
(* One call of htFollow and the key comparison behind it.  Where the row   *)
(* is told to be missing, the code writes its place among keysNEq and not  *)
(* its number, and it does so for every group with another hash that it    *)
(* walks past; if nothing follows its match, a row is not told missing.    *)
(***************************************************************************)
htFollow(groups, rows, s) ==
  LET chain(n) == Behind(find_chain(groups, HashOf(rows[n])), s.htMatches[n])
      match(n) == FirstWithHash(groups, chain(n), HashOf(rows[n]))
      walksPast(n) == \E g \in chain(n) : g > match(n)
      found == {n \in ToSet(s.keysNEq) : match(n) # 0}
      htMatches == [n \in DOMAIN rows |->
                      IF n \in found THEN match(n) ELSE s.htMatches[n]]
  IN  [htMatches |-> htMatches,
       groupsNotFound |->
         s.groupsNotFound \cup {p \in DOMAIN s.keysNEq : walksPast(s.keysNEq[p])},
       keysNEq |-> keysNEq(groups, rows, htMatches, found)]

\* findGroups: follow until nothing is left or nothing is found.
findGroups(groups, rows) ==
  LET follow[n \in 0 .. Len(groups)] ==
        IF n = 0 THEN htLookup(groups, rows)
        ELSE LET s == follow[n - 1]
             IN  IF s.keysNEq = <<>> THEN s ELSE htFollow(groups, rows, s)
  IN  follow[Len(groups)]

\* partitionKeys and buildScatter: one empty group for each missing key.
createMissingGroups(rows, groupsNotFound) ==
  LET missing == SetToSeq({rows[n].key : n \in groupsNotFound})
  IN  [g \in DOMAIN missing |-> [key |-> missing[g], tuples |-> {}]]

\* findGroups, createMissingGroups and updateGroups for a vector.
AddRows(groups, rows) ==
  LET s == findGroups(groups, rows)
      created == createMissingGroups(rows, s.groupsNotFound)
      all == groups \o created
      target(n) == IF n \in s.groupsNotFound
                   THEN Len(groups) + CHOOSE g \in DOMAIN created : created[g].key = rows[n].key
                   ELSE s.htMatches[n]
  IN  [g \in DOMAIN all |->
         [all[g] EXCEPT !.tuples =
            @ \cup UNION {rows[n].tuples : n \in {m \in DOMAIN rows : target(m) = g}}]]
=============================================================================
