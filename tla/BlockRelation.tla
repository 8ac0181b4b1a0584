--------------------------- MODULE BlockRelation ----------------------------
(***************************************************************************)
(* runtime::BlockRelation (include/common/runtime/Database.hpp), the result*)
(* of a query: rows in blocks.  A worker asks for a block, writes into it  *)
(* and adds what it has written to its size; nothing but an assertion keeps*)
(* it from writing behind the end of the block.                            *)
(***************************************************************************)
EXTENDS Integers, Sequences, SequencesExt

CONSTANT minBlockSize    \* 128

\* Blocks are named by their place in the vector "blocks"; 0 is no block.
createBlock(rel, minNrElements) ==
  Append(rel, [maxNrElements |-> IF minNrElements > minBlockSize THEN minNrElements
                                 ELSE minBlockSize,
               rows |-> <<>>])

spaceRemaining(rel, b) == IF b = 0 THEN 0 ELSE rel[b].maxNrElements - Len(rel[b].rows)

\* The rows are copied to data(attribute) + size(); then addedElements().
Written(rel, b, rows) == [rel EXCEPT ![b].rows = @ \o rows]

Rows(rel) == FlattenSeq([b \in DOMAIN rel |-> rel[b].rows])

Fits(rel) == \A b \in DOMAIN rel : Len(rel[b].rows) <= rel[b].maxNrElements
=============================================================================
