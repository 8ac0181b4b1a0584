---------------------------- MODULE MCJoinTable -----------------------------
\* Three workers build two joins, with one entry each for the last one; all three
\* go to one slot, two of them with the same tag.
EXTENDS JoinTable, TLC

CONSTANTS t1, t2, t3, e1, e2, e3

MCThreads == {t1, t2, t3}
MCEntries == {e1, e2, e3}
MCOwner == (e1 :> t1) @@ (e2 :> t2) @@ (e3 :> t3)
MCHash == (e1 :> [slot |-> 0, tag |-> 0]) @@ (e2 :> [slot |-> 0, tag |-> 1])
          @@ (e3 :> [slot |-> 0, tag |-> 0])
=============================================================================
