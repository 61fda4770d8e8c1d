-------------------------- MODULE MCIndexedTable --------------------------
\* Two keys; one of them has a row that needs twice the space, so that updates
\* move rows with and without a change of the key.
EXTENDS IndexedTable, TLC

MCSize == [v \in Value |-> IF v = "b2" THEN 3 ELSE 2]
MCKey == [v \in Value |-> IF v = "a1" THEN "a" ELSE "b"]

Symmetry == Permutations(Txn)
=============================================================================
