------------------------ MODULE MCTransactionManager ------------------------
\* Two transactions over at most two pages.  A page holds two small tuples or
\* one big one: with two small ones an update to big does not fit and moves,
\* alone a small tuple grows in place, and a big one shrinks only by moving.
EXTENDS TransactionManager, TLC

MCSize == [v \in Value |-> IF v = "big" THEN 2 ELSE 1]

Symmetry == Permutations(Txn)
=============================================================================
