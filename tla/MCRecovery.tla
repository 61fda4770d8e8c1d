----------------------------- MODULE MCRecovery -----------------------------
EXTENDS Recovery, TLC

CONSTANT p1

\* One page with room for two tuples: the slot a delete frees is the first that
\* the next insert finds, and two transactions meet on the page's LSN.
Pages == {p1}
Slots == p1 :> 2

Symmetry == Permutations(Txn) \cup Permutations(Value)
=============================================================================
