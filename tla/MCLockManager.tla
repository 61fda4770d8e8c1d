--------------------------- MODULE MCLockManager ---------------------------
\* Three transactions over two tuples: every lock conflict needs at most two
\* transactions on one tuple, the third tells "the sole holder" from "one of
\* two holders", and the second tuple separates releasing all from releasing one.
EXTENDS LockManager, TLC

Symmetry == Permutations(Txn) \cup Permutations(Rid)

=============================================================================
