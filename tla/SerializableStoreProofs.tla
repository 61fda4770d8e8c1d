---------------------- MODULE SerializableStoreProofs ----------------------
(***************************************************************************)
(* What the abstract store guarantees, for any number of transactions and  *)
(* rids: the reads of a running transaction stay true, and writes are not  *)
(* shared.  The access layer is shown to implement StoreSpec, so it gives  *)
(* the same guarantees to its callers.                                     *)
(***************************************************************************)
EXTENDS SerializableStore, TLAPS

\* A transaction that is not running has written and seen nothing: what it
\* did was forgotten when it ended, so a new one starts clean.
Clean ==
  \A t \in Txn \ running, r \in Rid : overlay[t][r] = Unknown /\ seen[t][r] = Unknown

IInv == StoreTypeOK /\ Clean /\ WritesAreExclusive /\ ReadsAreCurrent

\* The store starts empty, with nothing read or written.
LEMMA InitIInv ==
  ASSUME Unknown \notin Tuple, StoreInit PROVE IInv
  BY DEF StoreInit, IInv, StoreTypeOK, Tuple, Clean, WritesAreExclusive, ReadsAreCurrent, Touched

\* A commit changes committed tuples only where the committing transaction has
\* written, and there nobody else has looked.
LEMMA CommitKeepsIInv ==
  ASSUME Unknown \notin Tuple, IInv, NEW t \in Txn, StoreCommit(t) PROVE IInv'
<1> USE DEF IInv, StoreCommit, Forget
<1>1. /\ running' = running \ {t}
      /\ \A u \in Txn, r \in Rid : u # t => overlay'[u][r] = overlay[u][r] /\ seen'[u][r] = seen[u][r]
      /\ \A r \in Rid : overlay'[t][r] = Unknown /\ seen'[t][r] = Unknown
      /\ \A r \in Rid : committed'[r] = View(t, r)
  BY DEF StoreTypeOK
<1>2. StoreTypeOK'
  BY DEF StoreTypeOK, View, Tuple
<1>3. Clean'
  BY <1>1 DEF Clean, StoreTypeOK
<1>4. WritesAreExclusive'
  BY <1>1 DEF WritesAreExclusive, Touched, StoreTypeOK
<1>5. ReadsAreCurrent'
  <2> SUFFICES ASSUME NEW u \in running', NEW r \in Rid, seen'[u][r] # Unknown
               PROVE seen'[u][r] = View(u, r)'
    BY DEF ReadsAreCurrent
  <2>1. u # t /\ u \in running /\ u \in Txn /\ seen'[u][r] = seen[u][r] /\ overlay'[u][r] = overlay[u][r]
    BY <1>1 DEF StoreTypeOK
  <2>2. overlay[t][r] = Unknown
    BY <2>1 DEF WritesAreExclusive, Touched
  <2>3. committed'[r] = committed[r]
    BY <1>1, <2>2 DEF View
  <2> QED BY <2>1, <2>3 DEF ReadsAreCurrent, View
<1> QED BY <1>2, <1>3, <1>4, <1>5

\* Every step of the store preserves the invariant.
LEMMA NextIInv ==
  ASSUME Unknown \notin Tuple, IInv, [StoreNext]_storeVars PROVE IInv'
<1> USE DEF IInv
<1>1. CASE UNCHANGED storeVars
  BY <1>1 DEF storeVars, StoreTypeOK, Clean, WritesAreExclusive, ReadsAreCurrent, Touched, View
<1>2. ASSUME NEW t \in Txn, StoreBegin(t) PROVE IInv'
  <2>1. StoreTypeOK' BY <1>2 DEF StoreBegin, StoreTypeOK
  <2>2. Clean' BY <1>2 DEF StoreBegin, Clean
  <2>3. WritesAreExclusive'
    BY <1>2 DEF StoreBegin, WritesAreExclusive, Clean, Touched, StoreTypeOK
  <2>4. ReadsAreCurrent'
    BY <1>2 DEF StoreBegin, ReadsAreCurrent, Clean, View
  <2> QED BY <2>1, <2>2, <2>3, <2>4
<1>3. ASSUME NEW t \in Txn, StoreCommit(t) PROVE IInv'
  BY <1>3, CommitKeepsIInv
<1>4. ASSUME NEW t \in Txn, StoreAbort(t) PROVE IInv'
  <2> USE <1>4 DEF StoreAbort, Forget
  <2>1. /\ \A u \in Txn, r \in Rid : u # t => overlay'[u][r] = overlay[u][r] /\ seen'[u][r] = seen[u][r]
        /\ \A r \in Rid : overlay'[t][r] = Unknown /\ seen'[t][r] = Unknown
    BY DEF StoreTypeOK
  <2>2. StoreTypeOK' BY DEF StoreTypeOK
  <2>3. Clean' BY <2>1 DEF Clean, StoreTypeOK
  <2>4. WritesAreExclusive' BY <2>1 DEF WritesAreExclusive, Touched, StoreTypeOK
  <2>5. ReadsAreCurrent' BY <2>1 DEF ReadsAreCurrent, View, StoreTypeOK
  <2> QED BY <2>2, <2>3, <2>4, <2>5
<1>5. ASSUME NEW t \in Txn, NEW r \in Rid, StoreRead(t, r) PROVE IInv'
  <2> USE <1>5 DEF StoreRead
  <2>1. /\ \A u \in Txn, q \in Rid : u # t \/ q # r => seen'[u][q] = seen[u][q]
        /\ seen'[t][r] = View(t, r)
    BY DEF StoreTypeOK
  <2>2. StoreTypeOK' BY DEF StoreTypeOK, View, Tuple
  <2>3. Clean' BY <2>1 DEF Clean, StoreTypeOK
  <2>4. WritesAreExclusive' BY <2>1 DEF WritesAreExclusive, Touched, StoreTypeOK
  <2>5. ReadsAreCurrent' BY <2>1 DEF ReadsAreCurrent, View, StoreTypeOK
  <2> QED BY <2>2, <2>3, <2>4, <2>5
<1>6. ASSUME NEW t \in Txn, NEW r \in Rid, StoreWrite(t, r) PROVE IInv'
  <2> USE <1>6 DEF StoreWrite
  <2>1. /\ \A u \in Txn, q \in Rid : u # t \/ q # r =>
             seen'[u][q] = seen[u][q] /\ overlay'[u][q] = overlay[u][q]
        /\ seen'[t][r] = Unknown
    BY DEF StoreTypeOK
  <2>2. StoreTypeOK'
    <3>1. PICK v \in Tuple : overlay' = [overlay EXCEPT ![t][r] = v] OBVIOUS
    <3> QED BY <3>1 DEF StoreTypeOK
  <2>3. Clean' BY <2>1 DEF Clean, StoreTypeOK
  <2>4. WritesAreExclusive'
    BY <2>1 DEF WritesAreExclusive, FreeOfOthers, Touched, StoreTypeOK
  <2>5. ReadsAreCurrent' BY <2>1 DEF ReadsAreCurrent, View, StoreTypeOK
  <2> QED BY <2>2, <2>3, <2>4, <2>5
<1> QED
  BY <1>1, <1>2, <1>3, <1>4, <1>5, <1>6 DEF StoreNext, StoreInternal

\* Committed history is serial, rid by rid: what a running transaction was shown
\* at a rid is what it would be shown at its commit point, and no transaction reads or
\* overwrites the uncommitted write of another.
THEOREM StoreIsSerializable ==
  ASSUME Unknown \notin Tuple
  PROVE StoreSpec => [](ReadsAreCurrent /\ WritesAreExclusive)
<1>1. StoreInit => IInv BY InitIInv
<1>2. IInv /\ [StoreNext]_storeVars => IInv' BY NextIInv
<1>3. IInv => ReadsAreCurrent /\ WritesAreExclusive BY DEF IInv
<1> QED BY <1>1, <1>2, <1>3, PTL DEF StoreSpec

=============================================================================
