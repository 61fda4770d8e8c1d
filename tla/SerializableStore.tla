------------------------- MODULE SerializableStore -------------------------
(***************************************************************************)
(* What the access layer promises: a store of tuples with transactions     *)
(* that are atomic, isolated from one another and equivalent to running    *)
(* one after the other in the order they commit.                           *)
(*                                                                         *)
(* A transaction works on an overlay nobody else sees.  Committing makes   *)
(* the overlay the committed state, all of it at once; aborting drops it.  *)
(* The guards are those of strict two-phase locking, seen from outside: no *)
(* transaction writes what another running one has read or written.        *)
(*                                                                         *)
(* Reads and writes name the rid they are about.  Which rids there are to  *)
(* read is not part of the promise: a scan can meet phantoms.              *)
(***************************************************************************)
CONSTANTS Txn, Rid, Value,
          NoTuple,      \* there is no tuple at this rid
          Unknown       \* the transaction has not written / not read this rid

VARIABLES committed,  \* Rid -> the committed tuple
          running,    \* the transactions in progress
          overlay,    \* Txn -> Rid -> what the transaction has written
          seen        \* Txn -> Rid -> what it read and has not overwritten since

storeVars == <<running, seen, overlay, committed>>

Tuple == Value \cup {NoTuple}

View(t, r) == IF overlay[t][r] = Unknown THEN committed[r] ELSE overlay[t][r]

Touched(t, r) == overlay[t][r] # Unknown \/ seen[t][r] # Unknown

FreeOfOthers(t, r) == \A u \in running \ {t} : ~Touched(u, r)

-----------------------------------------------------------------------------
StoreInit ==
  /\ committed = [r \in Rid |-> NoTuple]
  /\ running = {}
  /\ overlay = [t \in Txn |-> [r \in Rid |-> Unknown]]
  /\ seen = [t \in Txn |-> [r \in Rid |-> Unknown]]

StoreBegin(t) ==
  /\ t \notin running
  /\ running' = running \cup {t}
  /\ UNCHANGED <<committed, overlay, seen>>

\* Reading is allowed while no other running transaction has written the rid.
StoreRead(t, r) ==
  /\ t \in running /\ UNCHANGED running
  /\ \A u \in running \ {t} : overlay[u][r] = Unknown
  /\ seen' = [seen EXCEPT ![t][r] = View(t, r)]
  /\ UNCHANGED <<committed, overlay>>

\* Any tuple, or none, may be written.
StoreWrite(t, r) ==
  /\ t \in running /\ UNCHANGED running
  /\ seen' = [seen EXCEPT ![t][r] = Unknown]
  /\ FreeOfOthers(t, r)
  /\ overlay'[t][r] \in Tuple
  /\ overlay' = [overlay EXCEPT ![t][r] = overlay'[t][r]]
  /\ UNCHANGED committed

Forget(t) ==
  /\ running' = running \ {t}
  /\ overlay' = [overlay EXCEPT ![t] = [r \in Rid |-> Unknown]]
  /\ seen' = [seen EXCEPT ![t] = [r \in Rid |-> Unknown]]

StoreCommit(t) ==
  /\ t \in running
  /\ Forget(t)
  /\ committed' = [r \in Rid |-> View(t, r)]

StoreAbort(t) ==
  /\ t \in running
  /\ Forget(t)
  /\ UNCHANGED committed

\* Work of an implementation that does not show.
StoreInternal == UNCHANGED storeVars

StoreNext ==
  \/ StoreInternal
  \/ \E t \in Txn : StoreBegin(t) \/ StoreCommit(t) \/ StoreAbort(t)
  \/ \E t \in Txn, r \in Rid : StoreRead(t, r) \/ StoreWrite(t, r)

StoreSpec == StoreInit /\ [][StoreNext]_storeVars

-----------------------------------------------------------------------------
StoreTypeOK ==
  /\ committed \in [Rid -> Tuple]
  /\ running \subseteq Txn
  /\ overlay \in [Txn -> [Rid -> Tuple \cup {Unknown}]]
  /\ seen \in [Txn -> [Rid -> Tuple \cup {Unknown}]]

\* What a running transaction has been shown is still true when it commits:
\* every read could be repeated at the commit point with the same answer.
\* Hence the committed history is the serial one in commit order.
ReadsAreCurrent ==
  \A t \in running, r \in Rid : seen[t][r] # Unknown => seen[t][r] = View(t, r)

\* Two running transactions never write the same rid, and none reads what
\* another has written and not yet committed.
WritesAreExclusive ==
  \A t, u \in running, r \in Rid :
    t # u /\ overlay[t][r] # Unknown => ~Touched(u, r)

=============================================================================
