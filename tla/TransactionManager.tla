------------------------- MODULE TransactionManager -------------------------
(***************************************************************************)
(* Transactions over one table heap: TransactionManager.Begin, Commit and  *)
(* Abort (transaction_manager.go), the heap's operations (table_heap.go)   *)
(* and the page operations they call (table_page.go), all on top of the    *)
(* lock manager (LockManager.tla).                                         *)
(*                                                                         *)
(* Every step is what happens under one hold of a page latch.  Operations  *)
(* that release the latch half-way (an update that moves its tuple, a read *)
(* that locks before it latches) and Commit and Abort, which process the   *)
(* write set record by record, are several steps, with other transactions  *)
(* in between.  Log records are left to the recovery modules.              *)
(*                                                                         *)
(* A page is its slot array, per slot the tuple stored there and its       *)
(* delete mark, and its free space pointer, which every operation adjusts. *)
(* Where bytes lie is left out.                                            *)
(***************************************************************************)
EXTENDS Integers, Sequences, FiniteSets, SequencesExt

CONSTANTS Txn, NoTxn,
          Value,         \* tuples
          Size,          \* Value -> bytes a tuple takes
          NoTuple,       \* content of a free slot (size 0)
          Unknown,       \* the transaction has not accessed the rid
          PageCapacity,  \* bytes of a page after its header
          SlotCost,      \* bytes of a slot entry (sizeTuple)
          MaxPages,      \* bound: pages of the heap
          MaxSlots,      \* bound: slots of a page
          MaxWrites,     \* bound: write records of the live transactions together
          MaxReads       \* bound: tuples the live transactions have been shown

ASSUME SizeAssumption ==
  /\ Size \in [Value -> Nat \ {0}] /\ SlotCost \in Nat /\ PageCapacity \in Nat
  /\ \A v \in Value : Size[v] + SlotCost <= PageCapacity
  /\ NoTuple \notin Value /\ Unknown \notin Value /\ NoTuple # Unknown
  /\ NoTxn \notin Txn

Rid == (1..MaxPages) \X (1..MaxSlots)

VARIABLES
  shared_lock_table, exclusive_lock_table,
  shared_lock_set, exclusive_lock_set, txn_state,
  pages,       \* the heap's page chain: sequence of slot arrays
  freeSpacePointer,  \* per page, counted from the end of the header
  write_set,   \* Txn -> sequence of write records, oldest first
  op,          \* Txn -> the operation it is in the middle of
  seen         \* history: Txn -> rid -> the tuple its last read of it returned

lockVars == <<shared_lock_table, exclusive_lock_table,
              shared_lock_set, exclusive_lock_set>>
pageVars == <<pages, freeSpacePointer>>
vars == <<lockVars, txn_state, pageVars, write_set, op, seen>>

LM == INSTANCE LockManager

-----------------------------------------------------------------------------
(***************************************************************************)
(* Slots and space.                                                        *)
(***************************************************************************)
FreeSlot == [tuple |-> NoTuple, deleted |-> FALSE]
Live(v) == [tuple |-> v, deleted |-> FALSE]

SlotExists(r) == r[1] \in DOMAIN pages /\ r[2] \in DOMAIN pages[r[1]]
Slot(r) == pages[r[1]][r[2]]

\* IsDeleted is true of a marked and of a free slot.
IsDeleted(r) == Slot(r).deleted \/ Slot(r).tuple = NoTuple

\* What is at a rid for whoever may look.
Content(r) == IF SlotExists(r) /\ ~IsDeleted(r) THEN Slot(r).tuple ELSE NoTuple

TupleSize(s) == IF s.tuple = NoTuple THEN 0 ELSE Size[s.tuple]

FreeSpaceRemaining(p) == freeSpacePointer[p] - SlotCost * Len(pages[p])

\* Slot r becomes s; the pointer moves by the difference of the tuples' sizes.
Put(r, s) ==
  /\ pages' = [pages EXCEPT ![r[1]][r[2]] = s]
  /\ freeSpacePointer' = [freeSpacePointer EXCEPT ![r[1]] = @ + TupleSize(Slot(r)) - TupleSize(s)]

\* The first slot with size 0, else a new one at the end.
FindSlot(page) ==
  IF \E i \in DOMAIN page : page[i].tuple = NoTuple
  THEN CHOOSE i \in DOMAIN page :
         page[i].tuple = NoTuple /\ \A j \in 1..(i - 1) : page[j].tuple # NoTuple
  ELSE Len(page) + 1

SetSlot(page, i, s) == IF i > Len(page) THEN Append(page, s) ELSE [page EXCEPT ![i] = s]

-----------------------------------------------------------------------------
(***************************************************************************)
(* Transactions.                                                           *)
(***************************************************************************)
Idle == [kind |-> "idle"]

\* The client may start another operation.
Ready(t) == txn_state[t] = "GROWING" /\ op[t] = Idle

SetOp(t, o) == op' = [op EXCEPT ![t] = o]

\* The bounds, as guards of the operations that start.  HeapRoom keeps an empty
\* page for every update under way, so that a started insert finds a place.
EmptyPages ==
  {p \in 1..MaxPages : p \notin DOMAIN pages \/ \A i \in DOMAIN pages[p] : pages[p][i] = FreeSlot}
Moving == {t \in Txn : op[t].kind \in {"move", "moved"}}
Room ==
  Cardinality(Moving) + FoldFunction(LAMBDA n, m : n + m, 0, [t \in Txn |-> Len(write_set[t])]) < MaxWrites
HeapRoom == Cardinality(EmptyPages) > Cardinality(Moving)
HasRead == {x \in Txn \X Rid : LM!IsSharedLocked(x[1], x[2]) \/ seen[x[1]][x[2]] # Unknown}
MayRead(t, r) == Cardinality(HasRead \cup {<<t, r>>}) <= MaxReads

Record(wtype, rid1, rid2, tuple1, tuple2) ==
  [wtype |-> wtype, rid1 |-> rid1, rid2 |-> rid2, tuple1 |-> tuple1, tuple2 |-> tuple2]

\* The history of reads: a transaction's own write makes its earlier read of
\* the rid void, its abort or commit point all of them.
Saw(t, r, v) == seen' = [seen EXCEPT ![t][r] = v]
Overwrote(t, r) == Saw(t, r, Unknown)
ForgetReads(t) == seen' = [seen EXCEPT ![t] = [r \in Rid |-> Unknown]]

\* SetState(ABORTED); the caller of the access layer then calls Abort.
SetAborted(t) == txn_state' = [txn_state EXCEPT ![t] = "ABORTED"] /\ ForgetReads(t)

AddIntoWriteSet(t, wr) == write_set' = [write_set EXCEPT ![t] = Append(@, wr)]

Begin(t) ==
  /\ LM!Begin(t)
  /\ write_set' = [write_set EXCEPT ![t] = <<>>]
  /\ SetOp(t, Idle)
  /\ UNCHANGED <<pageVars, seen>>

\* Faulty variant: what the lock manager answers is not looked at.
GetTupleUnchecked(t, r) ==
  /\ Ready(t) /\ MayRead(t, r)
  /\ SlotExists(r)
  /\ \E granted \in BOOLEAN :
       /\ LM!AcquireForRead(t, r, granted)
       /\ IF IsDeleted(r) => LM!IsExclusiveLocked(t, r)
          THEN Saw(t, r, Content(r)) /\ UNCHANGED txn_state
          ELSE SetAborted(t)
  /\ UNCHANGED <<pageVars, write_set, op>>

\* TableHeap.GetTuple and TablePage.GetTuple.  A deleted tuple is the reader's
\* own work if it holds the exclusive lock (ErrSelfDeletedCase), else the rid
\* was stale.  The lock comes before the page is latched; that the tuple cannot
\* change in between is part of what ImplementsStore says.
GetTuple(t, r) ==
  /\ Ready(t) /\ MayRead(t, r)
  /\ SlotExists(r)
  /\ \E granted \in BOOLEAN :
       /\ LM!AcquireForRead(t, r, granted)
       /\ IF granted /\ (IsDeleted(r) => LM!IsExclusiveLocked(t, r))
          THEN Saw(t, r, Content(r)) /\ UNCHANGED txn_state
          ELSE SetAborted(t)
  /\ UNCHANGED <<pageVars, write_set, op>>

(***************************************************************************)
(* TableHeap.InsertTuple walks the chain from the page it remembers and    *)
(* stores the tuple in the first page that has space and whose first free  *)
(* slot it can lock; at the end of the chain it adds a page.  Pages it     *)
(* passed may have changed since, so it can end up in any page that takes  *)
(* the tuple now; a page is added only when the last one refuses it now.   *)
(***************************************************************************)
\* Faulty variant: the entry in the slot array is not counted.
FitsTupleOnly(p, v) == FreeSpaceRemaining(p) >= Size[v]

Fits(p, v) == FreeSpaceRemaining(p) >= Size[v] + SlotCost

InsertInto(t, p, v) ==
  /\ Fits(p, v)
  /\ FindSlot(pages[p]) <= MaxSlots
  /\ LM!LockExclusive(t, <<p, FindSlot(pages[p])>>, TRUE)
  /\ pages' = [pages EXCEPT ![p] = SetSlot(@, FindSlot(@), Live(v))]
  /\ freeSpacePointer' = [freeSpacePointer EXCEPT ![p] = @ - Size[v]]

HeldByOthers(t, r) ==
  exclusive_lock_table[r] \notin {NoTxn, t} \/ ~(shared_lock_table[r] \subseteq {t})

Refuses(t, p, v) == Fits(p, v) => HeldByOthers(t, <<p, FindSlot(pages[p])>>)

InsertIntoNewPage(t, v) ==
  /\ Len(pages) < MaxPages
  /\ Refuses(t, Len(pages), v)
  /\ LM!LockExclusive(t, <<Len(pages) + 1, 1>>, TRUE)
  /\ pages' = Append(pages, <<Live(v)>>)
  /\ freeSpacePointer' = Append(freeSpacePointer, PageCapacity - Size[v])

\* The heap's insert, which ends at rid r.
HeapInsert(t, v, r) ==
  \/ /\ r[1] \in DOMAIN pages
     /\ r[2] = FindSlot(pages[r[1]])
     /\ InsertInto(t, r[1], v)
  \/ r = <<Len(pages) + 1, 1>> /\ InsertIntoNewPage(t, v)

InsertTuple(t, v) ==
  /\ Ready(t) /\ Room /\ HeapRoom
  /\ \E r \in Rid :
       /\ HeapInsert(t, v, r)
       /\ AddIntoWriteSet(t, Record("INSERT", r, r, v, NoTuple))
       /\ Overwrote(t, r)
  /\ UNCHANGED <<txn_state, op>>

\* TablePage.MarkDelete, with its result.
MarkDeleteOnPage(t, r, marked) ==
  \E granted \in BOOLEAN :
    /\ LM!AcquireForWrite(t, r, granted)
    /\ marked = (granted /\ ~IsDeleted(r))
    /\ IF marked
       THEN Put(r, [Slot(r) EXCEPT !.deleted = TRUE]) /\ Overwrote(t, r) /\ UNCHANGED txn_state
       ELSE SetAborted(t) /\ UNCHANGED pageVars

MarkDelete(t, r) ==
  /\ Ready(t) /\ Room
  /\ SlotExists(r)
  /\ \E marked \in BOOLEAN :
       /\ MarkDeleteOnPage(t, r, marked)
       /\ IF marked
          THEN AddIntoWriteSet(t, Record("DELETE", r, r, Slot(r).tuple, NoTuple))
          ELSE UNCHANGED write_set
  /\ UNCHANGED op

\* Faulty variant: a tuple may shrink in place, freeing space others can take.
InPlaceShrinking(r, v) ==
  FreeSpaceRemaining(r[1]) + Size[Slot(r).tuple] >= Size[v]

\* In place only if the page has the space and the tuple does not shrink: the
\* space it occupies must still be there when the update is rolled back.
InPlace(r, v) ==
  /\ FreeSpaceRemaining(r[1]) + Size[Slot(r).tuple] >= Size[v]
  /\ Size[Slot(r).tuple] <= Size[v]

\* TableHeap.UpdateTuple up to the end of TablePage.UpdateTuple.
UpdateTuple(t, r, v) ==
  /\ Ready(t) /\ Room
  /\ SlotExists(r)
  /\ \E granted \in BOOLEAN :
       /\ LM!AcquireForWrite(t, r, granted)
       /\ \/ /\ ~granted \/ IsDeleted(r)
             /\ SetAborted(t)
             /\ UNCHANGED <<pageVars, write_set, op>>
          \/ /\ granted /\ ~IsDeleted(r) /\ InPlace(r, v)
             /\ Put(r, Live(v))
             /\ AddIntoWriteSet(t, Record("UPDATE", r, r, Slot(r).tuple, v))
             /\ Overwrote(t, r)
             /\ UNCHANGED <<txn_state, op>>
          \/ /\ granted /\ ~IsDeleted(r) /\ ~InPlace(r, v)
             /\ HeapRoom
             /\ SetOp(t, [kind |-> "move", rid |-> r, old |-> Slot(r).tuple, new |-> v])
             /\ UNCHANGED <<pageVars, write_set, txn_state, seen>>

\* The rest of an update that moves its tuple: mark the old place deleted ...
MoveDelete(t) ==
  /\ op[t].kind = "move"
  /\ \E marked \in BOOLEAN :
       /\ MarkDeleteOnPage(t, op[t].rid, marked)
       /\ IF marked
          THEN SetOp(t, [op[t] EXCEPT !.kind = "moved"])
          ELSE SetOp(t, Idle)
  /\ UNCHANGED write_set

\* ... and insert the new tuple; only now is there a write record.
MoveInsert(t) ==
  /\ op[t].kind = "moved"
  /\ \E r \in Rid :
       /\ HeapInsert(t, op[t].new, r)
       /\ AddIntoWriteSet(t, Record("UPDATE", op[t].rid, r, op[t].old, op[t].new))
       /\ Overwrote(t, r)
  /\ SetOp(t, Idle)
  /\ UNCHANGED txn_state

\* Execution fails for a reason outside the access layer (ExecutionEngine).
Fail(t) ==
  /\ Ready(t)
  /\ SetAborted(t)
  /\ UNCHANGED <<lockVars, pageVars, write_set, op>>

-----------------------------------------------------------------------------
(***************************************************************************)
(* Commit and Abort take the write records from the end.                   *)
(***************************************************************************)
LastRecord(t) == Last(write_set[t])
DropRecord(t) == write_set' = [write_set EXCEPT ![t] = Front(@)]

Moved(wr) == wr.wtype = "UPDATE" /\ wr.rid1 # wr.rid2

\* The assertions and panics of ApplyDelete, RollbackDelete and of the
\* rollback of an update in place.  (ApplyDelete also asserts that the tuple
\* lies behind the free space pointer, table_page.go:387; where tuples lie in a
\* page is not modelled.)
ApplyDeleteOK(t, r) == SlotExists(r) /\ LM!IsExclusiveLocked(t, r)
RollbackDeleteOK(t, r) ==
  SlotExists(r) /\ LM!IsExclusiveLocked(t, r) /\ Slot(r).tuple # NoTuple
RollbackUpdateOK(t, r, v) ==
  /\ SlotExists(r) /\ LM!IsExclusiveLocked(t, r)
  /\ ~IsDeleted(r)
  /\ FreeSpaceRemaining(r[1]) + Size[Slot(r).tuple] >= Size[v]

\* Faulty variant: the delete mark stays on the freed slot.
ApplyDeleteKeepingMark(t, r) ==
  ApplyDeleteOK(t, r) /\ Put(r, [Slot(r) EXCEPT !.tuple = NoTuple])

ApplyDelete(t, r) == ApplyDeleteOK(t, r) /\ Put(r, FreeSlot)

CommitRecordOK(t, wr) == wr.wtype = "DELETE" \/ Moved(wr) => ApplyDeleteOK(t, wr.rid1)

AbortRecordOK(t, wr) ==
  CASE wr.wtype = "DELETE" -> RollbackDeleteOK(t, wr.rid1)
    [] wr.wtype = "INSERT" -> ApplyDeleteOK(t, wr.rid1)
    [] Moved(wr)           -> ApplyDeleteOK(t, wr.rid2) /\ RollbackDeleteOK(t, wr.rid1)
    [] OTHER               -> RollbackUpdateOK(t, wr.rid1, wr.tuple1)

\* Between operations the client may call Commit; nothing of what Commit does
\* before its first record can be seen by others.
Committing(t) == txn_state[t] = "GROWING" /\ op[t].kind \in {"idle", "commit"}

\* Deletes take effect now; so does leaving the old place of a moved tuple.
CommitRecord(t) ==
  /\ Committing(t) /\ write_set[t] # <<>>
  /\ LET wr == LastRecord(t) IN
       IF wr.wtype = "DELETE" \/ Moved(wr) THEN ApplyDelete(t, wr.rid1) ELSE UNCHANGED pageVars
  /\ DropRecord(t)
  /\ SetOp(t, [kind |-> "commit"])
  /\ ForgetReads(t)
  /\ UNCHANGED <<lockVars, txn_state>>

\* Faulty variant: the transaction goes away with its locks in the tables.
CommitEndWithoutUnlock(t) ==
  /\ Committing(t) /\ write_set[t] = <<>>
  /\ LM!Drop(t)
  /\ SetOp(t, Idle)
  /\ ForgetReads(t)
  /\ UNCHANGED <<pageVars, write_set, shared_lock_table, exclusive_lock_table>>

CommitEnd(t) ==
  /\ Committing(t) /\ write_set[t] = <<>>
  /\ LM!ReleaseLocks(t)
  /\ SetOp(t, Idle)
  /\ ForgetReads(t)
  /\ UNCHANGED <<pageVars, write_set>>

\* What follows the step that put the transaction in the state ABORTED.
Aborting(t) == txn_state[t] = "ABORTED" /\ op[t] = Idle

RollbackDelete(t, r) == RollbackDeleteOK(t, r) /\ Put(r, [Slot(r) EXCEPT !.deleted = FALSE])

\* The rollback of a moved update takes two page latches in turn.
AbortRecord(t) ==
  /\ Aborting(t) /\ write_set[t] # <<>>
  /\ LET wr == LastRecord(t) IN
     \/ wr.wtype = "DELETE" /\ RollbackDelete(t, wr.rid1) /\ DropRecord(t) /\ UNCHANGED op
     \/ wr.wtype = "INSERT" /\ ApplyDelete(t, wr.rid1) /\ DropRecord(t) /\ UNCHANGED op
     \/ Moved(wr) /\ ApplyDelete(t, wr.rid2) /\ SetOp(t, [kind |-> "abortMove"])
                  /\ UNCHANGED write_set
     \/ /\ wr.wtype = "UPDATE" /\ ~Moved(wr)
        /\ RollbackUpdateOK(t, wr.rid1, wr.tuple1)
        /\ Put(wr.rid1, Live(wr.tuple1)) /\ DropRecord(t) /\ UNCHANGED op
  /\ UNCHANGED <<lockVars, txn_state, seen>>

AbortMoved(t) ==
  /\ op[t].kind = "abortMove"
  /\ RollbackDelete(t, LastRecord(t).rid1)
  /\ DropRecord(t)
  /\ SetOp(t, Idle)
  /\ UNCHANGED <<lockVars, txn_state, seen>>

AbortEnd(t) ==
  /\ Aborting(t) /\ write_set[t] = <<>>
  /\ LM!ReleaseLocks(t)
  /\ UNCHANGED <<pageVars, write_set, op, seen>>

-----------------------------------------------------------------------------
Init ==
  /\ LM!Init
  /\ pages = << <<>> >> /\ freeSpacePointer = <<PageCapacity>>
  /\ write_set = [t \in Txn |-> <<>>]
  /\ op = [t \in Txn |-> Idle]
  /\ seen = [t \in Txn |-> [r \in Rid |-> Unknown]]

Operate(t) ==
  \/ \E v \in Value : InsertTuple(t, v)
  \/ \E r \in Rid : GetTuple(t, r) \/ MarkDelete(t, r) \/ \E v \in Value : UpdateTuple(t, r, v)
  \/ MoveDelete(t)
  \/ MoveInsert(t)
  \/ Fail(t)

Finish(t) ==
  \/ CommitRecord(t) \/ CommitEnd(t)
  \/ AbortRecord(t) \/ AbortMoved(t) \/ AbortEnd(t)

Next == \E t \in Txn : Begin(t) \/ Operate(t) \/ Finish(t)

Spec == Init /\ [][Next]_vars

-----------------------------------------------------------------------------
(***************************************************************************)
(* What the layer promises.                                                *)
(***************************************************************************)
OpKind == {"idle", "move", "moved", "commit", "abortMove"}

\* The page chain, the write sets and the operations in progress are well formed.
TypeOK ==
  /\ LM!TypeOK
  /\ \A p \in DOMAIN pages : \A i \in DOMAIN pages[p] :
       pages[p][i] \in {FreeSlot} \cup [tuple : Value, deleted : BOOLEAN]
  /\ \A t \in Txn : op[t].kind \in OpKind
  /\ seen \in [Txn -> [Rid -> Value \cup {NoTuple, Unknown}]]
  /\ \A t \in Txn : \A i \in DOMAIN write_set[t] :
       write_set[t][i].rid1 \in Rid /\ write_set[t][i].rid2 \in Rid

\* What has been started can be finished: no assertion or panic of ApplyDelete,
\* RollbackDelete, the rollback of an update or SetState during Commit and Abort
\* can fire, and the second half of an update that moves its tuple still owns
\* the tuple, whatever other transactions did to the page in between.
HalfDoneWorkCanFinish ==
  \A t \in Txn :
    /\ Committing(t) /\ write_set[t] # <<>> => CommitRecordOK(t, LastRecord(t))
    /\ Aborting(t) /\ write_set[t] # <<>> => AbortRecordOK(t, LastRecord(t))
    /\ op[t].kind = "abortMove" => RollbackDeleteOK(t, LastRecord(t).rid1)
    /\ op[t].kind = "move" => LM!IsExclusiveLocked(t, op[t].rid) /\ ~IsDeleted(op[t].rid)

\* getFreeSpaceRemaining is an unsigned subtraction: inserts, updates that grow
\* in place and their rollbacks never make it wrap around.
SpaceNeverNegative == \A p \in DOMAIN pages : FreeSpaceRemaining(p) >= 0

(***************************************************************************)
(* The refinement mapping.  The committed state is what the slots hold,    *)
(* except that a rid with uncommitted work stands for the image before the *)
(* oldest record of that work.  The commit point is the beginning of       *)
(* Commit, the abort point the step that sets ABORTED: the record-by-      *)
(* record work that follows must not show.                                 *)
(*                                                                         *)
(* Half a move, forwards or backwards, is the deletion of the old place.   *)
(***************************************************************************)
Deletion(r, v) == Record("DELETE", r, r, v, NoTuple)

Work(t) ==
  CASE op[t].kind = "commit"    -> <<>>
    [] op[t].kind = "moved"     -> Append(write_set[t], Deletion(op[t].rid, op[t].old))
    [] op[t].kind = "abortMove" -> Append(Front(write_set[t]),
                                          Deletion(LastRecord(t).rid1, LastRecord(t).tuple1))
    [] OTHER                    -> write_set[t]

Touches(wr, r) == wr.rid1 = r \/ wr.rid2 = r
Writes(work, r) == \E i \in DOMAIN work : Touches(work[i], r)
FirstWrite(work, r) ==
  CHOOSE i \in DOMAIN work : Touches(work[i], r) /\ \A j \in 1..(i - 1) : ~Touches(work[j], r)
ImageBefore(wr, r) == IF wr.wtype = "INSERT" \/ wr.rid1 # r THEN NoTuple ELSE wr.tuple1

BeforeImage(work, r) == ImageBefore(work[FirstWrite(work, r)], r)

Running == {t \in Txn : txn_state[t] = "GROWING" /\ op[t].kind # "commit"}

Committed ==
  LET work == [t \in Txn |-> Work(t)] IN
  [r \in Rid |->
     LET writers == {t \in Txn : Writes(work[t], r)} IN
     IF writers = {} THEN Content(r) ELSE BeforeImage(work[CHOOSE t \in writers : TRUE], r)]

Overlay ==
  [t \in Txn |->
     LET work == Work(t) IN
     [r \in Rid |-> IF t \in Running /\ Writes(work, r) THEN Content(r) ELSE Unknown]]

Store == INSTANCE SerializableStore
           WITH committed <- Committed, running <- Running,
                overlay <- Overlay

\* The heap with its in-place updates, delete marks, slot reuse, per-record
\* commit and rollback is the transactional store: reads and writes of rids are
\* serializable.  (Which rids a scan comes across is not part of it.)
ImplementsStore == Store!StoreSpec

\* Transactions use the lock manager as its specification says (so that its
\* theorems apply): whatever they do to locks is a step of LockManager.
FollowsLockProtocol == LM!Spec

=============================================================================
