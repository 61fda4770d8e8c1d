---------------------------- MODULE IndexedTable ----------------------------
(***************************************************************************)
(* A table with an index: the executors that change rows (insert_, delete_ *)
(* and update_executor.go), the part of Abort that rolls the index back,   *)
(* and the point scan (point_scan_with_index_executor.go), on top of       *)
(* TransactionManager.  The index (storage/index/skip_list_index.go) is    *)
(* the set of its entries, a key with a row id: the ordered map that       *)
(* SkipList implements.                                                    *)
(*                                                                         *)
(* An executor changes the heap first and the index afterwards, and other  *)
(* transactions run in between; the index knows neither locks nor          *)
(* transactions.                                                           *)
(***************************************************************************)
EXTENDS TransactionManager

CONSTANT Key        \* Value -> content of the indexed column

VARIABLES index,    \* the entries, <<key, rid>>
          todo,     \* Txn -> the call of the index that comes next
          scan      \* Txn -> the point scan it executes

tableVars == <<vars, index, todo, scan>>

Keys == {Key[v] : v \in Value}

NoCall == [remove |-> {}, insert |-> {}]
NoScan == [step |-> "none", key |-> NoTuple, rids |-> {}, found |-> {}, expected |-> {}]

-----------------------------------------------------------------------------
(***************************************************************************)
(* Calls of the index.  InsertEntry and DeleteEntry are one call of the    *)
(* skip list; UpdateEntry is two with updateMtx held, so that no scan sees *)
(* the state in between.  Removing an entry that is not there is no error. *)
(***************************************************************************)
Entry(v, r) == <<Key[v], r>>

InsertEntry(t, v, r) == todo' = [todo EXCEPT ![t] = [remove |-> {}, insert |-> {Entry(v, r)}]]
DeleteEntry(t, v, r) == todo' = [todo EXCEPT ![t] = [remove |-> {Entry(v, r)}, insert |-> {}]]
UpdateEntry(t, old, oldRid, new, newRid) ==
  todo' = [todo EXCEPT ![t] = [remove |-> {Entry(old, oldRid)}, insert |-> {Entry(new, newRid)}]]

CallIndex(t) ==
  /\ todo[t] # NoCall
  /\ index' = (index \ todo[t].remove) \union todo[t].insert
  /\ todo' = [todo EXCEPT ![t] = NoCall]
  /\ UNCHANGED <<vars, scan>>

\* The executor between two rows.
Free(t) == todo[t] = NoCall /\ scan[t].step \in {"none", "end"}
EndScan(t) == scan' = [scan EXCEPT ![t] = NoScan]

-----------------------------------------------------------------------------
InsertExecutor(t, v) ==
  /\ Free(t)
  /\ InsertTuple(t, v)
  /\ InsertEntry(t, v, Last(write_set'[t]).rid1)
  /\ EndScan(t)
  /\ UNCHANGED index

\* The child has returned the row: this transaction has read or written it.
FromChild(t, r) ==
  /\ SlotExists(r)
  /\ seen[t][r] \in Value \/ (LM!IsExclusiveLocked(t, r) /\ Content(r) \in Value)
ChildTuple(t, r) == IF seen[t][r] \in Value THEN seen[t][r] ELSE Content(r)

DeleteExecutor(t, r) ==
  /\ Free(t) /\ FromChild(t, r)
  /\ MarkDelete(t, r)
  /\ IF txn_state'[t] = "GROWING" THEN DeleteEntry(t, ChildTuple(t, r), r) ELSE UNCHANGED todo
  /\ EndScan(t)
  /\ UNCHANGED index

\* An update in place ends here; one that moves the row, with MoveExecutor.
UpdateExecutor(t, r, v) ==
  /\ Free(t) /\ FromChild(t, r)
  /\ UpdateTuple(t, r, v)
  /\ IF txn_state'[t] = "GROWING" /\ op'[t] = Idle
     THEN UpdateEntry(t, ChildTuple(t, r), r, v, r)
     ELSE UNCHANGED todo
  /\ EndScan(t)
  /\ UNCHANGED index

MoveExecutor(t) ==
  /\ \/ MoveDelete(t) /\ UNCHANGED todo
     \/ /\ MoveInsert(t)
        /\ LET wr == Last(write_set'[t])
           IN  UpdateEntry(t, wr.tuple1, wr.rid1, wr.tuple2, wr.rid2)
  /\ UNCHANGED <<index, scan>>

-----------------------------------------------------------------------------
(***************************************************************************)
(* PointScanWithIndexExecutor.Init: the rids that the index has for the    *)
(* key are read one after the other.  What was changed since the index was *)
(* looked up makes the transaction abort.                                  *)
(***************************************************************************)
\* What a reader may rely on: rows that no other transaction is changing.
ChangedByOthers(t, r) == exclusive_lock_table[r] \notin {NoTxn, t}
RowsWith(t, k) ==
  {r \in Rid : Content(r) # NoTuple /\ Key[Content(r)] = k /\ ~ChangedByOthers(t, r)}

ScanKey(t, k) ==
  /\ Ready(t) /\ Free(t)
  /\ LET rids == {r \in Rid : <<k, r>> \in index} IN
     scan' = [scan EXCEPT ![t] = [step |-> IF rids = {} THEN "end" ELSE "fetch", key |-> k,
                                  rids |-> rids, found |-> {}, expected |-> RowsWith(t, k)]]
  /\ UNCHANGED <<vars, index, todo>>

\* Row ids come in the order of the keys' suffix.
NextRid(t) == CHOOSE r \in scan[t].rids : \A s \in scan[t].rids : r[1] < s[1] \/ (r[1] = s[1] /\ r[2] <= s[2])

\* Faulty variant: the tuples found so far stay when a read fails.
FetchTupleKeepingFound(t) ==
  /\ scan[t].step = "fetch"
  /\ GetTuple(t, NextRid(t))
  /\ scan' = [scan EXCEPT ![t].step = "check"]
  /\ UNCHANGED <<index, todo>>

FetchTuple(t) ==
  /\ scan[t].step = "fetch"
  /\ GetTuple(t, NextRid(t))
  /\ IF txn_state'[t] = "GROWING" THEN scan' = [scan EXCEPT ![t].step = "check"] ELSE EndScan(t)
  /\ UNCHANGED <<index, todo>>

FetchedRow(t, found) ==
  scan' = [scan EXCEPT ![t].rids = @ \ {NextRid(t)}, ![t].found = found,
                       ![t].step = IF scan[t].rids = {NextRid(t)} THEN "end" ELSE "fetch"]

\* Faulty variant: the row is taken for what the index says it is.
CheckTupleTrusting(t) ==
  /\ scan[t].step = "check"
  /\ FetchedRow(t, IF seen[t][NextRid(t)] = NoTuple THEN scan[t].found ELSE scan[t].found \union {NextRid(t)})
  /\ UNCHANGED <<vars, index, todo>>

CheckTuple(t) ==
  /\ scan[t].step = "check"
  /\ LET r == NextRid(t) IN
     \/ /\ seen[t][r] = NoTuple \/ Key[seen[t][r]] = scan[t].key
        /\ FetchedRow(t, scan[t].found \union {x \in {r} : seen[t][x] # NoTuple})   \* not if ErrSelfDeletedCase
        /\ UNCHANGED vars
     \/ /\ seen[t][r] # NoTuple /\ Key[seen[t][r]] # scan[t].key
        /\ Fail(t) /\ EndScan(t)
  /\ UNCHANGED <<index, todo>>

\* A row that another scan reads, SeqScan for one.
ReadRow(t, r) == Free(t) /\ GetTuple(t, r) /\ EndScan(t) /\ UNCHANGED <<index, todo>>

GiveUp(t) == Free(t) /\ Fail(t) /\ EndScan(t) /\ UNCHANGED <<index, todo>>

-----------------------------------------------------------------------------
\* Commit leaves the index alone.
CommitTable(t) ==
  /\ Free(t)
  /\ CommitRecord(t) \/ CommitEnd(t)
  /\ EndScan(t)
  /\ UNCHANGED <<index, todo>>

\* Faulty variant: the entry is left alone when the key did not change.
RollbackEntryByKey(t, wr) ==
  \/ wr.wtype = "DELETE" /\ InsertEntry(t, wr.tuple1, wr.rid1)
  \/ wr.wtype = "INSERT" /\ DeleteEntry(t, wr.tuple1, wr.rid1)
  \/ /\ wr.wtype = "UPDATE" /\ Key[wr.tuple1] # Key[wr.tuple2]
     /\ UpdateEntry(t, wr.tuple2, wr.rid2, wr.tuple1, wr.rid1)
  \/ wr.wtype = "UPDATE" /\ Key[wr.tuple1] = Key[wr.tuple2] /\ UNCHANGED todo

\* What Abort does to the index once the heap has its record rolled back.
RollbackEntry(t, wr) ==
  \/ wr.wtype = "DELETE" /\ InsertEntry(t, wr.tuple1, wr.rid1)
  \/ wr.wtype = "INSERT" /\ DeleteEntry(t, wr.tuple1, wr.rid1)
  \/ /\ wr.wtype = "UPDATE" /\ (Key[wr.tuple1] # Key[wr.tuple2] \/ wr.rid1 # wr.rid2)
     /\ UpdateEntry(t, wr.tuple2, wr.rid2, wr.tuple1, wr.rid1)
  \/ wr.wtype = "UPDATE" /\ Key[wr.tuple1] = Key[wr.tuple2] /\ wr.rid1 = wr.rid2 /\ UNCHANGED todo

AbortTable(t) ==
  /\ todo[t] = NoCall
  /\ \/ /\ AbortRecord(t) \/ AbortMoved(t)
        /\ IF op'[t].kind = "abortMove" THEN UNCHANGED todo ELSE RollbackEntry(t, LastRecord(t))
     \/ AbortEnd(t) /\ UNCHANGED todo
  /\ UNCHANGED <<index, scan>>

BeginTable(t) == Begin(t) /\ UNCHANGED <<index, todo, scan>>

-----------------------------------------------------------------------------
TableInit ==
  /\ Init
  /\ index = {}
  /\ todo = [t \in Txn |-> NoCall]
  /\ scan = [t \in Txn |-> NoScan]

Execute(t) ==
  \/ \E v \in Value : InsertExecutor(t, v)
  \/ \E r \in Rid : DeleteExecutor(t, r) \/ ReadRow(t, r) \/ \E v \in Value : UpdateExecutor(t, r, v)
  \/ MoveExecutor(t) \/ CallIndex(t)
  \/ \E k \in Keys : ScanKey(t, k)
  \/ FetchTuple(t) \/ CheckTuple(t) \/ GiveUp(t)

TableNext == \E t \in Txn : BeginTable(t) \/ Execute(t) \/ CommitTable(t) \/ AbortTable(t)

TableSpec == TableInit /\ [][TableNext]_tableVars

-----------------------------------------------------------------------------
\* Calls and scans are well formed; an aborting transaction has no scan left.
TableTypeOK ==
  /\ index \subseteq Keys \X Rid
  /\ \A t \in Txn : /\ todo[t].remove \union todo[t].insert \subseteq Keys \X Rid
                    /\ scan[t].rids \union scan[t].found \union scan[t].expected \subseteq Rid
                    /\ txn_state[t] # "GROWING" => scan[t] = NoScan

\* A row whose index entry is about to change, or that is half moved.
InTransit(r) ==
  \E t \in Txn :
    \/ \E e \in todo[t].remove \union todo[t].insert : e[2] = r
    \/ op[t].kind = "moved" /\ op[t].rid = r
    \/ op[t].kind = "abortMove" /\ Touches(LastRecord(t), r)

\* Deleted, or moved away, by a transaction that has not committed: the row is
\* still in its page, its entry is not in the index any more.
MarkedDeleted(r) == SlotExists(r) /\ Slot(r).deleted

\* The index has exactly the rows that the heap holds under exactly their keys,
\* uncommitted inserts and updates included, but for the rows between the two
\* halves of a change and those whose deletion is not committed: no rollback,
\* moved row or reused slot leaves a stale entry behind or takes away the entry
\* of another row.
IndexAgreesWithHeap ==
  \A r \in Rid : ~InTransit(r) /\ ~MarkedDeleted(r) =>
    {e \in index : e[2] = r} = IF Content(r) = NoTuple THEN {} ELSE {Entry(Content(r), r)}

\* A point scan that ends returns every row with its key that, when the index
\* was looked up, was there and not being changed by another transaction (a row
\* that another one has deleted or given another key is missed, committed or
\* not; rows that come later are not seen); and
\* what it returns is still there under that key and no other transaction's
\* uncommitted work, although the entries of such work are in the index.
ScanIsExact ==
  \A t \in Txn : scan[t].step = "end" =>
    /\ scan[t].expected \subseteq scan[t].found
    /\ \A r \in scan[t].found : /\ Content(r) # NoTuple /\ Key[Content(r)] = scan[t].key
                                /\ ~ChangedByOthers(t, r)

=============================================================================
