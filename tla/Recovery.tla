------------------------------ MODULE Recovery ------------------------------
(***************************************************************************)
(* Write-ahead logging, crash and restart: the log records the table pages *)
(* and the transaction manager write (table_page.go,                       *)
(* transaction_manager.go), the flushes of log and pages (log_manager.go,  *)
(* buffer_pool_manager.go, checkpoint_manager.go), and what NewSamehadaDB  *)
(* does with the log of an existing database (samehada.go,                 *)
(* log_recovery.go).                                                       *)
(*                                                                         *)
(* The heap is a fixed set of pages.  Tuples have one size: an update is   *)
(* in place.  Locks are what LockManager guarantees: the exclusive owner   *)
(* of a rid.  Where the log file ends after a crash is decided by the last *)
(* Flush; the log buffer and the page cache are lost.                      *)
(***************************************************************************)
EXTENDS Integers, Sequences, FiniteSets, SequencesExt

CONSTANTS Txn, NoTxn,
          Page,
          NumSlots,     \* bound: Page -> the slots of the page
          Value,        \* tuples
          NoTuple,
          MaxLSN,       \* bound: transactions write records up to this LSN
          MaxCrashes,   \* bound
          CrashPhases,  \* the phases in which crashes are considered
          MayDelete,    \* statements include DELETE
          MayAbort      \* transactions may abort

ASSUME RecoveryAssumption ==
  /\ NoTxn \notin Txn /\ NoTuple \notin Value
  /\ NumSlots \in [Page -> Nat \ {0}] /\ MaxLSN \in Nat /\ MaxCrashes \in Nat
  /\ CrashPhases \subseteq {"up", "checkpoint", "redo", "undo", "flush"}
  /\ MayDelete \in BOOLEAN /\ MayAbort \in BOOLEAN

SlotOf(p) == 1..NumSlots[p]
Rid == UNION {{p} \X SlotOf(p) : p \in Page}
NoRid == <<>>

VARIABLES
  log_buffer, log_file,  \* sequences of log records
  next_lsn,
  cache,                 \* page contents in the buffer pool
  dirty,                 \* pages that differ from the disk
  disk,                  \* page contents in the db file
  txn,                   \* Txn -> state
  write_set,             \* Txn -> write records, oldest first
  lock,                  \* Rid -> the transaction that owns it exclusively
  phase,                 \* "up", "checkpoint", "redo", "undo", "flush", "panic"
  active_txn,            \* transactions Undo has still to treat
  committed,             \* history: what the durable COMMITs made of every rid
  crashes

logVars == <<log_buffer, log_file, next_lsn>>
pageVars == <<cache, dirty, disk>>
txnVars == <<txn, write_set, lock>>
recoveryVars == <<active_txn, crashes>>
vars == <<logVars, pageVars, txnVars, phase, recoveryVars, committed>>

-----------------------------------------------------------------------------
(***************************************************************************)
(* Pages.                                                                  *)
(***************************************************************************)
FreeSlot == [tuple |-> NoTuple, deleted |-> FALSE]
Live(v) == [tuple |-> v, deleted |-> FALSE]
IsDeleted(s) == s.deleted \/ s.tuple = NoTuple

Content(pages, r) ==
  LET s == pages[r[1]].slots[r[2]] IN IF IsDeleted(s) THEN NoTuple ELSE s.tuple
Contents(pages) == [r \in Rid |-> Content(pages, r)]

FreeSlots(slots) == {i \in DOMAIN slots : slots[i].tuple = NoTuple}
FirstFree(slots) == CHOOSE i \in FreeSlots(slots) : \A j \in FreeSlots(slots) : i <= j

\* The page operations, as functions of the slot array.
InsertTuple(slots, v) ==
  IF FreeSlots(slots) = {} THEN slots ELSE [slots EXCEPT ![FirstFree(slots)] = Live(v)]

\* Faulty variant: the freed slot keeps its delete mark.
ApplyDeleteKeepingFlag(slots, i) == [slots EXCEPT ![i] = [tuple |-> NoTuple, deleted |-> TRUE]]

ApplyDelete(slots, i) == [slots EXCEPT ![i] = FreeSlot]
MarkDelete(slots, i) ==
  IF IsDeleted(slots[i]) THEN slots ELSE [slots EXCEPT ![i].deleted = TRUE]
RollbackDelete(slots, i) == [slots EXCEPT ![i].deleted = FALSE]
UpdateTuple(slots, i, v) == IF IsDeleted(slots[i]) THEN slots ELSE [slots EXCEPT ![i] = Live(v)]

-----------------------------------------------------------------------------
(***************************************************************************)
(* The log.                                                                *)
(***************************************************************************)
Record(t, type, rid, old, new) ==
  [lsn |-> next_lsn, txn |-> t, type |-> type, rid |-> rid, old |-> old, new |-> new]

AppendLogRecord(rec) ==
  /\ log_buffer' = Append(log_buffer, rec)
  /\ next_lsn' = next_lsn + 1
  /\ UNCHANGED log_file

\* A page operation of t: the record and the page change under one latch.
Log(t, type, r, old, new) == AppendLogRecord(Record(t, type, r, old, new))
ChangePage(p, slots) ==
  /\ cache' = [cache EXCEPT ![p] = [slots |-> slots, lsn |-> next_lsn]]
  /\ dirty' = dirty \cup {p}
  /\ UNCHANGED disk

\* LogManager.Flush.  A COMMIT in the buffer is durable from now on; its
\* transaction still holds its locks.
Committing(t) == \E i \in DOMAIN log_buffer : log_buffer[i].txn = t /\ log_buffer[i].type = "COMMIT"
Flush ==
  /\ log_file' = log_file \o log_buffer
  /\ log_buffer' = <<>>
  /\ committed' = [r \in Rid |-> IF lock[r] # NoTxn /\ Committing(lock[r])
                                 THEN Content(cache, r) ELSE committed[r]]
  /\ UNCHANGED next_lsn

-----------------------------------------------------------------------------
(***************************************************************************)
(* Transactions.  Room bounds what starts; what has started may finish.    *)
(* Nothing starts after the last crash: no property looks at it.           *)
(***************************************************************************)
Room == next_lsn <= MaxLSN /\ crashes < MaxCrashes
LiveTxns == {t \in Txn : txn[t] \notin {"none", "ended"}}

SetTxn(t, s) == txn' = [txn EXCEPT ![t] = s]
Own(t, r) == lock' = [lock EXCEPT ![r] = t]
MayOwn(t, r) == lock[r] \in {NoTxn, t}
AddIntoWriteSet(t, wtype, r, old) ==
  write_set' = [write_set EXCEPT ![t] = Append(@, [wtype |-> wtype, rid |-> r, old |-> old])]

\* Begin waits while a checkpoint blocks the transactions.
Begin(t) ==
  /\ phase = "up" /\ Room
  /\ txn[t] = "none"
  /\ SetTxn(t, "active")
  /\ Log(t, "BEGIN", NoRid, NoTuple, NoTuple)
  /\ UNCHANGED <<pageVars, write_set, lock, phase, recoveryVars, committed>>

DoInsert(t, p, v) ==
  LET slots == cache[p].slots
      r == <<p, FirstFree(slots)>>
  IN /\ txn[t] = "active" /\ Room
     /\ FreeSlots(slots) # {} /\ MayOwn(t, r)
     /\ ChangePage(p, InsertTuple(slots, v))
     /\ Log(t, "INSERT", r, NoTuple, v)
     /\ Own(t, r) /\ AddIntoWriteSet(t, "INSERT", r, NoTuple)
     /\ UNCHANGED <<txn, phase, recoveryVars, committed>>

DoUpdate(t, r, v) ==
  LET slots == cache[r[1]].slots IN
  /\ txn[t] = "active" /\ Room
  /\ ~IsDeleted(slots[r[2]]) /\ slots[r[2]].tuple # v /\ MayOwn(t, r)
  /\ ChangePage(r[1], UpdateTuple(slots, r[2], v))
  /\ Log(t, "UPDATE", r, slots[r[2]].tuple, v)
  /\ Own(t, r) /\ AddIntoWriteSet(t, "UPDATE", r, slots[r[2]].tuple)
  /\ UNCHANGED <<txn, phase, recoveryVars, committed>>

DoMarkDelete(t, r) ==
  LET slots == cache[r[1]].slots IN
  /\ MayDelete
  /\ txn[t] = "active" /\ Room
  /\ ~IsDeleted(slots[r[2]]) /\ MayOwn(t, r)
  /\ ChangePage(r[1], MarkDelete(slots, r[2]))
  /\ Log(t, "MARKDELETE", r, NoTuple, NoTuple)
  /\ Own(t, r) /\ AddIntoWriteSet(t, "DELETE", r, slots[r[2]].tuple)
  /\ UNCHANGED <<txn, phase, recoveryVars, committed>>

LastRecord(t) == Last(write_set[t])
DropRecord(t) == write_set' = [write_set EXCEPT ![t] = Front(@)]
ReleaseLocks(t) == lock' = [r \in Rid |-> IF lock[r] = t THEN NoTxn ELSE lock[r]]

\* Commit: first the deletes of the write set, from its end; its other records
\* need nothing ...
Deletes(t) == {i \in DOMAIN write_set[t] : write_set[t][i].wtype = "DELETE"}
LastDelete(t) == CHOOSE i \in Deletes(t) : \A j \in Deletes(t) : j <= i

CommitRecord(t) ==
  /\ txn[t] \in {"active", "committing"} /\ Deletes(t) # {}
  /\ LET r == write_set[t][LastDelete(t)].rid
         slots == cache[r[1]].slots
     IN /\ ChangePage(r[1], ApplyDelete(slots, r[2]))
        /\ Log(t, "APPLYDELETE", r, slots[r[2]].tuple, NoTuple)
  /\ write_set' = [write_set EXCEPT ![t] = SubSeq(@, 1, LastDelete(t) - 1)]
  /\ SetTxn(t, "committing")
  /\ UNCHANGED <<lock, phase, recoveryVars, committed>>

\* ... then the COMMIT record; a read-only transaction does not wait for it ...
IsReadOnly(t) == txn[t] = "active" /\ write_set[t] = <<>>
CommitLog(t) ==
  /\ txn[t] \in {"active", "committing"} /\ Deletes(t) = {}
  /\ Log(t, "COMMIT", NoRid, NoTuple, NoTuple)
  /\ SetTxn(t, IF IsReadOnly(t) THEN "ended" ELSE "flushing")
  /\ write_set' = [write_set EXCEPT ![t] = <<>>]
  /\ UNCHANGED <<pageVars, lock, phase, recoveryVars, committed>>

\* ... the flush, and then the locks.
CommitEnd(t) ==
  /\ txn[t] = "flushing"
  /\ Flush
  /\ ReleaseLocks(t)
  /\ SetTxn(t, "ended")
  /\ UNCHANGED <<pageVars, write_set, phase, recoveryVars>>

\* Abort logs the rollback of every record as operations of the transaction,
\* then an ABORT record, and flushes nothing.
AbortRecord(t) ==
  /\ MayAbort
  /\ txn[t] \in {"active", "aborting"} /\ write_set[t] # <<>>
  /\ LET wr == LastRecord(t)
         i == wr.rid[2]
         slots == cache[wr.rid[1]].slots
     IN \/ /\ wr.wtype = "INSERT"
           /\ ChangePage(wr.rid[1], ApplyDelete(slots, i))
           /\ Log(t, "APPLYDELETE", wr.rid, slots[i].tuple, NoTuple)
        \/ /\ wr.wtype = "DELETE"
           /\ ChangePage(wr.rid[1], RollbackDelete(slots, i))
           /\ Log(t, "ROLLBACKDELETE", wr.rid, NoTuple, NoTuple)
        \/ /\ wr.wtype = "UPDATE"
           /\ ChangePage(wr.rid[1], UpdateTuple(slots, i, wr.old))
           /\ Log(t, "UPDATE", wr.rid, slots[i].tuple, wr.old)
  /\ DropRecord(t)
  /\ SetTxn(t, "aborting")
  /\ UNCHANGED <<lock, phase, recoveryVars, committed>>

AbortEnd(t) ==
  /\ MayAbort
  /\ txn[t] \in {"active", "aborting"} /\ write_set[t] = <<>>
  /\ Log(t, "ABORT", NoRid, NoTuple, NoTuple)
  /\ ReleaseLocks(t)
  /\ SetTxn(t, "ended")
  /\ UNCHANGED <<pageVars, write_set, phase, recoveryVars, committed>>

-----------------------------------------------------------------------------
(***************************************************************************)
(* The background: a full log buffer, eviction, checkpoints.               *)
(***************************************************************************)
FlushLogBuffer ==
  /\ phase = "up" /\ log_buffer # <<>>
  /\ Flush
  /\ UNCHANGED <<pageVars, txnVars, phase, recoveryVars>>

WritePage(p) ==
  /\ disk' = [disk EXCEPT ![p] = cache[p]]
  /\ dirty' = dirty \ {p}
  /\ UNCHANGED cache

\* Faulty variant: the victim is written without a log flush.
EvictPageUnlogged(p) ==
  /\ phase = "up" /\ p \in dirty
  /\ WritePage(p)
  /\ UNCHANGED <<logVars, txnVars, phase, recoveryVars, committed>>

\* FetchPage and NewPage write their victim after a log flush.
EvictPage(p) ==
  /\ phase = "up" /\ p \in dirty
  /\ Flush
  /\ WritePage(p)
  /\ UNCHANGED <<txnVars, phase, recoveryVars>>

\* The checkpoint waits for the end of all transactions, writes the dirty
\* pages one by one and flushes the log after them.
BeginCheckpoint ==
  /\ phase = "up" /\ LiveTxns = {} /\ dirty # {}
  /\ phase' = "checkpoint"
  /\ UNCHANGED <<logVars, pageVars, txnVars, recoveryVars, committed>>

CheckpointPage(p) ==
  /\ phase = "checkpoint" /\ p \in dirty
  /\ WritePage(p)
  /\ UNCHANGED <<logVars, txnVars, phase, recoveryVars, committed>>

EndCheckpoint ==
  /\ phase = "checkpoint" /\ dirty = {}
  /\ Flush
  /\ phase' = "up"
  /\ UNCHANGED <<pageVars, txnVars, recoveryVars>>

-----------------------------------------------------------------------------
(***************************************************************************)
(* Crash and restart.                                                      *)
(***************************************************************************)
Crash ==
  /\ phase \in CrashPhases /\ crashes < MaxCrashes
  /\ crashes' = crashes + 1
  /\ phase' = "redo"
  /\ log_buffer' = <<>> /\ next_lsn' = 0
  /\ cache' = disk /\ dirty' = {}
  /\ txn' = [t \in Txn |-> "none"]
  /\ write_set' = [t \in Txn |-> <<>>]
  /\ lock' = [r \in Rid |-> NoTxn]
  /\ active_txn' = {}
  /\ UNCHANGED <<log_file, disk, committed>>

\* Redo applies a record to a page that has not seen it.
RedoEffect(slots, rec) ==
  LET i == rec.rid[2] IN
  CASE rec.type = "INSERT" -> InsertTuple(slots, rec.new)
    [] rec.type = "APPLYDELETE" -> ApplyDelete(slots, i)
    [] rec.type = "MARKDELETE" -> MarkDelete(slots, i)
    [] rec.type = "ROLLBACKDELETE" -> RollbackDelete(slots, i)
    [] rec.type = "UPDATE" -> UpdateTuple(slots, i, rec.new)

\* ApplyDelete of a free slot fails its assertion on the tuple offset, and
\* RollbackDelete of one panics.
RedoPanics(slots, rec) ==
  rec.type \in {"APPLYDELETE", "ROLLBACKDELETE"} /\ slots[rec.rid[2]].tuple = NoTuple
UndoPanics(slots, rec) ==
  rec.type \in {"INSERT", "MARKDELETE"} /\ slots[rec.rid[2]].tuple = NoTuple

\* Faulty variants: the LSN comparison is off by one, or left out.
SeenPrevious(page, rec) == page.lsn + 1 >= rec.lsn
NeverSeen(page, rec) == FALSE

Seen(page, rec) == page.lsn >= rec.lsn

HasRid(rec) == rec.rid # NoRid
OfPage(p, rec) == HasRid(rec) /\ rec.rid[1] = p

RedoRecord(st, rec) ==
  LET p == rec.rid[1]
      page == st.pages[p]
  IN IF ~HasRid(rec) \/ Seen(page, rec) THEN st
     ELSE [pages |-> [st.pages EXCEPT ![p] = [slots |-> RedoEffect(page.slots, rec), lsn |-> rec.lsn]],
           panic |-> st.panic \/ RedoPanics(page.slots, rec)]

Mentioned == {log_file[i].txn : i \in DOMAIN log_file}
HasCommit(t) == \E i \in DOMAIN log_file : log_file[i].txn = t /\ log_file[i].type = "COMMIT"

GreatestLSN == FoldLeft(LAMBDA m, rec : IF rec.lsn > m THEN rec.lsn ELSE m, 0, log_file)

Redo ==
  /\ phase = "redo"
  /\ LET st == FoldLeft(RedoRecord, [pages |-> disk, panic |-> FALSE], log_file)
     IN /\ cache' = st.pages
        /\ phase' = IF st.panic THEN "panic" ELSE "undo"
  /\ dirty' = {p \in Page : \E i \in DOMAIN log_file : OfPage(p, log_file[i])}
  /\ active_txn' = {t \in Mentioned : ~HasCommit(t)}
  /\ UNCHANGED <<logVars, disk, txnVars, crashes, committed>>

\* Undo walks the records of a transaction from its last to its first.
UndoEffect(slots, rec) ==
  LET i == rec.rid[2] IN
  CASE rec.type = "INSERT" -> ApplyDelete(slots, i)
    [] rec.type = "APPLYDELETE" -> InsertTuple(slots, rec.old)
    [] rec.type = "MARKDELETE" -> RollbackDelete(slots, i)
    [] rec.type = "ROLLBACKDELETE" -> MarkDelete(slots, i)
    [] rec.type = "UPDATE" -> UpdateTuple(slots, i, rec.old)

UndoRecord(t, st, rec) ==
  LET p == rec.rid[1] IN
  IF rec.txn # t \/ ~HasRid(rec) THEN st ELSE
  [pages |-> [st.pages EXCEPT ![p].slots = UndoEffect(@, rec)],
   panic |-> st.panic \/ UndoPanics(st.pages[p].slots, rec)]

Undo(t) ==
  /\ phase = "undo" /\ t \in active_txn
  /\ LET st == FoldRight(LAMBDA rec, s : UndoRecord(t, s, rec), log_file,
                         [pages |-> cache, panic |-> FALSE])
     IN /\ cache' = st.pages
        /\ phase' = IF st.panic THEN "panic" ELSE "undo"
  /\ active_txn' = active_txn \ {t}
  /\ UNCHANGED <<logVars, dirty, disk, txnVars, crashes, committed>>

\* GCLogFile empties the log file; SetNextLSN goes on after its greatest LSN.
GCLogFile ==
  /\ phase = "undo" /\ active_txn = {}
  /\ log_file' = <<>>
  /\ next_lsn' = GreatestLSN + 1
  /\ phase' = "flush"
  /\ UNCHANGED <<log_buffer, pageVars, txnVars, recoveryVars, committed>>

\* FlushAllPages, before the database accepts requests.
FlushAllPages ==
  /\ phase = "flush"
  /\ disk' = cache /\ dirty' = {}
  /\ phase' = "up"
  /\ UNCHANGED <<cache, logVars, txnVars, recoveryVars, committed>>

-----------------------------------------------------------------------------
\* A database that has been started before: its pages are on disk, its log is
\* empty.
Init ==
  /\ \E content \in [Rid -> {FreeSlot} \cup {Live(v) : v \in Value}] :
       disk = [p \in Page |-> [slots |-> [i \in SlotOf(p) |-> content[<<p, i>>]], lsn |-> 0]]
  /\ cache = disk /\ dirty = {} /\ committed = Contents(disk)
  /\ log_buffer = <<>> /\ log_file = <<>> /\ next_lsn = 1
  /\ txn = [t \in Txn |-> "none"]
  /\ write_set = [t \in Txn |-> <<>>]
  /\ lock = [r \in Rid |-> NoTxn]
  /\ phase = "up" /\ active_txn = {} /\ crashes = 0

Transact(t) ==
  \/ Begin(t)
  \/ \E p \in Page, v \in Value : DoInsert(t, p, v)
  \/ \E r \in Rid, v \in Value : DoUpdate(t, r, v)
  \/ \E r \in Rid : DoMarkDelete(t, r)
  \/ CommitRecord(t) \/ CommitLog(t) \/ CommitEnd(t)
  \/ AbortRecord(t) \/ AbortEnd(t)

Background ==
  \/ FlushLogBuffer \/ BeginCheckpoint \/ EndCheckpoint
  \/ \E p \in Page : EvictPage(p) \/ CheckpointPage(p)

Restart == Redo \/ GCLogFile \/ FlushAllPages \/ \E t \in Txn : Undo(t)

Next == Background \/ Crash \/ Restart \/ \E t \in Txn : Transact(t)

Spec == Init /\ [][Next]_vars

-----------------------------------------------------------------------------
TxnState == {"none", "active", "committing", "flushing", "aborting", "ended"}
Phase == {"up", "checkpoint", "redo", "undo", "flush", "panic"}

\* Cached pages, locks, transaction states and phases are well formed.
TypeOK ==
  /\ \A p \in Page : cache[p].slots \in [SlotOf(p) -> {FreeSlot} \cup [tuple : Value, deleted : BOOLEAN]]
  /\ next_lsn \in Nat /\ dirty \subseteq Page
  /\ txn \in [Txn -> TxnState] /\ lock \in [Rid -> Txn \cup {NoTxn}]
  /\ phase \in Phase /\ active_txn \subseteq Txn
  /\ committed \in [Rid -> Value \cup {NoTuple}]

\* Atomicity and durability: when Undo is done, every rid holds what the
\* transactions with a durable COMMIT made of it, whichever log records and
\* pages had reached the disk at the crash.
RecoveryDone == phase = "undo" /\ active_txn = {}
RecoveredStateIsCommitted == RecoveryDone => Contents(cache) = committed

\* The same for every crash at which the log covers the pages on disk and after
\* which Undo meets only transactions that have neither freed a slot (in Commit
\* or in Abort) nor finished their Abort.  The run recovery_abort shows what
\* happens otherwise.
Loser(t) == t \in Mentioned /\ ~HasCommit(t)
Finished(t) == \E i \in DOMAIN log_file :
                 log_file[i].txn = t /\ log_file[i].type \in {"APPLYDELETE", "ABORT"}
LogCoversDisk == \A p \in Page : disk[p].lsn <= GreatestLSN
CleanCrash == LogCoversDisk /\ \A t \in Txn : Loser(t) => ~Finished(t)
RecoveryIsExact == RecoveryDone /\ CleanCrash => Contents(cache) = committed

\* Write ahead, until the first crash: no page on disk has seen a record that
\* is still in the log buffer.
LogBeforePage ==
  phase \in {"up", "checkpoint"} /\ crashes = 0 => \A p \in Page, i \in DOMAIN log_buffer :
    OfPage(p, log_buffer[i]) => disk[p].lsn < log_buffer[i].lsn

\* The same outside checkpoints: evictions and checkpoints that have ended
\* leave no page on disk ahead of the log.
WriteAhead == phase = "up" => LogBeforePage

\* The database starts again after a clean crash: neither Redo nor Undo runs
\* into an assertion or a panic of a table page.
RestartNeverPanics == phase = "panic" => ~CleanCrash

=============================================================================
