# SamehadaDB2 in TLA+

SamehadaDB2 is a relational database in Go: SQL front end, executors, a table
heap over a buffer pool, strong strict two-phase locking, write-ahead logging
with restart recovery, and skip list, hash and B-tree indexes.  This directory
holds TLA+ models of its parts, the TLC configurations that check them, and
TLAPS proofs of the properties that hold for every instance.

Paths below are relative to the repository (`lib/...`).  `PROJECT.json` maps
every definition to the lines it models.

## The system and its hard parts

| component | state | operations | hard behaviour | what makes it correct |
|---|---|---|---|---|
| lock manager (`storage/access/lock_manager.go`, `transaction.go`) | shared and exclusive lock tables; lock sets in each Transaction | LockShared, LockExclusive, LockUpgrade, Unlock | two copies of "who holds what"; callers consult the sets, the manager the tables; no waiting, so a leaked lock aborts everybody for ever | exclusion, agreement of the copies, locks kept to the end, no orphans |
| transaction manager (`transaction_manager.go`) | write sets, transaction states | Begin, Commit, Abort | both work record by record, releasing the page latch in between; every failure there is a panic | serializability of reads and writes by row id; started work can be finished |
| table heap and pages (`table_heap.go`, `table_page.go`) | page chain, slot arrays, delete marks, free space | InsertTuple, UpdateTuple, MarkDelete, ApplyDelete, RollbackDelete, GetTuple | updates that move their tuple in two steps; slots reused; space others may take while an update can still be rolled back | the heap behaves like a store of committed tuples |
| request manager (`samehada/request_manager.go`, `samehada.go`) | request queue, execution counter, channel | AppendRequest, Run, StopTh, one goroutine per execution | wake-ups are dropped when the cap is reached; retries go to the head of the queue; channels of bounded capacity | no request lost, duplicated or forgotten |
| log manager (`recovery/log_manager.go`) | two buffers, next LSN | AppendLogRecord, Flush | the latch is released to flush a full buffer, and before the write; the space is not looked at again | what was appended before a Flush is in the file after it; every prefix of the log can be replayed |
| log recovery and start-up (`recovery/log_recovery/log_recovery.go`, `NewSamehadaDB`) | active_txn, lsn_mapping | Redo, Undo, GCLogFile, SetNextLSN, FlushAllPages | any subset of pages and any prefix of the log may have reached the disk | what was durably committed, and nothing else, is there after a restart |
| checkpoint manager (`concurrency/checkpoint_manager.go`) | global transaction latch | BeginCheckpoint, EndCheckpoint | order of page and log writes | no page ahead of the log |
| buffer pool and clock replacer (`storage/buffer`) | frames, page table, free list, pins | FetchPage, NewPage, UnpinPage, FlushPage, DeallocatePage | eviction under the mutex, page latches outside; reuse of page ids | a page is in one frame; a pinned page is never evicted; no lost write |
| disk managers (`storage/disk`) | db file, log file | ReadPage, WritePage, WriteLog, GCLogFile | partial writes, file growth | a page read is the page last written |
| skip list (`container/skip_list`, `storage/page/skip_list_page`) | nodes on pages, links per level | GetValue, Insert, Remove, iterator | latch coupling; a split or removal gives up its latch and validates by LSN; nodes thrown out of the buffer pool | an ordered map, linearizable but for scans; no call waits for ever |
| indexes (`storage/index`) | entries (key, row id) | InsertEntry, DeleteEntry, UpdateEntry, ScanKey | changed after the heap, outside locks and transactions | the index agrees with the heap but for uncommitted deletions, after rollbacks too |
| executors (`execution/executors`) | tmp pages, hash tables | Init and Next of each | rows changed since the index was read; colliding hashes; several tmp pages | a scan returns what its transaction may see; a plan returns its relation |
| parser, planner, optimizer (`parser`, `planner`) | none that is shared | rewriting, ranges, best scans and joins | conditions in any order; any plan may look the cheapest | every plan returns the answer of the query |
| values, tuples (`types`, `storage/tuple`) | - | comparison, arithmetic, encodings | NULL, infinities that are ordinary values, wrapping | an order; keys encode it |
| hash table, B-tree (`container/hash`, `storage/index/btree_index.go`) | buckets, a third-party tree | Insert, Remove, GetValue | tombstones | a multimap |
| catalog, statistics | tables, schemas, indexes, estimates | CreateTable, recovery of the catalog, Update | two CREATE TABLE at once; restart | tables have names and oids of their own and survive restarts |
| server | none | HTTP handlers | - | - |

Interactions.  A caller of `ExecuteSQL` queues a request and waits on a channel
of its own.  `Run` starts a goroutine per request, which begins a transaction,
runs the executors and commits or aborts; one that was aborted by concurrency
control is queued again.  The planner turns a SELECT into a plan with the help of
the statistics.  Executors call the table heap and then the indexes.  The heap
latches pages of the buffer pool, asks the lock manager, writes log records and
adds to the transaction's write set; the indexes know neither locks nor
transactions, Abort sets them back entry by entry.  The buffer pool flushes the
log before it writes a victim.  The checkpoint thread stops the transactions, writes the dirty pages
and flushes the log.  `NewSamehadaDB` runs Redo and Undo over the log.

The places where this is hard to test are listed, line by line, as "hazards" in
`PROJECT.json`.

## Modules

| module | what it models |
|---|---|
| `LockManager` | the lock tables and sets and the protocol by which pages call them |
| `TransactionManager` | transactions over one table heap, on top of `LockManager` (INSTANCE) |
| `SerializableStore` | abstract specification: a store of committed tuples with private overlays |
| `RequestManager` | callers, `Run`, the executing goroutines and `StopTh` |
| `Recovery` | logging, flushing, eviction, checkpoints, crash, Redo, Undo and the end of start-up |
| `BufferPool` | frames, page table, pins, clock replacer, page latches, reuse of page ids |
| `LogManager` | log buffer, flush buffer and log file between threads that append and flush |
| `SkipList` | the nodes of the skip list under concurrent calls, latch by latch |
| `OrderedMap` | abstract specification: the map a skip list promises to be |
| `IndexedTable` | the executors that change rows and the point scan, over `TransactionManager` and an index |
| `Values` | values: comparison, infinities, arithmetic, key encoding |
| `Executors` | the reading executors as operators on sequences of tuples, on top of `Values` |
| `Query` | rewriting, planning and execution of one query, on top of `Executors` |
| `...Proofs` | the theorems about a module |
| `MC...` | the instance TLC checks |

Definitions named as "faulty variant" are plausible bugs of the code next to
them.  No specification uses them; substituting one for the definition it
follows makes TLC report the property it belongs to, which shows that the
property depends on that code.

### LockManager

State: `shared_lock_table`, `exclusive_lock_table` (lock_manager.go) and
`shared_lock_set`, `exclusive_lock_set`, `txn_state` (transaction.go).  The
four operations of the manager are operators with their result as a parameter
(`granted`); the actions are the ways table pages and heap call them
(`LockForRead`, `LockForWrite`, `LockForInsert`: consult the own set, request or
upgrade, abort on refusal) and the release at the end.  The manager holds one
mutex in every operation, so each is one step.  `LockUpgrade` is modelled as
written: it looks at the number of holders, not at who they are.

### TransactionManager and SerializableStore

A step is what happens under one hold of a page latch.  An update that moves its
tuple is three steps (`UpdateTuple`, `MoveDelete`, `MoveInsert`); Commit and
Abort take one step per write record (two for the rollback of a moved tuple) and
a last one that releases the locks.  A page is its slot array with delete marks
and its `freeSpacePointer`, which every operation moves by the difference of the
tuples' sizes; `FreeSpaceRemaining` is the code's unsigned subtraction.  Where
bytes lie is left out, and with it the assertion of ApplyDelete that a tuple lies
behind the free space pointer (table_page.go:387).  `TableHeap.InsertTuple` walks the chain releasing latches, so the insert
may end up in any page that takes the tuple at the moment it is latched.  Log
records are left to `LogManager` and `Recovery`, index entries to `IndexedTable`.

`SerializableStore` knows only committed tuples, running transactions and what
each of them has written.  A read returns the transaction's own write or the
committed tuple; at the commit point every read can still be repeated; two
transactions never have writes on the same rid.  All of this is about rids that
are named: the store does not say which rids a scan will meet, and says nothing
of phantoms.  That is the level the repository documents (README.md:100-103:
locks are on tuples, "Avoidance of phantom problem is not implemented yet", "So,
current transaction isolation level is **"REPEATABLE READ"**").  In the refinement mapping `Work`
is what a transaction has done and not committed: its write set, with half a
move, forwards or backwards, counted as the deletion of the old place, and
nothing once it has reached its commit point.  A rid that such work touches
stands for the image before the first record that touches it (`FirstWrite`,
`BeforeImage`), any other for its slot's content.  The commit point is
the beginning of Commit, the abort point the step that sets ABORTED.

### RequestManager

A request is named by its caller, which waits for its answer.  `AppendRequest`
(under the mutex) and the send on `inCh` (`WakeUp`) are separate steps, like the
end of an execution and the sending of its result.  `Run` is four places in its
code: receiving, delivering a result, dispatching, stopped.  Channel sends wait
for room; the send to a caller waits for the caller to be in its receive.

### Recovery

State: log buffer and log file, page contents in the pool and on disk with their
LSNs, write sets, exclusive owners of rids, and the start-up phase.  `committed`
is a history variable: what the transactions with a durable COMMIT record made
of every rid.  A page operation changes the page and appends its record in one
step (both happen under the page latch).  Commit is its deletes one by one, the
COMMIT record, the flush, the release of the locks; Abort logs its rollback as
ordinary operations and an ABORT record and does not flush.  Eviction flushes
the log and writes one page; a checkpoint writes pages one by one and flushes
afterwards.  A crash loses buffer and cache.  Redo is one step over the whole
log, Undo one step per transaction, with the assertions and panics of the table
page leading to the phase "panic"; `GCLogFile` and `FlushAllPages` follow in the
order of `NewSamehadaDB`.

Tuples have one size here, so updates are in place, and the heap has a fixed set
of pages.

### BufferPool

State: `pageTable`, `pages` (the Page objects: id, pin count, dirty and
deallocated flags, contents), `freeList`, `reUsablePageList`, the replacer's
`cList` and `clockHand`, the disk manager's `nextPageID` and file, and what each
thread is doing.  Every operation under the pool's mutex is one step, but for
FetchPage of a page not in the pool and NewPage: they take a frame
(`TakeFrame`), then wait, with the mutex, for the latch of a dirty victim, then
write it out and install the page (`ReadPage`, `InstallNew`).  FlushPage looks
the frame up inside and writes outside the mutex.

Threads follow the latch protocol of the callers: writers (table heap, skip
list) unpin before they unlatch, readers unlatch first, and a page only one
thread knows is used without a latch.  Skip list nodes are emptied with
`SetIsDeallocated`, hash joins give their tmp pages back with DeallocatePage
without waiting, the last one while it is still pinned.

`clockHand` in the code is a pointer to a pointer, normally to the `next` field
of a node that has left the list.  The model keeps the frame it leads to.
Victim's loop never moves to the next node: a set reference bit is cleared and
the same frame taken, so the bits have no effect and are left out.

`Races` chooses what callers may do: "reuse" lets a hash join give back a page
that is still in the pool, "flush" lets an eviction overtake a FlushPage.  With
neither all properties hold; each breaks them (see findings).

### LogManager

A step is what happens between two releases of the log manager's latch.
`AppendLogRecord` first looks for room for a header, draws the LSN, looks for
room for the record; each look may lead to a Flush, after which it goes on
(`ContinueAppend`) without a second look.  When the others have filled the buffer
by then, the record gets the offset behind its end (`Overrun`); the slices that
the next AppendLogRecord or Flush takes are then out of bounds and the process
panics (`Panic`), so no further append or exchange of buffers happens.  `filled`
is a history variable that counts what the others append in that window.  `SwapBuffers` exchanges the buffers
under latch and `wlog_mutex`; `EndFlush` writes with the mutex only.  WriteLog
may fail: Flush ignores its result, and the records are gone (`lost`).  The
callers are table pages, which log under their page latch, Begin, Commit and
Abort, page allocation (records without an LSN), and evictions and checkpoints
that only flush.  A COMMIT of a transaction without writes, which is not
flushed, is left out.

### SkipList and OrderedMap

A node is its entries, its forward links, its level, its LSN (used as an update
counter) and the deallocated mark.  One step is the acquisition of one latch with
the work under it and the releases that follow.  `Advance`, `Descend` and
`StepBack` are FindNode, which notes the nodes before its position with their
LSNs (`corner`, `predOfPred`); `Insert` and `RemoveKey` either finish under the
latch of the node found or give it up; `Validate` takes the noted nodes from the
highest level down and ends in a split (`SplitNode`), a removal (`UnlinkNode`)
or a new search.  `ScanFirst` and `ScanNext` are the iterator.  The level of a
new node is any level (the code draws it at random).  The list starts loaded
with a few entries, with every choice of levels.

`OrderedMap` lets GetValue, Insert and Remove happen in one step between call and
return.  A scan returns, in order, all entries of its range that were there from
its call to its return and only such as were there at some moment in between.
The refinement takes the entries on the lowest level for the map.

`SpecUnderPressure` adds the buffer pool: nodes are written by checkpoints, and a
removed node that nobody has pinned is thrown out without being written, so that
whoever fetches it again gets the copy on disk.

Left out: where the bytes of an entry lie (room in a node is counted in entries;
that SetEntry uses up free space when it overwrites an entry,
skip_list_block_page.go:261 and 796, is not seen), the reuse of a removed node's page id
for a new node, and the start node's pins (skip_list.go takes one for every call
and gives it back for some of them only).

### IndexedTable

Extends `TransactionManager` with the set of index entries, the index call that
each transaction has still to make (`todo`), and its point scan.  An executor's
heap operation is one step (or the steps of a moving update), its index call the
next; in between all others run.  Abort rolls back a record in the heap and then
its index entry.  UpdateEntry is one step, since `updateMtx` keeps scans out
between its removal and its insertion.  The point scan takes the row ids from
the index, then reads row by row under locks and aborts when a row is not what
the index said.  A deleted row stays in its page, marked, until its transaction
commits; its entry is removed at once.

The repository documents what that does to isolation (README.md:104-106): "when
you use Indexes, isolation level is **"DIRTY READ"**", because of "lack of
consistency between table record and index entry at DELETE".
`IndexAgreesWithHeap` therefore excepts rows whose deletion is not committed, and
`ScanIsExact` rows that another transaction is changing when the index is looked
up; what a scan does return is never another's uncommitted work.

### Values, Executors, Query

`Values` has Integers of a small width and Varchars with NULL; the infinities are
ordinary values, as in the code.  `Executors` has one operator per executor: the
hash join with its tmp pages and hash collisions, the index join with its cache,
aggregation with any iteration order of the Go map, ordering with any result an
unstable sort may give.  `Query` is a small machine: rewrite the query, choose a
scan per table, choose a join, execute.  The costs depend on statistics of
any age, so every candidate plan may be taken; but for one case: a Selection
costs what its child costs and is listed after it, so the joins with a Selection
on top are never chosen.  EstimateCount exchanges the bounds of a contradictory
range in place; the plan has them exchanged.

Aggregation, ORDER BY and LIMIT have executors but no plan from SQL; the model
executes them the way an embedding program would.

## Runs

| run | configuration | shows |
|---|---|---|
| `lock_manager` | 3 transactions, 2 rids | exclusion, agreement of sets and tables, no orphan locks, strict two-phase locking |
| `transactions` | 2 transactions, 2 pages of 2 slots, tuples of size 1 and 2 | refinement of `SerializableStore` (reads and writes by rid) and of `LockManager`; Commit and Abort never panic; the unsigned free space never wraps |
| `request_manager` | 3 callers, 2 execution slots, capacity 9 | a request is in one place; executions are counted; no lost wake-up; sends do not block; every request is answered |
| `recovery` | 2 transactions, 1 page of 2 slots, 4 LSNs before the crash, deletes and aborts, crash also inside a checkpoint | after a clean crash Redo and Undo restore exactly the committed state without a panic; the log is ahead of the pages outside checkpoints |
| `recovery_abort` | aborts, 6 LSNs | violation, see findings |
| `buffer_pool` | 2 threads, 2 frames, 3 page ids, one page that changes, one frame leaked | frames and pins are accounted for; a wait under the mutex is short; the hand is on the list; a page in use can be read and keeps its contents |
| `buffer_pool_reuse` | 3 frames, `Races` = {"reuse"} | violation, see findings |
| `log_manager` | 2 threads, 2 pages, a buffer of 5 bytes, records of 2 and 3, 4 records, one write that fails | the buffer is overrun in one way only; the log can be replayed; a Flush that returns has made durable what was appended before it |
| `skip_list` | 2 threads, 2 levels, 3 entries per node, 5 keys, 3 calls | levels are ordered chains of the live nodes; validation lets only linked nodes through; refinement of `OrderedMap`; every call returns |
| `skip_list_pressure` | the same with 4 keys and the buffer pool | violation, see findings |
| `query` | 16,534 queries: selections and joins over two tables of 6 and 4 rows, aggregations and top queries over up to 3 rows, each with every plan | but for open Varchar ranges no row of the answer is lost, and the result is exact where ranges say all; aggregation, but for the group read last, and LIMIT against their definitions |
| `indexed_table` | 2 transactions, 2 pages of one slot, 3 tuple values with 2 keys | the index agrees with the heap but for rows half-way through a change and uncommitted deletions; a point scan that succeeds is exact |

### Bounds and why they are enough

- Locks: an operation involves the requester and the other holders.  With three
  transactions a rid can have two other holders while a third upgrades; rids are
  independent but for the release at the end, which two rids exercise.
- Heap: a conflict needs two transactions.  A page holds two small tuples or one
  big one, so every branch of UpdateTuple occurs: growing in place, moving
  because of space, moving because of shrinking, and the rollback of each after
  another transaction took the slot next to it.  `MaxWrites`, `MaxReads` bound
  the live write records and remembered reads; they are guards of operations
  that start, never of ones that have started, and `HeapRoom` keeps a page for
  every update under way, so that no step is disabled by a bound half-way.
- Requests: three callers and two slots give a full cap with a request waiting.
  `ChanCap` is 9, which TLC finds to be enough for three callers.  The theorem
  asks for two per caller, the cap and two more (10 here); by it the code's 100
  with a cap of 24 is enough for 37 callers, and beyond that nothing prevents a
  full channel.
- Recovery: Redo and Undo of a record look at one page only, so one page
  suffices; two slots make the first free slot differ from the slot a record
  names.  Four LSNs are enough for a transaction with two operations and a
  commit, or two that meet on the page's LSN; the records of Commit and Abort
  are not bounded.  The aborted-transaction counterexample needs six.  The pages
  initially hold any tuples.

- Buffer pool: two frames and three pages force evictions while the other thread
  holds a page or its latch; a frame leaked by a hash join (`MaxLost` = 1) leaves
  the pool with one frame.  Only the pages in `Changing` are rewritten or
  emptied; the other two act as what is evicted and read around them.  The reuse
  counterexample needs a third frame: the stale one, the new page's, and one for
  the page that is fetched.
- Log manager: one small and one large record fill the buffer, so both looks
  at the space lead to a Flush while the other thread has drawn an LSN.
  The overrun occurs: while one thread writes its full buffer, the other puts a
  record into the new one, and the first record no longer fits.  In the code that
  takes 528,384 bytes of other threads' records in the window, less the record.
- Skip list: the list starts with a full node and a node of one entry on one or
  two levels, so the first call of each thread can split or remove.  Two levels
  make the notes of a level differ from the lowest one's; three calls let one
  thread change the list twice while the other is between its search and its
  validation.  A removal that meets its node above the lowest level, and steps
  back from it, occurs.
- Queries: every sequence of up to three conditions on one key column, constants
  on either side and at the edge of the Integer range, in every order; pairs on
  two columns; up to three conditions on a Varchar column, with a row on either
  side of the strings that stand for its infinities; joins with no, one and two
  equalities.  A tmp page holds two tuples
  and the hash has two values, so pages fill up and hashes collide.
- Indexed table: one slot per page makes a growing update move its row to the
  other page and a freed slot be reused by the other transaction; two values with
  the same key and different sizes let a row move without a change of its key.

`CHECK_DEADLOCK` is off for the request manager, which answers nobody after
StopTh; for recovery, where the bounded log and number of crashes end the
behaviour; for the buffer pool, whose page ids run out (that nobody waits for
ever inside the pool is the invariant `NobodyWaitsInside`); for the skip list,
whose calls are bounded (`EveryCallReturns` covers a wait); and for queries,
which end with their result.

### Fairness

`RequestManager` assumes weak fairness of
`Run`, of each execution, of a caller that has appended a request and of StopTh
once called: a goroutine that can go on is eventually scheduled by the Go
runtime.  Nothing makes callers send requests.  `EveryRequestAnswered` excepts a
stopped manager and executions that concurrency control aborts for ever, since
aborted requests go back to the head of the queue.

`SkipList` assumes weak fairness of the steps of each thread that is in a call
(`Step(t)`; nothing makes a thread call): a goroutine is scheduled, and a writer
that waits for a Go RWMutex gets it once the holders are gone.  With it
`EveryCallReturns` holds for a bounded number of calls, after which nobody
invalidates a validation any more.

## Proofs

All proofs are for arbitrary constants under the named assumptions of the
modules.

- `LockManagerProofs`: `TypeCorrect` (the part of the invariant that is about types), `ExclusionHolds`, `BookkeepingHolds`,
  `NoOrphanLocksHolds`, `StrictTwoPhaseHolds`.  Exclusion alone is not
  inductive: LockUpgrade counts the holders, and that the one holder is the
  requester follows only from the agreement of the requester's lock set with the
  table.  The inductive invariant is the conjunction of type correctness,
  exclusion, agreement, and the absence of locks without a live transaction.
  The action property follows from it, because what a step releases is what the
  objects of ending transactions record.
- `SerializableStoreProofs`: `StoreIsSerializable`: in the abstract store reads
  of rids are repeatable at the commit point and writes are exclusive.
- `TransactionManagerProofs`: `TypeCorrect`, `SpaceStaysNonNegative`,
  `CommitAndAbortCanFinish`, `LockProtocolFollowed`, `HeapImplementsStore`,
  `TransactionsAreSerializable`.  The inductive invariant is made of the types
  of pages and write sets, the lock manager's own invariant,
  `SpaceNeverNegative`, and one formula per transaction (`TxnInv`): its state fits
  its operation; it has the exclusive lock on every rid of its write records and of
  a move under way; its work is chained, that is, what a record left at a rid is
  what the next record on it found, or what the slot holds now; the tuple a move
  is about is still there; what a committing transaction has to free is marked;
  what it has read it has locked.  An operation of one transaction leaves the
  others' formulas alone, because it changes only slots on which it has the
  exclusive lock.  The rollback of an update in place always has room because such
  updates never shrink a tuple (`InPlace`): it gives space back.  The refinement goes action by action: a step
  of an operation is a read or write of the store or a stutter, the first step of
  Commit and of Abort is the store's commit or abort, and the record by record work
  after it is a stutter, since the records that remain still hide it.
  `TransactionsAreSerializable` is the abstract store's theorem through this
  refinement.
- `IndexedTableProofs`: `TableTypeCorrect`, `IndexAgrees`, `ScansAreExact`,
  `TableRunsTransactions`, `TableImplementsStore`.  The invariant (`TInv`) adds to
  that of `TransactionManagerProofs`: a row that nobody is in the middle of changing
  has the entry of its tuple, or none (`RestIndexed`); a row somebody is in the
  middle of changing is locked by that transaction alone, and will have the right
  entry once its next call of the index is done (`RowsIndexed`).  Neither half is
  inductive without the other.  The entry that is "right" half-way through a move,
  or through the rollback of one, is still that of the tuple that has left the heap
  (`Indexed`).  For the scan: what a transaction was shown is still there
  (`SeenIsCurrent`, from the locks that reads take), and the rows expected of a scan
  are found or still to be fetched (`ScanInv`).  That an executor removes the entry
  of the tuple its child returned, and not of the one it finds in the heap, is
  harmless because the two are the same (`ChildIsCurrent`).  Every step is then one
  of three kinds (`PlainTableStep`, `QuietTableStep`, `CallTableStep`), and what
  others see of it is shown once (`OthersKeepTable`).  `TableRunsTransactions` makes
  the theorems of `TransactionManagerProofs` hold of the table.
  `TableImplementsStore` puts the two halves together: reads and writes by row id
  are the store's, and the row ids a point scan works through are complete up to
  rows that others are changing, and never stale.  It says nothing of rows that a
  scan misses: phantoms, and the uncommitted deletions of others.
- `RequestManagerProofs`: `TypeCorrect`, `AllRequestsAccounted`,
  `SendersNeverBlock` (with the capacity named above as its hypothesis) and
  `NoWakeUpIsLost`.  The parts of the invariant rest on one another: the counter
  is a natural number, and a request that is started is not executed already,
  because every request is in one place; an idle caller has no result left in
  `inCh` for the same reason, which the bound on the channel's length needs.  The
  lemmas count what is in the channel and the queue before and after a send or
  receive.
- `LogManagerProofs`: `LogManagerTypeCorrect` (types, and one writer of the flush
  buffer), `LogIsReplayable` (`ReplayInv`: one thread per page, a drawn LSN is newer
  than the page's, the last record of every transaction is in the log), and the action
  properties `FlushIsDurable` (`BeforeKept`: what a flush found is still in the log,
  and after the exchange of buffers in the file or the flush buffer) and
  `OnlyOthersOverrun`.  The last, for any number of records, needs `FilledByOthers`:
  for a thread that will write unchecked the offset is at most what the others have
  appended since its exchange of buffers; another thread's exchange only lowers the
  offset, and every other write has found its space under the same hold of the latch.
- `RecoveryProofs`: `WriteAheadHolds`, `RecoveryTypeCorrect`, `RestartsAreExact`,
  `RestartsNeverPanic`, `RecoveryExact`.  The invariant of the first adds that every
  LSN on a page or in the buffer was drawn before `next_lsn`.  For the second, Redo
  and Undo are shown to be the last of a sequence of states, one per record
  (`RedoSteps`, `UndoSteps`).  `RecoveryIsExact` and `RestartNeverPanics` are proved
  for every part of a behaviour in which GCLogFile has not emptied the log, with any
  number of crashes, in Redo and Undo too (`RestartsAreExact`, `RestartsNeverPanic`),
  and for whole behaviours with at most one crash (`RecoveryExact`, the case
  `MaxCrashes <= 1`, which is that of the run).  Nothing more can hold: a crash after
  GCLogFile and before FlushAllPages finds pages without the log that mends them (with
  `MaxCrashes = 2` and "flush" in `CrashPhases` TLC finds `RecoveryIsExact` violated).
  The argument: before the crash there is a history of the pages, one entry per
  record, that the log describes (`Describes`): each entry is the one before it with
  the record redone, the cache is the last entry, and a page on disk is what it was at
  its LSN (`HistInv`).  Every rid has a place in the log (`Settled`): before it only
  records of transactions that have committed, after it only those of the rid's one
  owner; a flush moves the places of the rids whose owner's COMMIT it writes
  (`FlushHist`).  What Commit and Abort will log can be redone because the rids of a
  write set are owned and as its records left them (`RecordsOK`).  From this Redo of a
  prefix of that log, over pages of any age, gives the prefix's last entry
  (`RedoIsExact`), and Undo of a transaction brings its rids back to their places
  (`UndoIsExact`), in whichever order the transactions are taken.
- `BufferPoolProofs`: `TypeCorrect`, `PoolIsConsistent`, `WaitsInsideAreShort`,
  `LivePagesCanBeRead` under the assumption that "reuse" is not in `Races`, and
  `ContentsKept` if "flush" is not either; with either race TLC finds the
  properties broken (see findings), so the assumptions are needed.  What
  `PoolConsistent` says of frames and pins is not inductive: an eviction must know
  that the page in its frame is the one the page table has under that id.  The
  invariant therefore says where a Page without an entry can be (`StaleIsPinned`:
  only in a frame that is pinned, so no eviction meets one), that ids to be given
  out again are used nowhere (`IdsOK`), and that a page in use which is clean, and
  which nobody will unpin as dirty, is on disk (`DiskOK`).

Minima of sets of numbers (the first free slot, the first record that touches a
rid) come from the library's theorem that finite sets are well-founded under
inclusion, or numbers under < (`LeastNat`), which needs no operator parameter.  The
folds of the community modules are recursive functions over sets of positions: that
such a function exists (`FoldExists`), and what holds along it, is shown with a least
counterexample.

Checked only by TLC: liveness (out of the prover's reach); the skip list and its
refinement of `OrderedMap`; `Query` and `Executors`, which are recursive over plans
and data.

## Findings

- `recovery_abort`: Redo removes only committed transactions from `active_txn`.
  An aborted one, whose rollback is in the log, is undone again: its rollback
  first, then its operations.  What another transaction committed to the tuple
  after the ABORT is overwritten.
- `buffer_pool_reuse`: DeallocatePage without waiting deletes the page table entry
  and makes the id reusable, but the old Page stays in its frame.  Once the id has
  been given to a new page, evicting the old frame writes the old contents to that
  id's place in the file and deletes the new page's entry; its holder's UnpinPage
  panics.

- `skip_list_pressure`: a removed node is marked as deallocated and thrown out of
  the buffer pool unwritten.  A thread that noted the node before fetches the copy
  an earlier checkpoint wrote, with the LSN it noted; its validation passes, and
  its split links a node behind one that is no longer in the list: the new node,
  and the entries moved to it, cannot be reached.

Further disagreements, met while modelling and without a run of their own:

- Checkpoints: BeginCheckpoint writes the pages before the log.  The page changes
  of an Abort, which does not flush, get to disk before their records
  (checkpoint_manager.go:49).  `WriteAhead` excepts checkpoints under way.
- Restart: the log is emptied before the recovered pages are written
  (samehada.go:144), and LSNs continue after the greatest one in the file, from 1
  after a crash with an empty log (samehada.go:145), below the LSNs on the pages.
  The `recovery` run has one crash and ends when the start-up has finished.
- Log: LSNs can get into the log out of order (log_manager.go:120), so
  `persistent_lsn` may exceed an LSN that is not on disk, against the comment at
  log_manager.go:24.  Only tests read it.  Flush ignores an error of WriteLog
  (log_manager.go:75): a COMMIT is answered whose record is lost.
- Buffer pool: with `Races` = {"flush"} `PagesKeepContents` fails: the catalog's
  FlushPage of a page it has not pinned may find the buffer cleared by an eviction
  and write zeros.  A hash join never unpins its last tmp page
  (`DropLastTmpPage`): every join costs the pool one frame for ever.
- Log buffer: AppendLogRecord looks at the space once; after its second Flush, which
  gives up the latch, it writes without looking again (log_manager.go:120-125).
  `OverrunNeedsOthers` says exactly when that overruns the buffer.
- Index: delete_executor.go:62 says "removing index entry is done at commit phase
  because delete operation uses marking technique", but it is removed at once, as
  README.md:106 admits; a point scan of another transaction misses a row whose delete
  or key change is not committed, and may be rolled back, without aborting.
  `ScanIsExact` therefore excepts rows that others are changing, and
  `IndexAgreesWithHeap` rows whose deletion is not committed; without the exception
  TLC finds it violated by one delete.
- Ranges: `x <> 10 AND x >= 5 AND x <= 20` returns 10, `x >= 5 AND x = 10` scans
  5..10 and a later `>=` replaces a greater lower bound: the Selection that would
  filter is left out when both ends are inclusive.  `ExactForRanges` is stated for
  queries whose range says all that the conditions say.
- Joins: an index join reads the right table without the conditions pushed down
  to it (selinger_optimizer.go:359); with two or more equalities the plan is a
  bare cross product.  `ExactForRanges` excepts both.
- Aggregation: Next skips the groups that fail HAVING, but not the one it reads last
  (aggregation_executor.go:237), which is returned even if it fails.  executor_test.go:1873
  asserts of every row returned "Should have countA > 100", and README.md:98 lists
  "Group by and Having".  `AggregationExact` asks that every row returned pass
  HAVING only where the group read last does; without that exception TLC finds it
  violated by one row.  MIN and MAX of a group of NULLs are the extremes of the type.
- Scans of Varchar columns with one open end use the strings
  "SamehadaDBInfMinValue" and "SamehadaDBInfMaxValue" as bounds
  (selinger_optimizer.go:51), so rows outside them are missed: `q <= 'z'` does not
  return the row 'A'.  `NoRowLost` and `ExactForRanges` except plans with such a scan
  (`ScansOpenVarcharRange`); the run has them, and without the exception both are
  violated.
- Tmp pages: TmpTuplePage.Insert subtracts unsigned numbers
  (tmp_tuple_page.go:49-54).  For a tuple whose size plus 4, n, has n > 20 and
  4096 mod n >= 20 the free space wraps around when the page is full, the tuple is
  taken to fit, and the hash join panics.  `TmpPageAssumption` excludes such sizes:
  what `NoRowLost` says of hash joins is for the others.

`RecoveryIsExact` and `RestartNeverPanics` are therefore stated for clean
crashes: the log covers the pages on disk, and no transaction to be undone has
freed a slot or written its ABORT.  A crash inside Commit after an APPLYDELETE is
not clean: Undo re-inserts the tuple into the first free slot, which need not be
its own.

## Not modelled

- Catalog (CreateTable is a race of its own, see hazards), the server and demo
  (I/O), the parser, the linear probe hash table (one latch around every
  operation; no SQL table has one), the third-party B-tree, the unique skip list
  index.
- `BufferPool`: a thread with several pages pinned, IncPinOfPage and DecPinOfPage,
  I/O errors, log records.
- `Recovery`: new, deallocated and reused pages, graceful shutdown, evictions and
  crashes inside Redo and Undo other than between their steps, tuples of different
  sizes.
- `SkipList`: see above; the retry and panic of a page fetch that fails.
- `IndexedTable`: several indexes on a table, ScanKey node by node (its iterator is
  in `SkipList`), range scans under concurrency.
- `Query`: three and more tables, IS NULL (the optimizer drops such conditions), OR
  with JOIN (panics), INSERT, UPDATE and DELETE plans, Float and Boolean values,
  the order of result columns, hash joins of tuples whose sizes are outside of
  `TmpPageAssumption` (see findings).

## Plan

What is left to prove is `ListWellFormed` of `SkipList`, one level at a time, from what
a validated thread knows of its noted nodes.
