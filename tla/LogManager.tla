----------------------------- MODULE LogManager -----------------------------
(***************************************************************************)
(* The log manager (log_manager.go): the log buffer, the flush buffer and  *)
(* the log file, between the threads that append records and flush.        *)
(*                                                                         *)
(* AppendLogRecord works under a latch, but gives it up to flush a full    *)
(* buffer: before it has drawn the LSN, or between that and the writing of *)
(* the record.  Flush exchanges the buffers under the latch and writes     *)
(* without it, under a mutex of its own.  What lies between two releases   *)
(* of the latch is one step.                                               *)
(*                                                                         *)
(* A record is its LSN, its transaction with the LSN before, its page and  *)
(* its size; Recovery models what the records say.                         *)
(***************************************************************************)
EXTENDS Integers, Sequences, FiniteSets, SequencesExt, Functions

CONSTANTS Threads, Pages, NoPage, Nobody,
          LogBufferSize,
          HEADER_SIZE,     \* BEGIN, COMMIT and ABORT are just a header
          BodySize,        \* of every other record, with its header
          MaxRecords       \* bound: records appended

InvalidLSN == -1

ASSUME LogManagerAssumption ==
  /\ LogBufferSize \in Nat /\ HEADER_SIZE \in Nat \ {0} /\ MaxRecords \in Nat
  /\ BodySize \in Nat /\ HEADER_SIZE < BodySize /\ BodySize <= LogBufferSize
  /\ NoPage \notin Pages /\ Nobody \notin Threads

VARIABLES
  log_buffer,      \* records in the log buffer
  flush_buffer,    \* records that a flush is writing
  wlog_mutex,      \* the thread that flushes, or Nobody
  next_lsn, log_buffer_lsn, persistent_lsn,
  disk,            \* records in the log file
  page_lsn,        \* Pages -> LSN
  prev_lsn,        \* Threads -> prev_lsn of its transaction
  th,              \* Threads -> where the thread is
  records,         \* number of records appended
  lost,            \* history: records of writes that failed
  filled           \* history: Threads -> bytes the others appended since the
                   \* flush after which the thread writes unchecked

vars == <<log_buffer, flush_buffer, wlog_mutex, next_lsn, log_buffer_lsn,
          persistent_lsn, disk, page_lsn, prev_lsn, th, records, lost, filled>>
lsns == <<next_lsn, log_buffer_lsn, persistent_lsn>>

Idle == [pc |-> "idle"]
LogRecordType == {"PAGE", "BEGIN_OR_ABORT", "COMMIT", "DEALLOCATE_OR_REUSE"}

-----------------------------------------------------------------------------
(***************************************************************************)
(* The callers.                                                            *)
(***************************************************************************)
Size(type) == IF type \in {"BEGIN_OR_ABORT", "COMMIT"} THEN HEADER_SIZE ELSE BodySize

\* The records of page allocation belong to no transaction.
NewLogRecord(t, type, page) ==
  [type |-> type, page |-> page, by |-> t, size |-> Size(type), lsn |-> 0,
   prev |-> IF type = "DEALLOCATE_OR_REUSE" THEN InvalidLSN ELSE prev_lsn[t]]

InUse(page) == \E t \in Threads : th[t].pc # "idle" /\ th[t].rec.page = page

Goto(t, s) == th' = [th EXCEPT ![t] = s]

\* Faulty variant: the page is changed and logged without its latch.
LogPageChangeUnlatched(t, page) ==
  /\ th[t].pc = "idle" /\ records < MaxRecords
  /\ Goto(t, [pc |-> "append", rec |-> NewLogRecord(t, "PAGE", page)])
  /\ records' = records + 1
  /\ UNCHANGED <<log_buffer, flush_buffer, wlog_mutex, lsns, disk, page_lsn, prev_lsn, lost, filled>>

\* A table page is changed and logged under its latch.
LogPageChange(t, page) ==
  /\ th[t].pc = "idle" /\ records < MaxRecords
  /\ ~InUse(page)
  /\ Goto(t, [pc |-> "append", rec |-> NewLogRecord(t, "PAGE", page)])
  /\ records' = records + 1
  /\ UNCHANGED <<log_buffer, flush_buffer, wlog_mutex, lsns, disk, page_lsn, prev_lsn, lost, filled>>

\* Begin, Commit and Abort of a transaction (a COMMIT without writes, which is
\* not flushed, is left out), and the page allocation of the buffer pool.
LogOther(t, type) ==
  /\ th[t].pc = "idle" /\ records < MaxRecords
  /\ Goto(t, [pc |-> "append", rec |-> NewLogRecord(t, type, NoPage)])
  /\ records' = records + 1
  /\ UNCHANGED <<log_buffer, flush_buffer, wlog_mutex, lsns, disk, page_lsn, prev_lsn, lost, filled>>

\* The log in the order in which Redo would read it.
Log == disk \o flush_buffer \o log_buffer

\* Eviction of a dirty page and checkpoints only flush.
CallFlush(t) ==
  /\ th[t].pc = "idle"
  /\ Goto(t, [pc |-> "flush", rec |-> NewLogRecord(t, "COMMIT", NoPage), back |-> "done",
              before |-> ToSet(Log)])
  /\ UNCHANGED <<log_buffer, flush_buffer, wlog_mutex, lsns, disk, page_lsn, prev_lsn, records, lost, filled>>

-----------------------------------------------------------------------------
(***************************************************************************)
(* AppendLogRecord.                                                        *)
(***************************************************************************)
offset == FoldLeft(LAMBDA n, r : n + r.size, 0, log_buffer)

\* Faulty variant: one byte too few is found to be enough.
TooSmallByOne(need) == LogBufferSize - offset < need - 1

TooSmall(need) == LogBufferSize - offset < need

\* The offset is behind the end of the buffer: the unsigned difference wraps
\* around, and the slice that the next append or flush takes of it panics.
Overrun == offset > LogBufferSize

\* The buffers of the flush that made room for the thread's record have been
\* exchanged; when it has the latch back it does not look at the space again.
WritesUnchecked(s) == s.pc = "write" \/ (s.pc = "writing" /\ s.back = "write")

\* Deallocation and reuse of pages have no LSN.
DrawLSN(r) ==
  [r EXCEPT !.lsn = IF r.type = "DEALLOCATE_OR_REUSE" THEN InvalidLSN ELSE next_lsn]

FlushFirst(t, r, back) ==
  /\ Goto(t, [pc |-> "flush", rec |-> r, back |-> back, before |-> ToSet(Log)])
  /\ UNCHANGED <<log_buffer, log_buffer_lsn, page_lsn, prev_lsn, filled>>

\* The record is written; the caller notes its LSN, a Commit that wrote
\* something and the buffer pool flush.
WriteRecord(t, r) ==
  /\ log_buffer' = Append(log_buffer, r)
  /\ log_buffer_lsn' = IF r.lsn = InvalidLSN THEN log_buffer_lsn ELSE r.lsn
  /\ page_lsn' = IF r.page = NoPage THEN page_lsn ELSE [page_lsn EXCEPT ![r.page] = r.lsn]
  /\ prev_lsn' = CASE r.type = "DEALLOCATE_OR_REUSE" -> prev_lsn
                   [] r.type = "COMMIT" -> [prev_lsn EXCEPT ![t] = InvalidLSN]
                   [] OTHER -> [prev_lsn EXCEPT ![t] = r.lsn]
  /\ filled' = [u \in Threads |->
                  IF u # t /\ WritesUnchecked(th[u]) THEN filled[u] + r.size ELSE 0]
  /\ Goto(t, IF r.type \in {"COMMIT", "DEALLOCATE_OR_REUSE"}
             THEN [pc |-> "flush", rec |-> [r EXCEPT !.page = NoPage], back |-> "done",
                   before |-> ToSet(Log) \cup {r}]
             ELSE Idle)

Assign(t) ==
  LET r == DrawLSN(th[t].rec) IN
  /\ next_lsn' = IF r.lsn = InvalidLSN THEN next_lsn ELSE next_lsn + 1
  /\ IF TooSmall(r.size) THEN FlushFirst(t, r, "write") ELSE WriteRecord(t, r)

AppendLogRecord(t) ==
  /\ th[t].pc = "append" /\ ~Overrun
  /\ \/ /\ TooSmall(HEADER_SIZE)
        /\ FlushFirst(t, th[t].rec, "assign")
        /\ UNCHANGED next_lsn
     \/ /\ ~TooSmall(HEADER_SIZE)
        /\ Assign(t)
  /\ UNCHANGED <<flush_buffer, wlog_mutex, persistent_lsn, disk, records, lost>>

\* The latch is back after a flush.
ContinueAppend(t) ==
  /\ ~Overrun
  /\ \/ th[t].pc = "assign" /\ Assign(t)
     \/ th[t].pc = "write" /\ WriteRecord(t, th[t].rec) /\ UNCHANGED next_lsn
  /\ UNCHANGED <<flush_buffer, wlog_mutex, persistent_lsn, disk, records, lost>>

-----------------------------------------------------------------------------
(***************************************************************************)
(* Flush.                                                                  *)
(***************************************************************************)
Return(t) ==
  Goto(t, IF th[t].back = "done" THEN Idle ELSE [pc |-> th[t].back, rec |-> th[t].rec])

\* Faulty variant: Flush does not take its mutex.
SwapBuffersNoMutex(t) ==
  /\ th[t].pc = "flush" /\ ~Overrun
  /\ wlog_mutex' = t
  /\ flush_buffer' = log_buffer
  /\ log_buffer' = << >>
  /\ Goto(t, [pc |-> "writing", rec |-> th[t].rec, back |-> th[t].back,
              before |-> th[t].before, lsn |-> log_buffer_lsn])
  /\ UNCHANGED <<lsns, disk, page_lsn, prev_lsn, records, lost, filled>>

\* Faulty variant: a flush that is running is taken for this one.
SwapBuffersUnlessRunning(t) ==
  /\ th[t].pc = "flush" /\ ~Overrun
  /\ \/ /\ wlog_mutex = Nobody
        /\ wlog_mutex' = t
        /\ flush_buffer' = log_buffer
        /\ log_buffer' = << >>
        /\ Goto(t, [pc |-> "writing", rec |-> th[t].rec, back |-> th[t].back,
                    before |-> th[t].before, lsn |-> log_buffer_lsn])
     \/ /\ wlog_mutex # Nobody
        /\ Return(t)
        /\ UNCHANGED <<wlog_mutex, flush_buffer, log_buffer>>
  /\ UNCHANGED <<lsns, disk, page_lsn, prev_lsn, records, lost, filled>>

SwapBuffers(t) ==
  /\ th[t].pc = "flush" /\ wlog_mutex = Nobody /\ ~Overrun
  /\ wlog_mutex' = t
  /\ flush_buffer' = log_buffer
  /\ log_buffer' = << >>
  /\ Goto(t, [pc |-> "writing", rec |-> th[t].rec, back |-> th[t].back,
              before |-> th[t].before, lsn |-> log_buffer_lsn])
  /\ UNCHANGED <<lsns, disk, page_lsn, prev_lsn, records, lost, filled>>

\* DiskManager.WriteLog returns when the file is synced, or (once, to bound the
\* model) with an error that Flush does not look at.
WriteLog ==
  \/ /\ disk' = disk \o flush_buffer
     /\ UNCHANGED lost
  \/ /\ flush_buffer # << >> /\ lost = {}
     /\ lost' = lost \cup ToSet(flush_buffer)
     /\ UNCHANGED disk

EndFlush(t) ==
  /\ th[t].pc = "writing"
  /\ WriteLog
  /\ persistent_lsn' = th[t].lsn
  /\ wlog_mutex' = Nobody /\ flush_buffer' = << >>
  /\ Return(t)
  /\ UNCHANGED <<log_buffer, next_lsn, log_buffer_lsn, page_lsn, prev_lsn, records, filled>>

\* The process stops where the thread would read or write behind the buffer.
Panic(t) ==
  /\ Overrun
  /\ \/ th[t].pc \in {"append", "assign", "write"}
     \/ th[t].pc = "flush" /\ wlog_mutex = Nobody
  /\ UNCHANGED vars

-----------------------------------------------------------------------------
\* After NewSamehadaDB: the log file is empty, LSNs go on from SetNextLSN.
Init ==
  /\ log_buffer = << >> /\ flush_buffer = << >> /\ disk = << >>
  /\ wlog_mutex = Nobody
  /\ next_lsn = 1 /\ log_buffer_lsn = 0 /\ persistent_lsn = InvalidLSN
  /\ page_lsn = [p \in Pages |-> 0]
  /\ prev_lsn = [t \in Threads |-> InvalidLSN]
  /\ th = [t \in Threads |-> Idle]
  /\ records = 0
  /\ lost = {}
  /\ filled = [t \in Threads |-> 0]

Next == \E t \in Threads :
  \/ \E p \in Pages : LogPageChange(t, p)
  \/ \E type \in LogRecordType \ {"PAGE"} : LogOther(t, type)
  \/ CallFlush(t)
  \/ AppendLogRecord(t) \/ ContinueAppend(t)
  \/ SwapBuffers(t) \/ EndFlush(t)
  \/ Panic(t)

Spec == Init /\ [][Next]_vars

-----------------------------------------------------------------------------
(***************************************************************************)
(* Properties.                                                             *)
(***************************************************************************)
Record == [type : LogRecordType, page : Pages \cup {NoPage}, by : Threads,
           size : {HEADER_SIZE, BodySize}, lsn : Nat \cup {InvalidLSN},
           prev : Nat \cup {InvalidLSN}]

\* Types, and the flush buffer has one writer: exactly the thread between the
\* exchange of buffers and the end of WriteLog has the mutex.
TypeOK ==
  /\ {log_buffer, flush_buffer, disk} \subseteq Seq(Record)
  /\ next_lsn \in Nat /\ log_buffer_lsn \in Nat /\ persistent_lsn \in Nat \cup {InvalidLSN}
  /\ page_lsn \in [Pages -> Nat] /\ prev_lsn \in [Threads -> Nat \cup {InvalidLSN}]
  /\ \A t \in Threads :
       /\ th[t].pc \in {"idle", "append", "assign", "write", "flush", "writing"}
       /\ th[t].pc = "writing" <=> wlog_mutex = t
  /\ lost \subseteq Record /\ filled \in [Threads -> Nat]

\* AppendLogRecord can write behind the end of the buffer, and that only in one
\* way: after its second flush it has the latch back, and while it had not the
\* others have appended, after the exchange of buffers, more than its record
\* leaves.  Every other write fits, whatever flushes ran in between.
OverrunNeedsOthers ==
  [][~Overrun /\ Overrun' =>
       \E t \in Threads :
         /\ th[t].pc = "write" /\ th'[t] # th[t]
         /\ filled[t] > LogBufferSize - th[t].rec.size]_vars

\* Although LSNs can get into the log out of order, a record's predecessor in
\* its transaction comes before it, so that Undo finds it whatever prefix
\* reached the disk; the records of one page are in the order of their LSNs,
\* as Redo's comparison with the page's LSN needs it, and the page has the LSN
\* of its last record.  (Not after a write that failed.)
LogCanBeReplayed ==
  /\ \A i, j \in DOMAIN Log :
       i < j /\ Log[i].page = Log[j].page /\ Log[i].page # NoPage => Log[i].lsn < Log[j].lsn
  /\ \A i \in DOMAIN Log :
       /\ Log[i].page # NoPage => Log[i].lsn <= page_lsn[Log[i].page]
       /\ Log[i].prev # InvalidLSN /\ lost = {} =>
            \E j \in 1 .. i - 1 : Log[j].lsn = Log[i].prev /\ Log[j].by = Log[i].by

\* When Flush returns, every record that was in the log when it was called is
\* in the log file, whichever thread wrote it (or went with a write that
\* failed): Commit, eviction and checkpoint rely on it.
Flushing(t) == th[t].pc \in {"flush", "writing"}
FlushedIsDurable ==
  [][\A t \in Threads : Flushing(t) /\ ~Flushing(t)' =>
       th[t].before \subseteq ToSet(disk') \cup lost']_vars

=============================================================================
