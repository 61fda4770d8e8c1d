-------------------------- MODULE LogManagerProofs --------------------------
(***************************************************************************)
(* The log can be replayed, a flush makes durable what it found, and the   *)
(* log buffer is overrun in one way only, for any number of threads, pages *)
(* and records and any sizes.                                              *)
(*                                                                         *)
(* The first two proofs do not look at the space in the buffer: which of   *)
(* the flushes an append makes is left open, so all the places where it    *)
(* gives up the latch are covered.  The third is about that space.         *)
(***************************************************************************)
EXTENDS LogManager, SequenceTheorems, WellFoundedInduction, TLAPS

\* A thread in the middle of AppendLogRecord, and one whose record has its LSN.
InAppend(s) ==
  \/ s.pc \in {"append", "assign", "write"}
  \/ s.pc \in {"flush", "writing"} /\ s.back # "done"
HasDrawn(s) ==
  \/ s.pc = "write"
  \/ s.pc \in {"flush", "writing"} /\ s.back = "write"
Appending(t) == InAppend(th[t])
Drawn(t) == HasDrawn(th[t])

State ==
  {Idle}
    \cup [pc : {"append", "assign", "write"}, rec : Record]
    \cup [pc : {"flush"}, rec : Record, back : {"done", "assign", "write"},
          before : SUBSET Record]
    \cup [pc : {"writing"}, rec : Record, back : {"done", "assign", "write"},
          before : SUBSET Record, lsn : Nat]

Types ==
  /\ log_buffer \in Seq(Record) /\ flush_buffer \in Seq(Record) /\ disk \in Seq(Record)
  /\ next_lsn \in Nat /\ log_buffer_lsn \in Nat
  /\ page_lsn \in [Pages -> Nat] /\ prev_lsn \in [Threads -> Nat \cup {InvalidLSN}]
  /\ th \in [Threads -> State]
  /\ lost \subseteq Record

\* The flush buffer belongs to the thread with the mutex.
FlushMutex ==
  /\ \A t \in Threads : th[t].pc = "writing" <=> wlog_mutex = t
  /\ wlog_mutex = Nobody => flush_buffer = << >>

\* A page is latched by one thread, and only a page change has a page.
OnePage ==
  /\ \A t \in Threads : Appending(t) =>
       /\ th[t].rec.by = t
       /\ th[t].rec.page = NoPage <=> th[t].rec.type # "PAGE"
  /\ \A t, u \in Threads :
       Appending(t) /\ Appending(u) /\ th[t].rec.page = th[u].rec.page
         => t = u \/ th[t].rec.page = NoPage

\* A drawn LSN is newer than the page, until it is written.
DrawnIsNew ==
  /\ \A p \in Pages : page_lsn[p] < next_lsn
  /\ \A t \in Threads : Drawn(t) =>
       IF th[t].rec.type = "DEALLOCATE_OR_REUSE" THEN th[t].rec.lsn = InvalidLSN
       ELSE /\ th[t].rec.lsn \in Nat
            /\ th[t].rec.lsn < next_lsn
            /\ th[t].rec.page # NoPage => page_lsn[th[t].rec.page] < th[t].rec.lsn

\* The last record of every transaction is in the log.
PrevInLog ==
  /\ \A t \in Threads : Appending(t) =>
       th[t].rec.prev = IF th[t].rec.type = "DEALLOCATE_OR_REUSE" THEN InvalidLSN ELSE prev_lsn[t]
  /\ \A t \in Threads : prev_lsn[t] # InvalidLSN /\ lost = {} =>
       \E j \in DOMAIN Log : Log[j].lsn = prev_lsn[t] /\ Log[j].by = t

ReplayInv == Types /\ FlushMutex /\ OnePage /\ DrawnIsNew /\ PrevInLog /\ LogCanBeReplayed

\* What a flush found is in the log, or already behind the exchange of buffers.
BeforeKept ==
  \A t \in Threads :
    /\ th[t].pc = "flush" => th[t].before \subseteq ToSet(Log) \cup lost
    /\ th[t].pc = "writing" =>
         th[t].before \subseteq ToSet(disk) \cup ToSet(flush_buffer) \cup lost

-----------------------------------------------------------------------------
\* What the states of a thread hold.
LEMMA StateFields ==
  ASSUME NEW s \in State
  PROVE /\ s.pc \in {"idle", "append", "assign", "write", "flush", "writing"}
        /\ s.pc # "idle" => s.rec \in Record
        /\ s.pc \in {"flush", "writing"} =>
             s.back \in {"done", "assign", "write"} /\ s.before \subseteq Record
        /\ s.pc = "writing" => s.lsn \in Nat
  BY DEF State, Idle

LEMMA RecordFields ==
  ASSUME NEW r \in Record
  PROVE /\ r.type \in LogRecordType /\ r.page \in Pages \cup {NoPage} /\ r.by \in Threads
        /\ r.lsn \in Nat \cup {InvalidLSN} /\ r.prev \in Nat \cup {InvalidLSN}
  BY DEF Record

\* The states that the steps put a thread into.
LEMMA Idling == Idle \in State /\ Idle.pc = "idle" BY DEF State, Idle

LEMMA AppendState ==
  ASSUME NEW r \in Record, NEW pc \in {"append", "assign", "write"}
  PROVE [pc |-> pc, rec |-> r] \in State
  BY DEF State

LEMMA FlushState ==
  ASSUME NEW r \in Record, NEW back \in {"done", "assign", "write"}, NEW before \in SUBSET Record
  PROVE [pc |-> "flush", rec |-> r, back |-> back, before |-> before] \in State
  BY DEF State

LEMMA WritingState ==
  ASSUME NEW r \in Record, NEW back \in {"done", "assign", "write"},
         NEW before \in SUBSET Record, NEW lsn \in Nat
  PROVE [pc |-> "writing", rec |-> r, back |-> back, before |-> before, lsn |-> lsn] \in State
  BY DEF State

\* The log, when a record is written, when the buffers are exchanged and when
\* the flush buffer reaches the disk.
LEMMA LogFacts ==
  ASSUME NEW S, NEW d \in Seq(S), NEW f \in Seq(S), NEW b \in Seq(S)
  PROVE /\ d \o f \o b \in Seq(S)
        /\ \A r \in S : d \o f \o Append(b, r) = Append(d \o f \o b, r)
        /\ d \o b \o << >> = d \o << >> \o b
        /\ (d \o f) \o << >> \o b = d \o f \o b
<1>1. d \o f \in Seq(S) /\ d \o b \in Seq(S) OBVIOUS
<1>2. \A r \in S : d \o f \o Append(b, r) = Append(d \o f \o b, r)
  <2> SUFFICES ASSUME NEW r \in S PROVE d \o f \o Append(b, r) = Append(d \o f \o b, r)
    OBVIOUS
  <2> DEFINE e == d \o f
             L == e \o Append(b, r)
             M == Append(e \o b, r)
  <2>1. L \in Seq(S) /\ M \in Seq(S) BY <1>1
  <2>2. Len(L) = Len(M) /\ \A i \in 1..Len(L) : L[i] = M[i] BY <1>1
  <2> HIDE DEF L, M
  <2>3. L = M BY <2>1, <2>2
  <2> QED BY <2>3 DEF L, M
<1>3. d \o b \o << >> = d \o b /\ d \o << >> = d BY <1>1, ConcatEmptySeq
<1>4. (d \o f) \o << >> = d \o f BY <1>1, ConcatEmptySeq
<1> QED BY <1>1, <1>2, <1>3, <1>4

LEMMA ToSetFacts ==
  ASSUME NEW S, NEW d \in Seq(S), NEW f \in Seq(S), NEW b \in Seq(S)
  PROVE /\ ToSet(d \o f \o b) = ToSet(d) \cup ToSet(f) \cup ToSet(b)
        /\ ToSet(d \o f) = ToSet(d) \cup ToSet(f)
        /\ ToSet(d) \subseteq S /\ ToSet(<< >>) = {}
        /\ \A r \in S : ToSet(Append(b, r)) = ToSet(b) \cup {r}
<1>1. ASSUME NEW x \in Seq(S), NEW y \in Seq(S) PROVE ToSet(x \o y) = ToSet(x) \cup ToSet(y)
  <2>1. /\ Len(x \o y) = Len(x) + Len(y) /\ Len(x) \in Nat /\ Len(y) \in Nat
        /\ DOMAIN (x \o y) = 1..(Len(x) + Len(y))
        /\ DOMAIN x = 1..Len(x) /\ DOMAIN y = 1..Len(y)
    OBVIOUS
  <2>2. \A i \in 1..Len(x) : (x \o y)[i] = x[i] OBVIOUS
  <2>3. \A i \in 1..Len(y) : (x \o y)[Len(x) + i] = y[i] OBVIOUS
  <2>4. \A i \in 1..(Len(x) + Len(y)) : i \in 1..Len(x) \/ i - Len(x) \in 1..Len(y) BY <2>1
  <2>5. ToSet(x \o y) \subseteq ToSet(x) \cup ToSet(y)
    <3> SUFFICES ASSUME NEW i \in DOMAIN (x \o y) PROVE (x \o y)[i] \in ToSet(x) \cup ToSet(y)
      BY DEF ToSet
    <3>1. CASE i \in 1..Len(x) BY <2>1, <2>2, <3>1 DEF ToSet
    <3>2. CASE i - Len(x) \in 1..Len(y)
      <4>1. (x \o y)[Len(x) + (i - Len(x))] = y[i - Len(x)] BY <2>3, <3>2
      <4>2. Len(x) + (i - Len(x)) = i BY <2>1
      <4> QED BY <2>1, <3>2, <4>1, <4>2 DEF ToSet
    <3> QED BY <2>1, <2>4, <3>1, <3>2
  <2>6. ToSet(x) \subseteq ToSet(x \o y)
    <3> SUFFICES ASSUME NEW i \in DOMAIN x PROVE x[i] \in ToSet(x \o y) BY DEF ToSet
    <3> QED BY <2>1, <2>2 DEF ToSet
  <2>7. ToSet(y) \subseteq ToSet(x \o y)
    <3> SUFFICES ASSUME NEW i \in DOMAIN y PROVE y[i] \in ToSet(x \o y) BY DEF ToSet
    <3>1. Len(x) + i \in DOMAIN (x \o y) BY <2>1
    <3> QED BY <2>1, <2>3, <3>1 DEF ToSet
  <2> QED BY <2>5, <2>6, <2>7
<1>2. d \o f \in Seq(S) OBVIOUS
<1>3. ASSUME NEW r \in S PROVE ToSet(Append(b, r)) = ToSet(b) \cup {r}
  <2> DEFINE a == Append(b, r)
  <2>1. /\ DOMAIN a = 1..(Len(b) + 1) /\ DOMAIN b = 1..Len(b) /\ Len(b) \in Nat
        /\ a[Len(b) + 1] = r /\ \A i \in 1..Len(b) : a[i] = b[i]
    OBVIOUS
  <2> HIDE DEF a
  <2>2. \A i \in DOMAIN a : i \in DOMAIN b \/ i = Len(b) + 1 BY <2>1
  <2>3. ToSet(a) = ToSet(b) \cup {r} BY <2>1, <2>2 DEF ToSet
  <2> QED BY <2>3 DEF a
<1>4. ToSet(d) \subseteq S /\ ToSet(<< >>) = {} BY DEF ToSet
<1> QED BY <1>1, <1>2, <1>3, <1>4

-----------------------------------------------------------------------------
\* Types, and the mutex of Flush.

LEMMA NewRecordType ==
  ASSUME Types, NEW t \in Threads, NEW type \in LogRecordType, NEW page \in Pages \cup {NoPage}
  PROVE NewLogRecord(t, type, page) \in Record
<1>1. prev_lsn[t] \in Nat \cup {InvalidLSN} BY DEF Types
<1>2. Size(type) \in {HEADER_SIZE, BodySize} BY DEF Size
<1> QED BY <1>1, <1>2 DEF NewLogRecord, Record

LEMMA DrawType ==
  ASSUME Types, NEW r \in Record
  PROVE /\ DrawLSN(r) \in Record
        /\ DrawLSN(r).type = r.type /\ DrawLSN(r).page = r.page /\ DrawLSN(r).by = r.by
        /\ DrawLSN(r).prev = r.prev
        /\ DrawLSN(r).lsn = IF r.type = "DEALLOCATE_OR_REUSE" THEN InvalidLSN ELSE next_lsn
  BY DEF Types, DrawLSN, Record

LEMMA LogType == Types => Log \in Seq(Record) /\ ToSet(Log) \subseteq Record
<1> SUFFICES ASSUME Types PROVE Log \in Seq(Record) /\ ToSet(Log) \subseteq Record OBVIOUS
<1>1. Log \in Seq(Record) BY LogFacts DEF Types, Log
<1> QED BY <1>1, ToSetFacts

LEMMA FlushFirstType ==
  ASSUME Types, NEW t \in Threads, NEW r \in Record, NEW back \in {"assign", "write"},
         FlushFirst(t, r, back)
  PROVE th' \in [Threads -> State]
<1>1. [pc |-> "flush", rec |-> r, back |-> back, before |-> ToSet(Log)] \in State
  BY FlushState, LogType
<1> QED BY <1>1 DEF FlushFirst, Goto, Types

LEMMA WriteRecordType ==
  ASSUME Types, NEW t \in Threads, NEW r \in Record, WriteRecord(t, r),
         r.page # NoPage => r.lsn \in Nat
  PROVE /\ log_buffer' \in Seq(Record) /\ log_buffer_lsn' \in Nat
        /\ page_lsn' \in [Pages -> Nat] /\ prev_lsn' \in [Threads -> Nat \cup {InvalidLSN}]
        /\ th' \in [Threads -> State]
<1> USE RecordFields
<1>1. log_buffer' \in Seq(Record) BY DEF WriteRecord, Types
<1>2. log_buffer_lsn' \in Nat BY DEF WriteRecord, Types
<1>3. page_lsn' \in [Pages -> Nat] BY DEF WriteRecord, Types
<1>4. prev_lsn' \in [Threads -> Nat \cup {InvalidLSN}] BY DEF WriteRecord, Types, LogRecordType
<1>5. th' \in [Threads -> State]
  <2> DEFINE r0 == [r EXCEPT !.page = NoPage]
             b == ToSet(Log) \cup {r}
  <2>1. r0 \in Record BY DEF Record
  <2>2. b \in SUBSET Record BY LogType
  <2> HIDE DEF r0, b
  <2>3. [pc |-> "flush", rec |-> r0, back |-> "done", before |-> b] \in State
    BY <2>1, <2>2, FlushState
  <2>4. \E s \in State : th' = [th EXCEPT ![t] = s]
    BY <2>3, Idling DEF WriteRecord, Goto, r0, b
  <2> QED BY <2>4 DEF Types
<1> QED BY <1>1, <1>2, <1>3, <1>4, <1>5

LEMMA AssignType ==
  ASSUME Types, NEW t \in Threads, Assign(t), th[t].rec \in Record, 
         th[t].rec.type = "DEALLOCATE_OR_REUSE" => th[t].rec.page = NoPage
  PROVE /\ log_buffer' \in Seq(Record) /\ next_lsn' \in Nat /\ log_buffer_lsn' \in Nat
        /\ page_lsn' \in [Pages -> Nat] /\ prev_lsn' \in [Threads -> Nat \cup {InvalidLSN}]
        /\ th' \in [Threads -> State]
<1> DEFINE r == DrawLSN(th[t].rec)
<1>1. r \in Record /\ (r.page # NoPage => r.lsn \in Nat) BY DrawType DEF Types
<1>2. next_lsn' \in Nat BY DEF Assign, Types
<1>3. CASE FlushFirst(t, r, "write")
  <2>1. th' \in [Threads -> State] BY <1>1, <1>3, FlushFirstType
  <2> QED BY <1>2, <1>3, <2>1 DEF Types, FlushFirst
<1>4. CASE WriteRecord(t, r) BY <1>1, <1>2, <1>4, WriteRecordType
<1> QED BY <1>3, <1>4 DEF Assign

LEMMA TypesStep == Types /\ OnePage /\ DrawnIsNew /\ [Next]_vars => Types'
<1> SUFFICES ASSUME Types, OnePage, DrawnIsNew, [Next]_vars PROVE Types' OBVIOUS
<1>0. \A t \in Threads : th[t] \in State BY DEF Types
<1>1. ASSUME NEW t \in Threads, NEW p \in Pages, LogPageChange(t, p) PROVE Types'
  <2>1. NewLogRecord(t, "PAGE", p) \in Record BY NewRecordType DEF LogRecordType
  <2>2. [pc |-> "append", rec |-> NewLogRecord(t, "PAGE", p)] \in State BY <2>1, AppendState
  <2> QED BY <1>1, <2>2 DEF LogPageChange, Goto, Types, lsns
<1>2. ASSUME NEW t \in Threads, NEW type \in LogRecordType \ {"PAGE"}, LogOther(t, type)
      PROVE Types'
  <2>1. NewLogRecord(t, type, NoPage) \in Record BY NewRecordType
  <2>2. [pc |-> "append", rec |-> NewLogRecord(t, type, NoPage)] \in State BY <2>1, AppendState
  <2> QED BY <1>2, <2>2 DEF LogOther, Goto, Types, lsns
<1>3. ASSUME NEW t \in Threads, CallFlush(t) PROVE Types'
  <2>1. NewLogRecord(t, "COMMIT", NoPage) \in Record BY NewRecordType DEF LogRecordType
  <2>2. [pc |-> "flush", rec |-> NewLogRecord(t, "COMMIT", NoPage), back |-> "done",
         before |-> ToSet(Log)] \in State
    BY <2>1, FlushState, LogType
  <2> QED BY <1>3, <2>2 DEF CallFlush, Goto, Types, lsns
<1>4. ASSUME NEW t \in Threads, AppendLogRecord(t) PROVE Types'
  <2>1. th[t].pc = "append" /\ UNCHANGED <<flush_buffer, disk, lost>>
    BY <1>4 DEF AppendLogRecord
  <2>2. th[t].rec \in Record BY <1>0, <2>1, StateFields
  <2>3. CASE FlushFirst(t, th[t].rec, "assign") /\ UNCHANGED next_lsn
    <3>1. th' \in [Threads -> State] BY <2>2, <2>3, FlushFirstType
    <3> QED BY <2>1, <2>3, <3>1 DEF FlushFirst, Types
  <2>4. CASE Assign(t)
    <3>1. th[t].rec.type = "DEALLOCATE_OR_REUSE" => th[t].rec.page = NoPage
      BY <2>1 DEF OnePage, Appending, InAppend
    <3> QED BY <2>1, <2>2, <2>4, <3>1, AssignType DEF Types
  <2> QED BY <1>4, <2>3, <2>4 DEF AppendLogRecord
<1>5. ASSUME NEW t \in Threads, ContinueAppend(t) PROVE Types'
  <2>1. th[t].pc \in {"assign", "write"} /\ UNCHANGED <<flush_buffer, disk, lost>>
    BY <1>5 DEF ContinueAppend
  <2>2. th[t].rec \in Record BY <1>0, <2>1, StateFields
  <2>3. th[t].rec.type = "DEALLOCATE_OR_REUSE" => th[t].rec.page = NoPage
    BY <2>1 DEF OnePage, Appending, InAppend
  <2>4. CASE Assign(t) BY <2>1, <2>2, <2>3, <2>4, AssignType DEF Types
  <2>5. CASE th[t].pc = "write" /\ WriteRecord(t, th[t].rec) /\ UNCHANGED next_lsn
    <3>1. th[t].rec.page # NoPage => th[t].rec.lsn \in Nat
      BY <2>3, <2>5 DEF DrawnIsNew, Drawn, HasDrawn
    <3>2. WriteRecord(t, th[t].rec) /\ next_lsn' = next_lsn BY <2>5
    <3>3. /\ log_buffer' \in Seq(Record) /\ log_buffer_lsn' \in Nat
          /\ page_lsn' \in [Pages -> Nat] /\ prev_lsn' \in [Threads -> Nat \cup {InvalidLSN}]
          /\ th' \in [Threads -> State]
      BY <2>2, <3>1, <3>2, WriteRecordType
    <3> QED BY <2>1, <3>2, <3>3 DEF Types
  <2> QED BY <1>5, <2>4, <2>5 DEF ContinueAppend
<1>6. ASSUME NEW t \in Threads, SwapBuffers(t) PROVE Types'
  <2>1. th[t].pc = "flush" BY <1>6 DEF SwapBuffers
  <2>2. [pc |-> "writing", rec |-> th[t].rec, back |-> th[t].back,
         before |-> th[t].before, lsn |-> log_buffer_lsn] \in State
    BY <1>0, <2>1, StateFields, WritingState DEF Types
  <2> QED BY <1>6, <2>2 DEF SwapBuffers, Goto, Types, lsns
<1>7. ASSUME NEW t \in Threads, EndFlush(t) PROVE Types'
  <2>1. th[t].pc = "writing" BY <1>7 DEF EndFlush
  <2>2. th[t].back # "done" => [pc |-> th[t].back, rec |-> th[t].rec] \in State
    <3>1. th[t].back \in {"done", "assign", "write"} /\ th[t].rec \in Record
      BY <1>0, <2>1, StateFields
    <3> QED BY <3>1, AppendState
  <2>3. th' \in [Threads -> State] BY <1>7, <2>2, Idling DEF EndFlush, Return, Goto, Types
  <2>4. disk' \in Seq(Record) /\ lost' \subseteq Record
    <3>1. ToSet(flush_buffer) \subseteq Record BY ToSetFacts DEF Types
    <3>2. CASE disk' = disk \o flush_buffer /\ UNCHANGED lost BY <3>2 DEF Types
    <3>3. CASE lost' = lost \cup ToSet(flush_buffer) /\ UNCHANGED disk BY <3>1, <3>3 DEF Types
    <3> QED BY <1>7, <3>2, <3>3 DEF EndFlush, WriteLog
  <2> QED BY <1>7, <2>3, <2>4 DEF EndFlush, Types
<1>8. CASE UNCHANGED vars BY <1>8 DEF vars, Types
<1> QED BY <1>1, <1>2, <1>3, <1>4, <1>5, <1>6, <1>7, <1>8 DEF Next, Panic

LEMMA MutexStep == Types /\ FlushMutex /\ [Next]_vars => FlushMutex'
<1> SUFFICES ASSUME Types, FlushMutex, [Next]_vars PROVE FlushMutex' OBVIOUS
<1> USE LogManagerAssumption
<1>0. \A t \in Threads : th[t] \in State BY DEF Types
<1>1. ASSUME NEW t \in Threads, \A u \in Threads \ {t} : th'[u] = th[u],
             th'[t].pc # "writing", th[t].pc # "writing",
             UNCHANGED <<wlog_mutex, flush_buffer>>
      PROVE FlushMutex'
  BY <1>1 DEF FlushMutex
<1>2. ASSUME NEW t \in Threads, NEW p \in Pages, LogPageChange(t, p) PROVE FlushMutex'
  <2>1. \A u \in Threads \ {t} : th'[u] = th[u] BY <1>2 DEF LogPageChange, Goto, Types
  <2>2. th'[t].pc = "append" BY <1>2 DEF LogPageChange, Goto, Types
  <2> QED BY <1>1, <1>2, <2>1, <2>2 DEF LogPageChange
<1>3. ASSUME NEW t \in Threads, NEW type \in LogRecordType \ {"PAGE"}, LogOther(t, type)
      PROVE FlushMutex'
  <2>1. \A u \in Threads \ {t} : th'[u] = th[u] BY <1>3 DEF LogOther, Goto, Types
  <2>2. th'[t].pc = "append" BY <1>3 DEF LogOther, Goto, Types
  <2> QED BY <1>1, <1>3, <2>1, <2>2 DEF LogOther
<1>4. ASSUME NEW t \in Threads, CallFlush(t) PROVE FlushMutex'
  <2>1. \A u \in Threads \ {t} : th'[u] = th[u] BY <1>4 DEF CallFlush, Goto, Types
  <2>2. th'[t].pc = "flush" BY <1>4 DEF CallFlush, Goto, Types
  <2> QED BY <1>1, <1>4, <2>1, <2>2 DEF CallFlush
<1>5. ASSUME NEW t \in Threads, AppendLogRecord(t) \/ ContinueAppend(t) PROVE FlushMutex'
  <2>1. th[t].pc # "writing" /\ UNCHANGED <<wlog_mutex, flush_buffer>>
    BY <1>5 DEF AppendLogRecord, ContinueAppend
  <2>2. ASSUME NEW r, NEW back, FlushFirst(t, r, back) PROVE FlushMutex'
    <3>1. \A u \in Threads \ {t} : th'[u] = th[u] BY <2>2 DEF FlushFirst, Goto, Types
    <3>2. th'[t].pc = "flush" BY <2>2 DEF FlushFirst, Goto, Types
    <3> QED BY <1>1, <2>1, <3>1, <3>2
  <2>3. ASSUME NEW r, WriteRecord(t, r) PROVE FlushMutex'
    <3>1. \A u \in Threads \ {t} : th'[u] = th[u] BY <2>3 DEF WriteRecord, Goto, Types
    <3>2. th'[t].pc \in {"flush", "idle"} BY <2>3 DEF WriteRecord, Goto, Types, Idle
    <3> QED BY <1>1, <2>1, <3>1, <3>2
  <2> QED BY <1>5, <2>2, <2>3 DEF AppendLogRecord, ContinueAppend, Assign
<1>6. ASSUME NEW t \in Threads, SwapBuffers(t) PROVE FlushMutex'
  <2>1. th'[t].pc = "writing" /\ \A u \in Threads : u # t => th'[u] = th[u]
    BY <1>6 DEF SwapBuffers, Goto, Types
  <2> QED BY <1>6, <2>1 DEF SwapBuffers, FlushMutex
<1>7. ASSUME NEW t \in Threads, EndFlush(t) PROVE FlushMutex'
  <2>1. th[t].pc = "writing" BY <1>7 DEF EndFlush
  <2>2. th[t].back \in {"done", "assign", "write"} BY <1>0, <2>1, StateFields
  <2>3. th'[t].pc # "writing" /\ \A u \in Threads : u # t => th'[u] = th[u]
    BY <1>7, <2>2, Idling DEF EndFlush, Return, Goto, Types
  <2> QED BY <1>7, <2>1, <2>3 DEF EndFlush, FlushMutex
<1>8. CASE UNCHANGED vars BY <1>8 DEF vars, FlushMutex
<1> QED BY <1>2, <1>3, <1>4, <1>5, <1>6, <1>7, <1>8 DEF Next, Panic

-----------------------------------------------------------------------------
\* What the steps do to the records that are being appended.

NewLSN(r) == IF r.type = "DEALLOCATE_OR_REUSE" THEN next_lsn ELSE next_lsn + 1

\* t begins to append a record.
Starts(t, s) ==
  /\ th' = [th EXCEPT ![t] = s] /\ ~Appending(t) /\ s.pc = "append"
  /\ s.rec.by = t /\ s.rec.type \in LogRecordType
  /\ s.rec.page = NoPage <=> s.rec.type # "PAGE"
  /\ s.rec.page # NoPage =>
       \A u \in Threads : Appending(u) => th[u].rec.page # s.rec.page
  /\ s.rec.prev = IF s.rec.type = "DEALLOCATE_OR_REUSE" THEN InvalidLSN ELSE prev_lsn[t]
  /\ UNCHANGED <<page_lsn, prev_lsn, next_lsn, Log, lost>>

\* t goes on, or ends, with the record it had; a flush may fail.
GoesOn(t, s) ==
  /\ th' = [th EXCEPT ![t] = s]
  /\ InAppend(s) => Appending(t) /\ s.rec = th[t].rec
  /\ HasDrawn(s) => Drawn(t)
  /\ UNCHANGED <<page_lsn, prev_lsn, next_lsn>>
  /\ \/ UNCHANGED <<Log, lost>>
     \/ /\ flush_buffer # << >> /\ lost' = lost \cup ToSet(flush_buffer)
        /\ Log' = disk \o log_buffer

\* t draws an LSN and flushes before it writes the record.
Draws(t, s) ==
  /\ th' = [th EXCEPT ![t] = s] /\ Appending(t)
  /\ InAppend(s) /\ s.rec = DrawLSN(th[t].rec)
  /\ next_lsn' = NewLSN(th[t].rec)
  /\ UNCHANGED <<page_lsn, prev_lsn, Log, lost>>

\* t writes its record r, drawn before or in the same step.
Writes(t, r, s) ==
  /\ th' = [th EXCEPT ![t] = s] /\ Appending(t) /\ ~InAppend(s) /\ ~HasDrawn(s)
  /\ \/ Drawn(t) /\ r = th[t].rec /\ UNCHANGED next_lsn
     \/ r = DrawLSN(th[t].rec) /\ next_lsn' = NewLSN(th[t].rec)
  /\ page_lsn' = IF r.page = NoPage THEN page_lsn ELSE [page_lsn EXCEPT ![r.page] = r.lsn]
  /\ prev_lsn' = CASE r.type = "DEALLOCATE_OR_REUSE" -> prev_lsn
                   [] r.type = "COMMIT" -> [prev_lsn EXCEPT ![t] = InvalidLSN]
                   [] OTHER -> [prev_lsn EXCEPT ![t] = r.lsn]
  /\ Log' = Append(Log, r) /\ UNCHANGED lost

Kind(t) ==
  \/ \E s : Starts(t, s) \/ GoesOn(t, s) \/ Draws(t, s)
  \/ \E r \in Record : \E s : Writes(t, r, s)

\* Where a thread is after it has written r.
Written(r) ==
  IF r.type \in {"COMMIT", "DEALLOCATE_OR_REUSE"}
  THEN [pc |-> "flush", rec |-> [r EXCEPT !.page = NoPage], back |-> "done",
        before |-> ToSet(Log) \cup {r}]
  ELSE Idle

LEMMA WrittenState == ASSUME NEW r PROVE ~InAppend(Written(r)) /\ ~HasDrawn(Written(r))
  BY DEF Written, InAppend, HasDrawn, Idle

LEMMA AssignKind ==
  ASSUME Types, NEW t \in Threads, th[t].pc \in {"append", "assign"}, Assign(t),
         UNCHANGED <<flush_buffer, disk, lost>>
  PROVE Kind(t)
<1> DEFINE r == DrawLSN(th[t].rec)
<1>0. th[t] \in State /\ th[t].rec \in Record BY StateFields DEF Types
<1>1. r \in Record /\ (r.lsn = InvalidLSN <=> th[t].rec.type = "DEALLOCATE_OR_REUSE")
  BY <1>0, DrawType DEF Types, InvalidLSN
<1>2. next_lsn' = NewLSN(th[t].rec) BY <1>1 DEF Assign, NewLSN
<1>3. Appending(t) BY DEF Appending, InAppend
<1>4. CASE FlushFirst(t, r, "write")
  <2> DEFINE s == [pc |-> "flush", rec |-> r, back |-> "write", before |-> ToSet(Log)]
  <2>1. th' = [th EXCEPT ![t] = s] /\ UNCHANGED <<log_buffer, page_lsn, prev_lsn>>
    BY <1>4 DEF FlushFirst, Goto
  <2>2. InAppend(s) /\ s.rec = r BY DEF InAppend
  <2> HIDE DEF s
  <2>3. Log' = Log BY <2>1 DEF Log
  <2>4. Draws(t, s) BY <1>2, <1>3, <2>1, <2>2, <2>3 DEF Draws
  <2> QED BY <2>4 DEF Kind
<1>5. CASE WriteRecord(t, r)
  <2> DEFINE s == Written(r)
  <2>1. th' = [th EXCEPT ![t] = s] BY <1>5 DEF WriteRecord, Goto, Written
  <2>2. ~InAppend(s) /\ ~HasDrawn(s) BY WrittenState
  <2>3. log_buffer' = Append(log_buffer, r) BY <1>5 DEF WriteRecord
  <2>4. Log' = Append(Log, r) BY <1>1, <2>3, LogFacts DEF Log, Types
  <2> HIDE DEF s
  <2>5. Writes(t, r, s) BY <1>2, <1>3, <1>5, <2>1, <2>2, <2>4 DEF Writes, WriteRecord
  <2> HIDE DEF r
  <2> QED BY <1>1, <2>5 DEF Kind
<1> QED BY <1>4, <1>5 DEF Assign

LEMMA StepKind == Types /\ FlushMutex /\ Next => \E t \in Threads : Kind(t)
<1> SUFFICES ASSUME Types, FlushMutex, Next PROVE \E t \in Threads : Kind(t) OBVIOUS
<1> USE LogManagerAssumption
<1>0. \A t \in Threads : th[t] \in State BY DEF Types
<1>1. ASSUME NEW t \in Threads, NEW p \in Pages, LogPageChange(t, p) PROVE Kind(t)
  <2> DEFINE r == NewLogRecord(t, "PAGE", p)
             s == [pc |-> "append", rec |-> r]
  <2>1. /\ th' = [th EXCEPT ![t] = s] /\ th[t].pc = "idle" /\ ~InUse(p)
        /\ UNCHANGED <<page_lsn, prev_lsn, next_lsn, Log, lost>>
    BY <1>1 DEF LogPageChange, Goto, lsns, Log
  <2>2. r.by = t /\ r.type = "PAGE" /\ r.page = p /\ r.prev = prev_lsn[t] BY DEF NewLogRecord
  <2>3. s.pc = "append" /\ s.rec = r OBVIOUS
  <2> HIDE DEF r, s
  <2>4. \A u \in Threads : Appending(u) => th[u].rec.page # p
    BY <2>1 DEF InUse, Appending, InAppend
  <2>5. ~Appending(t) BY <2>1 DEF Appending, InAppend
  <2>6. Starts(t, s) BY <2>1, <2>2, <2>3, <2>4, <2>5 DEF Starts, LogRecordType
  <2> QED BY <2>6 DEF Kind
<1>2. ASSUME NEW t \in Threads, NEW type \in LogRecordType \ {"PAGE"}, LogOther(t, type)
      PROVE Kind(t)
  <2> DEFINE r == NewLogRecord(t, type, NoPage)
             s == [pc |-> "append", rec |-> r]
  <2>1. /\ th' = [th EXCEPT ![t] = s] /\ th[t].pc = "idle"
        /\ UNCHANGED <<page_lsn, prev_lsn, next_lsn, Log, lost>>
    BY <1>2 DEF LogOther, Goto, lsns, Log
  <2>2. /\ r.by = t /\ r.type = type /\ r.page = NoPage
        /\ r.prev = IF type = "DEALLOCATE_OR_REUSE" THEN InvalidLSN ELSE prev_lsn[t]
    BY DEF NewLogRecord
  <2>3. s.pc = "append" /\ s.rec = r OBVIOUS
  <2> HIDE DEF r, s
  <2>4. ~Appending(t) BY <2>1 DEF Appending, InAppend
  <2>5. Starts(t, s) BY <2>1, <2>2, <2>3, <2>4 DEF Starts
  <2> QED BY <2>5 DEF Kind
<1>3. ASSUME NEW t \in Threads, CallFlush(t) PROVE Kind(t)
  <2> DEFINE s == [pc |-> "flush", rec |-> NewLogRecord(t, "COMMIT", NoPage), back |-> "done",
                   before |-> ToSet(Log)]
  <2>1. th' = [th EXCEPT ![t] = s] /\ s.pc = "flush" /\ s.back = "done"
    BY <1>3 DEF CallFlush, Goto
  <2> HIDE DEF s
  <2>2. ~InAppend(s) /\ ~HasDrawn(s) BY <2>1 DEF InAppend, HasDrawn
  <2>3. UNCHANGED <<page_lsn, prev_lsn, next_lsn, Log, lost>> BY <1>3 DEF CallFlush, lsns, Log
  <2>4. GoesOn(t, s) BY <2>1, <2>2, <2>3 DEF GoesOn
  <2> QED BY <2>4 DEF Kind
<1>4. ASSUME NEW t \in Threads, AppendLogRecord(t) PROVE Kind(t)
  <2>1. th[t].pc = "append" /\ UNCHANGED <<flush_buffer, disk, lost>> BY <1>4 DEF AppendLogRecord
  <2>2. CASE Assign(t) BY <2>1, <2>2, AssignKind
  <2>3. CASE FlushFirst(t, th[t].rec, "assign") /\ UNCHANGED next_lsn
    <3> DEFINE s == [pc |-> "flush", rec |-> th[t].rec, back |-> "assign", before |-> ToSet(Log)]
    <3>1. th' = [th EXCEPT ![t] = s] /\ UNCHANGED <<log_buffer, page_lsn, prev_lsn>>
      BY <2>3 DEF FlushFirst, Goto
    <3>2. InAppend(s) /\ s.rec = th[t].rec /\ ~HasDrawn(s) BY DEF InAppend, HasDrawn
    <3> HIDE DEF s
    <3>3. Log' = Log BY <2>1, <3>1 DEF Log
    <3>4. Appending(t) BY <2>1 DEF Appending, InAppend
    <3>5. GoesOn(t, s) BY <2>1, <2>3, <3>1, <3>2, <3>3, <3>4 DEF GoesOn
    <3> QED BY <3>5 DEF Kind
  <2> QED BY <1>4, <2>2, <2>3 DEF AppendLogRecord
<1>5. ASSUME NEW t \in Threads, ContinueAppend(t) PROVE Kind(t)
  <2>1. UNCHANGED <<flush_buffer, disk, lost>> BY <1>5 DEF ContinueAppend
  <2>2. CASE th[t].pc = "assign" /\ Assign(t) BY <2>1, <2>2, AssignKind
  <2>3. CASE th[t].pc = "write" /\ WriteRecord(t, th[t].rec) /\ UNCHANGED next_lsn
    <3> DEFINE r == th[t].rec
    <3>1. r \in Record BY <1>0, <2>3, StateFields
    <3> DEFINE s == Written(r)
    <3>2. th' = [th EXCEPT ![t] = s] BY <2>3 DEF WriteRecord, Goto, Written
    <3>3. ~InAppend(s) /\ ~HasDrawn(s) BY WrittenState
    <3>4. log_buffer' = Append(log_buffer, r) BY <2>3 DEF WriteRecord
    <3>5. Log' = Append(Log, r) BY <2>1, <3>1, <3>4, LogFacts DEF Log, Types
    <3>6. Appending(t) /\ Drawn(t) BY <2>3 DEF Appending, Drawn, InAppend, HasDrawn
    <3> HIDE DEF s
    <3>7. Writes(t, r, s) BY <2>1, <2>3, <3>2, <3>3, <3>5, <3>6 DEF Writes, WriteRecord
    <3> HIDE DEF r
    <3> QED BY <3>1, <3>7 DEF Kind
  <2> QED BY <1>5, <2>2, <2>3 DEF ContinueAppend
<1>6. ASSUME NEW t \in Threads, SwapBuffers(t) PROVE Kind(t)
  <2> DEFINE s == [pc |-> "writing", rec |-> th[t].rec, back |-> th[t].back,
                   before |-> th[t].before, lsn |-> log_buffer_lsn]
  <2>1. /\ th[t].pc = "flush" /\ wlog_mutex = Nobody /\ th' = [th EXCEPT ![t] = s]
        /\ flush_buffer' = log_buffer /\ log_buffer' = << >>
        /\ UNCHANGED <<page_lsn, prev_lsn, next_lsn, disk, lost>>
    BY <1>6 DEF SwapBuffers, Goto, lsns
  <2>2. InAppend(s) => Appending(t) /\ s.rec = th[t].rec BY <2>1 DEF Appending, InAppend
  <2>3. HasDrawn(s) => Drawn(t) BY <2>1 DEF Drawn, HasDrawn
  <2> HIDE DEF s
  <2>4. flush_buffer = << >> BY <2>1 DEF FlushMutex
  <2>5. Log' = Log BY <2>1, <2>4, LogFacts DEF Log, Types
  <2>6. GoesOn(t, s) BY <2>1, <2>2, <2>3, <2>5 DEF GoesOn
  <2> QED BY <2>6 DEF Kind
<1>7. ASSUME NEW t \in Threads, EndFlush(t) PROVE Kind(t)
  <2> DEFINE s == IF th[t].back = "done" THEN Idle ELSE [pc |-> th[t].back, rec |-> th[t].rec]
  <2>1. /\ th[t].pc = "writing" /\ th' = [th EXCEPT ![t] = s] /\ flush_buffer' = << >>
        /\ UNCHANGED <<page_lsn, prev_lsn, next_lsn, log_buffer>>
    BY <1>7 DEF EndFlush, Return, Goto
  <2>2. th[t].back \in {"done", "assign", "write"} BY <1>0, <2>1, StateFields
  <2>3. InAppend(s) => Appending(t) /\ s.rec = th[t].rec
    BY <2>1, <2>2 DEF Appending, InAppend, Idle
  <2>4. HasDrawn(s) => Drawn(t) BY <2>1, <2>2 DEF Drawn, HasDrawn, Idle
  <2> HIDE DEF s
  <2>5. CASE disk' = disk \o flush_buffer /\ UNCHANGED lost
    <3>1. Log' = Log BY <2>1, <2>5, LogFacts DEF Log, Types
    <3>2. GoesOn(t, s) BY <2>1, <2>3, <2>4, <2>5, <3>1 DEF GoesOn
    <3> QED BY <3>2 DEF Kind
  <2>6. CASE /\ flush_buffer # << >> /\ lost' = lost \cup ToSet(flush_buffer)
             /\ UNCHANGED disk
    <3>1. disk \o << >> = disk BY ConcatEmptySeq DEF Types
    <3>2. Log' = disk \o log_buffer BY <2>1, <2>6, <3>1 DEF Log
    <3>3. GoesOn(t, s) BY <2>1, <2>3, <2>4, <2>6, <3>2 DEF GoesOn
    <3> QED BY <3>3 DEF Kind
  <2> QED BY <1>7, <2>5, <2>6 DEF EndFlush, WriteLog
<1>8. ASSUME NEW t \in Threads, Panic(t) PROVE Kind(t)
  <2>1. UNCHANGED vars BY <1>8 DEF Panic
  <2>2. /\ th' = [th EXCEPT ![t] = th[t]]
        /\ UNCHANGED <<page_lsn, prev_lsn, next_lsn, Log, lost>>
    BY <2>1 DEF vars, Types, Log
  <2>3. GoesOn(t, th[t]) BY <2>2 DEF GoesOn, Appending, Drawn
  <2> QED BY <2>3 DEF Kind
<1> QED BY <1>1, <1>2, <1>3, <1>4, <1>5, <1>6, <1>7, <1>8 DEF Next

-----------------------------------------------------------------------------
\* The other parts of the invariant, by the kind of the step.

LEMMA OnePageStep ==
  ASSUME Types, OnePage, NEW t \in Threads, Kind(t)
  PROVE OnePage'
<1> USE LogManagerAssumption
<1>0. /\ \A u \in Threads : th[u] \in State
      /\ \A u \in Threads : Appending(u) => th[u].rec \in Record
  BY StateFields DEF Types, Appending, InAppend
<1>1. ASSUME NEW s, th' = [th EXCEPT ![t] = s]
      PROVE th'[t] = s /\ \A u \in Threads : u # t => th'[u] = th[u]
  BY <1>1 DEF Types
<1>2. ASSUME NEW s, th' = [th EXCEPT ![t] = s], InAppend(s) => Appending(t),
             InAppend(s) => s.rec.by = th[t].rec.by /\ s.rec.page = th[t].rec.page
                            /\ s.rec.type = th[t].rec.type
      PROVE OnePage'
  BY <1>1, <1>2 DEF OnePage, Appending
<1>3. ASSUME NEW s, Starts(t, s) PROVE OnePage'
  <2>1. th'[t] = s /\ \A u \in Threads : u # t => th'[u] = th[u] BY <1>1, <1>3 DEF Starts
  <2> QED BY <1>3, <2>1 DEF OnePage, Appending, Starts
<1>4. ASSUME NEW s, GoesOn(t, s) PROVE OnePage' BY <1>2, <1>4 DEF GoesOn
<1>5. ASSUME NEW s, Draws(t, s) PROVE OnePage' BY <1>0, <1>2, <1>5, DrawType DEF Draws
<1>6. ASSUME NEW r, NEW s, Writes(t, r, s) PROVE OnePage' BY <1>2, <1>6 DEF Writes
<1> QED BY <1>3, <1>4, <1>5, <1>6 DEF Kind

\* The LSN of the record a step writes is newer than that of its page.
LEMMA WrittenIsNew ==
  ASSUME Types, OnePage, DrawnIsNew, NEW t \in Threads, NEW r \in Record, NEW s, Writes(t, r, s)
  PROVE /\ r.by = t /\ r.type = th[t].rec.type /\ r.page = th[t].rec.page /\ r.prev = th[t].rec.prev
        /\ next_lsn' >= next_lsn /\ next_lsn' \in Nat
        /\ r.page # NoPage => /\ r.page \in Pages /\ r.lsn \in Nat
                              /\ page_lsn[r.page] < r.lsn /\ r.lsn < next_lsn'
        /\ r.type # "DEALLOCATE_OR_REUSE" => r.lsn \in Nat
<1> USE LogManagerAssumption
<1>0. th[t].rec \in Record /\ Appending(t)
  BY StateFields DEF Types, Appending, InAppend, Writes
<1>1. th[t].rec.by = t /\ (th[t].rec.page = NoPage <=> th[t].rec.type # "PAGE") BY <1>0 DEF OnePage
<1>2. r.page # NoPage => r.page \in Pages BY RecordFields
<1>3. CASE Drawn(t) /\ r = th[t].rec /\ UNCHANGED next_lsn
  BY <1>1, <1>2, <1>3 DEF DrawnIsNew, Types
<1>4. CASE r = DrawLSN(th[t].rec) /\ next_lsn' = NewLSN(th[t].rec)
  <2>1. /\ r.by = t /\ r.type = th[t].rec.type /\ r.page = th[t].rec.page /\ r.prev = th[t].rec.prev
        /\ r.lsn = IF r.type = "DEALLOCATE_OR_REUSE" THEN InvalidLSN ELSE next_lsn
    BY <1>0, <1>1, <1>4, DrawType
  <2>2. /\ next_lsn' = IF r.type = "DEALLOCATE_OR_REUSE" THEN next_lsn ELSE next_lsn + 1
        /\ next_lsn \in Nat
    BY <1>4, <2>1 DEF NewLSN, Types
  <2> QED BY <1>1, <1>2, <2>1, <2>2 DEF DrawnIsNew
<1> QED BY <1>3, <1>4 DEF Writes

LEMMA DrawnStep ==
  ASSUME Types, Types', OnePage, DrawnIsNew, NEW t \in Threads, Kind(t)
  PROVE DrawnIsNew'
<1> USE LogManagerAssumption
<1>0. \A u \in Threads : Drawn(u) => Appending(u)
  BY DEF Drawn, HasDrawn, Appending, InAppend
<1>1. ASSUME NEW s, th' = [th EXCEPT ![t] = s]
      PROVE th'[t] = s /\ \A u \in Threads : u # t => th'[u] = th[u]
  BY <1>1 DEF Types
<1>2. ASSUME NEW s, Starts(t, s) PROVE DrawnIsNew'
  <2>1. th'[t] = s /\ \A u \in Threads : u # t => th'[u] = th[u] BY <1>1, <1>2 DEF Starts
  <2>2. ~HasDrawn(s) BY <1>2 DEF Starts, HasDrawn
  <2> QED BY <1>2, <2>1, <2>2 DEF DrawnIsNew, Drawn, Starts
<1>3. ASSUME NEW s, GoesOn(t, s) PROVE DrawnIsNew'
  <2>1. th'[t] = s /\ \A u \in Threads : u # t => th'[u] = th[u] BY <1>1, <1>3 DEF GoesOn
  <2>2. HasDrawn(s) => Drawn(t) /\ s.rec = th[t].rec
    BY <1>3 DEF GoesOn, HasDrawn, InAppend
  <2> QED BY <1>3, <2>1, <2>2 DEF DrawnIsNew, Drawn, GoesOn
<1>4. ASSUME NEW s, Draws(t, s) PROVE DrawnIsNew'
  <2> DEFINE r == th[t].rec
  <2>1. th'[t] = s /\ \A u \in Threads : u # t => th'[u] = th[u] BY <1>1, <1>4 DEF Draws
  <2>2. r \in Record /\ Appending(t) BY <1>4, StateFields DEF Types, Appending, InAppend, Draws
  <2>3. /\ s.rec.type = r.type /\ s.rec.page = r.page
        /\ s.rec.lsn = IF r.type = "DEALLOCATE_OR_REUSE" THEN InvalidLSN ELSE next_lsn
    BY <1>4, <2>2, DrawType DEF Draws
  <2>4. /\ next_lsn' = IF r.type = "DEALLOCATE_OR_REUSE" THEN next_lsn ELSE next_lsn + 1
        /\ next_lsn \in Nat /\ page_lsn' = page_lsn
    BY <1>4 DEF Draws, NewLSN, Types
  <2>5. r.page # NoPage => r.page \in Pages BY <2>2, RecordFields
  <2> HIDE DEF r
  <2>6. \A p \in Pages : page_lsn[p] \in Nat /\ page_lsn'[p] < next_lsn'
    BY <2>4 DEF DrawnIsNew, Types
  <2>7. ASSUME NEW u \in Threads, Drawn(u)'
        PROVE IF th'[u].rec.type = "DEALLOCATE_OR_REUSE" THEN th'[u].rec.lsn = InvalidLSN
              ELSE /\ th'[u].rec.lsn \in Nat
                   /\ th'[u].rec.lsn < next_lsn'
                   /\ th'[u].rec.page # NoPage => page_lsn'[th'[u].rec.page] < th'[u].rec.lsn
    <3>1. CASE u = t BY <2>1, <2>3, <2>4, <2>5, <3>1 DEF DrawnIsNew
    <3>2. CASE u # t
      <4>1. th'[u] = th[u] /\ Drawn(u) BY <2>1, <2>7, <3>2 DEF Drawn
      <4> QED BY <2>4, <4>1 DEF DrawnIsNew
    <3> QED BY <3>1, <3>2
  <2> QED BY <2>6, <2>7 DEF DrawnIsNew
<1>5. ASSUME NEW r \in Record, NEW s, Writes(t, r, s) PROVE DrawnIsNew'
  <2>1. th'[t] = s /\ ~HasDrawn(s) /\ \A u \in Threads : u # t => th'[u] = th[u]
    BY <1>1, <1>5 DEF Writes
  <2>2. /\ r.page = th[t].rec.page /\ next_lsn' >= next_lsn /\ next_lsn' \in Nat
        /\ r.page # NoPage => r.page \in Pages /\ r.lsn \in Nat /\ r.lsn < next_lsn'
    BY <1>5, WrittenIsNew
  <2>3. page_lsn' = IF r.page = NoPage THEN page_lsn ELSE [page_lsn EXCEPT ![r.page] = r.lsn]
    BY <1>5 DEF Writes
  <2>4. next_lsn \in Nat /\ page_lsn \in [Pages -> Nat] BY DEF Types
  <2>5. \A p \in Pages : page_lsn'[p] < next_lsn' BY <2>2, <2>3, <2>4 DEF DrawnIsNew
  <2>6. ASSUME NEW u \in Threads, Drawn(u)'
        PROVE IF th'[u].rec.type = "DEALLOCATE_OR_REUSE" THEN th'[u].rec.lsn = InvalidLSN
              ELSE /\ th'[u].rec.lsn \in Nat
                   /\ th'[u].rec.lsn < next_lsn'
                   /\ th'[u].rec.page # NoPage => page_lsn'[th'[u].rec.page] < th'[u].rec.lsn
    <3>1. u # t /\ th'[u] = th[u] /\ Drawn(u) /\ Appending(u) BY <1>0, <2>1, <2>6 DEF Drawn
    <3>2. Appending(t) BY <1>5 DEF Writes
    <3>3. th[u].rec.page # NoPage => th[u].rec.page # r.page BY <2>2, <3>1, <3>2 DEF OnePage
    <3>4. th[u].rec \in Record /\ th[u].rec.page \in Pages \cup {NoPage}
      BY <3>1, StateFields, RecordFields DEF Types, Appending, InAppend
    <3>5. th[u].rec.page # NoPage => page_lsn'[th[u].rec.page] = page_lsn[th[u].rec.page]
      BY <2>3, <2>4, <3>3, <3>4
    <3> QED BY <2>2, <2>4, <3>1, <3>5 DEF DrawnIsNew
  <2> QED BY <2>5, <2>6 DEF DrawnIsNew
<1> QED BY <1>2, <1>3, <1>4, <1>5 DEF Kind

\* A failed write takes a part out of the log and leaves the rest in its order.
Skip(d, f, i) == IF i <= Len(d) THEN i ELSE i + Len(f)

LEMMA Shorter ==
  ASSUME NEW S, NEW d \in Seq(S), NEW f \in Seq(S), NEW b \in Seq(S)
  PROVE /\ \A i \in DOMAIN (d \o b) : /\ Skip(d, f, i) \in DOMAIN (d \o f \o b)
                                      /\ (d \o b)[i] = (d \o f \o b)[Skip(d, f, i)]
        /\ \A i, j \in DOMAIN (d \o b) : i < j => Skip(d, f, i) < Skip(d, f, j)
<1> DEFINE e == d \o f
           k(i) == Skip(d, f, i)
<1>1. /\ Len(d) \in Nat /\ Len(f) \in Nat /\ Len(b) \in Nat
      /\ e \in Seq(S) /\ Len(e) = Len(d) + Len(f)
      /\ DOMAIN (d \o b) = 1..(Len(d) + Len(b))
      /\ DOMAIN (e \o b) = 1..(Len(d) + Len(f) + Len(b))
  OBVIOUS
<1>2. /\ \A i \in 1..Len(d) : (d \o b)[i] = d[i] /\ e[i] = d[i]
      /\ \A i \in (Len(d) + 1)..(Len(d) + Len(b)) : (d \o b)[i] = b[i - Len(d)]
  OBVIOUS
<1>3. /\ \A i \in 1..Len(e) : (e \o b)[i] = e[i]
      /\ \A i \in (Len(e) + 1)..(Len(e) + Len(b)) : (e \o b)[i] = b[i - Len(e)]
  BY <1>1
<1> HIDE DEF e
<1>4. \A i \in DOMAIN (d \o b) : (d \o b)[i] = (e \o b)[k(i)]
  <2> SUFFICES ASSUME NEW i \in DOMAIN (d \o b) PROVE (d \o b)[i] = (e \o b)[k(i)] OBVIOUS
  <2>1. CASE i <= Len(d)
    <3>1. i \in 1..Len(d) /\ i \in 1..Len(e) /\ k(i) = i BY <1>1, <2>1 DEF Skip
    <3> QED BY <1>2, <1>3, <3>1
  <2>2. CASE ~(i <= Len(d))
    <3>1. /\ i \in (Len(d) + 1)..(Len(d) + Len(b)) /\ k(i) = i + Len(f)
          /\ i + Len(f) \in (Len(e) + 1)..(Len(e) + Len(b))
          /\ (i + Len(f)) - Len(e) = i - Len(d)
      BY <1>1, <2>2 DEF Skip
    <3> QED BY <1>2, <1>3, <3>1
  <2> QED BY <2>1, <2>2
<1>5. \A i, j \in DOMAIN (d \o b) : i < j => k(i) < k(j) BY <1>1 DEF Skip
<1>6. \A i \in DOMAIN (d \o b) : k(i) \in DOMAIN (e \o b) BY <1>1 DEF Skip
<1> QED BY <1>4, <1>5, <1>6 DEF e

LEMMA ReplayStep ==
  ASSUME ReplayInv, Types', NEW t \in Threads, Kind(t)
  PROVE PrevInLog' /\ LogCanBeReplayed'
<1> USE LogManagerAssumption
<1>0. Types /\ OnePage /\ DrawnIsNew /\ PrevInLog /\ LogCanBeReplayed BY DEF ReplayInv
<1>a. Log \in Seq(Record) BY <1>0, LogType
<1>1. ASSUME NEW s, th' = [th EXCEPT ![t] = s]
      PROVE th'[t] = s /\ \A u \in Threads : u # t => th'[u] = th[u]
  BY <1>0, <1>1 DEF Types
<1>2. ASSUME NEW s, th' = [th EXCEPT ![t] = s], UNCHANGED prev_lsn,
             InAppend(s) => s.rec.prev = IF s.rec.type = "DEALLOCATE_OR_REUSE" THEN InvalidLSN
                                         ELSE prev_lsn[t]
      PROVE \A u \in Threads : Appending(u)' =>
              th'[u].rec.prev = IF th'[u].rec.type = "DEALLOCATE_OR_REUSE" THEN InvalidLSN
                                ELSE prev_lsn'[u]
  BY <1>0, <1>1, <1>2 DEF PrevInLog, Appending
<1>3. ASSUME UNCHANGED <<page_lsn, prev_lsn, Log, lost>>,
             NEW s, th' = [th EXCEPT ![t] = s],
             InAppend(s) => s.rec.prev = IF s.rec.type = "DEALLOCATE_OR_REUSE" THEN InvalidLSN
                                         ELSE prev_lsn[t]
      PROVE PrevInLog' /\ LogCanBeReplayed'
  <2>1. LogCanBeReplayed' BY <1>0, <1>3 DEF LogCanBeReplayed
  <2>2. PrevInLog' BY <1>0, <1>2, <1>3 DEF PrevInLog
  <2> QED BY <2>1, <2>2
<1>4. ASSUME NEW s, Starts(t, s) PROVE PrevInLog' /\ LogCanBeReplayed'
  BY <1>3, <1>4 DEF Starts
<1>5. ASSUME NEW s, GoesOn(t, s) PROVE PrevInLog' /\ LogCanBeReplayed'
  <2>1. InAppend(s) => s.rec.prev = IF s.rec.type = "DEALLOCATE_OR_REUSE" THEN InvalidLSN
                                    ELSE prev_lsn[t]
    BY <1>0, <1>5 DEF GoesOn, PrevInLog
  <2>2. CASE UNCHANGED <<Log, lost>> BY <1>3, <1>5, <2>1, <2>2 DEF GoesOn
  <2>3. CASE /\ flush_buffer # << >> /\ lost' = lost \cup ToSet(flush_buffer)
             /\ Log' = disk \o log_buffer
    <3>1. lost' # {}
      <4>1. flush_buffer \in Seq(Record) BY <1>0 DEF Types
      <4>2. 1 \in DOMAIN flush_buffer BY <2>3, <4>1
      <4>3. flush_buffer[1] \in ToSet(flush_buffer) BY <4>2 DEF ToSet
      <4> QED BY <2>3, <4>3
    <3>2. PrevInLog' BY <1>2, <1>5, <2>1, <3>1 DEF PrevInLog, GoesOn
    <3> DEFINE k(i) == Skip(disk, flush_buffer, i)
    <3>3. /\ \A i \in DOMAIN Log' : k(i) \in DOMAIN Log /\ Log'[i] = Log[k(i)]
          /\ \A i, j \in DOMAIN Log' : i < j => k(i) < k(j)
      <4> DEFINE M == disk \o log_buffer
      <4>1. /\ \A i \in DOMAIN M : k(i) \in DOMAIN Log /\ M[i] = Log[k(i)]
            /\ \A i, j \in DOMAIN M : i < j => k(i) < k(j)
        BY <1>0, Shorter DEF Types, Log
      <4>2. Log' = M BY <2>3
      <4> HIDE DEF M
      <4> QED BY <4>1, <4>2
    <3> HIDE DEF k
    <3>4. page_lsn' = page_lsn BY <1>5 DEF GoesOn
    <3>5. ASSUME NEW i \in DOMAIN Log', NEW j \in DOMAIN Log',
                 i < j, Log'[i].page = Log'[j].page, Log'[i].page # NoPage
          PROVE Log'[i].lsn < Log'[j].lsn
      <4>1. k(i) < k(j) /\ k(i) \in DOMAIN Log /\ k(j) \in DOMAIN Log BY <3>3, <3>5
      <4> QED BY <1>0, <3>3, <3>5, <4>1 DEF LogCanBeReplayed
    <3>6. \A i \in DOMAIN Log' : Log'[i].page # NoPage => Log'[i].lsn <= page_lsn'[Log'[i].page]
      BY <1>0, <3>3, <3>4 DEF LogCanBeReplayed
    <3>7. LogCanBeReplayed' BY <3>1, <3>5, <3>6 DEF LogCanBeReplayed
    <3> QED BY <3>2, <3>7
  <2> QED BY <1>5, <2>2, <2>3 DEF GoesOn
<1>6. ASSUME NEW s, Draws(t, s) PROVE PrevInLog' /\ LogCanBeReplayed'
  <2>1. th[t].rec \in Record /\ Appending(t)
    BY <1>0, <1>6, StateFields DEF Types, Appending, InAppend, Draws
  <2>2. s.rec.prev = th[t].rec.prev /\ s.rec.type = th[t].rec.type
    BY <1>0, <1>6, <2>1, DrawType DEF Draws
  <2> QED BY <1>0, <1>3, <1>6, <2>1, <2>2 DEF Draws, PrevInLog
<1>7. ASSUME NEW r \in Record, NEW s, Writes(t, r, s) PROVE PrevInLog' /\ LogCanBeReplayed'
  <2> DEFINE n == Len(Log) + 1
  <2>1. th'[t] = s /\ ~InAppend(s) /\ \A u \in Threads : u # t => th'[u] = th[u]
    BY <1>1, <1>7 DEF Writes
  <2>2. /\ r.by = t /\ r.type = th[t].rec.type /\ r.prev = th[t].rec.prev
        /\ r.page # NoPage => r.page \in Pages /\ r.lsn \in Nat /\ page_lsn[r.page] < r.lsn
        /\ r.type # "DEALLOCATE_OR_REUSE" => r.lsn \in Nat
    BY <1>0, <1>7, WrittenIsNew
  <2>3. r.prev # InvalidLSN => r.prev = prev_lsn[t]
    BY <1>0, <1>7, <2>2 DEF PrevInLog, Writes
  <2>4. lost' = lost /\ Log' = Append(Log, r)
        /\ page_lsn' = IF r.page = NoPage THEN page_lsn ELSE [page_lsn EXCEPT ![r.page] = r.lsn]
    BY <1>7 DEF Writes
  <2>5. /\ DOMAIN Log = 1..Len(Log) /\ Len(Log) \in Nat /\ DOMAIN Log' = 1..n
        /\ Log'[n] = r /\ \A i \in DOMAIN Log : Log'[i] = Log[i]
    BY <1>a, <2>4
  <2>6. \A i \in DOMAIN Log' : i \in DOMAIN Log \/ i = n BY <2>5
  <2>7. /\ page_lsn \in [Pages -> Nat] /\ page_lsn' \in [Pages -> Nat]
        /\ \A p \in Pages : page_lsn[p] <= page_lsn'[p]
        /\ r.page # NoPage => page_lsn'[r.page] = r.lsn
    BY <1>0, <2>2, <2>4 DEF Types
  <2>8. \A i \in DOMAIN Log : /\ Log[i].page \in Pages \cup {NoPage}
                              /\ Log[i].lsn \in Nat \cup {InvalidLSN}
    <3> SUFFICES ASSUME NEW i \in DOMAIN Log
                 PROVE Log[i].page \in Pages \cup {NoPage} /\ Log[i].lsn \in Nat \cup {InvalidLSN}
      OBVIOUS
    <3>1. Log[i] \in Record BY <1>a
    <3> QED BY <3>1, RecordFields
  <2> HIDE DEF n
  <2>9. ASSUME NEW i \in DOMAIN Log', NEW j \in DOMAIN Log',
               i < j, Log'[i].page = Log'[j].page, Log'[i].page # NoPage
        PROVE Log'[i].lsn < Log'[j].lsn
    <3>0. i \in DOMAIN Log BY <2>5, <2>6, <2>9 DEF n
    <3>1. CASE j \in DOMAIN Log BY <1>0, <2>5, <2>9, <3>0, <3>1 DEF LogCanBeReplayed
    <3>2. CASE j = n
      <4>1. Log[i].page = r.page /\ r.page # NoPage BY <2>5, <2>9, <3>0, <3>2
      <4>2. Log[i].lsn <= page_lsn[r.page] BY <1>0, <3>0, <4>1 DEF LogCanBeReplayed
      <4>3. page_lsn[r.page] < r.lsn /\ r.lsn \in Nat /\ page_lsn[r.page] \in Nat
        BY <2>2, <2>7, <4>1
      <4>4. Log[i].lsn \in Int BY <2>8, <3>0 DEF InvalidLSN
      <4>5. Log[i].lsn < r.lsn BY <4>2, <4>3, <4>4
      <4> QED BY <2>5, <3>0, <3>2, <4>5
    <3> QED BY <2>6, <3>1, <3>2
  <2>10. ASSUME NEW i \in DOMAIN Log', Log'[i].page # NoPage
         PROVE Log'[i].lsn <= page_lsn'[Log'[i].page]
    <3>1. CASE i = n BY <2>2, <2>5, <2>7, <2>10, <3>1
    <3>2. CASE i \in DOMAIN Log
      <4>1. Log[i].page # NoPage /\ Log[i].page \in Pages /\ Log[i].lsn \in Int
        BY <2>5, <2>8, <2>10, <3>2 DEF InvalidLSN
      <4>2. Log[i].lsn <= page_lsn[Log[i].page] BY <1>0, <3>2, <4>1 DEF LogCanBeReplayed
      <4>3. /\ page_lsn[Log[i].page] \in Nat /\ page_lsn'[Log[i].page] \in Nat
            /\ page_lsn[Log[i].page] <= page_lsn'[Log[i].page]
        BY <2>7, <4>1
      <4>4. Log[i].lsn <= page_lsn'[Log[i].page] BY <4>1, <4>2, <4>3
      <4> QED BY <2>5, <3>2, <4>4
    <3> QED BY <2>6, <3>1, <3>2
  <2>11. ASSUME NEW i \in DOMAIN Log', Log'[i].prev # InvalidLSN, lost' = {}
         PROVE \E j \in 1 .. i - 1 : Log'[j].lsn = Log'[i].prev /\ Log'[j].by = Log'[i].by
    <3>1. CASE i \in DOMAIN Log
      <4>1. PICK j \in 1 .. i - 1 : Log[j].lsn = Log[i].prev /\ Log[j].by = Log[i].by
        BY <1>0, <2>4, <2>5, <2>11, <3>1 DEF LogCanBeReplayed
      <4>2. j \in DOMAIN Log BY <2>5, <3>1
      <4>3. Log'[j].lsn = Log'[i].prev /\ Log'[j].by = Log'[i].by BY <2>5, <3>1, <4>1, <4>2
      <4> QED BY <4>3
    <3>2. CASE i = n
      <4>1. r.prev = prev_lsn[t] /\ prev_lsn[t] # InvalidLSN /\ lost = {}
        BY <2>3, <2>4, <2>5, <2>11, <3>2
      <4>2. PICK j \in DOMAIN Log : Log[j].lsn = prev_lsn[t] /\ Log[j].by = t
        BY <1>0, <4>1 DEF PrevInLog
      <4>3. Log'[j].lsn = Log'[i].prev /\ Log'[j].by = Log'[i].by
        BY <2>2, <2>5, <3>2, <4>1, <4>2
      <4>4. j \in 1 .. i - 1 BY <2>5, <3>2, <4>2 DEF n
      <4> QED BY <4>3, <4>4
    <3> QED BY <2>6, <3>1, <3>2
  <2>12. LogCanBeReplayed' BY <2>9, <2>10, <2>11 DEF LogCanBeReplayed
  <2>13. prev_lsn' = CASE r.type = "DEALLOCATE_OR_REUSE" -> prev_lsn
                       [] r.type = "COMMIT" -> [prev_lsn EXCEPT ![t] = InvalidLSN]
                       [] OTHER -> [prev_lsn EXCEPT ![t] = r.lsn]
    BY <1>7 DEF Writes
  <2>14. /\ \A u \in Threads : u # t => prev_lsn'[u] = prev_lsn[u]
         /\ prev_lsn'[t] \in {InvalidLSN, prev_lsn[t], r.lsn}
    BY <1>0, <2>13 DEF Types
  <2>15. ASSUME NEW u \in Threads, prev_lsn'[u] # InvalidLSN, lost' = {}
         PROVE \E j \in DOMAIN Log' : Log'[j].lsn = prev_lsn'[u] /\ Log'[j].by = u
    <3>1. CASE prev_lsn'[u] = prev_lsn[u]
      <4>1. PICK j \in DOMAIN Log : Log[j].lsn = prev_lsn[u] /\ Log[j].by = u
        BY <1>0, <2>4, <2>15, <3>1 DEF PrevInLog
      <4>2. j \in DOMAIN Log' BY <2>5 DEF n
      <4> QED BY <2>5, <3>1, <4>1, <4>2
    <3>2. CASE u = t /\ prev_lsn'[t] = r.lsn
      <4>1. n \in DOMAIN Log' BY <2>5 DEF n
      <4> QED BY <2>2, <2>5, <3>2, <4>1
    <3> QED BY <2>14, <2>15, <3>1, <3>2
  <2>16. \A u \in Threads : Appending(u)' =>
           th'[u].rec.prev = IF th'[u].rec.type = "DEALLOCATE_OR_REUSE" THEN InvalidLSN
                             ELSE prev_lsn'[u]
    BY <1>0, <2>1, <2>14 DEF PrevInLog, Appending
  <2>17. PrevInLog' BY <2>15, <2>16 DEF PrevInLog
  <2> QED BY <2>12, <2>17
<1> QED BY <1>4, <1>5, <1>6, <1>7 DEF Kind

LEMMA ReplayInit == Init => ReplayInv
<1> SUFFICES ASSUME Init PROVE ReplayInv OBVIOUS
<1> USE LogManagerAssumption DEF Init
<1>0. \A t \in Threads : th[t] = Idle /\ th[t].pc = "idle" BY Idling
<1>1. Types BY Idling DEF Types, InvalidLSN
<1>2. FlushMutex BY <1>0 DEF FlushMutex
<1>3. \A t \in Threads : ~Appending(t) /\ ~Drawn(t)
  BY <1>0 DEF Appending, InAppend, Drawn, HasDrawn
<1>4. OnePage /\ DrawnIsNew BY <1>3 DEF OnePage, DrawnIsNew
<1>5. PrevInLog BY <1>3 DEF PrevInLog
<1>6. DOMAIN Log = {} BY DEF Log
<1>7. LogCanBeReplayed BY <1>6 DEF LogCanBeReplayed
<1> QED BY <1>1, <1>2, <1>4, <1>5, <1>7 DEF ReplayInv

LEMMA ReplayInvStep == ReplayInv /\ [Next]_vars => ReplayInv'
<1> SUFFICES ASSUME ReplayInv, [Next]_vars PROVE ReplayInv' OBVIOUS
<1>0. Types /\ FlushMutex /\ OnePage /\ DrawnIsNew BY DEF ReplayInv
<1>1. Types' /\ FlushMutex' BY <1>0, TypesStep, MutexStep
<1>2. CASE Next
  <2>1. PICK t \in Threads : Kind(t) BY <1>0, <1>2, StepKind
  <2>2. OnePage' /\ DrawnIsNew' BY <1>0, <1>1, <2>1, OnePageStep, DrawnStep
  <2>3. PrevInLog' /\ LogCanBeReplayed' BY <1>1, <2>1, ReplayStep
  <2> QED BY <1>1, <2>2, <2>3 DEF ReplayInv
<1>3. CASE UNCHANGED vars
  <2>1. UNCHANGED <<Log, th, page_lsn, prev_lsn, next_lsn, lost>> BY <1>3 DEF vars, Log
  <2>2. OnePage' BY <2>1 DEF ReplayInv, OnePage, Appending
  <2>3. DrawnIsNew' BY <2>1 DEF ReplayInv, DrawnIsNew, Drawn
  <2>4. PrevInLog' BY <2>1 DEF ReplayInv, PrevInLog, Appending
  <2>5. LogCanBeReplayed' BY <2>1 DEF ReplayInv, LogCanBeReplayed
  <2> QED BY <1>1, <2>2, <2>3, <2>4, <2>5 DEF ReplayInv
<1> QED BY <1>2, <1>3

\* The log can be replayed: a record's predecessor comes before it, the records of
\* a page are in the order of their LSNs and the page has the LSN of its last one,
\* although AppendLogRecord gives up the latch between drawing the LSN and writing
\* the record.
THEOREM LogIsReplayable == Spec => []LogCanBeReplayed
<1>1. ReplayInv => LogCanBeReplayed BY DEF ReplayInv
<1> QED BY <1>1, ReplayInit, ReplayInvStep, PTL DEF Spec

-----------------------------------------------------------------------------
\* A flush makes durable what was in the log when it was called.

LEMMA BeforeStep ==
  ASSUME Types, FlushMutex, BeforeKept, Next
  PROVE /\ BeforeKept'
        /\ \A t \in Threads : Flushing(t) /\ ~Flushing(t)' =>
             th[t].before \subseteq ToSet(disk') \cup lost'
<1> DEFINE Goal == /\ BeforeKept'
                   /\ \A t \in Threads : Flushing(t) /\ ~Flushing(t)' =>
                        th[t].before \subseteq ToSet(disk') \cup lost'
<1> USE LogManagerAssumption
<1>0. \A t \in Threads : th[t] \in State BY DEF Types
<1>a. /\ disk \in Seq(Record) /\ flush_buffer \in Seq(Record) /\ log_buffer \in Seq(Record)
      /\ ToSet(Log) = ToSet(disk) \cup ToSet(flush_buffer) \cup ToSet(log_buffer)
  BY ToSetFacts DEF Types, Log
\* A step of t that leaves the flush buffer and the disk alone and ends no flush.
<1>1. ASSUME NEW t \in Threads, \A u \in Threads \ {t} : th'[u] = th[u],
             ~Flushing(t), th'[t].pc # "writing",
             UNCHANGED <<flush_buffer, disk, lost>>,
             ToSet(Log) \subseteq ToSet(Log'),
             th'[t].pc = "flush" => th'[t].before \subseteq ToSet(Log')
      PROVE Goal
  <2>1. ASSUME NEW u \in Threads, th'[u].pc = "flush"
        PROVE th'[u].before \subseteq ToSet(Log') \cup lost'
    BY <1>1, <2>1 DEF BeforeKept
  <2>2. ASSUME NEW u \in Threads, th'[u].pc = "writing"
        PROVE th'[u].before \subseteq ToSet(disk') \cup ToSet(flush_buffer') \cup lost'
    BY <1>1, <2>2 DEF BeforeKept
  <2>3. \A u \in Threads : ~(Flushing(u) /\ ~Flushing(u)') BY <1>1 DEF Flushing
  <2> QED BY <2>1, <2>2, <2>3 DEF BeforeKept
<1>2. ASSUME NEW t \in Threads, NEW p \in Pages, LogPageChange(t, p) PROVE Goal
  <2>1. \A u \in Threads \ {t} : th'[u] = th[u] BY <1>2 DEF LogPageChange, Goto, Types
  <2>2. th'[t].pc = "append" BY <1>2 DEF LogPageChange, Goto, Types
  <2>3. ~Flushing(t) /\ UNCHANGED <<flush_buffer, disk, lost, Log>>
    BY <1>2 DEF LogPageChange, Flushing, Log
  <2> QED BY <1>1, <2>1, <2>2, <2>3
<1>3. ASSUME NEW t \in Threads, NEW type \in LogRecordType \ {"PAGE"}, LogOther(t, type)
      PROVE Goal
  <2>1. \A u \in Threads \ {t} : th'[u] = th[u] BY <1>3 DEF LogOther, Goto, Types
  <2>2. th'[t].pc = "append" BY <1>3 DEF LogOther, Goto, Types
  <2>3. ~Flushing(t) /\ UNCHANGED <<flush_buffer, disk, lost, Log>>
    BY <1>3 DEF LogOther, Flushing, Log
  <2> QED BY <1>1, <2>1, <2>2, <2>3
<1>4. ASSUME NEW t \in Threads, CallFlush(t) PROVE Goal
  <2>1. \A u \in Threads \ {t} : th'[u] = th[u] BY <1>4 DEF CallFlush, Goto, Types
  <2>2. th'[t].pc = "flush" /\ th'[t].before = ToSet(Log) BY <1>4 DEF CallFlush, Goto, Types
  <2>3. ~Flushing(t) /\ UNCHANGED <<flush_buffer, disk, lost, Log>>
    BY <1>4 DEF CallFlush, Flushing, Log
  <2> QED BY <1>1, <2>1, <2>2, <2>3
<1>5. ASSUME NEW t \in Threads, AppendLogRecord(t) \/ ContinueAppend(t) PROVE Goal
  <2>1. th[t].pc \in {"append", "assign", "write"} /\ UNCHANGED <<flush_buffer, disk, lost>>
    BY <1>5 DEF AppendLogRecord, ContinueAppend
  <2>2. ~Flushing(t) /\ th[t].rec \in Record BY <1>0, <2>1, StateFields DEF Flushing
  <2>3. DrawLSN(th[t].rec) \in Record BY <2>2, DrawType
  <2>4. ASSUME NEW r, NEW back, FlushFirst(t, r, back) PROVE Goal
    <3>1. \A u \in Threads \ {t} : th'[u] = th[u] BY <2>4 DEF FlushFirst, Goto, Types
    <3>2. th'[t].pc = "flush" /\ th'[t].before = ToSet(Log) BY <2>4 DEF FlushFirst, Goto, Types
    <3>3. Log' = Log BY <2>1, <2>4 DEF FlushFirst, Log
    <3> QED BY <1>1, <2>1, <2>2, <3>1, <3>2, <3>3
  <2>5. ASSUME NEW r \in Record, WriteRecord(t, r) PROVE Goal
    <3>1. \A u \in Threads \ {t} : th'[u] = th[u] BY <2>5 DEF WriteRecord, Goto, Types
    <3>2. /\ th'[t].pc \in {"flush", "idle"}
          /\ th'[t].pc = "flush" => th'[t].before = ToSet(Log) \cup {r}
      BY <2>5 DEF WriteRecord, Goto, Types, Idle
    <3>3. log_buffer' = Append(log_buffer, r) BY <2>5 DEF WriteRecord
    <3>4. log_buffer' \in Seq(Record) /\ ToSet(log_buffer') = ToSet(log_buffer) \cup {r}
      BY <1>a, <3>3, ToSetFacts
    <3>5. ToSet(Log') = ToSet(disk) \cup ToSet(flush_buffer) \cup ToSet(log_buffer')
      BY <1>a, <2>1, <3>4, ToSetFacts DEF Log
    <3>6. ToSet(Log) \subseteq ToSet(Log') /\ ToSet(Log) \cup {r} \subseteq ToSet(Log')
      BY <1>a, <3>4, <3>5
    <3> QED BY <1>1, <2>1, <2>2, <3>1, <3>2, <3>6
  <2> QED BY <1>5, <2>2, <2>3, <2>4, <2>5 DEF AppendLogRecord, ContinueAppend, Assign
<1>6. ASSUME NEW t \in Threads, SwapBuffers(t) PROVE Goal
  <2>1. /\ th[t].pc = "flush" /\ wlog_mutex = Nobody
        /\ flush_buffer' = log_buffer /\ log_buffer' = << >> /\ UNCHANGED <<disk, lost>>
    BY <1>6 DEF SwapBuffers
  <2>2. flush_buffer = << >> BY <2>1 DEF FlushMutex
  <2>3. Log' = Log BY <1>a, <2>1, <2>2, LogFacts DEF Log
  <2>4. /\ \A u \in Threads \ {t} : th'[u] = th[u]
        /\ th'[t].pc = "writing" /\ th'[t].before = th[t].before
    BY <1>6 DEF SwapBuffers, Goto, Types
  <2>5. \A u \in Threads : th[u].pc # "writing" BY <2>1 DEF FlushMutex
  <2>6. ASSUME NEW u \in Threads, th'[u].pc = "flush"
        PROVE th'[u].before \subseteq ToSet(Log') \cup lost'
    BY <2>1, <2>3, <2>4, <2>6 DEF BeforeKept
  <2>7. ASSUME NEW u \in Threads, th'[u].pc = "writing"
        PROVE th'[u].before \subseteq ToSet(disk') \cup ToSet(flush_buffer') \cup lost'
    <3>1. u = t BY <2>4, <2>5, <2>7
    <3>2. th[t].before \subseteq ToSet(Log) \cup lost BY <2>1 DEF BeforeKept
    <3>3. ToSet(flush_buffer) = {} BY <2>2, <1>a, ToSetFacts
    <3> QED BY <1>a, <2>1, <2>4, <3>1, <3>2, <3>3
  <2>8. \A u \in Threads : ~(Flushing(u) /\ ~Flushing(u)') BY <2>1, <2>4 DEF Flushing
  <2> QED BY <2>6, <2>7, <2>8 DEF BeforeKept
<1>7. ASSUME NEW t \in Threads, EndFlush(t) PROVE Goal
  <2>1. /\ th[t].pc = "writing" /\ flush_buffer' = << >> /\ log_buffer' = log_buffer
    BY <1>7 DEF EndFlush
  <2>2. th[t].back \in {"done", "assign", "write"} BY <1>0, <2>1, StateFields
  <2>3. th'[t].pc \in {"idle", "assign", "write"} /\ \A u \in Threads \ {t} : th'[u] = th[u]
    BY <1>7, <2>2 DEF EndFlush, Return, Goto, Types, Idle
  <2>4. disk' \in Seq(Record)
        /\ ToSet(disk') \cup lost' = ToSet(disk) \cup ToSet(flush_buffer) \cup lost
    <3>1. CASE disk' = disk \o flush_buffer /\ UNCHANGED lost
      <4>1. ToSet(disk') = ToSet(disk) \cup ToSet(flush_buffer) BY <1>a, <3>1, ToSetFacts
      <4> QED BY <1>a, <3>1, <4>1
    <3>2. CASE lost' = lost \cup ToSet(flush_buffer) /\ UNCHANGED disk BY <1>a, <3>2
    <3> QED BY <1>7, <3>1, <3>2 DEF EndFlush, WriteLog
  <2>5. ToSet(Log') = ToSet(disk') \cup ToSet(log_buffer)
    <3>1. << >> \in Seq(Record) /\ ToSet(<< >>) = {} BY <1>a, ToSetFacts
    <3>2. ToSet(Log') = ToSet(disk') \cup ToSet(flush_buffer') \cup ToSet(log_buffer')
      BY <1>a, <2>1, <2>4, <3>1, ToSetFacts DEF Log
    <3> QED BY <2>1, <3>1, <3>2
  <2>6. \A u \in Threads \ {t} : th[u].pc # "writing" BY <2>1 DEF FlushMutex
  <2>7. ASSUME NEW u \in Threads, th'[u].pc = "flush"
        PROVE th'[u].before \subseteq ToSet(Log') \cup lost'
    <3>1. u # t /\ th[u].pc = "flush" /\ th'[u] = th[u] BY <2>3, <2>7
    <3>2. th[u].before \subseteq ToSet(Log) \cup lost BY <3>1 DEF BeforeKept
    <3> QED BY <1>a, <2>4, <2>5, <3>1, <3>2
  <2>8. \A u \in Threads : th'[u].pc # "writing" BY <2>3, <2>6
  <2>9. ASSUME NEW u \in Threads, Flushing(u), ~Flushing(u)'
        PROVE th[u].before \subseteq ToSet(disk') \cup lost'
    <3>1. u = t BY <2>3, <2>9 DEF Flushing
    <3> QED BY <2>1, <2>4, <3>1 DEF BeforeKept
  <2> QED BY <2>7, <2>8, <2>9 DEF BeforeKept
<1>8. ASSUME NEW t \in Threads, Panic(t) PROVE Goal
  <2>1. UNCHANGED vars BY <1>8 DEF Panic
  <2>2. BeforeKept' BY <2>1 DEF vars, BeforeKept, Log
  <2> QED BY <2>1, <2>2 DEF vars, Flushing
<1> QED BY <1>2, <1>3, <1>4, <1>5, <1>6, <1>7, <1>8 DEF Next

\* When Flush returns, what was in the log when it was called is in the log file
\* or went with a write that failed, whichever thread wrote it.
THEOREM FlushIsDurable == Spec => FlushedIsDurable
<1> DEFINE Inv == ReplayInv /\ BeforeKept
           Step == \A t \in Threads : Flushing(t) /\ ~Flushing(t)' =>
                     th[t].before \subseteq ToSet(disk') \cup lost'
<1>1. Init => Inv
  <2>1. Init => BeforeKept
    <3> SUFFICES ASSUME Init, NEW t \in Threads PROVE th[t].pc = "idle" BY DEF BeforeKept
    <3> QED BY Idling DEF Init
  <2> QED BY <2>1, ReplayInit
<1>2. Inv /\ [Next]_vars => Inv' /\ [Step]_vars
  <2> SUFFICES ASSUME Inv, [Next]_vars PROVE Inv' /\ [Step]_vars OBVIOUS
  <2>1. ReplayInv' BY ReplayInvStep
  <2>2. CASE Next
    <3>1. BeforeKept' /\ Step BY <2>2, BeforeStep DEF ReplayInv
    <3> QED BY <2>1, <3>1
  <2>3. CASE UNCHANGED vars
    <3>1. BeforeKept' BY <2>3 DEF BeforeKept, vars, Log
    <3> QED BY <2>1, <2>3, <3>1
  <2> QED BY <2>2, <2>3
<1>3. Spec => [][Step]_vars BY <1>1, <1>2, PTL DEF Spec
<1> QED BY <1>3 DEF FlushedIsDurable

-----------------------------------------------------------------------------
(***************************************************************************)
(* The space in the log buffer.  offset is a fold, a recursive function    *)
(* over the subsets of the positions: it exists and adds up the sizes, by  *)
(* induction over the length of the buffer.                                *)
(***************************************************************************)
\* A non-empty set of natural numbers has a least element.
LEMMA LeastNat ==
  ASSUME NEW T, T \subseteq Nat, T # {}
  PROVE  \E x \in T : \A y \in T : x <= y
<1>1. PICK x \in T : \A y \in T : ~(<<y, x>> \in OpToRel(<, Nat))
  BY NatLessThanWellFounded, WFMin, Zenon
<1>2. \A y \in T : ~(y < x)
  BY <1>1 DEF OpToRel
<1> QED BY <1>2

\* g adds up the sizes of the first n records of b; FoldLeft takes its value for
\* all the records.
PartSum(b, n, g) ==
  g = [s \in SUBSET (1 .. n) |->
         IF s = {} THEN 0 ELSE g[s \ {Max(s)}] + b[Max(s)].size]
Total(b) == (CHOOSE g : PartSum(b, Len(b), g))[1 .. Len(b)]

LEMMA OffsetIsTotal ==
  /\ log_buffer \in Seq(Record) => offset = Total(log_buffer)
  /\ log_buffer' \in Seq(Record) => offset' = Total(log_buffer')
<1>1. ASSUME log_buffer \in Seq(Record) PROVE offset = Total(log_buffer)
  <2>1. DOMAIN log_buffer = 1 .. Len(log_buffer) BY <1>1
  <2> QED BY <2>1 DEF offset, FoldLeft, MapThenFoldSet, PartSum, Total
<1>2. ASSUME log_buffer' \in Seq(Record) PROVE offset' = Total(log_buffer')
  <2>1. DOMAIN log_buffer' = 1 .. Len(log_buffer') BY <1>2
  <2> QED BY <2>1 DEF offset, FoldLeft, MapThenFoldSet, PartSum, Total
<1> QED BY <1>1, <1>2

LEMMA MaxOfPart ==
  ASSUME NEW n \in Nat, NEW s \in SUBSET (1 .. n), s # {}
  PROVE Max(s) \in s /\ \A x \in s : x <= Max(s)
<1> DEFINE T == {n - x : x \in s}
<1>1. T \subseteq Nat
  <2>1. \A x \in 1 .. n : n - x \in Nat OBVIOUS
  <2> QED BY <2>1
<1>0. T # {} OBVIOUS
<1>2. PICK d \in T : \A e \in T : d <= e BY <1>0, <1>1, LeastNat
<1>3. PICK m \in s : d = n - m BY <1>2
<1>4. \A y \in s : m >= y BY <1>2, <1>3
<1>5. Max(s) \in s /\ \A y \in s : Max(s) >= y BY <1>4 DEF Max
<1> QED BY <1>5

LEMMA MaxIsLast ==
  ASSUME NEW n \in Nat, NEW s \in SUBSET (1 .. n), n \in s
  PROVE Max(s) = n
<1>1. Max(s) \in s /\ n <= Max(s) BY MaxOfPart, Zenon
<1>2. Max(s) \in 1 .. n BY <1>1
<1> HIDE DEF Max
<1> QED BY <1>1, <1>2

LEMMA PartSumExists ==
  ASSUME NEW b \in Seq(Record), NEW n \in 0 .. Len(b),
         \A i \in 1 .. Len(b) : b[i].size \in Nat
  PROVE \E g \in [SUBSET (1 .. n) -> Nat] : PartSum(b, n, g)
<1> DEFINE Has(k) == \E g \in [SUBSET (1 .. k) -> Nat] : PartSum(b, k, g)
           T == {k \in 0 .. Len(b) : ~Has(k)}
<1>1. SUFFICES ASSUME T # {} PROVE FALSE OBVIOUS
<1>2. T \subseteq Nat OBVIOUS
<1>3. PICK m \in T : \A k \in T : m <= k BY <1>1, <1>2, LeastNat
<1>4. CASE m = 0
  <2> DEFINE g == [s \in SUBSET (1 .. 0) |-> 0]
  <2>1. \A s \in SUBSET (1 .. 0) : s = {} OBVIOUS
  <2>2. g \in [SUBSET (1 .. 0) -> Nat] OBVIOUS
  <2>3. PartSum(b, 0, g) BY <2>1 DEF PartSum
  <2> QED BY <1>3, <1>4, <2>2, <2>3
<1>5. CASE m > 0
  <2>0. m \in 1 .. Len(b) /\ m - 1 \in 0 .. Len(b) BY <1>5
  <2>1. Has(m - 1)
    <3>1. m - 1 \notin T
      <4> HIDE DEF T
      <4> QED BY <1>3, <2>0
    <3> HIDE DEF Has
    <3> QED BY <2>0, <3>1
  <2>2. PICK g \in [SUBSET (1 .. (m - 1)) -> Nat] : PartSum(b, m - 1, g) BY <2>1
  <2> DEFINE h == [s \in SUBSET (1 .. m) |-> IF m \in s THEN g[s \ {m}] + b[m].size ELSE g[s]]
             Step(s) == IF s = {} THEN 0 ELSE h[s \ {Max(s)}] + b[Max(s)].size
  <2>3. \A s \in SUBSET (1 .. m) :
          IF m \in s THEN s \ {m} \in SUBSET (1 .. (m - 1)) ELSE s \in SUBSET (1 .. (m - 1))
    BY <2>0
  <2>4. h \in [SUBSET (1 .. m) -> Nat] BY <2>0, <2>3
  <2>5. ASSUME NEW s \in SUBSET (1 .. m) PROVE h[s] = Step(s)
    <3>1. CASE m \in s
      <4>1. m \in Nat BY <2>0
      <4>2. Max(s) = m BY <3>1, <4>1, MaxIsLast
      <4>3. h[s] = g[s \ {m}] + b[m].size BY <3>1
      <4>4. h[s \ {m}] = g[s \ {m}] BY <2>3, <3>1
      <4> QED BY <3>1, <4>2, <4>3, <4>4
    <3>2. CASE m \notin s
      <4>1. s \in SUBSET (1 .. (m - 1)) BY <2>3, <3>2
      <4>2. h[s] = g[s] BY <3>2
      <4>3. h[s \ {Max(s)}] = g[s \ {Max(s)}] BY <3>2
      <4>4. g[s] = IF s = {} THEN 0 ELSE g[s \ {Max(s)}] + b[Max(s)].size
        BY <2>2, <4>1 DEF PartSum
      <4> QED BY <4>2, <4>3, <4>4
    <3> QED BY <3>1, <3>2
  <2>6. PartSum(b, m, h)
    <3> HIDE DEF h
    <3>1. h = [s \in SUBSET (1 .. m) |-> h[s]] BY <2>4
    <3>2. h = [s \in SUBSET (1 .. m) |-> Step(s)] BY <2>5, <3>1
    <3> QED BY <3>2 DEF PartSum
  <2> HIDE DEF h
  <2>7. Has(m) BY <2>4, <2>6
  <2> QED BY <1>3, <2>7
<1> QED BY <1>3, <1>4, <1>5

SameTo(b, c, n) == \A i \in 1 .. n : b[i] = c[i]

LEMMA PartSumsAgree ==
  ASSUME NEW b \in Seq(Record), NEW c \in Seq(Record), NEW n \in Nat, NEW m \in Nat, n <= m,
         SameTo(b, c, n),
         NEW g, PartSum(b, n, g), NEW h, PartSum(c, m, h)
  PROVE g[1 .. n] = h[1 .. n]
<1> DEFINE T == {k \in 0 .. n : g[1 .. k] # h[1 .. k]}
<1>1. SUFFICES ASSUME T # {} PROVE FALSE OBVIOUS
<1>2. T \subseteq Nat OBVIOUS
<1>3. PICK k \in T : \A j \in T : k <= j BY <1>1, <1>2, LeastNat
<1>4. 1 .. k \in SUBSET (1 .. n) /\ 1 .. k \in SUBSET (1 .. m) OBVIOUS
<1>5. /\ g[1 .. k] = IF 1 .. k = {} THEN 0 ELSE g[(1 .. k) \ {Max(1 .. k)}] + b[Max(1 .. k)].size
      /\ h[1 .. k] = IF 1 .. k = {} THEN 0 ELSE h[(1 .. k) \ {Max(1 .. k)}] + c[Max(1 .. k)].size
  BY <1>4 DEF PartSum
<1>6. CASE k = 0 BY <1>5, <1>6
<1>7. CASE k > 0
  <2>1. k - 1 \in 0 .. n /\ k \in 1 .. n /\ k \in 1 .. k BY <1>7
  <2>2. k \in Nat /\ 1 .. k \in SUBSET (1 .. k) BY <2>1
  <2>3. Max(1 .. k) = k BY <2>1, <2>2, MaxIsLast
  <2>4. (1 .. k) \ {k} = 1 .. (k - 1) BY <2>1
  <2>5. g[1 .. (k - 1)] = h[1 .. (k - 1)] BY <1>3, <2>1
  <2>6. b[k] = c[k] BY <2>1 DEF SameTo
  <2> QED BY <1>3, <1>5, <2>1, <2>3, <2>4, <2>5, <2>6
<1> QED BY <1>6, <1>7

LEMMA TotalOf ==
  ASSUME NEW b \in Seq(Record)
  PROVE /\ Total(b) \in Nat
        /\ Total(<< >>) = 0
        /\ \A r \in Record : Total(Append(b, r)) = Total(b) + r.size
<1>0. \A r \in Record : r.size \in Nat BY LogManagerAssumption DEF Record
<1>1. ASSUME NEW c \in Seq(Record)
      PROVE \E g \in [SUBSET (1 .. Len(c)) -> Nat] :
              PartSum(c, Len(c), g) /\ Total(c) = g[1 .. Len(c)]
  <2>1. Len(c) \in 0 .. Len(c) /\ \A i \in 1 .. Len(c) : c[i].size \in Nat BY <1>0
  <2>2. PICK g \in [SUBSET (1 .. Len(c)) -> Nat] : PartSum(c, Len(c), g) BY <2>1, PartSumExists
  <2> DEFINE h == CHOOSE f : PartSum(c, Len(c), f)
  <2>3. PartSum(c, Len(c), h) BY <2>2
  <2> HIDE DEF h
  <2>4. SameTo(c, c, Len(c)) /\ Len(c) \in Nat /\ Len(c) <= Len(c) BY DEF SameTo
  <2>6. h[1 .. Len(c)] = g[1 .. Len(c)] BY <2>2, <2>3, <2>4, PartSumsAgree
  <2>5. Total(c) = h[1 .. Len(c)] BY DEF Total, h
  <2> QED BY <2>2, <2>5, <2>6
<1>2. Total(b) \in Nat BY <1>1
<1>3. Total(<< >>) = 0
  <2>1. << >> \in Seq(Record) /\ Len(<< >>) = 0 /\ 1 .. 0 = {} OBVIOUS
  <2>2. PICK g \in [SUBSET (1 .. 0) -> Nat] : PartSum(<< >>, 0, g) /\ Total(<< >>) = g[1 .. 0]
    BY <1>1, <2>1
  <2>3. g[{}] = 0 BY <2>1, <2>2 DEF PartSum
  <2> QED BY <2>1, <2>2, <2>3
<1>4. ASSUME NEW r \in Record PROVE Total(Append(b, r)) = Total(b) + r.size
  <2> DEFINE c == Append(b, r)
             n == Len(b)
  <2>1. /\ c \in Seq(Record) /\ Len(c) = n + 1 /\ n \in Nat
        /\ c[n + 1] = r /\ \A i \in 1 .. n : b[i] = c[i]
    OBVIOUS
  <2> HIDE DEF c, n
  <2>2. PICK h \in [SUBSET (1 .. (n + 1)) -> Nat] :
          PartSum(c, n + 1, h) /\ Total(c) = h[1 .. (n + 1)]
    BY <1>1, <2>1
  <2>3. PICK g \in [SUBSET (1 .. n) -> Nat] : PartSum(b, n, g) /\ Total(b) = g[1 .. n]
    BY <1>1 DEF n
  <2>4. g[1 .. n] = h[1 .. n]
    <3>1. n \in Nat /\ n + 1 \in Nat /\ n <= n + 1 BY <2>1
    <3>2. c \in Seq(Record) /\ SameTo(b, c, n) BY <2>1 DEF SameTo
    <3> QED BY <2>2, <2>3, <3>1, <3>2, PartSumsAgree
  <2>5. /\ (1 .. (n + 1)) \ {n + 1} = 1 .. n
        /\ n + 1 \in 1 .. (n + 1) /\ n + 1 \in Nat
    <3>1. n \in Nat BY <2>1
    <3> QED BY <3>1
  <2>6. 1 .. (n + 1) # {} BY <2>5
  <2>7. Max(1 .. (n + 1)) = n + 1 BY <2>5, MaxIsLast
  <2>8. h[1 .. (n + 1)] = h[1 .. n] + c[n + 1].size BY <2>2, <2>5, <2>6, <2>7 DEF PartSum
  <2> QED BY <2>1, <2>2, <2>3, <2>4, <2>8 DEF c
<1> QED BY <1>2, <1>3, <1>4

-----------------------------------------------------------------------------
\* A thread that will write without another look at the space knows of all that
\* is in the buffer: the others have appended it since its exchange of buffers.
FilledByOthers ==
  /\ filled \in [Threads -> Nat]
  /\ \A t \in Threads : WritesUnchecked(th[t]) => offset <= filled[t]

\* What a step of t does to the buffer: nothing, an exchange, or the writing of a
\* record, which fits unless t writes without another look.
KeepsBuffer(t, s) ==
  /\ WritesUnchecked(s) => WritesUnchecked(th[t])
  /\ UNCHANGED <<log_buffer, filled>>
EmptiesBuffer(t, s) == log_buffer' = << >> /\ UNCHANGED filled
TakesSpace(t, r, s) ==
  /\ ~WritesUnchecked(s)
  /\ TooSmall(r.size) => th[t].pc = "write" /\ r = th[t].rec
  /\ log_buffer' = Append(log_buffer, r)
  /\ filled' = [u \in Threads |->
                  IF u # t /\ WritesUnchecked(th[u]) THEN filled[u] + r.size ELSE 0]

SpaceKind(t, s) ==
  /\ th' = [th EXCEPT ![t] = s]
  /\ \/ KeepsBuffer(t, s) \/ EmptiesBuffer(t, s)
     \/ \E r \in Record : TakesSpace(t, r, s)

LEMMA WrittenChecks == ASSUME NEW r PROVE ~WritesUnchecked(Written(r))
  BY DEF Written, WritesUnchecked, Idle

LEMMA WriteSpace ==
  ASSUME NEW t \in Threads, NEW r \in Record, WriteRecord(t, r),
         TooSmall(r.size) => th[t].pc = "write" /\ r = th[t].rec
  PROVE \E s : SpaceKind(t, s)
<1> DEFINE s == Written(r)
<1>1. th' = [th EXCEPT ![t] = s] BY DEF WriteRecord, Goto, Written
<1>2. ~WritesUnchecked(s) BY WrittenChecks
<1>3. /\ log_buffer' = Append(log_buffer, r)
      /\ filled' = [u \in Threads |->
                      IF u # t /\ WritesUnchecked(th[u]) THEN filled[u] + r.size ELSE 0]
  BY DEF WriteRecord
<1> HIDE DEF s
<1>4. TakesSpace(t, r, s) BY <1>2, <1>3 DEF TakesSpace
<1> QED BY <1>1, <1>4 DEF SpaceKind

LEMMA FlushFirstSpace ==
  ASSUME NEW t \in Threads, NEW r, NEW back, FlushFirst(t, r, back)
  PROVE \E s : SpaceKind(t, s)
<1> DEFINE s == [pc |-> "flush", rec |-> r, back |-> back, before |-> ToSet(Log)]
<1>1. th' = [th EXCEPT ![t] = s] /\ UNCHANGED <<log_buffer, filled>> BY DEF FlushFirst, Goto
<1>2. ~WritesUnchecked(s) BY DEF WritesUnchecked
<1> HIDE DEF s
<1> QED BY <1>1, <1>2 DEF SpaceKind, KeepsBuffer

LEMMA AssignSpace ==
  ASSUME Types, NEW t \in Threads, th[t].pc \in {"append", "assign"}, Assign(t)
  PROVE \E s : SpaceKind(t, s)
<1> DEFINE r == DrawLSN(th[t].rec)
<1>1. th[t] \in State /\ th[t].rec \in Record BY StateFields DEF Types
<1>2. r \in Record BY <1>1, DrawType
<1>3. CASE FlushFirst(t, r, "write") BY <1>3, FlushFirstSpace
<1>4. CASE ~TooSmall(r.size) /\ WriteRecord(t, r)
  <2> HIDE DEF r
  <2> QED BY <1>2, <1>4, WriteSpace
<1> QED BY <1>3, <1>4 DEF Assign

LEMMA StepSpace == Types /\ Next => \E t \in Threads : \E s : SpaceKind(t, s)
<1> SUFFICES ASSUME Types, Next PROVE \E t \in Threads : \E s : SpaceKind(t, s) OBVIOUS
<1>0. \A t \in Threads : th[t] \in State BY DEF Types
<1>1. ASSUME NEW t \in Threads, NEW s, th' = [th EXCEPT ![t] = s], ~WritesUnchecked(s),
             UNCHANGED <<log_buffer, filled>>
      PROVE \E x : SpaceKind(t, x)
  BY <1>1 DEF SpaceKind, KeepsBuffer
<1>2. ASSUME NEW t \in Threads, NEW p \in Pages, LogPageChange(t, p)
      PROVE \E s : SpaceKind(t, s)
  <2> DEFINE s == [pc |-> "append", rec |-> NewLogRecord(t, "PAGE", p)]
  <2>1. ~WritesUnchecked(s) BY DEF WritesUnchecked
  <2>2. th' = [th EXCEPT ![t] = s] /\ UNCHANGED <<log_buffer, filled>>
    BY <1>2 DEF LogPageChange, Goto
  <2> HIDE DEF s
  <2> QED BY <1>1, <2>1, <2>2
<1>3. ASSUME NEW t \in Threads, NEW type \in LogRecordType \ {"PAGE"}, LogOther(t, type)
      PROVE \E s : SpaceKind(t, s)
  <2> DEFINE s == [pc |-> "append", rec |-> NewLogRecord(t, type, NoPage)]
  <2>1. ~WritesUnchecked(s) BY DEF WritesUnchecked
  <2>2. th' = [th EXCEPT ![t] = s] /\ UNCHANGED <<log_buffer, filled>>
    BY <1>3 DEF LogOther, Goto
  <2> HIDE DEF s
  <2> QED BY <1>1, <2>1, <2>2
<1>4. ASSUME NEW t \in Threads, CallFlush(t) PROVE \E s : SpaceKind(t, s)
  <2> DEFINE s == [pc |-> "flush", rec |-> NewLogRecord(t, "COMMIT", NoPage), back |-> "done",
                   before |-> ToSet(Log)]
  <2>1. ~WritesUnchecked(s) BY DEF WritesUnchecked
  <2>2. th' = [th EXCEPT ![t] = s] /\ UNCHANGED <<log_buffer, filled>>
    BY <1>4 DEF CallFlush, Goto
  <2> HIDE DEF s
  <2> QED BY <1>1, <2>1, <2>2
<1>5. ASSUME NEW t \in Threads, AppendLogRecord(t) PROVE \E s : SpaceKind(t, s)
  <2>1. th[t].pc = "append" BY <1>5 DEF AppendLogRecord
  <2>2. CASE Assign(t) BY <2>1, <2>2, AssignSpace
  <2>3. CASE FlushFirst(t, th[t].rec, "assign") BY <2>3, FlushFirstSpace
  <2> QED BY <1>5, <2>2, <2>3 DEF AppendLogRecord
<1>6. ASSUME NEW t \in Threads, ContinueAppend(t) PROVE \E s : SpaceKind(t, s)
  <2>1. CASE th[t].pc = "assign" /\ Assign(t) BY <2>1, AssignSpace
  <2>2. CASE th[t].pc = "write" /\ WriteRecord(t, th[t].rec)
    <3>1. th[t].rec \in Record BY <1>0, <2>2, StateFields
    <3> QED BY <2>2, <3>1, WriteSpace
  <2> QED BY <1>6, <2>1, <2>2 DEF ContinueAppend
<1>7. ASSUME NEW t \in Threads, SwapBuffers(t) PROVE \E s : SpaceKind(t, s)
  BY <1>7 DEF SwapBuffers, Goto, SpaceKind, EmptiesBuffer
<1>8. ASSUME NEW t \in Threads, EndFlush(t) PROVE \E s : SpaceKind(t, s)
  <2> DEFINE s == IF th[t].back = "done" THEN Idle ELSE [pc |-> th[t].back, rec |-> th[t].rec]
  <2>1. /\ th[t].pc = "writing" /\ th' = [th EXCEPT ![t] = s]
        /\ UNCHANGED <<log_buffer, filled>>
    BY <1>8 DEF EndFlush, Return, Goto
  <2>2. th[t].back \in {"done", "assign", "write"} BY <1>0, <2>1, StateFields
  <2>3. WritesUnchecked(s) => WritesUnchecked(th[t])
    BY <2>1, <2>2 DEF WritesUnchecked, Idle
  <2> HIDE DEF s
  <2> QED BY <2>1, <2>3 DEF SpaceKind, KeepsBuffer
<1>9. ASSUME NEW t \in Threads, Panic(t) PROVE \E s : SpaceKind(t, s)
  <2>1. th' = [th EXCEPT ![t] = th[t]] /\ UNCHANGED <<log_buffer, filled>>
    BY <1>9 DEF Panic, vars, Types
  <2> QED BY <2>1 DEF SpaceKind, KeepsBuffer
<1> QED BY <1>2, <1>3, <1>4, <1>5, <1>6, <1>7, <1>8, <1>9 DEF Next

\* The invariant is kept, and a step that overruns the buffer is the unchecked
\* write of a thread that the others have left too little space.
LEMMA SpaceStep ==
  ASSUME Types, Types', FilledByOthers, NEW t \in Threads, NEW s, SpaceKind(t, s)
  PROVE /\ FilledByOthers'
        /\ ~Overrun /\ Overrun' =>
             /\ th[t].pc = "write" /\ th'[t] # th[t]
             /\ filled[t] > LogBufferSize - th[t].rec.size
<1> USE LogManagerAssumption
<1>0. th' = [th EXCEPT ![t] = s] BY DEF SpaceKind
<1>1. th'[t] = s /\ \A u \in Threads : u # t => th'[u] = th[u] BY <1>0 DEF Types
<1>2. /\ log_buffer \in Seq(Record) /\ log_buffer' \in Seq(Record)
      /\ offset = Total(log_buffer) /\ offset' = Total(log_buffer')
  BY OffsetIsTotal DEF Types
<1>3. offset \in Nat /\ \A u \in Threads : filled[u] \in Nat
  BY <1>2, TotalOf DEF FilledByOthers
<1>4. CASE KeepsBuffer(t, s)
  <2>1. offset' = offset /\ filled' = filled BY <1>2, <1>4 DEF KeepsBuffer
  <2>2. ~Overrun => ~Overrun' BY <2>1 DEF Overrun
  <2>3. ASSUME NEW u \in Threads, WritesUnchecked(th'[u]) PROVE offset' <= filled'[u]
    <3>1. WritesUnchecked(th[u]) BY <1>1, <1>4, <2>3 DEF KeepsBuffer
    <3> QED BY <2>1, <3>1 DEF FilledByOthers
  <2> QED BY <2>1, <2>2, <2>3 DEF FilledByOthers
<1>5. CASE EmptiesBuffer(t, s)
  <2>1. offset' = 0 /\ filled' = filled BY <1>2, <1>5, TotalOf DEF EmptiesBuffer
  <2>2. ~Overrun' BY <2>1 DEF Overrun
  <2>3. \A u \in Threads : offset' <= filled'[u] BY <1>3, <2>1
  <2> QED BY <2>1, <2>2, <2>3 DEF FilledByOthers
<1>6. ASSUME NEW r \in Record, TakesSpace(t, r, s)
      PROVE /\ FilledByOthers'
            /\ ~Overrun /\ Overrun' =>
                 /\ th[t].pc = "write" /\ th'[t] # th[t]
                 /\ filled[t] > LogBufferSize - th[t].rec.size
  <2>1. offset' = offset + r.size BY <1>2, <1>6, TotalOf DEF TakesSpace
  <2>2. r.size \in Nat BY DEF Record
  <2>3. /\ filled' = [u \in Threads |->
                        IF u # t /\ WritesUnchecked(th[u]) THEN filled[u] + r.size ELSE 0]
        /\ ~WritesUnchecked(th'[t])
    BY <1>1, <1>6 DEF TakesSpace
  <2>4. filled' \in [Threads -> Nat]
    <3>1. \A u \in Threads : filled[u] + r.size \in Nat BY <1>3, <2>2
    <3> QED BY <2>3, <3>1
  <2>5. ASSUME NEW u \in Threads, WritesUnchecked(th'[u]) PROVE offset' <= filled'[u]
    <3>1. u # t /\ WritesUnchecked(th[u]) BY <1>1, <2>3, <2>5
    <3>2. offset <= filled[u] BY <3>1 DEF FilledByOthers
    <3>3. filled'[u] = filled[u] + r.size BY <2>3, <3>1
    <3> QED BY <1>3, <2>1, <2>2, <3>2, <3>3
  <2>6. ASSUME Overrun'
        PROVE /\ th[t].pc = "write" /\ th'[t] # th[t]
              /\ filled[t] > LogBufferSize - th[t].rec.size
    <3>1. offset + r.size > LogBufferSize BY <2>1, <2>6 DEF Overrun
    <3>2. TooSmall(r.size) BY <1>3, <2>2, <3>1 DEF TooSmall
    <3>3. th[t].pc = "write" /\ r = th[t].rec BY <1>6, <3>2 DEF TakesSpace
    <3>4. WritesUnchecked(th[t]) BY <3>3 DEF WritesUnchecked
    <3>5. offset <= filled[t] BY <3>4 DEF FilledByOthers
    <3>6. filled[t] > LogBufferSize - th[t].rec.size BY <1>3, <2>2, <3>1, <3>3, <3>5
    <3> QED BY <2>3, <3>3, <3>4, <3>6
  <2> QED BY <2>4, <2>5, <2>6 DEF FilledByOthers
<1> QED BY <1>4, <1>5, <1>6 DEF SpaceKind

LEMMA SpaceInit == Init => FilledByOthers
<1> SUFFICES ASSUME Init PROVE FilledByOthers OBVIOUS
<1>1. \A t \in Threads : ~WritesUnchecked(th[t]) BY Idling DEF Init, WritesUnchecked
<1>2. filled \in [Threads -> Nat] BY DEF Init
<1> QED BY <1>1, <1>2 DEF FilledByOthers

SpaceInv == ReplayInv /\ FilledByOthers /\ persistent_lsn \in Nat \cup {InvalidLSN}

LEMMA SpaceInvInit == Init => SpaceInv BY ReplayInit, SpaceInit DEF Init, SpaceInv

LEMMA PersistedStep ==
  ASSUME Types, [Next]_vars, persistent_lsn \in Nat \cup {InvalidLSN}
  PROVE persistent_lsn' \in Nat \cup {InvalidLSN}
<1>1. ASSUME NEW t \in Threads, EndFlush(t) PROVE persistent_lsn' \in Nat
  <2>1. th[t] \in State /\ th[t].pc = "writing" BY <1>1 DEF Types, EndFlush
  <2>2. th[t].lsn \in Nat BY <2>1, StateFields
  <2> QED BY <1>1, <2>2 DEF EndFlush
<1>2. CASE UNCHANGED persistent_lsn BY <1>2
<1> QED BY <1>1, <1>2 DEF Next, vars, lsns, LogPageChange, LogOther, CallFlush,
      AppendLogRecord, ContinueAppend, SwapBuffers, Panic

LEMMA SpaceInvStep ==
  ASSUME SpaceInv, [Next]_vars
  PROVE /\ SpaceInv'
        /\ [~Overrun /\ Overrun' =>
              \E t \in Threads :
                /\ th[t].pc = "write" /\ th'[t] # th[t]
                /\ filled[t] > LogBufferSize - th[t].rec.size]_vars
<1>1. ReplayInv' BY ReplayInvStep DEF SpaceInv
<1>2. Types /\ Types' /\ FilledByOthers BY <1>1 DEF SpaceInv, ReplayInv
<1>3. persistent_lsn' \in Nat \cup {InvalidLSN} BY <1>2, PersistedStep DEF SpaceInv
<1>4. CASE Next
  <2>1. PICK t \in Threads : \E s : SpaceKind(t, s) BY <1>2, <1>4, StepSpace
  <2>2. /\ FilledByOthers'
        /\ ~Overrun /\ Overrun' =>
             /\ th[t].pc = "write" /\ th'[t] # th[t]
             /\ filled[t] > LogBufferSize - th[t].rec.size
    BY <1>2, <2>1, SpaceStep
  <2> QED BY <1>1, <1>3, <2>2 DEF SpaceInv
<1>5. CASE UNCHANGED vars
  <2>1. UNCHANGED <<log_buffer, th, filled>> BY <1>5 DEF vars
  <2>2. offset' = offset BY <1>2, <2>1, OffsetIsTotal DEF Types
  <2>3. FilledByOthers' BY <1>2, <2>1, <2>2 DEF FilledByOthers
  <2> QED BY <1>1, <1>3, <1>5, <2>3 DEF SpaceInv
<1> QED BY <1>4, <1>5

\* The variables have their types, and exactly the thread between the exchange of
\* buffers and the end of WriteLog has the mutex of Flush.
THEOREM LogManagerTypeCorrect == Spec => []TypeOK
<1>1. SpaceInv => TypeOK
  <2> SUFFICES ASSUME SpaceInv PROVE TypeOK OBVIOUS
  <2>1. Types /\ FlushMutex /\ filled \in [Threads -> Nat]
    BY DEF SpaceInv, ReplayInv, FilledByOthers
  <2>2. \A t \in Threads : th[t].pc \in {"idle", "append", "assign", "write", "flush", "writing"}
    BY <2>1, StateFields DEF Types
  <2> QED BY <2>1, <2>2 DEF TypeOK, Types, FlushMutex, SpaceInv
<1> QED BY <1>1, SpaceInvInit, SpaceInvStep, PTL DEF Spec

\* The log buffer is overrun only by a record that is written, without another look
\* at the space, after a flush during which the others appended more than the record
\* leaves: for any number of threads and records, any sizes and any flushes.
THEOREM OnlyOthersOverrun == Spec => OverrunNeedsOthers
<1> DEFINE Step == ~Overrun /\ Overrun' =>
                     \E t \in Threads :
                       /\ th[t].pc = "write" /\ th'[t] # th[t]
                       /\ filled[t] > LogBufferSize - th[t].rec.size
<1>1. SpaceInv /\ [Next]_vars => SpaceInv' /\ [Step]_vars BY SpaceInvStep
<1>2. Spec => [][Step]_vars BY <1>1, SpaceInvInit, PTL DEF Spec
<1> QED BY <1>2 DEF OverrunNeedsOthers

=============================================================================
