--------------------------- MODULE RecoveryProofs ---------------------------
(***************************************************************************)
(* Write ahead, the types of what Redo and Undo make of the pages, and     *)
(* that a restart ends with what was committed, for any pages,             *)
(* transactions, tuples and log length.                                    *)
(*                                                                         *)
(* WriteAhead is not inductive: it compares LSNs, so one must know that    *)
(* LSNs are drawn in ascending order, that is, that what a page or a       *)
(* record carries was drawn before.  This is lost at the first restart,    *)
(* where next_lsn starts again from what the log file happens to hold; the *)
(* invariant speaks of the time before.                                    *)
(*                                                                         *)
(* RecoveryIsExact says nothing before Undo is done.  What leads to it is  *)
(* a history of the pages, one for every record of the log: each is the    *)
(* one before it with the record redone, the cache is the last of them,    *)
(* and a page on disk is what it was at its LSN.  Redo then rebuilds the   *)
(* last pages of the log file, and Undo goes back, rid by rid, to where    *)
(* the records of the transaction that had not committed begin.            *)
(***************************************************************************)
EXTENDS Recovery, SequenceTheorems, FiniteSetTheorems, WellFoundedInduction, TLAPS

\* An LSN that was drawn before n.
DrawnBefore(lsn, n) == lsn \in Nat /\ lsn < n

\* Every LSN in the buffer, the cache and the db file has been drawn.
LSNsDrawn ==
  /\ next_lsn \in Nat
  /\ log_buffer \in Seq(Range(log_buffer))
  /\ \A i \in DOMAIN log_buffer : DrawnBefore(log_buffer[i].lsn, next_lsn)
  /\ cache = [p \in Page |-> cache[p]] /\ disk = [p \in Page |-> disk[p]]
  /\ \A p \in Page : DrawnBefore(cache[p].lsn, next_lsn) /\ DrawnBefore(disk[p].lsn, next_lsn)

SomePageChanged == \E p, slots : ChangePage(p, slots)

WriteAheadInv ==
  /\ crashes \in Nat
  /\ crashes = 0 => phase \in {"up", "checkpoint"} /\ LSNsDrawn /\ WriteAhead

-----------------------------------------------------------------------------
\* A sequence with one more element is a sequence, of whatever that element is.
LEMMA AppendSeq ==
  ASSUME NEW s, s \in Seq(Range(s)), NEW e
  PROVE  /\ Append(s, e) \in Seq(Range(Append(s, e)))
         /\ DOMAIN Append(s, e) = DOMAIN s \cup {Len(s) + 1}
         /\ \A i \in DOMAIN s : Append(s, e)[i] = s[i]
         /\ Append(s, e)[Len(s) + 1] = e
<1> DEFINE S == Range(s) \cup {e}
           w == Append(s, e)
<1>1. s \in Seq(S) /\ e \in S
  OBVIOUS
<1> HIDE DEF S
<1>2. /\ w \in Seq(S) /\ Len(w) = Len(s) + 1 /\ Len(s) \in Nat
      /\ DOMAIN w = 1..Len(w) /\ DOMAIN s = 1..Len(s)
      /\ \A i \in 1..Len(s) : w[i] = s[i]
      /\ w[Len(s) + 1] = e
  BY <1>1
<1> HIDE DEF w
<1>3. w \in Seq(Range(w))
  BY <1>2 DEF Range
<1> QED BY <1>2, <1>3 DEF w

\* A record enters the log with an LSN above all those drawn so far, and with
\* it possibly the page it describes: both are ahead of what is on disk.
LEMMA LogKeepsInv ==
  ASSUME WriteAheadInv, NEW rec, rec.lsn = next_lsn, AppendLogRecord(rec),
         UNCHANGED pageVars \/ SomePageChanged,
         UNCHANGED <<phase, crashes>>
  PROVE  WriteAheadInv'
<1> SUFFICES ASSUME crashes = 0
             PROVE  LSNsDrawn' /\ WriteAhead'
  BY DEF WriteAheadInv
<1> USE DEF WriteAheadInv
<1>1. /\ log_buffer' \in Seq(Range(log_buffer'))
      /\ DOMAIN log_buffer' = DOMAIN log_buffer \cup {Len(log_buffer) + 1}
      /\ \A i \in DOMAIN log_buffer : log_buffer'[i] = log_buffer[i]
      /\ log_buffer'[Len(log_buffer) + 1] = rec
  BY AppendSeq DEF AppendLogRecord, LSNsDrawn
<1>2. next_lsn' = next_lsn + 1 /\ next_lsn \in Nat
  BY DEF AppendLogRecord, LSNsDrawn
<1>3. \A i \in DOMAIN log_buffer' : DrawnBefore(log_buffer'[i].lsn, next_lsn')
  BY <1>1, <1>2 DEF LSNsDrawn, DrawnBefore
<1>4. /\ cache' = [p \in Page |-> cache'[p]] /\ disk' = disk
      /\ \A p \in Page : cache'[p].lsn \in {cache[p].lsn, next_lsn}
  BY DEF LSNsDrawn, pageVars, SomePageChanged, ChangePage
<1>5. LSNsDrawn'
  <2>1. \A n : DrawnBefore(n, next_lsn) => DrawnBefore(n, next_lsn')
    BY <1>2 DEF DrawnBefore
  <2>2. DrawnBefore(next_lsn, next_lsn')
    BY <1>2 DEF DrawnBefore
  <2>3. \A p \in Page : DrawnBefore(cache'[p].lsn, next_lsn') /\ DrawnBefore(disk'[p].lsn, next_lsn')
    BY <1>4, <2>1, <2>2 DEF LSNsDrawn
  <2> QED BY <1>1, <1>2, <1>3, <1>4, <2>3 DEF LSNsDrawn
<1>6. WriteAhead'
  <2> SUFFICES ASSUME phase = "up", NEW p \in Page, NEW i \in DOMAIN log_buffer',
                      OfPage(p, log_buffer'[i])
               PROVE  disk'[p].lsn < log_buffer'[i].lsn
    BY DEF WriteAhead, LogBeforePage
  <2>1. CASE i \in DOMAIN log_buffer
    BY <1>1, <1>4, <2>1 DEF WriteAhead, LogBeforePage
  <2>2. CASE i = Len(log_buffer) + 1
    BY <1>1, <1>4, <2>2 DEF LSNsDrawn, DrawnBefore
  <2> QED BY <1>1, <2>1, <2>2
<1> QED BY <1>5, <1>6

\* With an empty buffer nothing can be ahead of the log.
LEMMA FlushKeepsInv ==
  ASSUME WriteAheadInv, Flush,
         UNCHANGED pageVars \/ \E p \in Page : WritePage(p),
         phase' \in {phase, "up"}, UNCHANGED crashes
  PROVE  WriteAheadInv'
<1> SUFFICES ASSUME crashes = 0
             PROVE  phase' \in {"up", "checkpoint"} /\ LSNsDrawn' /\ WriteAhead'
  BY DEF WriteAheadInv
<1> USE DEF WriteAheadInv
<1>1. log_buffer' = <<>> /\ DOMAIN log_buffer' = {} /\ next_lsn' = next_lsn
  BY DEF Flush
<1>2. log_buffer' \in Seq(Range(log_buffer'))
  BY <1>1
<1>3. /\ cache' = cache /\ disk' = [p \in Page |-> disk'[p]]
      /\ \A p \in Page : disk'[p] \in {disk[p], cache[p]}
  BY DEF LSNsDrawn, pageVars, WritePage
<1> QED BY <1>1, <1>2, <1>3 DEF LSNsDrawn, WriteAhead, LogBeforePage

\* What changes neither log nor pages, while the database is up.
LEMMA QuietKeepsInv ==
  ASSUME WriteAheadInv, UNCHANGED <<log_buffer, next_lsn, cache, disk, crashes>>,
         phase' \in {phase, "checkpoint"}
  PROVE  WriteAheadInv'
BY DEF WriteAheadInv, LSNsDrawn, WriteAhead, LogBeforePage, OfPage, HasRid

\* A checkpoint writes pages ahead of the log: WriteAhead speaks of "up".
LEMMA CheckpointPageKeepsInv ==
  ASSUME WriteAheadInv, NEW p \in Page, CheckpointPage(p)
  PROVE  WriteAheadInv'
<1>1. /\ log_buffer' = log_buffer /\ next_lsn' = next_lsn /\ crashes' = crashes
      /\ phase = "checkpoint" /\ phase' = phase /\ cache' = cache
  BY DEF CheckpointPage, WritePage, logVars, recoveryVars
<1> SUFFICES ASSUME crashes = 0 PROVE LSNsDrawn'
  BY <1>1 DEF WriteAheadInv, WriteAhead
<1>2. /\ disk' = [q \in Page |-> disk'[q]]
      /\ \A q \in Page : disk'[q] \in {disk[q], cache[q]}
  BY DEF WriteAheadInv, LSNsDrawn, CheckpointPage, WritePage
<1> QED BY <1>1, <1>2 DEF WriteAheadInv, LSNsDrawn

LEMMA WriteAheadInit == Init => WriteAheadInv
<1> SUFFICES ASSUME Init PROVE WriteAheadInv
  OBVIOUS
<1>0. crashes = 0 /\ phase = "up"
  BY DEF Init
<1>1. log_buffer = <<>> /\ DOMAIN log_buffer = {} /\ next_lsn = 1
  BY DEF Init
<1>2. log_buffer \in Seq(Range(log_buffer))
  BY <1>1
<1>3. PICK slots : disk = [p \in Page |-> [slots |-> slots[p], lsn |-> 0]]
  <2>1. PICK content : disk = [p \in Page |-> [slots |-> [i \in SlotOf(p) |-> content[<<p, i>>]], lsn |-> 0]]
    BY DEF Init
  <2> DEFINE s == [p \in Page |-> [i \in SlotOf(p) |-> content[<<p, i>>]]]
  <2>2. disk = [p \in Page |-> [slots |-> s[p], lsn |-> 0]]
    BY <2>1
  <2> QED BY <2>2
<1>4. cache = disk
  BY DEF Init
<1> QED BY <1>0, <1>1, <1>2, <1>3, <1>4 DEF WriteAheadInv, LSNsDrawn, DrawnBefore, WriteAhead, LogBeforePage

\* The first crash ends what the invariant is about, and a restart follows one.
LEMMA WriteAheadNext == WriteAheadInv /\ [Next]_vars => WriteAheadInv'
<1> SUFFICES ASSUME WriteAheadInv, [Next]_vars PROVE WriteAheadInv'
  OBVIOUS
<1> USE DEF recoveryVars
<1>1. ASSUME NEW t \in Txn, Transact(t) PROVE WriteAheadInv'
  <2> USE DEF Log, Record
  <2>1. CASE Begin(t)
    BY <2>1, LogKeepsInv DEF Begin
  <2>2. ASSUME NEW p \in Page, NEW v \in Value, DoInsert(t, p, v) PROVE WriteAheadInv'
    <3>1. SomePageChanged
      BY <2>2 DEF DoInsert, SomePageChanged
    <3> QED BY <2>2, <3>1, LogKeepsInv DEF DoInsert
  <2>3. ASSUME NEW r \in Rid, NEW v \in Value, DoUpdate(t, r, v) PROVE WriteAheadInv'
    <3>1. SomePageChanged
      BY <2>3 DEF DoUpdate, SomePageChanged
    <3> QED BY <2>3, <3>1, LogKeepsInv DEF DoUpdate
  <2>4. ASSUME NEW r \in Rid, DoMarkDelete(t, r) PROVE WriteAheadInv'
    <3>1. SomePageChanged
      BY <2>4 DEF DoMarkDelete, SomePageChanged
    <3> QED BY <2>4, <3>1, LogKeepsInv DEF DoMarkDelete
  <2>5. CASE CommitRecord(t)
    <3>1. SomePageChanged
      BY <2>5 DEF CommitRecord, SomePageChanged
    <3> QED BY <2>5, <3>1, LogKeepsInv DEF CommitRecord
  <2>6. CASE CommitLog(t)
    BY <2>6, LogKeepsInv DEF CommitLog
  <2>7. CASE CommitEnd(t)
    BY <2>7, FlushKeepsInv DEF CommitEnd
  <2>8. CASE AbortRecord(t)
    <3>1. SomePageChanged
      BY <2>8 DEF AbortRecord, SomePageChanged
    <3> QED BY <2>8, <3>1, LogKeepsInv DEF AbortRecord
  <2>9. CASE AbortEnd(t)
    BY <2>9, LogKeepsInv DEF AbortEnd
  <2> QED BY <1>1, <2>1, <2>2, <2>3, <2>4, <2>5, <2>6, <2>7, <2>8, <2>9 DEF Transact
<1>2. CASE FlushLogBuffer
  BY <1>2, FlushKeepsInv DEF FlushLogBuffer
<1>3. CASE BeginCheckpoint
  BY <1>3, QuietKeepsInv DEF BeginCheckpoint, logVars, pageVars
<1>4. CASE EndCheckpoint
  BY <1>4, FlushKeepsInv DEF EndCheckpoint
<1>5. ASSUME NEW p \in Page, EvictPage(p) PROVE WriteAheadInv'
  BY <1>5, FlushKeepsInv DEF EvictPage
<1>6. ASSUME NEW p \in Page, CheckpointPage(p) PROVE WriteAheadInv'
  BY <1>6, CheckpointPageKeepsInv
<1>7. CASE Crash
  BY <1>7 DEF Crash, WriteAheadInv
<1>8. CASE Restart
  BY <1>8 DEF Restart, Redo, GCLogFile, FlushAllPages, Undo, WriteAheadInv
<1>9. CASE UNCHANGED vars
  BY <1>9, QuietKeepsInv DEF vars, logVars, pageVars
<1> QED
  BY <1>1, <1>2, <1>3, <1>4, <1>5, <1>6, <1>7, <1>8, <1>9 DEF Next, Background

\* Until the first crash, whenever no checkpoint is under way, no page in the
\* db file has seen a record that is not in the log file (Flush before
\* WritePage in FetchPage and NewPage, Flush at the end of the checkpoint),
\* whatever transactions, evictions and checkpoints came before.
THEOREM WriteAheadHolds == Spec => []WriteAhead
<1>1. WriteAheadInv => WriteAhead
  BY DEF WriteAheadInv, WriteAhead, LogBeforePage
<1> QED BY <1>1, WriteAheadInit, WriteAheadNext, PTL DEF Spec

-----------------------------------------------------------------------------
(***************************************************************************)
(* Types.  Redo and Undo are folds over the log: recursive functions over  *)
(* the subsets of its positions.  Such a function exists, by induction     *)
(* over the number of positions.                                           *)
(***************************************************************************)
LEMMA LeastNat ==
  ASSUME NEW T, T \subseteq Nat, T # {}
  PROVE  \E x \in T : \A y \in T : x <= y
<1>1. PICK x \in T : \A y \in T : ~(<<y, x>> \in OpToRel(<, Nat))
  BY NatLessThanWellFounded, WFMin, Zenon
<1>2. \A y \in T : ~(y < x)
  BY <1>1 DEF OpToRel
<1> QED BY <1>2

\* A fold that starts from base, takes the positions D in the order that c gives
\* and does with each of them what F says.
IsFold(g, D, c, F, base) ==
  \A s \in SUBSET D : g[s] = IF s = {} THEN base ELSE F[<<g[s \ {c[s]}], c[s]>>]

LEMMA FoldExists ==
  ASSUME NEW D, IsFiniteSet(D), NEW c, \A s \in SUBSET D : s # {} => c[s] \in s,
         NEW S, NEW F \in [S \X D -> S], NEW base \in S
  PROVE \E g \in [SUBSET D -> S] : IsFold(g, D, c, F, base)
<1> DEFINE Low(k) == {s \in SUBSET D : Cardinality(s) <= k}
           Step(g, s) == IF s = {} THEN base ELSE F[<<g[s \ {c[s]}], c[s]>>]
           Has(k) == \E g \in [Low(k) -> S] : \A s \in Low(k) : g[s] = Step(g, s)
           T == {k \in Nat : ~Has(k)}
<1>1. \A s \in SUBSET D : IsFiniteSet(s) /\ Cardinality(s) \in Nat /\ Cardinality(s) <= Cardinality(D)
  BY FS_Subset, FS_CardinalityType
<1>2. \A s \in SUBSET D : s # {} =>
        c[s] \in D /\ s \ {c[s]} \in SUBSET D /\ Cardinality(s \ {c[s]}) = Cardinality(s) - 1
  BY <1>1, FS_RemoveElement
<1>3. ASSUME T # {} PROVE FALSE
  <2>1. T \subseteq Nat OBVIOUS
  <2>2. PICK m \in T : \A k \in T : m <= k
    <3> HIDE DEF T
    <3> QED BY <1>3, <2>1, LeastNat
  <2>3. CASE m = 0
    <3> DEFINE g == [s \in Low(0) |-> base]
    <3>1. \A s \in Low(0) : s = {}
      <4> SUFFICES ASSUME NEW s \in Low(0), s # {} PROVE FALSE OBVIOUS
      <4>1. s \in SUBSET D /\ Cardinality(s) = 0 BY <1>1
      <4> QED BY <1>1, <4>1, FS_EmptySet
    <3>2. g \in [Low(0) -> S] /\ \A s \in Low(0) : g[s] = Step(g, s) BY <3>1
    <3> QED BY <2>2, <2>3, <3>2
  <2>4. CASE m > 0
    <3>0. m \in Nat /\ m - 1 \in Nat BY <2>4
    <3>1. m - 1 \notin T
      <4> HIDE DEF T
      <4> QED BY <2>2, <3>0
    <3>2. Has(m - 1)
      <4> HIDE DEF Has
      <4> QED BY <3>0, <3>1
    <3>3. PICK g \in [Low(m - 1) -> S] : \A s \in Low(m - 1) : g[s] = Step(g, s) BY <3>2
    <3>4. /\ Low(m - 1) \subseteq Low(m)
          /\ \A s \in Low(m) : s # {} => s \ {c[s]} \in Low(m - 1) /\ c[s] \in D
          /\ {} \in Low(m - 1)
      <4>1. Low(m - 1) \subseteq Low(m) BY <1>1, <3>0
      <4>2. \A s \in Low(m) : s # {} => s \ {c[s]} \in Low(m - 1) /\ c[s] \in D
        BY <1>1, <1>2, <3>0
      <4>3. {} \in Low(m - 1) BY <3>0, FS_EmptySet
      <4> QED BY <4>1, <4>2, <4>3
    <3> DEFINE h == [s \in Low(m) |-> IF s \in Low(m - 1) THEN g[s] ELSE Step(g, s)]
    <3> HIDE DEF Low
    <3>5. h \in [Low(m) -> S]
      <4> SUFFICES ASSUME NEW s \in Low(m), s \notin Low(m - 1) PROVE Step(g, s) \in S OBVIOUS
      <4>1. s # {} BY <3>4
      <4>2. g[s \ {c[s]}] \in S /\ c[s] \in D BY <3>4, <4>1
      <4> QED BY <4>1, <4>2
    <3>6. \A s \in Low(m) : h[s] = Step(h, s)
      <4> SUFFICES ASSUME NEW s \in Low(m) PROVE h[s] = Step(h, s) OBVIOUS
      <4>1. h[s] = Step(g, s) BY <3>3
      <4>2. s # {} => h[s \ {c[s]}] = g[s \ {c[s]}] BY <3>4
      <4> QED BY <4>1, <4>2
    <3> HIDE DEF h
    <3>7. Has(m) BY <3>5, <3>6
    <3> QED BY <2>2, <3>7
  <2> QED BY <2>2, <2>3, <2>4
<1>4. Cardinality(D) \in Nat BY FS_CardinalityType
<1>5. Has(Cardinality(D))
  <2> HIDE DEF Has
  <2> QED BY <1>3, <1>4
<1>6. Low(Cardinality(D)) = SUBSET D BY <1>1
<1>7. PICK g \in [SUBSET D -> S] : \A s \in SUBSET D : g[s] = Step(g, s) BY <1>5, <1>6
<1> QED BY <1>7 DEF IsFold

\* The greatest and the least position.
LEMMA MaxMin ==
  ASSUME NEW n \in Nat, NEW s \in SUBSET (1 .. n), s # {}
  PROVE /\ Max(s) \in s /\ \A x \in s : x <= Max(s)
        /\ Min(s) \in s /\ \A x \in s : Min(s) <= x
<1> DEFINE T == {n - x : x \in s}
<1>1. T \subseteq Nat
  <2>1. \A x \in 1 .. n : n - x \in Nat OBVIOUS
  <2> QED BY <2>1
<1>0. T # {} OBVIOUS
<1>2. s \subseteq Nat OBVIOUS
<1>3. PICK d \in T : \A e \in T : d <= e BY <1>0, <1>1, LeastNat
<1>4. PICK m \in s : d = n - m BY <1>3
<1>5. \A y \in s : m >= y BY <1>3, <1>4
<1>6. Max(s) \in s /\ \A y \in s : Max(s) >= y BY <1>5 DEF Max
<1>7. PICK l \in s : \A y \in s : l <= y BY <1>2, LeastNat
<1>8. Min(s) \in s /\ \A y \in s : Min(s) <= y BY <1>7 DEF Min
<1> QED BY <1>6, <1>8

LEMMA MaxMinOfInterval ==
  ASSUME NEW n \in Nat, NEW k \in 1 .. n
  PROVE /\ Max(1 .. k) = k /\ (1 .. k) \ {k} = 1 .. (k - 1)
        /\ Min(k .. n) = k /\ (k .. n) \ {k} = (k + 1) .. n
<1>1. 1 .. k \in SUBSET (1 .. n) /\ k .. n \in SUBSET (1 .. n) /\ k \in 1 .. k /\ k \in k .. n
  OBVIOUS
<1>2. Max(1 .. k) \in 1 .. k /\ k <= Max(1 .. k) BY <1>1, MaxMin
<1>3. Min(k .. n) \in k .. n /\ Min(k .. n) <= k BY <1>1, MaxMin
<1>4. (1 .. k) \ {k} = 1 .. (k - 1) /\ (k .. n) \ {k} = (k + 1) .. n OBVIOUS
<1> HIDE DEF Max, Min
<1>5. Max(1 .. k) = k /\ Min(k .. n) = k BY <1>2, <1>3
<1> QED BY <1>4, <1>5

SlotState == {FreeSlot} \cup [tuple : Value, deleted : BOOLEAN]
Tuple == Value \cup {NoTuple}
PageSlots(p) == [SlotOf(p) -> SlotState]
PageType == [slots : UNION {PageSlots(p) : p \in Page}, lsn : Nat]
Pages == {pages \in [Page -> PageType] : \A p \in Page : pages[p].slots \in PageSlots(p)}

PageOperation == {"INSERT", "APPLYDELETE", "MARKDELETE", "ROLLBACKDELETE", "UPDATE"}
LogRecord ==
  {rec \in [lsn : Nat, txn : Txn, type : PageOperation \cup {"BEGIN", "COMMIT", "ABORT"},
            rid : Rid \cup {NoRid}, old : Tuple, new : Tuple] :
     HasRid(rec) <=> rec.type \in PageOperation}
WriteRecord == [wtype : {"INSERT", "UPDATE", "DELETE"}, rid : Rid, old : Tuple]

Types ==
  /\ log_buffer \in Seq(LogRecord) /\ log_file \in Seq(LogRecord) /\ next_lsn \in Nat
  /\ cache \in Pages /\ disk \in Pages /\ dirty \subseteq Page
  /\ txn \in [Txn -> TxnState] /\ write_set \in [Txn -> Seq(WriteRecord)]
  /\ lock \in [Rid -> Txn \cup {NoTxn}]
  /\ phase \in Phase /\ active_txn \subseteq Txn
  /\ committed \in [Rid -> Tuple]

LEMMA RidParts ==
  /\ \A r \in Rid : /\ r = <<r[1], r[2]>> /\ r[1] \in Page /\ r[2] \in SlotOf(r[1]) /\ r # NoRid
  /\ \A p \in Page : \A i \in SlotOf(p) : <<p, i>> \in Rid
  /\ \A p \in Page : SlotOf(p) \subseteq Nat
  BY RecoveryAssumption DEF Rid, NoRid, SlotOf

LEMMA SlotFacts ==
  /\ FreeSlot \in SlotState /\ FreeSlot.tuple = NoTuple /\ FreeSlot.deleted = FALSE
  /\ \A v \in Tuple : Live(v) \in SlotState /\ Live(v).tuple = v /\ Live(v).deleted = FALSE
  /\ \A s \in SlotState : /\ s.tuple \in Tuple /\ s.deleted \in BOOLEAN
                          /\ s = [tuple |-> s.tuple, deleted |-> s.deleted]
                          /\ s.tuple = NoTuple => s = FreeSlot
                          /\ s.tuple # NoTuple => s.tuple \in Value
<1>1. FreeSlot \in SlotState /\ FreeSlot.tuple = NoTuple /\ FreeSlot.deleted = FALSE
  BY DEF SlotState, FreeSlot
<1>2. ASSUME NEW v \in Tuple
      PROVE Live(v) \in SlotState /\ Live(v).tuple = v /\ Live(v).deleted = FALSE
  <2>1. CASE v = NoTuple BY <1>1, <2>1 DEF Live, FreeSlot
  <2>2. CASE v \in Value BY <2>2 DEF Live, SlotState
  <2> QED BY <2>1, <2>2 DEF Tuple
<1>3. ASSUME NEW s \in SlotState
      PROVE /\ s.tuple \in Tuple /\ s.deleted \in BOOLEAN
            /\ s = [tuple |-> s.tuple, deleted |-> s.deleted]
            /\ s.tuple = NoTuple => s = FreeSlot
            /\ s.tuple # NoTuple => s.tuple \in Value
  <2>1. CASE s = FreeSlot BY <2>1 DEF FreeSlot, Tuple
  <2>2. CASE s \in [tuple : Value, deleted : BOOLEAN] BY <2>2, RecoveryAssumption DEF Tuple
  <2> QED BY <2>1, <2>2 DEF SlotState
<1> QED BY <1>1, <1>2, <1>3

\* A slot with its delete mark set or taken away.
LEMMA MarkFacts ==
  ASSUME NEW s \in SlotState
  PROVE /\ ~IsDeleted(s) => /\ [s EXCEPT !.deleted = TRUE] \in SlotState
                            /\ [s EXCEPT !.deleted = TRUE].tuple = s.tuple
                            /\ [s EXCEPT !.deleted = TRUE].deleted = TRUE
        /\ [s EXCEPT !.deleted = FALSE] \in SlotState
        /\ [s EXCEPT !.deleted = FALSE].tuple = s.tuple
        /\ [s EXCEPT !.deleted = FALSE].deleted = FALSE
<1>1. CASE s = FreeSlot
  <2>1. IsDeleted(s) BY <1>1 DEF FreeSlot, IsDeleted
  <2>2. [FreeSlot EXCEPT !.deleted = FALSE] = FreeSlot
    <3>1. FreeSlot \in [tuple : {NoTuple}, deleted : {FALSE}] BY DEF FreeSlot
    <3> HIDE DEF FreeSlot
    <3> QED BY <3>1
  <2> QED BY <1>1, <2>1, <2>2, SlotFacts
<1>2. CASE s \in [tuple : Value, deleted : BOOLEAN] BY <1>2 DEF SlotState
<1> QED BY <1>1, <1>2 DEF SlotState

LEMMA RecordFacts ==
  ASSUME NEW rec \in LogRecord
  PROVE /\ rec.lsn \in Nat /\ rec.txn \in Txn /\ rec.old \in Tuple /\ rec.new \in Tuple
        /\ HasRid(rec) <=> rec.type \in PageOperation
        /\ HasRid(rec) => rec.rid \in Rid
        /\ ~HasRid(rec) => rec.type \in {"BEGIN", "COMMIT", "ABORT"}
  BY DEF LogRecord, HasRid

LEMMA PageFacts ==
  /\ \A pages \in Pages, p \in Page :
       /\ pages[p].slots \in PageSlots(p) /\ pages[p].lsn \in Nat
       /\ pages[p] = [slots |-> pages[p].slots, lsn |-> pages[p].lsn]
  /\ \A pages \in Pages, p \in Page : \A slots \in PageSlots(p), lsn \in Nat :
       [pages EXCEPT ![p] = [slots |-> slots, lsn |-> lsn]] \in Pages
  /\ \A pages \in Pages, p \in Page : \A slots \in PageSlots(p) :
       [pages EXCEPT ![p].slots = slots] \in Pages
  BY DEF Pages, PageType

LEMMA ContentType == ASSUME NEW pages \in Pages, NEW r \in Rid PROVE Content(pages, r) \in Tuple
<1>1. pages[r[1]].slots[r[2]] \in SlotState BY RidParts, PageFacts DEF PageSlots
<1> QED BY <1>1, SlotFacts DEF Content, Tuple

\* A free slot that is found is the first one.
LEMMA FirstFreeSlot ==
  ASSUME NEW p \in Page, NEW slots \in PageSlots(p), FreeSlots(slots) # {}
  PROVE FirstFree(slots) \in SlotOf(p) /\ slots[FirstFree(slots)].tuple = NoTuple
<1>1. FreeSlots(slots) \subseteq SlotOf(p) /\ \A i \in FreeSlots(slots) : slots[i].tuple = NoTuple
  BY DEF FreeSlots, PageSlots
<1>2. FreeSlots(slots) \subseteq Nat BY <1>1, RidParts
<1> HIDE DEF FreeSlots
<1>3. \E i \in FreeSlots(slots) : \A j \in FreeSlots(slots) : i <= j BY <1>2, LeastNat
<1>4. FirstFree(slots) \in FreeSlots(slots) BY <1>3 DEF FirstFree
<1> QED BY <1>1, <1>4

\* What the page operations do to the slots: they keep their types, and change only
\* the slot they are about.
LEMMA SlotOperations ==
  ASSUME NEW p \in Page, NEW slots \in PageSlots(p), NEW i \in SlotOf(p), NEW v \in Tuple
  PROVE /\ ApplyDelete(slots, i) = [slots EXCEPT ![i] = FreeSlot]
        /\ InsertTuple(slots, v) \in PageSlots(p) /\ ApplyDelete(slots, i) \in PageSlots(p)
        /\ MarkDelete(slots, i) \in PageSlots(p) /\ RollbackDelete(slots, i) \in PageSlots(p)
        /\ UpdateTuple(slots, i, v) \in PageSlots(p)
<1>1. slots[i] \in SlotState /\ FreeSlot \in SlotState /\ Live(v) \in SlotState
  BY SlotFacts DEF PageSlots
<1>2. InsertTuple(slots, v) \in PageSlots(p)
  <2>1. CASE FreeSlots(slots) = {} BY <2>1 DEF InsertTuple
  <2>2. CASE FreeSlots(slots) # {}
    <3>1. FirstFree(slots) \in SlotOf(p) BY <2>2, FirstFreeSlot
    <3> HIDE DEF FirstFree, Live
    <3> QED BY <1>1, <2>2, <3>1 DEF InsertTuple, PageSlots
  <2> QED BY <2>1, <2>2
<1>3. ApplyDelete(slots, i) \in PageSlots(p) /\ ApplyDelete(slots, i) = [slots EXCEPT ![i] = FreeSlot]
  BY <1>1 DEF ApplyDelete, PageSlots
<1>4. MarkDelete(slots, i) \in PageSlots(p)
  <2>1. CASE IsDeleted(slots[i]) BY <2>1 DEF MarkDelete
  <2>2. CASE ~IsDeleted(slots[i])
    <3>1. [slots[i] EXCEPT !.deleted = TRUE] \in SlotState
      BY <1>1, <2>2, MarkFacts
    <3>2. MarkDelete(slots, i) = [slots EXCEPT ![i] = [slots[i] EXCEPT !.deleted = TRUE]]
      BY <2>2 DEF MarkDelete, PageSlots
    <3> QED BY <3>1, <3>2 DEF PageSlots
  <2> QED BY <2>1, <2>2
<1>5. RollbackDelete(slots, i) \in PageSlots(p)
  <2>1. [slots[i] EXCEPT !.deleted = FALSE] \in SlotState BY <1>1, MarkFacts
  <2>2. RollbackDelete(slots, i) = [slots EXCEPT ![i] = [slots[i] EXCEPT !.deleted = FALSE]]
    BY DEF RollbackDelete, PageSlots
  <2> QED BY <2>1, <2>2 DEF PageSlots
<1>6. UpdateTuple(slots, i, v) \in PageSlots(p) BY <1>1 DEF UpdateTuple, PageSlots
<1> QED BY <1>2, <1>3, <1>4, <1>5, <1>6

LEMMA EffectTypes ==
  ASSUME NEW p \in Page, NEW slots \in PageSlots(p), NEW rec \in LogRecord, OfPage(p, rec)
  PROVE RedoEffect(slots, rec) \in PageSlots(p) /\ UndoEffect(slots, rec) \in PageSlots(p)
<1>1. rec.rid[2] \in SlotOf(p) /\ rec.old \in Tuple /\ rec.new \in Tuple /\ rec.type \in PageOperation
  BY RecordFacts, RidParts DEF OfPage
<1> QED BY <1>1, SlotOperations DEF RedoEffect, UndoEffect, PageOperation

\* Redo goes through the log from its first record to its last: its fold is the last
\* of a sequence of states.
RecoveryState == [pages : Pages, panic : BOOLEAN]

LEMMA RedoType ==
  ASSUME NEW st \in RecoveryState, NEW rec \in LogRecord
  PROVE RedoRecord(st, rec) \in RecoveryState
<1>1. CASE ~HasRid(rec) \/ Seen(st.pages[rec.rid[1]], rec) BY <1>1 DEF RedoRecord
<1>2. CASE HasRid(rec) /\ ~Seen(st.pages[rec.rid[1]], rec)
  <2> DEFINE p == rec.rid[1]
             slots == RedoEffect(st.pages[p].slots, rec)
             panic == st.panic \/ RedoPanics(st.pages[p].slots, rec)
  <2>1. p \in Page /\ OfPage(p, rec) /\ rec.lsn \in Nat BY <1>2, RecordFacts, RidParts DEF OfPage
  <2>2. st.pages \in Pages BY DEF RecoveryState
  <2>3. slots \in PageSlots(p) BY <2>1, <2>2, PageFacts, EffectTypes
  <2>4. [st.pages EXCEPT ![p] = [slots |-> slots, lsn |-> rec.lsn]] \in Pages
    BY <2>1, <2>2, <2>3, PageFacts
  <2>5. panic \in BOOLEAN BY DEF RecoveryState
  <2>6. RedoRecord(st, rec) =
          [pages |-> [st.pages EXCEPT ![p] = [slots |-> slots, lsn |-> rec.lsn]], panic |-> panic]
    BY <1>2 DEF RedoRecord
  <2> HIDE DEF slots, panic, p
  <2> QED BY <2>4, <2>5, <2>6 DEF RecoveryState
<1> QED BY <1>1, <1>2

RedoFold(log, base) == FoldLeft(RedoRecord, base, log)

LEMMA RedoSteps ==
  ASSUME NEW log \in Seq(LogRecord), NEW base \in RecoveryState
  PROVE \E f \in [0 .. Len(log) -> RecoveryState] :
          /\ f[0] = base
          /\ \A k \in 1 .. Len(log) : f[k] = RedoRecord(f[k - 1], log[k])
          /\ f[Len(log)] = RedoFold(log, base)
<1> DEFINE n == Len(log)
           D == 1 .. n
           Is(g) == g = [s \in SUBSET D |-> IF s = {} THEN base
                                            ELSE RedoRecord(g[s \ {Max(s)}], log[Max(s)])]
           c == [s \in SUBSET D |-> Max(s)]
           F == [x \in RecoveryState \X D |-> RedoRecord(x[1], log[x[2]])]
<1>0. n \in Nat /\ DOMAIN log = D /\ \A i \in D : log[i] \in LogRecord OBVIOUS
<1>1. RedoFold(log, base) = (CHOOSE g : Is(g))[D]
  BY <1>0 DEF RedoFold, FoldLeft, MapThenFoldSet
<1>2. IsFiniteSet(D) /\ \A s \in SUBSET D : s # {} => c[s] \in s
  <2>1. IsFiniteSet(D) BY <1>0, FS_Interval
  <2>2. \A s \in SUBSET D : s # {} => Max(s) \in s BY <1>0, MaxMin
  <2> QED BY <2>1, <2>2
<1>3. F \in [RecoveryState \X D -> RecoveryState] BY <1>0, RedoType
<1>4. PICK g \in [SUBSET D -> RecoveryState] : IsFold(g, D, c, F, base)
  <2> HIDE DEF D, c, F
  <2> QED BY <1>2, <1>3, FoldExists
<1>5. Is(g)
  <2>1. ASSUME NEW s \in SUBSET D, s # {} PROVE g[s] = RedoRecord(g[s \ {Max(s)}], log[Max(s)])
    <3>1. Max(s) \in s /\ c[s] = Max(s) BY <1>0, <2>1, MaxMin
    <3>2. g[s] = F[<<g[s \ {Max(s)}], Max(s)>>] BY <1>4, <2>1, <3>1 DEF IsFold
    <3>3. g[s \ {Max(s)}] \in RecoveryState /\ Max(s) \in D BY <3>1
    <3> HIDE DEF Max
    <3> QED BY <3>2, <3>3
  <2>2. g[{}] = base BY <1>4 DEF IsFold
  <2>3. g = [s \in SUBSET D |-> g[s]] OBVIOUS
  <2> HIDE DEF D
  <2> QED BY <2>1, <2>2, <2>3
<1> DEFINE h == CHOOSE q : Is(q)
<1>6. Is(h)
  <2> HIDE DEF Is
  <2> QED BY <1>5
<1> HIDE DEF h
<1>7. h[{}] = base /\ {} = 1 .. 0 BY <1>6
<1>8. ASSUME NEW k \in 1 .. n PROVE h[1 .. k] = RedoRecord(h[1 .. (k - 1)], log[k])
  <2>1. 1 .. k \in SUBSET D /\ 1 .. k # {} BY <1>0
  <2>2. h[1 .. k] = RedoRecord(h[(1 .. k) \ {Max(1 .. k)}], log[Max(1 .. k)]) BY <1>6, <2>1
  <2> QED BY <1>0, <2>2, MaxMinOfInterval
<1> DEFINE f == [k \in 0 .. n |-> h[1 .. k]]
           T == {k \in 0 .. n : f[k] \notin RecoveryState}
<1>9. f[0] = base /\ \A k \in 1 .. n : f[k] = RedoRecord(f[k - 1], log[k])
  BY <1>0, <1>7, <1>8
<1>10. T = {}
  <2> SUFFICES ASSUME T # {} PROVE FALSE OBVIOUS
  <2> HIDE DEF f
  <2>1. T \subseteq Nat OBVIOUS
  <2>2. PICK k \in T : \A j \in T : k <= j BY <2>1, LeastNat
  <2>3. k # 0 BY <1>9
  <2>4. k \in 1 .. n /\ k - 1 \in 0 .. n /\ k - 1 \notin T BY <2>2, <2>3
  <2>5. f[k - 1] \in RecoveryState BY <2>4
  <2> QED BY <1>0, <1>9, <2>4, <2>5, RedoType
<1>11. f \in [0 .. n -> RecoveryState] BY <1>10
<1>12. f[n] = RedoFold(log, base) BY <1>0, <1>1 DEF h
<1> HIDE DEF f
<1> QED BY <1>9, <1>11, <1>12

\* Undo goes through it from its last record to its first.
LEMMA UndoType ==
  ASSUME NEW t, NEW st \in RecoveryState, NEW rec \in LogRecord
  PROVE UndoRecord(t, st, rec) \in RecoveryState
<1>1. CASE rec.txn # t \/ ~HasRid(rec) BY <1>1 DEF UndoRecord
<1>2. CASE rec.txn = t /\ HasRid(rec)
  <2> DEFINE p == rec.rid[1]
             slots == UndoEffect(st.pages[p].slots, rec)
             panic == st.panic \/ UndoPanics(st.pages[p].slots, rec)
  <2>1. p \in Page /\ OfPage(p, rec) BY <1>2, RecordFacts, RidParts DEF OfPage
  <2>2. st.pages \in Pages BY DEF RecoveryState
  <2>3. slots \in PageSlots(p) BY <2>1, <2>2, PageFacts, EffectTypes
  <2>4. [st.pages EXCEPT ![p].slots = slots] \in Pages BY <2>1, <2>2, <2>3, PageFacts
  <2>5. panic \in BOOLEAN BY DEF RecoveryState
  <2>6. UndoRecord(t, st, rec) = [pages |-> [st.pages EXCEPT ![p].slots = slots], panic |-> panic]
    BY <1>2, <2>1, <2>2 DEF UndoRecord
  <2> HIDE DEF slots, panic, p
  <2> QED BY <2>4, <2>5, <2>6 DEF RecoveryState
<1> QED BY <1>1, <1>2

UndoFold(t, log, base) == FoldRight(LAMBDA rec, s : UndoRecord(t, s, rec), log, base)

LEMMA UndoSteps ==
  ASSUME NEW t, NEW log \in Seq(LogRecord), NEW base \in RecoveryState
  PROVE \E f \in [1 .. Len(log) + 1 -> RecoveryState] :
          /\ f[Len(log) + 1] = base
          /\ \A k \in 1 .. Len(log) : f[k] = UndoRecord(t, f[k + 1], log[k])
          /\ f[1] = UndoFold(t, log, base)
<1> DEFINE n == Len(log)
           D == 1 .. n
           Is(g) == g = [s \in SUBSET D |-> IF s = {} THEN base
                                            ELSE UndoRecord(t, g[s \ {Min(s)}], log[Min(s)])]
           c == [s \in SUBSET D |-> Min(s)]
           F == [x \in RecoveryState \X D |-> UndoRecord(t, x[1], log[x[2]])]
<1>0. n \in Nat /\ DOMAIN log = D /\ \A i \in D : log[i] \in LogRecord OBVIOUS
<1>1. UndoFold(t, log, base) = (CHOOSE g : Is(g))[D]
  BY <1>0 DEF UndoFold, FoldRight, MapThenFoldSet
<1>2. IsFiniteSet(D) /\ \A s \in SUBSET D : s # {} => c[s] \in s
  <2>1. IsFiniteSet(D) BY <1>0, FS_Interval
  <2>2. \A s \in SUBSET D : s # {} => Min(s) \in s BY <1>0, MaxMin
  <2> QED BY <2>1, <2>2
<1>3. F \in [RecoveryState \X D -> RecoveryState] BY <1>0, UndoType
<1>4. PICK g \in [SUBSET D -> RecoveryState] : IsFold(g, D, c, F, base)
  <2> HIDE DEF D, c, F
  <2> QED BY <1>2, <1>3, FoldExists
<1>5. Is(g)
  <2>1. ASSUME NEW s \in SUBSET D, s # {} PROVE g[s] = UndoRecord(t, g[s \ {Min(s)}], log[Min(s)])
    <3>1. Min(s) \in s /\ c[s] = Min(s) BY <1>0, <2>1, MaxMin
    <3>2. g[s] = F[<<g[s \ {Min(s)}], Min(s)>>] BY <1>4, <2>1, <3>1 DEF IsFold
    <3>3. g[s \ {Min(s)}] \in RecoveryState /\ Min(s) \in D BY <3>1
    <3> HIDE DEF Min
    <3> QED BY <3>2, <3>3
  <2>2. g[{}] = base BY <1>4 DEF IsFold
  <2>3. g = [s \in SUBSET D |-> g[s]] OBVIOUS
  <2> HIDE DEF D
  <2> QED BY <2>1, <2>2, <2>3
<1> DEFINE h == CHOOSE q : Is(q)
<1>6. Is(h)
  <2> HIDE DEF Is
  <2> QED BY <1>5
<1> HIDE DEF h
<1>7. h[{}] = base /\ {} = (n + 1) .. n BY <1>0, <1>6
<1>8. ASSUME NEW k \in 1 .. n PROVE h[k .. n] = UndoRecord(t, h[(k + 1) .. n], log[k])
  <2>1. k .. n \in SUBSET D /\ k .. n # {} BY <1>0
  <2>2. h[k .. n] = UndoRecord(t, h[(k .. n) \ {Min(k .. n)}], log[Min(k .. n)]) BY <1>6, <2>1
  <2> QED BY <1>0, <2>2, MaxMinOfInterval
<1> DEFINE f == [k \in 1 .. n + 1 |-> h[k .. n]]
           T == {j \in 0 .. n : f[n + 1 - j] \notin RecoveryState}
<1>9. f[n + 1] = base /\ \A k \in 1 .. n : f[k] = UndoRecord(t, f[k + 1], log[k])
  <2>1. \A k \in 1 .. n + 1 : f[k] = h[k .. n] OBVIOUS
  <2>2. n + 1 \in 1 .. n + 1 /\ \A k \in 1 .. n : k \in 1 .. n + 1 /\ k + 1 \in 1 .. n + 1 BY <1>0
  <2> HIDE DEF f, D
  <2> QED BY <1>7, <1>8, <2>1, <2>2
<1>10. T = {}
  <2> SUFFICES ASSUME T # {} PROVE FALSE OBVIOUS
  <2> HIDE DEF f
  <2>1. T \subseteq Nat OBVIOUS
  <2>2. PICK j \in T : \A i \in T : j <= i BY <2>1, LeastNat
  <2>3. j # 0 BY <1>0, <1>9
  <2>4. j \in 1 .. n /\ j - 1 \in 0 .. n /\ j - 1 \notin T BY <2>2, <2>3
  <2>5. f[n + 1 - (j - 1)] \in RecoveryState BY <2>4
  <2>6. n + 1 - j \in 1 .. n /\ n + 1 - (j - 1) = (n + 1 - j) + 1 BY <1>0, <2>4
  <2>7. f[n + 1 - j] = UndoRecord(t, f[(n + 1 - j) + 1], log[n + 1 - j]) BY <1>9, <2>6
  <2>8. log[n + 1 - j] \in LogRecord BY <1>0, <2>6
  <2>9. f[n + 1 - j] \in RecoveryState BY <2>5, <2>6, <2>7, <2>8, UndoType
  <2> QED BY <2>9
<1>11. f \in [1 .. n + 1 -> RecoveryState]
  <2>1. \A k \in 1 .. n + 1 : n + 1 - k \in 0 .. n /\ n + 1 - (n + 1 - k) = k BY <1>0
  <2>2. \A k \in 1 .. n + 1 : f[k] \in RecoveryState
    <3> HIDE DEF f
    <3> QED BY <1>10, <2>1
  <2> QED BY <2>2
<1>12. f[1] = UndoFold(t, log, base) BY <1>0, <1>1 DEF h
<1> HIDE DEF f
<1> QED BY <1>9, <1>11, <1>12

\* The greatest LSN of the log.
Greater(m, rec) == IF rec.lsn > m THEN rec.lsn ELSE m
GreatestFold(log) == FoldLeft(LAMBDA m, rec : IF rec.lsn > m THEN rec.lsn ELSE m, 0, log)

LEMMA GreatestSteps ==
  ASSUME NEW log \in Seq(LogRecord)
  PROVE \E f \in [0 .. Len(log) -> Nat] :
          /\ f[0] = 0
          /\ \A k \in 1 .. Len(log) : f[k] = Greater(f[k - 1], log[k])
          /\ f[Len(log)] = GreatestFold(log)
<1> DEFINE n == Len(log)
           D == 1 .. n
           Is(g) == g = [s \in SUBSET D |-> IF s = {} THEN 0
                                            ELSE Greater(g[s \ {Max(s)}], log[Max(s)])]
           c == [s \in SUBSET D |-> Max(s)]
           F == [x \in Nat \X D |-> Greater(x[1], log[x[2]])]
<1>0. n \in Nat /\ DOMAIN log = D /\ \A i \in D : log[i] \in LogRecord OBVIOUS
<1>1. GreatestFold(log) = (CHOOSE g : Is(g))[D]
  BY <1>0 DEF GreatestFold, Greater, FoldLeft, MapThenFoldSet
<1>2. IsFiniteSet(D) /\ \A s \in SUBSET D : s # {} => c[s] \in s
  <2>1. IsFiniteSet(D) BY <1>0, FS_Interval
  <2>2. \A s \in SUBSET D : s # {} => Max(s) \in s BY <1>0, MaxMin
  <2> QED BY <2>1, <2>2
<1>3. F \in [Nat \X D -> Nat] BY <1>0, RecordFacts DEF Greater
<1>4. PICK g \in [SUBSET D -> Nat] : IsFold(g, D, c, F, 0)
  <2> HIDE DEF D, c, F
  <2> QED BY <1>2, <1>3, FoldExists
<1>5. Is(g)
  <2>1. ASSUME NEW s \in SUBSET D, s # {} PROVE g[s] = Greater(g[s \ {Max(s)}], log[Max(s)])
    <3>1. Max(s) \in s /\ c[s] = Max(s) BY <1>0, <2>1, MaxMin
    <3>2. g[s] = F[<<g[s \ {Max(s)}], Max(s)>>] BY <1>4, <2>1, <3>1 DEF IsFold
    <3>3. g[s \ {Max(s)}] \in Nat /\ Max(s) \in D BY <3>1
    <3> HIDE DEF Max
    <3> QED BY <3>2, <3>3
  <2>2. g[{}] = 0 BY <1>4 DEF IsFold
  <2>3. g = [s \in SUBSET D |-> g[s]] OBVIOUS
  <2> HIDE DEF D
  <2> QED BY <2>1, <2>2, <2>3
<1> DEFINE h == CHOOSE q : Is(q)
<1>6. Is(h)
  <2> HIDE DEF Is
  <2> QED BY <1>5
<1> HIDE DEF h
<1>7. h[{}] = 0 /\ {} = 1 .. 0 BY <1>6
<1>8. ASSUME NEW k \in 1 .. n PROVE h[1 .. k] = Greater(h[1 .. (k - 1)], log[k])
  <2>1. 1 .. k \in SUBSET D /\ 1 .. k # {} BY <1>0
  <2>2. h[1 .. k] = Greater(h[(1 .. k) \ {Max(1 .. k)}], log[Max(1 .. k)]) BY <1>6, <2>1
  <2> QED BY <1>0, <2>2, MaxMinOfInterval
<1> DEFINE f == [k \in 0 .. n |-> h[1 .. k]]
           T == {k \in 0 .. n : f[k] \notin Nat}
<1>9. f[0] = 0 /\ \A k \in 1 .. n : f[k] = Greater(f[k - 1], log[k])
  BY <1>0, <1>7, <1>8
<1>10. T = {}
  <2> SUFFICES ASSUME T # {} PROVE FALSE OBVIOUS
  <2> HIDE DEF f
  <2>1. T \subseteq Nat OBVIOUS
  <2>2. PICK k \in T : \A j \in T : k <= j BY <2>1, LeastNat
  <2>3. k # 0 BY <1>9
  <2>4. k \in 1 .. n /\ k - 1 \in 0 .. n /\ k - 1 \notin T BY <2>2, <2>3
  <2>5. f[k - 1] \in Nat BY <2>4
  <2> QED BY <1>0, <1>9, <2>4, <2>5, RecordFacts DEF Greater
<1>11. f \in [0 .. n -> Nat] BY <1>10
<1>12. f[n] = GreatestFold(log) BY <1>0, <1>1 DEF h
<1> HIDE DEF f
<1> QED BY <1>9, <1>11, <1>12

LEMMA GreatestBound ==
  ASSUME NEW log \in Seq(LogRecord), NEW b \in Nat, \A i \in 1 .. Len(log) : log[i].lsn <= b
  PROVE GreatestFold(log) \in Nat /\ GreatestFold(log) <= b
<1> DEFINE n == Len(log)
<1>0. n \in Nat /\ \A i \in 1 .. n : log[i].lsn \in Nat BY RecordFacts
<1>1. PICK f \in [0 .. n -> Nat] :
        /\ f[0] = 0 /\ \A k \in 1 .. n : f[k] = Greater(f[k - 1], log[k])
        /\ f[n] = GreatestFold(log)
  BY GreatestSteps
<1> HIDE DEF n
<1> DEFINE T == {k \in 0 .. n : f[k] > b}
<1>2. T = {}
  <2> SUFFICES ASSUME T # {} PROVE FALSE OBVIOUS
  <2>1. T \subseteq Nat OBVIOUS
  <2>2. PICK k \in T : \A j \in T : k <= j BY <2>1, LeastNat
  <2>3. k # 0 BY <1>1
  <2>4. k \in 1 .. n /\ k - 1 \in 0 .. n /\ k - 1 \notin T
    <3>1. k \in 1 .. n /\ k - 1 \in 0 .. n BY <1>0, <2>3
    <3> HIDE DEF T
    <3> QED BY <2>2, <3>1
  <2>5. f[k - 1] <= b /\ f[k - 1] \in Nat BY <2>4
  <2>6. log[k].lsn <= b BY <2>4 DEF n
  <2> QED BY <1>1, <2>4, <2>5, <2>6 DEF Greater
<1>3. n \in 0 .. n /\ n \notin T BY <1>0, <1>2
<1>4. f[n] <= b BY <1>3
<1> QED BY <1>0, <1>1, <1>4

LEMMA NewRecord ==
  ASSUME Types, NEW t \in Txn, NEW type, NEW r, NEW old \in Tuple, NEW new \in Tuple,
         \/ type \in PageOperation /\ r \in Rid
         \/ type \in {"BEGIN", "COMMIT", "ABORT"} /\ r = NoRid
  PROVE Record(t, type, r, old, new) \in LogRecord
<1>1. r \in Rid => r # NoRid BY RidParts
<1>2. type \in PageOperation => type \notin {"BEGIN", "COMMIT", "ABORT"} BY DEF PageOperation
<1> HIDE DEF NoRid
<1> QED BY <1>1, <1>2 DEF Record, LogRecord, HasRid, Types

LEMMA LogTypes ==
  ASSUME Types, NEW rec \in LogRecord, AppendLogRecord(rec)
  PROVE log_buffer' \in Seq(LogRecord) /\ log_file' \in Seq(LogRecord) /\ next_lsn' \in Nat
  BY DEF AppendLogRecord, Types

LEMMA ChangeTypes ==
  ASSUME Types, NEW p \in Page, NEW slots \in PageSlots(p), ChangePage(p, slots)
  PROVE cache' \in Pages /\ disk' \in Pages /\ dirty' \subseteq Page
<1>1. cache' \in Pages BY PageFacts DEF ChangePage, Types
<1> QED BY <1>1 DEF ChangePage, Types

LEMMA FlushTypes ==
  ASSUME Types, Flush
  PROVE /\ log_buffer' \in Seq(LogRecord) /\ log_file' \in Seq(LogRecord) /\ next_lsn' \in Nat
        /\ committed' \in [Rid -> Tuple]
<1>1. \A r \in Rid : Content(cache, r) \in Tuple /\ committed[r] \in Tuple
  BY ContentType DEF Types
<1> HIDE DEF Content
<1>2. committed' \in [Rid -> Tuple] BY <1>1 DEF Flush
<1>3. log_file \o log_buffer \in Seq(LogRecord) BY DEF Types
<1> QED BY <1>2, <1>3 DEF Flush, Types

LEMMA WritePageTypes ==
  ASSUME Types, NEW p \in Page, WritePage(p)
  PROVE cache' \in Pages /\ disk' \in Pages /\ dirty' \subseteq Page
<1>1. [disk EXCEPT ![p] = [slots |-> cache[p].slots, lsn |-> cache[p].lsn]] \in Pages
  BY PageFacts DEF Types
<1>2. cache[p] = [slots |-> cache[p].slots, lsn |-> cache[p].lsn] BY PageFacts DEF Types
<1> QED BY <1>1, <1>2 DEF WritePage, Types

\* The last delete of a write set, and the parts of it that Commit and Abort keep.
LEMMA WriteSetFacts ==
  ASSUME Types, NEW t \in Txn
  PROVE /\ write_set[t] \in Seq(WriteRecord)
        /\ Deletes(t) # {} =>
             /\ LastDelete(t) \in 1 .. Len(write_set[t])
             /\ write_set[t][LastDelete(t)] \in WriteRecord
             /\ write_set[t][LastDelete(t)].wtype = "DELETE"
             /\ SubSeq(write_set[t], 1, LastDelete(t) - 1) \in Seq(WriteRecord)
        /\ write_set[t] # << >> =>
             /\ Len(write_set[t]) \in 1 .. Len(write_set[t])
             /\ LastRecord(t) = write_set[t][Len(write_set[t])]
             /\ LastRecord(t) \in WriteRecord
             /\ Front(write_set[t]) \in Seq(WriteRecord)
<1> DEFINE ws == write_set[t]
<1>1. ws \in Seq(WriteRecord) BY DEF Types
<1>2. ASSUME Deletes(t) # {}
      PROVE /\ LastDelete(t) \in 1 .. Len(ws)
            /\ ws[LastDelete(t)].wtype = "DELETE"
  <2>1. Deletes(t) \subseteq 1 .. Len(ws) /\ \A i \in Deletes(t) : ws[i].wtype = "DELETE"
    BY <1>1 DEF Deletes
  <2>2. Len(ws) \in Nat BY <1>1
  <2> HIDE DEF Deletes
  <2>3. Max(Deletes(t)) \in Deletes(t) /\ \A j \in Deletes(t) : j <= Max(Deletes(t))
    BY <1>2, <2>1, <2>2, MaxMin
  <2>4. LastDelete(t) \in Deletes(t)
    <3> HIDE DEF Max
    <3> QED BY <2>3 DEF LastDelete
  <2> QED BY <2>1, <2>4
<1> HIDE DEF LastDelete
<1>3. ASSUME Deletes(t) # {}
      PROVE SubSeq(ws, 1, LastDelete(t) - 1) \in Seq(WriteRecord) /\ ws[LastDelete(t)] \in WriteRecord
  BY <1>1, <1>2, <1>3
<1>4. ASSUME ws # << >>
      PROVE /\ Len(ws) \in 1 .. Len(ws) /\ LastRecord(t) = ws[Len(ws)]
            /\ LastRecord(t) \in WriteRecord /\ Front(ws) \in Seq(WriteRecord)
  BY <1>1, <1>4 DEF LastRecord, Last, Front
<1> QED BY <1>1, <1>2, <1>3, <1>4

LEMMA OwnTypes ==
  ASSUME Types, NEW t \in Txn, NEW r \in Rid, NEW wtype \in {"INSERT", "UPDATE", "DELETE"},
         NEW old \in Tuple, Own(t, r), AddIntoWriteSet(t, wtype, r, old)
  PROVE lock' \in [Rid -> Txn \cup {NoTxn}] /\ write_set' \in [Txn -> Seq(WriteRecord)]
<1>1. [wtype |-> wtype, rid |-> r, old |-> old] \in WriteRecord BY DEF WriteRecord
<1>2. Append(write_set[t], [wtype |-> wtype, rid |-> r, old |-> old]) \in Seq(WriteRecord)
  BY <1>1 DEF Types
<1>3. lock' \in [Rid -> Txn \cup {NoTxn}] BY DEF Own, Types
<1>4. write_set' = [write_set EXCEPT ![t] = Append(write_set[t], [wtype |-> wtype, rid |-> r, old |-> old])]
  BY DEF AddIntoWriteSet, Types
<1> QED BY <1>2, <1>3, <1>4 DEF Types

LEMMA ReleaseTypes ==
  ASSUME Types, NEW t, ReleaseLocks(t) PROVE lock' \in [Rid -> Txn \cup {NoTxn}]
  BY DEF Types, ReleaseLocks

LEMMA TransactTypes ==
  ASSUME Types, NEW t \in Txn, Transact(t)
  PROVE Types'
<1>0. /\ NoTuple \in Tuple /\ Value \subseteq Tuple
      /\ cache \in Pages /\ \A r \in Rid : cache[r[1]].slots \in PageSlots(r[1])
      /\ \A r \in Rid : cache[r[1]].slots[r[2]].tuple \in Tuple
  <2>1. cache \in Pages BY DEF Types
  <2>2. \A r \in Rid : cache[r[1]].slots \in PageSlots(r[1]) BY <2>1, RidParts, PageFacts
  <2>3. \A r \in Rid : cache[r[1]].slots[r[2]] \in SlotState BY <2>2, RidParts DEF PageSlots
  <2> QED BY <2>1, <2>2, <2>3, SlotFacts DEF Tuple
<1> USE DEF Log, recoveryVars, pageVars
\* A step that logs a record and, perhaps, changes its page.
<1>1. ASSUME NEW rec \in LogRecord, AppendLogRecord(rec),
             \/ UNCHANGED pageVars
             \/ \E p \in Page : \E slots \in PageSlots(p) : ChangePage(p, slots),
             txn' \in [Txn -> TxnState], write_set' \in [Txn -> Seq(WriteRecord)],
             lock' \in [Rid -> Txn \cup {NoTxn}], UNCHANGED <<phase, active_txn, committed>>
      PROVE Types'
  <2>1. log_buffer' \in Seq(LogRecord) /\ log_file' \in Seq(LogRecord) /\ next_lsn' \in Nat
    BY <1>1, LogTypes
  <2>2. cache' \in Pages /\ disk' \in Pages /\ dirty' \subseteq Page
    BY <1>1, ChangeTypes DEF Types
  <2> QED BY <1>1, <2>1, <2>2 DEF Types
<1>2. CASE Begin(t)
  <2>1. Record(t, "BEGIN", NoRid, NoTuple, NoTuple) \in LogRecord BY <1>0, NewRecord
  <2>2. txn' \in [Txn -> TxnState] BY <1>2 DEF Begin, SetTxn, Types, TxnState
  <2> QED BY <1>1, <1>2, <2>1, <2>2 DEF Begin, Types
<1>3. ASSUME NEW p \in Page, NEW v \in Value, DoInsert(t, p, v) PROVE Types'
  <2> DEFINE slots == cache[p].slots
             r == <<p, FirstFree(slots)>>
  <2>1. slots \in PageSlots(p) BY <1>0, PageFacts
  <2>2. r \in Rid BY <1>3, <2>1, FirstFreeSlot, RidParts DEF DoInsert
  <2>3. InsertTuple(slots, v) \in PageSlots(p)
    <3>1. FirstFree(slots) \in SlotOf(p) BY <1>3, <2>1, FirstFreeSlot DEF DoInsert
    <3> QED BY <1>0, <2>1, <3>1, SlotOperations
  <2>4. Record(t, "INSERT", r, NoTuple, v) \in LogRecord BY <1>0, <2>2, NewRecord DEF PageOperation
  <2>5. /\ ChangePage(p, InsertTuple(slots, v)) /\ AppendLogRecord(Record(t, "INSERT", r, NoTuple, v))
        /\ Own(t, r) /\ AddIntoWriteSet(t, "INSERT", r, NoTuple)
        /\ UNCHANGED <<txn, phase, active_txn, committed>>
    BY <1>3 DEF DoInsert
  <2> HIDE DEF r, slots
  <2>6. lock' \in [Rid -> Txn \cup {NoTxn}] /\ write_set' \in [Txn -> Seq(WriteRecord)]
    BY <1>0, <2>2, <2>5, OwnTypes
  <2>7. txn' \in [Txn -> TxnState] BY <2>5 DEF Types
  <2> QED BY <1>1, <2>3, <2>4, <2>5, <2>6, <2>7
<1>4. ASSUME NEW r \in Rid, NEW v \in Value, DoUpdate(t, r, v) PROVE Types'
  <2> DEFINE slots == cache[r[1]].slots
             old == slots[r[2]].tuple
  <2>1. slots \in PageSlots(r[1]) /\ old \in Tuple /\ r[1] \in Page /\ r[2] \in SlotOf(r[1])
    BY <1>0, RidParts
  <2>2. UpdateTuple(slots, r[2], v) \in PageSlots(r[1]) BY <1>0, <2>1, SlotOperations
  <2>3. Record(t, "UPDATE", r, old, v) \in LogRecord BY <1>0, <2>1, NewRecord DEF PageOperation
  <2>4. /\ ChangePage(r[1], UpdateTuple(slots, r[2], v))
        /\ AppendLogRecord(Record(t, "UPDATE", r, old, v))
        /\ Own(t, r) /\ AddIntoWriteSet(t, "UPDATE", r, old)
        /\ UNCHANGED <<txn, phase, active_txn, committed>>
    BY <1>4 DEF DoUpdate
  <2> HIDE DEF slots, old
  <2>5. lock' \in [Rid -> Txn \cup {NoTxn}] /\ write_set' \in [Txn -> Seq(WriteRecord)]
    BY <2>1, <2>4, OwnTypes
  <2>6. txn' \in [Txn -> TxnState] BY <2>4 DEF Types
  <2> QED BY <1>1, <2>1, <2>2, <2>3, <2>4, <2>5, <2>6
<1>5. ASSUME NEW r \in Rid, DoMarkDelete(t, r) PROVE Types'
  <2> DEFINE slots == cache[r[1]].slots
             old == slots[r[2]].tuple
  <2>1. slots \in PageSlots(r[1]) /\ old \in Tuple /\ r[1] \in Page /\ r[2] \in SlotOf(r[1])
    BY <1>0, RidParts
  <2>2. MarkDelete(slots, r[2]) \in PageSlots(r[1]) BY <1>0, <2>1, SlotOperations
  <2>3. Record(t, "MARKDELETE", r, NoTuple, NoTuple) \in LogRecord
    BY <1>0, NewRecord DEF PageOperation
  <2>4. /\ ChangePage(r[1], MarkDelete(slots, r[2]))
        /\ AppendLogRecord(Record(t, "MARKDELETE", r, NoTuple, NoTuple))
        /\ Own(t, r) /\ AddIntoWriteSet(t, "DELETE", r, old)
        /\ UNCHANGED <<txn, phase, active_txn, committed>>
    BY <1>5 DEF DoMarkDelete
  <2> HIDE DEF slots, old
  <2>5. lock' \in [Rid -> Txn \cup {NoTxn}] /\ write_set' \in [Txn -> Seq(WriteRecord)]
    BY <2>1, <2>4, OwnTypes
  <2>6. txn' \in [Txn -> TxnState] BY <2>4 DEF Types
  <2> QED BY <1>1, <2>1, <2>2, <2>3, <2>4, <2>5, <2>6
<1>6. CASE CommitRecord(t)
  <2> DEFINE r == write_set[t][LastDelete(t)].rid
             slots == cache[r[1]].slots
             old == slots[r[2]].tuple
             rest == SubSeq(write_set[t], 1, LastDelete(t) - 1)
  <2>1. /\ ChangePage(r[1], ApplyDelete(slots, r[2]))
        /\ AppendLogRecord(Record(t, "APPLYDELETE", r, old, NoTuple))
        /\ write_set' = [write_set EXCEPT ![t] = rest]
        /\ txn' = [txn EXCEPT ![t] = "committing"]
        /\ UNCHANGED <<lock, phase, active_txn, committed>> /\ Deletes(t) # {}
    BY <1>6 DEF CommitRecord, SetTxn, Types
  <2>2. rest \in Seq(WriteRecord) /\ write_set[t][LastDelete(t)] \in WriteRecord
    BY <2>1, WriteSetFacts
  <2>3. r \in Rid BY <2>2 DEF WriteRecord
  <2> HIDE DEF r, rest
  <2>4. slots \in PageSlots(r[1]) /\ old \in Tuple /\ r[1] \in Page /\ r[2] \in SlotOf(r[1])
    BY <1>0, <2>3, RidParts
  <2>5. ApplyDelete(slots, r[2]) \in PageSlots(r[1]) BY <1>0, <2>4, SlotOperations
  <2>6. Record(t, "APPLYDELETE", r, old, NoTuple) \in LogRecord
    BY <1>0, <2>3, <2>4, NewRecord DEF PageOperation
  <2> HIDE DEF slots, old
  <2>7. txn' \in [Txn -> TxnState] BY <2>1 DEF Types, TxnState
  <2>8. write_set' \in [Txn -> Seq(WriteRecord)] /\ lock' \in [Rid -> Txn \cup {NoTxn}]
    BY <2>1, <2>2 DEF Types
  <2> QED BY <1>1, <2>1, <2>4, <2>5, <2>6, <2>7, <2>8
<1>7. CASE CommitLog(t)
  <2>1. Record(t, "COMMIT", NoRid, NoTuple, NoTuple) \in LogRecord BY <1>0, NewRecord
  <2>2. txn' \in [Txn -> TxnState] BY <1>7 DEF CommitLog, SetTxn, Types, TxnState
  <2>3. write_set' \in [Txn -> Seq(WriteRecord)] BY <1>7 DEF CommitLog, Types
  <2> QED BY <1>1, <1>7, <2>1, <2>2, <2>3 DEF CommitLog, Types
<1>8. CASE CommitEnd(t)
  <2>1. txn' \in [Txn -> TxnState] BY <1>8 DEF CommitEnd, SetTxn, Types, TxnState
  <2>2. lock' \in [Rid -> Txn \cup {NoTxn}] BY <1>8, ReleaseTypes DEF CommitEnd
  <2>3. Flush /\ UNCHANGED <<cache, dirty, disk, write_set, phase, active_txn>> BY <1>8 DEF CommitEnd
  <2>4. /\ log_buffer' \in Seq(LogRecord) /\ log_file' \in Seq(LogRecord) /\ next_lsn' \in Nat
        /\ committed' \in [Rid -> Tuple]
    BY <2>3, FlushTypes
  <2> QED BY <2>1, <2>2, <2>3, <2>4 DEF Types
<1>9. CASE AbortRecord(t)
  <2> DEFINE wr == LastRecord(t)
             r == wr.rid
             slots == cache[r[1]].slots
             old == slots[r[2]].tuple
  <2>1. wr \in WriteRecord /\ Front(write_set[t]) \in Seq(WriteRecord)
    BY <1>9, WriteSetFacts DEF AbortRecord
  <2>2. r \in Rid /\ wr.old \in Tuple BY <2>1 DEF WriteRecord
  <2>3. /\ \/ /\ ChangePage(r[1], ApplyDelete(slots, r[2]))
              /\ AppendLogRecord(Record(t, "APPLYDELETE", r, old, NoTuple))
           \/ /\ ChangePage(r[1], RollbackDelete(slots, r[2]))
              /\ AppendLogRecord(Record(t, "ROLLBACKDELETE", r, NoTuple, NoTuple))
           \/ /\ ChangePage(r[1], UpdateTuple(slots, r[2], wr.old))
              /\ AppendLogRecord(Record(t, "UPDATE", r, old, wr.old))
        /\ write_set' = [write_set EXCEPT ![t] = Front(write_set[t])]
        /\ txn' = [txn EXCEPT ![t] = "aborting"]
        /\ UNCHANGED <<lock, phase, active_txn, committed>>
    BY <1>9 DEF AbortRecord, SetTxn, DropRecord, Types
  <2> HIDE DEF r, wr
  <2>4. slots \in PageSlots(r[1]) /\ old \in Tuple /\ r[1] \in Page /\ r[2] \in SlotOf(r[1])
    BY <1>0, <2>2, RidParts
  <2>5. /\ ApplyDelete(slots, r[2]) \in PageSlots(r[1])
        /\ RollbackDelete(slots, r[2]) \in PageSlots(r[1])
        /\ UpdateTuple(slots, r[2], wr.old) \in PageSlots(r[1])
    BY <2>2, <2>4, SlotOperations
  <2>6. /\ Record(t, "APPLYDELETE", r, old, NoTuple) \in LogRecord
        /\ Record(t, "ROLLBACKDELETE", r, NoTuple, NoTuple) \in LogRecord
        /\ Record(t, "UPDATE", r, old, wr.old) \in LogRecord
    BY <1>0, <2>2, <2>4, NewRecord DEF PageOperation
  <2> HIDE DEF slots, old
  <2>7. txn' \in [Txn -> TxnState] BY <2>3 DEF Types, TxnState
  <2>8. write_set' \in [Txn -> Seq(WriteRecord)] /\ lock' \in [Rid -> Txn \cup {NoTxn}]
    BY <2>1, <2>3 DEF Types
  <2> QED BY <1>1, <2>3, <2>4, <2>5, <2>6, <2>7, <2>8
<1>10. CASE AbortEnd(t)
  <2>1. Record(t, "ABORT", NoRid, NoTuple, NoTuple) \in LogRecord BY <1>0, NewRecord
  <2>2. txn' \in [Txn -> TxnState] BY <1>10 DEF AbortEnd, SetTxn, Types, TxnState
  <2>3. lock' \in [Rid -> Txn \cup {NoTxn}] BY <1>10, ReleaseTypes DEF AbortEnd
  <2> QED BY <1>1, <1>10, <2>1, <2>2, <2>3 DEF AbortEnd, Types
<1> QED BY <1>2, <1>3, <1>4, <1>5, <1>6, <1>7, <1>8, <1>9, <1>10 DEF Transact

LEMMA RedoEnd ==
  ASSUME Types, Redo
  PROVE \E st \in RecoveryState :
          /\ st = RedoFold(log_file, [pages |-> disk, panic |-> FALSE])
          /\ cache' = st.pages /\ phase' = IF st.panic THEN "panic" ELSE "undo"
<1> DEFINE base == [pages |-> disk, panic |-> FALSE]
           st == RedoFold(log_file, base)
<1>1. base \in RecoveryState BY DEF Types, RecoveryState
<1>2. log_file \in Seq(LogRecord) BY DEF Types
<1>3. st \in RecoveryState
  <2> HIDE DEF base
  <2>1. PICK f \in [0 .. Len(log_file) -> RecoveryState] : f[Len(log_file)] = RedoFold(log_file, base)
    BY <1>1, <1>2, RedoSteps
  <2> QED BY <1>2, <2>1
<1>4. cache' = st.pages /\ phase' = IF st.panic THEN "panic" ELSE "undo" BY DEF Redo, RedoFold
<1> QED BY <1>3, <1>4

LEMMA UndoEnd ==
  ASSUME Types, NEW t, Undo(t)
  PROVE \E st \in RecoveryState :
          /\ st = UndoFold(t, log_file, [pages |-> cache, panic |-> FALSE])
          /\ cache' = st.pages /\ phase' = IF st.panic THEN "panic" ELSE "undo"
<1> DEFINE base == [pages |-> cache, panic |-> FALSE]
           st == UndoFold(t, log_file, base)
<1>1. base \in RecoveryState BY DEF Types, RecoveryState
<1>2. log_file \in Seq(LogRecord) BY DEF Types
<1>3. st \in RecoveryState
  <2> HIDE DEF base
  <2>1. PICK f \in [1 .. Len(log_file) + 1 -> RecoveryState] : f[1] = UndoFold(t, log_file, base)
    BY <1>1, <1>2, UndoSteps
  <2> QED BY <1>2, <2>1
<1>4. cache' = st.pages /\ phase' = IF st.panic THEN "panic" ELSE "undo" BY DEF Undo, UndoFold
<1> QED BY <1>3, <1>4

LEMMA TypesNext == Types /\ [Next]_vars => Types'
<1> SUFFICES ASSUME Types, [Next]_vars PROVE Types' OBVIOUS
<1> USE DEF recoveryVars, pageVars, txnVars, logVars
<1>1. ASSUME NEW t \in Txn, Transact(t) PROVE Types' BY <1>1, TransactTypes
<1>2. ASSUME Flush,
             UNCHANGED pageVars \/ \E p \in Page : WritePage(p),
             UNCHANGED <<txnVars, active_txn>>, phase' \in Phase
      PROVE Types'
  <2>1. /\ log_buffer' \in Seq(LogRecord) /\ log_file' \in Seq(LogRecord) /\ next_lsn' \in Nat
        /\ committed' \in [Rid -> Tuple]
    BY <1>2, FlushTypes
  <2>2. cache' \in Pages /\ disk' \in Pages /\ dirty' \subseteq Page
    BY <1>2, WritePageTypes DEF Types
  <2> QED BY <1>2, <2>1, <2>2 DEF Types
<1>3. CASE FlushLogBuffer BY <1>2, <1>3 DEF FlushLogBuffer, Types
<1>4. CASE BeginCheckpoint BY <1>4 DEF BeginCheckpoint, Types, Phase
<1>5. CASE EndCheckpoint BY <1>2, <1>5 DEF EndCheckpoint, Phase
<1>6. ASSUME NEW p \in Page, EvictPage(p) PROVE Types' BY <1>2, <1>6 DEF EvictPage, Types
<1>7. ASSUME NEW p \in Page, CheckpointPage(p) PROVE Types'
  <2>1. cache' \in Pages /\ disk' \in Pages /\ dirty' \subseteq Page
    BY <1>7, WritePageTypes DEF CheckpointPage
  <2> QED BY <1>7, <2>1 DEF CheckpointPage, Types
<1>8. CASE Crash BY <1>8 DEF Crash, Types, Phase, TxnState
<1>9. CASE Redo
  <2>1. cache' \in Pages /\ phase' \in Phase BY <1>9, RedoEnd DEF RecoveryState, Phase
  <2>2. active_txn' \subseteq Txn
    <3>1. \A i \in DOMAIN log_file : log_file[i].txn \in Txn BY RecordFacts DEF Types
    <3> QED BY <1>9, <3>1 DEF Redo, Mentioned
  <2>3. dirty' \subseteq Page BY <1>9 DEF Redo
  <2> QED BY <1>9, <2>1, <2>2, <2>3 DEF Redo, Types
<1>10. ASSUME NEW t \in Txn, Undo(t) PROVE Types'
  <2>1. cache' \in Pages /\ phase' \in Phase BY <1>10, UndoEnd DEF RecoveryState, Phase
  <2> QED BY <1>10, <2>1 DEF Undo, Types
<1>11. CASE GCLogFile
  <2>1. GreatestLSN = GreatestFold(log_file) BY DEF GreatestLSN, GreatestFold
  <2>2. GreatestFold(log_file) \in Nat
    <3>1. PICK f \in [0 .. Len(log_file) -> Nat] : f[Len(log_file)] = GreatestFold(log_file)
      BY GreatestSteps DEF Types
    <3> QED BY <3>1 DEF Types
  <2> HIDE DEF GreatestLSN
  <2>3. next_lsn' \in Nat BY <1>11, <2>1, <2>2 DEF GCLogFile
  <2> QED BY <1>11, <2>3 DEF GCLogFile, Types, Phase
<1>12. CASE FlushAllPages BY <1>12 DEF FlushAllPages, Types, Phase
<1>13. CASE UNCHANGED vars BY <1>13 DEF vars, Types
<1> QED
  BY <1>1, <1>3, <1>4, <1>5, <1>6, <1>7, <1>8, <1>9, <1>10, <1>11, <1>12, <1>13
  DEF Next, Background, Restart

LEMMA TypesInit == Init => Types
<1> SUFFICES ASSUME Init PROVE Types OBVIOUS
<1>1. PICK content \in [Rid -> {FreeSlot} \cup {Live(v) : v \in Value}] :
        disk = [p \in Page |-> [slots |-> [i \in SlotOf(p) |-> content[<<p, i>>]], lsn |-> 0]]
  BY DEF Init
<1>2. \A r \in Rid : content[r] \in SlotState
  <2>1. \A v \in Value : Live(v) \in SlotState BY SlotFacts DEF Tuple
  <2> HIDE DEF Live, SlotState
  <2> QED BY <2>1, SlotFacts
<1>3. ASSUME NEW p \in Page PROVE disk[p].slots \in PageSlots(p) /\ disk[p] \in PageType
  <2> DEFINE slots == [i \in SlotOf(p) |-> content[<<p, i>>]]
  <2>1. slots \in PageSlots(p) BY <1>2, RidParts DEF PageSlots
  <2>2. disk[p] = [slots |-> slots, lsn |-> 0] BY <1>1
  <2> HIDE DEF slots
  <2>3. slots \in UNION {PageSlots(q) : q \in Page} BY <2>1
  <2> QED BY <2>1, <2>2, <2>3 DEF PageType
<1>4. disk \in Pages BY <1>1, <1>3 DEF Pages
<1>5. committed \in [Rid -> Tuple]
  <2>1. committed = [r \in Rid |-> Content(disk, r)] BY DEF Init, Contents
  <2> QED BY <1>4, <2>1, ContentType
<1> QED BY <1>4, <1>5 DEF Init, Types, TxnState, Phase

\* Pages keep their slots, whatever Redo and Undo do to them after whichever crashes;
\* records, phases and what is committed are well formed.
THEOREM RecoveryTypeCorrect == Spec => []TypeOK
<1>1. Types => TypeOK
  <2> SUFFICES ASSUME Types PROVE TypeOK OBVIOUS
  <2>1. \A p \in Page : cache[p].slots \in [SlotOf(p) -> SlotState]
    BY PageFacts DEF Types, PageSlots
  <2> QED BY <2>1 DEF Types, TypeOK, SlotState, Tuple
<1> QED BY <1>1, TypesInit, TypesNext, PTL DEF Spec

-----------------------------------------------------------------------------
(***************************************************************************)
(* What Redo and Undo do to one slot.                                      *)
(***************************************************************************)
Slot(pages, r) == pages[r[1]].slots[r[2]]
Marked(s) == [s EXCEPT !.deleted = TRUE]
Unmarked(s) == [s EXCEPT !.deleted = FALSE]

\* A record fits the slots it was written for: the page operation it describes was
\* possible there.
Fits(slots, rec) ==
  LET i == rec.rid[2] IN
  /\ rec.type = "INSERT" => FreeSlots(slots) # {} /\ i = FirstFree(slots) /\ rec.new \in Value
  /\ rec.type = "APPLYDELETE" => slots[i].tuple # NoTuple
  /\ rec.type = "MARKDELETE" => ~IsDeleted(slots[i])
  /\ rec.type = "ROLLBACKDELETE" => slots[i].tuple # NoTuple /\ slots[i].deleted
  /\ rec.type = "UPDATE" => /\ ~IsDeleted(slots[i]) /\ rec.old = slots[i].tuple
                            /\ rec.new \in Value

\* The slot after Redo, and after Undo, of a record.
Redone(s, rec) ==
  CASE rec.type \in {"INSERT", "UPDATE"} -> Live(rec.new)
    [] rec.type = "APPLYDELETE" -> FreeSlot
    [] rec.type = "MARKDELETE" -> Marked(s)
    [] rec.type = "ROLLBACKDELETE" -> Unmarked(s)
Undone(s, rec) ==
  CASE rec.type = "INSERT" -> FreeSlot
    [] rec.type = "MARKDELETE" -> Unmarked(s)
    [] rec.type = "ROLLBACKDELETE" -> IF IsDeleted(s) THEN s ELSE Marked(s)
    [] rec.type = "UPDATE" -> IF IsDeleted(s) THEN s ELSE Live(rec.old)

LEMMA RedoOfSlot ==
  ASSUME NEW p \in Page, NEW slots \in PageSlots(p), NEW rec \in LogRecord, OfPage(p, rec),
         Fits(slots, rec)
  PROVE /\ RedoEffect(slots, rec) = [slots EXCEPT ![rec.rid[2]] = Redone(slots[rec.rid[2]], rec)]
        /\ ~RedoPanics(slots, rec)
<1> DEFINE i == rec.rid[2]
<1>1. i \in SlotOf(p) /\ rec.type \in PageOperation /\ slots = [j \in SlotOf(p) |-> slots[j]]
  BY RecordFacts, RidParts DEF OfPage, PageSlots
<1>2. CASE rec.type = "INSERT"
  BY <1>1, <1>2 DEF RedoEffect, InsertTuple, Redone, RedoPanics, Fits
<1>3. CASE rec.type = "APPLYDELETE"
  BY <1>1, <1>3 DEF RedoEffect, ApplyDelete, Redone, RedoPanics, Fits
<1>4. CASE rec.type = "MARKDELETE"
  BY <1>1, <1>4 DEF RedoEffect, MarkDelete, Redone, RedoPanics, Fits, Marked
<1>5. CASE rec.type = "ROLLBACKDELETE"
  BY <1>1, <1>5 DEF RedoEffect, RollbackDelete, Redone, RedoPanics, Fits, Unmarked
<1>6. CASE rec.type = "UPDATE"
  BY <1>1, <1>6 DEF RedoEffect, UpdateTuple, Redone, RedoPanics, Fits
<1> QED BY <1>1, <1>2, <1>3, <1>4, <1>5, <1>6 DEF PageOperation

\* Undo of anything but APPLYDELETE changes the record's own slot only.
LEMMA UndoOfSlot ==
  ASSUME NEW p \in Page, NEW slots \in PageSlots(p), NEW rec \in LogRecord, OfPage(p, rec),
         rec.type # "APPLYDELETE"
  PROVE UndoEffect(slots, rec) = [slots EXCEPT ![rec.rid[2]] = Undone(slots[rec.rid[2]], rec)]
<1> DEFINE i == rec.rid[2]
<1>1. i \in SlotOf(p) /\ rec.type \in PageOperation /\ slots = [j \in SlotOf(p) |-> slots[j]]
  BY RecordFacts, RidParts DEF OfPage, PageSlots
<1>2. CASE rec.type = "INSERT"
  BY <1>1, <1>2 DEF UndoEffect, ApplyDelete, Undone
<1>4. CASE rec.type = "MARKDELETE"
  BY <1>1, <1>4 DEF UndoEffect, RollbackDelete, Undone, Unmarked
<1>5. CASE rec.type = "ROLLBACKDELETE"
  <2>1. CASE IsDeleted(slots[i]) BY <1>1, <1>5, <2>1 DEF UndoEffect, MarkDelete, Undone
  <2>2. CASE ~IsDeleted(slots[i]) BY <1>1, <1>5, <2>2 DEF UndoEffect, MarkDelete, Undone, Marked
  <2> QED BY <2>1, <2>2
<1>6. CASE rec.type = "UPDATE"
  <2>1. CASE IsDeleted(slots[i]) BY <1>1, <1>6, <2>1 DEF UndoEffect, UpdateTuple, Undone
  <2>2. CASE ~IsDeleted(slots[i]) BY <1>1, <1>6, <2>2 DEF UndoEffect, UpdateTuple, Undone
  <2> QED BY <2>1, <2>2
<1> QED BY <1>1, <1>2, <1>4, <1>5, <1>6 DEF PageOperation

LEMMA MarkOf ==
  ASSUME NEW x
  PROVE /\ Unmarked([tuple |-> x, deleted |-> TRUE]) = [tuple |-> x, deleted |-> FALSE]
        /\ Marked([tuple |-> x, deleted |-> FALSE]) = [tuple |-> x, deleted |-> TRUE]
<1>1. \A s \in [tuple : {x}, deleted : BOOLEAN] :
        /\ Unmarked(s) \in [tuple : {x}, deleted : {FALSE}]
        /\ Marked(s) \in [tuple : {x}, deleted : {TRUE}]
  BY DEF Marked, Unmarked
<1>2. ASSUME NEW y, NEW s \in [tuple : {x}, deleted : {y}] PROVE s = [tuple |-> x, deleted |-> y]
  OBVIOUS
<1>3. /\ [tuple |-> x, deleted |-> TRUE] \in [tuple : {x}, deleted : BOOLEAN]
      /\ [tuple |-> x, deleted |-> FALSE] \in [tuple : {x}, deleted : BOOLEAN]
  OBVIOUS
<1> HIDE DEF Marked, Unmarked
<1> QED BY <1>1, <1>2, <1>3

\* Undo of a record takes back its Redo, and does not panic there.
LEMMA UndoTakesBack ==
  ASSUME NEW p \in Page, NEW slots \in PageSlots(p), NEW rec \in LogRecord, OfPage(p, rec),
         Fits(slots, rec), rec.type # "APPLYDELETE"
  PROVE LET s == slots[rec.rid[2]] IN
        /\ Undone(Redone(s, rec), rec) = s
        /\ rec.type \in {"INSERT", "MARKDELETE"} => Redone(s, rec).tuple # NoTuple
<1> DEFINE i == rec.rid[2]
           s == slots[i]
<1>1. i \in SlotOf(p) /\ rec.type \in PageOperation
  BY RecordFacts, RidParts DEF OfPage
<1>2. s \in SlotState BY <1>1 DEF PageSlots
<1>3. s = [tuple |-> s.tuple, deleted |-> s.deleted] /\ s.deleted \in BOOLEAN BY <1>2, SlotFacts
<1>4. \A v \in Value : v # NoTuple BY RecoveryAssumption
<1>5. CASE rec.type = "INSERT"
  <2>1. s.tuple = NoTuple BY <1>5, FirstFreeSlot DEF Fits
  <2>2. s = FreeSlot BY <1>2, <2>1, SlotFacts
  <2>3. Redone(s, rec) = Live(rec.new) /\ rec.new # NoTuple BY <1>4, <1>5 DEF Redone, Fits
  <2> QED BY <1>5, <2>2, <2>3 DEF Undone, Live
<1>6. CASE rec.type = "MARKDELETE"
  <2>1. s.deleted = FALSE /\ s.tuple # NoTuple BY <1>3, <1>6 DEF Fits, IsDeleted
  <2>2. Redone(s, rec) = [tuple |-> s.tuple, deleted |-> TRUE] BY <1>3, <1>6 DEF Redone, Marked
  <2>3. Undone(Redone(s, rec), rec) = Unmarked(Redone(s, rec)) BY <1>6 DEF Undone
  <2>4. Undone(Redone(s, rec), rec) = s BY <1>3, <2>1, <2>2, <2>3, MarkOf
  <2>5. Redone(s, rec).tuple = s.tuple BY <2>2
  <2> QED BY <2>1, <2>4, <2>5
<1>7. CASE rec.type = "ROLLBACKDELETE"
  <2>1. s.deleted = TRUE /\ s.tuple # NoTuple BY <1>3, <1>7 DEF Fits
  <2>2. Redone(s, rec) = [tuple |-> s.tuple, deleted |-> FALSE] BY <1>3, <1>7 DEF Redone, Unmarked
  <2>3. ~IsDeleted(Redone(s, rec)) BY <2>1, <2>2 DEF IsDeleted
  <2>4. Undone(Redone(s, rec), rec) = Marked(Redone(s, rec)) BY <1>7, <2>3 DEF Undone
  <2> QED BY <1>3, <1>7, <2>1, <2>2, <2>4, MarkOf
<1>8. CASE rec.type = "UPDATE"
  <2>1. ~s.deleted /\ rec.old = s.tuple /\ rec.new # NoTuple BY <1>4, <1>8 DEF Fits, IsDeleted
  <2>2. Redone(s, rec) = Live(rec.new) BY <1>8 DEF Redone
  <2>3. ~IsDeleted(Redone(s, rec)) BY <2>1, <2>2 DEF IsDeleted, Live
  <2>4. Undone(Redone(s, rec), rec) = [tuple |-> s.tuple, deleted |-> FALSE]
    BY <1>8, <2>1, <2>3 DEF Undone, Live
  <2> QED BY <1>3, <1>8, <2>1, <2>4
<1> QED BY <1>1, <1>5, <1>6, <1>7, <1>8 DEF PageOperation

(***************************************************************************)
(* The pages that a log describes: the history of the pages from before    *)
(* its first record to after its last one.                                 *)
(***************************************************************************)
After(pages, rec) ==
  IF HasRid(rec)
  THEN [pages EXCEPT ![rec.rid[1]] =
          [slots |-> RedoEffect(pages[rec.rid[1]].slots, rec), lsn |-> rec.lsn]]
  ELSE pages

FitsPages(pages, rec) == HasRid(rec) => Fits(pages[rec.rid[1]].slots, rec)

Describes(hist, log) ==
  /\ \A i \in 0 .. Len(log) : hist[i] \in Pages
  /\ \A i \in 1 .. Len(log) : /\ log[i].lsn = i
                              /\ FitsPages(hist[i - 1], log[i])
                              /\ hist[i] = After(hist[i - 1], log[i])
  /\ \A i \in 0 .. Len(log), p \in Page : hist[i][p].lsn <= i

LEMMA AfterPages ==
  ASSUME NEW pages \in Pages, NEW rec \in LogRecord, FitsPages(pages, rec)
  PROVE /\ After(pages, rec) \in Pages
        /\ \A r \in Rid : Slot(After(pages, rec), r) =
                            IF rec.rid = r THEN Redone(Slot(pages, r), rec) ELSE Slot(pages, r)
        /\ \A p \in Page : OfPage(p, rec) => After(pages, rec)[p].lsn = rec.lsn
        /\ \A p \in Page : ~OfPage(p, rec) => After(pages, rec)[p] = pages[p]
<1>1. CASE ~HasRid(rec)
  <2>1. \A r \in Rid : rec.rid # r BY <1>1, RidParts DEF HasRid
  <2> QED BY <1>1, <2>1 DEF After, OfPage
<1>2. CASE HasRid(rec)
  <2> DEFINE q == rec.rid[1]
             j == rec.rid[2]
             old == pages[q].slots
             eff == RedoEffect(old, rec)
             new == [slots |-> eff, lsn |-> rec.lsn]
  <2>1. rec.rid \in Rid /\ q \in Page /\ j \in SlotOf(q) /\ OfPage(q, rec) /\ rec.rid = <<q, j>>
        /\ rec.lsn \in Nat
    BY <1>2, RecordFacts, RidParts DEF OfPage
  <2>2. old \in PageSlots(q) BY <2>1, PageFacts
  <2>3. eff \in PageSlots(q) BY <2>1, <2>2, EffectTypes
  <2>4. eff = [old EXCEPT ![j] = Redone(old[j], rec)]
    BY <1>2, <2>1, <2>2, RedoOfSlot DEF FitsPages
  <2>5. After(pages, rec) = [pages EXCEPT ![q] = new] BY <1>2 DEF After
  <2>10. new.lsn = rec.lsn /\ new.slots = eff OBVIOUS
  <2> HIDE DEF eff
  <2>6. After(pages, rec) \in Pages
    <3> DEFINE lsn == rec.lsn
    <3>1. lsn \in Nat /\ q \in Page /\ new = [slots |-> eff, lsn |-> lsn] BY <2>1
    <3> HIDE DEF q, lsn, new
    <3>2. [pages EXCEPT ![q] = [slots |-> eff, lsn |-> lsn]] \in Pages BY <2>3, <3>1, PageFacts
    <3> QED BY <2>5, <3>1, <3>2
  <2>7. \A p \in Page : After(pages, rec)[p] = IF p = q THEN new ELSE pages[p]
    BY <2>5 DEF Pages
  <2> HIDE DEF new, old
  <2>8. ASSUME NEW r \in Rid
        PROVE Slot(After(pages, rec), r) =
                IF rec.rid = r THEN Redone(Slot(pages, r), rec) ELSE Slot(pages, r)
    <3>1. r = <<r[1], r[2]>> /\ r[1] \in Page /\ r[2] \in SlotOf(r[1]) BY RidParts
    <3>2. CASE r[1] # q BY <2>1, <2>7, <3>1, <3>2 DEF Slot
    <3>3. CASE r[1] = q
      <4>1. Slot(After(pages, rec), r) = [old EXCEPT ![j] = Redone(old[j], rec)][r[2]]
        BY <2>4, <2>7, <2>10, <3>1, <3>3 DEF Slot
      <4>2. r[2] \in DOMAIN old /\ Slot(pages, r) = old[r[2]] BY <2>2, <3>1, <3>3 DEF PageSlots, old, Slot
      <4>3. CASE r[2] = j BY <2>1, <3>1, <3>3, <4>1, <4>2, <4>3
      <4>4. CASE r[2] # j BY <2>1, <3>1, <3>3, <4>1, <4>2, <4>4
      <4> QED BY <4>3, <4>4
    <3> QED BY <3>2, <3>3
  <2>9. \A p \in Page : OfPage(p, rec) <=> p = q BY <1>2 DEF OfPage
  <2> QED BY <2>6, <2>7, <2>8, <2>9, <2>10
<1> QED BY <1>1, <1>2

\* A slot changes only where the log has a record on it.
LEMMA QuietSlot ==
  ASSUME NEW log \in Seq(LogRecord), NEW hist, Describes(hist, log), NEW r \in Rid,
         NEW a \in 0 .. Len(log), \A i \in 1 .. Len(log) : a < i => log[i].rid # r
  PROVE Slot(hist[Len(log)], r) = Slot(hist[a], r)
<1> DEFINE n == Len(log)
           T == {c \in a .. n : Slot(hist[c], r) # Slot(hist[a], r)}
<1>0. n \in Nat /\ a \in Nat /\ \A i \in 1 .. n : log[i] \in LogRecord OBVIOUS
<1>1. ASSUME T # {} PROVE FALSE
  <2>1. T \subseteq Nat BY <1>0
  <2> HIDE DEF T
  <2>2. PICK c \in T : \A d \in T : c <= d BY <1>1, <2>1, LeastNat
  <2> USE DEF T
  <2>3. c # a /\ c \in 1 .. n /\ c - 1 \in a .. n /\ c - 1 \in 0 .. n BY <1>0, <2>2
  <2>4. Slot(hist[c - 1], r) = Slot(hist[a], r)
    <3>1. c - 1 \notin T
      <4> HIDE DEF T
      <4> QED BY <1>0, <2>2, <2>3
    <3> QED BY <2>3, <3>1
  <2>5. hist[c] = After(hist[c - 1], log[c]) /\ FitsPages(hist[c - 1], log[c])
        /\ hist[c - 1] \in Pages /\ log[c].rid # r /\ log[c] \in LogRecord
    BY <1>0, <2>3 DEF Describes
  <2>6. Slot(hist[c], r) = Slot(hist[c - 1], r) BY <2>5, AfterPages
  <2> QED BY <2>2, <2>4, <2>6
<1>2. n \notin T BY <1>1
<1> QED BY <1>0, <1>2

\* Redo of a log finds the pages as some records of the log left them, each in its
\* own time, and brings them all to where the log ends; it does not panic.
LEMMA RedoIsExact ==
  ASSUME NEW log \in Seq(LogRecord), NEW hist, Describes(hist, log), NEW pages \in Pages,
         \A p \in Page : pages[p].lsn <= Len(log) /\ pages[p] = hist[pages[p].lsn][p]
  PROVE RedoFold(log, [pages |-> pages, panic |-> FALSE]) =
          [pages |-> hist[Len(log)], panic |-> FALSE]
<1> DEFINE n == Len(log)
           base == [pages |-> pages, panic |-> FALSE]
           At(k, p) == IF k > pages[p].lsn THEN k ELSE pages[p].lsn
<1>0. /\ n \in Nat /\ base \in RecoveryState /\ \A i \in 1 .. n : log[i] \in LogRecord
      /\ \A p \in Page : pages[p].lsn \in Nat
  <2>1. base \in RecoveryState BY DEF RecoveryState
  <2>2. \A p \in Page : pages[p].lsn \in Nat BY PageFacts
  <2> QED BY <2>1, <2>2
<1>1. PICK f \in [0 .. n -> RecoveryState] :
        /\ f[0] = base /\ \A k \in 1 .. n : f[k] = RedoRecord(f[k - 1], log[k])
        /\ f[n] = RedoFold(log, base)
  <2> HIDE DEF base
  <2> QED BY <1>0, RedoSteps
<1> DEFINE Good(k) == ~f[k].panic /\ \A p \in Page : f[k].pages[p] = hist[At(k, p)][p]
           T == {k \in 0 .. n : ~Good(k)}
<1>2. Good(0)
  <2>1. \A p \in Page : At(0, p) = pages[p].lsn BY <1>0
  <2> QED BY <1>1, <2>1
<1>3. ASSUME NEW k \in 1 .. n, Good(k - 1) PROVE Good(k)
  <2> DEFINE rec == log[k]
             q == rec.rid[1]
             st == f[k - 1]
  <2>1. /\ rec \in LogRecord /\ rec.lsn = k /\ hist[k - 1] \in Pages /\ hist[k] \in Pages
        /\ FitsPages(hist[k - 1], rec) /\ hist[k] = After(hist[k - 1], rec)
        /\ k - 1 \in 0 .. n /\ k \in 0 .. n /\ k \in Nat /\ st \in RecoveryState
    BY <1>0 DEF Describes
  <2>2. f[k] = RedoRecord(st, rec) BY <1>1
  <2>3. \A p \in Page : ~OfPage(p, rec) => hist[k][p] = hist[k - 1][p] BY <2>1, AfterPages
  <2>4. \A p \in Page : ~OfPage(p, rec) => hist[At(k, p)][p] = hist[At(k - 1, p)][p]
    BY <1>0, <2>1, <2>3
  <2>5. CASE ~HasRid(rec)
    <3>1. f[k] = st /\ \A p \in Page : ~OfPage(p, rec) BY <2>2, <2>5 DEF RedoRecord, OfPage
    <3> QED BY <1>3, <2>4, <3>1
  <2>6. CASE HasRid(rec) /\ pages[q].lsn >= k
    <3>1. q \in Page BY <2>1, <2>6, RecordFacts, RidParts
    <3>2. At(k - 1, q) = pages[q].lsn /\ At(k, q) = pages[q].lsn BY <1>0, <2>1, <2>6, <3>1
    <3>3. st.pages[q] = pages[q] BY <1>3, <3>1, <3>2
    <3>4. f[k] = st BY <2>1, <2>2, <2>6, <3>3 DEF RedoRecord, Seen
    <3>5. \A p \in Page : p # q => ~OfPage(p, rec) BY DEF OfPage
    <3> HIDE DEF At, st
    <3> QED BY <1>3, <2>4, <3>1, <3>2, <3>4, <3>5 DEF st
  <2>7. CASE HasRid(rec) /\ pages[q].lsn < k
    <3>1. q \in Page BY <2>1, <2>6, <2>7, RecordFacts, RidParts
    <3>2. At(k - 1, q) = k - 1 /\ At(k, q) = k BY <1>0, <2>1, <2>7, <3>1
    <3>3. st.pages[q] = hist[k - 1][q] BY <1>3, <3>1, <3>2
    <3>4. hist[k - 1][q].lsn <= k - 1 /\ hist[k - 1][q].lsn \in Nat
      BY <2>1, <3>1, PageFacts DEF Describes
    <3>5. ~Seen(st.pages[q], rec) BY <2>1, <3>3, <3>4 DEF Seen
    <3> DEFINE slots == RedoEffect(hist[k - 1][q].slots, rec)
               panics == RedoPanics(hist[k - 1][q].slots, rec)
    <3>6. f[k] = [pages |-> [st.pages EXCEPT ![q] = [slots |-> slots, lsn |-> k]],
                  panic |-> st.panic \/ panics]
      BY <2>1, <2>2, <2>7, <3>3, <3>5 DEF RedoRecord
    <3>7. hist[k] = [hist[k - 1] EXCEPT ![q] = [slots |-> slots, lsn |-> k]]
      BY <2>1, <2>7 DEF After
    <3>8. ~panics
      <4>1. hist[k - 1][q].slots \in PageSlots(q) /\ OfPage(q, rec)
        BY <2>1, <2>7, <3>1, PageFacts DEF OfPage
      <4>2. Fits(hist[k - 1][q].slots, rec) BY <2>1, <2>7 DEF FitsPages
      <4> QED BY <2>1, <3>1, <4>1, <4>2, RedoOfSlot
    <3>9. DOMAIN st.pages = Page /\ DOMAIN hist[k - 1] = Page BY <2>1 DEF RecoveryState, Pages
    <3> HIDE DEF slots, panics, st
    <3>10. ~f[k].panic
      <4>1. f[k].panic = (st.panic \/ panics) BY <3>6
      <4>2. ~st.panic BY <1>3 DEF st
      <4> QED BY <3>8, <4>1, <4>2
    <3>11. f[k].pages = [st.pages EXCEPT ![q] = [slots |-> slots, lsn |-> k]] BY <3>6
    <3>12. ASSUME NEW p \in Page PROVE f[k].pages[p] = hist[At(k, p)][p]
      <4>1. CASE p = q BY <3>1, <3>2, <3>7, <3>9, <3>11, <4>1
      <4>2. CASE p # q
        <5>1. f[k].pages[p] = st.pages[p] BY <3>9, <3>11, <4>2
        <5>2. ~OfPage(p, rec) BY <4>2 DEF OfPage
        <5> QED BY <1>3, <2>4, <5>1, <5>2 DEF st
      <4> QED BY <4>1, <4>2
    <3> QED BY <3>10, <3>12
  <2> QED
    <3>1. HasRid(rec) => pages[q].lsn \in Nat BY <1>0, <2>1, RecordFacts, RidParts
    <3> QED BY <2>1, <2>5, <2>6, <2>7, <3>1
<1> HIDE DEF Good
<1>4. ASSUME T # {} PROVE FALSE
  <2>1. T \subseteq Nat OBVIOUS
  <2>2. PICK k \in T : \A j \in T : k <= j
    <3> HIDE DEF T
    <3> QED BY <1>4, <2>1, LeastNat
  <2>3. k \in 1 .. n /\ k - 1 \in 0 .. n /\ k - 1 \notin T BY <1>0, <1>2, <2>2
  <2> QED BY <1>3, <2>2, <2>3
<1>5. Good(n) BY <1>0, <1>4
<1>6. f[n] \in RecoveryState /\ ~f[n].panic BY <1>0, <1>5 DEF Good
<1>7. \A p \in Page : f[n].pages[p] = hist[n][p]
  <2>1. \A p \in Page : At(n, p) = n BY <1>0
  <2> QED BY <1>5, <2>1 DEF Good
<1>8. f[n].pages \in Pages /\ hist[n] \in Pages BY <1>0, <1>6 DEF RecoveryState, Describes
<1>9. f[n].pages = hist[n]
  <2>1. f[n].pages = [p \in Page |-> f[n].pages[p]] /\ hist[n] = [p \in Page |-> hist[n][p]]
    BY <1>8 DEF Pages
  <2> QED BY <1>7, <2>1
<1>10. f[n] = [pages |-> f[n].pages, panic |-> f[n].panic] /\ f[n].panic = FALSE
  BY <1>6 DEF RecoveryState
<1> QED BY <1>1, <1>9, <1>10

LEMMA UndoPages ==
  ASSUME NEW t, NEW st \in RecoveryState, NEW rec \in LogRecord,
         rec.txn = t => rec.type # "APPLYDELETE"
  PROVE /\ \A r \in Rid : Slot(UndoRecord(t, st, rec).pages, r) =
             IF rec.txn = t /\ rec.rid = r THEN Undone(Slot(st.pages, r), rec) ELSE Slot(st.pages, r)
        /\ UndoRecord(t, st, rec).panic =>
             \/ st.panic
             \/ /\ rec.txn = t /\ rec.rid \in Rid /\ rec.type \in {"INSERT", "MARKDELETE"}
                /\ Slot(st.pages, rec.rid).tuple = NoTuple
<1>1. CASE rec.txn # t \/ ~HasRid(rec)
  <2>1. ASSUME NEW r \in Rid, rec.rid = r PROVE HasRid(rec) BY <2>1, RidParts DEF HasRid
  <2> QED BY <1>1, <2>1 DEF UndoRecord
<1>2. CASE rec.txn = t /\ HasRid(rec)
  <2> DEFINE q == rec.rid[1]
             j == rec.rid[2]
             old == st.pages[q].slots
             eff == UndoEffect(old, rec)
             panics == UndoPanics(old, rec)
  <2>1. rec.rid \in Rid /\ q \in Page /\ j \in SlotOf(q) /\ OfPage(q, rec) /\ rec.rid = <<q, j>>
    BY <1>2, RecordFacts, RidParts DEF OfPage
  <2>2. st.pages \in Pages BY DEF RecoveryState
  <2>3. old \in PageSlots(q) BY <2>1, <2>2, PageFacts
  <2>4. eff = [old EXCEPT ![j] = Undone(old[j], rec)]
    BY <1>2, <2>1, <2>3, UndoOfSlot
  <2>5. UndoRecord(t, st, rec) = [pages |-> [st.pages EXCEPT ![q].slots = eff],
                                  panic |-> st.panic \/ panics]
    BY <1>2, <2>1, <2>2 DEF UndoRecord, Pages
  <2>6. panics => rec.type \in {"INSERT", "MARKDELETE"} /\ Slot(st.pages, rec.rid).tuple = NoTuple
    BY DEF UndoPanics, Slot
  <2>7. Slot(st.pages, rec.rid) = old[j] BY DEF Slot
  <2>10. \A r \in Rid : r[1] = q => Slot(st.pages, r) = old[r[2]] BY DEF Slot
  <2> HIDE DEF eff, panics
  <2> DEFINE new == [st.pages EXCEPT ![q].slots = eff]
  <2>8. UndoRecord(t, st, rec).pages = new /\ UndoRecord(t, st, rec).panic = (st.panic \/ panics)
    BY <2>5
  <2>9. \A p \in Page : new[p].slots = IF p = q THEN eff ELSE st.pages[p].slots
    BY <2>1, <2>2 DEF Pages, PageType
  <2> HIDE DEF new, old
  <2>11. ASSUME NEW r \in Rid
         PROVE Slot(new, r) = IF rec.rid = r THEN Undone(Slot(st.pages, r), rec) ELSE Slot(st.pages, r)
    <3>1. r = <<r[1], r[2]>> /\ r[1] \in Page /\ r[2] \in SlotOf(r[1]) BY RidParts
    <3>2. CASE r[1] # q BY <2>1, <2>9, <3>1, <3>2 DEF Slot
    <3>3. CASE r[1] = q
      <4>1. Slot(new, r) = [old EXCEPT ![j] = Undone(old[j], rec)][r[2]]
        BY <2>4, <2>9, <3>1, <3>3 DEF Slot
      <4>2. r[2] \in DOMAIN old /\ Slot(st.pages, r) = old[r[2]] BY <2>3, <2>10, <3>1, <3>3 DEF PageSlots
      <4>3. CASE r[2] = j BY <2>1, <3>1, <3>3, <4>1, <4>2, <4>3
      <4>4. CASE r[2] # j BY <2>1, <3>1, <3>3, <4>1, <4>2, <4>4
      <4> QED BY <4>3, <4>4
    <3> QED BY <3>2, <3>3
  <2> QED BY <1>2, <2>1, <2>6, <2>8, <2>11
<1> QED BY <1>1, <1>2

\* Every slot has its own place in the log, b[r]: the records on it after that place
\* are those of the transaction o[r], and none of those before it is of t.
OwnersAfter(log, b, o, t) ==
  \A i \in 1 .. Len(log), r \in Rid :
    log[i].rid = r => IF i <= b[r] THEN log[i].txn # t ELSE log[i].txn = o[r]

UndoInput(log, hist, pages, t, b, o) ==
  /\ log \in Seq(LogRecord) /\ Describes(hist, log) /\ pages \in Pages
  /\ \A i \in 1 .. Len(log) : log[i].txn = t => log[i].type # "APPLYDELETE"
  /\ b \in [Rid -> 0 .. Len(log)] /\ OwnersAfter(log, b, o, t)
  /\ \A r \in Rid : o[r] = t => Slot(pages, r) = Slot(hist[Len(log)], r)

UndoOutput(st, hist, pages, t, b, o) ==
  /\ ~st.panic
  /\ \A r \in Rid : Slot(st.pages, r) = IF o[r] = t THEN Slot(hist[b[r]], r) ELSE Slot(pages, r)

\* Undo of t brings the slots that t owns back to their places, leaves the others
\* alone, and does not panic, if t has freed no slot.
LEMMA UndoIsExact ==
  ASSUME NEW log, NEW hist, NEW pages, NEW t, NEW b, NEW o,
         UndoInput(log, hist, pages, t, b, o)
  PROVE UndoOutput(UndoFold(t, log, [pages |-> pages, panic |-> FALSE]), hist, pages, t, b, o)
<1> DEFINE n == Len(log)
           base == [pages |-> pages, panic |-> FALSE]
           At(k, r) == IF k - 1 > b[r] THEN k - 1 ELSE b[r]
<1> USE DEF UndoInput
<1>0. /\ n \in Nat /\ base \in RecoveryState /\ \A i \in 1 .. n : log[i] \in LogRecord
      /\ \A r \in Rid : b[r] \in Nat /\ b[r] <= n
  <2>1. base \in RecoveryState BY DEF RecoveryState
  <2> QED BY <2>1
<1>1. PICK f \in [1 .. n + 1 -> RecoveryState] :
        /\ f[n + 1] = base /\ \A k \in 1 .. n : f[k] = UndoRecord(t, f[k + 1], log[k])
        /\ f[1] = UndoFold(t, log, base)
  <2> HIDE DEF base
  <2> QED BY <1>0, UndoSteps
<1> DEFINE Good(k) ==
             /\ ~f[k].panic
             /\ \A r \in Rid : Slot(f[k].pages, r) =
                                 IF o[r] = t THEN Slot(hist[At(k, r)], r) ELSE Slot(pages, r)
           T == {j \in 0 .. n : ~Good(n + 1 - j)}
<1>2. Good(n + 1)
  <2>1. \A r \in Rid : o[r] = t => Slot(hist[At(n + 1, r)], r) = Slot(hist[n], r)
    <3>1. \A r \in Rid : At(n + 1, r) = n BY <1>0
    <3> QED BY <3>1
  <2>2. f[n + 1].pages = pages /\ ~f[n + 1].panic BY <1>1
  <2> HIDE DEF At
  <2> QED BY <2>1, <2>2
<1>3. ASSUME NEW k \in 1 .. n, Good(k + 1) PROVE Good(k)
  <2> DEFINE rec == log[k]
             st == f[k + 1]
  <2>1. /\ rec \in LogRecord /\ hist[k - 1] \in Pages /\ hist[k] \in Pages
        /\ FitsPages(hist[k - 1], rec) /\ hist[k] = After(hist[k - 1], rec)
        /\ k \in Nat /\ st \in RecoveryState /\ f[k] = UndoRecord(t, st, rec)
        /\ (rec.txn = t => rec.type # "APPLYDELETE")
    BY <1>0, <1>1 DEF Describes
  <2>2. \A r \in Rid : Slot(hist[k], r) =
          IF rec.rid = r THEN Redone(Slot(hist[k - 1], r), rec) ELSE Slot(hist[k - 1], r)
    BY <2>1, AfterPages
  <2>3. \A r \in Rid : rec.rid = r => IF k <= b[r] THEN rec.txn # t ELSE rec.txn = o[r]
    BY DEF OwnersAfter
  <2>4. \A r \in Rid : /\ k <= b[r] => At(k + 1, r) = b[r] /\ At(k, r) = b[r]
                       /\ ~(k <= b[r]) => At(k + 1, r) = k /\ At(k, r) = k - 1
    BY <1>0, <2>1
  <2>5. ASSUME NEW r \in Rid, rec.rid = r, rec.txn = t
        PROVE /\ o[r] = t /\ At(k + 1, r) = k /\ At(k, r) = k - 1
              /\ Undone(Slot(hist[k], r), rec) = Slot(hist[k - 1], r)
              /\ rec.type \in {"INSERT", "MARKDELETE"} => Slot(hist[k], r).tuple # NoTuple
    <3>1. o[r] = t /\ At(k + 1, r) = k /\ At(k, r) = k - 1 BY <2>3, <2>4, <2>5
    <3> HIDE DEF At
    <3>2. OfPage(r[1], rec) /\ r[1] \in Page /\ HasRid(rec) BY <2>5, RidParts DEF OfPage, HasRid
    <3>3. hist[k - 1][r[1]].slots \in PageSlots(r[1]) BY <2>1, <3>2, PageFacts
    <3>4. Fits(hist[k - 1][r[1]].slots, rec) BY <2>1, <2>5, <3>2 DEF FitsPages
    <3>5. LET s == hist[k - 1][r[1]].slots[rec.rid[2]] IN
          /\ Undone(Redone(s, rec), rec) = s
          /\ rec.type \in {"INSERT", "MARKDELETE"} => Redone(s, rec).tuple # NoTuple
      BY <2>1, <2>5, <3>2, <3>3, <3>4, UndoTakesBack
    <3>6. Slot(hist[k], r) = Redone(Slot(hist[k - 1], r), rec) BY <2>2, <2>5
    <3> QED BY <2>5, <3>1, <3>5, <3>6 DEF Slot
  <2>6. ASSUME NEW r \in Rid, ~(rec.rid = r /\ rec.txn = t), o[r] = t
        PROVE Slot(hist[At(k + 1, r)], r) = Slot(hist[At(k, r)], r)
    <3>1. CASE k <= b[r] BY <2>4, <3>1
    <3>2. CASE ~(k <= b[r])
      <4>1. rec.rid # r BY <2>3, <2>6, <3>2
      <4> QED BY <2>2, <2>4, <3>2, <4>1
    <3> QED BY <3>1, <3>2
  <2> HIDE DEF At
  <2>7. \A r \in Rid : Slot(f[k].pages, r) =
          IF rec.txn = t /\ rec.rid = r THEN Undone(Slot(st.pages, r), rec) ELSE Slot(st.pages, r)
    BY <2>1, UndoPages
  <2>8. ~f[k].panic
    <3> SUFFICES ASSUME f[k].panic PROVE FALSE OBVIOUS
    <3>1. /\ rec.txn = t /\ rec.rid \in Rid /\ rec.type \in {"INSERT", "MARKDELETE"}
          /\ Slot(st.pages, rec.rid).tuple = NoTuple
      BY <1>3, <2>1, UndoPages
    <3>2. Slot(st.pages, rec.rid) = Slot(hist[k], rec.rid) BY <1>3, <2>5, <3>1
    <3> QED BY <2>5, <3>1, <3>2
  <2>9. ASSUME NEW r \in Rid
        PROVE Slot(f[k].pages, r) = IF o[r] = t THEN Slot(hist[At(k, r)], r) ELSE Slot(pages, r)
    <3>1. CASE rec.rid = r /\ rec.txn = t
      <4>1. Slot(st.pages, r) = Slot(hist[k], r) BY <1>3, <2>5, <3>1
      <4> QED BY <2>5, <2>7, <3>1, <4>1
    <3>2. CASE ~(rec.rid = r /\ rec.txn = t)
      <4>1. Slot(f[k].pages, r) = Slot(st.pages, r) BY <2>7, <3>2
      <4> QED BY <1>3, <2>6, <3>2, <4>1
    <3> QED BY <3>1, <3>2
  <2> QED BY <2>8, <2>9
<1> HIDE DEF Good
<1>4. ASSUME T # {} PROVE FALSE
  <2>1. T \subseteq Nat OBVIOUS
  <2>2. PICK j \in T : \A i \in T : j <= i
    <3> HIDE DEF T
    <3> QED BY <1>4, <2>1, LeastNat
  <2>3. j \in 0 .. n /\ ~Good(n + 1 - j) BY <2>2
  <2>4. j # 0
    <3> SUFFICES ASSUME j = 0 PROVE FALSE OBVIOUS
    <3>1. n + 1 - j = n + 1 BY <1>0
    <3> QED BY <1>2, <2>3, <3>1
  <2>5. j - 1 \in 0 .. n /\ j - 1 \notin T
    <3> HIDE DEF T
    <3> QED BY <2>2, <2>3, <2>4
  <2>6. n + 1 - j \in 1 .. n /\ n + 1 - (j - 1) = (n + 1 - j) + 1 BY <1>0, <2>3, <2>4
  <2>7. Good((n + 1 - j) + 1) BY <2>5, <2>6
  <2> QED BY <1>3, <2>3, <2>6, <2>7
<1>5. Good(1)
  <2>1. n + 1 - n = 1 /\ n \in 0 .. n BY <1>0
  <2>2. T = {} BY <1>4
  <2> QED BY <2>1, <2>2
<1>6. \A r \in Rid : At(1, r) = b[r] BY <1>0
<1> HIDE DEF At
<1> QED BY <1>1, <1>5, <1>6 DEF Good, UndoOutput

-----------------------------------------------------------------------------
(***************************************************************************)
(* Restart after the first crash, and after crashes in Redo and Undo.      *)
(***************************************************************************)
NoAbort(log) == \A i \in 1 .. Len(log) : log[i].type # "ABORT"

\* Every rid has its place in the log: up to it the log has records of committed
\* transactions, and what they made of the rid is what is committed; after it only
\* records of one transaction, the rid's owner, which has not committed.
Settled(log, hist, b, o) ==
  /\ b \in [Rid -> 0 .. Len(log)]
  /\ \A r \in Rid : Content(hist[b[r]], r) = committed[r]
  /\ \A i \in 1 .. Len(log), r \in Rid : log[i].rid = r =>
       IF i <= b[r] THEN HasCommit(log[i].txn)
                    ELSE log[i].txn = o[r] /\ ~HasCommit(log[i].txn)

\* What a restart relies on.
FileInv(hist, b, o) ==
  /\ Describes(hist, log_file)
  /\ \A p \in Page : disk[p].lsn <= Len(log_file) => disk[p] = hist[disk[p].lsn][p]
  /\ \A i \in 1 .. Len(log_file) : log_file[i].type = "ABORT" => ~HasCommit(log_file[i].txn)
  /\ NoAbort(log_file) => Settled(log_file, hist, b, o)

\* Undo has brought the rids of the transactions it has treated to their places.
UndoneSoFar(hist, b, o) ==
  /\ \A t \in active_txn : ~HasCommit(t)
  /\ \A r \in Rid : Slot(cache, r) =
       Slot(hist[IF o[r] \in active_txn THEN Len(log_file) ELSE b[r]], r)

RestartInv(hist, b, o) ==
  /\ phase \in {"redo", "undo", "panic"}
  /\ txn = [t \in Txn |-> "none"]
  /\ FileInv(hist, b, o)
  /\ phase = "undo" /\ CleanCrash => UndoneSoFar(hist, b, o)
  /\ phase = "panic" => ~CleanCrash

LEMMA GreatestIsFold == GreatestLSN = GreatestFold(log_file) BY DEF GreatestLSN, GreatestFold

LEMMA CleanCrashFacts ==
  ASSUME Types, NEW hist, NEW b, NEW o, FileInv(hist, b, o), CleanCrash
  PROVE /\ Settled(log_file, hist, b, o)
        /\ \A p \in Page : disk[p].lsn <= Len(log_file)
        /\ \A i \in 1 .. Len(log_file) :
             ~HasCommit(log_file[i].txn) => log_file[i].type # "APPLYDELETE"
<1> DEFINE n == Len(log_file)
<1>0. log_file \in Seq(LogRecord) /\ n \in Nat /\ DOMAIN log_file = 1 .. n BY DEF Types
<1>1. \A i \in 1 .. n : log_file[i].txn \in Txn /\ log_file[i].txn \in Mentioned
  BY <1>0, RecordFacts DEF Mentioned
<1>2. \A i \in 1 .. n : ~HasCommit(log_file[i].txn) => ~Finished(log_file[i].txn)
  BY <1>1 DEF CleanCrash, Loser
<1>3. \A i \in 1 .. n : ~HasCommit(log_file[i].txn) => log_file[i].type \notin {"APPLYDELETE", "ABORT"}
  <2> SUFFICES ASSUME NEW i \in 1 .. n, ~HasCommit(log_file[i].txn),
                      log_file[i].type \in {"APPLYDELETE", "ABORT"}
               PROVE FALSE
    OBVIOUS
  <2>1. Finished(log_file[i].txn) BY <1>0 DEF Finished
  <2> QED BY <1>2, <2>1
<1>4. NoAbort(log_file) BY <1>3 DEF NoAbort, FileInv
<1>5. GreatestLSN = GreatestFold(log_file) BY GreatestIsFold
<1>6. GreatestFold(log_file) \in Nat /\ GreatestFold(log_file) <= n
  <2>1. \A i \in 1 .. n : log_file[i].lsn <= n BY <1>0 DEF FileInv, Describes
  <2> QED BY <1>0, <2>1, GreatestBound
<1> HIDE DEF GreatestLSN
<1>7. \A p \in Page : disk[p].lsn \in Nat /\ disk[p].lsn <= GreatestLSN
  BY PageFacts DEF Types, CleanCrash, LogCoversDisk
<1>8. \A p \in Page : disk[p].lsn <= n BY <1>0, <1>5, <1>6, <1>7
<1> QED BY <1>3, <1>4, <1>8 DEF FileInv

LEMMA FileKept ==
  ASSUME NEW hist, NEW b, NEW o, UNCHANGED <<log_file, disk, committed>>
  PROVE /\ FileInv(hist, b, o) => FileInv(hist, b, o)'
        /\ CleanCrash' = CleanCrash /\ (\A t : HasCommit(t)' = HasCommit(t))
<1>1. \A t : HasCommit(t)' = HasCommit(t) BY DEF HasCommit
<1>2. GreatestLSN' = GreatestLSN
  <2>1. (GreatestLSN = GreatestFold(log_file))' BY GreatestIsFold, PTL
  <2> QED BY <2>1, GreatestIsFold
<1> HIDE DEF GreatestLSN
<1>3. LogCoversDisk' = LogCoversDisk BY <1>2 DEF LogCoversDisk
<1>4. CleanCrash' = CleanCrash BY <1>1, <1>3 DEF CleanCrash, Loser, Finished, Mentioned
<1>5. FileInv(hist, b, o) => FileInv(hist, b, o)'
  BY <1>1 DEF FileInv, Settled, Describes, NoAbort, Content
<1> QED BY <1>1, <1>4, <1>5

LEMMA RedoRestarts ==
  ASSUME Types, NEW hist, NEW b, NEW o, RestartInv(hist, b, o), Redo
  PROVE RestartInv(hist, b, o)'
<1> DEFINE n == Len(log_file)
<1>0. /\ log_file \in Seq(LogRecord) /\ n \in Nat /\ DOMAIN log_file = 1 .. n /\ disk \in Pages
      /\ \A i \in 1 .. n : log_file[i] \in LogRecord
  BY DEF Types
<1>1. UNCHANGED <<log_file, disk, committed, txn>> /\ phase' \in {"undo", "panic"}
  BY DEF Redo, logVars, txnVars
<1>2. FileInv(hist, b, o) BY DEF RestartInv
<1>3. /\ FileInv(hist, b, o)' /\ CleanCrash' = CleanCrash /\ \A t : HasCommit(t)' = HasCommit(t)
  BY <1>1, <1>2, FileKept
<1>4. ASSUME CleanCrash PROVE phase' = "undo" /\ UndoneSoFar(hist, b, o)'
  <2>1. Settled(log_file, hist, b, o) /\ \A p \in Page : disk[p].lsn <= n
    BY <1>2, <1>4, CleanCrashFacts
  <2>2. RedoFold(log_file, [pages |-> disk, panic |-> FALSE]) = [pages |-> hist[n], panic |-> FALSE]
    BY <1>0, <1>2, <2>1, RedoIsExact DEF FileInv
  <2>3. PICK st \in RecoveryState :
          /\ st = RedoFold(log_file, [pages |-> disk, panic |-> FALSE])
          /\ cache' = st.pages /\ phase' = IF st.panic THEN "panic" ELSE "undo"
    BY RedoEnd
  <2>4. st.pages = hist[n] /\ ~st.panic BY <2>2, <2>3
  <2>5. cache' = hist[n] /\ phase' = "undo" BY <2>3, <2>4
  <2>6. active_txn' = {t \in Mentioned : ~HasCommit(t)} BY DEF Redo
  <2>7. \A t \in active_txn' : ~HasCommit(t)' BY <1>3, <2>6
  <2>8. ASSUME NEW r \in Rid
        PROVE Slot(cache', r) = Slot(hist[IF o[r] \in active_txn' THEN n ELSE b[r]], r)
    <3>1. CASE o[r] \in active_txn' BY <2>5, <3>1
    <3>2. CASE o[r] \notin active_txn'
      <4>1. ASSUME NEW i \in 1 .. n, b[r] < i PROVE log_file[i].rid # r
        <5> SUFFICES ASSUME log_file[i].rid = r PROVE FALSE OBVIOUS
        <5>1. b[r] \in 0 .. n /\ ~(i <= b[r]) BY <1>0, <2>1, <4>1 DEF Settled
        <5>2. log_file[i].txn = o[r] /\ ~HasCommit(log_file[i].txn) BY <2>1, <5>1 DEF Settled
        <5>3. log_file[i].txn \in Mentioned BY <1>0 DEF Mentioned
        <5> QED BY <2>6, <3>2, <5>2, <5>3
      <4>2. b[r] \in 0 .. n BY <2>1 DEF Settled
      <4>3. Describes(hist, log_file) BY <1>2 DEF FileInv
      <4>4. Slot(hist[n], r) = Slot(hist[b[r]], r) BY <1>0, <4>1, <4>2, <4>3, QuietSlot
      <4> QED BY <2>5, <3>2, <4>4
    <3> QED BY <3>1, <3>2
  <2> QED BY <1>1, <2>5, <2>7, <2>8 DEF UndoneSoFar, Slot
<1> QED BY <1>1, <1>3, <1>4 DEF RestartInv

LEMMA UndoRestarts ==
  ASSUME Types, NEW hist, NEW b, NEW o, RestartInv(hist, b, o), NEW t \in Txn, Undo(t)
  PROVE RestartInv(hist, b, o)'
<1> DEFINE n == Len(log_file)
<1>0. /\ log_file \in Seq(LogRecord) /\ n \in Nat /\ DOMAIN log_file = 1 .. n /\ cache \in Pages
      /\ \A i \in 1 .. n : log_file[i] \in LogRecord
  BY DEF Types
<1>1. UNCHANGED <<log_file, disk, committed, txn>> /\ phase' \in {"undo", "panic"} /\ phase = "undo"
      /\ t \in active_txn /\ active_txn' = active_txn \ {t}
  BY DEF Undo, logVars, txnVars
<1>2. FileInv(hist, b, o) BY DEF RestartInv
<1>3. /\ FileInv(hist, b, o)' /\ CleanCrash' = CleanCrash /\ \A u : HasCommit(u)' = HasCommit(u)
  BY <1>1, <1>2, FileKept
<1>4. ASSUME CleanCrash PROVE phase' = "undo" /\ UndoneSoFar(hist, b, o)'
  <2>1. /\ Settled(log_file, hist, b, o)
        /\ \A i \in 1 .. n : ~HasCommit(log_file[i].txn) => log_file[i].type # "APPLYDELETE"
    BY <1>2, <1>4, CleanCrashFacts
  <2>2. UndoneSoFar(hist, b, o) BY <1>1, <1>4 DEF RestartInv
  <2>3. ~HasCommit(t) BY <1>1, <2>2 DEF UndoneSoFar
  <2>4. \A i \in 1 .. n : log_file[i].txn = t => log_file[i].type # "APPLYDELETE" BY <2>1, <2>3
  <2>5. OwnersAfter(log_file, b, o, t) BY <2>1, <2>3 DEF OwnersAfter, Settled
  <2>6. \A r \in Rid : o[r] = t => Slot(cache, r) = Slot(hist[n], r) BY <1>1, <2>2 DEF UndoneSoFar
  <2>7. PICK st \in RecoveryState :
          /\ st = UndoFold(t, log_file, [pages |-> cache, panic |-> FALSE])
          /\ cache' = st.pages /\ phase' = IF st.panic THEN "panic" ELSE "undo"
    BY UndoEnd
  <2>8. /\ ~st.panic
        /\ \A r \in Rid : Slot(st.pages, r) = IF o[r] = t THEN Slot(hist[b[r]], r) ELSE Slot(cache, r)
    <3>1. b \in [Rid -> 0 .. n] BY <2>1 DEF Settled
    <3>2. Describes(hist, log_file) BY <1>2 DEF FileInv
    <3>3. UndoInput(log_file, hist, cache, t, b, o)
      BY <1>0, <2>4, <2>5, <2>6, <3>1, <3>2 DEF UndoInput
    <3>4. UndoOutput(UndoFold(t, log_file, [pages |-> cache, panic |-> FALSE]), hist, cache, t, b, o)
      BY <3>3, UndoIsExact
    <3> QED BY <2>7, <3>4 DEF UndoOutput
  <2>9. phase' = "undo" BY <2>7, <2>8
  <2>10. \A u \in active_txn' : ~HasCommit(u)' BY <1>1, <1>3, <2>2 DEF UndoneSoFar
  <2>11. ASSUME NEW r \in Rid
         PROVE Slot(cache', r) = Slot(hist[IF o[r] \in active_txn' THEN n ELSE b[r]], r)
    <3>1. Slot(cache, r) = Slot(hist[IF o[r] \in active_txn THEN n ELSE b[r]], r)
      BY <2>2 DEF UndoneSoFar
    <3>2. Slot(cache', r) = IF o[r] = t THEN Slot(hist[b[r]], r) ELSE Slot(cache, r)
      BY <2>7, <2>8
    <3>3. CASE o[r] = t BY <1>1, <3>2, <3>3
    <3>4. CASE o[r] # t BY <1>1, <3>1, <3>2, <3>4
    <3> QED BY <3>3, <3>4
  <2> QED BY <1>1, <2>9, <2>10, <2>11 DEF UndoneSoFar, Slot
<1> QED BY <1>1, <1>3, <1>4 DEF RestartInv

\* A crash loses what Redo and Undo did so far, and nothing else.
LEMMA CrashRestarts ==
  ASSUME NEW hist, NEW b, NEW o, FileInv(hist, b, o), Crash
  PROVE RestartInv(hist, b, o)'
<1>1. UNCHANGED <<log_file, disk, committed>> /\ phase' = "redo" /\ txn' = [t \in Txn |-> "none"]
  BY DEF Crash
<1>2. FileInv(hist, b, o)' BY <1>1, FileKept
<1> QED BY <1>1, <1>2 DEF RestartInv

LEMMA RestartGivesCommitted ==
  ASSUME Types, NEW hist, NEW b, NEW o, RestartInv(hist, b, o)
  PROVE RecoveryIsExact /\ RestartNeverPanics
<1>1. RestartNeverPanics BY DEF RestartNeverPanics, RestartInv
<1>2. ASSUME RecoveryDone, CleanCrash PROVE Contents(cache) = committed
  <2>1. phase = "undo" /\ active_txn = {} BY <1>2 DEF RecoveryDone
  <2>2. UndoneSoFar(hist, b, o) /\ FileInv(hist, b, o) BY <1>2, <2>1 DEF RestartInv
  <2>3. Settled(log_file, hist, b, o) BY <1>2, <2>2, CleanCrashFacts
  <2>4. \A r \in Rid : Slot(cache, r) = Slot(hist[b[r]], r) BY <2>1, <2>2 DEF UndoneSoFar
  <2>5. \A r \in Rid : Content(cache, r) = committed[r]
    BY <2>3, <2>4 DEF Settled, Content, Slot
  <2>6. committed = [r \in Rid |-> committed[r]] BY DEF Types
  <2> QED BY <2>5, <2>6 DEF Contents
<1> QED BY <1>1, <1>2 DEF RecoveryIsExact

-----------------------------------------------------------------------------
(***************************************************************************)
(* Before the first crash: the log, with what is in the buffer, describes  *)
(* the pages.                                                              *)
(***************************************************************************)
History == log_file \o log_buffer
Logged(t, type) == \E i \in 1 .. Len(History) : History[i].txn = t /\ History[i].type = type

\* How a transaction ends is in the log, once it is decided.
LogInv ==
  \A t \in Txn :
    /\ Logged(t, "COMMIT") => txn[t] \in {"flushing", "ended"}
    /\ Logged(t, "ABORT") => txn[t] = "ended" /\ ~Logged(t, "COMMIT")
    /\ txn[t] = "flushing" => Logged(t, "COMMIT")

\* What Commit and Abort have still to do is possible: a transaction owns the rids of
\* its write records, and they are as its records left them.
RecordOK(w, k, t, state, locks, pages) ==
  LET s == Slot(pages, w[k].rid) IN
  /\ locks[w[k].rid] = t
  /\ w[k].wtype = "UPDATE" => w[k].old \in Value
  /\ w[k].wtype = "DELETE" => s.tuple # NoTuple /\ s.deleted
  /\ w[k].wtype # "DELETE" /\ state \in {"active", "aborting"} =>
       /\ s.tuple # NoTuple
       /\ s.deleted => \E j \in 1 .. Len(w) : k < j /\ w[j].rid = w[k].rid /\ w[j].wtype = "DELETE"
  /\ \A j \in 1 .. Len(w) : j < k /\ w[j].rid = w[k].rid =>
       w[j].wtype # "DELETE" /\ w[k].wtype # "INSERT"

RecordsOK(t) ==
  /\ txn[t] \in {"none", "flushing", "ended"} => write_set[t] = << >>
  /\ \A k \in 1 .. Len(write_set[t]) : RecordOK(write_set[t], k, t, txn[t], lock, cache)

HistInv(hist, b, fb, fo) ==
  /\ Describes(hist, History) /\ next_lsn = Len(History) + 1
  /\ cache = hist[Len(History)]
  /\ \A p \in Page : /\ cache[p] = hist[cache[p].lsn][p]
                     /\ disk[p] = hist[disk[p].lsn][p] /\ disk[p].lsn <= Len(History)
  /\ NoAbort(History) => Settled(History, hist, b, lock)
  /\ NoAbort(log_file) => Settled(log_file, hist, fb, fo)

UpInv(hist, b, fb, fo) ==
  /\ phase \in {"up", "checkpoint"} /\ crashes = 0
  /\ LogInv /\ (\A t \in Txn : RecordsOK(t)) /\ HistInv(hist, b, fb, fo)

LEMMA HistoryFacts ==
  ASSUME Types
  PROVE /\ History \in Seq(LogRecord) /\ Len(History) = Len(log_file) + Len(log_buffer)
        /\ Len(log_file) \in Nat /\ Len(log_buffer) \in Nat /\ Len(History) \in Nat
        /\ DOMAIN log_file = 1 .. Len(log_file) /\ DOMAIN log_buffer = 1 .. Len(log_buffer)
        /\ \A i \in 1 .. Len(log_file) : i \in 1 .. Len(History) /\ History[i] = log_file[i]
        /\ \A i \in 1 .. Len(History) : History[i] \in LogRecord
        /\ \A i \in 1 .. Len(History) : i > Len(log_file) =>
             i - Len(log_file) \in 1 .. Len(log_buffer) /\ History[i] = log_buffer[i - Len(log_file)]
<1>1. log_file \in Seq(LogRecord) /\ log_buffer \in Seq(LogRecord) BY DEF Types
<1>2. History \in Seq(LogRecord) /\ Len(History) = Len(log_file) + Len(log_buffer) BY <1>1 DEF History
<1> QED BY <1>1, <1>2 DEF History

LEMMA HistoryGrows ==
  ASSUME Types, NEW rec \in LogRecord, AppendLogRecord(rec)
  PROVE /\ History' = Append(History, rec) /\ Len(History') = Len(History) + 1
        /\ Len(History) \in Nat /\ log_file' = log_file
        /\ History'[Len(History) + 1] = rec
        /\ \A i \in 1 .. Len(History) : History'[i] = History[i]
<1>1. log_file \in Seq(LogRecord) /\ log_buffer \in Seq(LogRecord) BY DEF Types
<1>2. History' = Append(History, rec)
  <2>1. log_file \o Append(log_buffer, rec) = Append(log_file \o log_buffer, rec) BY <1>1
  <2> QED BY <2>1 DEF AppendLogRecord, History
<1>3. History \in Seq(LogRecord) BY HistoryFacts
<1> HIDE DEF History
<1>4. Append(History, rec) \in Seq(LogRecord) /\ Len(Append(History, rec)) = Len(History) + 1
      /\ Append(History, rec)[Len(History) + 1] = rec
      /\ \A i \in 1 .. Len(History) : Append(History, rec)[i] = History[i]
  BY <1>3
<1> QED BY <1>2, <1>3, <1>4 DEF AppendLogRecord

\* After a flush the log file has all records, and its commits are all the commits.
LEMMA HistoryFlushed ==
  ASSUME Types, Flush
  PROVE /\ History' = History /\ log_file' = History
        /\ \A t : HasCommit(t)' <=> Logged(t, "COMMIT")
        /\ \A t : HasCommit(t)' <=> HasCommit(t) \/ Committing(t)
<1>1. log_file' = History BY DEF Flush, History
<1>2. History' = History
  <2>1. log_file \in Seq(LogRecord) /\ log_buffer \in Seq(LogRecord) BY DEF Types
  <2>2. (log_file \o log_buffer) \o << >> = log_file \o log_buffer BY <2>1
  <2> QED BY <2>2 DEF Flush, History
<1>3. \A t : HasCommit(t)' <=> Logged(t, "COMMIT")
  <2>1. DOMAIN History = 1 .. Len(History) BY HistoryFacts
  <2> QED BY <1>1, <2>1 DEF HasCommit, Logged
<1>4. ASSUME NEW t PROVE Logged(t, "COMMIT") <=> HasCommit(t) \/ Committing(t)
  <2>1. ASSUME Logged(t, "COMMIT") PROVE HasCommit(t) \/ Committing(t)
    <3>1. PICK i \in 1 .. Len(History) : History[i].txn = t /\ History[i].type = "COMMIT"
      BY <2>1 DEF Logged
    <3>2. CASE i <= Len(log_file)
      <4>1. i \in 1 .. Len(log_file) BY <3>1, <3>2, HistoryFacts
      <4> QED BY <3>1, <4>1, HistoryFacts DEF HasCommit
    <3>3. CASE i > Len(log_file) BY <3>1, <3>3, HistoryFacts DEF Committing
    <3> QED BY <3>1, <3>2, <3>3, HistoryFacts
  <2>2. ASSUME HasCommit(t) PROVE Logged(t, "COMMIT") BY <2>2, HistoryFacts DEF HasCommit, Logged
  <2>3. ASSUME Committing(t) PROVE Logged(t, "COMMIT")
    <3>1. PICK i \in 1 .. Len(log_buffer) : log_buffer[i].txn = t /\ log_buffer[i].type = "COMMIT"
      BY <2>3, HistoryFacts DEF Committing
    <3> DEFINE j == Len(log_file) + i
    <3>2. j \in 1 .. Len(History) /\ j > Len(log_file) /\ j - Len(log_file) = i BY <3>1, HistoryFacts
    <3>3. History[j] = log_buffer[i] BY <3>2, HistoryFacts
    <3> QED BY <3>1, <3>2, <3>3 DEF Logged
  <2> QED BY <2>1, <2>2, <2>3
<1> QED BY <1>1, <1>2, <1>3, <1>4

\* A crash leaves what a restart relies on.
LEMMA UpGivesFile ==
  ASSUME Types, NEW hist, NEW b, NEW fb, NEW fo, UpInv(hist, b, fb, fo)
  PROVE FileInv(hist, fb, fo)
<1> DEFINE n == Len(log_file)
<1>0. /\ n \in Nat /\ Len(History) \in Nat /\ n <= Len(History)
      /\ \A i \in 1 .. n : i \in 1 .. Len(History) /\ History[i] = log_file[i]
      /\ \A i \in 0 .. n : i \in 0 .. Len(History)
  BY HistoryFacts
<1>1. Describes(hist, log_file) BY <1>0 DEF UpInv, HistInv, Describes
<1>2. ASSUME NEW i \in 1 .. n, log_file[i].type = "ABORT" PROVE ~HasCommit(log_file[i].txn)
  <2>1. Logged(log_file[i].txn, "ABORT") BY <1>0, <1>2 DEF Logged
  <2>2. log_file[i].txn \in Txn BY HistoryFacts, <1>0, RecordFacts
  <2>3. ~Logged(log_file[i].txn, "COMMIT") BY <2>1, <2>2 DEF UpInv, LogInv
  <2> QED BY <1>0, <2>3, HistoryFacts DEF Logged, HasCommit
<1> QED BY <1>1, <1>2 DEF FileInv, UpInv, HistInv

\* A step of t that writes rec, does to the pages what rec says, and takes t to s.
\* It may lock rids that are free, and an ABORT may unlock.
Writes(t, rec, s) ==
  /\ rec \in LogRecord /\ rec.txn = t /\ rec.lsn = next_lsn
  /\ AppendLogRecord(rec) /\ FitsPages(cache, rec) /\ cache' = After(cache, rec)
  /\ UNCHANGED <<disk, committed, phase, crashes>>
  /\ txn[t] \notin {"flushing", "ended"} /\ txn' = [txn EXCEPT ![t] = s]
  /\ rec.type = "COMMIT" => s \in {"flushing", "ended"}
  /\ rec.type = "ABORT" => s = "ended"
  /\ s = "flushing" => rec.type = "COMMIT"
  /\ \A u \in Txn : u # t => write_set'[u] = write_set[u]
  /\ \A r \in Rid : lock'[r] = lock[r] \/ lock[r] = NoTxn \/ (lock[r] = t /\ rec.type = "ABORT")
  /\ HasRid(rec) => lock[rec.rid] \in {NoTxn, t} /\ lock'[rec.rid] = t

LEMMA WritesLog ==
  ASSUME Types, LogInv, NEW t \in Txn, NEW rec, NEW s, Writes(t, rec, s)
  PROVE LogInv'
<1>1. /\ Len(History') = Len(History) + 1 /\ Len(History) \in Nat
      /\ History'[Len(History) + 1] = rec
      /\ \A i \in 1 .. Len(History) : History'[i] = History[i]
  BY HistoryGrows DEF Writes
<1>2. ASSUME NEW u, NEW type
      PROVE Logged(u, type)' <=> Logged(u, type) \/ (rec.txn = u /\ rec.type = type)
  <2>1. 1 .. Len(History') = 1 .. Len(History) \cup {Len(History) + 1} BY <1>1
  <2> HIDE DEF History
  <2> QED BY <1>1, <2>1 DEF Logged
<1>3. /\ rec.txn = t /\ txn[t] \notin {"flushing", "ended"}
      /\ \A u \in Txn : txn'[u] = IF u = t THEN s ELSE txn[u]
  BY DEF Writes, Types
<1>4. ~Logged(t, "COMMIT") /\ ~Logged(t, "ABORT") BY <1>3 DEF LogInv
<1>5. /\ rec.type = "COMMIT" => s \in {"flushing", "ended"}
      /\ rec.type = "ABORT" => s = "ended"
      /\ s = "flushing" => rec.type = "COMMIT"
  BY DEF Writes
<1> HIDE DEF Logged, Writes
<1> SUFFICES ASSUME NEW u \in Txn
             PROVE /\ Logged(u, "COMMIT")' => txn'[u] \in {"flushing", "ended"}
                   /\ Logged(u, "ABORT")' => txn'[u] = "ended" /\ ~Logged(u, "COMMIT")'
                   /\ txn'[u] = "flushing" => Logged(u, "COMMIT")'
  BY DEF LogInv
<1>6. CASE u = t BY <1>2, <1>3, <1>4, <1>5, <1>6
<1>7. CASE u # t BY <1>2, <1>3, <1>7 DEF LogInv
<1> QED BY <1>6, <1>7

\* A write of t leaves alone what the other transactions own.
LEMMA WritesOthers ==
  ASSUME Types, NEW t \in Txn, NEW rec, NEW s, Writes(t, rec, s),
         NEW u \in Txn, u # t, RecordsOK(u)
  PROVE RecordsOK(u)'
<1>1. write_set'[u] = write_set[u] /\ txn'[u] = txn[u] BY DEF Writes, Types
<1>2. \A r \in Rid : Slot(cache', r) =
        IF rec.rid = r THEN Redone(Slot(cache, r), rec) ELSE Slot(cache, r)
  BY AfterPages DEF Writes, Types
<1>3. ASSUME NEW r \in Rid, lock[r] = u PROVE lock'[r] = u /\ Slot(cache', r) = Slot(cache, r)
  <2>1. u # NoTxn BY RecoveryAssumption
  <2>2. HasRid(rec) => lock[rec.rid] \in {NoTxn, t} BY DEF Writes
  <2>3. rec.rid # r BY <1>3, <2>1, <2>2, RidParts DEF HasRid
  <2>4. lock'[r] = lock[r] BY <1>3, <2>1 DEF Writes
  <2> QED BY <1>2, <1>3, <2>3, <2>4
<1>4. \A k \in 1 .. Len(write_set[u]) : write_set[u][k].rid \in Rid /\ lock[write_set[u][k].rid] = u
  <2>1. write_set[u] \in Seq(WriteRecord) BY DEF Types
  <2>2. \A k \in 1 .. Len(write_set[u]) : write_set[u][k] \in WriteRecord BY <2>1
  <2>3. \A k \in 1 .. Len(write_set[u]) : write_set[u][k].rid \in Rid BY <2>2 DEF WriteRecord
  <2> QED BY <2>3 DEF RecordsOK, RecordOK
<1>5. \A k \in 1 .. Len(write_set[u]) :
        /\ lock'[write_set[u][k].rid] = u
        /\ Slot(cache', write_set[u][k].rid) = Slot(cache, write_set[u][k].rid)
  BY <1>3, <1>4
<1>6. \A k \in 1 .. Len(write_set[u]) :
        RecordOK(write_set[u], k, u, txn[u], lock, cache) =>
        RecordOK(write_set[u], k, u, txn[u], lock', cache')
  <2> HIDE DEF Slot
  <2> QED BY <1>4, <1>5 DEF RecordOK
<1> QED BY <1>1, <1>6 DEF RecordsOK

\* The history goes on with the page that the step has made.
LEMMA WritesHist ==
  ASSUME Types, NEW hist, NEW b, NEW fb, NEW fo, HistInv(hist, b, fb, fo), LogInv,
         NEW t \in Txn, NEW rec, NEW s, Writes(t, rec, s)
  PROVE \E h : HistInv(h, b, fb, fo)'
<1> DEFINE n == Len(History)
<1>12. PICK L : L = History' OBVIOUS
<1>0. /\ Len(L) = n + 1 /\ n \in Nat /\ log_file' = log_file
      /\ L[n + 1] = rec /\ \A i \in 1 .. n : L[i] = History[i]
  BY <1>12, HistoryGrows DEF Writes
<1>1. /\ rec \in LogRecord /\ rec.txn = t /\ rec.lsn = n + 1 /\ next_lsn' = n + 2
      /\ FitsPages(cache, rec) /\ cache' = After(cache, rec) /\ UNCHANGED <<disk, committed>>
  BY <1>0 DEF Writes, AppendLogRecord, HistInv
<1>2. PICK h : h = [i \in 0 .. n + 1 |-> IF i = n + 1 THEN cache' ELSE hist[i]] OBVIOUS
<1>3. (\A i \in 0 .. n : h[i] = hist[i]) /\ h[n + 1] = cache' BY <1>0, <1>2
<1>4. /\ cache \in Pages /\ disk \in Pages /\ cache = hist[n] /\ cache' \in Pages
      /\ \A p \in Page : OfPage(p, rec) => cache'[p].lsn = n + 1
      /\ \A p \in Page : ~OfPage(p, rec) => cache'[p] = cache[p]
  BY <1>1, AfterPages DEF Types, HistInv
<1>5. \A p \in Page : /\ cache[p].lsn \in Nat /\ cache[p].lsn <= n /\ cache[p] = hist[cache[p].lsn][p]
                      /\ disk[p].lsn \in Nat /\ disk[p].lsn <= n /\ disk[p] = hist[disk[p].lsn][p]
  <2>1. \A p \in Page : hist[n][p].lsn <= n BY <1>0 DEF HistInv, Describes
  <2>2. \A p \in Page : cache[p].lsn \in Nat /\ disk[p].lsn \in Nat BY <1>4, PageFacts
  <2>3. \A p \in Page : /\ cache[p] = hist[cache[p].lsn][p]
                        /\ disk[p] = hist[disk[p].lsn][p] /\ disk[p].lsn <= n
    BY DEF HistInv
  <2> QED BY <1>4, <2>1, <2>2, <2>3
<1>6. Describes(h, L)
  <2>1. \A i \in 0 .. Len(L) : h[i] \in Pages BY <1>0, <1>3, <1>4 DEF HistInv, Describes
  <2>2. ASSUME NEW i \in 1 .. Len(L)
        PROVE L[i].lsn = i /\ FitsPages(h[i - 1], L[i]) /\ h[i] = After(h[i - 1], L[i])
    <3>1. CASE i = n + 1
      <4>1. L[i] = rec /\ h[i] = cache' /\ h[i - 1] = cache BY <1>0, <1>3, <1>4, <3>1
      <4> QED BY <1>1, <3>1, <4>1
    <3>2. CASE i # n + 1
      <4>1. i \in 1 .. n /\ i - 1 \in 0 .. n /\ i \in 0 .. n BY <1>0, <3>2
      <4>2. L[i] = History[i] /\ h[i] = hist[i] /\ h[i - 1] = hist[i - 1] BY <1>0, <1>3, <4>1
      <4> QED BY <4>1, <4>2 DEF HistInv, Describes
    <3> QED BY <3>1, <3>2
  <2>3. ASSUME NEW i \in 0 .. Len(L), NEW p \in Page PROVE h[i][p].lsn <= i
    <3>1. CASE i = n + 1 BY <1>0, <1>3, <1>4, <1>5, <3>1
    <3>2. CASE i # n + 1
      <4>1. i \in 0 .. n BY <1>0, <3>2
      <4> QED BY <1>3, <4>1 DEF HistInv, Describes
    <3> QED BY <3>1, <3>2
  <2> QED BY <2>1, <2>2, <2>3 DEF Describes
<1>7. ASSUME NEW p \in Page
      PROVE /\ cache'[p] = h[cache'[p].lsn][p]
            /\ disk'[p] = h[disk'[p].lsn][p] /\ disk'[p].lsn <= Len(L)
  <2>1. disk'[p] = h[disk'[p].lsn][p] /\ disk'[p].lsn <= Len(L) BY <1>0, <1>1, <1>3, <1>5
  <2>2. CASE OfPage(p, rec) BY <1>3, <1>4, <2>1, <2>2
  <2>3. CASE ~OfPage(p, rec) BY <1>0, <1>3, <1>4, <1>5, <2>1, <2>3
  <2> QED BY <2>1, <2>2, <2>3
<1>8. \A u : HasCommit(u)' = HasCommit(u) BY <1>0 DEF HasCommit
<1>9. ASSUME NoAbort(L) PROVE Settled(History, h, b, lock)'
  <2>1. NoAbort(History) /\ rec.type # "ABORT"
    <3>1. \A i \in 1 .. n + 1 : L[i].type # "ABORT" BY <1>0, <1>9 DEF NoAbort
    <3> QED BY <1>0, <3>1 DEF NoAbort
  <2>2. Settled(History, hist, b, lock) BY <2>1 DEF HistInv
  <2>3. b \in [Rid -> 0 .. n + 1] /\ \A r \in Rid : b[r] \in 0 .. n
    <3>1. b \in [Rid -> 0 .. n] BY <2>2 DEF Settled
    <3> QED BY <1>0, <3>1
  <2>4. \A r \in Rid : Content(h[b[r]], r) = committed'[r]
    BY <1>1, <1>3, <2>2, <2>3 DEF Settled
  <2>5. ASSUME NEW i \in 1 .. n + 1, NEW r \in Rid, L[i].rid = r
        PROVE IF i <= b[r] THEN HasCommit(L[i].txn)
              ELSE L[i].txn = lock'[r] /\ ~HasCommit(L[i].txn)
    <3>1. CASE i = n + 1
      <4>1. L[i] = rec /\ ~(i <= b[r]) BY <1>0, <2>3, <3>1
      <4>2. HasRid(rec) /\ lock'[r] = t BY <2>5, <4>1, RidParts DEF Writes, HasRid
      <4>3. ~HasCommit(t)
        <5>1. ~Logged(t, "COMMIT") BY DEF Writes, LogInv
        <5> QED BY <5>1, HistoryFacts DEF Logged, HasCommit
      <4> QED BY <1>1, <4>1, <4>2, <4>3
    <3>2. CASE i # n + 1
      <4>1. i \in 1 .. n /\ L[i] = History[i] BY <1>0, <3>2
      <4>2. History[i].txn \in Txn BY <4>1, HistoryFacts, RecordFacts
      <4>3. IF i <= b[r] THEN HasCommit(L[i].txn) ELSE L[i].txn = lock[r] /\ ~HasCommit(L[i].txn)
        BY <2>2, <2>5, <4>1 DEF Settled
      <4>4. ASSUME lock[r] \in Txn PROVE lock'[r] = lock[r]
        BY <2>1, <4>4, RecoveryAssumption DEF Writes
      <4> QED BY <4>1, <4>2, <4>3, <4>4
    <3> QED BY <3>1, <3>2
  <2>6. Settled(L, h, b, lock)'
    <3>1. \A u : HasCommit(u)' <=> HasCommit(u) BY <1>0 DEF HasCommit
    <3> HIDE DEF HasCommit
    <3> QED BY <1>0, <2>3, <2>4, <2>5, <3>1 DEF Settled
  <2> QED BY <1>12, <2>6 DEF Settled
<1>10. ASSUME NoAbort(log_file') PROVE Settled(log_file, h, fb, fo)'
  <2>1. Settled(log_file, hist, fb, fo) BY <1>0, <1>10 DEF HistInv
  <2>2. \A r \in Rid : fb[r] \in 0 .. n BY <2>1, HistoryFacts DEF Settled
  <2>3. \A r \in Rid : Content(h[fb[r]], r) = committed'[r] BY <1>1, <1>3, <2>1, <2>2 DEF Settled
  <2> QED BY <1>0, <1>8, <2>1, <2>3 DEF Settled
<1>11. HistInv(h, b, fb, fo)'
  BY <1>12, <1>0, <1>1, <1>3, <1>6, <1>7, <1>9, <1>10 DEF HistInv
<1> QED BY <1>11

\* A flush makes the commits in the buffer count: the places of the rids that their
\* transactions own move to the end of the log.
LEMMA FlushHist ==
  ASSUME Types, NEW hist, NEW b, NEW fb, NEW fo, HistInv(hist, b, fb, fo), Flush,
         cache' = cache, \A p \in Page : disk'[p] \in {disk[p], cache[p]},
         \A r \in Rid : lock'[r] = lock[r] \/ Logged(lock[r], "COMMIT")
  PROVE \E c, l : HistInv(hist, c, c, l)'
<1>1. PICK L : L = History OBVIOUS
<1> DEFINE n == Len(L)
<1>0. /\ History' = L /\ log_file' = L /\ next_lsn' = next_lsn /\ n \in Nat
      /\ \A i \in 1 .. n : L[i] \in LogRecord
      /\ \A u : HasCommit(u)' <=> Logged(u, "COMMIT")
      /\ \A u : HasCommit(u)' <=> HasCommit(u) \/ Committing(u)
  BY <1>1, HistoryFlushed, HistoryFacts DEF Flush
<1> HIDE DEF History, Logged
<1>2. PICK c : c = [r \in Rid |-> IF lock[r] # NoTxn /\ Committing(lock[r]) THEN n ELSE b[r]] OBVIOUS
<1>3. PICK l : l = lock' OBVIOUS
<1>4. ASSUME NoAbort(L) PROVE Settled(L, hist, c, l)'
  <2>1. Settled(L, hist, b, lock) BY <1>1, <1>4 DEF HistInv
  <2>2. b \in [Rid -> 0 .. n] BY <2>1 DEF Settled
  <2>3. c \in [Rid -> 0 .. n] BY <1>0, <1>2, <2>2
  <2>4. ASSUME NEW r \in Rid PROVE Content(hist[c[r]], r) = committed'[r]
    <3>1. committed'[r] = IF lock[r] # NoTxn /\ Committing(lock[r])
                          THEN Content(cache, r) ELSE committed[r]
      BY DEF Flush
    <3>2. cache = hist[n] BY <1>1 DEF HistInv
    <3>3. Content(hist[b[r]], r) = committed[r] BY <2>1 DEF Settled
    <3> QED BY <1>2, <3>1, <3>2, <3>3
  <2>5. ASSUME NEW i \in 1 .. n, NEW r \in Rid, L[i].rid = r
        PROVE IF i <= c[r] THEN HasCommit(L[i].txn)'
              ELSE L[i].txn = l[r] /\ ~HasCommit(L[i].txn)'
    <3> DEFINE u == L[i].txn
    <3>1. u \in Txn /\ u # NoTxn BY <1>0, RecordFacts, RecoveryAssumption
    <3>2. IF i <= b[r] THEN HasCommit(u) ELSE u = lock[r] /\ ~HasCommit(u)
      BY <2>1, <2>5 DEF Settled
    <3>3. HasCommit(u)' <=> HasCommit(u) \/ Committing(u) BY <1>0
    <3>4. HasCommit(u)' <=> Logged(u, "COMMIT") BY <1>0
    <3>5. b[r] \in 0 .. n /\ i <= n /\ i \in Nat BY <1>0, <2>2
    <3> HIDE DEF u, HasCommit, Committing, n
    <3>6. CASE lock[r] # NoTxn /\ Committing(lock[r])
      <4>1. c[r] = n BY <1>2, <3>6
      <4> QED BY <3>2, <3>3, <3>5, <3>6, <4>1 DEF u
    <3>7. CASE ~(lock[r] # NoTxn /\ Committing(lock[r]))
      <4>1. c[r] = b[r] BY <1>2, <3>7
      <4>2. CASE i <= b[r] BY <3>2, <3>3, <4>1, <4>2 DEF u
      <4>3. CASE ~(i <= b[r])
        <5>1. u = lock[r] /\ ~HasCommit(u) /\ ~Committing(u) BY <3>1, <3>2, <3>7, <4>3
        <5>2. ~HasCommit(u)' BY <3>3, <5>1
        <5>3. ~Logged(u, "COMMIT") BY <3>4, <5>2
        <5>4. lock'[r] = lock[r] BY <5>1, <5>3
        <5> QED BY <1>3, <4>1, <4>3, <5>1, <5>2, <5>4 DEF u
      <4> QED BY <4>2, <4>3
    <3> QED BY <3>6, <3>7
  <2> HIDE DEF HasCommit
  <2> QED BY <2>3, <2>4, <2>5 DEF Settled
<1>5. Describes(hist, L) /\ next_lsn = n + 1 /\ cache = hist[n] BY <1>1 DEF HistInv
<1>6. cache \in Pages /\ \A p \in Page : hist[n][p].lsn <= n BY <1>0, <1>5 DEF Types, Describes
<1>7. \A p \in Page : /\ cache'[p] = hist[cache'[p].lsn][p]
                      /\ disk'[p] = hist[disk'[p].lsn][p] /\ disk'[p].lsn <= n
  BY <1>1, <1>5, <1>6 DEF HistInv
<1>8. HistInv(hist, c, c, l)'
  <2>1. NoAbort(L) => Settled(L, hist, c, lock)'
    BY <1>3, <1>4 DEF Settled
  <2> HIDE DEF Settled, NoAbort
  <2>2. NoAbort(L) => Settled(History, hist, c, lock)' /\ Settled(log_file, hist, c, l)'
    BY <1>0, <1>4, <2>1 DEF Settled
  <2> QED BY <1>0, <1>5, <1>7, <2>2 DEF HistInv
<1> QED BY <1>8

-----------------------------------------------------------------------------
(***************************************************************************)
(* The write records of the transaction that makes a step.                 *)
(***************************************************************************)
LEMMA AddRecord ==
  ASSUME Types, NEW t \in Txn, RecordsOK(t), txn[t] = "active", txn'[t] = "active",
         NEW wr \in WriteRecord, write_set'[t] = Append(write_set[t], wr),
         lock'[wr.rid] = t, \A r \in Rid : lock[r] = t => lock'[r] = t,
         \A r \in Rid : r # wr.rid => Slot(cache', r) = Slot(cache, r),
         Slot(cache', wr.rid).tuple # NoTuple,
         Slot(cache', wr.rid).deleted <=> wr.wtype = "DELETE",
         wr.wtype = "UPDATE" => wr.old \in Value,
         \A k \in 1 .. Len(write_set[t]) : write_set[t][k].rid = wr.rid =>
           write_set[t][k].wtype # "DELETE" /\ wr.wtype # "INSERT"
  PROVE RecordsOK(t)'
<1>1. PICK ws : ws = write_set[t] OBVIOUS
<1>2. PICK w : w = write_set'[t] OBVIOUS
<1> DEFINE n == Len(ws)
<1>3. ws \in Seq(WriteRecord) /\ n \in Nat /\ \A k \in 1 .. n : ws[k] \in WriteRecord
  BY <1>1 DEF Types
<1>4. w = Append(ws, wr) BY <1>1, <1>2
<1>5. Len(w) = n + 1 /\ w[n + 1] = wr /\ \A k \in 1 .. n : w[k] = ws[k] BY <1>3, <1>4
<1>6. \A k \in 1 .. n : ws[k].rid \in Rid BY <1>3 DEF WriteRecord
<1>7. wr.rid \in Rid BY DEF WriteRecord
<1>8. 1 .. n + 1 = 1 .. n \cup {n + 1} /\ \A j \in 1 .. n + 1 : j < n + 1 => j \in 1 .. n
  BY <1>3
<1>9. \A k \in 1 .. n, j \in 1 .. n + 1 : j < k => j \in 1 .. n BY <1>3
<1>10. ASSUME NEW k \in 1 .. n PROVE RecordOK(w, k, t, "active", lock', cache')
  <2>1. w[k] = ws[k] /\ ws[k].rid \in Rid BY <1>5, <1>6
  <2>2. RecordOK(ws, k, t, "active", lock, cache) BY <1>1 DEF RecordsOK
  <2>3. lock'[ws[k].rid] = t BY <2>1, <2>2 DEF RecordOK
  <2>4. \A j \in 1 .. Len(w) : j < k /\ w[j].rid = w[k].rid =>
          w[j].wtype # "DELETE" /\ w[k].wtype # "INSERT"
    BY <1>5, <1>9, <2>1, <2>2 DEF RecordOK
  <2>5. CASE ws[k].rid = wr.rid
    <3>1. ws[k].wtype # "DELETE" BY <1>1, <2>5
    <3>2. n + 1 \in 1 .. n + 1 /\ k < n + 1 BY <1>3
    <3> HIDE DEF Slot, n
    <3> QED BY <1>5, <2>1, <2>2, <2>3, <2>4, <2>5, <3>1, <3>2 DEF RecordOK
  <2>6. CASE ws[k].rid # wr.rid
    <3>1. Slot(cache', ws[k].rid) = Slot(cache, ws[k].rid) BY <2>1, <2>6
    <3>2. \A j \in 1 .. n : j \in 1 .. n + 1 BY <1>3
    <3> HIDE DEF Slot
    <3>3. Slot(cache, ws[k].rid).deleted /\ ws[k].wtype # "DELETE" =>
            \E j \in 1 .. Len(w) : k < j /\ w[j].rid = w[k].rid /\ w[j].wtype = "DELETE"
      BY <1>5, <2>1, <2>2, <3>2 DEF RecordOK
    <3> QED BY <2>1, <2>2, <2>3, <2>4, <3>1, <3>3 DEF RecordOK
  <2> QED BY <2>5, <2>6
<1>11. RecordOK(w, n + 1, t, "active", lock', cache')
  <2>1. \A j \in 1 .. n : w[j].rid = wr.rid => w[j].wtype # "DELETE" /\ wr.wtype # "INSERT"
    BY <1>1, <1>5
  <2> HIDE DEF Slot, n
  <2> QED BY <1>5, <1>8, <2>1 DEF RecordOK
<1>12. \A k \in 1 .. Len(w) : RecordOK(w, k, t, "active", lock', cache')
  BY <1>5, <1>8, <1>10, <1>11
<1> HIDE DEF RecordOK
<1> QED BY <1>2, <1>12 DEF RecordsOK

\* Commit goes back to its last delete, Abort to its last record.
LEMMA DropRecords ==
  ASSUME Types, NEW t \in Txn, RecordsOK(t), NEW m \in 1 .. Len(write_set[t]), UNCHANGED lock,
         Len(write_set'[t]) = m - 1, \A k \in 1 .. m - 1 : write_set'[t][k] = write_set[t][k],
         \A r \in Rid : r # write_set[t][m].rid => Slot(cache', r) = Slot(cache, r),
         \/ txn'[t] = "committing"
         \/ /\ txn'[t] = "aborting" /\ m = Len(write_set[t])
            /\ txn[t] \in {"active", "aborting"}
            /\ write_set[t][m].wtype # "INSERT" =>
                 LET s == Slot(cache', write_set[t][m].rid) IN s.tuple # NoTuple /\ ~s.deleted
  PROVE RecordsOK(t)'
<1>1. PICK ws : ws = write_set[t] OBVIOUS
<1>2. PICK w : w = write_set'[t] OBVIOUS
<1> DEFINE r == ws[m].rid
<1>3. /\ ws \in Seq(WriteRecord) /\ Len(ws) \in Nat /\ \A k \in 1 .. Len(ws) : ws[k] \in WriteRecord
      /\ m \in 1 .. Len(ws)
  BY <1>1 DEF Types
<1>4. Len(w) = m - 1 /\ \A k \in 1 .. m - 1 : w[k] = ws[k] /\ k \in 1 .. Len(ws) /\ k < m
  BY <1>1, <1>2, <1>3
<1>5. \A k \in 1 .. Len(ws) : ws[k].rid \in Rid BY <1>3 DEF WriteRecord
<1>6. ASSUME NEW k \in 1 .. m - 1 PROVE RecordOK(w, k, t, txn'[t], lock, cache')
  <2>1. w[k] = ws[k] /\ ws[k].rid \in Rid /\ k \in 1 .. Len(ws) /\ k < m BY <1>4, <1>5
  <2>2. RecordOK(ws, k, t, txn[t], lock, cache) /\ RecordOK(ws, m, t, txn[t], lock, cache)
    BY <1>1, <1>3, <2>1 DEF RecordsOK
  <2>3. \A j \in 1 .. Len(w) : j < k /\ w[j].rid = w[k].rid =>
          w[j].wtype # "DELETE" /\ w[k].wtype # "INSERT"
    BY <1>4, <2>1, <2>2 DEF RecordOK
  <2>4. CASE ws[k].rid = r
    <3>1. ws[k].wtype # "DELETE" /\ ws[m].wtype # "INSERT" BY <2>1, <2>2, <2>4 DEF RecordOK
    <3>2. txn'[t] \in {"active", "aborting"} =>
            Slot(cache', ws[k].rid).tuple # NoTuple /\ ~Slot(cache', ws[k].rid).deleted
      BY <1>1, <2>4, <3>1
    <3> HIDE DEF Slot
    <3> QED BY <2>1, <2>2, <2>3, <3>1, <3>2 DEF RecordOK
  <2>5. CASE ws[k].rid # r
    <3>1. Slot(cache', ws[k].rid) = Slot(cache, ws[k].rid) BY <1>1, <2>1, <2>5
    <3> HIDE DEF Slot
    <3>2. ASSUME txn'[t] \in {"active", "aborting"}, ws[k].wtype # "DELETE",
                 Slot(cache, ws[k].rid).deleted
          PROVE \E j \in 1 .. Len(w) : k < j /\ w[j].rid = w[k].rid /\ w[j].wtype = "DELETE"
      <4>1. m = Len(ws) /\ txn[t] \in {"active", "aborting"} BY <1>1, <3>2
      <4>2. PICK j \in 1 .. Len(ws) : k < j /\ ws[j].rid = ws[k].rid /\ ws[j].wtype = "DELETE"
        BY <2>2, <3>2, <4>1 DEF RecordOK
      <4>3. j # m BY <2>5, <4>2
      <4>4. j \in 1 .. m - 1 BY <1>3, <4>1, <4>2, <4>3
      <4> QED BY <1>4, <2>1, <4>2, <4>4
    <3>3. txn'[t] \in {"active", "aborting"} => txn[t] \in {"active", "aborting"} OBVIOUS
    <3> QED BY <2>1, <2>2, <2>3, <3>1, <3>2, <3>3 DEF RecordOK
  <2> QED BY <2>4, <2>5
<1>7. txn'[t] \notin {"none", "flushing", "ended"} OBVIOUS
<1> HIDE DEF RecordOK
<1> QED BY <1>2, <1>4, <1>6, <1>7 DEF RecordsOK

-----------------------------------------------------------------------------
(***************************************************************************)
(* The steps of a transaction.                                             *)
(***************************************************************************)
LEMMA WritesUp ==
  ASSUME Types, NEW hist, NEW b, NEW fb, NEW fo, UpInv(hist, b, fb, fo),
         NEW t \in Txn, NEW rec, NEW s, Writes(t, rec, s), RecordsOK(t)'
  PROVE \E h : UpInv(h, b, fb, fo)'
<1>1. LogInv' BY WritesLog DEF UpInv
<1>2. \A u \in Txn : RecordsOK(u)' BY WritesOthers DEF UpInv
<1>3. PICK h : HistInv(h, b, fb, fo)' BY WritesHist DEF UpInv
<1>4. phase' \in {"up", "checkpoint"} /\ crashes' = 0 BY DEF Writes, UpInv
<1>5. UpInv(h, b, fb, fo)' BY <1>1, <1>2, <1>3, <1>4 DEF UpInv
<1> QED BY <1>5

\* A record of t, the page it is about, and the slot.
LEMMA PageRecord ==
  ASSUME Types, NEW r \in Rid, NEW rec \in LogRecord, rec.rid = r, rec.lsn = next_lsn,
         NEW slots, slots = RedoEffect(cache[r[1]].slots, rec), ChangePage(r[1], slots),
         Fits(cache[r[1]].slots, rec)
  PROVE /\ FitsPages(cache, rec) /\ cache' = After(cache, rec) /\ disk' = disk
        /\ HasRid(rec)
        /\ \A q \in Rid : q # r => Slot(cache', q) = Slot(cache, q)
        /\ Slot(cache', r) = Redone(Slot(cache, r), rec)
<1>1. HasRid(rec) BY RidParts DEF HasRid
<1>2. FitsPages(cache, rec) BY DEF FitsPages
<1>3. cache' = After(cache, rec) BY <1>1 DEF After, ChangePage
<1>4. \A q \in Rid : Slot(After(cache, rec), q) =
        IF rec.rid = q THEN Redone(Slot(cache, q), rec) ELSE Slot(cache, q)
  BY <1>2, AfterPages DEF Types
<1> QED BY <1>1, <1>2, <1>3, <1>4 DEF ChangePage

LEMMA CacheSlot == ASSUME Types, NEW r \in Rid PROVE Slot(cache, r) \in SlotState
<1>1. cache[r[1]].slots \in PageSlots(r[1]) BY RidParts, PageFacts DEF Types
<1> QED BY <1>1, RidParts DEF PageSlots, Slot

LEMMA RecordFields ==
  ASSUME NEW t, NEW type, NEW r, NEW old, NEW new, NEW rec, rec = Record(t, type, r, old, new)
  PROVE /\ rec.lsn = next_lsn /\ rec.txn = t /\ rec.type = type /\ rec.rid = r
        /\ rec.old = old /\ rec.new = new
  BY DEF Record

\* What a record leaves in its slot.
LEMMA RedoneSlot ==
  ASSUME NEW s \in SlotState, NEW rec
  PROVE /\ rec.type \in {"INSERT", "UPDATE"} /\ rec.new \in Value =>
             Redone(s, rec).tuple # NoTuple /\ ~Redone(s, rec).deleted
        /\ rec.type = "MARKDELETE" /\ ~IsDeleted(s) =>
             Redone(s, rec).tuple # NoTuple /\ Redone(s, rec).deleted
        /\ rec.type = "ROLLBACKDELETE" /\ s.tuple # NoTuple =>
             Redone(s, rec).tuple # NoTuple /\ ~Redone(s, rec).deleted
<1>1. ASSUME rec.type \in {"INSERT", "UPDATE"}, rec.new \in Value
      PROVE Redone(s, rec).tuple # NoTuple /\ ~Redone(s, rec).deleted
  <2>1. Redone(s, rec) = Live(rec.new) BY <1>1 DEF Redone
  <2> QED BY <1>1, <2>1, RecoveryAssumption, SlotFacts DEF Tuple
<1>2. ASSUME rec.type = "MARKDELETE", ~IsDeleted(s)
      PROVE Redone(s, rec).tuple # NoTuple /\ Redone(s, rec).deleted
  <2>1. Redone(s, rec) = [s EXCEPT !.deleted = TRUE] BY <1>2 DEF Redone, Marked
  <2> QED BY <1>2, <2>1, MarkFacts DEF IsDeleted
<1>3. ASSUME rec.type = "ROLLBACKDELETE", s.tuple # NoTuple
      PROVE Redone(s, rec).tuple # NoTuple /\ ~Redone(s, rec).deleted
  <2>1. Redone(s, rec) = [s EXCEPT !.deleted = FALSE] BY <1>3 DEF Redone, Unmarked
  <2> QED BY <1>3, <2>1, MarkFacts
<1> QED BY <1>1, <1>2, <1>3

\* A statement: t is active, takes r, logs and makes the change, and notes it.
Statement(t, r, rec, slots, wr) ==
  /\ txn[t] = "active" /\ r \in Rid /\ MayOwn(t, r) /\ Own(t, r)
  /\ rec \in LogRecord /\ rec.rid = r /\ rec.lsn = next_lsn /\ rec.txn = t
  /\ rec.type \in {"INSERT", "UPDATE", "MARKDELETE"} /\ AppendLogRecord(rec)
  /\ slots = RedoEffect(cache[r[1]].slots, rec) /\ ChangePage(r[1], slots)
  /\ Fits(cache[r[1]].slots, rec)
  /\ wr \in WriteRecord /\ wr.rid = r
  /\ write_set' = [write_set EXCEPT ![t] = Append(@, wr)]
  /\ wr.wtype = (IF rec.type = "MARKDELETE" THEN "DELETE" ELSE rec.type)
  /\ wr.wtype = "UPDATE" => wr.old \in Value
  /\ UNCHANGED <<txn, phase, crashes, committed>>

LEMMA StatementUp ==
  ASSUME Types, NEW hist, NEW b, NEW fb, NEW fo, UpInv(hist, b, fb, fo), NEW t \in Txn,
         NEW r, NEW rec, NEW slots, NEW wr, Statement(t, r, rec, slots, wr)
  PROVE \E h : UpInv(h, b, fb, fo)'
<1> USE DEF Statement
<1>1. /\ FitsPages(cache, rec) /\ cache' = After(cache, rec) /\ disk' = disk /\ HasRid(rec)
      /\ \A q \in Rid : q # r => Slot(cache', q) = Slot(cache, q)
      /\ Slot(cache', r) = Redone(Slot(cache, r), rec)
  BY PageRecord
<1>2. /\ lock[r] \in {NoTxn, t} /\ \A q \in Rid : lock'[q] = IF q = r THEN t ELSE lock[q]
      /\ \A u \in Txn : write_set'[u] = IF u = t THEN Append(write_set[t], wr) ELSE write_set[u]
  BY DEF MayOwn, Own, Types
<1>3. Writes(t, rec, "active")
  <2>1. txn' = [txn EXCEPT ![t] = "active"] BY DEF Types
  <2>2. \A q \in Rid : lock'[q] = lock[q] \/ lock[q] = NoTxn BY <1>2
  <2> QED BY <1>1, <1>2, <2>1, <2>2 DEF Writes
<1>4. Slot(cache, r) \in SlotState BY CacheSlot
<1>5. Slot(cache', r).tuple # NoTuple /\ (Slot(cache', r).deleted <=> wr.wtype = "DELETE")
  <2>1. rec.type \in {"INSERT", "UPDATE"} => rec.new \in Value BY DEF Fits
  <2>2. rec.type = "MARKDELETE" => ~IsDeleted(Slot(cache, r)) BY DEF Fits, Slot
  <2> HIDE DEF Slot, Fits
  <2> QED BY <1>1, <1>4, <2>1, <2>2, RedoneSlot
<1>6. RecordsOK(t) BY DEF UpInv
<1>7. ASSUME NEW k \in 1 .. Len(write_set[t]), write_set[t][k].rid = r
      PROVE write_set[t][k].wtype # "DELETE" /\ wr.wtype # "INSERT"
  <2>1. RecordOK(write_set[t], k, t, "active", lock, cache) BY <1>6 DEF RecordsOK
  <2>2. /\ write_set[t][k].wtype = "DELETE" => Slot(cache, r).deleted
        /\ Slot(cache, r).tuple # NoTuple
    BY <1>7, <2>1 DEF RecordOK
  <2>3. rec.type # "INSERT"
    <3> SUFFICES ASSUME rec.type = "INSERT" PROVE FALSE OBVIOUS
    <3>1. r[1] \in Page /\ cache[r[1]].slots \in PageSlots(r[1]) BY RidParts, PageFacts DEF Types
    <3>2. cache[r[1]].slots[r[2]].tuple = NoTuple BY <3>1, FirstFreeSlot DEF Fits
    <3> QED BY <2>2, <3>2 DEF Slot
  <2>4. ~IsDeleted(Slot(cache, r)) BY <2>3 DEF Fits, Slot
  <2> QED BY <2>2, <2>3, <2>4 DEF IsDeleted
<1>8. RecordsOK(t)'
  <2>1. txn'[t] = "active" /\ write_set'[t] = Append(write_set[t], wr) /\ lock'[wr.rid] = t
        /\ \A q \in Rid : lock[q] = t => lock'[q] = t
    BY <1>2
  <2> HIDE DEF Slot
  <2> QED BY <1>1, <1>5, <1>6, <1>7, <2>1, AddRecord
<1> QED BY <1>3, <1>8, WritesUp

\* A step that logs a record without a rid.
LEMMA MarkerUp ==
  ASSUME Types, NEW hist, NEW b, NEW fb, NEW fo, UpInv(hist, b, fb, fo),
         NEW t \in Txn, NEW type \in {"BEGIN", "COMMIT", "ABORT"}, NEW s,
         Log(t, type, NoRid, NoTuple, NoTuple), SetTxn(t, s),
         UNCHANGED <<pageVars, committed, phase, crashes>>,
         txn[t] \notin {"flushing", "ended"},
         type = "COMMIT" => s \in {"flushing", "ended"},
         type = "ABORT" => s = "ended", s = "flushing" => type = "COMMIT",
         write_set' = [write_set EXCEPT ![t] = << >>],
         \A r \in Rid : lock'[r] = lock[r] \/ (lock[r] = t /\ type = "ABORT")
  PROVE \E h : UpInv(h, b, fb, fo)'
<1>1. PICK rec : rec = Record(t, type, NoRid, NoTuple, NoTuple) OBVIOUS
<1>2. rec \in LogRecord BY <1>1, NewRecord DEF Tuple
<1>3. rec.lsn = next_lsn /\ rec.txn = t /\ rec.type = type /\ rec.rid = NoRid
  BY <1>1, RecordFields
<1>4. AppendLogRecord(rec) BY <1>1 DEF Log
<1>5. ~HasRid(rec) BY <1>3 DEF HasRid
<1>6. FitsPages(cache, rec) /\ cache' = After(cache, rec) BY <1>5 DEF FitsPages, After, pageVars
<1>7. \A u \in Txn : write_set'[u] = IF u = t THEN << >> ELSE write_set[u] BY DEF Types
<1>8. Writes(t, rec, s)
  BY <1>2, <1>3, <1>4, <1>5, <1>6, <1>7 DEF Writes, SetTxn, pageVars
<1>9. RecordsOK(t)'
  <2>1. write_set'[t] = << >> /\ 1 .. Len(<< >>) = {} BY <1>7
  <2> QED BY <2>1 DEF RecordsOK
<1> QED BY <1>8, <1>9, WritesUp

\* Commit and Abort treat a write record.
LEMMA RollUp ==
  ASSUME Types, NEW hist, NEW b, NEW fb, NEW fo, UpInv(hist, b, fb, fo),
         NEW t \in Txn, NEW m \in 1 .. Len(write_set[t]), NEW s \in {"committing", "aborting"},
         NEW rec \in LogRecord, rec.rid = write_set[t][m].rid, rec.lsn = next_lsn, rec.txn = t,
         rec.type \in PageOperation, AppendLogRecord(rec),
         NEW slots, slots = RedoEffect(cache[rec.rid[1]].slots, rec), ChangePage(rec.rid[1], slots),
         Fits(cache[rec.rid[1]].slots, rec),
         txn[t] \notin {"flushing", "ended"}, txn' = [txn EXCEPT ![t] = s],
         s = "aborting" => /\ m = Len(write_set[t]) /\ txn[t] \in {"active", "aborting"}
                           /\ write_set[t][m].wtype # "INSERT" =>
                                \/ rec.type = "UPDATE" /\ rec.new \in Value
                                \/ rec.type = "ROLLBACKDELETE",
         write_set' = [write_set EXCEPT ![t] = SubSeq(@, 1, m - 1)],
         UNCHANGED <<lock, phase, crashes, committed>>
  PROVE \E h : UpInv(h, b, fb, fo)'
<1> DEFINE r == rec.rid
<1>1. r \in Rid
  <2>1. write_set[t] \in Seq(WriteRecord) BY DEF Types
  <2>2. write_set[t][m] \in WriteRecord BY <2>1
  <2> QED BY <2>2 DEF WriteRecord
<1>2. /\ FitsPages(cache, rec) /\ cache' = After(cache, rec) /\ disk' = disk /\ HasRid(rec)
      /\ \A q \in Rid : q # r => Slot(cache', q) = Slot(cache, q)
      /\ Slot(cache', r) = Redone(Slot(cache, r), rec)
  BY <1>1, PageRecord
<1>3. RecordsOK(t) BY DEF UpInv
<1>4. lock[r] = t
  <2>1. RecordOK(write_set[t], m, t, txn[t], lock, cache) BY <1>3 DEF RecordsOK
  <2> HIDE DEF Slot
  <2> QED BY <2>1 DEF RecordOK
<1>5. \A u \in Txn : write_set'[u] = IF u = t THEN SubSeq(write_set[t], 1, m - 1) ELSE write_set[u]
  BY DEF Types
<1>6. Writes(t, rec, s)
  BY <1>2, <1>4, <1>5 DEF Writes, PageOperation
<1>7. Len(write_set'[t]) = m - 1 /\ \A k \in 1 .. m - 1 : write_set'[t][k] = write_set[t][k]
  <2>1. PICK w : w = write_set[t] OBVIOUS
  <2>2. w \in Seq(WriteRecord) /\ m - 1 \in Int /\ m - 1 <= Len(w) BY <2>1 DEF Types
  <2>3. Len(SubSeq(w, 1, m - 1)) = m - 1 /\ \A k \in 1 .. m - 1 : SubSeq(w, 1, m - 1)[k] = w[k]
    BY <2>2
  <2>4. write_set'[t] = SubSeq(w, 1, m - 1) BY <1>5, <2>1
  <2>5. \A x : x = SubSeq(w, 1, m - 1) => Len(x) = m - 1 /\ \A k \in 1 .. m - 1 : x[k] = w[k]
    BY <2>3
  <2> QED BY ONLY <2>1, <2>4, <2>5
<1>8. txn'[t] = s BY DEF Types
<1>9. s = "aborting" /\ write_set[t][m].wtype # "INSERT" =>
        Slot(cache', r).tuple # NoTuple /\ ~Slot(cache', r).deleted
  <2>1. Slot(cache, r) \in SlotState BY <1>1, CacheSlot
  <2>2. rec.type = "ROLLBACKDELETE" => Slot(cache, r).tuple # NoTuple BY DEF Fits, Slot
  <2> HIDE DEF Slot, r
  <2> QED BY <1>2, <2>1, <2>2, RedoneSlot
<1>10. RecordsOK(t)'
  <2> HIDE DEF Slot
  <2> QED BY <1>2, <1>3, <1>7, <1>8, <1>9, DropRecords
<1> QED BY <1>6, <1>10, WritesUp

LEMMA FlushUp ==
  ASSUME Types, NEW hist, NEW b, NEW fb, NEW fo, UpInv(hist, b, fb, fo), Flush,
         cache' = cache, \A p \in Page : disk'[p] \in {disk[p], cache[p]},
         write_set' = write_set,
         \A u \in Txn : txn'[u] = txn[u] \/ (txn[u] = "flushing" /\ txn'[u] = "ended"),
         \A r \in Rid : lock'[r] = lock[r] \/ (lock[r] \in Txn /\ txn[lock[r]] = "flushing"),
         phase' \in {"up", "checkpoint"}, crashes' = crashes
  PROVE \E c, l : UpInv(hist, c, c, l)'
<1>1. History' = History BY HistoryFlushed
<1>2. \A u, type : Logged(u, type)' <=> Logged(u, type)
  <2> HIDE DEF History
  <2> QED BY <1>1 DEF Logged
<1>3. LogInv'
  <2> SUFFICES ASSUME NEW u \in Txn
               PROVE /\ Logged(u, "COMMIT")' => txn'[u] \in {"flushing", "ended"}
                     /\ Logged(u, "ABORT")' => txn'[u] = "ended" /\ ~Logged(u, "COMMIT")'
                     /\ txn'[u] = "flushing" => Logged(u, "COMMIT")'
    BY DEF LogInv
  <2> HIDE DEF Logged
  <2> QED BY <1>2 DEF UpInv, LogInv
<1>4. \A r \in Rid : lock'[r] = lock[r] \/ Logged(lock[r], "COMMIT") BY DEF UpInv, LogInv
<1>5. PICK c, l : HistInv(hist, c, c, l)' BY <1>4, FlushHist DEF UpInv
<1>6. ASSUME NEW u \in Txn PROVE RecordsOK(u)'
  <2>1. RecordsOK(u) BY DEF UpInv
  <2>2. CASE txn[u] = "flushing" \/ write_set[u] = << >>
    <3>1. write_set'[u] = << >> /\ 1 .. Len(<< >>) = {} BY <2>1, <2>2 DEF RecordsOK
    <3> QED BY <3>1 DEF RecordsOK
  <2>3. CASE txn[u] # "flushing" /\ write_set[u] # << >>
    <3>1. txn'[u] = txn[u] BY <2>3
    <3>2. \A k \in 1 .. Len(write_set[u]) : write_set[u][k].rid \in Rid /\ lock[write_set[u][k].rid] = u
      <4>1. write_set[u] \in Seq(WriteRecord) BY DEF Types
      <4>2. \A k \in 1 .. Len(write_set[u]) : write_set[u][k] \in WriteRecord BY <4>1
      <4>3. \A k \in 1 .. Len(write_set[u]) : write_set[u][k].rid \in Rid BY <4>2 DEF WriteRecord
      <4> QED BY <2>1, <4>3 DEF RecordsOK, RecordOK
    <3>3. \A k \in 1 .. Len(write_set[u]) : lock'[write_set[u][k].rid] = lock[write_set[u][k].rid]
      BY <2>3, <3>2
    <3>4. \A k \in 1 .. Len(write_set[u]) :
            RecordOK(write_set[u], k, u, txn[u], lock, cache) =>
            RecordOK(write_set[u], k, u, txn[u], lock', cache')
      <4> HIDE DEF Slot
      <4> QED BY <3>3 DEF RecordOK
    <3> QED BY <2>1, <3>1, <3>4 DEF RecordsOK
  <2> QED BY <2>2, <2>3
<1>7. UpInv(hist, c, c, l)' BY <1>3, <1>5, <1>6 DEF UpInv
<1> QED BY <1>7

LEMMA TransactUp ==
  ASSUME Types, NEW hist, NEW b, NEW fb, NEW fo, UpInv(hist, b, fb, fo), NEW t \in Txn, Transact(t)
  PROVE \E h, c, fc, l : UpInv(h, c, fc, l)'
<1>0. /\ NoTuple \in Tuple /\ Value \subseteq Tuple /\ cache \in Pages /\ RecordsOK(t)
      /\ \A r \in Rid : cache[r[1]].slots \in PageSlots(r[1]) /\ cache[r[1]].slots[r[2]].tuple \in Tuple
  <2>1. cache \in Pages BY DEF Types
  <2>2. \A r \in Rid : cache[r[1]].slots \in PageSlots(r[1]) BY <2>1, RidParts, PageFacts
  <2>3. \A r \in Rid : cache[r[1]].slots[r[2]] \in SlotState BY <2>2, RidParts DEF PageSlots
  <2> QED BY <2>1, <2>2, <2>3, SlotFacts DEF Tuple, UpInv
<1> USE DEF recoveryVars
<1>1. CASE Begin(t)
  <2>1. write_set[t] = << >> BY <1>0, <1>1 DEF Begin, RecordsOK
  <2>2. write_set' = [write_set EXCEPT ![t] = << >>] BY <1>1, <2>1 DEF Begin, Types
  <2>3. \E h : UpInv(h, b, fb, fo)' BY <1>1, <2>2, MarkerUp DEF Begin
  <2> QED BY <2>3
<1>2. ASSUME NEW p \in Page, NEW v \in Value, DoInsert(t, p, v) PROVE \E h : UpInv(h, b, fb, fo)'
  <2> DEFINE slots == cache[p].slots
             i == FirstFree(slots)
  <2>1. PICK r : r = <<p, i>> OBVIOUS
  <2>2. slots \in PageSlots(p) /\ FreeSlots(slots) # {} BY <1>0, <1>2, PageFacts DEF DoInsert
  <2>3. i \in SlotOf(p) BY <2>2, FirstFreeSlot
  <2>4. r \in Rid /\ r[1] = p /\ r[2] = i BY <2>1, <2>3, RidParts
  <2>5. PICK rec : rec = Record(t, "INSERT", r, NoTuple, v) OBVIOUS
  <2>6. rec \in LogRecord BY <1>0, <2>4, <2>5, NewRecord DEF PageOperation
  <2>7. /\ rec.lsn = next_lsn /\ rec.txn = t /\ rec.type = "INSERT" /\ rec.rid = r /\ rec.new = v
    BY <2>5, RecordFields
  <2>8. PICK new : new = InsertTuple(slots, v) OBVIOUS
  <2>9. PICK wr : wr = [wtype |-> "INSERT", rid |-> r, old |-> NoTuple] OBVIOUS
  <2>10. wr \in WriteRecord /\ wr.rid = r /\ wr.wtype = "INSERT" BY <1>0, <2>4, <2>9 DEF WriteRecord
  <2>11. /\ txn[t] = "active" /\ MayOwn(t, r) /\ Own(t, r) /\ AppendLogRecord(rec)
         /\ ChangePage(r[1], new) /\ write_set' = [write_set EXCEPT ![t] = Append(@, wr)]
         /\ UNCHANGED <<txn, phase, crashes, committed>>
    BY <1>2, <2>1, <2>4, <2>5, <2>8, <2>9 DEF DoInsert, Log, AddIntoWriteSet
  <2>12. new = RedoEffect(cache[r[1]].slots, rec) BY <2>4, <2>7, <2>8 DEF RedoEffect
  <2>13. Fits(cache[r[1]].slots, rec) BY <2>2, <2>4, <2>7 DEF Fits
  <2> HIDE DEF slots, i
  <2>14. Statement(t, r, rec, new, wr) BY <2>4, <2>6, <2>7, <2>10, <2>11, <2>12, <2>13 DEF Statement
  <2> QED BY <2>14, StatementUp
<1>3. ASSUME NEW r \in Rid, NEW v \in Value, DoUpdate(t, r, v) PROVE \E h : UpInv(h, b, fb, fo)'
  <2> DEFINE slots == cache[r[1]].slots
  <2>1. PICK old : old = slots[r[2]].tuple OBVIOUS
  <2>2. old \in Tuple BY <1>0, <2>1
  <2>3. ~IsDeleted(slots[r[2]]) BY <1>3 DEF DoUpdate
  <2>4. old \in Value BY <2>1, <2>2, <2>3 DEF IsDeleted, Tuple
  <2>5. PICK rec : rec = Record(t, "UPDATE", r, old, v) OBVIOUS
  <2>6. rec \in LogRecord BY <1>0, <2>2, <2>5, NewRecord DEF PageOperation
  <2>7. /\ rec.lsn = next_lsn /\ rec.txn = t /\ rec.type = "UPDATE" /\ rec.rid = r /\ rec.new = v
        /\ rec.old = old
    BY <2>5, RecordFields
  <2>8. PICK new : new = UpdateTuple(slots, r[2], v) OBVIOUS
  <2>9. PICK wr : wr = [wtype |-> "UPDATE", rid |-> r, old |-> old] OBVIOUS
  <2>10. wr \in WriteRecord /\ wr.rid = r /\ wr.wtype = "UPDATE" /\ wr.old = old
    BY <2>2, <2>9 DEF WriteRecord
  <2>11. /\ txn[t] = "active" /\ MayOwn(t, r) /\ Own(t, r) /\ AppendLogRecord(rec)
         /\ ChangePage(r[1], new) /\ write_set' = [write_set EXCEPT ![t] = Append(@, wr)]
         /\ UNCHANGED <<txn, phase, crashes, committed>>
    BY <1>3, <2>1, <2>5, <2>8, <2>9 DEF DoUpdate, Log, AddIntoWriteSet
  <2>12. new = RedoEffect(cache[r[1]].slots, rec) BY <2>7, <2>8 DEF RedoEffect
  <2>13. Fits(cache[r[1]].slots, rec) BY <2>1, <2>3, <2>7 DEF Fits
  <2> HIDE DEF slots
  <2>14. Statement(t, r, rec, new, wr) BY <2>4, <2>6, <2>7, <2>10, <2>11, <2>12, <2>13 DEF Statement
  <2> QED BY <2>14, StatementUp
<1>4. ASSUME NEW r \in Rid, DoMarkDelete(t, r) PROVE \E h : UpInv(h, b, fb, fo)'
  <2> DEFINE slots == cache[r[1]].slots
  <2>1. PICK old : old = slots[r[2]].tuple OBVIOUS
  <2>2. old \in Tuple BY <1>0, <2>1
  <2>3. ~IsDeleted(slots[r[2]]) BY <1>4 DEF DoMarkDelete
  <2>5. PICK rec : rec = Record(t, "MARKDELETE", r, NoTuple, NoTuple) OBVIOUS
  <2>6. rec \in LogRecord BY <1>0, <2>5, NewRecord DEF PageOperation
  <2>7. /\ rec.lsn = next_lsn /\ rec.txn = t /\ rec.type = "MARKDELETE" /\ rec.rid = r
    BY <2>5, RecordFields
  <2>8. PICK new : new = MarkDelete(slots, r[2]) OBVIOUS
  <2>9. PICK wr : wr = [wtype |-> "DELETE", rid |-> r, old |-> old] OBVIOUS
  <2>10. wr \in WriteRecord /\ wr.rid = r /\ wr.wtype = "DELETE" BY <2>2, <2>9 DEF WriteRecord
  <2>11. /\ txn[t] = "active" /\ MayOwn(t, r) /\ Own(t, r) /\ AppendLogRecord(rec)
         /\ ChangePage(r[1], new) /\ write_set' = [write_set EXCEPT ![t] = Append(@, wr)]
         /\ UNCHANGED <<txn, phase, crashes, committed>>
    BY <1>4, <2>1, <2>5, <2>8, <2>9 DEF DoMarkDelete, Log, AddIntoWriteSet
  <2>12. new = RedoEffect(cache[r[1]].slots, rec) BY <2>7, <2>8 DEF RedoEffect
  <2>13. Fits(cache[r[1]].slots, rec) BY <2>3, <2>7 DEF Fits
  <2> HIDE DEF slots
  <2>14. Statement(t, r, rec, new, wr) BY <2>6, <2>7, <2>10, <2>11, <2>12, <2>13 DEF Statement
  <2> QED BY <2>14, StatementUp
<1>5. CASE CommitRecord(t)
  <2>1. PICK m : m = LastDelete(t) OBVIOUS
  <2>2. /\ m \in 1 .. Len(write_set[t]) /\ write_set[t][m] \in WriteRecord
        /\ write_set[t][m].wtype = "DELETE"
    BY <1>5, <2>1, WriteSetFacts DEF CommitRecord
  <2>3. PICK r : r = write_set[t][m].rid OBVIOUS
  <2>4. r \in Rid BY <2>2, <2>3 DEF WriteRecord
  <2>5. PICK old : old = cache[r[1]].slots[r[2]].tuple OBVIOUS
  <2>6. old \in Tuple /\ old # NoTuple
    <3>1. RecordOK(write_set[t], m, t, txn[t], lock, cache) BY <1>0, <2>2 DEF RecordsOK
    <3>2. Slot(cache, r).tuple # NoTuple BY <2>2, <2>3, <3>1 DEF RecordOK
    <3> QED BY <1>0, <2>4, <2>5, <3>2 DEF Slot
  <2>7. PICK rec : rec = Record(t, "APPLYDELETE", r, old, NoTuple) OBVIOUS
  <2>8. rec \in LogRecord BY <1>0, <2>4, <2>6, <2>7, NewRecord DEF PageOperation
  <2>9. rec.lsn = next_lsn /\ rec.txn = t /\ rec.type = "APPLYDELETE" /\ rec.rid = r
    BY <2>7, RecordFields
  <2>10. PICK new : new = ApplyDelete(cache[r[1]].slots, r[2]) OBVIOUS
  <2>11. /\ AppendLogRecord(rec) /\ ChangePage(rec.rid[1], new)
         /\ txn[t] \notin {"flushing", "ended"} /\ txn' = [txn EXCEPT ![t] = "committing"]
         /\ write_set' = [write_set EXCEPT ![t] = SubSeq(@, 1, m - 1)]
         /\ UNCHANGED <<lock, phase, crashes, committed>>
    BY <1>5, <2>1, <2>3, <2>5, <2>7, <2>9, <2>10 DEF CommitRecord, Log, SetTxn
  <2>12. new = RedoEffect(cache[rec.rid[1]].slots, rec) BY <2>9, <2>10 DEF RedoEffect
  <2>13. Fits(cache[rec.rid[1]].slots, rec) BY <2>5, <2>6, <2>9 DEF Fits
  <2>14. rec.rid = write_set[t][m].rid /\ rec.type \in PageOperation BY <2>3, <2>9 DEF PageOperation
  <2>15. \E h : UpInv(h, b, fb, fo)' BY <2>2, <2>8, <2>9, <2>11, <2>12, <2>13, <2>14, RollUp
  <2> QED BY <2>15
<1>6. CASE CommitLog(t)
  <2>1. PICK s : s = IF IsReadOnly(t) THEN "ended" ELSE "flushing" OBVIOUS
  <2>2. s \in {"flushing", "ended"} BY <2>1
  <2>3. SetTxn(t, s) /\ write_set' = [write_set EXCEPT ![t] = << >>] BY <1>6, <2>1 DEF CommitLog
  <2>4. \E h : UpInv(h, b, fb, fo)' BY <1>6, <2>2, <2>3, MarkerUp DEF CommitLog
  <2> QED BY <2>4
<1>7. CASE CommitEnd(t)
  <2>1. /\ Flush /\ cache' = cache /\ disk' = disk /\ write_set' = write_set /\ txn[t] = "flushing"
        /\ phase' = phase /\ crashes' = crashes
    BY <1>7 DEF CommitEnd, pageVars
  <2>2. \A u \in Txn : txn'[u] = txn[u] \/ (txn[u] = "flushing" /\ txn'[u] = "ended")
    BY <1>7 DEF CommitEnd, SetTxn, Types
  <2>3. \A r \in Rid : lock'[r] = lock[r] \/ (lock[r] \in Txn /\ txn[lock[r]] = "flushing")
    BY <1>7 DEF CommitEnd, ReleaseLocks
  <2>4. phase' \in {"up", "checkpoint"} BY <2>1 DEF UpInv
  <2>5. \E c, l : UpInv(hist, c, c, l)' BY <2>1, <2>2, <2>3, <2>4, FlushUp
  <2> QED BY <2>5
<1>8. CASE AbortRecord(t)
  <2>1. PICK m : m = Len(write_set[t]) OBVIOUS
  <2>2. /\ m \in 1 .. Len(write_set[t]) /\ write_set[t][m] \in WriteRecord
        /\ LastRecord(t) = write_set[t][m]
    BY <1>8, <2>1, WriteSetFacts DEF AbortRecord
  <2>3. PICK wr : wr = write_set[t][m] OBVIOUS
  <2>4. PICK r : r = wr.rid OBVIOUS
  <2>5. r \in Rid /\ wr.old \in Tuple /\ wr.wtype \in {"INSERT", "UPDATE", "DELETE"}
    BY <2>2, <2>3, <2>4 DEF WriteRecord
  <2>6. PICK slots : slots = cache[r[1]].slots OBVIOUS
  <2>7. PICK old : old = slots[r[2]].tuple OBVIOUS
  <2>8. /\ old \in Tuple /\ old # NoTuple
        /\ wr.wtype = "DELETE" => slots[r[2]].deleted
        /\ wr.wtype # "DELETE" => ~slots[r[2]].deleted
        /\ wr.wtype = "UPDATE" => wr.old \in Value
    <3>1. RecordOK(write_set[t], m, t, txn[t], lock, cache) BY <1>0, <2>2 DEF RecordsOK
    <3>2. txn[t] \in {"active", "aborting"} BY <1>8 DEF AbortRecord
    <3>3. slots[r[2]] = Slot(cache, wr.rid) BY <2>4, <2>6 DEF Slot
    <3>4. \A j \in 1 .. Len(write_set[t]) : ~(m < j) BY <2>1, <2>2
    <3> HIDE DEF Slot
    <3>5. /\ Slot(cache, wr.rid).tuple # NoTuple
          /\ wr.wtype = "DELETE" => Slot(cache, wr.rid).deleted
          /\ wr.wtype # "DELETE" => ~Slot(cache, wr.rid).deleted
          /\ wr.wtype = "UPDATE" => wr.old \in Value
      BY <2>3, <2>5, <3>1, <3>2, <3>4 DEF RecordOK
    <3>6. old \in Tuple BY <1>0, <2>5, <2>6, <2>7
    <3> QED BY <2>7, <3>3, <3>5, <3>6
  <2>9. /\ txn[t] \in {"active", "aborting"} /\ txn' = [txn EXCEPT ![t] = "aborting"]
        /\ UNCHANGED <<lock, phase, crashes, committed>>
        /\ \/ /\ wr.wtype = "INSERT" /\ ChangePage(r[1], ApplyDelete(slots, r[2]))
              /\ AppendLogRecord(Record(t, "APPLYDELETE", r, old, NoTuple))
           \/ /\ wr.wtype = "DELETE" /\ ChangePage(r[1], RollbackDelete(slots, r[2]))
              /\ AppendLogRecord(Record(t, "ROLLBACKDELETE", r, NoTuple, NoTuple))
           \/ /\ wr.wtype = "UPDATE" /\ ChangePage(r[1], UpdateTuple(slots, r[2], wr.old))
              /\ AppendLogRecord(Record(t, "UPDATE", r, old, wr.old))
    BY <1>8, <2>2, <2>3, <2>4, <2>6, <2>7 DEF AbortRecord, Log, SetTxn
  <2>10. write_set' = [write_set EXCEPT ![t] = SubSeq(@, 1, m - 1)]
    BY <1>8, <2>1 DEF AbortRecord, DropRecord, Front
  <2>11. ASSUME NEW rec \in LogRecord, rec.rid = r, rec.lsn = next_lsn, rec.txn = t,
                rec.type \in PageOperation, AppendLogRecord(rec), ChangePage(r[1], RedoEffect(slots, rec)),
                Fits(slots, rec),
                wr.wtype # "INSERT" => \/ rec.type = "UPDATE" /\ rec.new \in Value
                                       \/ rec.type = "ROLLBACKDELETE"
         PROVE \E h : UpInv(h, b, fb, fo)'
    <3>1. PICK new : new = RedoEffect(slots, rec) OBVIOUS
    <3>2. new = RedoEffect(cache[rec.rid[1]].slots, rec) /\ ChangePage(rec.rid[1], new)
          /\ Fits(cache[rec.rid[1]].slots, rec)
      BY <2>6, <2>11, <3>1
    <3>3. rec.rid = write_set[t][m].rid BY <2>3, <2>4, <2>11
    <3> QED BY <2>1, <2>2, <2>3, <2>9, <2>10, <2>11, <3>2, <3>3, RollUp
  <2>12. CASE wr.wtype = "INSERT"
    <3>1. PICK rec : rec = Record(t, "APPLYDELETE", r, old, NoTuple) OBVIOUS
    <3>2. rec \in LogRecord BY <1>0, <2>5, <2>8, <3>1, NewRecord DEF PageOperation
    <3>3. rec.lsn = next_lsn /\ rec.txn = t /\ rec.type = "APPLYDELETE" /\ rec.rid = r
      BY <3>1, RecordFields
    <3>4. RedoEffect(slots, rec) = ApplyDelete(slots, r[2]) BY <3>3 DEF RedoEffect
    <3>5. Fits(slots, rec) BY <2>7, <2>8, <3>3 DEF Fits
    <3>6. AppendLogRecord(rec) /\ ChangePage(r[1], RedoEffect(slots, rec)) BY <2>9, <2>12, <3>1, <3>4
    <3>7. \E h : UpInv(h, b, fb, fo)' BY <2>11, <2>12, <3>2, <3>3, <3>5, <3>6 DEF PageOperation
    <3> QED BY <3>7
  <2>13. CASE wr.wtype = "DELETE"
    <3>1. PICK rec : rec = Record(t, "ROLLBACKDELETE", r, NoTuple, NoTuple) OBVIOUS
    <3>2. rec \in LogRecord BY <1>0, <2>5, <2>8, <3>1, NewRecord DEF PageOperation
    <3>3. rec.lsn = next_lsn /\ rec.txn = t /\ rec.type = "ROLLBACKDELETE" /\ rec.rid = r
      BY <3>1, RecordFields
    <3>4. RedoEffect(slots, rec) = RollbackDelete(slots, r[2]) BY <3>3 DEF RedoEffect
    <3>5. Fits(slots, rec) BY <2>7, <2>8, <2>13, <3>3 DEF Fits
    <3>6. AppendLogRecord(rec) /\ ChangePage(r[1], RedoEffect(slots, rec)) BY <2>9, <2>13, <3>1, <3>4
    <3>7. \E h : UpInv(h, b, fb, fo)' BY <2>11, <3>2, <3>3, <3>5, <3>6 DEF PageOperation
    <3> QED BY <3>7
  <2>14. CASE wr.wtype = "UPDATE"
    <3>1. PICK rec : rec = Record(t, "UPDATE", r, old, wr.old) OBVIOUS
    <3>2. rec \in LogRecord BY <1>0, <2>5, <2>8, <3>1, NewRecord DEF PageOperation
    <3>3. rec.lsn = next_lsn /\ rec.txn = t /\ rec.type = "UPDATE" /\ rec.rid = r
          /\ rec.old = old /\ rec.new = wr.old
      BY <3>1, RecordFields
    <3>4. RedoEffect(slots, rec) = UpdateTuple(slots, r[2], wr.old) BY <3>3 DEF RedoEffect
    <3>5. Fits(slots, rec) BY <2>7, <2>8, <2>14, <3>3 DEF Fits, IsDeleted
    <3>6. AppendLogRecord(rec) /\ ChangePage(r[1], RedoEffect(slots, rec)) BY <2>9, <2>14, <3>1, <3>4
    <3>7. \E h : UpInv(h, b, fb, fo)'
      BY <2>8, <2>11, <2>14, <3>2, <3>3, <3>5, <3>6 DEF PageOperation
    <3> QED BY <3>7
  <2> QED BY <2>5, <2>12, <2>13, <2>14
<1>9. CASE AbortEnd(t)
  <2>1. write_set[t] = << >> BY <1>9 DEF AbortEnd
  <2>2. write_set' = [write_set EXCEPT ![t] = << >>] BY <1>9, <2>1 DEF AbortEnd, Types
  <2>3. \A r \in Rid : lock'[r] = lock[r] \/ lock[r] = t BY <1>9 DEF AbortEnd, ReleaseLocks
  <2>4. \E h : UpInv(h, b, fb, fo)' BY <1>9, <2>2, <2>3, MarkerUp DEF AbortEnd
  <2> QED BY <2>4
<1> QED BY <1>1, <1>2, <1>3, <1>4, <1>5, <1>6, <1>7, <1>8, <1>9 DEF Transact

-----------------------------------------------------------------------------
(***************************************************************************)
(* The other steps before a crash, and the start.                          *)
(***************************************************************************)
\* Nothing is logged; pages may reach the disk.
LEMMA QuietUp ==
  ASSUME Types, NEW hist, NEW b, NEW fb, NEW fo, UpInv(hist, b, fb, fo),
         UNCHANGED <<logVars, txnVars, cache, committed, crashes>>,
         \A p \in Page : disk'[p] \in {disk[p], cache[p]}, phase' \in {"up", "checkpoint"}
  PROVE UpInv(hist, b, fb, fo)'
<1> USE DEF logVars, txnVars
<1>1. HistInv(hist, b, fb, fo) BY DEF UpInv
<1>2. PICK L : L = History OBVIOUS
<1>3. History' = L /\ Len(L) \in Nat BY <1>2, HistoryFacts DEF History
<1>4. \A t : HasCommit(t)' <=> HasCommit(t) BY DEF HasCommit
<1>5. \A t, type : Logged(t, type)' <=> Logged(t, type)
  <2> HIDE DEF History
  <2> QED BY <1>2, <1>3 DEF Logged
<1> HIDE DEF History, Logged, HasCommit
<1>6. LogInv' BY <1>5 DEF UpInv, LogInv
<1>7. \A t \in Txn : RecordsOK(t)' BY DEF UpInv, RecordsOK
<1>8. Describes(hist, L) /\ cache = hist[Len(L)] /\ \A p \in Page : cache[p].lsn <= Len(L)
  BY <1>1, <1>2, <1>3 DEF HistInv, Describes
<1>9. \A p \in Page : /\ cache'[p] = hist[cache'[p].lsn][p]
                      /\ disk'[p] = hist[disk'[p].lsn][p] /\ disk'[p].lsn <= Len(L)
  BY <1>1, <1>2, <1>8 DEF HistInv
<1>10. \A M, x, l : Settled(M, hist, x, l)' <=> Settled(M, hist, x, l) BY <1>4 DEF Settled
<1>11. HistInv(hist, b, fb, fo)'
  <2>1. NoAbort(History)' => Settled(History, hist, b, lock)'
    BY <1>1, <1>2, <1>3, <1>4 DEF HistInv, Settled, NoAbort
  <2>2. NoAbort(log_file)' => Settled(log_file, hist, fb, fo)'
    BY <1>1, <1>4 DEF HistInv, Settled, NoAbort
  <2>3. Describes(hist, History)' /\ (next_lsn = Len(History) + 1)' /\ (cache = hist[Len(History)])'
    BY <1>1, <1>2, <1>3 DEF HistInv, Describes
  <2> QED BY <1>3, <1>9, <2>1, <2>2, <2>3 DEF HistInv
<1>12. phase' \in {"up", "checkpoint"} /\ crashes' = 0 BY DEF UpInv
<1> QED BY <1>6, <1>7, <1>11, <1>12 DEF UpInv

LEMMA BackgroundUp ==
  ASSUME Types, NEW hist, NEW b, NEW fb, NEW fo, UpInv(hist, b, fb, fo), Background
  PROVE \E h, c, fc, l : UpInv(h, c, fc, l)'
<1> USE DEF recoveryVars, pageVars, txnVars
<1>0. /\ phase \in {"up", "checkpoint"}
      /\ \A p, q \in Page : WritePage(p) => cache' = cache /\ disk'[q] \in {disk[q], cache[q]}
  BY DEF UpInv, WritePage, Types, Pages
<1>1. ASSUME Flush, cache' = cache, \A p \in Page : disk'[p] \in {disk[p], cache[p]},
             UNCHANGED <<txnVars, crashes>>, phase' \in {"up", "checkpoint"}
      PROVE \E h, c, fc, l : UpInv(h, c, fc, l)'
  <2>1. \E c, l : UpInv(hist, c, c, l)' BY <1>1, FlushUp
  <2> QED BY <2>1
<1>2. CASE FlushLogBuffer BY <1>0, <1>1, <1>2 DEF FlushLogBuffer
<1>3. CASE EndCheckpoint BY <1>1, <1>3 DEF EndCheckpoint
<1>4. ASSUME NEW p \in Page, EvictPage(p) PROVE \E h, c, fc, l : UpInv(h, c, fc, l)'
  BY <1>0, <1>1, <1>4 DEF EvictPage
<1>5. CASE BeginCheckpoint
  <2>1. UpInv(hist, b, fb, fo)' BY <1>5, QuietUp DEF BeginCheckpoint
  <2> QED BY <2>1
<1>6. ASSUME NEW p \in Page, CheckpointPage(p) PROVE \E h, c, fc, l : UpInv(h, c, fc, l)'
  <2>1. UpInv(hist, b, fb, fo)' BY <1>0, <1>6, QuietUp DEF CheckpointPage
  <2> QED BY <2>1
<1> QED BY <1>2, <1>3, <1>4, <1>5, <1>6 DEF Background

LEMMA InitUp == ASSUME Init PROVE \E hist, b, fb, fo : UpInv(hist, b, fb, fo)
<1>1. Types BY TypesInit
<1>2. PICK hist : hist = [i \in {0} |-> disk] OBVIOUS
<1>3. PICK b : b = [r \in Rid |-> 0] OBVIOUS
<1>4. log_file = << >> /\ log_buffer = << >> /\ next_lsn = 1 /\ cache = disk /\ disk \in Pages
  BY <1>1 DEF Init, Types
<1>5. History = << >> /\ Len(History) = 0 /\ Len(log_file) = 0 /\ hist[0] = disk BY <1>2, <1>4 DEF History
<1>6. \A t, type : ~Logged(t, type) BY <1>5 DEF Logged
<1>7. \A p \in Page : disk[p].lsn = 0 BY DEF Init
<1>8. \A r \in Rid : Content(disk, r) = committed[r] BY DEF Init, Contents
<1>9. LogInv BY <1>6 DEF LogInv, Init
<1>10. \A t \in Txn : RecordsOK(t)
  <2>1. \A t \in Txn : write_set[t] = << >> BY DEF Init
  <2> QED BY <2>1 DEF RecordsOK
<1>11. ASSUME NEW l PROVE Settled(<< >>, hist, b, l)
  BY <1>3, <1>5, <1>8 DEF Settled
<1>12. Describes(hist, << >>) BY <1>4, <1>5, <1>7 DEF Describes
<1>13. HistInv(hist, b, b, lock)
  <2> HIDE DEF History
  <2> QED BY <1>4, <1>5, <1>7, <1>11, <1>12 DEF HistInv
<1>14. UpInv(hist, b, b, lock) BY <1>9, <1>10, <1>13 DEF UpInv, Init
<1> QED BY <1>14

-----------------------------------------------------------------------------
(***************************************************************************)
(* Recovery is exact until the log is emptied for the first time.          *)
(***************************************************************************)
BeforeCrash == \E hist, b, fb, fo : UpInv(hist, b, fb, fo)
InRestart == crashes >= 1 /\ \E hist, b, o : RestartInv(hist, b, o)
\* The log has been emptied; only a second crash could bring Redo and Undo back.
Restarted == crashes >= 1 /\ phase \in {"flush", "up", "checkpoint"}

LEMMA BeforeCrashNext ==
  ASSUME Types, BeforeCrash, [Next]_vars
  PROVE BeforeCrash' \/ InRestart'
<1>1. PICK hist, b, fb, fo : UpInv(hist, b, fb, fo) BY DEF BeforeCrash
<1>2. CASE Background BY <1>1, <1>2, BackgroundUp DEF BeforeCrash
<1>3. ASSUME NEW t \in Txn, Transact(t) PROVE BeforeCrash' BY <1>1, <1>3, TransactUp DEF BeforeCrash
<1>4. CASE Crash
  <2>1. FileInv(hist, fb, fo) BY <1>1, UpGivesFile
  <2>2. RestartInv(hist, fb, fo)' BY <1>4, <2>1, CrashRestarts
  <2>3. crashes' = 1 BY <1>1, <1>4 DEF Crash, UpInv
  <2> QED BY <2>2, <2>3 DEF InRestart
<1>5. ~Restart BY <1>1 DEF UpInv, Restart, Redo, GCLogFile, FlushAllPages, Undo
<1>6. CASE UNCHANGED vars
  <2>1. UpInv(hist, b, fb, fo)'
    BY <1>1, <1>6, QuietUp DEF UpInv, vars, logVars, pageVars, txnVars, recoveryVars
  <2> QED BY <2>1 DEF BeforeCrash
<1> QED BY <1>2, <1>3, <1>4, <1>5, <1>6 DEF Next

LEMMA InRestartNext ==
  ASSUME Types, crashes \in Nat, InRestart, [Next]_vars
  PROVE InRestart' \/ (GCLogFile /\ Restarted')
<1>1. PICK hist, b, o : RestartInv(hist, b, o) BY DEF InRestart
<1>2. crashes >= 1 BY DEF InRestart
<1>3. CASE Redo
  <2>1. RestartInv(hist, b, o)' BY <1>1, <1>3, RedoRestarts
  <2>2. crashes' = crashes BY <1>3 DEF Redo
  <2> QED BY <1>2, <2>1, <2>2 DEF InRestart
<1>4. ASSUME NEW t \in Txn, Undo(t) PROVE InRestart'
  <2>1. RestartInv(hist, b, o)' BY <1>1, <1>4, UndoRestarts
  <2>2. crashes' = crashes BY <1>4 DEF Undo
  <2> QED BY <1>2, <2>1, <2>2 DEF InRestart
<1>5. CASE Crash
  <2>1. FileInv(hist, b, o) BY <1>1 DEF RestartInv
  <2>2. RestartInv(hist, b, o)' BY <1>5, <2>1, CrashRestarts
  <2>3. crashes' >= 1 BY <1>2, <1>5 DEF Crash
  <2> QED BY <2>2, <2>3 DEF InRestart
<1>6. CASE GCLogFile
  BY <1>2, <1>6 DEF GCLogFile, Restarted, recoveryVars
<1>7. CASE UNCHANGED vars
  <2>1. UNCHANGED <<log_file, disk, committed, cache, active_txn, phase, txn, crashes>>
    BY <1>7 DEF vars, logVars, pageVars, txnVars, recoveryVars
  <2>2. FileInv(hist, b, o)' /\ CleanCrash' = CleanCrash /\ \A t : HasCommit(t)' = HasCommit(t)
    BY <1>1, <2>1, FileKept DEF RestartInv
  <2>3. UndoneSoFar(hist, b, o)' <=> UndoneSoFar(hist, b, o)
    BY <2>1, <2>2 DEF UndoneSoFar
  <2>4. RestartInv(hist, b, o)' BY <1>1, <2>1, <2>2, <2>3 DEF RestartInv
  <2> QED BY <1>2, <2>1, <2>4 DEF InRestart
<1>8. phase \in {"redo", "undo", "panic"} /\ \A t \in Txn : txn[t] = "none" BY <1>1 DEF RestartInv
<1>9. ~FlushAllPages /\ ~Background
  BY <1>8 DEF FlushAllPages, Background, FlushLogBuffer, BeginCheckpoint, EndCheckpoint,
              EvictPage, CheckpointPage
<1>10. ASSUME NEW t \in Txn PROVE ~Transact(t)
  BY <1>8 DEF Transact, Begin, DoInsert, DoUpdate, DoMarkDelete, CommitRecord, CommitLog,
              CommitEnd, AbortRecord, AbortEnd
<1> QED BY <1>3, <1>4, <1>5, <1>6, <1>7, <1>9, <1>10 DEF Next, Restart

\* Where Restarted, there is no way back to Redo and Undo but another crash.
LEMMA RestartedNext ==
  ASSUME Restarted, [Next]_vars
  PROVE Restarted' \/ Crash
<1> USE DEF Restarted
<1>1. CASE Background
  BY <1>1 DEF Background, FlushLogBuffer, BeginCheckpoint, EndCheckpoint, EvictPage,
              CheckpointPage, recoveryVars
<1>2. CASE Restart
  BY <1>2 DEF Restart, Redo, GCLogFile, FlushAllPages, Undo, recoveryVars
<1>3. ASSUME NEW t \in Txn, Transact(t) PROVE Restarted'
  BY <1>3 DEF Transact, Begin, DoInsert, DoUpdate, DoMarkDelete, CommitRecord, CommitLog,
              CommitEnd, AbortRecord, AbortEnd, recoveryVars
<1>4. CASE UNCHANGED vars BY <1>4 DEF vars, recoveryVars
<1> QED BY <1>1, <1>2, <1>3, <1>4 DEF Next

LEMMA CrashesCounted ==
  ASSUME crashes \in Nat, [Next]_vars
  PROVE crashes' \in Nat
<1> USE DEF recoveryVars
<1>1. CASE Background
  BY <1>1 DEF Background, FlushLogBuffer, BeginCheckpoint, EndCheckpoint, EvictPage, CheckpointPage
<1>2. CASE Restart BY <1>2 DEF Restart, Redo, GCLogFile, FlushAllPages, Undo
<1>3. CASE Crash BY <1>3 DEF Crash
<1>4. ASSUME NEW t \in Txn, Transact(t) PROVE crashes' \in Nat
  BY <1>4 DEF Transact, Begin, DoInsert, DoUpdate, DoMarkDelete, CommitRecord, CommitLog,
              CommitEnd, AbortRecord, AbortEnd
<1>5. CASE UNCHANGED vars BY <1>5 DEF vars
<1> QED BY <1>1, <1>2, <1>3, <1>4, <1>5 DEF Next

\* The part of a run up to the first time GCLogFile empties the log.
FirstRestart == Types /\ crashes \in Nat /\ (BeforeCrash \/ InRestart)

LEMMA FirstRestartInit == Init => FirstRestart
<1> SUFFICES ASSUME Init PROVE FirstRestart OBVIOUS
<1>1. Types /\ crashes \in Nat BY TypesInit DEF Init
<1>2. BeforeCrash BY InitUp DEF BeforeCrash
<1> QED BY <1>1, <1>2 DEF FirstRestart

LEMMA FirstRestartNext == FirstRestart /\ [Next]_vars /\ [~GCLogFile]_vars => FirstRestart'
<1> SUFFICES ASSUME FirstRestart, [Next]_vars, [~GCLogFile]_vars PROVE FirstRestart' OBVIOUS
<1>1. Types' /\ crashes' \in Nat BY TypesNext, CrashesCounted DEF FirstRestart
<1>2. ~GCLogFile
  BY DEF GCLogFile, vars, logVars
<1> QED BY <1>1, <1>2, BeforeCrashNext, InRestartNext DEF FirstRestart

LEMMA FirstRestartIsExact == FirstRestart => RecoveryIsExact /\ RestartNeverPanics
<1>1. BeforeCrash => RecoveryIsExact /\ RestartNeverPanics
  BY DEF BeforeCrash, UpInv, RecoveryIsExact, RecoveryDone, RestartNeverPanics
<1> QED BY <1>1, RestartGivesCommitted DEF FirstRestart, InRestart

\* Until GCLogFile empties the log for the first time, however many crashes
\* interrupt Redo and Undo: when Undo is done, every rid holds what the durable
\* commits made of it, if the log covers the pages on disk and Undo met only
\* transactions that have neither freed a slot nor finished their Abort.
THEOREM RestartsAreExact == Spec /\ [][~GCLogFile]_vars => []RecoveryIsExact
<1>1. FirstRestart => RecoveryIsExact BY FirstRestartIsExact
<1> QED BY <1>1, FirstRestartInit, FirstRestartNext, PTL DEF Spec

\* For as long, and under the same condition, Redo and Undo never run into an
\* assertion or a panic of ApplyDelete and RollbackDelete in table_page.go.
THEOREM RestartsNeverPanic == Spec /\ [][~GCLogFile]_vars => []RestartNeverPanics
<1>1. FirstRestart => RestartNeverPanics BY FirstRestartIsExact
<1> QED BY <1>1, FirstRestartInit, FirstRestartNext, PTL DEF Spec

\* With at most one crash, also after the log has been emptied.
OneCrash == Types /\ crashes \in Nat /\ (BeforeCrash \/ InRestart \/ Restarted)

LEMMA OneCrashNext == ASSUME MaxCrashes <= 1 PROVE OneCrash /\ [Next]_vars => OneCrash'
<1> SUFFICES ASSUME OneCrash, [Next]_vars PROVE OneCrash' OBVIOUS
<1>1. Types' /\ crashes' \in Nat BY TypesNext, CrashesCounted DEF OneCrash
<1>2. Restarted => ~Crash BY RecoveryAssumption DEF OneCrash, Restarted, Crash
<1> QED BY <1>1, <1>2, BeforeCrashNext, InRestartNext, RestartedNext DEF OneCrash

\* One crash, whenever it comes: what Redo and Undo end with is what was committed,
\* and neither panics.
THEOREM RecoveryExact ==
  ASSUME MaxCrashes <= 1 PROVE Spec => [](RecoveryIsExact /\ RestartNeverPanics)
<1>1. Init => OneCrash BY FirstRestartInit DEF FirstRestart, OneCrash
<1>2. OneCrash /\ [Next]_vars => OneCrash' BY OneCrashNext
<1>3. OneCrash => RecoveryIsExact /\ RestartNeverPanics
  <2>1. Restarted => RecoveryIsExact /\ RestartNeverPanics
    BY DEF Restarted, RecoveryIsExact, RecoveryDone, RestartNeverPanics
  <2> QED BY <2>1, FirstRestartIsExact DEF FirstRestart, OneCrash
<1> QED BY <1>1, <1>2, <1>3, PTL DEF Spec

=============================================================================
