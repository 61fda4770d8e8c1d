------------------------- MODULE IndexedTableProofs -------------------------
(***************************************************************************)
(* Proofs about IndexedTable: the index agrees with the heap, and a point  *)
(* scan is exact.  They build on the invariant of the heap and the locks,  *)
(* IInv of TransactionManagerProofs, and on its lemmas about what each     *)
(* action does to the slots.                                               *)
(***************************************************************************)
EXTENDS IndexedTable, TransactionManagerProofs

-----------------------------------------------------------------------------
(***************************************************************************)
(* The inductive invariant.  A row that nobody is in the middle of         *)
(* changing has the entry of its tuple, or none; a row that a transaction  *)
(* is changing is its own, and will have the right entry once the call of  *)
(* the index that comes next is done.                                      *)
(***************************************************************************)
EntryPairs == Keys \X Rid
IndexCall == [remove : SUBSET EntryPairs, insert : SUBSET EntryPairs]
ScanState == [step : {"none", "fetch", "check", "end"}, key : Keys \cup {NoTuple},
              rids : SUBSET Rid, found : SUBSET Rid, expected : SUBSET Rid]

TableTypes ==
  /\ index \subseteq EntryPairs
  /\ todo \in [Txn -> IndexCall]
  /\ scan \in [Txn -> ScanState]

EntriesAt(S, r) == {e \in S : e[2] = r}
EntriesFor(v, r) == IF v = NoTuple THEN {} ELSE {Entry(v, r)}

\* The index once t has made its call.
AfterCall(t) == (index \ todo[t].remove) \cup todo[t].insert

\* Rows whose tuple has left the heap, forwards or backwards, while their entry
\* waits for the rest of the move.
HalfMoved(t, r) == op[t].kind = "moved" /\ op[t].rid = r
HalfUndone(t, r) == op[t].kind = "abortMove" /\ LastRecord(t).rid2 = r

CallsFor(c, r) == \E e \in c.remove \cup c.insert : e[2] = r
Involved(t, r) == CallsFor(todo[t], r) \/ HalfMoved(t, r) \/ HalfUndone(t, r)

\* The tuple that the index has, or is about to have, an entry for.
Indexed(t, r) == IF HalfMoved(t, r) THEN op[t].old
                 ELSE IF HalfUndone(t, r) THEN LastRecord(t).tuple2
                 ELSE Content(r)

Agrees(t, r) == EntriesAt(AfterCall(t), r) = EntriesFor(Indexed(t, r), r)

RestIndexed ==
  \A r \in Rid : (\A t \in Txn : ~Involved(t, r)) => EntriesAt(index, r) = EntriesFor(Content(r), r)
RowsIndexed(t) == \A r \in Rid : Involved(t, r) => exclusive_lock_table[r] = t /\ Agrees(t, r)

\* A call follows a change at once; a scan is all its transaction does.
ExecutorFits(t) ==
  /\ todo[t] # NoCall => op[t] = Idle /\ txn_state[t] # "NONE" /\ scan[t] = NoScan
  /\ scan[t] # NoScan => Ready(t)
  /\ op[t].kind = "abortMove" => Content(LastRecord(t).rid2) = NoTuple

\* What a transaction was shown is still there; only its own work is shown deleted.
SeenIsCurrent(t) ==
  \A r \in Rid : seen[t][r] # Unknown =>
    seen[t][r] = Content(r) /\ (seen[t][r] = NoTuple => exclusive_lock_table[r] = t)

\* The rows expected of a scan are found or still to be fetched, and one of them
\* that is the scanner's own has not become deleted.
ScanInv(t) ==
  /\ scan[t].step \in {"fetch", "check"} => scan[t].rids # {}
  /\ scan[t].step = "check" => seen[t][NextRid(t)] # Unknown
  /\ scan[t].step \in {"none", "end"} => scan[t].rids = {}
  /\ scan[t].expected \subseteq scan[t].found \cup scan[t].rids
  /\ \A r \in scan[t].expected : exclusive_lock_table[r] = t => Content(r) # NoTuple
  /\ \A r \in scan[t].found : seen[t][r] \notin {Unknown, NoTuple} /\ Key[seen[t][r]] = scan[t].key

ExecutorInv(t) == ExecutorFits(t) /\ RowsIndexed(t) /\ SeenIsCurrent(t) /\ ScanInv(t)

TInv == IInv /\ TableTypes /\ RestIndexed /\ \A t \in Txn : ExecutorInv(t)

-----------------------------------------------------------------------------
LEMMA NoCallFacts ==
  /\ NoCall \in IndexCall /\ NoCall.remove = {} /\ NoCall.insert = {} /\ \A r : ~CallsFor(NoCall, r)
  /\ NoScan \in ScanState /\ NoScan.step = "none" /\ NoScan.rids = {} /\ NoScan.found = {} /\ NoScan.expected = {}
BY DEF NoCall, NoScan, IndexCall, ScanState, CallsFor

LEMMA ContentIsSlot == \A r \in Rid : Content(r) = ContentOf(Slots[r])
BY SlotsAndPages

LEMMA ContentIsSlotNext == \A r \in Rid : Content(r)' = ContentOf(Slots'[r])
<1>1. (\A r \in Rid : Content(r) = ContentOf(Slots[r]))'
  BY ContentIsSlot, PTL
<1> QED BY <1>1

LEMMA EntryFacts ==
  ASSUME NEW v \in Value, NEW r \in Rid
  PROVE  Entry(v, r) \in EntryPairs /\ Entry(v, r)[2] = r /\ Entry(v, r)[1] = Key[v]
BY DEF Entry, EntryPairs, Keys

LEMMA TableTypesOf ==
  ASSUME TInv, NEW t \in Txn
  PROVE  /\ IInv /\ ExecutorInv(t) /\ todo[t] \in IndexCall /\ scan[t] \in ScanState
         /\ scan[t].rids \subseteq Rid /\ scan[t].found \subseteq Rid /\ scan[t].expected \subseteq Rid
         /\ todo[t].remove \subseteq EntryPairs /\ todo[t].insert \subseteq EntryPairs
<1>1. IInv /\ ExecutorInv(t) /\ todo[t] \in IndexCall /\ scan[t] \in ScanState
  BY DEF TInv, TableTypes
<1> QED BY <1>1 DEF IndexCall, ScanState

\* Rows that t is not in the middle of changing.
LEMMA NotInvolved ==
  ASSUME NEW t, NEW r, ~Involved(t, r)
  PROVE  Agrees(t, r) <=> EntriesAt(index, r) = EntriesFor(Content(r), r)
<1>1. Indexed(t, r) = Content(r)
  BY DEF Indexed, Involved
<1>2. EntriesAt(AfterCall(t), r) = EntriesAt(index, r)
  BY DEF Involved, CallsFor, EntriesAt, AfterCall
<1> QED BY <1>1, <1>2 DEF Agrees

LEMMA AgreesNow ==
  ASSUME TInv, NEW t \in Txn, NEW r \in Rid, \A u \in Txn \ {t} : ~Involved(u, r)
  PROVE  Agrees(t, r)
<1>1. CASE Involved(t, r)
  BY <1>1 DEF TInv, ExecutorInv, RowsIndexed
<1>2. CASE ~Involved(t, r)
  <2>1. EntriesAt(index, r) = EntriesFor(Content(r), r)
    BY <1>2 DEF TInv, RestIndexed
  <2> QED BY <1>2, <2>1, NotInvolved
<1> QED BY <1>1, <1>2

LEMMA LeastRid ==
  ASSUME NEW S, S \subseteq Rid, S # {}
  PROVE  \E r \in S : \A s \in S : r[1] < s[1] \/ (r[1] = s[1] /\ r[2] <= s[2])
<1> DEFINE P == {r[1] : r \in S}
<1>1. P \subseteq Nat /\ P # {}
  BY RidPair
<1>2. PICK p \in P : \A x \in P : p <= x
  BY <1>1, LeastNat
<1> DEFINE Q == {r[2] : r \in {s \in S : s[1] = p}}
<1>3. Q \subseteq Nat /\ Q # {}
  BY RidPair
<1>4. PICK q \in Q : \A x \in Q : q <= x
  BY <1>3, LeastNat
<1>5. PICK r \in S : r[1] = p /\ r[2] = q
  OBVIOUS
<1>6. ASSUME NEW s \in S PROVE r[1] < s[1] \/ (r[1] = s[1] /\ r[2] <= s[2])
  <2>1. s[1] \in P /\ s[1] \in Nat /\ r[1] \in Nat /\ r[1] <= s[1]
    BY <1>2, <1>5, RidPair
  <2>2. CASE s[1] = p
    <3>1. s[2] \in Q
      BY <2>2
    <3> QED BY <1>4, <1>5, <2>2, <3>1
  <2>3. CASE s[1] # p
    BY <1>5, <2>1, <2>3
  <2> QED BY <2>2, <2>3
<1> QED BY <1>6

LEMMA NextRidFound ==
  ASSUME TInv, NEW t \in Txn, scan[t].step \in {"fetch", "check"}
  PROVE  NextRid(t) \in scan[t].rids /\ NextRid(t) \in Rid
<1>1. scan[t].rids \subseteq Rid /\ scan[t].rids # {}
  BY TableTypesOf DEF ExecutorInv, ScanInv
<1>2. \E r \in scan[t].rids : \A s \in scan[t].rids : r[1] < s[1] \/ (r[1] = s[1] /\ r[2] <= s[2])
  BY <1>1, LeastRid
<1>3. NextRid(t) \in scan[t].rids
  BY <1>2, Zenon DEF NextRid
<1> QED BY <1>1, <1>3

-----------------------------------------------------------------------------
(***************************************************************************)
(* A step of t as the others see it.                                       *)
(***************************************************************************)
\* Whoever becomes the owner of a row does so by a step of its own.
GrantsOwn(t) == \A r \in Rid : exclusive_lock_table'[r] \in {exclusive_lock_table[r], t, NoTxn}

TableStepBy(t) ==
  /\ Effect(t) /\ GrantsOwn(t) /\ TableTypes'
  /\ \A u \in Txn \ {t} : todo'[u] = todo[u] /\ scan'[u] = scan[u]
  /\ \A r \in Rid : Involved(t, r) \/ EntriesAt(index', r) = EntriesAt(index, r)

\* What another transaction holds stays as it is.
LEMMA HeldRowsKept ==
  ASSUME IInv, NEW t \in Txn, Effect(t), NEW u \in Txn, u # t, NEW r \in Rid, Holds(u, r), txn_state[u] # "NONE"
  PROVE  /\ Holds(u, r)' /\ Slots'[r] = Slots[r] /\ Content(r)' = Content(r)
         /\ exclusive_lock_table[r] = u => exclusive_lock_table'[r] = u
<1>1. StepBy(t) /\ LockStep /\ txn_state'[u] = txn_state[u]
  BY DEF Effect, StepBy, OthersUnchanged
<1>2. LockInv /\ LockInv'
  BY <1>1, LockInvKept DEF IInv
<1>3. Holds(u, r)' /\ (exclusive_lock_table[r] = u => exclusive_lock_table'[r] = u)
  BY <1>1, <1>2, HeldLocksKept DEF Holds
<1>4. exclusive_lock_table'[r] # t
  BY <1>2, <1>3, SizeAssumption DEF LockInv, LM!Exclusion, Holds
<1>5. Slots'[r] = Slots[r]
  BY <1>1, <1>4 DEF StepBy
<1> QED BY <1>3, <1>5, ContentIsSlot, ContentIsSlotNext

LEMMA OwnerActive ==
  ASSUME IInv, NEW u \in Txn, NEW r \in Rid, exclusive_lock_table[r] = u
  PROVE  txn_state[u] # "NONE" /\ Holds(u, r)
BY DEF IInv, LockInv, LM!NoOrphanLocks, LM!Active, Holds

\* What a transaction is in the middle of depends on its own state only.
LEMMA SameInvolved ==
  ASSUME NEW u, todo'[u] = todo[u], op'[u] = op[u], write_set'[u] = write_set[u], NEW r
  PROVE  /\ Involved(u, r)' <=> Involved(u, r)
         /\ HalfMoved(u, r)' <=> HalfMoved(u, r)
         /\ HalfUndone(u, r)' <=> HalfUndone(u, r)
         /\ Content(r)' = Content(r) => Indexed(u, r)' = Indexed(u, r)
<1>1. LastRecord(u)' = LastRecord(u)
  BY DEF LastRecord
<1>2. /\ HalfMoved(u, r)' <=> HalfMoved(u, r)
      /\ HalfUndone(u, r)' <=> HalfUndone(u, r)
  BY <1>1 DEF HalfMoved, HalfUndone
<1>3. Involved(u, r)' <=> Involved(u, r)
  BY <1>2 DEF Involved
<1>4. Content(r)' = Content(r) => Indexed(u, r)' = Indexed(u, r)
  BY <1>1, <1>2 DEF Indexed
<1> QED BY <1>2, <1>3, <1>4

LEMMA OthersKeepTable ==
  ASSUME TInv, NEW t \in Txn, TableStepBy(t), NEW u \in Txn, u # t
  PROVE  ExecutorInv(u)' /\ \A r \in Rid : Involved(u, r)' <=> Involved(u, r)
<1>1. /\ IInv /\ Effect(t) /\ GrantsOwn(t) /\ ExecutorInv(u) /\ todo'[u] = todo[u] /\ scan'[u] = scan[u]
      /\ \A r \in Rid : Involved(t, r) \/ EntriesAt(index', r) = EntriesAt(index, r)
  BY DEF TInv, TableStepBy
<1>2. /\ write_set'[u] = write_set[u] /\ op'[u] = op[u] /\ seen'[u] = seen[u]
      /\ txn_state'[u] = txn_state[u] /\ LastRecord(u)' = LastRecord(u)
  BY <1>1 DEF Effect, StepBy, OthersUnchanged, LastRecord
<1>3. \A r \in Rid : Involved(u, r)' <=> Involved(u, r)
  BY <1>1, <1>2, SameInvolved
<1>4. ASSUME NEW r \in Rid, exclusive_lock_table[r] = u
      PROVE  Content(r)' = Content(r) /\ exclusive_lock_table'[r] = u
  BY <1>1, <1>4, OwnerActive, HeldRowsKept
<1>5. ExecutorFits(u)'
  <2>1. op[u].kind = "abortMove" => Content(LastRecord(u).rid2)' = NoTuple
    <3> SUFFICES ASSUME op[u].kind = "abortMove" PROVE Content(LastRecord(u).rid2)' = NoTuple
      OBVIOUS
    <3>1. TxnInv(u) /\ TxnsOK /\ write_set[u] # <<>>
      BY <1>1, TxnTypes DEF IInv, TxnInv, OpFitsState
    <3>2. LastRecord(u).rid2 \in Rid /\ \E i \in DOMAIN write_set[u] : LastRecord(u) = write_set[u][i]
      BY <3>1, LastRecordFacts
    <3>3. PICK q \in Rid : q = LastRecord(u).rid2
      BY <3>2
    <3>4. exclusive_lock_table[q] = u
      BY <3>1, <3>2, <3>3 DEF TxnInv, OwnsWrites, Touches
    <3>5. Content(q) = NoTuple
      BY <1>1, <3>3 DEF ExecutorInv, ExecutorFits
    <3>6. Content(q)' = NoTuple
      BY <1>4, <3>4, <3>5
    <3>7. LastRecord(u)'.rid2 = q
      BY <1>2, <3>3
    <3> QED BY <3>6, <3>7 DEF Content, SlotExists, IsDeleted, Slot
  <2> QED BY <1>1, <1>2, <2>1 DEF ExecutorInv, ExecutorFits, Ready
<1>6. RowsIndexed(u)'
  <2> SUFFICES ASSUME NEW r \in Rid, Involved(u, r)
               PROVE  exclusive_lock_table'[r] = u /\ Agrees(u, r)'
    BY <1>3 DEF RowsIndexed
  <2>1. exclusive_lock_table[r] = u /\ Agrees(u, r)
    BY <1>1 DEF ExecutorInv, RowsIndexed
  <2>2. Content(r)' = Content(r) /\ exclusive_lock_table'[r] = u
    BY <1>4, <2>1
  <2>3. ~Involved(t, r)
    BY <2>1 DEF TInv, ExecutorInv, RowsIndexed
  <2>4. Indexed(u, r)' = Indexed(u, r)
    BY <1>1, <1>2, <2>2, SameInvolved
  <2>5. EntriesAt(index', r) = EntriesAt(index, r)
    BY <1>1, <2>3
  <2>6. EntriesAt(AfterCall(u)', r) = EntriesAt(AfterCall(u), r)
    BY <1>1, <2>5 DEF EntriesAt, AfterCall
  <2> QED BY <2>1, <2>2, <2>4, <2>6 DEF Agrees
<1>7. ASSUME NEW r \in Rid, seen[u][r] # Unknown
      PROVE  Content(r)' = Content(r) /\ (exclusive_lock_table[r] = u => exclusive_lock_table'[r] = u)
  <2>1. TxnInv(u)
    BY <1>1, TxnTypes
  <2>2. u \in Running /\ Holds(u, r)
    BY <1>7, <2>1 DEF TxnInv, ReadsLocked
  <2> QED BY <1>1, <2>2, HeldRowsKept DEF Running
<1>8. SeenIsCurrent(u)'
  <2> SUFFICES ASSUME NEW r \in Rid, seen[u][r] # Unknown
               PROVE  seen[u][r] = Content(r)' /\ (seen[u][r] = NoTuple => exclusive_lock_table'[r] = u)
    BY <1>2 DEF SeenIsCurrent
  <2> QED BY <1>1, <1>7 DEF ExecutorInv, SeenIsCurrent
<1>9. ScanInv(u)'
  <2>1. NextRid(u)' = NextRid(u)
    BY <1>1, Zenon DEF NextRid
  <2>2. scan[u].expected \subseteq Rid
    BY TableTypesOf
  <2>3. ASSUME NEW r \in scan[u].expected, exclusive_lock_table'[r] = u PROVE Content(r)' # NoTuple
    <3>1. exclusive_lock_table[r] = u
      BY <1>1, <2>2, <2>3, SizeAssumption DEF GrantsOwn
    <3> QED BY <1>1, <1>4, <2>2, <3>1 DEF ExecutorInv, ScanInv
  <2> QED BY <1>1, <1>2, <2>1, <2>3 DEF ExecutorInv, ScanInv
<1> QED BY <1>3, <1>5, <1>6, <1>8, <1>9 DEF ExecutorInv

\* What remains to be shown of a step of t.
LEMMA TableStep ==
  ASSUME TInv, NEW t \in Txn, TableStepBy(t), ExecutorFits(t)', SeenIsCurrent(t)', ScanInv(t)',
         \A r \in Rid : Involved(t, r)' => exclusive_lock_table'[r] = t,
         \A r \in Rid : Agrees(t, r) => Agrees(t, r)'
  PROVE  TInv'
<1>1. IInv /\ Effect(t) /\ TableTypes'
  BY DEF TInv, TableStepBy
<1>2. IInv'
  BY <1>1, EffectKeepsInv
<1>3. \A u \in Txn \ {t} : ExecutorInv(u)' /\ \A r \in Rid : Involved(u, r)' <=> Involved(u, r)
  BY OthersKeepTable
<1>4. ASSUME NEW r \in Rid, \A u \in Txn \ {t} : ~Involved(u, r) PROVE Agrees(t, r)'
  BY <1>4, AgreesNow
<1>5. RowsIndexed(t)'
  <2> SUFFICES ASSUME NEW r \in Rid, Involved(t, r)' PROVE exclusive_lock_table'[r] = t /\ Agrees(t, r)'
    BY DEF RowsIndexed
  <2>1. exclusive_lock_table'[r] = t
    OBVIOUS
  <2>2. ASSUME NEW u \in Txn \ {t}, Involved(u, r) PROVE FALSE
    <3>1. exclusive_lock_table[r] = u
      BY <2>2 DEF TInv, ExecutorInv, RowsIndexed
    <3>2. exclusive_lock_table'[r] = u
      BY <1>1, <3>1, OwnerActive, HeldRowsKept
    <3> QED BY <2>1, <3>2
  <2> QED BY <1>4, <2>1, <2>2
<1>6. RestIndexed'
  <2> SUFFICES ASSUME NEW r \in Rid, \A u \in Txn : ~Involved(u, r)'
               PROVE  EntriesAt(index', r) = EntriesFor(Content(r)', r)
    BY DEF RestIndexed
  <2>1. Agrees(t, r)'
    BY <1>3, <1>4
  <2>2. Indexed(t, r)' = Content(r)'
    BY DEF Indexed, Involved
  <2>3. EntriesAt(AfterCall(t)', r) = EntriesAt(index', r)
    BY DEF Involved, CallsFor, EntriesAt, AfterCall
  <2> QED BY <2>1, <2>2, <2>3 DEF Agrees
<1> QED BY <1>1, <1>2, <1>3, <1>5, <1>6 DEF TInv, ExecutorInv

-----------------------------------------------------------------------------
(***************************************************************************)
(* Locks are granted to the transaction that asks.                         *)
(***************************************************************************)
LEMMA KeptLocks == ASSUME NEW t, UNCHANGED exclusive_lock_table PROVE GrantsOwn(t)
BY DEF GrantsOwn

LEMMA ExclusiveGrant ==
  ASSUME IInv, NEW t \in Txn, NEW r \in Rid, NEW granted \in BOOLEAN,
         LM!LockExclusive(t, r, granted) \/ LM!AcquireForWrite(t, r, granted)
  PROVE  GrantsOwn(t)
<1>1. CASE LM!KeepLocks
  BY <1>1, KeptLocks DEF LM!KeepLocks, LM!tables
<1>2. CASE LM!GrantExclusive(t, r)
  BY <1>2 DEF LM!GrantExclusive, GrantsOwn, IInv, LockInv, LM!TypeOK
<1> QED BY <1>1, <1>2 DEF LM!LockExclusive, LM!AcquireForWrite, LM!LockUpgrade

LEMMA SharedGrant ==
  ASSUME IInv, NEW t \in Txn, NEW r \in Rid, NEW granted \in BOOLEAN, LM!AcquireForRead(t, r, granted)
  PROVE  UNCHANGED exclusive_lock_table
BY DEF LM!AcquireForRead, LM!LockShared, LM!GrantShared, LM!KeepLocks, LM!tables

LEMMA InsertGrant ==
  ASSUME IInv, NEW t \in Txn, NEW v \in Value, NEW r \in Rid, HeapInsert(t, v, r), txn_state[t] # "NONE"
  PROVE  GrantsOwn(t)
<1>1. LM!LockExclusive(t, r, TRUE)
  BY HeapInsertEffect DEF IInv
<1> QED BY <1>1, ExclusiveGrant

LEMMA ReleaseGrant ==
  ASSUME IInv, NEW t \in Txn, LM!ReleaseLocks(t)
  PROVE  GrantsOwn(t)
BY DEF LM!ReleaseLocks, LM!Unlock, GrantsOwn

LEMMA MarkGrant ==
  ASSUME IInv, NEW t \in Txn, NEW r \in Rid, NEW marked \in BOOLEAN, MarkDeleteOnPage(t, r, marked)
  PROVE  GrantsOwn(t)
BY ExclusiveGrant DEF MarkDeleteOnPage

-----------------------------------------------------------------------------
(***************************************************************************)
(* Parts of steps.                                                         *)
(***************************************************************************)
SetsTodo(t, c) ==
  todo' \in [Txn -> IndexCall] /\ todo'[t] = c /\ \A u \in Txn \ {t} : todo'[u] = todo[u]
SetsScan(t, s) ==
  scan' \in [Txn -> ScanState] /\ scan'[t] = s /\ \A u \in Txn \ {t} : scan'[u] = scan[u]

LEMMA TodoSet ==
  ASSUME TInv, NEW t \in Txn, NEW c \in IndexCall, todo' = [todo EXCEPT ![t] = c]
  PROVE  SetsTodo(t, c)
BY DEF TInv, TableTypes, SetsTodo

LEMMA TodoKept == ASSUME TInv, NEW t \in Txn, UNCHANGED todo PROVE SetsTodo(t, todo[t])
BY DEF TInv, TableTypes, SetsTodo

LEMMA ScanSet ==
  ASSUME TInv, NEW t \in Txn, NEW s \in ScanState, scan' = [scan EXCEPT ![t] = s]
  PROVE  SetsScan(t, s)
BY DEF TInv, TableTypes, SetsScan

LEMMA ScanKept == ASSUME TInv, NEW t \in Txn, UNCHANGED scan PROVE SetsScan(t, scan[t])
BY DEF TInv, TableTypes, SetsScan

LEMMA ScanEnded == ASSUME TInv, NEW t \in Txn, EndScan(t) PROVE SetsScan(t, NoScan)
BY ScanSet, NoCallFacts DEF EndScan

LEMMA NoScanInv == ASSUME NEW t, scan'[t] = NoScan PROVE ScanInv(t)'
BY NoCallFacts DEF ScanInv

LEMMA OneEntry ==
  ASSUME TInv, NEW t \in Txn, NEW v \in Value, NEW r \in Rid
  PROVE  /\ InsertEntry(t, v, r) => SetsTodo(t, [remove |-> {}, insert |-> {Entry(v, r)}])
         /\ DeleteEntry(t, v, r) => SetsTodo(t, [remove |-> {Entry(v, r)}, insert |-> {}])
         /\ \A w \in Value, q \in Rid : UpdateEntry(t, v, r, w, q) =>
              SetsTodo(t, [remove |-> {Entry(v, r)}, insert |-> {Entry(w, q)}])
<1>1. \A w \in Value, q \in Rid : Entry(w, q) \in EntryPairs
  BY EntryFacts
<1>2. /\ [remove |-> {}, insert |-> {Entry(v, r)}] \in IndexCall
      /\ [remove |-> {Entry(v, r)}, insert |-> {}] \in IndexCall
      /\ \A w \in Value, q \in Rid : [remove |-> {Entry(v, r)}, insert |-> {Entry(w, q)}] \in IndexCall
  BY <1>1 DEF IndexCall
<1> QED BY <1>2, TodoSet DEF InsertEntry, DeleteEntry, UpdateEntry

\* What t has seen and does not forget it has not changed either.
LEMMA SeenKept ==
  ASSUME TInv, NEW t \in Txn, Effect(t), GoesOn(t),
         \A r \in Rid : seen'[t][r] # Unknown => seen'[t][r] = seen[t][r] /\ Slots'[r] = Slots[r]
  PROVE  SeenIsCurrent(t)'
<1>1. IInv /\ LockStep /\ SeenIsCurrent(t)
  BY DEF TInv, ExecutorInv, Effect, StepBy
<1>2. \A r \in Rid : exclusive_lock_table[r] = t => exclusive_lock_table'[r] = t
  BY <1>1, LocksGoOn
<1> QED BY <1>1, <1>2, ContentIsSlot, ContentIsSlotNext DEF SeenIsCurrent

LEMMA NothingSeen ==
  ASSUME NEW t, \A r \in Rid : seen'[t][r] = Unknown PROVE SeenIsCurrent(t)'
BY DEF SeenIsCurrent

\* A step that makes no call and leaves what the index should hold as it is.
QuietRows(t) ==
  /\ index' = index /\ todo[t] = NoCall /\ SetsTodo(t, NoCall)
  /\ \A r \in Rid : Indexed(t, r)' = Indexed(t, r)

LEMMA QuietTableStep ==
  ASSUME TInv, NEW t \in Txn, Effect(t), GrantsOwn(t), QuietRows(t), NEW s, SetsScan(t, s),
         ExecutorFits(t)', SeenIsCurrent(t)', ScanInv(t)',
         \A r \in Rid : Involved(t, r)' => exclusive_lock_table'[r] = t
  PROVE  TInv'
<1>1. TableStepBy(t)
  BY DEF TableStepBy, TInv, TableTypes, SetsTodo, SetsScan, QuietRows
<1>2. ASSUME NEW r \in Rid, Agrees(t, r) PROVE Agrees(t, r)'
  <2>1. AfterCall(t)' = AfterCall(t)
    BY DEF AfterCall, QuietRows, SetsTodo
  <2> QED BY <1>2, <2>1 DEF Agrees, QuietRows
<1> QED BY <1>1, <1>2, TableStep

\* A step that changes rows of t and leaves the call for the index to make.
CallFits(t, c) ==
  \A r \in Rid : EntriesFor(Indexed(t, r)', r)
                   = EntriesAt((EntriesFor(Indexed(t, r), r) \ c.remove) \cup c.insert, r)

LEMMA CallTableStep ==
  ASSUME TInv, NEW t \in Txn, Effect(t), GrantsOwn(t), index' = index, todo[t] = NoCall,
         NEW c, SetsTodo(t, c), CallFits(t, c), SetsScan(t, NoScan), SeenIsCurrent(t)',
         op'[t] = Idle, txn_state'[t] # "NONE",
         \A r \in Rid : CallsFor(c, r) => exclusive_lock_table'[r] = t
  PROVE  TInv'
<1>1. TableStepBy(t)
  BY DEF TableStepBy, TInv, TableTypes, SetsTodo, SetsScan
<1>2. ASSUME NEW r \in Rid, Agrees(t, r) PROVE Agrees(t, r)'
  <2>1. AfterCall(t) = index /\ AfterCall(t)' = (index \ c.remove) \cup c.insert
    BY NoCallFacts DEF AfterCall, SetsTodo
  <2>2. EntriesAt(index, r) = EntriesFor(Indexed(t, r), r)
    BY <1>2, <2>1 DEF Agrees
  <2>3. EntriesAt((index \ c.remove) \cup c.insert, r)
          = EntriesAt((EntriesAt(index, r) \ c.remove) \cup c.insert, r)
    BY DEF EntriesAt
  <2> QED BY <2>1, <2>2, <2>3 DEF Agrees, CallFits
<1>3. op'[t].kind = "idle" /\ scan'[t] = NoScan /\ todo'[t] = c
  BY OpFacts DEF SetsScan, SetsTodo
<1>4. ExecutorFits(t)' /\ ScanInv(t)'
  BY <1>3, NoScanInv DEF ExecutorFits
<1>5. \A r \in Rid : Involved(t, r)' => exclusive_lock_table'[r] = t
  BY <1>3 DEF Involved, HalfMoved, HalfUndone
<1> QED BY <1>1, <1>2, <1>4, <1>5, TableStep

-----------------------------------------------------------------------------
(***************************************************************************)
(* The actions.                                                            *)
(***************************************************************************)
LEMMA WholeRows ==
  ASSUME NEW t, op[t].kind \notin {"moved", "abortMove"}, NEW r
  PROVE  Indexed(t, r) = Content(r) /\ (Involved(t, r) <=> CallsFor(todo[t], r))
BY DEF Indexed, Involved, HalfMoved, HalfUndone

LEMMA WholeRowsNext ==
  ASSUME NEW t, op'[t].kind \notin {"moved", "abortMove"}, NEW r
  PROVE  Indexed(t, r)' = Content(r)' /\ (Involved(t, r)' <=> CallsFor(todo'[t], r))
BY DEF Indexed, Involved, HalfMoved, HalfUndone

LEMMA PagesKept ==
  ASSUME UNCHANGED pageVars PROVE Slots' = Slots /\ \A r \in Rid : Content(r)' = Content(r)
BY DEF pageVars, Slots, Content, SlotExists, IsDeleted, Slot

\* A step without a call before or after it, and without half a move.
LEMMA PlainTableStep ==
  ASSUME TInv, NEW t \in Txn, Effect(t), GrantsOwn(t), UNCHANGED <<index, todo>>, todo[t] = NoCall,
         \A r \in Rid : Content(r)' = Content(r), op[t].kind \in {"idle", "move", "commit"},
         op'[t].kind \in {"idle", "move", "commit"}, NEW s, SetsScan(t, s), s # NoScan => Ready(t)',
         SeenIsCurrent(t)', ScanInv(t)'
  PROVE  TInv'
<1>1. SetsTodo(t, NoCall)
  BY TodoKept
<1>2. QuietRows(t)
  BY <1>1, WholeRows, WholeRowsNext DEF QuietRows
<1>3. \A r \in Rid : ~Involved(t, r)'
  BY <1>1, WholeRowsNext, NoCallFacts DEF SetsTodo
<1>4. ExecutorFits(t)'
  BY <1>1 DEF ExecutorFits, SetsTodo, SetsScan
<1> QED BY <1>2, <1>3, <1>4, QuietTableStep

LEMMA AbortsTable ==
  ASSUME TInv, NEW t \in Txn, Aborts(t), GrantsOwn(t), UNCHANGED <<index, todo>>, todo[t] = NoCall,
         SetsScan(t, NoScan)
  PROVE  TInv'
<1>1. IInv /\ Effect(t) /\ TxnsOK
  BY AbortsEffect DEF TInv, IInv
<1>2. \A r \in Rid : Content(r)' = Content(r)
  BY PagesKept DEF Aborts
<1>3. op[t].kind \in {"idle", "move"} /\ op'[t].kind = "idle"
  BY OpFacts DEF Aborts
<1>4. SeenIsCurrent(t)'
  BY <1>1, SeenForgotten, NothingSeen DEF Aborts, SetAborted
<1>5. ScanInv(t)'
  BY NoScanInv DEF SetsScan
<1> QED BY <1>1, <1>2, <1>3, <1>4, <1>5, PlainTableStep

LEMMA StutterEffect ==
  ASSUME IInv, NEW t \in Txn, UNCHANGED vars
  PROVE  /\ Effect(t) /\ GrantsOwn(t) /\ \A r \in Rid : Content(r)' = Content(r)
         /\ UNCHANGED <<exclusive_lock_table, txn_state, write_set, op, seen>>
<1>1. IInv' /\ LockStep
  BY StutterKeepsInv
<1>2. /\ UNCHANGED <<shared_lock_table, exclusive_lock_table, shared_lock_set, exclusive_lock_set>>
      /\ UNCHANGED <<txn_state, pages, freeSpacePointer, write_set, op, seen>>
  BY DEF vars, lockVars, pageVars
<1>3. UNCHANGED pageVars /\ Slots' = Slots /\ \A r \in Rid : Content(r)' = Content(r)
  BY <1>2, PagesKept DEF pageVars
<1>4. StepBy(t)
  BY <1>1, <1>2, <1>3 DEF StepBy, OthersUnchanged, SlotExists
<1> QED BY <1>1, <1>2, <1>3, <1>4, KeptLocks DEF Effect, IInv

LEMMA BeginTableKeeps ==
  ASSUME TInv, NEW t \in Txn, BeginTable(t) PROVE TInv'
<1>1. Begin(t) /\ UNCHANGED <<index, todo, scan>> /\ IInv /\ ExecutorInv(t) /\ TxnInv(t) /\ op[t] \in OpState
  BY TxnTypes DEF BeginTable, TInv
<1>2. /\ txn_state[t] = "NONE" /\ LM!KeepLocks /\ UNCHANGED <<pageVars, seen>>
      /\ op' = [op EXCEPT ![t] = Idle]
  BY <1>1 DEF Begin, LM!Begin, SetOp
<1>3. Effect(t) /\ GrantsOwn(t) /\ (\A r \in Rid : Content(r)' = Content(r))
  BY <1>1, <1>2, BeginEffect, KeptLocks, PagesKept DEF LM!KeepLocks, LM!tables
<1>4. op[t].kind = "idle" /\ op'[t].kind = "idle"
  BY <1>1, <1>2, OpFacts DEF TxnInv, OpFitsState, IInv, TxnsOK, OpKind
<1>5. todo[t] = NoCall /\ scan[t] = NoScan
  BY <1>1, <1>2 DEF ExecutorInv, ExecutorFits, Ready
<1>6. \A r \in Rid : seen'[t][r] = Unknown
  BY <1>1, <1>2 DEF TxnInv, ReadsLocked, Running
<1>7. SetsScan(t, NoScan) /\ SeenIsCurrent(t)' /\ ScanInv(t)'
  BY <1>1, <1>5, <1>6, ScanKept, NothingSeen, NoScanInv
<1> QED BY <1>1, <1>3, <1>4, <1>5, <1>7, PlainTableStep

LEMMA CallIndexKeeps ==
  ASSUME TInv, NEW t \in Txn, CallIndex(t) PROVE TInv'
<1>1. /\ todo[t] # NoCall /\ index' = AfterCall(t) /\ todo' = [todo EXCEPT ![t] = NoCall]
      /\ UNCHANGED vars /\ UNCHANGED scan /\ IInv /\ ExecutorInv(t)
  BY TableTypesOf DEF CallIndex, AfterCall
<1>2. /\ Effect(t) /\ GrantsOwn(t) /\ \A r \in Rid : Content(r)' = Content(r)
      /\ UNCHANGED <<exclusive_lock_table, txn_state, write_set, op, seen>>
  BY <1>1, StutterEffect
<1>3. SetsTodo(t, NoCall) /\ SetsScan(t, scan[t])
  BY <1>1, NoCallFacts, TodoSet, ScanKept
<1>4. index' \subseteq EntryPairs
  BY <1>1, TableTypesOf DEF AfterCall, TInv, TableTypes
<1>5. op[t].kind = "idle" /\ scan[t] = NoScan
  BY <1>1, OpFacts DEF ExecutorInv, ExecutorFits
<1>6. TableStepBy(t)
  <2>1. ASSUME NEW r \in Rid, ~Involved(t, r) PROVE EntriesAt(index', r) = EntriesAt(index, r)
    BY <1>1, <2>1 DEF Involved, CallsFor, EntriesAt, AfterCall
  <2> QED BY <1>2, <1>3, <1>4, <2>1 DEF TableStepBy, TableTypes, SetsTodo, SetsScan
<1>7. ASSUME NEW r \in Rid PROVE ~Involved(t, r)' /\ (Agrees(t, r) => Agrees(t, r)')
  <2>1. Indexed(t, r)' = Indexed(t, r) /\ ~Involved(t, r)'
    BY <1>2, <1>3, <1>5, WholeRows, WholeRowsNext, NoCallFacts DEF SetsTodo
  <2>2. AfterCall(t)' = AfterCall(t)
    BY <1>1, <1>3, NoCallFacts DEF AfterCall, SetsTodo
  <2> QED BY <2>1, <2>2 DEF Agrees
<1>8. ExecutorFits(t)' /\ ScanInv(t)'
  BY <1>2, <1>3, <1>5, NoScanInv DEF ExecutorFits, SetsTodo, SetsScan
<1>9. SeenIsCurrent(t)'
  BY <1>1, <1>2 DEF ExecutorInv, SeenIsCurrent
<1> QED BY <1>6, <1>7, <1>8, <1>9, TableStep

\* A change of one row, with the call that follows it.
LEMMA OneRowCall ==
  ASSUME NEW t \in Txn, op[t] = Idle, op'[t] = Idle, NEW r \in Rid, NEW c,
         \A q \in Rid : q # r => Slots'[q] = Slots[q],
         \A e \in c.remove \cup c.insert : e[2] = r,
         EntriesFor(ContentOf(Slots[r]), r) \subseteq c.remove,
         c.insert = EntriesFor(ContentOf(Slots'[r]), r)
  PROVE  CallFits(t, c) /\ \A q \in Rid : CallsFor(c, q) => q = r
<1>1. \A q \in Rid : Indexed(t, q) = ContentOf(Slots[q]) /\ Indexed(t, q)' = ContentOf(Slots'[q])
  BY OpFacts, WholeRows, WholeRowsNext, ContentIsSlot, ContentIsSlotNext
<1>2. \A q, v : \A e \in EntriesFor(v, q) : e[2] = q
  BY DEF EntriesFor, Entry
<1>3. ASSUME NEW q \in Rid
      PROVE  EntriesFor(ContentOf(Slots'[q]), q)
               = EntriesAt((EntriesFor(ContentOf(Slots[q]), q) \ c.remove) \cup c.insert, q)
  <2>1. CASE q = r
    BY <1>2, <2>1 DEF EntriesAt
  <2>2. CASE q # r
    <3> DEFINE E == EntriesFor(ContentOf(Slots[q]), q)
    <3>1. E = EntriesFor(ContentOf(Slots'[q]), q) /\ \A e \in E : e[2] = q
      BY <1>2, <2>2
    <3> HIDE DEF E
    <3>2. E = EntriesAt((E \ c.remove) \cup c.insert, q)
      BY <2>2, <3>1 DEF EntriesAt
    <3> QED BY <3>1, <3>2 DEF E
  <2> QED BY <2>1, <2>2
<1>4. CallFits(t, c)
  BY <1>1, <1>3 DEF CallFits
<1> QED BY <1>4 DEF CallsFor

LEMMA AddsSeen ==
  ASSUME TInv, NEW t \in Txn, NEW wr, NEW r \in Rid, AddsRecord(t, wr, r), Effect(t)
  PROVE  /\ SeenIsCurrent(t)' /\ txn_state'[t] = "GROWING" /\ exclusive_lock_table'[r] = t
         /\ Slots'[r] = Left(wr, r) /\ \A q \in Rid : q # r => Slots'[q] = Slots[q]
<1>1. /\ IInv /\ Slots \in [Rid -> SlotState] /\ seen[t] \in [Rid -> Value \cup {NoTuple, Unknown}]
      /\ seen \in [Txn -> [Rid -> Value \cup {NoTuple, Unknown}]]
  BY SlotsAreFunction, TxnTypes DEF TInv, IInv, TxnsOK
<1>2. /\ Slots' = [Slots EXCEPT ![r] = Left(wr, r)] /\ seen' = [seen EXCEPT ![t][r] = Unknown]
      /\ txn_state[t] = "GROWING" /\ txn_state' = txn_state /\ exclusive_lock_table'[r] = t
  BY DEF AddsRecord
<1>3. Slots'[r] = Left(wr, r) /\ \A q \in Rid : q # r => Slots'[q] = Slots[q]
  BY <1>1, <1>2
<1>4. seen'[t][r] = Unknown /\ \A q \in Rid : q # r => seen'[t][q] = seen[t][q]
  BY <1>1, <1>2
<1>5. SeenIsCurrent(t)'
  BY <1>2, <1>3, <1>4, SeenKept DEF GoesOn
<1> QED BY <1>2, <1>3, <1>5

\* An executor's write of one row, with its call of the index.
LEMMA WriteWithCall ==
  ASSUME TInv, NEW t \in Txn, NEW wr, NEW r \in Rid, RecordsWrite(t, wr, r), GrantsOwn(t),
         index' = index, todo[t] = NoCall, SetsScan(t, NoScan), NEW c, SetsTodo(t, c),
         \A e \in c.remove \cup c.insert : e[2] = r,
         EntriesFor(ContentOf(Slots[r]), r) \subseteq c.remove,
         c.insert = EntriesFor(ContentOf(Left(wr, r)), r)
  PROVE  TInv'
<1>1. IInv /\ Effect(t) /\ AddsRecord(t, wr, r) /\ op[t] \in OpState /\ op[t].kind = "idle" /\ UNCHANGED op
  BY RecordsWriteEffect, TxnTypes DEF TInv, RecordsWrite
<1>2. op[t] = Idle /\ op'[t] = Idle
  BY <1>1, OpFacts
<1>3. /\ SeenIsCurrent(t)' /\ txn_state'[t] = "GROWING" /\ exclusive_lock_table'[r] = t
      /\ Slots'[r] = Left(wr, r) /\ \A q \in Rid : q # r => Slots'[q] = Slots[q]
  BY <1>1, AddsSeen
<1>4. CallFits(t, c) /\ \A q \in Rid : CallsFor(c, q) => q = r
  BY <1>2, <1>3, OneRowCall
<1> QED BY <1>1, <1>2, <1>3, <1>4, CallTableStep

LEMMA SlotContents ==
  /\ ContentOf(FreeSlot) = NoTuple
  /\ \A v \in Value : ContentOf(Live(v)) = v /\ ContentOf(MarkedSlot(v)) = NoTuple /\ v # NoTuple
BY SizeAssumption DEF ContentOf, FreeSlot, Live, MarkedSlot

LEMMA InsertExecutorKeeps ==
  ASSUME TInv, NEW t \in Txn, NEW v \in Value, InsertExecutor(t, v) PROVE TInv'
<1>1. /\ IInv /\ InsertTuple(t, v) /\ InsertEntry(t, v, Last(write_set'[t]).rid1)
      /\ EndScan(t) /\ UNCHANGED index /\ todo[t] = NoCall /\ write_set[t] \in Seq(WriteRecord)
  BY TxnTypes DEF InsertExecutor, Free, TInv
<1>2. PICK r \in Rid : RecordsWrite(t, Record("INSERT", r, r, v, NoTuple), r)
  BY <1>1, InsertTupleEffect
<1> DEFINE wr == Record("INSERT", r, r, v, NoTuple)
           c == [remove |-> {}, insert |-> {Entry(v, r)}]
<1>3. /\ wr \in WriteRecord /\ wr.rid1 = r /\ Found(wr, r) = FreeSlot /\ Left(wr, r) = Live(v)
      /\ Slots[r] = Found(wr, r)
  BY <1>2 DEF Record, WriteRecord, Found, Left, RecordsWrite, AddsRecord
<1>4. Last(write_set'[t]) = wr
  <2>1. write_set'[t] = Append(write_set[t], wr)
    BY <1>1, <1>2 DEF RecordsWrite, TInv, IInv, TxnsOK
  <2> HIDE DEF wr
  <2> QED BY <1>1, <1>3, <2>1, AppendRecord DEF Last
<1>5. GrantsOwn(t)
  <2>1. txn_state[t] # "NONE" /\ \E q \in Rid : HeapInsert(t, v, q)
    BY <1>1 DEF InsertTuple, Ready
  <2> QED BY <1>1, <2>1, InsertGrant
<1>6. SetsTodo(t, c) /\ SetsScan(t, NoScan)
  BY <1>1, <1>3, <1>4, OneEntry, ScanEnded
<1>7. EntriesFor(ContentOf(Slots[r]), r) = {} /\ {Entry(v, r)} = EntriesFor(ContentOf(Left(wr, r)), r)
  BY <1>3, SlotContents DEF EntriesFor
<1>8. Entry(v, r)[2] = r /\ c.remove = {} /\ c.insert = {Entry(v, r)}
  BY EntryFacts
<1> HIDE DEF wr, c
<1> QED BY <1>1, <1>2, <1>5, <1>6, <1>7, <1>8, WriteWithCall DEF wr

\* The child's tuple is what the heap still holds.
LEMMA ChildIsCurrent ==
  ASSUME TInv, NEW t \in Txn, NEW r \in Rid, NEW v \in Value, Slots[r] = Live(v)
  PROVE  ChildTuple(t, r) = v
<1>1. Content(r) = v
  BY SlotContents, ContentIsSlot
<1>2. SeenIsCurrent(t) /\ (seen[t][r] \in Value => seen[t][r] # Unknown)
  BY SizeAssumption DEF TInv, ExecutorInv
<1> QED BY <1>1, <1>2 DEF SeenIsCurrent, ChildTuple

LEMMA DeleteExecutorKeeps ==
  ASSUME TInv, NEW t \in Txn, NEW r \in Rid, DeleteExecutor(t, r) PROVE TInv'
<1>1. /\ IInv /\ MarkDelete(t, r) /\ EndScan(t) /\ UNCHANGED index /\ todo[t] = NoCall
      /\ IF txn_state'[t] = "GROWING" THEN DeleteEntry(t, ChildTuple(t, r), r) ELSE UNCHANGED todo
  BY DEF DeleteExecutor, Free, TInv
<1>2. GrantsOwn(t) /\ SetsScan(t, NoScan)
  BY <1>1, MarkGrant, ScanEnded DEF MarkDelete
<1>3. CASE Aborts(t)
  <2>1. txn_state'[t] = "ABORTED"
    BY <1>1, <1>3, TxnTypes DEF Aborts, SetAborted
  <2> QED BY <1>1, <1>2, <1>3, <2>1, AbortsTable
<1>4. CASE RecordsWrite(t, Record("DELETE", r, r, Slot(r).tuple, NoTuple), r)
  <2> DEFINE v == Slot(r).tuple
             wr == Record("DELETE", r, r, v, NoTuple)
             c == [remove |-> {Entry(v, r)}, insert |-> {}]
  <2>1. /\ wr \in WriteRecord /\ Slots[r] = Found(wr, r) /\ txn_state'[t] = "GROWING"
    BY <1>4 DEF RecordsWrite, AddsRecord
  <2>2. v \in Value /\ Slots[r] = Live(v) /\ Left(wr, r) = MarkedSlot(v)
    BY <2>1 DEF Record, WriteRecord, Found, Left
  <2>3. SetsTodo(t, c)
    BY <1>1, <2>1, <2>2, ChildIsCurrent, OneEntry
  <2>4. EntriesFor(ContentOf(Slots[r]), r) = {Entry(v, r)} /\ EntriesFor(ContentOf(Left(wr, r)), r) = {}
    BY <2>2, SlotContents DEF EntriesFor
  <2>5. Entry(v, r)[2] = r /\ c.remove = {Entry(v, r)} /\ c.insert = {}
    BY <2>2, EntryFacts
  <2> HIDE DEF wr, c, v
  <2> QED BY <1>1, <1>2, <1>4, <2>3, <2>4, <2>5, WriteWithCall DEF wr, v
<1> QED BY <1>1, <1>3, <1>4, MarkDeleteEffect

LEMMA UpdateExecutorKeeps ==
  ASSUME TInv, NEW t \in Txn, NEW r \in Rid, NEW v \in Value, UpdateExecutor(t, r, v) PROVE TInv'
<1>1. /\ IInv /\ UpdateTuple(t, r, v) /\ EndScan(t) /\ UNCHANGED index /\ todo[t] = NoCall
      /\ IF txn_state'[t] = "GROWING" /\ op'[t] = Idle
         THEN UpdateEntry(t, ChildTuple(t, r), r, v, r) ELSE UNCHANGED todo
  BY DEF UpdateExecutor, Free, TInv
<1>2. GrantsOwn(t) /\ SetsScan(t, NoScan)
  <2>1. GrantsOwn(t)
    BY <1>1, ExclusiveGrant DEF UpdateTuple
  <2> QED BY <1>1, <2>1, ScanEnded
<1>3. CASE Aborts(t)
  <2>1. txn_state'[t] = "ABORTED"
    BY <1>1, <1>3, TxnTypes DEF Aborts, SetAborted
  <2> QED BY <1>1, <1>2, <1>3, <2>1, AbortsTable
<1>4. CASE RecordsWrite(t, Record("UPDATE", r, r, Slot(r).tuple, v), r)
  <2> DEFINE old == Slot(r).tuple
             wr == Record("UPDATE", r, r, old, v)
             c == [remove |-> {Entry(old, r)}, insert |-> {Entry(v, r)}]
  <2>1. /\ wr \in WriteRecord /\ Slots[r] = Found(wr, r) /\ txn_state'[t] = "GROWING" /\ op'[t] = Idle
    BY <1>1, <1>4, TxnTypes, OpFacts DEF RecordsWrite, AddsRecord
  <2>2. old \in Value /\ Slots[r] = Live(old) /\ Left(wr, r) = Live(v)
    BY <2>1 DEF Record, WriteRecord, Found, Left
  <2>3. SetsTodo(t, c)
    BY <1>1, <2>1, <2>2, ChildIsCurrent, OneEntry
  <2>4. /\ EntriesFor(ContentOf(Slots[r]), r) = {Entry(old, r)}
        /\ EntriesFor(ContentOf(Left(wr, r)), r) = {Entry(v, r)}
    BY <2>2, SlotContents DEF EntriesFor
  <2>5. Entry(old, r)[2] = r /\ Entry(v, r)[2] = r /\ c.remove = {Entry(old, r)} /\ c.insert = {Entry(v, r)}
    BY <2>2, EntryFacts
  <2> HIDE DEF wr, c, old
  <2> QED BY <1>1, <1>2, <1>4, <2>3, <2>4, <2>5, WriteWithCall DEF wr, old
<1>5. CASE StartsMove(t, r, v)
  <2>1. Effect(t) /\ Ready(t) /\ UNCHANGED pageVars /\ UNCHANGED <<txn_state, seen>> /\ TxnsOK
    BY <1>1, <1>5, StartsMoveEffect DEF StartsMove, IInv
  <2>2. op'[t].kind = "move" /\ op[t].kind = "idle"
    BY <1>5, <2>1, OpFacts DEF StartsMove, TxnsOK, Ready
  <2>3. UNCHANGED todo
    BY <1>1, <2>2, OpFacts
  <2>4. SeenIsCurrent(t)'
    BY <2>1, PagesKept, SeenKept DEF GoesOn, Ready
  <2>5. ScanInv(t)'
    BY <1>2, NoScanInv DEF SetsScan
  <2> QED BY <1>1, <1>2, <2>1, <2>2, <2>3, <2>4, <2>5, PagesKept, PlainTableStep
<1> QED BY <1>1, <1>3, <1>4, <1>5, UpdateTupleEffect

\* The tuple of one row moves to another, with the call that follows.
LEMMA TwoRowCall ==
  ASSUME NEW t \in Txn, NEW a \in Rid, NEW b \in Rid, a # b, NEW old \in Value, NEW new \in Value,
         Indexed(t, a) = old, Indexed(t, b) = NoTuple,
         Indexed(t, a)' = NoTuple, Indexed(t, b)' = new,
         \A q \in Rid \ {a, b} : Indexed(t, q)' = Indexed(t, q),
         NEW c, c = [remove |-> {Entry(old, a)}, insert |-> {Entry(new, b)}]
  PROVE  CallFits(t, c) /\ \A q \in Rid : CallsFor(c, q) => q \in {a, b}
<1>1. /\ c.remove = {Entry(old, a)} /\ c.insert = {Entry(new, b)}
      /\ Entry(old, a)[2] = a /\ Entry(new, b)[2] = b /\ old # NoTuple /\ new # NoTuple
  BY EntryFacts, SizeAssumption
<1>2. \A q, v : \A e \in EntriesFor(v, q) : e[2] = q
  BY DEF EntriesFor, Entry
<1>3. ASSUME NEW q \in Rid
      PROVE  EntriesFor(Indexed(t, q)', q)
               = EntriesAt((EntriesFor(Indexed(t, q), q) \ c.remove) \cup c.insert, q)
  <2>1. CASE q = a
    <3>1. EntriesFor(Indexed(t, q), q) = {Entry(old, a)} /\ EntriesFor(Indexed(t, q)', q) = {}
      BY <1>1, <2>1 DEF EntriesFor
    <3> QED BY <1>1, <2>1, <3>1 DEF EntriesAt
  <2>2. CASE q = b
    <3>1. EntriesFor(Indexed(t, q), q) = {} /\ EntriesFor(Indexed(t, q)', q) = {Entry(new, b)}
      BY <1>1, <2>2 DEF EntriesFor
    <3> QED BY <1>1, <2>2, <3>1 DEF EntriesAt
  <2>3. CASE q \notin {a, b}
    <3> DEFINE E == EntriesFor(Indexed(t, q), q)
    <3>1. E = EntriesFor(Indexed(t, q)', q) /\ \A e \in E : e[2] = q
      BY <1>2, <2>3
    <3> HIDE DEF E
    <3>2. E = EntriesAt((E \ c.remove) \cup c.insert, q)
      BY <1>1, <2>3, <3>1 DEF EntriesAt
    <3> QED BY <3>1, <3>2 DEF E
  <2> QED BY <2>1, <2>2, <2>3
<1>4. CallFits(t, c)
  BY <1>3 DEF CallFits
<1> QED BY <1>1, <1>4 DEF CallsFor

LEMMA MoveFits ==
  ASSUME TInv, NEW t \in Txn, op[t].kind \in {"move", "moved"}
  PROVE  todo[t] = NoCall /\ scan[t] = NoScan
<1>1. op[t] # Idle
  BY OpFacts
<1> QED BY <1>1 DEF TInv, ExecutorInv, ExecutorFits, Ready

LEMMA MoveDeleteKeeps ==
  ASSUME TInv, NEW t \in Txn, MoveDelete(t), UNCHANGED <<index, todo, scan>> PROVE TInv'
<1>1. IInv /\ op[t].kind = "move" /\ op[t] \in OpState /\ TxnsOK
  BY TxnTypes DEF TInv, MoveDelete, IInv
<1>2. todo[t] = NoCall /\ scan[t] = NoScan /\ SetsScan(t, NoScan) /\ SetsTodo(t, NoCall)
  BY <1>1, MoveFits, ScanKept, TodoKept
<1>3. GrantsOwn(t)
  BY <1>1, MarkGrant, OpFacts DEF MoveDelete
<1>4. CASE Aborts(t)
  BY <1>2, <1>3, <1>4, AbortsTable
<1>5. CASE HalfMoves(t)
  <2> DEFINE o == [op[t] EXCEPT !.kind = "moved"]
  <2>1. PICK r \in Rid, old \in Value : r = op[t].rid /\ old = op[t].old
    BY <1>1, OpFacts
  <2> DEFINE wr == Deletion(r, old)
  <2>2. AddsRecord(t, wr, r) /\ op' = [op EXCEPT ![t] = o] /\ Effect(t)
    BY <1>1, <1>5, <2>1, HalfMovesEffect DEF HalfMoves
  <2>3. o.kind = "moved" /\ o.rid = r /\ o.old = old
    BY <1>1, <2>1, OpFacts
  <2>4. Found(wr, r) = Live(old) /\ Left(wr, r) = MarkedSlot(old) /\ Slots[r] = Found(wr, r)
    BY <2>2 DEF Deletion, Record, Found, Left, AddsRecord
  <2> HIDE DEF wr, o
  <2>5. op'[t] = o
    BY <1>1, <2>2 DEF TxnsOK
  <2>6. /\ SeenIsCurrent(t)' /\ exclusive_lock_table'[r] = t
        /\ Slots'[r] = Left(wr, r) /\ \A q \in Rid : q # r => Slots'[q] = Slots[q]
    BY <2>2, AddsSeen
  <2>7. \A q \in Rid : /\ HalfMoved(t, q)' <=> q = r
                       /\ ~HalfUndone(t, q)' /\ ~HalfMoved(t, q) /\ ~HalfUndone(t, q)
    BY <1>1, <2>3, <2>5 DEF HalfMoved, HalfUndone
  <2>8. \A q \in Rid : Indexed(t, q)' = Indexed(t, q)
    <3>1. Content(r) = old
      BY <2>4, SlotContents, ContentIsSlot
    <3>2. \A q \in Rid : q # r => Content(q)' = Content(q)
      BY <2>6, ContentIsSlot, ContentIsSlotNext
    <3> QED BY <2>3, <2>5, <2>7, <3>1, <3>2 DEF Indexed
  <2>9. \A q \in Rid : Involved(t, q)' => exclusive_lock_table'[q] = t
    BY <1>2, <2>6, <2>7, NoCallFacts DEF Involved, SetsTodo
  <2>10. ExecutorFits(t)' /\ ScanInv(t)'
    BY <1>2, <2>3, <2>5, NoScanInv DEF ExecutorFits, SetsTodo, SetsScan
  <2>11. QuietRows(t)
    BY <1>2, <2>8 DEF QuietRows
  <2> QED BY <1>2, <1>3, <2>2, <2>6, <2>9, <2>10, <2>11, QuietTableStep
<1> QED BY <1>1, <1>4, <1>5, MoveDeleteEffect

LEMMA MoveInsertKeeps ==
  ASSUME TInv, NEW t \in Txn, MoveInsert(t), UNCHANGED <<index, scan>>,
         LET wr == Last(write_set'[t]) IN UpdateEntry(t, wr.tuple1, wr.rid1, wr.tuple2, wr.rid2)
  PROVE  TInv'
<1>1. /\ IInv /\ op[t].kind = "moved" /\ op[t] \in OpState /\ TxnsOK /\ TxnInv(t) /\ Effect(t)
      /\ write_set[t] \in Seq(WriteRecord) /\ op' = [op EXCEPT ![t] = Idle] /\ UNCHANGED txn_state
      /\ txn_state[t] = "GROWING"
  BY TxnTypes, MoveInsertEffect DEF TInv, MoveInsert, IInv, SetOp, TxnInv, OpFitsState
<1>2. PICK a \in Rid, old \in Value, new \in Value : a = op[t].rid /\ old = op[t].old /\ new = op[t].new
  BY <1>1, OpFacts
<1>3. PICK b \in Rid : /\ HeapInsert(t, new, b) /\ Overwrote(t, b)
                       /\ AddIntoWriteSet(t, Record("UPDATE", a, b, old, new))
  BY <1>2 DEF MoveInsert
<1>4. /\ Slots[b] = FreeSlot /\ Slots' = [Slots EXCEPT ![b] = Live(new)]
      /\ LM!LockExclusive(t, b, TRUE)
  BY <1>1, <1>3, HeapInsertEffect DEF IInv
<1>5. GrantsOwn(t) /\ exclusive_lock_table'[b] = t
  BY <1>1, <1>3, <1>4, InsertGrant, InsertLock DEF IInv
<1>6. Slots'[b] = Live(new) /\ \A q \in Rid : q # b => Slots'[q] = Slots[q]
  BY <1>1, <1>4, SlotsAreFunction DEF IInv
<1>7. Slots[a] = MarkedSlot(old) /\ a # b
  <2> DEFINE d == Deletion(a, old)
  <2>1. Chained(Append(write_set[t], d), Slots)
    BY <1>1, <1>2 DEF TxnInv, Work
  <2>2. d \in WriteRecord /\ Touches(d, a) /\ Left(d, a) = MarkedSlot(old)
    BY <1>2 DEF Deletion, Record, WriteRecord, Touches, Left
  <2> HIDE DEF d
  <2>3. Slots[a] = MarkedSlot(old)
    BY <1>1, <2>1, <2>2, LastLeft
  <2> QED BY <1>4, <2>3 DEF MarkedSlot, FreeSlot
<1>8. todo[t] = NoCall /\ scan[t] = NoScan /\ SetsScan(t, NoScan) /\ op'[t] = Idle /\ op'[t].kind = "idle"
  BY <1>1, MoveFits, ScanKept, OpFacts DEF TxnsOK
<1> DEFINE wr == Record("UPDATE", a, b, old, new)
           c == [remove |-> {Entry(old, a)}, insert |-> {Entry(new, b)}]
<1>9. Last(write_set'[t]) = wr
  <2>1. write_set'[t] = Append(write_set[t], wr)
    BY <1>1, <1>3 DEF AddIntoWriteSet, TxnsOK
  <2>2. wr \in WriteRecord
    BY <1>7 DEF Record, WriteRecord
  <2> HIDE DEF wr
  <2> QED BY <1>1, <2>1, <2>2, AppendRecord DEF Last
<1>10. UpdateEntry(t, old, a, new, b)
  <2>1. wr.tuple1 = old /\ wr.rid1 = a /\ wr.tuple2 = new /\ wr.rid2 = b
    BY DEF Record
  <2> HIDE DEF wr
  <2> QED BY <1>9, <2>1
<1>11. SetsTodo(t, c)
  BY <1>10, OneEntry
<1> HIDE DEF wr
<1>12. CallFits(t, c) /\ \A q \in Rid : CallsFor(c, q) => q \in {a, b}
  <2>1. \A q \in Rid : HalfMoved(t, q) <=> q = a
    BY <1>1, <1>2 DEF HalfMoved
  <2>2. \A q \in Rid : ~HalfUndone(t, q)
    BY <1>1 DEF HalfUndone
  <2>3. \A q \in Rid : Indexed(t, q)' = ContentOf(Slots'[q])
    BY <1>8, WholeRowsNext, ContentIsSlotNext
  <2>4. Indexed(t, a) = old /\ \A q \in Rid : q # a => Indexed(t, q) = ContentOf(Slots[q])
    BY <1>2, <2>1, <2>2, ContentIsSlot DEF Indexed
  <2>5. Indexed(t, b) = NoTuple /\ Indexed(t, a)' = NoTuple /\ Indexed(t, b)' = new
    BY <1>4, <1>6, <1>7, <2>3, <2>4, SlotContents
  <2>6. \A q \in Rid \ {a, b} : Indexed(t, q)' = Indexed(t, q)
    BY <1>6, <2>3, <2>4
  <2> QED BY <1>7, <2>4, <2>5, <2>6, TwoRowCall
<1> HIDE DEF c
<1>13. exclusive_lock_table'[a] = t
  <2>1. exclusive_lock_table[a] = t /\ GoesOn(t) /\ LockStep
    BY <1>1, <1>2 DEF TxnInv, OwnsWrites, GoesOn, Effect, StepBy
  <2> QED BY <1>1, <2>1, LocksGoOn
<1>14. SeenIsCurrent(t)'
  <2>1. seen'[t][b] = Unknown /\ \A q \in Rid : q # b => seen'[t][q] = seen[t][q]
    BY <1>1, <1>3, SeenSet DEF Overwrote
  <2> QED BY <1>1, <1>6, <2>1, SeenKept DEF GoesOn
<1> QED BY <1>1, <1>5, <1>8, <1>11, <1>12, <1>13, <1>14, CallTableStep

LEMMA MoveExecutorKeeps ==
  ASSUME TInv, NEW t \in Txn, MoveExecutor(t) PROVE TInv'
BY MoveDeleteKeeps, MoveInsertKeeps DEF MoveExecutor

-----------------------------------------------------------------------------
(***************************************************************************)
(* The actions: reads and scans.                                           *)
(***************************************************************************)
LEMMA ContentTypes ==
  ASSUME IInv, NEW r \in Rid
  PROVE  Content(r) \in Value \cup {NoTuple} /\ Content(r) # Unknown
<1>1. Slots[r] \in SlotState
  BY SlotTypes DEF IInv
<1> QED BY <1>1, ContentIsSlot, SlotFacts, SizeAssumption DEF ContentOf

LEMMA ReadsTable ==
  ASSUME TInv, NEW t \in Txn, NEW r \in Rid, Reads(t, r), IsDeleted(r) => exclusive_lock_table[r] = t
  PROVE  /\ Effect(t) /\ SeenIsCurrent(t)' /\ (\A q \in Rid : Content(q)' = Content(q))
         /\ UNCHANGED txn_state /\ UNCHANGED op /\ Ready(t) /\ Ready(t)'
         /\ seen'[t][r] = Content(r) /\ Content(r) # Unknown
         /\ \A q \in Rid : seen[t][q] # Unknown => seen'[t][q] = seen[t][q]
<1>1. /\ IInv /\ Effect(t) /\ SeenIsCurrent(t) /\ TxnsOK /\ Ready(t) /\ LockStep /\ SlotExists(r)
      /\ Saw(t, r, Content(r)) /\ UNCHANGED <<txn_state, pageVars, write_set, op>>
  BY ReadsEffect DEF TInv, ExecutorInv, Reads, IInv
<1>2. Content(r) \in Value \cup {NoTuple} /\ Content(r) # Unknown
  BY <1>1, ContentTypes
<1>3. seen'[t][r] = Content(r) /\ \A q \in Rid : q # r => seen'[t][q] = seen[t][q]
  BY <1>1, <1>2, SeenSet
<1>4. \A q \in Rid : Content(q)' = Content(q)
  BY <1>1, PagesKept
<1>5. \A q \in Rid : exclusive_lock_table[q] = t => exclusive_lock_table'[q] = t
  BY <1>1, LocksGoOn DEF GoesOn, Ready
<1>6. Content(r) = NoTuple => exclusive_lock_table[r] = t
  <2>1. Slot(r) \in SlotState
    BY <1>1, SlotTypes DEF IInv
  <2> QED BY <1>1, <2>1 DEF Content, IsDeleted
<1>7. SeenIsCurrent(t)'
  BY <1>1, <1>3, <1>4, <1>5, <1>6 DEF SeenIsCurrent
<1>8. \A q \in Rid : seen[t][q] # Unknown => seen'[t][q] = seen[t][q]
  BY <1>1, <1>3 DEF SeenIsCurrent
<1> QED BY <1>1, <1>2, <1>3, <1>4, <1>7, <1>8 DEF Ready

LEMMA ReadRowKeeps ==
  ASSUME TInv, NEW t \in Txn, NEW r \in Rid, ReadRow(t, r) PROVE TInv'
<1>1. /\ IInv /\ GetTuple(t, r) /\ EndScan(t) /\ UNCHANGED <<index, todo>> /\ todo[t] = NoCall
  BY DEF ReadRow, Free, TInv
<1>2. SetsScan(t, NoScan) /\ GrantsOwn(t)
  BY <1>1, ScanEnded, SharedGrant, KeptLocks DEF GetTuple
<1>3. CASE Aborts(t)
  BY <1>1, <1>2, <1>3, AbortsTable
<1>4. CASE Reads(t, r) /\ (IsDeleted(r) => exclusive_lock_table[r] = t)
  <2>1. /\ Effect(t) /\ SeenIsCurrent(t)' /\ (\A q \in Rid : Content(q)' = Content(q))
        /\ UNCHANGED op /\ Ready(t)
    BY <1>4, ReadsTable
  <2>2. op[t].kind = "idle" /\ op'[t].kind = "idle"
    BY <2>1, OpFacts DEF Ready
  <2>3. ScanInv(t)'
    BY <1>2, NoScanInv DEF SetsScan
  <2> QED BY <1>1, <1>2, <2>1, <2>2, <2>3, PlainTableStep
<1> QED BY <1>1, <1>3, <1>4, GetTupleEffect

LEMMA GiveUpKeeps ==
  ASSUME TInv, NEW t \in Txn, GiveUp(t) PROVE TInv'
<1>1. IInv /\ Fail(t) /\ EndScan(t) /\ UNCHANGED <<index, todo>> /\ todo[t] = NoCall
  BY DEF GiveUp, Free, TInv
<1>2. Aborts(t) /\ GrantsOwn(t) /\ SetsScan(t, NoScan)
  BY <1>1, FailEffect, ScanEnded, KeptLocks DEF Fail, lockVars
<1> QED BY <1>1, <1>2, AbortsTable

\* The rows with key k that others are not changing are in the index.
LEMMA RowsAreIndexed ==
  ASSUME TInv, NEW t \in Txn, Ready(t), todo[t] = NoCall, NEW k, NEW r \in RowsWith(t, k)
  PROVE  r \in Rid /\ <<k, r>> \in index /\ Content(r) # NoTuple
<1>1. r \in Rid /\ Content(r) # NoTuple /\ Key[Content(r)] = k /\ exclusive_lock_table[r] \in {NoTxn, t}
  BY DEF RowsWith, ChangedByOthers
<1>2. \A u \in Txn \ {t} : ~Involved(u, r)
  BY <1>1, SizeAssumption DEF TInv, ExecutorInv, RowsIndexed
<1>3. Agrees(t, r)
  BY <1>1, <1>2, AgreesNow
<1>4. ~Involved(t, r)
  BY OpFacts, WholeRows, NoCallFacts DEF Ready
<1>5. EntriesAt(index, r) = {Entry(Content(r), r)}
  BY <1>1, <1>3, <1>4, NotInvolved DEF EntriesFor
<1>6. Entry(Content(r), r) \in index
  BY <1>5 DEF EntriesAt
<1> QED BY <1>1, <1>6 DEF Entry

LEMMA ScanKeyKeeps ==
  ASSUME TInv, NEW t \in Txn, NEW k \in Keys, ScanKey(t, k) PROVE TInv'
<1> DEFINE rids == {r \in Rid : <<k, r>> \in index}
           s == [step |-> IF rids = {} THEN "end" ELSE "fetch", key |-> k,
                 rids |-> rids, found |-> {}, expected |-> RowsWith(t, k)]
<1>1. /\ IInv /\ Ready(t) /\ todo[t] = NoCall /\ scan' = [scan EXCEPT ![t] = s]
      /\ UNCHANGED vars /\ UNCHANGED <<index, todo>> /\ SeenIsCurrent(t)
  BY DEF ScanKey, Free, TInv, ExecutorInv
<1>2. /\ Effect(t) /\ GrantsOwn(t) /\ \A r \in Rid : Content(r)' = Content(r)
      /\ UNCHANGED <<exclusive_lock_table, txn_state, write_set, op, seen>>
  BY <1>1, StutterEffect
<1>3. RowsWith(t, k) \subseteq Rid /\ RowsWith(t, k) \subseteq rids /\ \A r \in RowsWith(t, k) : Content(r) # NoTuple
  BY <1>1, RowsAreIndexed
<1>4. s \in ScanState
  BY <1>3 DEF ScanState
<1>5. /\ s.rids = rids /\ s.found = {} /\ s.expected = RowsWith(t, k)
      /\ (IF rids = {} THEN s.step = "end" ELSE s.step = "fetch")
  OBVIOUS
<1> HIDE DEF s, rids
<1>6. SetsScan(t, s)
  BY <1>1, <1>4, ScanSet
<1>7. \A r \in RowsWith(t, k) : Content(r)' # NoTuple
  BY <1>2, <1>3
<1>8. ScanInv(t)'
  BY <1>3, <1>5, <1>6, <1>7 DEF ScanInv, SetsScan
<1>9. SeenIsCurrent(t)'
  BY <1>1, <1>2 DEF SeenIsCurrent
<1>10. op[t].kind = "idle" /\ op'[t].kind = "idle" /\ Ready(t)'
  BY <1>1, <1>2, OpFacts DEF Ready
<1> QED BY <1>1, <1>2, <1>6, <1>8, <1>9, <1>10, PlainTableStep

LEMMA Scanning ==
  ASSUME TInv, NEW t \in Txn, scan[t].step \in {"fetch", "check"}
  PROVE  todo[t] = NoCall /\ Ready(t) /\ op[t].kind = "idle"
<1>1. scan[t] # NoScan
  BY NoCallFacts
<1> QED BY <1>1, OpFacts DEF TInv, ExecutorInv, ExecutorFits, Ready

LEMMA FetchTupleKeeps ==
  ASSUME TInv, NEW t \in Txn, FetchTuple(t) PROVE TInv'
<1>1. /\ IInv /\ scan[t].step = "fetch" /\ UNCHANGED <<index, todo>> /\ ScanInv(t) /\ scan[t] \in ScanState
      /\ IF txn_state'[t] = "GROWING" THEN scan' = [scan EXCEPT ![t].step = "check"] ELSE EndScan(t)
  BY TableTypesOf DEF FetchTuple, ExecutorInv
<1>2. PICK r \in Rid : r = NextRid(t) /\ r \in scan[t].rids
  BY <1>1, NextRidFound
<1>3. GetTuple(t, r) /\ todo[t] = NoCall /\ Ready(t) /\ op[t].kind = "idle"
  BY <1>1, <1>2, Scanning DEF FetchTuple
<1>4. UNCHANGED exclusive_lock_table /\ GrantsOwn(t)
  BY <1>1, <1>3, SharedGrant, KeptLocks DEF GetTuple
<1>5. CASE Aborts(t)
  <2>1. txn_state'[t] = "ABORTED"
    BY <1>1, <1>5, TxnTypes DEF Aborts, SetAborted
  <2>2. SetsScan(t, NoScan)
    BY <1>1, <2>1, ScanEnded
  <2> QED BY <1>1, <1>3, <1>4, <1>5, <2>2, AbortsTable
<1>6. CASE Reads(t, r) /\ (IsDeleted(r) => exclusive_lock_table[r] = t)
  <2> DEFINE s == [scan[t] EXCEPT !.step = "check"]
  <2>1. /\ Effect(t) /\ SeenIsCurrent(t)' /\ (\A q \in Rid : Content(q)' = Content(q))
        /\ UNCHANGED op /\ UNCHANGED txn_state /\ Ready(t)' /\ seen'[t][r] # Unknown
        /\ \A q \in Rid : seen[t][q] # Unknown => seen'[t][q] = seen[t][q]
    BY <1>6, ReadsTable
  <2>2. /\ s \in ScanState /\ s.step = "check" /\ s.rids = scan[t].rids /\ s.found = scan[t].found
        /\ s.key = scan[t].key /\ s.expected = scan[t].expected
    BY <1>1 DEF ScanState
  <2>3. scan' = [scan EXCEPT ![t] = s]
    BY <1>1, <1>3, <2>1 DEF Ready
  <2> HIDE DEF s
  <2>4. SetsScan(t, s)
    BY <2>2, <2>3, ScanSet
  <2>5. scan'[t] = s /\ scan'[t].rids = scan[t].rids
    BY <2>2, <2>4 DEF SetsScan
  <2>6. NextRid(t)' = r
    BY <1>2, <2>5, Zenon DEF NextRid
  <2>7. scan[t].found \subseteq Rid /\ scan[t].expected \subseteq Rid
    BY TableTypesOf
  <2>8. \A q \in scan[t].found : seen'[t][q] = seen[t][q]
    BY <1>1, <2>1, <2>7 DEF ScanInv
  <2>9. \A q \in scan[t].expected : Content(q)' = Content(q)
    BY <2>1, <2>7
  <2>10. ScanInv(t)'
    BY <1>1, <1>4, <2>1, <2>2, <2>5, <2>6, <2>8, <2>9 DEF ScanInv
  <2> QED BY <1>1, <1>3, <1>4, <2>1, <2>4, <2>10, PlainTableStep
<1> QED BY <1>1, <1>3, <1>5, <1>6, GetTupleEffect

DoneRow(f, t, rids, found, step) == [f EXCEPT ![t].rids = rids, ![t].found = found, ![t].step = step]
ScanAfter(s, rids, found, step) ==
  [step |-> step, key |-> s.key, rids |-> rids, found |-> found, expected |-> s.expected]

LEMMA RowDone ==
  ASSUME NEW f \in [Txn -> ScanState], NEW t \in Txn, NEW rids, NEW found, NEW step
  PROVE  DoneRow(f, t, rids, found, step) = [f EXCEPT ![t] = ScanAfter(f[t], rids, found, step)]
<1> DEFINE g == [f EXCEPT ![t].rids = rids, ![t].found = found, ![t].step = step]
           s == ScanAfter(f[t], rids, found, step)
<1>1. f[t] \in ScanState
  OBVIOUS
<1>2. DOMAIN g = Txn /\ \A u \in Txn \ {t} : g[u] = f[u]
  OBVIOUS
<1>3. g[t] = [f[t] EXCEPT !.rids = rids, !.found = found, !.step = step]
  OBVIOUS
<1>4. g[t] = s
  BY <1>1, <1>3 DEF ScanState, ScanAfter
<1>5. [f EXCEPT ![t] = s] = [u \in Txn |-> IF u = t THEN s ELSE f[u]]
  OBVIOUS
<1> QED BY <1>2, <1>4, <1>5 DEF DoneRow

LEMMA CheckTupleKeeps ==
  ASSUME TInv, NEW t \in Txn, CheckTuple(t) PROVE TInv'
<1>1. /\ IInv /\ scan[t].step = "check" /\ UNCHANGED <<index, todo>> /\ ScanInv(t) /\ SeenIsCurrent(t)
      /\ scan[t] \in ScanState
  BY TableTypesOf DEF CheckTuple, ExecutorInv
<1>2. PICK r \in Rid : r = NextRid(t) /\ r \in scan[t].rids
  BY <1>1, NextRidFound
<1>3. todo[t] = NoCall /\ Ready(t) /\ op[t].kind = "idle"
  BY <1>1, Scanning
<1>4. CASE Fail(t) /\ EndScan(t)
  <2>1. Aborts(t) /\ GrantsOwn(t) /\ SetsScan(t, NoScan)
    BY <1>1, <1>4, FailEffect, ScanEnded, KeptLocks DEF Fail, lockVars
  <2> QED BY <1>1, <1>3, <2>1, AbortsTable
<1>5. CASE /\ seen[t][r] = NoTuple \/ Key[seen[t][r]] = scan[t].key
           /\ FetchedRow(t, scan[t].found \union {x \in {r} : seen[t][x] # NoTuple})
           /\ UNCHANGED vars
  <2> DEFINE found == scan[t].found \union {x \in {r} : seen[t][x] # NoTuple}
             step == IF scan[t].rids = {r} THEN "end" ELSE "fetch"
             rids == scan[t].rids \ {r}
             s == ScanAfter(scan[t], rids, found, step)
  <2>1. /\ Effect(t) /\ GrantsOwn(t) /\ \A q \in Rid : Content(q)' = Content(q)
        /\ UNCHANGED <<exclusive_lock_table, txn_state, write_set, op, seen>>
    BY <1>1, <1>5, StutterEffect
  <2>2. scan[t].found \subseteq Rid /\ scan[t].expected \subseteq Rid /\ scan[t].rids \subseteq Rid
    BY TableTypesOf
  <2>3. s \in ScanState
    BY <1>1, <2>2 DEF ScanState, ScanAfter
  <2>4. scan' = [scan EXCEPT ![t] = s]
    <3>1. scan \in [Txn -> ScanState]
      BY DEF TInv, TableTypes
    <3>2. scan' = DoneRow(scan, t, scan[t].rids \ {NextRid(t)}, found,
                          IF scan[t].rids = {NextRid(t)} THEN "end" ELSE "fetch")
      BY <1>5 DEF FetchedRow, DoneRow
    <3>3. scan' = DoneRow(scan, t, rids, found, step)
      BY <1>2, <3>2
    <3> HIDE DEF rids, found, step
    <3> QED BY <3>1, <3>3, RowDone
  <2>5. SetsScan(t, s)
    BY <2>3, <2>4, ScanSet
  <2>6. s.step = step /\ s.key = scan[t].key /\ s.rids = rids /\ s.found = found /\ s.expected = scan[t].expected
    BY DEF ScanAfter
  <2> HIDE DEF s
  <2>7. seen[t][r] # Unknown
    BY <1>1, <1>2 DEF ScanInv
  <2>8. ASSUME NEW q \in scan[t].expected PROVE q \in found \cup rids
    <3>1. CASE q = r
      <4>1. seen[t][r] # NoTuple
        BY <1>1, <2>7, <3>1 DEF ScanInv, SeenIsCurrent
      <4> QED BY <3>1, <4>1
    <3>2. CASE q # r
      BY <1>1, <3>2 DEF ScanInv
    <3> QED BY <3>1, <3>2
  <2>9. \A q \in scan[t].expected : Content(q)' = Content(q)
    BY <2>1, <2>2
  <2>10. \A q \in found : seen[t][q] \notin {Unknown, NoTuple} /\ Key[seen[t][q]] = scan[t].key
    BY <1>1, <1>5, <2>7 DEF ScanInv
  <2>11. step \in {"fetch", "end"} /\ (step = "fetch" => rids # {}) /\ (step = "end" => rids = {})
    BY <1>2
  <2> HIDE DEF found, rids, step
  <2>12. ScanInv(t)'
    BY <1>1, <2>1, <2>5, <2>6, <2>8, <2>9, <2>10, <2>11 DEF ScanInv, SetsScan
  <2>13. SeenIsCurrent(t)' /\ Ready(t)'
    BY <1>1, <1>3, <2>1 DEF SeenIsCurrent, Ready
  <2> QED BY <1>1, <1>3, <2>1, <2>5, <2>12, <2>13, PlainTableStep
<1> QED BY <1>2, <1>4, <1>5 DEF CheckTuple

-----------------------------------------------------------------------------
(***************************************************************************)
(* The actions: commit and abort.                                          *)
(***************************************************************************)
\* The end of Commit or Abort.
LEMMA EndsTable ==
  ASSUME TInv, NEW t \in Txn, Ends(t), GrantsOwn(t), UNCHANGED <<index, todo>>, todo[t] = NoCall,
         SetsScan(t, NoScan)
  PROVE  TInv'
<1>1. /\ IInv /\ Effect(t) /\ TxnsOK /\ UNCHANGED pageVars /\ op[t].kind \in {"idle", "commit"}
      /\ op' = [op EXCEPT ![t] = Idle] /\ \A r \in Rid : seen'[t][r] = Unknown
  BY EndsEffect DEF TInv, IInv, Ends
<1>2. \A r \in Rid : Content(r)' = Content(r)
  BY <1>1, PagesKept
<1>3. op'[t].kind = "idle"
  BY <1>1, OpFacts DEF TxnsOK
<1>4. SeenIsCurrent(t)' /\ ScanInv(t)'
  BY <1>1, NothingSeen, NoScanInv DEF SetsScan
<1> QED BY <1>1, <1>2, <1>3, <1>4, PlainTableStep

LEMMA CommitTableKeeps ==
  ASSUME TInv, NEW t \in Txn, CommitTable(t) PROVE TInv'
<1>1. /\ IInv /\ TxnsOK /\ todo[t] = NoCall /\ EndScan(t) /\ UNCHANGED <<index, todo>>
  BY DEF CommitTable, Free, TInv, IInv
<1>2. SetsScan(t, NoScan)
  BY <1>1, ScanEnded
<1>3. CASE CommitRecord(t)
  <2>1. /\ Effect(t) /\ op'[t].kind = "commit" /\ \A r \in Rid : ContentOf(Slots'[r]) = ContentOf(Slots[r])
    BY <1>1, <1>3, CommitRecordEffect
  <2>2. op[t].kind \in {"idle", "commit"} /\ ForgetReads(t) /\ UNCHANGED lockVars
    BY <1>3 DEF CommitRecord, Committing
  <2>3. GrantsOwn(t) /\ SeenIsCurrent(t)' /\ ScanInv(t)'
    BY <1>1, <1>2, <2>2, KeptLocks, SeenForgotten, NothingSeen, NoScanInv DEF lockVars, SetsScan
  <2>4. \A r \in Rid : Content(r)' = Content(r)
    BY <2>1, ContentIsSlot, ContentIsSlotNext
  <2> QED BY <1>1, <1>2, <2>1, <2>2, <2>3, <2>4, PlainTableStep
<1>4. CASE CommitEnd(t)
  <2>1. Ends(t) /\ GrantsOwn(t)
    BY <1>1, <1>4, CommitEndEffect, ReleaseGrant DEF CommitEnd
  <2> QED BY <1>1, <1>2, <2>1, EndsTable
<1> QED BY <1>3, <1>4 DEF CommitTable

\* An aborting transaction scans nothing, and what it had seen is forgotten.
LEMMA AbortingTable ==
  ASSUME TInv, NEW t \in Txn, txn_state[t] = "ABORTED", UNCHANGED scan
  PROVE  /\ SetsScan(t, NoScan) /\ scan'[t] = NoScan /\ ScanInv(t)'
         /\ UNCHANGED seen => SeenIsCurrent(t)'
<1>1. scan[t] = NoScan
  BY DEF TInv, ExecutorInv, ExecutorFits, Ready
<1>2. SetsScan(t, NoScan) /\ scan'[t] = NoScan /\ ScanInv(t)'
  BY <1>1, ScanKept, NoScanInv DEF SetsScan
<1>3. \A r \in Rid : seen[t][r] = Unknown
  BY TxnTypes DEF TInv, TxnInv, ReadsLocked, Running
<1> QED BY <1>2, <1>3, NothingSeen

\* What a record taken back does to the rows.
LEMMA UndoneRows ==
  ASSUME TInv, NEW t \in Txn, NEW wr, NEW r \in Rid, UndoesRecord(t, wr, r), UNCHANGED scan
  PROVE  /\ Effect(t) /\ GrantsOwn(t) /\ SetsScan(t, NoScan) /\ SeenIsCurrent(t)' /\ wr \in WriteRecord
         /\ op'[t] = Idle /\ txn_state'[t] # "NONE" /\ UNCHANGED exclusive_lock_table
         /\ exclusive_lock_table[r] = t /\ Slots[r] = Left(wr, r) /\ Slots'[r] = Found(wr, r)
         /\ \A q \in Rid : q # r => Slots'[q] = Slots[q]
<1>1. /\ IInv /\ Effect(t) /\ txn_state[t] = "ABORTED" /\ UNCHANGED lockVars /\ UNCHANGED <<txn_state, seen>>
      /\ op'[t] = Idle /\ wr \in WriteRecord /\ wr.rid1 = r /\ wr.rid2 = r
      /\ Slots' = [Slots EXCEPT ![r] = Found(wr, r)]
  BY UndoneRecord DEF TInv, UndoesRecord
<1>2. SetsScan(t, NoScan) /\ SeenIsCurrent(t)'
  BY <1>1, AbortingTable
<1>3. UNCHANGED exclusive_lock_table /\ GrantsOwn(t)
  BY <1>1, KeptLocks DEF lockVars
<1>4. PICK w \in Seq(WriteRecord) : Work(t) = Append(w, wr)
  BY DEF UndoesRecord
<1>5. Chained(Append(w, wr), Slots) /\ Touches(wr, r)
  BY <1>1, <1>4, TxnTypes DEF TxnInv, Touches
<1>6. Slots[r] = Left(wr, r)
  BY <1>1, <1>5, LastLeft
<1>7. Writes(Work(t), r)
  BY <1>1, <1>4, <1>5, AppendRecord DEF Writes
<1>8. exclusive_lock_table[r] = t
  BY <1>1, <1>7, NoCommonWrites
<1>9. Slots'[r] = Found(wr, r) /\ \A q \in Rid : q # r => Slots'[q] = Slots[q]
  BY <1>1, SlotsAreFunction DEF IInv
<1> QED BY <1>1, <1>2, <1>3, <1>6, <1>8, <1>9

LEMMA UndoWithCall ==
  ASSUME TInv, NEW t \in Txn, NEW wr, NEW r \in Rid, UndoesRecord(t, wr, r), op[t] = Idle,
         UNCHANGED <<index, scan>>, todo[t] = NoCall, NEW c, SetsTodo(t, c),
         \A e \in c.remove \cup c.insert : e[2] = r,
         EntriesFor(ContentOf(Left(wr, r)), r) \subseteq c.remove,
         c.insert = EntriesFor(ContentOf(Found(wr, r)), r)
  PROVE  TInv'
<1>1. /\ Effect(t) /\ GrantsOwn(t) /\ SetsScan(t, NoScan) /\ SeenIsCurrent(t)'
      /\ op'[t] = Idle /\ txn_state'[t] # "NONE" /\ UNCHANGED exclusive_lock_table
      /\ exclusive_lock_table[r] = t /\ Slots[r] = Left(wr, r) /\ Slots'[r] = Found(wr, r)
      /\ \A q \in Rid : q # r => Slots'[q] = Slots[q]
  BY UndoneRows
<1>2. CallFits(t, c) /\ \A q \in Rid : CallsFor(c, q) => q = r
  BY <1>1, OneRowCall
<1> QED BY <1>1, <1>2, CallTableStep

\* The key of the row is the same before and after: its entry stays.
LEMMA UndoSameEntry ==
  ASSUME TInv, NEW t \in Txn, NEW wr, NEW r \in Rid, UndoesRecord(t, wr, r), op[t] = Idle,
         UNCHANGED <<index, scan, todo>>, todo[t] = NoCall,
         EntriesFor(ContentOf(Left(wr, r)), r) = EntriesFor(ContentOf(Found(wr, r)), r)
  PROVE  TInv'
<1>1. /\ Effect(t) /\ GrantsOwn(t) /\ SetsScan(t, NoScan) /\ SeenIsCurrent(t)'
      /\ op'[t] = Idle /\ txn_state'[t] # "NONE"
      /\ Slots[r] = Left(wr, r) /\ Slots'[r] = Found(wr, r)
      /\ \A q \in Rid : q # r => Slots'[q] = Slots[q]
  BY UndoneRows
<1>2. SetsTodo(t, NoCall)
  BY TodoKept
<1>3. \A q \in Rid : Indexed(t, q) = ContentOf(Slots[q]) /\ Indexed(t, q)' = ContentOf(Slots'[q])
  BY <1>1, OpFacts, WholeRows, WholeRowsNext, ContentIsSlot, ContentIsSlotNext
<1>4. \A q \in Rid : EntriesFor(ContentOf(Slots'[q]), q) = EntriesFor(ContentOf(Slots[q]), q)
  BY <1>1
<1>5. \A q, v : EntriesFor(v, q) = EntriesAt((EntriesFor(v, q) \ {}) \cup {}, q)
  BY DEF EntriesFor, Entry, EntriesAt
<1>6. CallFits(t, NoCall)
  BY <1>3, <1>4, <1>5, NoCallFacts DEF CallFits
<1> QED BY <1>1, <1>2, <1>6, NoCallFacts, CallTableStep

LEMMA AbortRecordTable ==
  ASSUME TInv, NEW t \in Txn, AbortRecord(t), ~Moved(LastRecord(t)), todo[t] = NoCall,
         UNCHANGED <<index, scan>>, RollbackEntry(t, LastRecord(t))
  PROVE  TInv'
<1>1. PICK wr \in WriteRecord : wr = LastRecord(t)
  BY LastRecordFacts DEF TInv, IInv, AbortRecord
<1>2. PICK r \in Rid : r = wr.rid1
  BY DEF WriteRecord
<1>3. UndoesRecord(t, wr, r) /\ op[t] = Idle /\ RollbackEntry(t, wr) /\ ~Moved(wr)
  BY <1>1, <1>2, AbortRecordUndoes DEF TInv
<1>4. wr.rid2 = r
  BY <1>3 DEF UndoesRecord
<1>5. PICK v \in Value : v = wr.tuple1
  BY DEF WriteRecord
<1>6. Entry(v, r)[2] = r
  BY EntryFacts
<1>7. CASE wr.wtype = "DELETE"
  <2> DEFINE c == [remove |-> {}, insert |-> {Entry(v, r)}]
  <2>1. InsertEntry(t, v, r)
    BY <1>2, <1>3, <1>5, <1>7 DEF RollbackEntry
  <2>2. SetsTodo(t, c) /\ c.remove = {} /\ c.insert = {Entry(v, r)}
    BY <2>1, OneEntry
  <2>3. Left(wr, r) = MarkedSlot(v) /\ Found(wr, r) = Live(v)
    BY <1>2, <1>4, <1>5, <1>7 DEF Left, Found
  <2>4. EntriesFor(ContentOf(Left(wr, r)), r) = {} /\ EntriesFor(ContentOf(Found(wr, r)), r) = {Entry(v, r)}
    BY <2>3, SlotContents DEF EntriesFor
  <2> HIDE DEF c
  <2> QED BY <1>3, <1>6, <2>2, <2>4, UndoWithCall
<1>8. CASE wr.wtype = "INSERT"
  <2> DEFINE c == [remove |-> {Entry(v, r)}, insert |-> {}]
  <2>1. DeleteEntry(t, v, r)
    BY <1>2, <1>3, <1>5, <1>8 DEF RollbackEntry
  <2>2. SetsTodo(t, c) /\ c.remove = {Entry(v, r)} /\ c.insert = {}
    BY <2>1, OneEntry
  <2>3. Left(wr, r) = Live(v) /\ Found(wr, r) = FreeSlot
    BY <1>5, <1>8 DEF Left, Found
  <2>4. EntriesFor(ContentOf(Left(wr, r)), r) = {Entry(v, r)} /\ EntriesFor(ContentOf(Found(wr, r)), r) = {}
    BY <2>3, SlotContents DEF EntriesFor
  <2> HIDE DEF c
  <2> QED BY <1>3, <1>6, <2>2, <2>4, UndoWithCall
<1>9. CASE wr.wtype = "UPDATE"
  <2>1. PICK w \in Value : w = wr.tuple2
    BY <1>9 DEF WriteRecord
  <2>2. Left(wr, r) = Live(w) /\ Found(wr, r) = Live(v)
    BY <1>2, <1>4, <1>3, <1>5, <1>9, <2>1 DEF Left, Found
  <2>3. /\ EntriesFor(ContentOf(Left(wr, r)), r) = {Entry(w, r)}
        /\ EntriesFor(ContentOf(Found(wr, r)), r) = {Entry(v, r)}
    BY <2>2, SlotContents DEF EntriesFor
  <2>4. CASE UpdateEntry(t, w, r, v, r)
    <3> DEFINE c == [remove |-> {Entry(w, r)}, insert |-> {Entry(v, r)}]
    <3>1. SetsTodo(t, c) /\ c.remove = {Entry(w, r)} /\ c.insert = {Entry(v, r)} /\ Entry(w, r)[2] = r
      BY <2>4, OneEntry, EntryFacts
    <3> HIDE DEF c
    <3> QED BY <1>3, <1>6, <2>3, <3>1, UndoWithCall
  <2>5. CASE Key[v] = Key[w] /\ UNCHANGED todo
    <3>1. Entry(v, r) = Entry(w, r)
      BY <2>5 DEF Entry
    <3> QED BY <1>3, <2>3, <2>5, <3>1, UndoSameEntry
  <2> QED BY <1>2, <1>3, <1>4, <1>5, <1>9, <2>1, <2>4, <2>5 DEF RollbackEntry
<1> QED BY <1>3, <1>7, <1>8, <1>9 DEF RollbackEntry

\* The first half of the rollback of a moved update: the new place is freed, the
\* index keeps its entry.
LEMMA AbortMovedHalfTable ==
  ASSUME TInv, NEW t \in Txn, AbortRecord(t), Moved(LastRecord(t)), todo[t] = NoCall,
         UNCHANGED <<index, scan, todo>>
  PROVE  TInv'
<1>1. PICK wr \in WriteRecord : wr = LastRecord(t)
  BY LastRecordFacts DEF TInv, IInv, AbortRecord
<1>2. PICK a \in Rid, r \in Rid, v \in Value : a = wr.rid1 /\ r = wr.rid2 /\ v = wr.tuple2
  BY <1>1 DEF WriteRecord, Moved
<1>3. /\ IInv /\ TxnsOK /\ Aborting(t) /\ ApplyDelete(t, r) /\ op' = [op EXCEPT ![t] = [kind |-> "abortMove"]]
      /\ UNCHANGED write_set /\ UNCHANGED lockVars /\ UNCHANGED <<txn_state, seen>> /\ write_set[t] # <<>>
  BY <1>1, <1>2 DEF TInv, IInv, AbortRecord, Moved, SetOp
<1>4. Effect(t)
  BY <1>3, AbortRecordEffect
<1>5. op[t].kind = "idle" /\ op'[t].kind = "abortMove" /\ txn_state[t] = "ABORTED"
  BY <1>3, OpFacts DEF TxnsOK, Aborting
<1>6. UNCHANGED exclusive_lock_table /\ exclusive_lock_table[r] = t /\ Slots' = [Slots EXCEPT ![r] = FreeSlot]
  BY <1>3, ApplyDeleteEffect DEF lockVars
<1>7. Slots'[r] = FreeSlot /\ \A q \in Rid : q # r => Slots'[q] = Slots[q]
  BY <1>3, <1>6, SlotsAreFunction DEF IInv
<1>8. Slots[r] = Live(v)
  <2>1. PICK w \in Seq(WriteRecord) : write_set[t] = Append(w, wr)
    BY <1>1, <1>3, LastRecordFacts
  <2>2. Chained(Append(w, wr), Slots)
    BY <1>3, <1>5, <2>1, TxnTypes DEF TxnInv, Work
  <2>3. Touches(wr, r) /\ Left(wr, r) = Live(v)
    BY <1>1, <1>2 DEF Touches, Left, Moved
  <2> QED BY <2>2, <2>3, LastLeft
<1>9. Content(r) = v /\ Content(r)' = NoTuple /\ \A q \in Rid : q # r => Content(q)' = Content(q)
  BY <1>7, <1>8, SlotContents, ContentIsSlot, ContentIsSlotNext
<1>10. LastRecord(t)' = wr
  BY <1>1, <1>3 DEF LastRecord
<1>11. \A q \in Rid : /\ ~HalfMoved(t, q) /\ ~HalfUndone(t, q) /\ ~HalfMoved(t, q)'
                      /\ HalfUndone(t, q)' <=> q = r
  BY <1>2, <1>5, <1>10 DEF HalfMoved, HalfUndone
<1>12. \A q \in Rid : Indexed(t, q)' = Indexed(t, q)
  BY <1>2, <1>9, <1>10, <1>11 DEF Indexed
<1>13. SetsTodo(t, NoCall) /\ todo'[t] = NoCall /\ QuietRows(t)
  BY <1>12, TodoKept DEF QuietRows, SetsTodo
<1>14. SetsScan(t, NoScan) /\ scan'[t] = NoScan /\ ScanInv(t)' /\ SeenIsCurrent(t)' /\ GrantsOwn(t)
  BY <1>3, <1>5, <1>6, AbortingTable, KeptLocks
<1>15. \A q \in Rid : Involved(t, q)' => exclusive_lock_table'[q] = t
  BY <1>6, <1>11, <1>13, NoCallFacts DEF Involved
<1>16. ExecutorFits(t)'
  <2>1. LastRecord(t)'.rid2 = r
    BY <1>2, <1>10
  <2>2. Content(LastRecord(t).rid2)' = NoTuple
    BY <1>9, <2>1 DEF Content, SlotExists, IsDeleted, Slot
  <2> QED BY <1>13, <1>14, <2>2 DEF ExecutorFits
<1> QED BY <1>4, <1>13, <1>14, <1>15, <1>16, QuietTableStep

\* The second half: the old place is back, and the call moves the entry.
LEMMA AbortMovedTable ==
  ASSUME TInv, NEW t \in Txn, AbortMoved(t), todo[t] = NoCall,
         UNCHANGED <<index, scan>>, RollbackEntry(t, LastRecord(t))
  PROVE  TInv'
<1>1. PICK wr \in WriteRecord : wr = LastRecord(t)
  BY AbortMovedUndoes DEF TInv
<1>2. op[t].kind = "abortMove" /\ Moved(wr) /\ IInv /\ write_set[t] # <<>>
  BY <1>1, TxnTypes DEF AbortMoved, TInv, TxnInv, OpFitsState
<1>3. PICK b \in Rid, a \in Rid, new \in Value, old \in Value :
        b = wr.rid1 /\ a = wr.rid2 /\ new = wr.tuple1 /\ old = wr.tuple2 /\ a # b
  BY <1>2 DEF WriteRecord, Moved
<1> DEFINE d == Deletion(b, new)
<1>4. UndoesRecord(t, d, b)
  BY <1>1, <1>2, <1>3, AbortMovedUndoes
<1>5. Left(d, b) = MarkedSlot(new) /\ Found(d, b) = Live(new)
  BY DEF Deletion, Record, Left, Found
<1> HIDE DEF d
<1>6. /\ Effect(t) /\ GrantsOwn(t) /\ SetsScan(t, NoScan) /\ SeenIsCurrent(t)'
      /\ op'[t] = Idle /\ txn_state'[t] # "NONE" /\ UNCHANGED exclusive_lock_table
      /\ exclusive_lock_table[b] = t /\ Slots[b] = Left(d, b) /\ Slots'[b] = Found(d, b)
      /\ \A q \in Rid : q # b => Slots'[q] = Slots[q]
  BY <1>4, UndoneRows
<1>7. Content(b) = NoTuple /\ Content(b)' = new /\ \A q \in Rid : q # b => Content(q)' = Content(q)
  BY <1>5, <1>6, SlotContents, ContentIsSlot, ContentIsSlotNext
<1>8. exclusive_lock_table[a] = t
  BY <1>1, <1>2, <1>3, LastRecordFacts, TxnTypes DEF IInv, TxnInv, OwnsWrites, Touches
<1>9. Content(a) = NoTuple
  BY <1>1, <1>2, <1>3 DEF TInv, ExecutorInv, ExecutorFits
<1>10. UpdateEntry(t, old, a, new, b)
  BY <1>1, <1>2, <1>3 DEF RollbackEntry, Moved
<1> DEFINE c == [remove |-> {Entry(old, a)}, insert |-> {Entry(new, b)}]
<1>11. SetsTodo(t, c)
  BY <1>10, OneEntry
<1>12. CallFits(t, c) /\ \A q \in Rid : CallsFor(c, q) => q \in {a, b}
  <2>1. \A q \in Rid : ~HalfMoved(t, q) /\ (HalfUndone(t, q) <=> q = a)
    BY <1>1, <1>2, <1>3 DEF HalfMoved, HalfUndone
  <2>2. Indexed(t, a) = old /\ \A q \in Rid : q # a => Indexed(t, q) = Content(q)
    BY <1>1, <1>3, <2>1 DEF Indexed
  <2>3. \A q \in Rid : Indexed(t, q)' = Content(q)'
    BY <1>6, OpFacts, WholeRowsNext
  <2>4. /\ Indexed(t, b) = NoTuple /\ Indexed(t, a)' = NoTuple /\ Indexed(t, b)' = new
        /\ \A q \in Rid \ {a, b} : Indexed(t, q)' = Indexed(t, q)
    BY <1>3, <1>7, <1>9, <2>2, <2>3
  <2> QED BY <1>3, <2>2, <2>4, TwoRowCall
<1> HIDE DEF c
<1> QED BY <1>6, <1>8, <1>11, <1>12, CallTableStep

LEMMA AbortTableKeeps ==
  ASSUME TInv, NEW t \in Txn, AbortTable(t) PROVE TInv'
<1>1. todo[t] = NoCall /\ UNCHANGED <<index, scan>> /\ IInv /\ TxnsOK
  BY DEF AbortTable, TInv, IInv
<1>2. CASE AbortEnd(t) /\ UNCHANGED todo
  <2>1. Ends(t) /\ GrantsOwn(t) /\ txn_state[t] = "ABORTED"
    BY <1>1, <1>2, AbortEndEffect, ReleaseGrant DEF AbortEnd, Aborting
  <2> QED BY <1>1, <1>2, <2>1, AbortingTable, EndsTable
<1>3. CASE /\ AbortRecord(t) \/ AbortMoved(t)
           /\ IF op'[t].kind = "abortMove" THEN UNCHANGED todo ELSE RollbackEntry(t, LastRecord(t))
  <2>1. CASE AbortMoved(t)
    <3>1. op'[t].kind = "idle"
      BY <1>1, <2>1, OpFacts DEF AbortMoved, SetOp, TxnsOK
    <3> QED BY <1>1, <1>3, <2>1, <3>1, AbortMovedTable
  <2>2. CASE AbortRecord(t) /\ Moved(LastRecord(t))
    <3>1. op'[t].kind = "abortMove"
      BY <1>1, <2>2, OpFacts DEF AbortRecord, Moved, SetOp, TxnsOK
    <3> QED BY <1>1, <1>3, <2>2, <3>1, AbortMovedHalfTable
  <2>3. CASE AbortRecord(t) /\ ~Moved(LastRecord(t))
    <3>1. UndoesRecord(t, LastRecord(t), LastRecord(t).rid1)
      BY <1>1, <2>3, AbortRecordUndoes
    <3>2. op'[t].kind = "idle"
      BY <3>1, OpFacts DEF UndoesRecord
    <3> QED BY <1>1, <1>3, <2>3, <3>2, AbortRecordTable
  <2> QED BY <1>3, <2>1, <2>2, <2>3
<1> QED BY <1>2, <1>3 DEF AbortTable

-----------------------------------------------------------------------------
(***************************************************************************)
(* The theorems.                                                           *)
(***************************************************************************)
LEMMA TableInitInv == TableInit => TInv
<1> SUFFICES ASSUME TableInit PROVE TInv
  OBVIOUS
<1>1. IInv /\ Init /\ index = {}
  BY InitInv DEF TableInit
<1>2. ASSUME NEW t \in Txn
      PROVE  /\ todo[t] = NoCall /\ scan[t] = NoScan /\ op[t].kind = "idle"
             /\ \A r \in Rid : seen[t][r] = Unknown
  BY OpFacts DEF TableInit, Init
<1>3. TableTypes
  BY NoCallFacts DEF TableInit, TableTypes
<1>4. ASSUME NEW r \in Rid PROVE Content(r) = NoTuple
  BY <1>1 DEF Init, Content, SlotExists
<1>5. ASSUME NEW t \in Txn, NEW r \in Rid PROVE ~Involved(t, r)
  BY <1>2, WholeRows, NoCallFacts
<1>6. RestIndexed
  BY <1>1, <1>4 DEF RestIndexed, EntriesAt, EntriesFor
<1>7. ASSUME NEW t \in Txn PROVE ExecutorInv(t)
  <2>1. ExecutorFits(t) /\ RowsIndexed(t) /\ SeenIsCurrent(t)
    BY <1>2, <1>5 DEF ExecutorFits, RowsIndexed, SeenIsCurrent
  <2>2. ScanInv(t)
    BY <1>2, NoCallFacts DEF ScanInv
  <2> QED BY <2>1, <2>2 DEF ExecutorInv
<1> QED BY <1>1, <1>3, <1>6, <1>7 DEF TInv

LEMMA TableStutter == ASSUME TInv, UNCHANGED tableVars PROVE TInv'
<1>1. UNCHANGED vars /\ UNCHANGED <<index, todo, scan>> /\ IInv
  BY DEF tableVars, TInv
<1>2. IInv'
  BY <1>1, StutterKeepsInv
<1>3. /\ UNCHANGED <<exclusive_lock_table, txn_state, write_set, op, seen>>
      /\ UNCHANGED pageVars
  BY <1>1 DEF vars, lockVars
<1>4. \A r \in Rid : Content(r)' = Content(r)
  BY <1>3, PagesKept
<1>5. TableTypes'
  BY <1>1 DEF TInv, TableTypes
<1>6. ASSUME NEW t \in Txn, NEW r \in Rid
      PROVE  /\ Involved(t, r)' <=> Involved(t, r)
             /\ Indexed(t, r)' = Indexed(t, r) /\ (Agrees(t, r)' <=> Agrees(t, r))
  <2>1. (Involved(t, r)' <=> Involved(t, r)) /\ Indexed(t, r)' = Indexed(t, r)
    BY <1>1, <1>3, <1>4, SameInvolved
  <2>2. AfterCall(t)' = AfterCall(t)
    BY <1>1 DEF AfterCall
  <2> QED BY <2>1, <2>2 DEF Agrees
<1>7. RestIndexed'
  <2> SUFFICES ASSUME NEW r \in Rid, \A t \in Txn : ~Involved(t, r)'
               PROVE  EntriesAt(index', r) = EntriesFor(Content(r)', r)
    BY DEF RestIndexed
  <2> QED BY <1>1, <1>4, <1>6 DEF TInv, RestIndexed
<1>8. ASSUME NEW t \in Txn PROVE ExecutorInv(t)'
  <2>1. ExecutorInv(t)
    BY DEF TInv
  <2>2. ExecutorFits(t)'
    <3>1. Content(LastRecord(t).rid2)' = Content(LastRecord(t).rid2)
      BY <1>3 DEF pageVars, LastRecord, Content, SlotExists, IsDeleted, Slot
    <3> QED BY <1>1, <1>3, <2>1, <3>1 DEF ExecutorInv, ExecutorFits, Ready
  <2>3. RowsIndexed(t)'
    BY <1>3, <1>6, <2>1 DEF ExecutorInv, RowsIndexed
  <2>4. SeenIsCurrent(t)'
    BY <1>3, <1>4, <2>1 DEF ExecutorInv, SeenIsCurrent
  <2>5. NextRid(t)' = NextRid(t)
    BY <1>1, Zenon DEF NextRid
  <2>6. \A r \in scan[t].expected : Content(r)' = Content(r)
    BY <1>4, TableTypesOf
  <2>7. ScanInv(t)'
    BY <1>1, <1>3, <2>1, <2>5, <2>6 DEF ExecutorInv, ScanInv
  <2> QED BY <2>2, <2>3, <2>4, <2>7 DEF ExecutorInv
<1> QED BY <1>2, <1>5, <1>7, <1>8 DEF TInv

LEMMA TableNextInv == ASSUME TInv, [TableNext]_tableVars PROVE TInv'
<1>1. CASE UNCHANGED tableVars
  BY <1>1, TableStutter
<1>2. ASSUME NEW t \in Txn, Execute(t) PROVE TInv'
  BY <1>2, InsertExecutorKeeps, DeleteExecutorKeeps, ReadRowKeeps, UpdateExecutorKeeps, MoveExecutorKeeps,
     CallIndexKeeps, ScanKeyKeeps, FetchTupleKeeps, CheckTupleKeeps, GiveUpKeeps DEF Execute
<1> QED BY <1>1, <1>2, BeginTableKeeps, CommitTableKeeps, AbortTableKeeps DEF TableNext

\* The invariant holds of every state that the executors, the index and the
\* transactions reach.
THEOREM TableInvariance == TableSpec => []TInv
<1>1. TInv /\ [TableNext]_tableVars => TInv'
  BY TableNextInv
<1> QED BY <1>1, TableInitInv, PTL DEF TableSpec

LEMMA InvTableTypes == TInv => TableTypeOK
<1> SUFFICES ASSUME TInv PROVE TableTypeOK
  OBVIOUS
<1>1. index \subseteq Keys \X Rid
  BY DEF TInv, TableTypes, EntryPairs
<1>2. ASSUME NEW t \in Txn
      PROVE  /\ todo[t].remove \union todo[t].insert \subseteq Keys \X Rid
             /\ scan[t].rids \union scan[t].found \union scan[t].expected \subseteq Rid
             /\ txn_state[t] # "GROWING" => scan[t] = NoScan
  BY TableTypesOf DEF EntryPairs, ExecutorInv, ExecutorFits, Ready
<1> QED BY <1>1, <1>2 DEF TableTypeOK

\* The calls that executors leave for the index and the scans they run stay well
\* formed, and an aborting transaction has no scan left
\* (point_scan_with_index_executor.go empties foundTuples when a read fails).
THEOREM TableTypeCorrect == TableSpec => []TableTypeOK
BY TableInvariance, InvTableTypes, PTL

\* Of rows whose deletion is not committed the invariant says more than the
\* property: they have no entry.
LEMMA InvIndexAgrees == TInv => IndexAgreesWithHeap
<1> SUFFICES ASSUME TInv, NEW r \in Rid, ~InTransit(r)
             PROVE  {e \in index : e[2] = r} = IF Content(r) = NoTuple THEN {} ELSE {Entry(Content(r), r)}
  BY DEF IndexAgreesWithHeap
<1>1. ASSUME NEW t \in Txn PROVE ~Involved(t, r)
  BY DEF InTransit, Involved, CallsFor, HalfMoved, HalfUndone, Touches
<1> QED BY <1>1 DEF TInv, RestIndexed, EntriesAt, EntriesFor

\* The index has exactly the rows of the heap under exactly their keys, but for
\* the rows between the two halves of a change and the rows whose deletion is not
\* committed: whatever the executors and the
\* rollbacks of Abort do in whatever order, the calls of the index that they make
\* after the fact leave no stale entry and take no other row's entry away.
THEOREM IndexAgrees == TableSpec => []IndexAgreesWithHeap
BY TableInvariance, InvIndexAgrees, PTL

LEMMA InvScanExact == TInv => ScanIsExact
<1> SUFFICES ASSUME TInv, NEW t \in Txn, scan[t].step = "end"
             PROVE  /\ scan[t].expected \subseteq scan[t].found
                    /\ \A r \in scan[t].found : /\ Content(r) # NoTuple /\ Key[Content(r)] = scan[t].key
                                                /\ ~ChangedByOthers(t, r)
  BY DEF ScanIsExact
<1>1. IInv /\ ScanInv(t) /\ SeenIsCurrent(t) /\ scan[t].found \subseteq Rid
  BY TableTypesOf DEF ExecutorInv
<1>2. scan[t].expected \subseteq scan[t].found
  BY <1>1 DEF ScanInv
<1>3. ASSUME NEW r \in scan[t].found
      PROVE  Content(r) # NoTuple /\ Key[Content(r)] = scan[t].key /\ ~ChangedByOthers(t, r)
  <2>1. r \in Rid /\ seen[t][r] \notin {Unknown, NoTuple} /\ Key[seen[t][r]] = scan[t].key
    BY <1>1 DEF ScanInv
  <2>2. seen[t][r] = Content(r)
    BY <1>1, <2>1 DEF SeenIsCurrent
  <2>3. Holds(t, r)
    BY <1>1, <2>1, TxnTypes DEF TxnInv, ReadsLocked
  <2>4. exclusive_lock_table[r] \in {NoTxn, t}
    BY <1>1, <2>1, <2>3 DEF IInv, LockInv, LM!Exclusion, LM!TypeOK, Holds
  <2> QED BY <2>1, <2>2, <2>4 DEF ChangedByOthers
<1> QED BY <1>2, <1>3

\* A point scan that ends has every row with its key that was there and nobody
\* else's work when the index was looked up, and what it returns is still there
\* and nobody else's work: Init of PointScanWithIndexExecutor needs the check of
\* the key after the read, the locks that reads take, and an index that agrees
\* with the heap.
THEOREM ScansAreExact == TableSpec => []ScanIsExact
BY TableInvariance, InvScanExact, PTL

LEMMA TableStepIsHeapStep == ASSUME TInv, [TableNext]_tableVars PROVE [Next]_vars
<1>1. CASE UNCHANGED tableVars
  BY <1>1 DEF tableVars
<1>2. ASSUME NEW t \in Txn, BeginTable(t) PROVE Next
  BY <1>2 DEF BeginTable, Next
<1>3. ASSUME NEW t \in Txn, CommitTable(t) \/ AbortTable(t) PROVE Next
  <2>1. Finish(t)
    BY <1>3 DEF CommitTable, AbortTable, Finish
  <2> QED BY <2>1 DEF Next
<1>4. ASSUME NEW t \in Txn, Execute(t) PROVE [Next]_vars
  <2>1. CASE UNCHANGED vars
    BY <2>1
  <2>2. CASE FetchTuple(t)
    <3>1. \E r \in Rid : GetTuple(t, r)
      BY <2>2, NextRidFound DEF FetchTuple
    <3> QED BY <3>1 DEF Next, Operate
  <2>3. CASE \/ \E v \in Value : InsertTuple(t, v)
             \/ \E r \in Rid : GetTuple(t, r) \/ MarkDelete(t, r) \/ \E v \in Value : UpdateTuple(t, r, v)
             \/ MoveDelete(t) \/ MoveInsert(t) \/ Fail(t)
    BY <2>3 DEF Next, Operate
  <2> QED BY <1>4, <2>1, <2>2, <2>3 DEF Execute, InsertExecutor, DeleteExecutor, ReadRow, UpdateExecutor,
          MoveExecutor, CallIndex, ScanKey, CheckTuple, GiveUp
<1> QED BY <1>1, <1>2, <1>3, <1>4 DEF TableNext

\* The executors work on the heap as the transaction manager's clients may: every
\* execution of the table is one of TransactionManager, and what is proved of that
\* specification holds of the table too.
THEOREM TableRunsTransactions == TableSpec => Spec
<1>1. TInv /\ [TableNext]_tableVars => [Next]_vars
  BY TableStepIsHeapStep
<1>2. TableInit => Init
  BY DEF TableInit
<1> QED BY <1>1, <1>2, TableInvariance, PTL DEF TableSpec, Spec

\* So what the executors read and write by row id is read from and written to
\* the abstract store, and a point scan, which gets the row ids from the index,
\* has every row it may rely on and nothing stale.  The theorem does not speak of
\* the rows that a scan misses: those that others are changing when it looks the
\* index up, and those that come afterwards.
THEOREM TableImplementsStore == TableSpec => ImplementsStore /\ []ScanIsExact
BY TableRunsTransactions, HeapImplementsStore, ScansAreExact, PTL

=============================================================================
