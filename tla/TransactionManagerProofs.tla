---------------------- MODULE TransactionManagerProofs ----------------------
(***************************************************************************)
(* Proofs about TransactionManager, for any transactions, tuples, sizes    *)
(* and numbers of pages and slots.                                         *)
(***************************************************************************)
EXTENDS TransactionManager, FiniteSetTheorems, WellFoundedInduction, TLAPS

-----------------------------------------------------------------------------
(***************************************************************************)
(* Induction over the natural numbers: a non-empty set of them has a least *)
(* element, because the finite sets 1..n are well-founded under inclusion. *)
(***************************************************************************)
LEMMA LeastNat ==
  ASSUME NEW T, T \subseteq Nat, T # {}
  PROVE  \E x \in T : \A y \in T : x <= y
<1> DEFINE X == {1..n : n \in T}
<1>1. IsWellFoundedOn(StrictSubsetOrdering(Nat), FiniteSubsetsOf(Nat))
  BY FS_StrictSubsetOrderingWellFounded
<1>2. X \subseteq FiniteSubsetsOf(Nat)
  <2> SUFFICES ASSUME NEW n \in T PROVE 1..n \in FiniteSubsetsOf(Nat)
    BY Zenon
  <2>1. IsFiniteSet(1..n)
    BY FS_Interval
  <2> QED BY <2>1 DEF FiniteSubsetsOf
<1>3. X # {}
  OBVIOUS
<1> HIDE DEF X
<1>4. PICK x \in X : \A y \in X : ~(<<y, x>> \in StrictSubsetOrdering(Nat))
  BY <1>1, <1>2, <1>3, WFMin, Zenon
<1>5. PICK m \in T : x = 1..m
  BY <1>4 DEF X
<1>6. ASSUME NEW n \in T, n < m PROVE FALSE
  <2>1. 1..n \in X
    BY DEF X
  <2>2. 1..n \subseteq 1..m /\ m \in 1..m /\ m \notin 1..n /\ 1..n \in SUBSET Nat /\ 1..m \in SUBSET Nat
    BY <1>6
  <2>3. <<1..n, 1..m>> \in StrictSubsetOrdering(Nat)
    BY <2>2 DEF StrictSubsetOrdering
  <2> QED BY <1>4, <1>5, <2>1, <2>3
<1> QED BY <1>6

-----------------------------------------------------------------------------
(***************************************************************************)
(* Pages.                                                                  *)
(***************************************************************************)
SlotState == {FreeSlot} \cup [tuple : Value, deleted : BOOLEAN]

\* What the pages pgs hold at every rid; a slot that does not exist is free.
ExistsIn(pgs, r) == r[1] \in DOMAIN pgs /\ r[2] \in DOMAIN pgs[r[1]]
SlotsOf(pgs) == [r \in Rid |-> IF ExistsIn(pgs, r) THEN pgs[r[1]][r[2]] ELSE FreeSlot]

LEMMA SlotFacts ==
  /\ FreeSlot \in SlotState
  /\ \A v \in Value, b \in BOOLEAN : [tuple |-> v, deleted |-> b] \in SlotState
  /\ \A s \in SlotState : s.tuple = NoTuple => s = FreeSlot
  /\ \A s \in SlotState : s.tuple # NoTuple =>
       s.tuple \in Value /\ s.deleted \in BOOLEAN /\ s = [tuple |-> s.tuple, deleted |-> s.deleted]
BY SizeAssumption DEF SlotState, FreeSlot

LEMMA RidPair == \A r \in Rid : r = <<r[1], r[2]>> /\ r[1] \in Nat \ {0} /\ r[2] \in Nat \ {0}
BY DEF Rid

\* FindSlot returns a free slot or the place of a new one.
LEMMA FindSlotFound ==
  ASSUME NEW page \in Seq(SlotState)
  PROVE  /\ FindSlot(page) \in 1..(Len(page) + 1)
         /\ FindSlot(page) \in DOMAIN page => page[FindSlot(page)] = FreeSlot
<1> DEFINE T == {i \in DOMAIN page : page[i].tuple = NoTuple}
<1>1. CASE T = {}
  BY <1>1 DEF FindSlot
<1>2. CASE T # {}
  <2>0. T \subseteq Nat
    OBVIOUS
  <2> HIDE DEF T
  <2>1. PICK m \in T : \A y \in T : m <= y
    BY <1>2, <2>0, LeastNat
  <2> USE DEF T
  <2>2. \A j \in 1..(m - 1) : page[j].tuple # NoTuple
    BY <2>1
  <2>3. \E i \in DOMAIN page : page[i].tuple = NoTuple /\ \A j \in 1..(i - 1) : page[j].tuple # NoTuple
    BY <2>1, <2>2
  <2>4. FindSlot(page) = CHOOSE i \in DOMAIN page :
                           page[i].tuple = NoTuple /\ \A j \in 1..(i - 1) : page[j].tuple # NoTuple
    BY <2>3 DEF FindSlot
  <2>5. FindSlot(page) \in DOMAIN page /\ page[FindSlot(page)].tuple = NoTuple
    BY <2>3, <2>4, Zenon
  <2> QED BY <2>5, SlotFacts
<1> QED BY <1>1, <1>2

\* Page new is page old with s in slot i, which may be the next one.
DiffersAt(old, i, s, new) ==
  /\ new \in Seq(SlotState) /\ Len(new) = IF i \in DOMAIN old THEN Len(old) ELSE Len(old) + 1
  /\ DOMAIN new = DOMAIN old \cup {i} /\ new[i] = s
  /\ \A j \in DOMAIN old : j # i => new[j] = old[j]

LEMMA SetSlotEffect ==
  ASSUME NEW page \in Seq(SlotState), NEW i \in 1..(Len(page) + 1), NEW s \in SlotState
  PROVE  DiffersAt(page, i, s, SetSlot(page, i, s))
<1>1. CASE i > Len(page)
  BY <1>1 DEF SetSlot, DiffersAt
<1>2. CASE i <= Len(page)
  BY <1>2 DEF SetSlot, DiffersAt
<1> QED BY <1>1, <1>2

\* The chain pgs2 is pgs with slot r set to s.
SetAt(pgs, r, s, pgs2) ==
  /\ pgs2 \in Seq(Seq(SlotState))
  /\ \A q \in Rid : ExistsIn(pgs2, q) <=> (q = r \/ ExistsIn(pgs, q))
  /\ SlotsOf(pgs2) = [SlotsOf(pgs) EXCEPT ![r] = s]

PageReplaced(pgs, r, s, page) ==
  LET pgs2 == [pgs EXCEPT ![r[1]] = page] IN
  /\ Len(pgs2) = Len(pgs) /\ DOMAIN pgs2 = DOMAIN pgs /\ pgs2[r[1]] = page
  /\ \A p \in DOMAIN pgs : p # r[1] => pgs2[p] = pgs[p]
  /\ SetAt(pgs, r, s, pgs2)

\* A page of the chain is replaced by one that differs in slot r[2].
LEMMA ReplaceSlot ==
  ASSUME NEW pgs \in Seq(Seq(SlotState)), NEW r \in Rid, r[1] \in DOMAIN pgs,
         NEW page, NEW s \in SlotState, DiffersAt(pgs[r[1]], r[2], s, page)
  PROVE  PageReplaced(pgs, r, s, page)
<1> DEFINE pgs2 == [pgs EXCEPT ![r[1]] = page]
<1>0. /\ page \in Seq(SlotState) /\ DOMAIN page = DOMAIN pgs[r[1]] \cup {r[2]} /\ page[r[2]] = s
      /\ \A j \in DOMAIN pgs[r[1]] : j # r[2] => page[j] = pgs[r[1]][j]
  BY DEF DiffersAt
<1>1. /\ pgs2 \in Seq(Seq(SlotState)) /\ Len(pgs2) = Len(pgs) /\ DOMAIN pgs2 = DOMAIN pgs
      /\ pgs2[r[1]] = page /\ \A p \in DOMAIN pgs : p # r[1] => pgs2[p] = pgs[p]
  BY <1>0
<1> HIDE DEF pgs2
<1>2. \A q \in Rid : q # r => q[1] # r[1] \/ q[2] # r[2]
  BY RidPair
<1>3. \A q \in Rid : ExistsIn(pgs2, q) <=> (q = r \/ ExistsIn(pgs, q))
  BY <1>0, <1>1, <1>2 DEF ExistsIn
<1>4. \A q \in Rid : SlotsOf(pgs2)[q] = [SlotsOf(pgs) EXCEPT ![r] = s][q]
  <2> SUFFICES ASSUME NEW q \in Rid
               PROVE  SlotsOf(pgs2)[q] = IF q = r THEN s ELSE SlotsOf(pgs)[q]
    BY DEF SlotsOf
  <2>1. CASE q = r
    BY <2>1, <1>0, <1>1 DEF SlotsOf, ExistsIn
  <2>2. CASE q # r /\ ExistsIn(pgs, q)
    BY <2>2, <1>0, <1>1, <1>2 DEF SlotsOf, ExistsIn
  <2>3. CASE q # r /\ ~ExistsIn(pgs, q)
    BY <2>3, <1>3 DEF SlotsOf
  <2> QED BY <2>1, <2>2, <2>3
<1>5. SlotsOf(pgs2) = [SlotsOf(pgs) EXCEPT ![r] = s]
  BY <1>4 DEF SlotsOf
<1>6. SetAt(pgs, r, s, pgs2)
  BY <1>1, <1>3, <1>5 DEF SetAt
<1> QED BY <1>1, <1>6, Zenon DEF PageReplaced, pgs2

\* The chain grows by a page with one slot.
PageAdded(pgs, r, s) ==
  LET pgs2 == Append(pgs, <<s>>) IN
  /\ Len(pgs2) = Len(pgs) + 1 /\ DOMAIN pgs2 = 1..(Len(pgs) + 1)
  /\ pgs2[Len(pgs) + 1] = <<s>> /\ \A p \in DOMAIN pgs : pgs2[p] = pgs[p]
  /\ ~ExistsIn(pgs, r) /\ SetAt(pgs, r, s, pgs2)

LEMMA AddPage ==
  ASSUME NEW pgs \in Seq(Seq(SlotState)), NEW r \in Rid, r = <<Len(pgs) + 1, 1>>, NEW s \in SlotState
  PROVE  PageAdded(pgs, r, s)
<1> DEFINE pgs2 == Append(pgs, <<s>>)
<1>0. <<s>> \in Seq(SlotState) /\ DOMAIN <<s>> = {1} /\ <<s>>[1] = s
  OBVIOUS
<1>1. /\ pgs2 \in Seq(Seq(SlotState)) /\ Len(pgs2) = Len(pgs) + 1 /\ DOMAIN pgs2 = 1..(Len(pgs) + 1)
      /\ DOMAIN pgs = 1..Len(pgs) /\ Len(pgs) \in Nat
      /\ pgs2[Len(pgs) + 1] = <<s>> /\ \A p \in DOMAIN pgs : pgs2[p] = pgs[p]
  BY <1>0
<1> HIDE DEF pgs2
<1>2. r[1] = Len(pgs) + 1 /\ r[2] = 1 /\ \A q \in Rid : q # r => q[1] # r[1] \/ q[2] # r[2]
  BY RidPair
<1>3. ~ExistsIn(pgs, r) /\ \A q \in Rid : ExistsIn(pgs2, q) <=> (q = r \/ ExistsIn(pgs, q))
  BY <1>0, <1>1, <1>2 DEF ExistsIn
<1>4. \A q \in Rid : SlotsOf(pgs2)[q] = [SlotsOf(pgs) EXCEPT ![r] = s][q]
  <2> SUFFICES ASSUME NEW q \in Rid
               PROVE  SlotsOf(pgs2)[q] = IF q = r THEN s ELSE SlotsOf(pgs)[q]
    BY DEF SlotsOf
  <2>1. CASE q = r
    BY <2>1, <1>0, <1>1, <1>2 DEF SlotsOf, ExistsIn
  <2>2. CASE q # r /\ ExistsIn(pgs, q)
    BY <2>2, <1>1, <1>2 DEF SlotsOf, ExistsIn
  <2>3. CASE q # r /\ ~ExistsIn(pgs, q)
    BY <2>3, <1>3 DEF SlotsOf
  <2> QED BY <2>1, <2>2, <2>3
<1>5. SlotsOf(pgs2) = [SlotsOf(pgs) EXCEPT ![r] = s]
  BY <1>4 DEF SlotsOf
<1>6. SetAt(pgs, r, s, pgs2)
  BY <1>1, <1>3, <1>5 DEF SetAt
<1> QED BY <1>1, <1>3, <1>6, Zenon DEF PageAdded, pgs2

-----------------------------------------------------------------------------
(***************************************************************************)
(* Work as a sequence of write records over the slots S.  What a record    *)
(* found at a rid it touches, and what it left there, can be read off it.  *)
(* The chain property says that every record found what the previous one   *)
(* of the same rid left, and that the slots hold what the last one left:   *)
(* so the work can be taken back record by record from its end.            *)
(***************************************************************************)
WriteRecord ==
  {wr \in [wtype : {"INSERT", "DELETE", "UPDATE"}, rid1 : Rid, rid2 : Rid,
           tuple1 : Value, tuple2 : Value \cup {NoTuple}] :
     /\ wr.wtype # "UPDATE" => wr.rid1 = wr.rid2
     /\ wr.wtype = "UPDATE" => wr.tuple2 \in Value
     /\ wr.wtype = "UPDATE" /\ wr.rid1 = wr.rid2 => Size[wr.tuple1] <= Size[wr.tuple2]}

MarkedSlot(v) == [tuple |-> v, deleted |-> TRUE]

Found(wr, r) == IF wr.wtype = "INSERT" \/ wr.rid1 # r THEN FreeSlot ELSE Live(wr.tuple1)
Left(wr, r) ==
  IF wr.wtype = "INSERT" THEN Live(wr.tuple1)
  ELSE IF wr.wtype = "UPDATE" /\ wr.rid2 = r THEN Live(wr.tuple2)
  ELSE MarkedSlot(wr.tuple1)

LastTouch(w, i, r) == Touches(w[i], r) /\ \A j \in DOMAIN w : j > i => ~Touches(w[j], r)
NextTouch(w, i, j, r) ==
  /\ i < j /\ Touches(w[i], r) /\ Touches(w[j], r)
  /\ \A k \in DOMAIN w : i < k /\ k < j => ~Touches(w[k], r)

Chained(w, S) ==
  /\ \A i \in DOMAIN w, r \in Rid : LastTouch(w, i, r) => S[r] = Left(w[i], r)
  /\ \A i, j \in DOMAIN w, r \in Rid : NextTouch(w, i, j, r) => Left(w[i], r) = Found(w[j], r)
  /\ \A i, j \in DOMAIN w, r \in Rid :
       i < j /\ Touches(w[i], r) /\ Left(w[i], r).deleted => ~Touches(w[j], r)

\* Record wr takes the slots from S to S2.
Does(S, wr, S2) ==
  \A r \in Rid : IF Touches(wr, r) THEN S[r] = Found(wr, r) /\ S2[r] = Left(wr, r)
                                   ELSE S2[r] = S[r]

ContentOf(s) == IF s.deleted \/ s.tuple = NoTuple THEN NoTuple ELSE s.tuple

\* What was at r before the work w.
Original(w, S, r) == IF Writes(w, r) THEN BeforeImage(w, r) ELSE ContentOf(S[r])

LEMMA AppendRecord ==
  ASSUME NEW w \in Seq(WriteRecord), NEW wr \in WriteRecord
  PROVE  /\ Append(w, wr) \in Seq(WriteRecord)
         /\ Len(w) \in Nat /\ Len(Append(w, wr)) = Len(w) + 1
         /\ DOMAIN w = 1..Len(w) /\ DOMAIN Append(w, wr) = 1..(Len(w) + 1)
         /\ \A i \in 1..Len(w) : Append(w, wr)[i] = w[i]
         /\ Append(w, wr)[Len(w) + 1] = wr
<1> HIDE DEF WriteRecord
<1> QED OBVIOUS

\* No record finds a marked slot or leaves a free one.
LEMMA FoundLeft ==
  ASSUME NEW wr \in WriteRecord, NEW r
  PROVE  /\ Found(wr, r).deleted = FALSE /\ ContentOf(Found(wr, r)) = ImageBefore(wr, r)
         /\ Left(wr, r).tuple \in Value /\ Left(wr, r).tuple # NoTuple
         /\ Left(wr, r).deleted \in BOOLEAN
         /\ Left(wr, r) # FreeSlot /\ Found(wr, r) \in SlotState /\ Left(wr, r) \in SlotState
<1>1. wr.tuple1 \in Value /\ (wr.wtype = "UPDATE" => wr.tuple2 \in Value) /\ NoTuple \notin Value
  BY SizeAssumption DEF WriteRecord
<1> QED BY <1>1 DEF Found, Left, ContentOf, ImageBefore, FreeSlot, Live, MarkedSlot, SlotState

LEMMA DoesKeepsChain ==
  ASSUME NEW w \in Seq(WriteRecord), NEW wr \in WriteRecord, NEW S, NEW S2,
         Chained(w, S), Does(S, wr, S2)
  PROVE  Chained(Append(w, wr), S2)
<1> DEFINE w2 == Append(w, wr)
           n == Len(w) + 1
<1>1. /\ DOMAIN w = 1..Len(w) /\ Len(w) \in Nat /\ DOMAIN w2 = 1..n
      /\ \A i \in DOMAIN w : w2[i] = w[i]
      /\ w2[n] = wr
  BY AppendRecord
<1> HIDE DEF w2
<1>2. ASSUME NEW i \in DOMAIN w2, NEW r \in Rid, LastTouch(w2, i, r)
      PROVE  S2[r] = Left(w2[i], r)
  <2>1. CASE i = n
    BY <1>1, <1>2, <2>1 DEF LastTouch, Does
  <2>2. CASE i \in DOMAIN w
    <3>1. ~Touches(wr, r) /\ LastTouch(w, i, r)
      BY <1>1, <1>2, <2>2 DEF LastTouch
    <3> QED BY <1>1, <2>2, <3>1 DEF Chained, Does
  <2> QED BY <1>1, <2>1, <2>2
<1>3. ASSUME NEW i \in DOMAIN w2, NEW j \in DOMAIN w2, NEW r \in Rid, NextTouch(w2, i, j, r)
      PROVE  Left(w2[i], r) = Found(w2[j], r)
  <2>1. CASE j \in DOMAIN w
    <3>1. i \in DOMAIN w /\ NextTouch(w, i, j, r)
      BY <1>1, <1>3, <2>1 DEF NextTouch
    <3> QED BY <1>1, <2>1, <3>1 DEF Chained
  <2>2. CASE j = n
    <3>1. i \in DOMAIN w /\ LastTouch(w, i, r) /\ Touches(wr, r)
      BY <1>1, <1>3, <2>2 DEF NextTouch, LastTouch
    <3> QED BY <1>1, <2>2, <3>1 DEF Chained, Does
  <2> QED BY <1>1, <2>1, <2>2
<1>4. ASSUME NEW i \in DOMAIN w2, NEW j \in DOMAIN w2, NEW r \in Rid,
             i < j, Touches(w2[i], r), Left(w2[i], r).deleted, Touches(w2[j], r)
      PROVE  FALSE
  <2>1. CASE j \in DOMAIN w
    BY <1>1, <1>4, <2>1 DEF Chained
  <2>2. CASE j = n
    <3>1. i \in DOMAIN w /\ Touches(w[i], r) /\ Touches(wr, r) /\ Left(w[i], r).deleted
      BY <1>1, <1>4, <2>2
    <3>2. LastTouch(w, i, r)
      BY <3>1 DEF Chained, LastTouch
    <3>3. Left(w[i], r) = Found(wr, r)
      BY <3>1, <3>2 DEF Chained, Does
    <3> QED BY <3>1, <3>3, FoundLeft
  <2> QED BY <1>1, <2>1, <2>2
<1>5. Chained(w2, S2)
  BY <1>2, <1>3, <1>4 DEF Chained
<1> QED BY <1>5 DEF w2

LEMMA UndoKeepsChain ==
  ASSUME NEW w \in Seq(WriteRecord), NEW wr \in WriteRecord, NEW S, NEW S2,
         Chained(Append(w, wr), S2), Does(S, wr, S2)
  PROVE  Chained(w, S)
<1> DEFINE w2 == Append(w, wr)
           n == Len(w) + 1
<1>1. /\ DOMAIN w = 1..Len(w) /\ Len(w) \in Nat /\ DOMAIN w2 = 1..n
      /\ \A i \in DOMAIN w : w2[i] = w[i] /\ i \in DOMAIN w2 /\ i < n
      /\ w2[n] = wr /\ n \in DOMAIN w2 /\ Chained(w2, S2)
  BY AppendRecord
<1> HIDE DEF w2
<1>2. ASSUME NEW i \in DOMAIN w, NEW r \in Rid, LastTouch(w, i, r)
      PROVE  S[r] = Left(w[i], r)
  <2>1. CASE Touches(wr, r)
    <3>1. NextTouch(w2, i, n, r)
      BY <1>1, <1>2, <2>1 DEF LastTouch, NextTouch
    <3>2. Left(w2[i], r) = Found(w2[n], r)
      BY <1>1, <3>1 DEF Chained
    <3> QED BY <1>1, <2>1, <3>2 DEF Does
  <2>2. CASE ~Touches(wr, r)
    <3>1. LastTouch(w2, i, r)
      BY <1>1, <1>2, <2>2 DEF LastTouch
    <3> QED BY <1>1, <2>2, <3>1 DEF Chained, Does
  <2> QED BY <2>1, <2>2
<1>3. ASSUME NEW i \in DOMAIN w, NEW j \in DOMAIN w, NEW r \in Rid, NextTouch(w, i, j, r)
      PROVE  Left(w[i], r) = Found(w[j], r)
  <2>1. NextTouch(w2, i, j, r)
    BY <1>1, <1>3 DEF NextTouch
  <2> QED BY <1>1, <2>1 DEF Chained
<1>4. \A i, j \in DOMAIN w, r \in Rid :
        i < j /\ Touches(w[i], r) /\ Left(w[i], r).deleted => ~Touches(w[j], r)
  BY <1>1 DEF Chained
<1> QED BY <1>2, <1>3, <1>4 DEF Chained

\* Slots that the work does not touch do not matter to it.
LEMMA OthersKeepChain ==
  ASSUME NEW w, NEW S, NEW S2, Chained(w, S),
         \A r \in Rid : Writes(w, r) => S2[r] = S[r]
  PROVE  Chained(w, S2)
BY DEF Chained, Writes, LastTouch

LEMMA FirstWriteFound ==
  ASSUME NEW w \in Seq(WriteRecord), NEW r, Writes(w, r)
  PROVE  /\ FirstWrite(w, r) \in DOMAIN w /\ Touches(w[FirstWrite(w, r)], r)
         /\ \A j \in 1..(FirstWrite(w, r) - 1) : ~Touches(w[j], r)
<1> DEFINE T == {i \in DOMAIN w : Touches(w[i], r)}
<1>1. T # {} /\ T \subseteq Nat /\ DOMAIN w = 1..Len(w) /\ Len(w) \in Nat
  BY DEF Writes
<1> HIDE DEF T
<1>2. PICK m \in T : \A y \in T : m <= y
  BY <1>1, LeastNat
<1>3. m \in DOMAIN w /\ Touches(w[m], r) /\ \A j \in 1..(m - 1) : ~Touches(w[j], r)
  BY <1>1, <1>2 DEF T
<1> QED BY <1>3, Zenon DEF FirstWrite

\* A record added to the work does not change what was there before the work.
LEMMA DoesKeepsOriginal ==
  ASSUME NEW w \in Seq(WriteRecord), NEW wr \in WriteRecord, NEW S, NEW S2,
         Does(S, wr, S2), NEW r \in Rid
  PROVE  Original(Append(w, wr), S2, r) = Original(w, S, r)
<1> DEFINE w2 == Append(w, wr)
           n == Len(w) + 1
<1>1. /\ DOMAIN w = 1..Len(w) /\ Len(w) \in Nat /\ DOMAIN w2 = 1..n
      /\ \A i \in DOMAIN w : w2[i] = w[i]
      /\ w2[n] = wr /\ n \in DOMAIN w2 /\ w2 \in Seq(WriteRecord)
  BY AppendRecord
<1> HIDE DEF w2
<1>2. CASE Writes(w, r)
  <2>1. Writes(w2, r)
    BY <1>1, <1>2 DEF Writes
  <2> DEFINE i == FirstWrite(w, r)
             j == FirstWrite(w2, r)
  <2>2. i \in DOMAIN w /\ Touches(w[i], r) /\ \A k \in 1..(i - 1) : ~Touches(w[k], r)
    BY <1>2, FirstWriteFound
  <2>3. j \in DOMAIN w2 /\ Touches(w2[j], r) /\ \A k \in 1..(j - 1) : ~Touches(w2[k], r)
    BY <1>1, <2>1, FirstWriteFound
  <2> HIDE DEF i, j
  <2>4. i = j
    BY <1>1, <2>2, <2>3
  <2> QED BY <1>1, <1>2, <2>1, <2>2, <2>4 DEF Original, BeforeImage, i, j, w2
<1>3. CASE ~Writes(w, r) /\ Touches(wr, r)
  <2>1. Writes(w2, r)
    BY <1>1, <1>3 DEF Writes
  <2> DEFINE j == FirstWrite(w2, r)
  <2>2. j \in DOMAIN w2 /\ Touches(w2[j], r)
    BY <1>1, <2>1, FirstWriteFound
  <2> HIDE DEF j
  <2>3. w2[j] = wr
    BY <1>1, <1>3, <2>2 DEF Writes
  <2>4. S[r] = Found(wr, r)
    BY <1>3 DEF Does
  <2> QED BY <1>3, <2>1, <2>3, <2>4, FoundLeft DEF Original, BeforeImage, j, w2
<1>4. CASE ~Writes(w, r) /\ ~Touches(wr, r)
  BY <1>1, <1>4 DEF Writes, Original, Does, w2
<1> QED BY <1>2, <1>3, <1>4

-----------------------------------------------------------------------------
(***************************************************************************)
(* Locks.  The invariant of LockManagerProofs, and what it says of a step. *)
(***************************************************************************)
LMP == INSTANCE LockManagerProofs

LockInv == LM!TypeOK /\ LM!Exclusion /\ LM!LockBookkeeping /\ LM!NoOrphanLocks

LockStep == [LM!Next]_(LM!vars)

LEMMA SameLockStep == LockStep => [LMP!Next]_(LMP!vars)
<1>1. UNCHANGED LM!vars => UNCHANGED LMP!vars
  BY DEF LM!vars, LMP!vars, LM!tables, LMP!tables, LM!lock_sets, LMP!lock_sets
<1>2. LM!Next => LMP!Next
  BY Zenon DEF LM!Next, LMP!Next, LM!Begin, LMP!Begin, LM!SetAborted, LMP!SetAborted,
       LM!ReleaseLocks, LMP!ReleaseLocks, LM!LockForRead, LMP!LockForRead,
       LM!LockForWrite, LMP!LockForWrite, LM!LockForInsert, LMP!LockForInsert,
       LM!AcquireForRead, LMP!AcquireForRead, LM!AcquireForWrite, LMP!AcquireForWrite,
       LM!LockShared, LMP!LockShared, LM!LockExclusive, LMP!LockExclusive,
       LM!LockUpgrade, LMP!LockUpgrade, LM!GrantShared, LMP!GrantShared,
       LM!GrantExclusive, LMP!GrantExclusive, LM!Unlock, LMP!Unlock, LM!Drop, LMP!Drop,
       LM!Outcome, LMP!Outcome, LM!Refuse, LMP!Refuse, LM!KeepLocks, LMP!KeepLocks,
       LM!Active, LMP!Active, LM!IsSharedLocked, LMP!IsSharedLocked,
       LM!IsExclusiveLocked, LMP!IsExclusiveLocked,
       LM!tables, LMP!tables, LM!lock_sets, LMP!lock_sets
<1> QED BY <1>1, <1>2 DEF LockStep

LEMMA SameLockInv == LockInv <=> LMP!IInv
BY DEF LockInv, LMP!IInv, LM!TypeOK, LMP!TypeOK, LM!TxnState, LMP!TxnState,
       LM!Exclusion, LMP!Exclusion, LM!LockBookkeeping, LMP!LockBookkeeping,
       LM!NoOrphanLocks, LMP!NoOrphanLocks, LM!Active, LMP!Active,
       LM!IsSharedLocked, LMP!IsSharedLocked, LM!IsExclusiveLocked, LMP!IsExclusiveLocked

LEMMA LockInvKept == ASSUME LockInv, LockStep PROVE LockInv'
<1>1. LMP!IInv /\ [LMP!Next]_(LMP!vars)
  BY SameLockInv, SameLockStep
<1>2. LMP!NoTxnAssumption
  BY SizeAssumption DEF LMP!NoTxnAssumption
<1>3. LMP!IInv'
  BY <1>1, <1>2, LMP!NextInv DEF LMP!NextInv
<1>4. (LockInv <=> LMP!IInv)'
  BY SameLockInv, PTL
<1> QED BY <1>3, <1>4

\* A lock stays with a transaction that goes on.
LEMMA HeldLocksKept ==
  ASSUME LockInv, LockStep, NEW t \in Txn, NEW r \in Rid,
         txn_state[t] # "NONE", txn_state'[t] # "NONE"
  PROVE  /\ t \in shared_lock_table[r] => t \in shared_lock_table'[r]
         /\ exclusive_lock_table[r] = t => exclusive_lock_table'[r] = t
<1>1. LMP!IInv /\ [LMP!Next]_(LMP!vars)
  BY SameLockInv, SameLockStep
<1>2. LMP!NoTxnAssumption
  BY SizeAssumption DEF LMP!NoTxnAssumption
<1>3. [\A u \in Txn, q \in Rid : LMP!Active(u) /\ LMP!Active(u)' =>
         /\ u \in shared_lock_table[q] => u \in shared_lock_table'[q]
         /\ exclusive_lock_table[q] = u => exclusive_lock_table'[q] = u]_(LMP!vars)
  BY <1>1, <1>2, LMP!NextKeepsHeldLocks DEF LMP!NextKeepsHeldLocks
<1> QED BY <1>3 DEF LMP!Active, LMP!vars, LMP!tables

\* Two transactions never hold a rid together if one of them does exclusively.
LEMMA OneOwner ==
  ASSUME LockInv, NEW t \in Txn, NEW u \in Txn, NEW r \in Rid, exclusive_lock_table[r] = t,
         exclusive_lock_table[r] = u \/ u \in shared_lock_table[r]
  PROVE  t = u
BY SizeAssumption DEF LockInv, LM!Exclusion

\* The lock an insert takes, and what it gives.
LEMMA InsertLock ==
  ASSUME LockInv, NEW t \in Txn, NEW r \in Rid, txn_state[t] # "NONE",
         LM!LockExclusive(t, r, TRUE), UNCHANGED txn_state
  PROVE  LockStep /\ exclusive_lock_table'[r] = t
<1>1. LM!LockForInsert(t, r)
  BY DEF LM!LockForInsert, LM!Active
<1>2. LockStep
  BY <1>1 DEF LockStep, LM!Next
<1>3. exclusive_lock_table'[r] = t
  BY SizeAssumption DEF LM!LockExclusive, LM!KeepLocks, LM!GrantExclusive, LM!tables, LockInv, LM!TypeOK
<1> QED BY <1>2, <1>3

LEMMA WriteLock ==
  ASSUME LockInv, NEW t \in Txn, NEW r \in Rid, txn_state[t] # "NONE",
         NEW granted \in BOOLEAN, LM!AcquireForWrite(t, r, granted),
         LM!Refuse(t) \/ (granted /\ UNCHANGED txn_state)
  PROVE  LockStep /\ (granted => exclusive_lock_table'[r] = t)
<1>1. LM!LockForWrite(t, r)
  BY DEF LM!LockForWrite, LM!Active, LM!Outcome
<1>2. LockStep
  BY <1>1 DEF LockStep, LM!Next
<1>3. ASSUME granted PROVE exclusive_lock_table'[r] = t
  <2>1. CASE LM!KeepLocks /\ exclusive_lock_table[r] = t
    BY <2>1 DEF LM!KeepLocks, LM!tables
  <2>2. CASE LM!GrantExclusive(t, r)
    BY <2>2 DEF LM!GrantExclusive, LockInv, LM!TypeOK
  <2> QED BY <1>3, <2>1, <2>2 DEF LM!AcquireForWrite, LM!LockUpgrade, LM!LockExclusive,
             LM!IsExclusiveLocked, LockInv, LM!LockBookkeeping
<1> QED BY <1>2, <1>3

LEMMA ReadLock ==
  ASSUME LockInv, NEW t \in Txn, NEW r \in Rid, txn_state[t] # "NONE",
         NEW granted \in BOOLEAN, LM!AcquireForRead(t, r, granted),
         LM!Refuse(t) \/ (granted /\ UNCHANGED txn_state)
  PROVE  LockStep /\ (granted => t \in shared_lock_table'[r] \/ exclusive_lock_table'[r] = t)
<1>1. LM!LockForRead(t, r)
  BY DEF LM!LockForRead, LM!Active, LM!Outcome
<1>2. LockStep
  BY <1>1 DEF LockStep, LM!Next
<1>3. ASSUME granted PROVE t \in shared_lock_table'[r] \/ exclusive_lock_table'[r] = t
  <2>1. CASE LM!KeepLocks /\ (t \in shared_lock_table[r] \/ exclusive_lock_table[r] = t)
    BY <2>1 DEF LM!KeepLocks, LM!tables
  <2>2. CASE LM!GrantShared(t, r)
    BY <2>2 DEF LM!GrantShared, LockInv, LM!TypeOK
  <2> QED BY <1>3, <2>1, <2>2 DEF LM!AcquireForRead, LM!LockShared,
             LM!IsExclusiveLocked, LM!IsSharedLocked, LockInv, LM!LockBookkeeping
<1> QED BY <1>2, <1>3

LEMMA ReleaseStep ==
  ASSUME NEW t \in Txn, LM!ReleaseLocks(t) PROVE LockStep
BY DEF LockStep, LM!Next

LEMMA RefuseStep ==
  ASSUME NEW t \in Txn, txn_state[t] # "NONE", LM!Refuse(t), UNCHANGED lockVars PROVE LockStep
<1>1. LM!SetAborted(t)
  BY DEF LM!SetAborted, LM!Active, LM!KeepLocks, LM!tables, LM!lock_sets, lockVars
<1> QED BY <1>1 DEF LockStep, LM!Next

LEMMA NoLockStep == ASSUME UNCHANGED <<lockVars, txn_state>> PROVE LockStep
BY DEF LockStep, LM!vars, LM!tables, LM!lock_sets, lockVars

-----------------------------------------------------------------------------
(***************************************************************************)
(* The inductive invariant.                                                *)
(***************************************************************************)
OpState ==
  {Idle, [kind |-> "commit"], [kind |-> "abortMove"]}
    \cup [kind : {"move", "moved"}, rid : Rid, old : Value, new : Value]

PagesOK ==
  /\ pages \in Seq(Seq(SlotState))
  /\ freeSpacePointer \in Seq(Int) /\ Len(freeSpacePointer) = Len(pages)

TxnsOK ==
  /\ write_set \in [Txn -> Seq(WriteRecord)]
  /\ op \in [Txn -> OpState]
  /\ seen \in [Txn -> [Rid -> Value \cup {NoTuple, Unknown}]]

Slots == SlotsOf(pages)

Holds(t, r) == t \in shared_lock_table[r] \/ exclusive_lock_table[r] = t

\* The operation in progress fits the state of the transaction.
OpFitsState(t) ==
  /\ op[t].kind \in {"move", "moved", "commit"} => txn_state[t] = "GROWING"
  /\ op[t].kind = "abortMove" => /\ txn_state[t] = "ABORTED"
                                 /\ write_set[t] # <<>> /\ Moved(LastRecord(t))
  /\ txn_state[t] = "NONE" => write_set[t] = <<>>

\* What a transaction has written or is about to write exists and is its own.
OwnsWrites(t) ==
  /\ \A i \in DOMAIN write_set[t], r \in Rid :
       Touches(write_set[t][i], r) => SlotExists(r) /\ exclusive_lock_table[r] = t
  /\ op[t].kind \in {"move", "moved"} => SlotExists(op[t].rid) /\ exclusive_lock_table[op[t].rid] = t

\* Nobody changed the tuple since the update found that it must move it.
MoveIsCurrent(t) == op[t].kind = "move" => Slots[op[t].rid] = Live(op[t].old)

\* What Commit still has to free is marked or freed already.
RemovedWhenCommitting(t) ==
  op[t].kind = "commit" => \A i \in DOMAIN write_set[t] :
    write_set[t][i].wtype = "DELETE" \/ Moved(write_set[t][i]) =>
      ContentOf(Slots[write_set[t][i].rid1]) = NoTuple

\* What a transaction has been shown it still holds a lock on.
ReadsLocked(t) ==
  \A r \in Rid : seen[t][r] # Unknown => t \in Running /\ Holds(t, r)

TxnInv(t) ==
  /\ OpFitsState(t) /\ OwnsWrites(t) /\ Chained(Work(t), Slots)
  /\ MoveIsCurrent(t) /\ RemovedWhenCommitting(t) /\ ReadsLocked(t)

IInv == PagesOK /\ TxnsOK /\ LockInv /\ SpaceNeverNegative /\ \A t \in Txn : TxnInv(t)

-----------------------------------------------------------------------------
LEMMA OpFacts ==
  /\ Idle \in OpState /\ Idle.kind = "idle"
  /\ [kind |-> "commit"] \in OpState /\ [kind |-> "abortMove"] \in OpState
  /\ [kind |-> "commit"].kind = "commit" /\ [kind |-> "abortMove"].kind = "abortMove"
  /\ \A o \in OpState : o.kind \in OpKind /\ (o.kind = "idle" <=> o = Idle)
  /\ \A o \in OpState : o.kind \in {"move", "moved"} =>
       /\ o.rid \in Rid /\ o.old \in Value /\ o.new \in Value
       /\ o \in [kind : {"move", "moved"}, rid : Rid, old : Value, new : Value]
BY DEF OpState, OpKind, Idle

LEMMA FrontLast ==
  ASSUME NEW w \in Seq(WriteRecord), w # <<>>
  PROVE  /\ Front(w) \in Seq(WriteRecord) /\ Last(w) \in WriteRecord
         /\ w = Append(Front(w), Last(w))
         /\ Len(w) \in Nat \ {0} /\ DOMAIN w = 1..Len(w) /\ Last(w) = w[Len(w)]
         /\ DOMAIN Front(w) = 1..(Len(w) - 1)
         /\ \A i \in 1..(Len(w) - 1) : Front(w)[i] = w[i]
<1> HIDE DEF WriteRecord
<1>1. Len(w) \in Nat \ {0} /\ DOMAIN w = 1..Len(w) /\ Last(w) = w[Len(w)] /\ Last(w) \in WriteRecord
  BY DEF Last
<1>2. /\ Front(w) \in Seq(WriteRecord) /\ Len(Front(w)) = Len(w) - 1
      /\ DOMAIN Front(w) = 1..(Len(w) - 1)
      /\ \A i \in 1..(Len(w) - 1) : Front(w)[i] = w[i]
  BY <1>1 DEF Front
<1> DEFINE f == Front(w)
           l == Last(w)
           w2 == Append(f, l)
<1>3. f \in Seq(WriteRecord) /\ l \in WriteRecord /\ Len(f) + 1 = Len(w) /\ Len(f) \in Nat
  BY <1>1, <1>2
<1> HIDE DEF f, l
<1>4. /\ w2 \in Seq(WriteRecord) /\ Len(w2) = Len(w)
      /\ \A i \in 1..Len(f) : w2[i] = f[i]
      /\ w2[Len(f) + 1] = l
  BY <1>3, AppendRecord
<1> HIDE DEF w2
<1>5. \A i \in 1..Len(w) : w2[i] = w[i]
  BY <1>1, <1>2, <1>4 DEF f, l
<1>6. w = w2
  BY <1>1, <1>4, <1>5
<1> QED BY <1>1, <1>2, <1>6 DEF w2, f, l

\* The work is a sequence of write records, touching what the transaction owns.
LEMMA WorkFacts ==
  ASSUME TxnsOK, NEW t \in Txn, OpFitsState(t)
  PROVE  /\ Work(t) \in Seq(WriteRecord)
         /\ OwnsWrites(t) => \A r \in Rid : Writes(Work(t), r) =>
              SlotExists(r) /\ exclusive_lock_table[r] = t
<1>1. write_set[t] \in Seq(WriteRecord) /\ op[t] \in OpState
  BY DEF TxnsOK
<1>2. CASE op[t].kind = "commit"
  <2>1. Work(t) = <<>>
    BY <1>2 DEF Work
  <2> QED BY <2>1 DEF Writes
<1>3. CASE op[t].kind = "moved"
  <2> DEFINE d == Deletion(op[t].rid, op[t].old)
  <2>1. Work(t) = Append(write_set[t], d)
    BY <1>3 DEF Work
  <2>2. d \in WriteRecord /\ \A r : Touches(d, r) <=> r = op[t].rid
    BY <1>1, <1>3, OpFacts DEF Deletion, Record, WriteRecord, Touches
  <2> HIDE DEF d
  <2>3. \A r : Writes(Work(t), r) <=> (Writes(write_set[t], r) \/ r = op[t].rid)
    BY <1>1, <2>1, <2>2, AppendRecord DEF Writes
  <2> QED BY <1>1, <1>3, <2>1, <2>2, <2>3, AppendRecord DEF OwnsWrites, Writes
<1>4. CASE op[t].kind = "abortMove"
  <2> DEFINE d == Deletion(LastRecord(t).rid1, LastRecord(t).tuple1)
             f == Front(write_set[t])
  <2>0. write_set[t] # <<>>
    BY <1>4 DEF OpFitsState
  <2>1. Work(t) = Append(f, d)
    BY <1>4 DEF Work
  <2>2. d \in WriteRecord /\ \A r : Touches(d, r) => Touches(LastRecord(t), r)
    BY <1>1, <2>0, FrontLast DEF Deletion, Record, WriteRecord, Touches, LastRecord
  <2>3. /\ f \in Seq(WriteRecord) /\ \A r : Writes(f, r) => Writes(write_set[t], r)
        /\ \A r : Touches(LastRecord(t), r) => Writes(write_set[t], r)
    <3>1. /\ f \in Seq(WriteRecord) /\ DOMAIN f = 1..(Len(write_set[t]) - 1)
          /\ Len(write_set[t]) \in Nat \ {0} /\ DOMAIN write_set[t] = 1..Len(write_set[t])
          /\ \A i \in DOMAIN f : f[i] = write_set[t][i]
          /\ LastRecord(t) = write_set[t][Len(write_set[t])]
      BY <1>1, <2>0, FrontLast DEF LastRecord
    <3> HIDE DEF f
    <3> QED BY <3>1 DEF Writes
  <2> HIDE DEF d, f
  <2>4. \A r : Writes(Work(t), r) => Writes(write_set[t], r)
    BY <2>1, <2>2, <2>3, AppendRecord DEF Writes
  <2> QED BY <2>1, <2>2, <2>3, <2>4, AppendRecord DEF OwnsWrites, Writes
<1>5. CASE op[t].kind \notin {"commit", "moved", "abortMove"}
  <2>1. Work(t) = write_set[t]
    BY <1>5 DEF Work
  <2> QED BY <1>1, <2>1 DEF OwnsWrites, Writes
<1> QED BY <1>2, <1>3, <1>4, <1>5

OthersUnchanged(t) ==
  \A u \in Txn \ {t} : /\ write_set'[u] = write_set[u] /\ op'[u] = op[u]
                       /\ seen'[u] = seen[u] /\ txn_state'[u] = txn_state[u]

\* A step of t as others see it.
StepBy(t) ==
  /\ LockStep /\ OthersUnchanged(t)
  /\ \A r \in Rid : SlotExists(r) => SlotExists(r)'
  /\ \A r \in Rid : Slots'[r] # Slots[r] => exclusive_lock_table'[r] = t

LEMMA WorkUnchanged ==
  ASSUME NEW u, write_set'[u] = write_set[u], op'[u] = op[u]
  PROVE  Work(u)' = Work(u)
BY DEF Work, LastRecord

\* It leaves the others' part of the invariant alone: they own what they wrote.
LEMMA OthersKeepInv ==
  ASSUME IInv, NEW t \in Txn, StepBy(t), NEW u \in Txn, u # t
  PROVE  TxnInv(u)'
<1> USE DEF IInv
<1>1. /\ write_set'[u] = write_set[u] /\ op'[u] = op[u]
      /\ seen'[u] = seen[u] /\ txn_state'[u] = txn_state[u]
      /\ Work(u)' = Work(u)
  BY WorkUnchanged DEF StepBy, OthersUnchanged
<1>2. TxnInv(u) /\ write_set[u] \in Seq(WriteRecord) /\ op[u] \in OpState
  BY DEF TxnsOK
<1>3. OpFitsState(u)'
  BY <1>1, <1>2 DEF TxnInv, OpFitsState, LastRecord
<1>4. LockInv' /\ LockStep
  BY LockInvKept DEF StepBy
<1>5. ASSUME NEW r \in Rid, exclusive_lock_table[r] = u, txn_state[u] # "NONE"
      PROVE  exclusive_lock_table'[r] = u /\ Slots'[r] = Slots[r]
  <2>1. exclusive_lock_table'[r] = u
    BY <1>1, <1>4, <1>5, HeldLocksKept
  <2> QED BY <2>1 DEF StepBy
<1>6. write_set[u] # <<>> \/ op[u].kind \in {"move", "moved"} => txn_state[u] # "NONE"
  BY <1>2 DEF TxnInv, OpFitsState
<1>7. \A i \in DOMAIN write_set[u] : write_set[u] # <<>>
  BY <1>2
<1>8. OwnsWrites(u)'
  BY <1>1, <1>2, <1>5, <1>6, <1>7, OpFacts DEF TxnInv, OwnsWrites, StepBy
<1>9. Chained(Work(u)', Slots')
  <2>1. \A r \in Rid : Writes(Work(u), r) => exclusive_lock_table[r] = u /\ txn_state[u] # "NONE"
    <3> SUFFICES ASSUME NEW r \in Rid, Writes(Work(u), r)
                 PROVE  exclusive_lock_table[r] = u /\ txn_state[u] # "NONE"
      OBVIOUS
    <3>1. exclusive_lock_table[r] = u
      BY <1>2, WorkFacts DEF TxnInv
    <3> QED BY <3>1 DEF LockInv, LM!NoOrphanLocks, LM!Active
  <2>2. \A r \in Rid : Writes(Work(u), r) => Slots'[r] = Slots[r]
    BY <1>5, <2>1
  <2> QED BY <1>1, <1>2, <2>2, OthersKeepChain DEF TxnInv
<1>10. MoveIsCurrent(u)'
  BY <1>1, <1>2, <1>5, <1>6, OpFacts DEF TxnInv, MoveIsCurrent, OwnsWrites
<1>11. RemovedWhenCommitting(u)'
  <2>1. ASSUME NEW i \in DOMAIN write_set[u]
        PROVE  write_set[u][i].rid1 \in Rid /\ Slots'[write_set[u][i].rid1] = Slots[write_set[u][i].rid1]
    <3>1. write_set[u][i] \in WriteRecord /\ write_set[u][i].rid1 \in Rid
      BY <1>2 DEF WriteRecord
    <3> QED BY <3>1, <1>2, <1>5, <1>6, <1>7 DEF TxnInv, OwnsWrites, Touches
  <2> QED BY <1>1, <1>2, <2>1 DEF TxnInv, RemovedWhenCommitting
<1>12. ReadsLocked(u)'
  <2> SUFFICES ASSUME NEW r \in Rid, seen[u][r] # Unknown
               PROVE  (u \in Running)' /\ Holds(u, r)'
    BY <1>1 DEF ReadsLocked
  <2>1. u \in Running /\ Holds(u, r)
    BY <1>2 DEF TxnInv, ReadsLocked
  <2>2. txn_state[u] # "NONE" /\ (u \in Running)'
    BY <1>1, <2>1 DEF Running
  <2> QED BY <1>1, <1>4, <2>1, <2>2, HeldLocksKept DEF Holds
<1> QED BY <1>1, <1>3, <1>8, <1>9, <1>10, <1>11, <1>12 DEF TxnInv

-----------------------------------------------------------------------------
(***************************************************************************)
(* What the page operations do to the slots and to the space.              *)
(***************************************************************************)
LEMMA SlotsAndPages ==
  ASSUME NEW r \in Rid
  PROVE  /\ SlotExists(r) <=> ExistsIn(pages, r)
         /\ SlotExists(r) => Slots[r] = Slot(r)
         /\ ~SlotExists(r) => Slots[r] = FreeSlot
         /\ Content(r) = ContentOf(Slots[r])
BY DEF SlotExists, ExistsIn, Slots, SlotsOf, Slot, Content, ContentOf, IsDeleted, FreeSlot

LEMMA SlotTypes ==
  ASSUME PagesOK, NEW r \in Rid
  PROVE  Slots[r] \in SlotState /\ (SlotExists(r) => Slot(r) \in SlotState)
<1>1. FreeSlot \in SlotState
  BY SlotFacts
<1>2. ASSUME ExistsIn(pages, r) PROVE pages[r[1]][r[2]] \in SlotState
  <2>1. pages \in Seq(Seq(SlotState)) /\ r[1] \in DOMAIN pages /\ r[2] \in DOMAIN pages[r[1]]
    BY <1>2 DEF PagesOK, ExistsIn
  <2>2. pages[r[1]] \in Seq(SlotState)
    BY <2>1
  <2> QED BY <2>1, <2>2
<1> QED BY <1>1, <1>2 DEF Slots, SlotsOf, ExistsIn, SlotExists, Slot

LEMMA TupleSizes ==
  /\ \A v \in Value, b \in BOOLEAN : TupleSize([tuple |-> v, deleted |-> b]) = Size[v] /\ Size[v] \in Nat
  /\ TupleSize(FreeSlot) = 0
  /\ \A s \in SlotState : TupleSize(s) \in Nat
  /\ \A s \in SlotState : s.tuple # NoTuple => TupleSize(s) = Size[s.tuple]
BY SizeAssumption DEF TupleSize, FreeSlot, SlotState

LEMMA SlotBytes == \A n \in Nat : SlotCost * n \in Nat /\ SlotCost * (n + 1) = SlotCost * n + SlotCost
BY SizeAssumption

LEMMA SpaceIsInt ==
  ASSUME PagesOK, NEW p \in DOMAIN pages PROVE FreeSpaceRemaining(p) \in Int
<1>1. Len(pages[p]) \in Nat /\ p \in DOMAIN freeSpacePointer
  BY DEF PagesOK
<1>2. freeSpacePointer[p] \in Int /\ SlotCost * Len(pages[p]) \in Int
  BY <1>1, SlotBytes DEF PagesOK
<1> QED BY <1>2 DEF FreeSpaceRemaining

LEMMA PutEffect ==
  ASSUME PagesOK, SpaceNeverNegative, NEW r \in Rid, SlotExists(r), NEW s \in SlotState, Put(r, s),
         FreeSpaceRemaining(r[1]) + TupleSize(Slot(r)) >= TupleSize(s)
  PROVE  /\ PagesOK' /\ SpaceNeverNegative'
         /\ \A q \in Rid : SlotExists(q)' <=> SlotExists(q)
         /\ Slots' = [Slots EXCEPT ![r] = s]
<1> DEFINE p == r[1]
           page == [pages[p] EXCEPT ![r[2]] = s]
<1>1. /\ p \in DOMAIN pages /\ r[2] \in DOMAIN pages[p] /\ pages[p] \in Seq(SlotState)
      /\ pages \in Seq(Seq(SlotState))
  BY DEF SlotExists, PagesOK
<1>2. DiffersAt(pages[p], r[2], s, page) /\ Len(page) = Len(pages[p])
  BY <1>1 DEF DiffersAt
<1>3. pages' = [pages EXCEPT ![p] = page]
  BY DEF Put
<1> HIDE DEF page
<1>4. /\ Len(pages') = Len(pages) /\ DOMAIN pages' = DOMAIN pages
      /\ pages'[p] = page /\ \A q \in DOMAIN pages : q # p => pages'[q] = pages[q]
      /\ SetAt(pages, r, s, pages')
  <2>1. PageReplaced(pages, r, s, page)
    BY <1>1, <1>2, ReplaceSlot
  <2> QED BY <1>3, <2>1, Zenon DEF PageReplaced
<1>5. \A q \in Rid : SlotExists(q)' <=> SlotExists(q)
  BY <1>4 DEF SlotExists, ExistsIn, SetAt
<1>6. /\ freeSpacePointer \in Seq(Int) /\ Len(freeSpacePointer) = Len(pages)
      /\ p \in DOMAIN freeSpacePointer /\ DOMAIN freeSpacePointer = DOMAIN pages
  BY <1>1 DEF PagesOK
<1>7. TupleSize(Slot(r)) \in Nat /\ TupleSize(s) \in Nat
  BY SlotTypes, TupleSizes
<1>8. /\ freeSpacePointer' \in Seq(Int) /\ Len(freeSpacePointer') = Len(pages)
      /\ freeSpacePointer'[p] = freeSpacePointer[p] + TupleSize(Slot(r)) - TupleSize(s)
      /\ \A q \in DOMAIN pages : q # p => freeSpacePointer'[q] = freeSpacePointer[q]
  BY <1>6, <1>7 DEF Put
<1>9. SpaceNeverNegative'
  <2> SUFFICES ASSUME NEW q \in DOMAIN pages PROVE FreeSpaceRemaining(q)' >= 0
    BY <1>4 DEF SpaceNeverNegative
  <2>1. CASE q # p
    BY <1>4, <1>8, <2>1 DEF SpaceNeverNegative, FreeSpaceRemaining
  <2>2. CASE q = p
    <3>a. Len(pages[p]) \in Nat
      BY <1>1
    <3>b. freeSpacePointer[p] \in Int
      BY <1>6
    <3>c. SlotCost * Len(pages[p]) \in Int
      <4> DEFINE n == Len(pages[p])
      <4>1. n \in Nat /\ SlotCost \in Nat
        BY <3>a, SizeAssumption
      <4> HIDE DEF n
      <4>2. SlotCost * n \in Int
        BY ONLY <4>1
      <4> QED BY ONLY <4>2 DEF n
    <3>1. Len(pages[p]) \in Nat /\ SlotCost * Len(pages[p]) \in Int /\ freeSpacePointer[p] \in Int
      BY ONLY <3>a, <3>b, <3>c
    <3>2. FreeSpaceRemaining(q)' = FreeSpaceRemaining(p) + TupleSize(Slot(r)) - TupleSize(s)
      BY <1>2, <1>4, <1>7, <1>8, <2>2, <3>1 DEF FreeSpaceRemaining
    <3> QED BY <1>7, <3>1, <3>2 DEF FreeSpaceRemaining
  <2> QED BY <2>1, <2>2
<1> QED BY <1>4, <1>5, <1>8, <1>9 DEF PagesOK, Slots, SetAt

\* An insert fills a free slot, of this or of a new page.
LEMMA HeapInsertEffect ==
  ASSUME PagesOK, SpaceNeverNegative, NEW t, NEW v \in Value, NEW r \in Rid, HeapInsert(t, v, r)
  PROVE  /\ PagesOK' /\ SpaceNeverNegative' /\ LM!LockExclusive(t, r, TRUE)
         /\ \A q \in Rid : SlotExists(q)' <=> (q = r \/ SlotExists(q))
         /\ Slots[r] = FreeSlot /\ Slots' = [Slots EXCEPT ![r] = Live(v)]
<1> DEFINE s == Live(v)
           fsp == freeSpacePointer
<1>0. /\ s \in SlotState /\ Size[v] \in Nat
      /\ SlotCost \in Nat /\ PageCapacity \in Nat /\ Size[v] + SlotCost <= PageCapacity
  BY SlotFacts, SizeAssumption DEF Live
<1>a. pages \in Seq(Seq(SlotState)) /\ DOMAIN pages = 1..Len(pages) /\ Len(pages) \in Nat
  BY DEF PagesOK
<1>b. fsp \in Seq(Int) /\ Len(fsp) = Len(pages) /\ DOMAIN fsp = DOMAIN pages
  BY DEF PagesOK
<1> HIDE DEF s
<1>1. CASE r[1] \in DOMAIN pages /\ r[2] = FindSlot(pages[r[1]]) /\ InsertInto(t, r[1], v)
  <2> DEFINE p == r[1]
             old == pages[p]
             page == SetSlot(old, r[2], s)
  <2>1. old \in Seq(SlotState) /\ p \in DOMAIN pages
    BY <1>a, <1>1
  <2>2. pages' = [pages EXCEPT ![p] = page] /\ fsp' = [fsp EXCEPT ![p] = @ - Size[v]]
    BY <1>1 DEF InsertInto, s
  <2>c. FreeSpaceRemaining(p) >= Size[v] + SlotCost /\ LM!LockExclusive(t, <<p, r[2]>>, TRUE)
    BY <1>1 DEF InsertInto, Fits
  <2>d. r[2] = FindSlot(old)
    BY <1>1
  <2> HIDE DEF old
  <2>e. r[2] \in 1..(Len(old) + 1) /\ (r[2] \in DOMAIN old => old[r[2]] = FreeSlot) /\ Len(old) \in Nat
    BY <2>1, <2>d, FindSlotFound
  <2>3. DiffersAt(old, r[2], s, page)
    BY <1>0, <2>1, <2>e, SetSlotEffect
  <2> HIDE DEF page
  <2>5. /\ Len(pages') = Len(pages) /\ DOMAIN pages' = DOMAIN pages
        /\ pages'[p] = page /\ \A q \in DOMAIN pages : q # p => pages'[q] = pages[q]
        /\ SetAt(pages, r, s, pages')
    <3>1. PageReplaced(pages, r, s, page)
      BY <1>0, <1>a, <2>1, <2>3, ReplaceSlot DEF old
    <3> QED BY <2>2, <3>1, Zenon DEF PageReplaced
  <2>6. \A q \in Rid : SlotExists(q)' <=> (q = r \/ SlotExists(q))
    BY <2>5 DEF SlotExists, ExistsIn, SetAt
  <2>7. Slots[r] = FreeSlot
    BY <2>e DEF Slots, SlotsOf, ExistsIn, old
  <2>8. /\ fsp' \in Seq(Int) /\ Len(fsp') = Len(pages)
        /\ fsp'[p] = fsp[p] - Size[v]
        /\ \A q \in DOMAIN pages : q # p => fsp'[q] = fsp[q]
    BY <1>0, <1>b, <2>1, <2>2
  <2>9. SpaceNeverNegative'
    <3> SUFFICES ASSUME NEW q \in DOMAIN pages PROVE FreeSpaceRemaining(q)' >= 0
      BY <2>5 DEF SpaceNeverNegative
    <3>1. CASE q # p
      BY <2>5, <2>8, <3>1 DEF SpaceNeverNegative, FreeSpaceRemaining
    <3>2. CASE q = p
      <4> DEFINE a == SlotCost * Len(old)
                 b == SlotCost * Len(page)
      <4>1. fsp[p] - a >= Size[v] + SlotCost
        BY <2>c DEF FreeSpaceRemaining, old
      <4>2. fsp[p] \in Int
        BY <1>b, <2>1
      <4>6. a \in Int
        BY <2>e, SlotBytes
      <4>3. Len(page) = Len(old) \/ Len(page) = Len(old) + 1
        BY <2>3 DEF DiffersAt
      <4>4. b = a \/ b = a + SlotCost
        BY <2>e, <4>3, SlotBytes
      <4>5. FreeSpaceRemaining(q)' = (fsp[p] - Size[v]) - b
        BY <2>5, <2>8, <3>2 DEF FreeSpaceRemaining
      <4> HIDE DEF a, b
      <4> QED BY <1>0, <4>1, <4>2, <4>4, <4>5, <4>6
    <3> QED BY <3>1, <3>2
  <2>10. LM!LockExclusive(t, r, TRUE)
    BY <2>c, RidPair, Zenon
  <2> QED BY <2>5, <2>6, <2>7, <2>8, <2>9, <2>10 DEF PagesOK, Slots, SetAt, s
<1>2. CASE r = <<Len(pages) + 1, 1>> /\ InsertIntoNewPage(t, v)
  <2>1. /\ pages' = Append(pages, <<s>>) /\ LM!LockExclusive(t, r, TRUE)
        /\ fsp' = Append(fsp, PageCapacity - Size[v])
    BY <1>2 DEF InsertIntoNewPage, s
  <2>2. /\ Len(pages') = Len(pages) + 1 /\ DOMAIN pages' = 1..(Len(pages) + 1)
        /\ pages'[Len(pages) + 1] = <<s>> /\ \A q \in DOMAIN pages : pages'[q] = pages[q]
        /\ ~ExistsIn(pages, r) /\ SetAt(pages, r, s, pages')
    <3>1. PageAdded(pages, r, s)
      BY <1>0, <1>a, <1>2, AddPage
    <3> QED BY <2>1, <3>1, Zenon DEF PageAdded
  <2>3. \A q \in Rid : SlotExists(q)' <=> (q = r \/ SlotExists(q))
    BY <2>2 DEF SlotExists, ExistsIn, SetAt
  <2>4. Slots[r] = FreeSlot
    BY <2>2 DEF Slots, SlotsOf
  <2>5. /\ fsp' \in Seq(Int) /\ Len(fsp') = Len(pages) + 1
        /\ fsp'[Len(pages) + 1] = PageCapacity - Size[v]
        /\ \A q \in DOMAIN pages : fsp'[q] = fsp[q]
    BY <1>0, <1>a, <1>b, <2>1
  <2>6. SpaceNeverNegative'
    <3> SUFFICES ASSUME NEW q \in DOMAIN pages' PROVE FreeSpaceRemaining(q)' >= 0
      BY DEF SpaceNeverNegative
    <3>1. CASE q \in DOMAIN pages
      BY <2>2, <2>5, <3>1 DEF SpaceNeverNegative, FreeSpaceRemaining
    <3>2. CASE q = Len(pages) + 1
      <4>1. Len(pages'[q]) = 1
        BY <2>2, <3>2
      <4>2. SlotCost * 1 = SlotCost
        BY <1>0
      <4>3. FreeSpaceRemaining(q)' = (PageCapacity - Size[v]) - SlotCost
        BY <2>5, <3>2, <4>1, <4>2 DEF FreeSpaceRemaining
      <4> QED BY <1>0, <4>3
    <3> QED BY <1>a, <2>2, <3>1, <3>2
  <2> QED BY <2>1, <2>2, <2>3, <2>4, <2>5, <2>6 DEF PagesOK, Slots, SetAt, s
<1> QED BY <1>1, <1>2 DEF HeapInsert

-----------------------------------------------------------------------------
(***************************************************************************)
(* The kinds of steps.  Every action but the first of Commit leaves what   *)
(* was there before its transaction's work unchanged; the actions add a    *)
(* record to the work, take the last one back or replace it, or touch      *)
(* neither the work nor the pages.                                         *)
(***************************************************************************)
\* What holds of every step of t.
Frame(t) == LockStep /\ OthersUnchanged(t) /\ TxnsOK' /\ PagesOK' /\ SpaceNeverNegative'

\* What it keeps.
Effect(t) == StepBy(t) /\ TxnsOK' /\ PagesOK' /\ SpaceNeverNegative' /\ TxnInv(t)'

KeepsOriginal(t) == \A r \in Rid : Original(Work(t)', Slots', r) = Original(Work(t), Slots, r)

GoesOn(t) == txn_state[t] # "NONE" /\ txn_state'[t] # "NONE"

LEMMA TxnTypes ==
  ASSUME IInv, NEW t \in Txn
  PROVE  /\ write_set[t] \in Seq(WriteRecord) /\ op[t] \in OpState /\ op[t].kind \in OpKind
         /\ seen[t] \in [Rid -> Value \cup {NoTuple, Unknown}]
         /\ txn_state[t] \in {"NONE", "GROWING", "ABORTED"} /\ txn_state \in [Txn -> LM!TxnState]
         /\ Work(t) \in Seq(WriteRecord) /\ TxnInv(t)
<1>1. write_set[t] \in Seq(WriteRecord) /\ op[t] \in OpState /\ TxnInv(t)
  BY DEF IInv, TxnsOK
<1>2. Work(t) \in Seq(WriteRecord)
  BY <1>1, WorkFacts DEF IInv, TxnInv
<1>3. txn_state[t] \in {"NONE", "GROWING", "ABORTED"} /\ txn_state \in [Txn -> LM!TxnState]
  BY DEF IInv, LockInv, LM!TypeOK, LM!TxnState
<1> QED BY <1>1, <1>2, <1>3, OpFacts DEF IInv, TxnsOK

LEMMA SlotsAreFunction ==
  ASSUME PagesOK PROVE Slots \in [Rid -> SlotState]
<1>1. \A r \in Rid : Slots[r] \in SlotState
  BY SlotTypes
<1> QED BY <1>1 DEF Slots, SlotsOf

LEMMA SlotsTyped == PagesOK => Slots \in [Rid -> SlotState]
BY SlotsAreFunction

LEMMA LocksGoOn ==
  ASSUME IInv, NEW t \in Txn, LockStep, GoesOn(t)
  PROVE  \A r \in Rid : /\ exclusive_lock_table[r] = t => exclusive_lock_table'[r] = t
                        /\ Holds(t, r) => Holds(t, r)'
BY HeldLocksKept DEF IInv, GoesOn, Holds

\* A step that changes no page and no work.
LEMMA QuietStep ==
  ASSUME IInv, NEW t \in Txn, LockStep, OthersUnchanged(t), TxnsOK', UNCHANGED pageVars,
         Work(t)' = Work(t), OpFitsState(t)', OwnsWrites(t)', MoveIsCurrent(t)',
         RemovedWhenCommitting(t)', ReadsLocked(t)'
  PROVE  Effect(t) /\ KeepsOriginal(t)
<1>1. UNCHANGED <<pages, freeSpacePointer>>
  BY DEF pageVars
<1>2. Slots' = Slots /\ \A r \in Rid : SlotExists(r)' <=> SlotExists(r)
  BY <1>1 DEF Slots, SlotExists
<1>3. PagesOK' /\ SpaceNeverNegative'
  BY <1>1 DEF IInv, PagesOK, SpaceNeverNegative, FreeSpaceRemaining
<1>4. Chained(Work(t)', Slots')
  BY <1>2, TxnTypes DEF TxnInv
<1>5. TxnInv(t)'
  BY <1>4 DEF TxnInv
<1>6. StepBy(t)
  BY <1>2 DEF StepBy
<1> QED BY <1>2, <1>3, <1>5, <1>6 DEF Effect, KeepsOriginal

LEMMA DoesOne ==
  ASSUME NEW S \in [Rid -> SlotState], NEW S2 \in [Rid -> SlotState], NEW r \in Rid, NEW wr,
         wr.rid1 = r, wr.rid2 = r, S[r] = Found(wr, r), S2[r] = Left(wr, r),
         \A q \in Rid : q # r => S2[q] = S[q]
  PROVE  Does(S, wr, S2)
BY DEF Does, Touches

\* What the last record of the work left is there.
LEMMA LastLeft ==
  ASSUME NEW w \in Seq(WriteRecord), NEW wr \in WriteRecord, NEW S,
         Chained(Append(w, wr), S), NEW r \in Rid, Touches(wr, r)
  PROVE  S[r] = Left(wr, r)
<1> DEFINE w2 == Append(w, wr)
           n == Len(w) + 1
<1>1. DOMAIN w2 = 1..n /\ n \in 1..n /\ w2[n] = wr /\ Chained(w2, S)
  BY AppendRecord
<1> HIDE DEF w2
<1>2. LastTouch(w2, n, r)
  BY <1>1 DEF LastTouch
<1> QED BY <1>1, <1>2 DEF Chained

\* Of two transactions that wrote a rid each owns it.
LEMMA NoCommonWrites ==
  ASSUME IInv, NEW t \in Txn, NEW r \in Rid, Writes(Work(t), r)
  PROVE  SlotExists(r) /\ exclusive_lock_table[r] = t /\ \A u \in Txn \ {t} : ~Writes(Work(u), r)
<1>1. \A u \in Txn : Writes(Work(u), r) => SlotExists(r) /\ exclusive_lock_table[r] = u
  BY WorkFacts DEF IInv, TxnInv
<1> QED BY <1>1

\* Record wr, of one rid, is added to the work of t.
AddsRecord(t, wr, r) ==
  /\ Frame(t) /\ txn_state[t] = "GROWING" /\ txn_state' = txn_state
  /\ wr \in WriteRecord /\ wr.rid1 = r /\ wr.rid2 = r
  /\ exclusive_lock_table'[r] = t
  /\ \A q \in Rid : SlotExists(q)' <=> (q = r \/ SlotExists(q))
  /\ Slots[r] = Found(wr, r) /\ Slots' = [Slots EXCEPT ![r] = Left(wr, r)]
  /\ Work(t)' = Append(Work(t), wr)
  /\ seen' = [seen EXCEPT ![t][r] = Unknown]

LEMMA AddedRecord ==
  ASSUME IInv, NEW t \in Txn, NEW wr, NEW r \in Rid, AddsRecord(t, wr, r)
  PROVE  /\ StepBy(t) /\ Chained(Work(t)', Slots') /\ KeepsOriginal(t) /\ GoesOn(t)
         /\ \A i \in DOMAIN write_set[t], q \in Rid :
              Touches(write_set[t][i], q) => SlotExists(q)' /\ exclusive_lock_table'[q] = t
<1>1. Work(t) \in Seq(WriteRecord) /\ TxnInv(t) /\ wr \in WriteRecord
  BY TxnTypes DEF AddsRecord
<1>2. Slots \in [Rid -> SlotState] /\ Left(wr, r) \in SlotState
  BY <1>1, SlotsAreFunction, FoundLeft DEF IInv
<1>3. Slots' \in [Rid -> SlotState] /\ Slots'[r] = Left(wr, r) /\ \A q \in Rid : q # r => Slots'[q] = Slots[q]
  BY <1>2 DEF AddsRecord
<1>4. Does(Slots, wr, Slots')
  BY <1>2, <1>3, DoesOne DEF AddsRecord
<1>5. Chained(Work(t)', Slots')
  BY <1>1, <1>4, DoesKeepsChain DEF AddsRecord, TxnInv
<1>6. KeepsOriginal(t)
  BY <1>1, <1>4, DoesKeepsOriginal DEF AddsRecord, KeepsOriginal
<1>7. StepBy(t)
  BY <1>3 DEF AddsRecord, Frame, StepBy
<1>8. GoesOn(t) /\ LockStep
  BY DEF AddsRecord, GoesOn, Frame
<1> QED BY <1>1, <1>5, <1>6, <1>7, <1>8, LocksGoOn DEF TxnInv, OwnsWrites, AddsRecord

\* The last record of the work of t, of one rid, is taken back.
UndoesRecord(t, wr, r) ==
  /\ Frame(t) /\ txn_state[t] = "ABORTED" /\ UNCHANGED <<lockVars, txn_state, seen>>
  /\ wr \in WriteRecord /\ wr.rid1 = r /\ wr.rid2 = r
  /\ \A q \in Rid : SlotExists(q)' <=> SlotExists(q)
  /\ Slots' = [Slots EXCEPT ![r] = Found(wr, r)]
  /\ Work(t)' \in Seq(WriteRecord) /\ Work(t) = Append(Work(t)', wr)
  /\ write_set[t] # <<>> /\ write_set'[t] = Front(write_set[t]) /\ op'[t] = Idle

LEMMA UndoneRecord ==
  ASSUME IInv, NEW t \in Txn, NEW wr, NEW r \in Rid, UndoesRecord(t, wr, r)
  PROVE  Effect(t) /\ KeepsOriginal(t)
<1> DEFINE w == Work(t)'
<1>1. /\ write_set[t] \in Seq(WriteRecord) /\ TxnInv(t) /\ wr \in WriteRecord
      /\ w \in Seq(WriteRecord) /\ Work(t) = Append(w, wr) /\ Chained(Work(t), Slots)
  BY TxnTypes DEF UndoesRecord, TxnInv
<1>2. Slots \in [Rid -> SlotState] /\ Found(wr, r) \in SlotState
  BY <1>1, SlotsAreFunction, FoundLeft DEF IInv
<1>3. Slots' \in [Rid -> SlotState] /\ Slots'[r] = Found(wr, r) /\ \A q \in Rid : q # r => Slots[q] = Slots'[q]
  BY <1>2 DEF UndoesRecord
<1> HIDE DEF w
<1>4. Slots[r] = Left(wr, r) /\ wr.rid1 = r /\ wr.rid2 = r
  BY <1>1, LastLeft DEF UndoesRecord, Touches
<1>5. Does(Slots', wr, Slots)
  BY <1>2, <1>3, <1>4, DoesOne
<1>6. Chained(w, Slots')
  BY <1>1, <1>5, UndoKeepsChain
<1>7. KeepsOriginal(t)
  BY <1>1, <1>5, DoesKeepsOriginal DEF KeepsOriginal, w
<1>8. Writes(Work(t), r)
  BY <1>1, <1>4, AppendRecord DEF Writes, Touches
<1>9. exclusive_lock_table[r] = t /\ UNCHANGED <<exclusive_lock_table, shared_lock_table, txn_state, seen>>
  BY <1>8, NoCommonWrites DEF UndoesRecord, lockVars
<1>10. StepBy(t)
  BY <1>3, <1>9 DEF UndoesRecord, Frame, StepBy
<1>11. /\ DOMAIN write_set'[t] \subseteq DOMAIN write_set[t]
       /\ \A i \in DOMAIN write_set'[t] : write_set'[t][i] = write_set[t][i]
  <2> DEFINE ws == write_set[t]
  <2>1. ws \in Seq(WriteRecord) /\ ws # <<>> /\ write_set'[t] = Front(ws)
    BY <1>1 DEF UndoesRecord
  <2> HIDE DEF ws
  <2>2. DOMAIN ws = 1..Len(ws) /\ DOMAIN Front(ws) = 1..(Len(ws) - 1) /\ Len(ws) \in Nat
        /\ \A i \in 1..(Len(ws) - 1) : Front(ws)[i] = ws[i]
    BY <2>1, FrontLast
  <2> QED BY <2>1, <2>2 DEF ws
<1>12. op'[t].kind = "idle" /\ txn_state'[t] = "ABORTED" /\ \A q \in Rid : SlotExists(q)' <=> SlotExists(q)
  BY <1>9, OpFacts DEF UndoesRecord
<1>13. OpFitsState(t)' /\ OwnsWrites(t)' /\ MoveIsCurrent(t)' /\ RemovedWhenCommitting(t)'
  BY <1>1, <1>9, <1>11, <1>12 DEF TxnInv, OpFitsState, OwnsWrites, MoveIsCurrent, RemovedWhenCommitting
<1>14. ReadsLocked(t)'
  BY <1>1, <1>9, <1>12 DEF TxnInv, ReadsLocked, Running, UndoesRecord
<1>15. TxnInv(t)'
  BY <1>6, <1>13, <1>14 DEF TxnInv, w
<1> QED BY <1>7, <1>10, <1>15 DEF Effect, UndoesRecord, Frame

SameWork(w, d, S, u, S2) ==
  /\ d \in WriteRecord /\ u \in WriteRecord
  /\ Chained(Append(w, d), S) <=> Chained(Append(w, u), S2)
  /\ \A q \in Rid : Original(Append(w, d), S, q) = Original(Append(w, u), S2, q)

\* A deletion becomes half of an update that moves the tuple to r, or the
\* other way round.
LEMMA MoveRecords ==
  ASSUME NEW w \in Seq(WriteRecord), NEW rid \in Rid, NEW r \in Rid, NEW old \in Value, NEW new \in Value,
         NEW S \in [Rid -> SlotState], NEW S2 \in [Rid -> SlotState], rid # r,
         S[rid] = MarkedSlot(old), S[r] = FreeSlot, S2[r] = Live(new),
         \A q \in Rid : q # r => S2[q] = S[q]
  PROVE  SameWork(w, Deletion(rid, old), S, Record("UPDATE", rid, r, old, new), S2)
<1> DEFINE d == Deletion(rid, old)
           u == Record("UPDATE", rid, r, old, new)
           S0 == [S EXCEPT ![rid] = Live(old)]
<1>1. d \in WriteRecord /\ u \in WriteRecord
  BY DEF Deletion, Record, WriteRecord
<1>2. S0 \in [Rid -> SlotState] /\ S0[rid] = Live(old) /\ \A q \in Rid : q # rid => S0[q] = S[q]
  BY SlotFacts DEF Live
<1>3. /\ \A q : Touches(d, q) <=> q = rid
      /\ \A q : Touches(u, q) <=> (q = rid \/ q = r)
  BY DEF Deletion, Record, Touches
<1>4. Found(d, rid) = Live(old) /\ Left(d, rid) = MarkedSlot(old)
  BY DEF Deletion, Record, Found, Left
<1>5. Found(u, rid) = Live(old) /\ Left(u, rid) = MarkedSlot(old) /\ Found(u, r) = FreeSlot /\ Left(u, r) = Live(new)
  BY DEF Record, Found, Left
<1> HIDE DEF d, u, S0
<1>6. Does(S0, d, S) /\ Does(S0, u, S2)
  BY <1>2, <1>3, <1>4, <1>5 DEF Does
<1>7. Chained(Append(w, d), S) <=> Chained(Append(w, u), S2)
  <2>1. Chained(w, S0) => Chained(Append(w, d), S) /\ Chained(Append(w, u), S2)
    BY <1>1, <1>6, DoesKeepsChain
  <2>2. Chained(Append(w, d), S) \/ Chained(Append(w, u), S2) => Chained(w, S0)
    BY <1>1, <1>6, UndoKeepsChain
  <2> QED BY <2>1, <2>2
<1>8. \A q \in Rid : Original(Append(w, d), S, q) = Original(Append(w, u), S2, q)
  BY <1>1, <1>6, DoesKeepsOriginal
<1> QED BY <1>1, <1>7, <1>8 DEF SameWork, d, u

-----------------------------------------------------------------------------
(***************************************************************************)
(* The actions: reading, writing, failing.                                 *)
(***************************************************************************)
LEMMA SeenSet ==
  ASSUME TxnsOK, NEW t \in Txn, NEW r \in Rid, NEW v \in Value \cup {NoTuple, Unknown}, Saw(t, r, v)
  PROVE  /\ seen' \in [Txn -> [Rid -> Value \cup {NoTuple, Unknown}]]
         /\ \A u \in Txn : u # t => seen'[u] = seen[u]
         /\ seen'[t][r] = v /\ \A q \in Rid : q # r => seen'[t][q] = seen[t][q]
BY DEF TxnsOK, Saw

LEMMA SeenForgotten ==
  ASSUME TxnsOK, NEW t \in Txn, ForgetReads(t)
  PROVE  /\ seen' \in [Txn -> [Rid -> Value \cup {NoTuple, Unknown}]]
         /\ \A u \in Txn : u # t => seen'[u] = seen[u]
         /\ \A r \in Rid : seen'[t][r] = Unknown
BY DEF TxnsOK, ForgetReads

LEMMA BeginEffect ==
  ASSUME IInv, NEW t \in Txn, Begin(t)
  PROVE  Effect(t) /\ KeepsOriginal(t) /\ Work(t) = <<>> /\ Work(t)' = <<>>
<1>1. /\ txn_state[t] = "NONE" /\ txn_state' = [txn_state EXCEPT ![t] = "GROWING"]
      /\ LM!KeepLocks /\ UNCHANGED <<pageVars, seen>>
      /\ write_set' = [write_set EXCEPT ![t] = <<>>] /\ op' = [op EXCEPT ![t] = Idle]
  BY DEF Begin, LM!Begin, SetOp
<1>2. TxnInv(t) /\ op[t].kind \in OpKind /\ TxnsOK /\ txn_state \in [Txn -> LM!TxnState]
  BY TxnTypes DEF IInv
<1>3. write_set[t] = <<>> /\ op[t].kind = "idle"
  BY <1>1, <1>2 DEF TxnInv, OpFitsState, OpKind
<1>4. write_set'[t] = <<>> /\ op'[t] = Idle /\ op'[t].kind = "idle" /\ txn_state'[t] = "GROWING"
  BY <1>1, <1>2, OpFacts DEF TxnsOK
<1>5. TxnsOK' /\ OthersUnchanged(t)
  <2>1. write_set' \in [Txn -> Seq(WriteRecord)]
    BY <1>1, <1>2 DEF TxnsOK
  <2>2. op' \in [Txn -> OpState]
    BY <1>1, <1>2, OpFacts DEF TxnsOK
  <2> QED BY <1>1, <1>2, <2>1, <2>2 DEF TxnsOK, OthersUnchanged
<1>6. Work(t) = <<>> /\ Work(t)' = <<>>
  BY <1>3, <1>4 DEF Work
<1>7. LockStep
  <2>1. LM!Begin(t)
    BY DEF Begin
  <2> QED BY <2>1 DEF LockStep, LM!Next
<1>8. OpFitsState(t)' /\ OwnsWrites(t)' /\ MoveIsCurrent(t)' /\ RemovedWhenCommitting(t)'
  BY <1>4 DEF OpFitsState, OwnsWrites, MoveIsCurrent, RemovedWhenCommitting
<1>9. ReadsLocked(t)'
  BY <1>1, <1>2 DEF TxnInv, ReadsLocked, Running
<1> QED BY <1>1, <1>5, <1>6, <1>7, <1>8, <1>9, QuietStep

\* The step that sets ABORTED.
Aborts(t) ==
  /\ LockStep /\ txn_state[t] = "GROWING" /\ op[t].kind \in {"idle", "move"}
  /\ SetAborted(t) /\ UNCHANGED <<pageVars, write_set>>
  /\ op' \in [Txn -> OpState] /\ op'[t] = Idle /\ \A u \in Txn \ {t} : op'[u] = op[u]

LEMMA AbortsEffect ==
  ASSUME IInv, NEW t \in Txn, Aborts(t)
  PROVE  Effect(t) /\ KeepsOriginal(t) /\ Work(t)' = Work(t)
<1>1. TxnInv(t) /\ TxnsOK /\ txn_state \in [Txn -> LM!TxnState] /\ write_set' = write_set
  BY TxnTypes DEF IInv, Aborts
<1>2. /\ txn_state'[t] = "ABORTED" /\ txn_state[t] = "GROWING" /\ GoesOn(t)
      /\ op'[t] = Idle /\ op'[t].kind = "idle" /\ op[t].kind \in {"idle", "move"}
      /\ \A u \in Txn : u # t => txn_state'[u] = txn_state[u] /\ op'[u] = op[u]
  BY <1>1, OpFacts DEF Aborts, SetAborted, GoesOn
<1>3. /\ seen' \in [Txn -> [Rid -> Value \cup {NoTuple, Unknown}]]
      /\ \A u \in Txn : u # t => seen'[u] = seen[u]
      /\ \A r \in Rid : seen'[t][r] = Unknown
  BY <1>1, SeenForgotten DEF Aborts, SetAborted
<1>4. TxnsOK' /\ OthersUnchanged(t)
  BY <1>1, <1>2, <1>3 DEF TxnsOK, OthersUnchanged, Aborts
<1>5. Work(t)' = Work(t)
  BY <1>1, <1>2 DEF Work
<1>6. LockStep /\ UNCHANGED pageVars
  BY DEF Aborts
<1>7. OwnsWrites(t)'
  <2>1. \A r \in Rid : SlotExists(r)' <=> SlotExists(r)
    BY <1>6 DEF pageVars, SlotExists
  <2>2. \A r \in Rid : exclusive_lock_table[r] = t => exclusive_lock_table'[r] = t
    BY <1>2, <1>6, LocksGoOn
  <2> QED BY <1>1, <1>2, <2>1, <2>2 DEF TxnInv, OwnsWrites
<1>8. OpFitsState(t)' /\ MoveIsCurrent(t)' /\ RemovedWhenCommitting(t)'
  BY <1>2 DEF OpFitsState, MoveIsCurrent, RemovedWhenCommitting
<1>9. ReadsLocked(t)'
  BY <1>3 DEF ReadsLocked
<1> QED BY <1>4, <1>5, <1>6, <1>7, <1>8, <1>9, QuietStep

LEMMA FailEffect ==
  ASSUME IInv, NEW t \in Txn, Fail(t) PROVE Aborts(t)
<1>1. txn_state[t] = "GROWING" /\ op[t] = Idle /\ SetAborted(t) /\ UNCHANGED <<lockVars, pageVars, write_set, op>>
  BY DEF Fail, Ready
<1>2. LockStep
  BY <1>1, RefuseStep DEF SetAborted, LM!Refuse
<1> QED BY <1>1, <1>2, OpFacts DEF Aborts, IInv, TxnsOK

\* A read that is answered leaves a lock behind it.
Reads(t, r) ==
  /\ LockStep /\ Ready(t) /\ SlotExists(r) /\ Holds(t, r)'
  /\ Saw(t, r, Content(r)) /\ UNCHANGED <<txn_state, pageVars, write_set, op>>

LEMMA ReadsEffect ==
  ASSUME IInv, NEW t \in Txn, NEW r \in Rid, Reads(t, r)
  PROVE  Effect(t) /\ KeepsOriginal(t) /\ Work(t)' = Work(t)
<1>1. TxnInv(t) /\ TxnsOK /\ UNCHANGED <<write_set, op, txn_state>>
  BY TxnTypes DEF IInv, Reads
<1>2. txn_state[t] = "GROWING" /\ op[t].kind = "idle" /\ GoesOn(t) /\ t \in Running /\ (t \in Running)'
  BY <1>1, OpFacts DEF Reads, Ready, GoesOn, Running
<1>3. Content(r) \in Value \cup {NoTuple}
  <2>1. Slots[r] \in SlotState
    BY SlotTypes DEF IInv
  <2>2. ContentOf(Slots[r]) \in Value \cup {NoTuple}
    BY <2>1, SlotFacts DEF ContentOf
  <2> QED BY <2>2, SlotsAndPages
<1>4. /\ seen' \in [Txn -> [Rid -> Value \cup {NoTuple, Unknown}]]
      /\ \A u \in Txn : u # t => seen'[u] = seen[u]
      /\ \A q \in Rid : q # r => seen'[t][q] = seen[t][q]
  BY <1>1, <1>3, SeenSet DEF Reads
<1>5. TxnsOK' /\ OthersUnchanged(t)
  BY <1>1, <1>4 DEF TxnsOK, OthersUnchanged
<1>6. Work(t)' = Work(t)
  BY <1>1, WorkUnchanged
<1>7. LockStep /\ UNCHANGED pageVars /\ \A q \in Rid : SlotExists(q)' <=> SlotExists(q)
  BY DEF Reads, pageVars, SlotExists
<1>8. \A q \in Rid : /\ exclusive_lock_table[q] = t => exclusive_lock_table'[q] = t
                     /\ Holds(t, q) => Holds(t, q)'
  BY <1>2, <1>7, LocksGoOn
<1>9. OwnsWrites(t)'
  BY <1>1, <1>2, <1>7, <1>8 DEF TxnInv, OwnsWrites
<1>10. OpFitsState(t)' /\ MoveIsCurrent(t)' /\ RemovedWhenCommitting(t)'
  BY <1>1, <1>2 DEF TxnInv, OpFitsState, MoveIsCurrent, RemovedWhenCommitting
<1>11. ReadsLocked(t)'
  <2> SUFFICES ASSUME NEW q \in Rid, seen'[t][q] # Unknown PROVE (t \in Running)' /\ Holds(t, q)'
    BY DEF ReadsLocked
  <2>1. CASE q = r
    BY <1>2, <2>1 DEF Reads
  <2>2. CASE q # r
    BY <1>1, <1>2, <1>4, <1>8, <2>2 DEF TxnInv, ReadsLocked
  <2> QED BY <2>1, <2>2
<1> QED BY <1>5, <1>6, <1>7, <1>9, <1>10, <1>11, QuietStep

LEMMA GetTupleEffect ==
  ASSUME IInv, NEW t \in Txn, NEW r \in Rid, GetTuple(t, r)
  PROVE  Aborts(t) \/ (Reads(t, r) /\ (IsDeleted(r) => exclusive_lock_table[r] = t))
<1>1. PICK granted \in BOOLEAN :
        /\ LM!AcquireForRead(t, r, granted)
        /\ IF granted /\ (IsDeleted(r) => LM!IsExclusiveLocked(t, r))
           THEN Saw(t, r, Content(r)) /\ UNCHANGED txn_state
           ELSE SetAborted(t)
  BY DEF GetTuple
<1>2. Ready(t) /\ SlotExists(r) /\ UNCHANGED <<pageVars, write_set, op>> /\ LockInv /\ TxnsOK
  BY DEF GetTuple, IInv
<1>3. txn_state[t] = "GROWING" /\ op[t] = Idle /\ op[t].kind = "idle"
  BY <1>2, OpFacts DEF Ready
<1>4. CASE granted /\ (IsDeleted(r) => LM!IsExclusiveLocked(t, r))
  <2>1. LockStep /\ Holds(t, r)'
    BY <1>1, <1>2, <1>3, <1>4, ReadLock DEF Holds
  <2>2. IsDeleted(r) => exclusive_lock_table[r] = t
    BY <1>2, <1>4 DEF LockInv, LM!LockBookkeeping, LM!IsExclusiveLocked
  <2> QED BY <1>1, <1>2, <1>4, <2>1, <2>2 DEF Reads
<1>5. CASE ~(granted /\ (IsDeleted(r) => LM!IsExclusiveLocked(t, r)))
  <2>1. SetAborted(t) /\ LM!Refuse(t)
    BY <1>1, <1>5 DEF SetAborted, LM!Refuse
  <2>2. LockStep
    BY <1>1, <1>2, <1>3, <2>1, ReadLock
  <2> QED BY <1>2, <1>3, <2>1, <2>2 DEF Aborts, TxnsOK
<1> QED BY <1>4, <1>5

-----------------------------------------------------------------------------
(***************************************************************************)
(* The actions: writing.                                                   *)
(***************************************************************************)
\* A write that enters its record at once.
RecordsWrite(t, wr, r) ==
  AddsRecord(t, wr, r) /\ op[t].kind = "idle" /\ UNCHANGED op
    /\ write_set' = [write_set EXCEPT ![t] = Append(@, wr)]

LEMMA RecordsWriteEffect ==
  ASSUME IInv, NEW t \in Txn, NEW wr, NEW r \in Rid, RecordsWrite(t, wr, r)
  PROVE  Effect(t) /\ KeepsOriginal(t)
<1>1. /\ AddsRecord(t, wr, r) /\ op[t].kind = "idle" /\ UNCHANGED op
      /\ TxnInv(t) /\ TxnsOK /\ write_set[t] \in Seq(WriteRecord)
      /\ write_set'[t] = Append(write_set[t], wr)
  BY TxnTypes DEF RecordsWrite, IInv, TxnsOK
<1>2. /\ StepBy(t) /\ Chained(Work(t)', Slots') /\ KeepsOriginal(t) /\ GoesOn(t) /\ LockStep
      /\ \A i \in DOMAIN write_set[t], q \in Rid :
           Touches(write_set[t][i], q) => SlotExists(q)' /\ exclusive_lock_table'[q] = t
  BY <1>1, AddedRecord DEF StepBy
<1>3. /\ wr \in WriteRecord /\ wr.rid1 = r /\ wr.rid2 = r /\ txn_state'[t] = "GROWING"
      /\ exclusive_lock_table'[r] = t /\ SlotExists(r)'
      /\ txn_state' = txn_state /\ seen' = [seen EXCEPT ![t][r] = Unknown]
      /\ TxnsOK' /\ PagesOK' /\ SpaceNeverNegative'
  BY <1>1 DEF AddsRecord, Frame
<1>4. /\ DOMAIN write_set'[t] = DOMAIN write_set[t] \cup {Len(write_set[t]) + 1}
      /\ \A i \in DOMAIN write_set[t] : write_set'[t][i] = write_set[t][i]
      /\ write_set'[t][Len(write_set[t]) + 1] = wr
  <2> DEFINE ws == write_set[t]
  <2>1. ws \in Seq(WriteRecord) /\ write_set'[t] = Append(ws, wr)
    BY <1>1
  <2> HIDE DEF ws
  <2>2. /\ DOMAIN ws = 1..Len(ws) /\ DOMAIN Append(ws, wr) = 1..(Len(ws) + 1) /\ Len(ws) \in Nat
        /\ \A i \in 1..Len(ws) : Append(ws, wr)[i] = ws[i]
        /\ Append(ws, wr)[Len(ws) + 1] = wr
    BY <1>3, <2>1, AppendRecord
  <2> QED BY <2>1, <2>2 DEF ws
<1>5. OwnsWrites(t)'
  BY <1>1, <1>2, <1>3, <1>4 DEF OwnsWrites, Touches
<1>6. OpFitsState(t)' /\ MoveIsCurrent(t)' /\ RemovedWhenCommitting(t)'
  BY <1>1, <1>3 DEF OpFitsState, MoveIsCurrent, RemovedWhenCommitting
<1>7. ReadsLocked(t)'
  <2>1. \A q \in Rid : Holds(t, q) => Holds(t, q)'
    BY <1>2, LocksGoOn
  <2>2. \A q \in Rid : seen'[t][q] # Unknown => seen[t][q] # Unknown
    BY <1>1, <1>3 DEF TxnsOK
  <2> QED BY <1>1, <1>3, <2>1, <2>2 DEF TxnInv, ReadsLocked, Running
<1>8. TxnInv(t)'
  BY <1>2, <1>5, <1>6, <1>7 DEF TxnInv
<1> QED BY <1>2, <1>3, <1>8 DEF Effect

\* What the three recorded writes have in common.
LEMMA Recorded ==
  ASSUME IInv, NEW t \in Txn, NEW wr \in WriteRecord, NEW r \in Rid, Ready(t), LockStep,
         PagesOK', SpaceNeverNegative', wr.rid1 = r, wr.rid2 = r,
         exclusive_lock_table'[r] = t,
         \A q \in Rid : SlotExists(q)' <=> (q = r \/ SlotExists(q)),
         Slots[r] = Found(wr, r), Slots' = [Slots EXCEPT ![r] = Left(wr, r)],
         AddIntoWriteSet(t, wr), Overwrote(t, r), UNCHANGED <<txn_state, op>>
  PROVE  RecordsWrite(t, wr, r)
<1>1. TxnsOK /\ txn_state[t] = "GROWING" /\ op[t].kind = "idle" /\ write_set[t] \in Seq(WriteRecord)
  BY OpFacts DEF Ready, IInv, TxnsOK
<1>2. /\ seen' \in [Txn -> [Rid -> Value \cup {NoTuple, Unknown}]]
      /\ \A u \in Txn : u # t => seen'[u] = seen[u]
      /\ seen' = [seen EXCEPT ![t][r] = Unknown]
  <2>1. Saw(t, r, Unknown)
    BY DEF Overwrote
  <2> QED BY <1>1, <2>1, SeenSet DEF Saw
<1>3. /\ write_set' \in [Txn -> Seq(WriteRecord)] /\ write_set'[t] = Append(write_set[t], wr)
      /\ \A u \in Txn : u # t => write_set'[u] = write_set[u]
  <2>1. Append(write_set[t], wr) \in Seq(WriteRecord)
    BY <1>1, AppendRecord
  <2> QED BY <1>1, <2>1 DEF AddIntoWriteSet, TxnsOK
<1>4. Work(t) = write_set[t] /\ Work(t)' = write_set'[t]
  BY <1>1 DEF Work
<1>5. TxnsOK' /\ OthersUnchanged(t)
  BY <1>1, <1>2, <1>3 DEF TxnsOK, OthersUnchanged
<1>6. AddsRecord(t, wr, r)
  BY <1>1, <1>2, <1>3, <1>4, <1>5 DEF AddsRecord, Frame
<1> QED BY <1>1, <1>6 DEF RecordsWrite, AddIntoWriteSet

LEMMA InsertTupleEffect ==
  ASSUME IInv, NEW t \in Txn, NEW v \in Value, InsertTuple(t, v)
  PROVE  \E r \in Rid : RecordsWrite(t, Record("INSERT", r, r, v, NoTuple), r)
<1>1. PICK r \in Rid : /\ HeapInsert(t, v, r)
                       /\ AddIntoWriteSet(t, Record("INSERT", r, r, v, NoTuple))
                       /\ Overwrote(t, r)
  BY DEF InsertTuple
<1>2. Ready(t) /\ UNCHANGED <<txn_state, op>> /\ txn_state[t] # "NONE"
  BY DEF InsertTuple, Ready
<1>3. /\ PagesOK' /\ SpaceNeverNegative' /\ LM!LockExclusive(t, r, TRUE)
      /\ \A q \in Rid : SlotExists(q)' <=> (q = r \/ SlotExists(q))
      /\ Slots[r] = FreeSlot /\ Slots' = [Slots EXCEPT ![r] = Live(v)]
  BY <1>1, HeapInsertEffect DEF IInv
<1>4. LockStep /\ exclusive_lock_table'[r] = t
  BY <1>2, <1>3, InsertLock DEF IInv
<1> DEFINE wr == Record("INSERT", r, r, v, NoTuple)
<1>5. /\ wr \in WriteRecord /\ wr.rid1 = r /\ wr.rid2 = r
      /\ Found(wr, r) = FreeSlot /\ Left(wr, r) = Live(v)
  BY DEF Record, WriteRecord, Found, Left
<1> HIDE DEF wr
<1>6. RecordsWrite(t, wr, r)
  BY <1>1, <1>2, <1>3, <1>4, <1>5, Recorded DEF wr
<1> QED BY <1>6 DEF wr

LEMMA SlotExcept ==
  ASSUME NEW s \in SlotState, s.tuple # NoTuple, NEW b \in BOOLEAN
  PROVE  [s EXCEPT !.deleted = b] = [tuple |-> s.tuple, deleted |-> b]
<1> DEFINE s2 == [s EXCEPT !.deleted = b]
<1>1. s \in [tuple : Value, deleted : BOOLEAN]
  BY DEF SlotState, FreeSlot
<1>2. s2 \in [tuple : Value, deleted : BOOLEAN] /\ s2.tuple = s.tuple /\ s2.deleted = b
  BY <1>1
<1> HIDE DEF s2
<1>3. s2 = [tuple |-> s2.tuple, deleted |-> s2.deleted]
  BY <1>2
<1> QED BY <1>2, <1>3 DEF s2

\* A slot that is not deleted holds a tuple.
LEMMA LiveSlot ==
  ASSUME PagesOK, NEW r \in Rid, SlotExists(r), ~IsDeleted(r)
  PROVE  /\ Slot(r).tuple \in Value /\ Slot(r) = Live(Slot(r).tuple) /\ Slots[r] = Live(Slot(r).tuple)
         /\ TupleSize(Slot(r)) = Size[Slot(r).tuple]
         /\ [Slot(r) EXCEPT !.deleted = TRUE] = MarkedSlot(Slot(r).tuple)
<1>1. Slot(r) \in SlotState /\ Slots[r] = Slot(r)
  BY SlotTypes, SlotsAndPages
<1>2. Slot(r).tuple # NoTuple /\ ~Slot(r).deleted
  BY DEF IsDeleted
<1>3. Slot(r).tuple \in Value /\ Slot(r) = Live(Slot(r).tuple)
  BY <1>1, <1>2, SlotFacts DEF Live
<1>4. [Slot(r) EXCEPT !.deleted = TRUE] = MarkedSlot(Slot(r).tuple)
  BY <1>1, <1>2, SlotExcept DEF MarkedSlot
<1>5. TupleSize(Slot(r)) = Size[Slot(r).tuple]
  BY <1>1, <1>2, TupleSizes
<1> QED BY <1>1, <1>3, <1>4, <1>5

\* MarkDelete on a page: refused, or the tuple is marked.
LEMMA MarkDeleteOnPageEffect ==
  ASSUME IInv, NEW t \in Txn, NEW r \in Rid, SlotExists(r), txn_state[t] = "GROWING",
         NEW marked \in BOOLEAN, MarkDeleteOnPage(t, r, marked)
  PROVE  /\ LockStep
         /\ ~marked => SetAborted(t) /\ UNCHANGED pageVars
         /\ marked =>
              /\ PagesOK' /\ SpaceNeverNegative' /\ exclusive_lock_table'[r] = t
              /\ \A q \in Rid : SlotExists(q)' <=> SlotExists(q)
              /\ Slot(r).tuple \in Value /\ Slots[r] = Live(Slot(r).tuple)
              /\ Slots' = [Slots EXCEPT ![r] = MarkedSlot(Slot(r).tuple)]
              /\ Overwrote(t, r) /\ UNCHANGED txn_state
<1>1. PICK granted \in BOOLEAN :
        /\ LM!AcquireForWrite(t, r, granted)
        /\ marked = (granted /\ ~IsDeleted(r))
        /\ IF marked
           THEN Put(r, [Slot(r) EXCEPT !.deleted = TRUE]) /\ Overwrote(t, r) /\ UNCHANGED txn_state
           ELSE SetAborted(t) /\ UNCHANGED pageVars
  BY DEF MarkDeleteOnPage
<1>2. LM!Refuse(t) \/ (granted /\ UNCHANGED txn_state)
  BY <1>1 DEF SetAborted, LM!Refuse
<1>3. LockStep /\ (granted => exclusive_lock_table'[r] = t)
  BY <1>1, <1>2, WriteLock DEF IInv
<1>4. CASE ~marked
  BY <1>1, <1>3, <1>4
<1>5. CASE marked
  <2> DEFINE v == Slot(r).tuple
             s == MarkedSlot(v)
  <2>1. granted /\ ~IsDeleted(r) /\ PagesOK /\ SpaceNeverNegative
    BY <1>1, <1>5 DEF IInv
  <2>2. v \in Value /\ Slots[r] = Live(v) /\ TupleSize(Slot(r)) = Size[v] /\ Put(r, s)
    BY <1>1, <1>5, <2>1, LiveSlot
  <2>3. s \in SlotState /\ TupleSize(s) = Size[v] /\ Size[v] \in Nat
    BY <2>2, SlotFacts, TupleSizes DEF MarkedSlot
  <2>4. FreeSpaceRemaining(r[1]) >= 0 /\ FreeSpaceRemaining(r[1]) \in Int
    BY <2>1, SpaceIsInt DEF SpaceNeverNegative, SlotExists
  <2>5. FreeSpaceRemaining(r[1]) + TupleSize(Slot(r)) >= TupleSize(s)
    BY <2>2, <2>3, <2>4
  <2>6. PagesOK' /\ SpaceNeverNegative' /\ (\A q \in Rid : SlotExists(q)' <=> SlotExists(q))
        /\ Slots' = [Slots EXCEPT ![r] = s]
    BY <2>1, <2>2, <2>3, <2>5, PutEffect
  <2> QED BY <1>1, <1>3, <1>5, <2>1, <2>2, <2>6
<1> QED BY <1>4, <1>5

LEMMA MarkDeleteEffect ==
  ASSUME IInv, NEW t \in Txn, NEW r \in Rid, MarkDelete(t, r)
  PROVE  Aborts(t) \/ RecordsWrite(t, Record("DELETE", r, r, Slot(r).tuple, NoTuple), r)
<1>1. Ready(t) /\ SlotExists(r) /\ UNCHANGED op /\ txn_state[t] = "GROWING" /\ op[t] = Idle /\ op[t].kind = "idle"
  BY OpFacts DEF MarkDelete, Ready
<1>2. PICK marked \in BOOLEAN :
        /\ MarkDeleteOnPage(t, r, marked)
        /\ IF marked
           THEN AddIntoWriteSet(t, Record("DELETE", r, r, Slot(r).tuple, NoTuple))
           ELSE UNCHANGED write_set
  BY DEF MarkDelete
<1>3. CASE ~marked
  <2>1. LockStep /\ SetAborted(t) /\ UNCHANGED pageVars
    BY <1>1, <1>2, <1>3, MarkDeleteOnPageEffect
  <2> QED BY <1>1, <1>2, <1>3, <2>1 DEF Aborts, IInv, TxnsOK
<1>4. CASE marked
  <2> DEFINE v == Slot(r).tuple
             wr == Record("DELETE", r, r, v, NoTuple)
  <2>1. /\ PagesOK' /\ SpaceNeverNegative' /\ exclusive_lock_table'[r] = t /\ LockStep
        /\ \A q \in Rid : SlotExists(q)' <=> SlotExists(q)
        /\ v \in Value /\ Slots[r] = Live(v) /\ Slots' = [Slots EXCEPT ![r] = MarkedSlot(v)]
        /\ Overwrote(t, r) /\ UNCHANGED txn_state
    BY <1>1, <1>2, <1>4, MarkDeleteOnPageEffect
  <2>2. /\ wr \in WriteRecord /\ wr.rid1 = r /\ wr.rid2 = r
        /\ Found(wr, r) = Live(v) /\ Left(wr, r) = MarkedSlot(v)
    BY <2>1 DEF Record, WriteRecord, Found, Left
  <2>3. AddIntoWriteSet(t, wr) /\ \A q \in Rid : SlotExists(q)' <=> (q = r \/ SlotExists(q))
    BY <1>1, <1>2, <1>4, <2>1
  <2> HIDE DEF wr
  <2>4. RecordsWrite(t, wr, r)
    BY <1>1, <2>1, <2>2, <2>3, Recorded
  <2> QED BY <2>4 DEF wr
<1> QED BY <1>3, <1>4

\* An update: refused, made in place, or found to need a move.
StartsMove(t, r, v) ==
  /\ LockStep /\ Ready(t) /\ SlotExists(r) /\ exclusive_lock_table'[r] = t
  /\ Slot(r).tuple \in Value /\ Slots[r] = Live(Slot(r).tuple)
  /\ op' = [op EXCEPT ![t] = [kind |-> "move", rid |-> r, old |-> Slot(r).tuple, new |-> v]]
  /\ UNCHANGED <<pageVars, write_set, txn_state, seen>>

LEMMA StartsMoveEffect ==
  ASSUME IInv, NEW t \in Txn, NEW r \in Rid, NEW v \in Value, StartsMove(t, r, v)
  PROVE  Effect(t) /\ KeepsOriginal(t) /\ Work(t)' = Work(t)
<1> DEFINE o == [kind |-> "move", rid |-> r, old |-> Slot(r).tuple, new |-> v]
<1>1. TxnInv(t) /\ TxnsOK /\ UNCHANGED <<write_set, txn_state, seen>> /\ write_set[t] \in Seq(WriteRecord)
  BY TxnTypes DEF IInv, StartsMove
<1>2. txn_state[t] = "GROWING" /\ op[t].kind = "idle" /\ GoesOn(t)
  BY <1>1, OpFacts DEF StartsMove, Ready, GoesOn
<1>3. o \in OpState /\ o.kind = "move" /\ o.rid = r /\ o.old = Slot(r).tuple
  BY DEF StartsMove, OpState
<1> HIDE DEF o
<1>4. op' \in [Txn -> OpState] /\ op'[t] = o /\ \A u \in Txn : u # t => op'[u] = op[u]
  BY <1>1, <1>3 DEF StartsMove, TxnsOK, o
<1>5. TxnsOK' /\ OthersUnchanged(t)
  BY <1>1, <1>4 DEF TxnsOK, OthersUnchanged
<1>6. Work(t)' = Work(t)
  BY <1>1, <1>2, <1>3, <1>4 DEF Work
<1>7. /\ LockStep /\ UNCHANGED pageVars /\ \A q \in Rid : SlotExists(q)' <=> SlotExists(q)
      /\ Slots' = Slots /\ SlotExists(r)
  BY DEF StartsMove, pageVars, SlotExists, Slots
<1>8. \A q \in Rid : /\ exclusive_lock_table[q] = t => exclusive_lock_table'[q] = t
                     /\ Holds(t, q) => Holds(t, q)'
  BY <1>2, <1>7, LocksGoOn
<1>9. OwnsWrites(t)'
  BY <1>1, <1>3, <1>4, <1>7, <1>8 DEF TxnInv, OwnsWrites, StartsMove
<1>10. OpFitsState(t)' /\ MoveIsCurrent(t)' /\ RemovedWhenCommitting(t)'
  BY <1>1, <1>2, <1>3, <1>4, <1>7 DEF OpFitsState, MoveIsCurrent, RemovedWhenCommitting, StartsMove
<1>11. ReadsLocked(t)'
  BY <1>1, <1>2, <1>3, <1>4, <1>8 DEF TxnInv, ReadsLocked, Running
<1> QED BY <1>5, <1>6, <1>7, <1>9, <1>10, <1>11, QuietStep

LEMMA UpdateTupleEffect ==
  ASSUME IInv, NEW t \in Txn, NEW r \in Rid, NEW v \in Value, UpdateTuple(t, r, v)
  PROVE  \/ Aborts(t)
         \/ RecordsWrite(t, Record("UPDATE", r, r, Slot(r).tuple, v), r)
         \/ StartsMove(t, r, v)
<1>1. Ready(t) /\ SlotExists(r) /\ txn_state[t] = "GROWING" /\ op[t] = Idle /\ op[t].kind = "idle"
  BY OpFacts DEF UpdateTuple, Ready
<1>2. PICK granted \in BOOLEAN :
        /\ LM!AcquireForWrite(t, r, granted)
        /\ \/ /\ ~granted \/ IsDeleted(r)
              /\ SetAborted(t)
              /\ UNCHANGED <<pageVars, write_set, op>>
           \/ /\ granted /\ ~IsDeleted(r) /\ InPlace(r, v)
              /\ Put(r, Live(v))
              /\ AddIntoWriteSet(t, Record("UPDATE", r, r, Slot(r).tuple, v))
              /\ Overwrote(t, r)
              /\ UNCHANGED <<txn_state, op>>
           \/ /\ granted /\ ~IsDeleted(r) /\ ~InPlace(r, v)
              /\ HeapRoom
              /\ SetOp(t, [kind |-> "move", rid |-> r, old |-> Slot(r).tuple, new |-> v])
              /\ UNCHANGED <<pageVars, write_set, txn_state, seen>>
  BY DEF UpdateTuple
<1>3. LM!Refuse(t) \/ (granted /\ UNCHANGED txn_state)
  BY <1>2 DEF SetAborted, LM!Refuse
<1>4. LockStep /\ (granted => exclusive_lock_table'[r] = t) /\ PagesOK /\ SpaceNeverNegative
  BY <1>1, <1>2, <1>3, WriteLock DEF IInv
<1>5. CASE SetAborted(t) /\ UNCHANGED <<pageVars, write_set, op>>
  BY <1>1, <1>4, <1>5 DEF Aborts, IInv, TxnsOK
<1> DEFINE old == Slot(r).tuple
<1>6. CASE /\ granted /\ ~IsDeleted(r) /\ InPlace(r, v) /\ Put(r, Live(v))
           /\ AddIntoWriteSet(t, Record("UPDATE", r, r, old, v))
           /\ Overwrote(t, r) /\ UNCHANGED <<txn_state, op>>
  <2> DEFINE wr == Record("UPDATE", r, r, old, v)
  <2>1. old \in Value /\ Slots[r] = Live(old) /\ TupleSize(Slot(r)) = Size[old]
    BY <1>1, <1>4, <1>6, LiveSlot
  <2>2. Live(v) \in SlotState /\ TupleSize(Live(v)) = Size[v]
    BY SlotFacts, TupleSizes DEF Live
  <2>3. FreeSpaceRemaining(r[1]) + TupleSize(Slot(r)) >= TupleSize(Live(v)) /\ Size[old] <= Size[v]
    BY <1>6, <2>1, <2>2 DEF InPlace
  <2>4. PagesOK' /\ SpaceNeverNegative' /\ (\A q \in Rid : SlotExists(q)' <=> SlotExists(q))
        /\ Slots' = [Slots EXCEPT ![r] = Live(v)]
    BY <1>1, <1>4, <1>6, <2>2, <2>3, PutEffect
  <2>5. /\ wr \in WriteRecord /\ wr.rid1 = r /\ wr.rid2 = r
        /\ Found(wr, r) = Live(old) /\ Left(wr, r) = Live(v)
    BY <2>1, <2>3 DEF Record, WriteRecord, Found, Left
  <2>6. AddIntoWriteSet(t, wr) /\ \A q \in Rid : SlotExists(q)' <=> (q = r \/ SlotExists(q))
    BY <1>1, <1>6, <2>4
  <2> HIDE DEF wr
  <2>7. RecordsWrite(t, wr, r)
    BY <1>1, <1>4, <1>6, <2>1, <2>4, <2>5, <2>6, Recorded
  <2> QED BY <2>7 DEF wr
<1>7. CASE /\ granted /\ ~IsDeleted(r)
           /\ SetOp(t, [kind |-> "move", rid |-> r, old |-> old, new |-> v])
           /\ UNCHANGED <<pageVars, write_set, txn_state, seen>>
  <2>1. old \in Value /\ Slots[r] = Live(old)
    BY <1>1, <1>4, <1>7, LiveSlot
  <2> QED BY <1>1, <1>4, <1>7, <2>1 DEF StartsMove, SetOp
<1> QED BY <1>2, <1>5, <1>6, <1>7

\* The first half of a move adds a deletion to the work.
HalfMoves(t) ==
  LET r == op[t].rid IN
  /\ AddsRecord(t, Deletion(r, op[t].old), r) /\ op[t].kind = "move" /\ UNCHANGED write_set
  /\ op' = [op EXCEPT ![t] = [op[t] EXCEPT !.kind = "moved"]]

LEMMA HalfMovesEffect ==
  ASSUME IInv, NEW t \in Txn, HalfMoves(t) PROVE Effect(t) /\ KeepsOriginal(t)
<1> DEFINE r == op[t].rid
           wr == Deletion(r, op[t].old)
           o == [op[t] EXCEPT !.kind = "moved"]
<1>1. /\ TxnInv(t) /\ TxnsOK /\ AddsRecord(t, wr, r) /\ UNCHANGED write_set /\ op'[t] = o
      /\ r \in Rid /\ o.kind = "moved" /\ o.rid = r
  BY TxnTypes, OpFacts DEF HalfMoves, IInv, TxnsOK
<1> HIDE DEF o, wr
<1>2. /\ StepBy(t) /\ Chained(Work(t)', Slots') /\ KeepsOriginal(t) /\ GoesOn(t) /\ LockStep
      /\ \A i \in DOMAIN write_set[t], q \in Rid :
           Touches(write_set[t][i], q) => SlotExists(q)' /\ exclusive_lock_table'[q] = t
  BY <1>1, AddedRecord DEF StepBy
<1>3. /\ txn_state'[t] = "GROWING" /\ txn_state' = txn_state
      /\ exclusive_lock_table'[r] = t /\ SlotExists(r)' /\ seen' = [seen EXCEPT ![t][r] = Unknown]
      /\ TxnsOK' /\ PagesOK' /\ SpaceNeverNegative'
  BY <1>1 DEF AddsRecord, Frame
<1>5. OwnsWrites(t)'
  BY <1>1, <1>2, <1>3 DEF OwnsWrites
<1>6. OpFitsState(t)' /\ MoveIsCurrent(t)' /\ RemovedWhenCommitting(t)'
  BY <1>1, <1>3 DEF OpFitsState, MoveIsCurrent, RemovedWhenCommitting
<1>7. ReadsLocked(t)'
  <2>1. \A q \in Rid : Holds(t, q) => Holds(t, q)'
    BY <1>2, LocksGoOn
  <2>2. \A q \in Rid : seen'[t][q] # Unknown => seen[t][q] # Unknown
    BY <1>1, <1>3 DEF TxnsOK
  <2> QED BY <1>1, <1>3, <2>1, <2>2 DEF TxnInv, ReadsLocked, Running
<1>8. TxnInv(t)'
  BY <1>2, <1>5, <1>6, <1>7 DEF TxnInv
<1> QED BY <1>2, <1>3, <1>8 DEF Effect

LEMMA MoveDeleteEffect ==
  ASSUME IInv, NEW t \in Txn, MoveDelete(t) PROVE Aborts(t) \/ HalfMoves(t)
<1> DEFINE r == op[t].rid
           old == op[t].old
<1>1. /\ op[t].kind = "move" /\ op[t] \in OpState /\ TxnInv(t) /\ TxnsOK
      /\ write_set[t] \in Seq(WriteRecord) /\ UNCHANGED write_set
  BY TxnTypes DEF MoveDelete, IInv
<1>2. r \in Rid /\ old \in Value /\ op[t] \in [kind : {"move", "moved"}, rid : Rid, old : Value, new : Value]
  BY <1>1, OpFacts
<1>3. txn_state[t] = "GROWING" /\ SlotExists(r) /\ Slots[r] = Live(old)
  BY <1>1 DEF TxnInv, OpFitsState, OwnsWrites, MoveIsCurrent
<1>4. PICK marked \in BOOLEAN :
        /\ MarkDeleteOnPage(t, r, marked)
        /\ IF marked THEN SetOp(t, [op[t] EXCEPT !.kind = "moved"]) ELSE SetOp(t, Idle)
  BY DEF MoveDelete
<1>5. CASE ~marked
  <2>1. LockStep /\ SetAborted(t) /\ UNCHANGED pageVars
    BY <1>2, <1>3, <1>4, <1>5, MarkDeleteOnPageEffect
  <2> QED BY <1>1, <1>3, <1>4, <1>5, <2>1, OpFacts DEF Aborts, TxnsOK, SetOp
<1>6. CASE marked
  <2> DEFINE wr == Deletion(r, old)
             o == [op[t] EXCEPT !.kind = "moved"]
  <2>1. /\ PagesOK' /\ SpaceNeverNegative' /\ exclusive_lock_table'[r] = t /\ LockStep
        /\ \A q \in Rid : SlotExists(q)' <=> SlotExists(q)
        /\ Slots[r] = Live(Slot(r).tuple) /\ Slots' = [Slots EXCEPT ![r] = MarkedSlot(Slot(r).tuple)]
        /\ Overwrote(t, r) /\ UNCHANGED txn_state
    BY <1>2, <1>3, <1>4, <1>6, MarkDeleteOnPageEffect
  <2>2. Slot(r).tuple = old
    BY <1>3, <2>1 DEF Live
  <2>3. /\ wr \in WriteRecord /\ wr.rid1 = r /\ wr.rid2 = r
        /\ Found(wr, r) = Live(old) /\ Left(wr, r) = MarkedSlot(old)
    BY <1>2 DEF Deletion, Record, WriteRecord, Found, Left
  <2>4. /\ o \in OpState /\ o.kind = "moved" /\ o.rid = r /\ o.old = old
        /\ op' = [op EXCEPT ![t] = o]
    BY <1>2, <1>4, <1>6 DEF OpState, SetOp
  <2>5. op' \in [Txn -> OpState] /\ op'[t] = o /\ \A u \in Txn : u # t => op'[u] = op[u]
    BY <1>1, <2>4 DEF TxnsOK
  <2>6. /\ seen' \in [Txn -> [Rid -> Value \cup {NoTuple, Unknown}]]
        /\ \A u \in Txn : u # t => seen'[u] = seen[u]
        /\ seen' = [seen EXCEPT ![t][r] = Unknown]
    <3>1. Saw(t, r, Unknown)
      BY <2>1 DEF Overwrote
    <3> QED BY <1>1, <1>2, <3>1, SeenSet DEF Saw
  <2>7. Work(t) = write_set[t] /\ Work(t)' = Append(write_set[t], wr)
    BY <1>1, <2>4, <2>5 DEF Work
  <2> HIDE DEF wr, o
  <2>8. TxnsOK' /\ OthersUnchanged(t)
    BY <1>1, <2>1, <2>5, <2>6 DEF TxnsOK, OthersUnchanged
  <2>9. AddsRecord(t, wr, r)
    BY <1>3, <2>1, <2>2, <2>3, <2>6, <2>7, <2>8 DEF AddsRecord, Frame
  <2> QED BY <1>1, <2>4, <2>9 DEF HalfMoves, wr, o
<1> QED BY <1>5, <1>6

\* The second half of a move replaces that deletion by the update.
LEMMA MoveInsertEffect ==
  ASSUME IInv, NEW t \in Txn, MoveInsert(t)
  PROVE  /\ Effect(t) /\ KeepsOriginal(t) /\ t \in Running /\ (t \in Running)'
         /\ \E r \in Rid : /\ exclusive_lock_table'[r] = t /\ Overwrote(t, r)
                           /\ \A q \in Rid : q # r => Slots'[q] = Slots[q]
                           /\ \A q \in Rid : Writes(Work(t)', q) <=> (q = r \/ Writes(Work(t), q))
<1> DEFINE o == op[t]
           rid == o.rid
           old == o.old
           new == o.new
           ws == write_set[t]
           d == Deletion(rid, old)
<1>1. /\ o.kind = "moved" /\ o \in OpState /\ TxnInv(t) /\ TxnsOK /\ ws \in Seq(WriteRecord)
      /\ op' = [op EXCEPT ![t] = Idle] /\ UNCHANGED txn_state
  BY TxnTypes DEF MoveInsert, IInv, SetOp
<1>2. rid \in Rid /\ old \in Value /\ new \in Value /\ txn_state[t] = "GROWING" /\ GoesOn(t)
  BY <1>1, OpFacts DEF TxnInv, OpFitsState, GoesOn
<1>3. PICK r \in Rid : /\ HeapInsert(t, new, r)
                       /\ AddIntoWriteSet(t, Record("UPDATE", rid, r, old, new))
                       /\ Overwrote(t, r)
  BY DEF MoveInsert
<1> DEFINE u == Record("UPDATE", rid, r, old, new)
<1>4. /\ PagesOK' /\ SpaceNeverNegative' /\ LM!LockExclusive(t, r, TRUE)
      /\ \A q \in Rid : SlotExists(q)' <=> (q = r \/ SlotExists(q))
      /\ Slots[r] = FreeSlot /\ Slots' = [Slots EXCEPT ![r] = Live(new)]
  <2>1. PagesOK /\ SpaceNeverNegative /\ HeapInsert(t, new, r)
    BY <1>3 DEF IInv
  <2> HIDE DEF new
  <2> QED BY <1>2, <2>1, HeapInsertEffect
<1>5. LockStep /\ exclusive_lock_table'[r] = t
  BY <1>1, <1>2, <1>4, InsertLock DEF IInv
<1>6. Work(t) = Append(ws, d)
  BY <1>1 DEF Work
<1>7. d \in WriteRecord /\ Left(d, rid) = MarkedSlot(old) /\ Touches(d, rid)
  BY <1>2 DEF Deletion, Record, WriteRecord, Left, Touches
<1>8. Chained(Append(ws, d), Slots)
  BY <1>1, <1>6 DEF TxnInv
<1>9. Slots[rid] = MarkedSlot(old) /\ rid # r
  <2>1. Slots[rid] = MarkedSlot(old)
    <3> HIDE DEF d, ws, rid, old
    <3> QED BY <1>1, <1>2, <1>7, <1>8, LastLeft
  <2> QED BY <1>2, <1>4, <2>1, SizeAssumption DEF MarkedSlot, FreeSlot
<1>10. /\ Slots \in [Rid -> SlotState] /\ Slots' \in [Rid -> SlotState] /\ Slots'[r] = Live(new)
       /\ \A q \in Rid : q # r => Slots'[q] = Slots[q]
  <2>1. Slots \in [Rid -> SlotState] /\ Live(new) \in SlotState
    BY <1>2, SlotsAreFunction, SlotFacts DEF IInv, Live
  <2> QED BY <1>4, <2>1
<1>11. /\ u \in WriteRecord /\ Chained(Append(ws, u), Slots')
       /\ \A q \in Rid : Original(Append(ws, d), Slots, q) = Original(Append(ws, u), Slots', q)
  <2>1. SameWork(ws, d, Slots, u, Slots')
    <3> HIDE DEF ws, rid, old, new
    <3> QED BY <1>1, <1>2, <1>4, <1>9, <1>10, MoveRecords
  <2> QED BY <1>8, <2>1 DEF SameWork
<1>12. /\ write_set' \in [Txn -> Seq(WriteRecord)] /\ write_set'[t] = Append(ws, u)
       /\ \A x \in Txn : x # t => write_set'[x] = write_set[x]
  <2>1. Append(ws, u) \in Seq(WriteRecord) /\ write_set' = [write_set EXCEPT ![t] = Append(ws, u)]
    BY <1>1, <1>3, <1>11, AppendRecord DEF AddIntoWriteSet
  <2> HIDE DEF u
  <2> QED BY <1>1, <2>1 DEF TxnsOK
<1>13. op' \in [Txn -> OpState] /\ op'[t] = Idle /\ op'[t].kind = "idle" /\ \A x \in Txn : x # t => op'[x] = op[x]
  BY <1>1, OpFacts DEF TxnsOK
<1>14. /\ seen' \in [Txn -> [Rid -> Value \cup {NoTuple, Unknown}]]
       /\ \A x \in Txn : x # t => seen'[x] = seen[x]
       /\ seen'[t][r] = Unknown /\ \A q \in Rid : q # r => seen'[t][q] = seen[t][q]
  <2>1. Saw(t, r, Unknown)
    BY <1>3 DEF Overwrote
  <2> QED BY <1>1, <2>1, SeenSet
<1>15. Work(t)' = Append(ws, u)
  BY <1>12, <1>13 DEF Work
<1>16. TxnsOK' /\ OthersUnchanged(t)
  BY <1>1, <1>12, <1>13, <1>14 DEF TxnsOK, OthersUnchanged
<1>17. StepBy(t)
  BY <1>4, <1>5, <1>10, <1>16 DEF StepBy
<1>18. /\ Len(ws) \in Nat /\ DOMAIN ws = 1..Len(ws)
       /\ DOMAIN Append(ws, d) = 1..(Len(ws) + 1) /\ DOMAIN Append(ws, u) = 1..(Len(ws) + 1)
       /\ \A i \in DOMAIN ws : Append(ws, d)[i] = ws[i] /\ Append(ws, u)[i] = ws[i]
       /\ Append(ws, d)[Len(ws) + 1] = d /\ Append(ws, u)[Len(ws) + 1] = u
  <2> HIDE DEF d, u, ws
  <2> QED BY <1>1, <1>7, <1>11, AppendRecord
<1>19. (\A q : Touches(u, q) <=> (q = rid \/ q = r)) /\ (\A q : Touches(d, q) <=> q = rid)
  BY DEF Record, Deletion, Touches
<1>20. \A q \in Rid : Writes(Work(t)', q) <=> (q = r \/ Writes(Work(t), q))
  <2> HIDE DEF d, u, ws, rid
  <2> QED BY <1>6, <1>15, <1>18, <1>19 DEF Writes
<1>21. OwnsWrites(t)'
  <2>1. \A q \in Rid : exclusive_lock_table[q] = t => exclusive_lock_table'[q] = t
    BY <1>2, <1>5, LocksGoOn
  <2>2. /\ \A i \in DOMAIN ws, q \in Rid : Touches(ws[i], q) => SlotExists(q) /\ exclusive_lock_table[q] = t
        /\ SlotExists(rid) /\ exclusive_lock_table[rid] = t
    BY <1>1 DEF TxnInv, OwnsWrites
  <2> HIDE DEF d, u, ws, rid
  <2>3. \A i \in DOMAIN write_set'[t], q \in Rid :
           Touches(write_set'[t][i], q) => SlotExists(q)' /\ exclusive_lock_table'[q] = t
    BY <1>2, <1>4, <1>5, <1>12, <1>18, <1>19, <2>1, <2>2
  <2> QED BY <1>13, <2>3 DEF OwnsWrites
<1>22. OpFitsState(t)' /\ MoveIsCurrent(t)' /\ RemovedWhenCommitting(t)'
  BY <1>1, <1>2, <1>13 DEF OpFitsState, MoveIsCurrent, RemovedWhenCommitting
<1>23. t \in Running /\ (t \in Running)'
  BY <1>1, <1>2, <1>13 DEF Running
<1>24. ReadsLocked(t)'
  <2>1. \A q \in Rid : Holds(t, q) => Holds(t, q)'
    BY <1>2, <1>5, LocksGoOn
  <2> QED BY <1>1, <1>14, <1>23, <2>1 DEF TxnInv, ReadsLocked
<1>25. TxnInv(t)'
  BY <1>11, <1>15, <1>21, <1>22, <1>24 DEF TxnInv
<1>26. Effect(t)
  BY <1>4, <1>16, <1>17, <1>25 DEF Effect
<1>27. KeepsOriginal(t)
  BY <1>6, <1>11, <1>15 DEF KeepsOriginal
<1> QED BY <1>3, <1>5, <1>10, <1>20, <1>23, <1>26, <1>27

-----------------------------------------------------------------------------
(***************************************************************************)
(* The actions: commit and abort.                                          *)
(***************************************************************************)
\* The last write record of a transaction and the ones before it.
LEMMA LastRecordFacts ==
  ASSUME TxnsOK, NEW t \in Txn, write_set[t] # <<>>
  PROVE  /\ LastRecord(t) \in WriteRecord /\ LastRecord(t).rid1 \in Rid /\ LastRecord(t).rid2 \in Rid
         /\ write_set[t] = Append(Front(write_set[t]), LastRecord(t))
         /\ Front(write_set[t]) \in Seq(WriteRecord)
         /\ DOMAIN Front(write_set[t]) \subseteq DOMAIN write_set[t]
         /\ \A i \in DOMAIN Front(write_set[t]) : Front(write_set[t])[i] = write_set[t][i]
         /\ \E i \in DOMAIN write_set[t] : LastRecord(t) = write_set[t][i]
<1> DEFINE ws == write_set[t]
<1>1. ws \in Seq(WriteRecord) /\ ws # <<>>
  BY DEF TxnsOK
<1> HIDE DEF ws
<1>2. /\ Front(ws) \in Seq(WriteRecord) /\ Last(ws) \in WriteRecord
      /\ ws = Append(Front(ws), Last(ws))
      /\ Len(ws) \in Nat \ {0} /\ DOMAIN ws = 1..Len(ws) /\ Last(ws) = ws[Len(ws)]
      /\ DOMAIN Front(ws) = 1..(Len(ws) - 1)
      /\ \A i \in 1..(Len(ws) - 1) : Front(ws)[i] = ws[i]
  BY <1>1, FrontLast
<1>3. Last(ws).rid1 \in Rid /\ Last(ws).rid2 \in Rid
  BY <1>2 DEF WriteRecord
<1>4. DOMAIN Front(ws) \subseteq DOMAIN ws /\ \E i \in DOMAIN ws : Last(ws) = ws[i]
  BY <1>2
<1> QED BY <1>2, <1>3, <1>4 DEF LastRecord, ws

LEMMA DropRecordEffect ==
  ASSUME TxnsOK, NEW t \in Txn, write_set[t] # <<>>, DropRecord(t)
  PROVE  /\ write_set' \in [Txn -> Seq(WriteRecord)] /\ write_set'[t] = Front(write_set[t])
         /\ \A u \in Txn : u # t => write_set'[u] = write_set[u]
<1>1. Front(write_set[t]) \in Seq(WriteRecord)
  BY LastRecordFacts
<1> QED BY <1>1 DEF DropRecord, TxnsOK

\* A slot gets a tuple that is not bigger.
LEMMA PutSmaller ==
  ASSUME IInv, NEW r \in Rid, SlotExists(r), NEW s \in SlotState, Put(r, s), TupleSize(s) <= TupleSize(Slot(r))
  PROVE  /\ PagesOK' /\ SpaceNeverNegative'
         /\ \A q \in Rid : SlotExists(q)' <=> SlotExists(q)
         /\ Slots' = [Slots EXCEPT ![r] = s]
<1>1. PagesOK /\ SpaceNeverNegative
  BY DEF IInv
<1>2. FreeSpaceRemaining(r[1]) >= 0 /\ FreeSpaceRemaining(r[1]) \in Int
  BY <1>1, SpaceIsInt DEF SpaceNeverNegative, SlotExists
<1>3. TupleSize(s) \in Nat /\ TupleSize(Slot(r)) \in Nat
  BY <1>1, SlotTypes, TupleSizes
<1>4. FreeSpaceRemaining(r[1]) + TupleSize(Slot(r)) >= TupleSize(s)
  BY <1>2, <1>3
<1> QED BY <1>1, <1>4, PutEffect

LEMMA ApplyDeleteEffect ==
  ASSUME IInv, NEW t \in Txn, NEW r \in Rid, ApplyDelete(t, r)
  PROVE  /\ PagesOK' /\ SpaceNeverNegative' /\ exclusive_lock_table[r] = t
         /\ \A q \in Rid : SlotExists(q)' <=> SlotExists(q)
         /\ Slots' = [Slots EXCEPT ![r] = FreeSlot]
<1>1. SlotExists(r) /\ LM!IsExclusiveLocked(t, r) /\ Put(r, FreeSlot)
  BY DEF ApplyDelete, ApplyDeleteOK
<1>2. exclusive_lock_table[r] = t
  BY <1>1 DEF IInv, LockInv, LM!LockBookkeeping, LM!IsExclusiveLocked
<1>3. FreeSlot \in SlotState /\ TupleSize(FreeSlot) <= TupleSize(Slot(r))
  <2>1. FreeSlot \in SlotState /\ TupleSize(FreeSlot) = 0 /\ TupleSize(Slot(r)) \in Nat
    BY <1>1, SlotFacts, SlotTypes, TupleSizes DEF IInv
  <2> QED BY <2>1
<1> QED BY <1>1, <1>2, <1>3, PutSmaller

LEMMA RollbackDeleteEffect ==
  ASSUME IInv, NEW t \in Txn, NEW r \in Rid, RollbackDelete(t, r)
  PROVE  /\ PagesOK' /\ SpaceNeverNegative' /\ exclusive_lock_table[r] = t
         /\ \A q \in Rid : SlotExists(q)' <=> SlotExists(q)
         /\ Slots' = [Slots EXCEPT ![r] = Live(Slots[r].tuple)]
<1> DEFINE v == Slot(r).tuple
<1>1. SlotExists(r) /\ LM!IsExclusiveLocked(t, r) /\ v # NoTuple /\ Put(r, [Slot(r) EXCEPT !.deleted = FALSE])
  BY DEF RollbackDelete, RollbackDeleteOK
<1>2. exclusive_lock_table[r] = t
  BY <1>1 DEF IInv, LockInv, LM!LockBookkeeping, LM!IsExclusiveLocked
<1>3. Slot(r) \in SlotState /\ Slots[r] = Slot(r)
  BY <1>1, SlotTypes, SlotsAndPages DEF IInv
<1>4. Put(r, Live(v)) /\ v \in Value
  BY <1>1, <1>3, SlotExcept, SlotFacts DEF Live
<1>5. Live(v) \in SlotState /\ TupleSize(Live(v)) = Size[v] /\ TupleSize(Slot(r)) = Size[v] /\ Size[v] \in Nat
  BY <1>1, <1>3, <1>4, SlotFacts, TupleSizes DEF Live
<1>6. TupleSize(Live(v)) <= TupleSize(Slot(r))
  BY <1>5
<1> HIDE DEF v
<1>7. /\ PagesOK' /\ SpaceNeverNegative' /\ \A q \in Rid : SlotExists(q)' <=> SlotExists(q)
      /\ Slots' = [Slots EXCEPT ![r] = Live(v)]
  BY <1>1, <1>4, <1>5, <1>6, PutSmaller
<1> QED BY <1>2, <1>3, <1>7 DEF v

\* Commit finds the tuples it is about to free marked (or freed before).
LEMMA CommitRemoves ==
  ASSUME IInv, NEW t \in Txn, Committing(t), NEW i \in DOMAIN write_set[t],
         write_set[t][i].wtype = "DELETE" \/ Moved(write_set[t][i])
  PROVE  write_set[t][i].rid1 \in Rid /\ ContentOf(Slots[write_set[t][i].rid1]) = NoTuple
<1> DEFINE ws == write_set[t]
           wr == ws[i]
           r == wr.rid1
<1>1. ws \in Seq(WriteRecord) /\ TxnInv(t) /\ op[t].kind \in {"idle", "commit"}
  BY TxnTypes DEF Committing
<1>2. wr \in WriteRecord
  BY <1>1
<1>3. r \in Rid
  BY <1>2 DEF WriteRecord
<1>4. CASE op[t].kind = "commit"
  BY <1>1, <1>3, <1>4 DEF TxnInv, RemovedWhenCommitting
<1>5. CASE op[t].kind = "idle"
  <2>1. Chained(ws, Slots) /\ i \in DOMAIN ws
    BY <1>1, <1>5 DEF TxnInv, Work
  <2>2. Left(wr, r) = MarkedSlot(wr.tuple1) /\ Touches(wr, r)
    BY DEF Left, Touches, Moved
  <2>3. Left(wr, r).deleted
    BY <2>2 DEF MarkedSlot
  <2> HIDE DEF ws, r
  <2>4. LastTouch(ws, i, r)
    BY <1>3, <2>1, <2>2, <2>3 DEF Chained, LastTouch
  <2>5. Slots[r] = Left(wr, r)
    BY <1>3, <2>1, <2>4 DEF Chained
  <2> QED BY <1>3, <2>3, <2>5 DEF ContentOf, ws, r
<1> QED BY <1>1, <1>4, <1>5

LEMMA CommitRecordEffect ==
  ASSUME IInv, NEW t \in Txn, CommitRecord(t)
  PROVE  /\ Effect(t) /\ Work(t)' = <<>> /\ op'[t].kind = "commit" /\ UNCHANGED txn_state
         /\ \A r \in Rid : ContentOf(Slots'[r]) = ContentOf(Slots[r])
<1> DEFINE wr == LastRecord(t)
           r == wr.rid1
           frees == wr.wtype = "DELETE" \/ Moved(wr)
<1>1. /\ Committing(t) /\ write_set[t] # <<>> /\ DropRecord(t)
      /\ op' = [op EXCEPT ![t] = [kind |-> "commit"]] /\ ForgetReads(t) /\ UNCHANGED <<lockVars, txn_state>>
      /\ IF frees THEN ApplyDelete(t, r) ELSE UNCHANGED pageVars
  BY DEF CommitRecord, SetOp
<1>2. TxnsOK /\ TxnInv(t) /\ txn_state[t] = "GROWING" /\ LockStep
  BY <1>1, TxnTypes, NoLockStep DEF IInv, Committing
<1>3. wr \in WriteRecord /\ r \in Rid /\ \E i \in DOMAIN write_set[t] : wr = write_set[t][i]
  BY <1>1, <1>2, LastRecordFacts
<1>4. /\ write_set' \in [Txn -> Seq(WriteRecord)] /\ write_set'[t] = Front(write_set[t])
      /\ \A u \in Txn : u # t => write_set'[u] = write_set[u]
  BY <1>1, <1>2, DropRecordEffect
<1>5. op' \in [Txn -> OpState] /\ op'[t].kind = "commit" /\ \A u \in Txn : u # t => op'[u] = op[u]
  BY <1>1, <1>2, OpFacts DEF TxnsOK
<1>6. /\ seen' \in [Txn -> [Rid -> Value \cup {NoTuple, Unknown}]]
      /\ \A u \in Txn : u # t => seen'[u] = seen[u]
      /\ \A q \in Rid : seen'[t][q] = Unknown
  BY <1>1, <1>2, SeenForgotten
<1>7. TxnsOK' /\ OthersUnchanged(t)
  BY <1>1, <1>2, <1>4, <1>5, <1>6 DEF TxnsOK, OthersUnchanged
<1>8. Slots \in [Rid -> SlotState]
  BY SlotsAreFunction DEF IInv
<1> HIDE DEF wr, r
<1>9. /\ PagesOK' /\ SpaceNeverNegative'
      /\ \A q \in Rid : SlotExists(q)' <=> SlotExists(q)
      /\ \A q \in Rid : Slots'[q] # Slots[q] => exclusive_lock_table[q] = t
      /\ \A q \in Rid : ContentOf(Slots'[q]) = ContentOf(Slots[q])
  <2>1. CASE frees
    <3>1. /\ PagesOK' /\ SpaceNeverNegative' /\ exclusive_lock_table[r] = t
          /\ \A q \in Rid : SlotExists(q)' <=> SlotExists(q)
          /\ Slots' = [Slots EXCEPT ![r] = FreeSlot]
      BY <1>1, <1>3, <2>1, ApplyDeleteEffect
    <3>2. ContentOf(Slots[r]) = NoTuple /\ ContentOf(FreeSlot) = NoTuple
      BY <1>1, <1>3, <2>1, CommitRemoves DEF ContentOf, FreeSlot, r
    <3> QED BY <1>3, <1>8, <3>1, <3>2
  <2>2. CASE ~frees
    <3>1. UNCHANGED <<pages, freeSpacePointer>>
      BY <1>1, <2>2 DEF pageVars
    <3> QED BY <3>1 DEF IInv, PagesOK, SpaceNeverNegative, FreeSpaceRemaining, SlotExists, Slots
  <2> QED BY <2>1, <2>2
<1>10. UNCHANGED <<exclusive_lock_table, txn_state>>
  BY <1>1 DEF lockVars
<1>11. StepBy(t)
  BY <1>2, <1>7, <1>9, <1>10 DEF StepBy
<1>12. Work(t)' = <<>>
  BY <1>5 DEF Work
<1>13. Chained(Work(t)', Slots')
  BY <1>12 DEF Chained
<1>14. /\ DOMAIN write_set'[t] \subseteq DOMAIN write_set[t]
       /\ \A i \in DOMAIN write_set'[t] : write_set'[t][i] = write_set[t][i]
  BY <1>1, <1>2, <1>4, LastRecordFacts
<1>15. OwnsWrites(t)'
  BY <1>2, <1>5, <1>9, <1>10, <1>14 DEF TxnInv, OwnsWrites
<1>16. OpFitsState(t)' /\ MoveIsCurrent(t)'
  BY <1>2, <1>5, <1>10 DEF OpFitsState, MoveIsCurrent
<1>17. RemovedWhenCommitting(t)'
  BY <1>1, <1>9, <1>14, CommitRemoves DEF RemovedWhenCommitting, Moved
<1>18. ReadsLocked(t)'
  BY <1>6 DEF ReadsLocked
<1>19. TxnInv(t)'
  BY <1>13, <1>15, <1>16, <1>17, <1>18 DEF TxnInv
<1> QED BY <1>1, <1>5, <1>7, <1>9, <1>11, <1>12, <1>19 DEF Effect

\* The end of Commit or Abort.
Ends(t) ==
  /\ LockStep /\ txn_state[t] # "NONE" /\ write_set[t] = <<>>
  /\ txn_state' = [txn_state EXCEPT ![t] = "NONE"]
  /\ op[t].kind \in {"idle", "commit"} /\ op' = [op EXCEPT ![t] = Idle]
  /\ seen' \in [Txn -> [Rid -> Value \cup {NoTuple, Unknown}]]
  /\ \A u \in Txn : u # t => seen'[u] = seen[u]
  /\ \A r \in Rid : seen'[t][r] = Unknown
  /\ UNCHANGED <<pageVars, write_set>>

LEMMA EndsEffect ==
  ASSUME IInv, NEW t \in Txn, Ends(t)
  PROVE  Effect(t) /\ KeepsOriginal(t) /\ Work(t) = <<>> /\ Work(t)' = <<>>
<1>1. TxnsOK /\ txn_state \in [Txn -> LM!TxnState] /\ write_set' = write_set
  BY TxnTypes DEF IInv, Ends
<1>2. /\ op' \in [Txn -> OpState] /\ op'[t].kind = "idle" /\ op[t].kind \in {"idle", "commit"}
      /\ \A u \in Txn : u # t => op'[u] = op[u] /\ txn_state'[u] = txn_state[u]
      /\ txn_state'[t] = "NONE"
  BY <1>1, OpFacts DEF Ends, TxnsOK
<1>3. TxnsOK' /\ OthersUnchanged(t)
  BY <1>1, <1>2 DEF Ends, TxnsOK, OthersUnchanged
<1>4. Work(t) = <<>> /\ Work(t)' = <<>>
  BY <1>1, <1>2 DEF Work, Ends
<1>5. OpFitsState(t)' /\ OwnsWrites(t)' /\ MoveIsCurrent(t)' /\ RemovedWhenCommitting(t)' /\ ReadsLocked(t)'
  BY <1>1, <1>2 DEF Ends, OpFitsState, OwnsWrites, MoveIsCurrent, RemovedWhenCommitting, ReadsLocked
<1>6. LockStep /\ UNCHANGED pageVars
  BY DEF Ends
<1> QED BY <1>3, <1>4, <1>5, <1>6, QuietStep

LEMMA CommitEndEffect ==
  ASSUME IInv, NEW t \in Txn, CommitEnd(t) PROVE Ends(t)
<1>1. /\ Committing(t) /\ write_set[t] = <<>> /\ LM!ReleaseLocks(t) /\ ForgetReads(t)
      /\ op' = [op EXCEPT ![t] = Idle] /\ UNCHANGED <<pageVars, write_set>>
  BY DEF CommitEnd, SetOp
<1>2. LockStep /\ txn_state' = [txn_state EXCEPT ![t] = "NONE"]
  BY <1>1, ReleaseStep DEF LM!ReleaseLocks, LM!Drop
<1> QED BY <1>1, <1>2, SeenForgotten DEF Ends, Committing, IInv

LEMMA AbortEndEffect ==
  ASSUME IInv, NEW t \in Txn, AbortEnd(t) PROVE Ends(t)
<1>1. /\ Aborting(t) /\ write_set[t] = <<>> /\ LM!ReleaseLocks(t)
      /\ UNCHANGED <<op, seen, pageVars, write_set>>
  BY DEF AbortEnd
<1>2. LockStep /\ txn_state' = [txn_state EXCEPT ![t] = "NONE"]
  BY <1>1, ReleaseStep DEF LM!ReleaseLocks, LM!Drop
<1>3. op[t] = Idle /\ op[t].kind = "idle" /\ txn_state[t] = "ABORTED" /\ TxnInv(t) /\ TxnsOK
  BY <1>1, OpFacts DEF Aborting, IInv
<1>4. op' = [op EXCEPT ![t] = Idle]
  BY <1>1, <1>3 DEF TxnsOK
<1>5. \A r \in Rid : seen[t][r] = Unknown
  BY <1>3 DEF TxnInv, ReadsLocked, Running
<1> QED BY <1>1, <1>2, <1>3, <1>4, <1>5 DEF Ends, TxnsOK

\* The rollback of a record of one rid.
LEMMA Undone ==
  ASSUME IInv, NEW t \in Txn, NEW wr \in WriteRecord, NEW r \in Rid, txn_state[t] = "ABORTED",
         PagesOK', SpaceNeverNegative', \A q \in Rid : SlotExists(q)' <=> SlotExists(q),
         Slots' = [Slots EXCEPT ![r] = Found(wr, r)], wr.rid1 = r, wr.rid2 = r,
         write_set[t] # <<>>, DropRecord(t), op' \in [Txn -> OpState], op'[t] = Idle,
         \A u \in Txn : u # t => op'[u] = op[u],
         Work(t) = Append(Front(write_set[t]), wr), UNCHANGED <<lockVars, txn_state, seen>>
  PROVE  UndoesRecord(t, wr, r)
<1>1. TxnsOK /\ LockStep /\ op'[t].kind = "idle"
  BY NoLockStep, OpFacts DEF IInv
<1>2. /\ write_set' \in [Txn -> Seq(WriteRecord)] /\ write_set'[t] = Front(write_set[t])
      /\ \A u \in Txn : u # t => write_set'[u] = write_set[u]
      /\ Front(write_set[t]) \in Seq(WriteRecord)
  BY <1>1, DropRecordEffect, LastRecordFacts
<1>3. TxnsOK' /\ OthersUnchanged(t)
  BY <1>1, <1>2 DEF TxnsOK, OthersUnchanged
<1>4. Work(t)' = write_set'[t]
  BY <1>1 DEF Work
<1> QED BY <1>1, <1>2, <1>3, <1>4 DEF UndoesRecord, Frame

\* The first half of the rollback of a moved update.
LEMMA AbortMovedHalf ==
  ASSUME IInv, NEW t \in Txn, Aborting(t), write_set[t] # <<>>, Moved(LastRecord(t)),
         ApplyDelete(t, LastRecord(t).rid2), SetOp(t, [kind |-> "abortMove"]),
         UNCHANGED <<write_set, lockVars, txn_state, seen>>
  PROVE  Effect(t) /\ KeepsOriginal(t)
<1> DEFINE wr == LastRecord(t)
           rid == wr.rid1
           r == wr.rid2
           old == wr.tuple1
           new == wr.tuple2
           f == Front(write_set[t])
           d == Deletion(rid, old)
<1>1. TxnsOK /\ TxnInv(t) /\ txn_state[t] = "ABORTED" /\ op[t].kind = "idle" /\ LockStep
  BY TxnTypes, NoLockStep, OpFacts DEF IInv, Aborting
<1>2. wr \in WriteRecord /\ f \in Seq(WriteRecord) /\ write_set[t] = Append(f, wr)
  BY <1>1, LastRecordFacts
<1>3. rid \in Rid /\ r \in Rid /\ rid # r /\ old \in Value /\ new \in Value /\ wr = Record("UPDATE", rid, r, old, new)
  BY <1>2 DEF WriteRecord, Moved, Record
<1>4. /\ PagesOK' /\ SpaceNeverNegative' /\ exclusive_lock_table[r] = t
      /\ \A q \in Rid : SlotExists(q)' <=> SlotExists(q)
      /\ Slots' = [Slots EXCEPT ![r] = FreeSlot]
  BY <1>3, ApplyDeleteEffect
<1>5. /\ op' \in [Txn -> OpState] /\ op'[t] = [kind |-> "abortMove"] /\ op'[t].kind = "abortMove"
      /\ \A u \in Txn : u # t => op'[u] = op[u]
  BY <1>1, OpFacts DEF SetOp, TxnsOK
<1>6. Work(t) = Append(f, wr) /\ Work(t)' = Append(f, d)
  BY <1>1, <1>2, <1>5 DEF Work, LastRecord
<1>7. Touches(wr, rid) /\ Touches(wr, r) /\ Left(wr, rid) = MarkedSlot(old) /\ Left(wr, r) = Live(new)
  BY <1>3 DEF Touches, Left, Moved
<1>8. Chained(Append(f, wr), Slots)
  BY <1>1, <1>6 DEF TxnInv
<1> HIDE DEF wr, rid, r, old, new, f
<1>9. Slots[rid] = MarkedSlot(old) /\ Slots[r] = Live(new)
  BY <1>2, <1>3, <1>7, <1>8, LastLeft
<1>10. /\ Slots \in [Rid -> SlotState] /\ Slots' \in [Rid -> SlotState] /\ Slots'[r] = FreeSlot
       /\ \A q \in Rid : q # r => Slots[q] = Slots'[q]
  <2>1. Slots \in [Rid -> SlotState] /\ FreeSlot \in SlotState
    BY SlotsAreFunction, SlotFacts DEF IInv
  <2> QED BY <1>3, <1>4, <2>1
<1>11. SameWork(f, d, Slots', wr, Slots)
  <2>1. Slots'[rid] = MarkedSlot(old)
    BY <1>3, <1>9, <1>10
  <2>2. SameWork(f, d, Slots', Record("UPDATE", rid, r, old, new), Slots)
    BY <1>2, <1>3, <1>9, <1>10, <2>1, MoveRecords
  <2> QED BY <1>3, <2>2
<1>12. Chained(Work(t)', Slots') /\ KeepsOriginal(t)
  BY <1>6, <1>8, <1>11 DEF SameWork, KeepsOriginal
<1>13. UNCHANGED <<write_set, exclusive_lock_table, txn_state, seen>>
  BY DEF lockVars
<1>14. TxnsOK' /\ OthersUnchanged(t)
  BY <1>1, <1>5, <1>13 DEF TxnsOK, OthersUnchanged
<1>15. StepBy(t)
  BY <1>1, <1>4, <1>10, <1>13, <1>14 DEF StepBy
<1>16. OwnsWrites(t)' /\ MoveIsCurrent(t)' /\ RemovedWhenCommitting(t)'
  BY <1>1, <1>4, <1>5, <1>13 DEF TxnInv, OwnsWrites, MoveIsCurrent, RemovedWhenCommitting
<1>17. OpFitsState(t)'
  BY <1>1, <1>5, <1>13 DEF OpFitsState, LastRecord
<1>18. ReadsLocked(t)'
  BY <1>1, <1>13 DEF TxnInv, ReadsLocked, Running
<1>19. TxnInv(t)'
  BY <1>12, <1>16, <1>17, <1>18 DEF TxnInv
<1> QED BY <1>4, <1>12, <1>14, <1>15, <1>19 DEF Effect

\* The rollback of any other record takes it back at once.
LEMMA AbortRecordUndoes ==
  ASSUME IInv, NEW t \in Txn, AbortRecord(t), ~Moved(LastRecord(t))
  PROVE  UndoesRecord(t, LastRecord(t), LastRecord(t).rid1) /\ op[t] = Idle
<1> DEFINE wr == LastRecord(t)
           r == wr.rid1
<1>1. /\ Aborting(t) /\ write_set[t] # <<>> /\ UNCHANGED <<lockVars, txn_state, seen>> /\ ~Moved(wr)
      /\ \/ wr.wtype = "DELETE" /\ RollbackDelete(t, r) /\ DropRecord(t) /\ UNCHANGED op
         \/ wr.wtype = "INSERT" /\ ApplyDelete(t, r) /\ DropRecord(t) /\ UNCHANGED op
         \/ /\ wr.wtype = "UPDATE" /\ ~Moved(wr)
            /\ RollbackUpdateOK(t, r, wr.tuple1)
            /\ Put(r, Live(wr.tuple1)) /\ DropRecord(t) /\ UNCHANGED op
  BY DEF AbortRecord
<1>2. TxnsOK /\ TxnInv(t) /\ txn_state[t] = "ABORTED" /\ op[t] = Idle /\ op[t].kind = "idle"
  BY <1>1, TxnTypes, OpFacts DEF IInv, Aborting
<1>3. /\ wr \in WriteRecord /\ r \in Rid /\ wr.tuple1 \in Value /\ (wr.wtype # "UPDATE" => wr.rid2 = r)
      /\ Front(write_set[t]) \in Seq(WriteRecord)
      /\ write_set[t] = Append(Front(write_set[t]), wr)
  BY <1>1, <1>2, LastRecordFacts DEF WriteRecord
<1>4. Work(t) = Append(Front(write_set[t]), wr)
  BY <1>2, <1>3 DEF Work
<1>5. Chained(Append(Front(write_set[t]), wr), Slots)
  BY <1>2, <1>4 DEF TxnInv
<1>6. Slots[r] = Left(wr, r)
  BY <1>3, <1>5, LastLeft DEF Touches
<1> HIDE DEF wr, r
<1>7. ASSUME wr.rid2 = r, DropRecord(t), UNCHANGED op, PagesOK', SpaceNeverNegative',
             \A q \in Rid : SlotExists(q)' <=> SlotExists(q),
             Slots' = [Slots EXCEPT ![r] = Found(wr, r)]
      PROVE  UndoesRecord(t, wr, r)
  <2>1. op' \in [Txn -> OpState] /\ op'[t] = Idle /\ \A u \in Txn : u # t => op'[u] = op[u]
    BY <1>2, <1>7 DEF TxnsOK
  <2> QED BY <1>1, <1>2, <1>3, <1>4, <1>7, <2>1, Undone DEF r
<1>8. CASE wr.wtype = "DELETE" /\ RollbackDelete(t, r) /\ DropRecord(t) /\ UNCHANGED op
  <2>1. Slots[r].tuple = wr.tuple1 /\ Found(wr, r) = Live(wr.tuple1) /\ wr.rid2 = r
    BY <1>3, <1>6, <1>8 DEF Left, Found, MarkedSlot, r
  <2>2. /\ PagesOK' /\ SpaceNeverNegative' /\ \A q \in Rid : SlotExists(q)' <=> SlotExists(q)
        /\ Slots' = [Slots EXCEPT ![r] = Live(Slots[r].tuple)]
    BY <1>3, <1>8, RollbackDeleteEffect
  <2>3. UndoesRecord(t, wr, r)
    BY <1>7, <1>8, <2>1, <2>2
  <2> QED BY <1>2, <2>3 DEF wr, r
<1>9. CASE wr.wtype = "INSERT" /\ ApplyDelete(t, r) /\ DropRecord(t) /\ UNCHANGED op
  <2>1. Found(wr, r) = FreeSlot /\ wr.rid2 = r
    BY <1>3, <1>9 DEF Found
  <2>2. /\ PagesOK' /\ SpaceNeverNegative' /\ \A q \in Rid : SlotExists(q)' <=> SlotExists(q)
        /\ Slots' = [Slots EXCEPT ![r] = FreeSlot]
    BY <1>3, <1>9, ApplyDeleteEffect
  <2>3. UndoesRecord(t, wr, r)
    BY <1>7, <1>9, <2>1, <2>2
  <2> QED BY <1>2, <2>3 DEF wr, r
<1>10. CASE /\ wr.wtype = "UPDATE" /\ ~Moved(wr) /\ RollbackUpdateOK(t, r, wr.tuple1)
            /\ Put(r, Live(wr.tuple1)) /\ DropRecord(t) /\ UNCHANGED op
  <2>1. Found(wr, r) = Live(wr.tuple1) /\ wr.rid2 = r
    BY <1>10 DEF Found, Moved, r
  <2>2. SlotExists(r) /\ ~IsDeleted(r) /\ FreeSpaceRemaining(r[1]) + Size[Slot(r).tuple] >= Size[wr.tuple1]
    BY <1>10 DEF RollbackUpdateOK
  <2>3. PagesOK /\ SpaceNeverNegative /\ TupleSize(Slot(r)) = Size[Slot(r).tuple]
    BY <1>3, <2>2, LiveSlot DEF IInv
  <2>4. Live(wr.tuple1) \in SlotState /\ TupleSize(Live(wr.tuple1)) = Size[wr.tuple1]
    BY <1>3, SlotFacts, TupleSizes DEF Live
  <2>5. /\ PagesOK' /\ SpaceNeverNegative' /\ \A q \in Rid : SlotExists(q)' <=> SlotExists(q)
        /\ Slots' = [Slots EXCEPT ![r] = Live(wr.tuple1)]
    BY <1>3, <1>10, <2>2, <2>3, <2>4, PutEffect
  <2>6. UndoesRecord(t, wr, r)
    BY <1>7, <1>10, <2>1, <2>5
  <2> QED BY <1>2, <2>6 DEF wr, r
<1> QED BY <1>1, <1>2, <1>8, <1>9, <1>10 DEF wr, r

LEMMA AbortRecordEffect ==
  ASSUME IInv, NEW t \in Txn, AbortRecord(t)
  PROVE  Effect(t) /\ KeepsOriginal(t)
<1>1. CASE Moved(LastRecord(t))
  <2>1. /\ Aborting(t) /\ write_set[t] # <<>> /\ ApplyDelete(t, LastRecord(t).rid2)
        /\ SetOp(t, [kind |-> "abortMove"]) /\ UNCHANGED <<write_set, lockVars, txn_state, seen>>
    BY <1>1 DEF AbortRecord, Moved
  <2> QED BY <1>1, <2>1, AbortMovedHalf
<1>2. CASE ~Moved(LastRecord(t))
  <2>1. PICK wr \in WriteRecord, r \in Rid : UndoesRecord(t, wr, r)
    <3>1. write_set[t] # <<>> /\ TxnsOK
      BY DEF AbortRecord, IInv
    <3> QED BY <1>2, <3>1, AbortRecordUndoes, LastRecordFacts
  <2> QED BY <2>1, UndoneRecord
<1> QED BY <1>1, <1>2

LEMMA AbortMovedUndoes ==
  ASSUME IInv, NEW t \in Txn, AbortMoved(t)
  PROVE  /\ UndoesRecord(t, Deletion(LastRecord(t).rid1, LastRecord(t).tuple1), LastRecord(t).rid1)
         /\ LastRecord(t) \in WriteRecord /\ LastRecord(t).rid1 \in Rid
<1> DEFINE wr == LastRecord(t)
           r == wr.rid1
           d == Deletion(r, wr.tuple1)
<1>1. /\ op[t].kind = "abortMove" /\ RollbackDelete(t, r) /\ DropRecord(t)
      /\ op' = [op EXCEPT ![t] = Idle] /\ UNCHANGED <<lockVars, txn_state, seen>>
  BY DEF AbortMoved, SetOp
<1>2. TxnsOK /\ TxnInv(t) /\ txn_state[t] = "ABORTED" /\ write_set[t] # <<>>
  BY <1>1, TxnTypes DEF IInv, TxnInv, OpFitsState
<1>3. wr \in WriteRecord /\ r \in Rid /\ wr.tuple1 \in Value /\ Front(write_set[t]) \in Seq(WriteRecord)
  BY <1>2, LastRecordFacts DEF WriteRecord
<1>4. Work(t) = Append(Front(write_set[t]), d)
  BY <1>1 DEF Work
<1>5. /\ d \in WriteRecord /\ d.rid1 = r /\ d.rid2 = r /\ Touches(d, r)
      /\ Found(d, r) = Live(wr.tuple1) /\ Left(d, r) = MarkedSlot(wr.tuple1)
  BY <1>3 DEF Deletion, Record, WriteRecord, Found, Left, Touches
<1>6. Chained(Append(Front(write_set[t]), d), Slots)
  BY <1>2, <1>4 DEF TxnInv
<1> HIDE DEF wr, r, d
<1>7. Slots[r] = Left(d, r)
  BY <1>3, <1>5, <1>6, LastLeft
<1>8. Slots[r].tuple = wr.tuple1
  BY <1>5, <1>7 DEF MarkedSlot
<1>9. /\ PagesOK' /\ SpaceNeverNegative' /\ \A q \in Rid : SlotExists(q)' <=> SlotExists(q)
      /\ Slots' = [Slots EXCEPT ![r] = Live(Slots[r].tuple)]
  BY <1>1, <1>3, RollbackDeleteEffect
<1>10. op' \in [Txn -> OpState] /\ op'[t] = Idle /\ \A u \in Txn : u # t => op'[u] = op[u]
  BY <1>1, <1>2, OpFacts DEF TxnsOK
<1>11. UndoesRecord(t, d, r)
  BY <1>1, <1>2, <1>3, <1>4, <1>5, <1>8, <1>9, <1>10, Undone
<1> QED BY <1>3, <1>11 DEF wr, r, d

LEMMA AbortMovedEffect ==
  ASSUME IInv, NEW t \in Txn, AbortMoved(t)
  PROVE  Effect(t) /\ KeepsOriginal(t)
BY AbortMovedUndoes, UndoneRecord

-----------------------------------------------------------------------------
(***************************************************************************)
(* The theorems.                                                           *)
(***************************************************************************)
\* Every step of a transaction keeps the invariant.
LEMMA StepEffect ==
  ASSUME IInv, NEW t \in Txn, Begin(t) \/ Operate(t) \/ Finish(t)
  PROVE  Effect(t)
<1>1. CASE Begin(t)
  BY <1>1, BeginEffect
<1>2. ASSUME NEW v \in Value, InsertTuple(t, v) PROVE Effect(t)
  <2>1. PICK r \in Rid : RecordsWrite(t, Record("INSERT", r, r, v, NoTuple), r)
    BY <1>2, InsertTupleEffect
  <2> QED BY <2>1, RecordsWriteEffect
<1>3. ASSUME NEW r \in Rid, GetTuple(t, r) PROVE Effect(t)
  BY <1>3, GetTupleEffect, AbortsEffect, ReadsEffect
<1>4. ASSUME NEW r \in Rid, MarkDelete(t, r) PROVE Effect(t)
  BY <1>4, MarkDeleteEffect, AbortsEffect, RecordsWriteEffect
<1>5. ASSUME NEW r \in Rid, NEW v \in Value, UpdateTuple(t, r, v) PROVE Effect(t)
  <2>1. CASE Aborts(t)
    BY <2>1, AbortsEffect
  <2>2. CASE RecordsWrite(t, Record("UPDATE", r, r, Slot(r).tuple, v), r)
    BY <2>2, RecordsWriteEffect
  <2>3. CASE StartsMove(t, r, v)
    BY <2>3, StartsMoveEffect
  <2> QED BY <1>5, <2>1, <2>2, <2>3, UpdateTupleEffect
<1>6. CASE MoveDelete(t)
  BY <1>6, MoveDeleteEffect, AbortsEffect, HalfMovesEffect
<1>7. CASE MoveInsert(t)
  BY <1>7, MoveInsertEffect
<1>8. CASE Fail(t)
  BY <1>8, FailEffect, AbortsEffect
<1>9. CASE CommitRecord(t)
  BY <1>9, CommitRecordEffect
<1>10. CASE CommitEnd(t)
  BY <1>10, CommitEndEffect, EndsEffect
<1>11. CASE AbortRecord(t)
  BY <1>11, AbortRecordEffect
<1>12. CASE AbortMoved(t)
  BY <1>12, AbortMovedEffect
<1>13. CASE AbortEnd(t)
  BY <1>13, AbortEndEffect, EndsEffect
<1> QED BY <1>1, <1>2, <1>3, <1>4, <1>5, <1>6, <1>7, <1>8, <1>9, <1>10, <1>11, <1>12, <1>13
        DEF Operate, Finish

LEMMA EffectKeepsInv ==
  ASSUME IInv, NEW t \in Txn, Effect(t) PROVE IInv'
<1>1. StepBy(t) /\ LockStep
  BY DEF Effect, StepBy
<1>2. LockInv'
  BY <1>1, LockInvKept DEF IInv
<1>3. \A u \in Txn : TxnInv(u)'
  BY <1>1, OthersKeepInv DEF Effect
<1> QED BY <1>2, <1>3 DEF IInv, Effect

LEMMA StutterKeepsInv ==
  ASSUME IInv, UNCHANGED vars PROVE IInv' /\ LockStep
<1>1. /\ UNCHANGED <<shared_lock_table, exclusive_lock_table, shared_lock_set, exclusive_lock_set>>
      /\ UNCHANGED <<txn_state, pages, freeSpacePointer, write_set, op, seen>>
  BY DEF vars, lockVars, pageVars
<1>2. LockStep
  BY <1>1, NoLockStep DEF lockVars
<1>3. LockInv'
  BY <1>2, LockInvKept DEF IInv
<1>4. Slots' = Slots /\ \A r \in Rid : SlotExists(r)' <=> SlotExists(r)
  BY <1>1 DEF Slots, SlotExists
<1>5. PagesOK' /\ TxnsOK' /\ SpaceNeverNegative'
  BY <1>1 DEF IInv, PagesOK, TxnsOK, SpaceNeverNegative, FreeSpaceRemaining
<1>6. ASSUME NEW t \in Txn PROVE TxnInv(t)'
  <2>1. Work(t)' = Work(t) /\ TxnInv(t)
    BY <1>1, WorkUnchanged DEF IInv
  <2>4. OpFitsState(t)' /\ MoveIsCurrent(t)' /\ RemovedWhenCommitting(t)'
    BY <1>1, <1>4, <2>1 DEF TxnInv, OpFitsState, MoveIsCurrent, RemovedWhenCommitting, LastRecord
  <2>2. OwnsWrites(t)'
    BY <1>1, <2>1 DEF TxnInv, OwnsWrites, SlotExists
  <2>3. ReadsLocked(t)'
    BY <1>1, <2>1 DEF TxnInv, ReadsLocked, Running, Holds
  <2> QED BY <1>4, <2>1, <2>2, <2>3, <2>4 DEF TxnInv
<1> QED BY <1>2, <1>3, <1>5, <1>6 DEF IInv

LEMMA NextInv ==
  ASSUME IInv, [Next]_vars PROVE IInv' /\ LockStep
<1>1. CASE Next
  <2>1. PICK t \in Txn : Begin(t) \/ Operate(t) \/ Finish(t)
    BY <1>1 DEF Next
  <2>2. Effect(t)
    BY <2>1, StepEffect
  <2> QED BY <2>2, EffectKeepsInv DEF Effect, StepBy
<1>2. CASE UNCHANGED vars
  BY <1>2, StutterKeepsInv
<1> QED BY <1>1, <1>2

LEMMA InitInv == Init => IInv
<1> SUFFICES ASSUME Init PROVE IInv
  OBVIOUS
<1>1. LockInv
  BY SizeAssumption DEF Init, LM!Init, LockInv, LM!TypeOK, LM!TxnState, LM!Exclusion, LM!LockBookkeeping,
     LM!NoOrphanLocks, LM!IsSharedLocked, LM!IsExclusiveLocked, LM!Active
<1>2. PagesOK
  BY SizeAssumption DEF Init, PagesOK
<1>3. TxnsOK
  BY OpFacts DEF Init, TxnsOK
<1>4. SpaceNeverNegative
  BY SizeAssumption DEF Init, SpaceNeverNegative, FreeSpaceRemaining
<1>5. ASSUME NEW t \in Txn PROVE TxnInv(t)
  <2>1. write_set[t] = <<>> /\ op[t].kind = "idle" /\ \A r \in Rid : seen[t][r] = Unknown
    BY OpFacts DEF Init
  <2>2. Work(t) = <<>>
    BY <2>1 DEF Work
  <2> QED BY <2>1, <2>2 DEF TxnInv, OpFitsState, OwnsWrites, Chained, MoveIsCurrent, RemovedWhenCommitting, ReadsLocked
<1> QED BY <1>1, <1>2, <1>3, <1>4, <1>5 DEF IInv

LEMMA OwnedIsLocked ==
  ASSUME IInv, NEW t \in Txn, NEW r \in Rid, exclusive_lock_table[r] = t
  PROVE  LM!IsExclusiveLocked(t, r)
BY DEF IInv, LockInv, LM!LockBookkeeping, LM!IsExclusiveLocked

LEMMA WorkCanFinish == IInv => HalfDoneWorkCanFinish
<1> SUFFICES ASSUME IInv, NEW t \in Txn
             PROVE  /\ Committing(t) /\ write_set[t] # <<>> => CommitRecordOK(t, LastRecord(t))
                    /\ Aborting(t) /\ write_set[t] # <<>> => AbortRecordOK(t, LastRecord(t))
                    /\ op[t].kind = "abortMove" => RollbackDeleteOK(t, LastRecord(t).rid1)
                    /\ op[t].kind = "move" => LM!IsExclusiveLocked(t, op[t].rid) /\ ~IsDeleted(op[t].rid)
  BY DEF HalfDoneWorkCanFinish
<1>1. TxnsOK /\ TxnInv(t) /\ PagesOK /\ op[t] \in OpState
  BY TxnTypes DEF IInv
<1> DEFINE wr == LastRecord(t)
<1>2. ASSUME write_set[t] # <<>>
      PROVE  /\ wr \in WriteRecord /\ wr.rid1 \in Rid /\ wr.rid2 \in Rid
             /\ wr.tuple1 \in Value /\ (wr.wtype = "UPDATE" => wr.tuple2 \in Value)
             /\ wr.wtype \in {"INSERT", "DELETE", "UPDATE"}
             /\ (wr.wtype = "UPDATE" /\ wr.rid1 = wr.rid2 => Size[wr.tuple1] <= Size[wr.tuple2])
             /\ \A r \in {wr.rid1, wr.rid2} : SlotExists(r) /\ LM!IsExclusiveLocked(t, r)
  <2>1. wr \in WriteRecord /\ wr.rid1 \in Rid /\ wr.rid2 \in Rid /\ \E i \in DOMAIN write_set[t] : wr = write_set[t][i]
    BY <1>1, <1>2, LastRecordFacts
  <2>2. \A r \in {wr.rid1, wr.rid2} : SlotExists(r) /\ exclusive_lock_table[r] = t
    BY <1>1, <2>1 DEF TxnInv, OwnsWrites, Touches
  <2>3. \A r \in {wr.rid1, wr.rid2} : LM!IsExclusiveLocked(t, r)
    BY <2>1, <2>2, OwnedIsLocked
  <2>4. /\ wr.tuple1 \in Value /\ (wr.wtype = "UPDATE" => wr.tuple2 \in Value)
        /\ wr.wtype \in {"INSERT", "DELETE", "UPDATE"}
        /\ (wr.wtype = "UPDATE" /\ wr.rid1 = wr.rid2 => Size[wr.tuple1] <= Size[wr.tuple2])
    BY <2>1 DEF WriteRecord
  <2> QED BY <2>1, <2>2, <2>3, <2>4
<1>3. ASSUME Committing(t), write_set[t] # <<>> PROVE CommitRecordOK(t, wr)
  BY <1>2, <1>3 DEF CommitRecordOK, ApplyDeleteOK
<1>4. ASSUME Aborting(t), write_set[t] # <<>> PROVE AbortRecordOK(t, wr)
  <2> DEFINE f == Front(write_set[t])
             r == wr.rid1
  <2>1. f \in Seq(WriteRecord) /\ write_set[t] = Append(f, wr) /\ op[t].kind = "idle"
    BY <1>1, <1>4, LastRecordFacts, OpFacts DEF Aborting
  <2>2. Chained(Append(f, wr), Slots)
    BY <1>1, <2>1 DEF TxnInv, Work
  <2>3. Slots[r] = Left(wr, r) /\ Slots[r] = Slot(r) /\ SlotExists(r)
    <3> HIDE DEF wr, f
    <3>1. Slots[r] = Left(wr, r)
      BY <1>2, <1>4, <2>1, <2>2, LastLeft DEF Touches
    <3> QED BY <1>2, <1>4, <3>1, SlotsAndPages
  <2> HIDE DEF wr, f, r
  <2>4. Left(wr, r).tuple # NoTuple
    BY <1>2, <1>4, FoundLeft
  <2>5. RollbackDeleteOK(t, r) /\ ApplyDeleteOK(t, r) /\ ApplyDeleteOK(t, wr.rid2)
    BY <1>2, <1>4, <2>3, <2>4 DEF RollbackDeleteOK, ApplyDeleteOK, r
  <2>6. CASE wr.wtype = "UPDATE" /\ ~Moved(wr)
    <3>1. wr.rid2 = r /\ Slot(r) = Live(wr.tuple2) /\ wr.tuple2 \in Value /\ Size[wr.tuple1] <= Size[wr.tuple2]
      BY <1>2, <1>4, <2>3, <2>6 DEF Moved, Left, r
    <3>2. ~IsDeleted(r) /\ Slot(r).tuple = wr.tuple2
      BY <3>1, SizeAssumption DEF IsDeleted, Live
    <3>3. FreeSpaceRemaining(r[1]) >= 0 /\ FreeSpaceRemaining(r[1]) \in Int
      BY <1>1, <2>3, SpaceIsInt DEF IInv, SpaceNeverNegative, SlotExists
    <3>4. Size[wr.tuple1] \in Nat /\ Size[wr.tuple2] \in Nat
      BY <1>2, <1>4, <2>6, SizeAssumption
    <3>5. FreeSpaceRemaining(r[1]) + Size[Slot(r).tuple] >= Size[wr.tuple1]
      BY <3>1, <3>2, <3>3, <3>4
    <3>6. RollbackUpdateOK(t, r, wr.tuple1)
      BY <1>2, <1>4, <2>3, <3>2, <3>5 DEF RollbackUpdateOK, r
    <3> QED BY <2>6, <3>6 DEF AbortRecordOK, r
  <2>7. CASE Moved(wr)
    BY <2>5, <2>7 DEF AbortRecordOK, r, Moved
  <2>8. CASE wr.wtype = "DELETE"
    BY <2>5, <2>8 DEF AbortRecordOK, r
  <2>9. CASE wr.wtype = "INSERT"
    BY <2>5, <2>9 DEF AbortRecordOK, r
  <2> QED BY <1>2, <1>4, <2>6, <2>7, <2>8, <2>9
<1>5. ASSUME op[t].kind = "abortMove" PROVE RollbackDeleteOK(t, wr.rid1)
  <2> DEFINE f == Front(write_set[t])
             r == wr.rid1
             d == Deletion(r, wr.tuple1)
  <2>0. write_set[t] # <<>>
    BY <1>1, <1>5 DEF TxnInv, OpFitsState
  <2>1. f \in Seq(WriteRecord) /\ r \in Rid /\ wr.tuple1 \in Value /\ SlotExists(r) /\ LM!IsExclusiveLocked(t, r)
    BY <1>1, <1>2, <2>0, LastRecordFacts
  <2>2. Chained(Append(f, d), Slots)
    BY <1>1, <1>5 DEF TxnInv, Work
  <2>3. d \in WriteRecord /\ Touches(d, r)
    BY <2>1 DEF Deletion, Record, WriteRecord, Touches
  <2> HIDE DEF wr, f, r, d
  <2>4. Slots[r] = Left(d, r) /\ Left(d, r).tuple # NoTuple
    BY <2>1, <2>2, <2>3, LastLeft, FoundLeft
  <2>5. Slots[r] = Slot(r)
    BY <2>1, SlotsAndPages
  <2> QED BY <2>1, <2>4, <2>5 DEF RollbackDeleteOK, r
<1>6. ASSUME op[t].kind = "move" PROVE LM!IsExclusiveLocked(t, op[t].rid) /\ ~IsDeleted(op[t].rid)
  <2> DEFINE r == op[t].rid
  <2>1. r \in Rid /\ op[t].old \in Value /\ SlotExists(r) /\ exclusive_lock_table[r] = t /\ Slots[r] = Live(op[t].old)
    BY <1>1, <1>6, OpFacts DEF TxnInv, OwnsWrites, MoveIsCurrent
  <2>2. Slot(r) = Live(op[t].old)
    BY <2>1, SlotsAndPages
  <2> QED BY <2>1, <2>2, OwnedIsLocked, SizeAssumption DEF IsDeleted, Live
<1> QED BY <1>3, <1>4, <1>5, <1>6

LEMMA InvTypes == IInv => TypeOK
<1> SUFFICES ASSUME IInv PROVE TypeOK
  OBVIOUS
<1>1. ASSUME NEW p \in DOMAIN pages, NEW i \in DOMAIN pages[p]
      PROVE  pages[p][i] \in {FreeSlot} \cup [tuple : Value, deleted : BOOLEAN]
  <2>1. pages[p] \in Seq(SlotState)
    BY DEF IInv, PagesOK
  <2>2. pages[p][i] \in SlotState
    BY <2>1
  <2> QED BY <2>2 DEF SlotState
<1>2. ASSUME NEW t \in Txn PROVE op[t].kind \in OpKind
  BY TxnTypes
<1>3. ASSUME NEW t \in Txn, NEW i \in DOMAIN write_set[t]
      PROVE  write_set[t][i].rid1 \in Rid /\ write_set[t][i].rid2 \in Rid
  <2>1. write_set[t][i] \in WriteRecord
    BY TxnTypes
  <2> QED BY <2>1 DEF WriteRecord
<1> QED BY <1>1, <1>2, <1>3 DEF TypeOK, IInv, LockInv, TxnsOK

\* The invariant holds of every behaviour.
THEOREM Invariance == Spec => []IInv
<1>1. IInv /\ [Next]_vars => IInv'
  BY NextInv
<1> QED BY <1>1, InitInv, PTL DEF Spec

\* The page chain, the write sets and the operations in progress stay well
\* formed (TransactionManager, TableHeap and TablePage).
THEOREM TypeCorrect == Spec => []TypeOK
BY Invariance, InvTypes, PTL

\* The unsigned subtraction in getFreeSpaceRemaining never wraps around: no
\* insert, update in place, delete or rollback of TablePage takes more than the
\* page has.
THEOREM SpaceStaysNonNegative == Spec => []SpaceNeverNegative
<1>1. IInv => SpaceNeverNegative
  BY DEF IInv
<1> QED BY <1>1, Invariance, PTL

\* No assertion or panic of ApplyDelete, RollbackDelete or the rollback of an
\* update fires during Commit and Abort, and the halves of an update that moves
\* its tuple find it as they left it.
THEOREM CommitAndAbortCanFinish == Spec => []HalfDoneWorkCanFinish
BY Invariance, WorkCanFinish, PTL

\* Whatever transactions do to locks is a step of the lock manager.
THEOREM LockProtocolFollowed == Spec => FollowsLockProtocol
<1>1. Init => LM!Init
  BY DEF Init
<1>2. IInv /\ [Next]_vars => [LM!Next]_(LM!vars)
  BY NextInv DEF LockStep
<1> QED BY <1>1, <1>2, Invariance, PTL DEF Spec, FollowsLockProtocol, LM!Spec

-----------------------------------------------------------------------------
(***************************************************************************)
(* The refinement of SerializableStore.  A rid has at most one writer, so  *)
(* what is committed there is the original of that writer's work.          *)
(***************************************************************************)
OverlayIsContent ==
  /\ \A u \in Txn, r \in Rid :
       Overlay[u][r] = IF u \in Running /\ Writes(Work(u), r) THEN ContentOf(Slots[r]) ELSE Unknown
  /\ Overlay = [u \in Txn |-> [r \in Rid |-> Overlay[u][r]]]
  /\ Committed = [r \in Rid |-> Committed[r]]

CommittedIsOriginal ==
  \A t \in Txn, r \in Rid :
    (\A u \in Txn \ {t} : ~Writes(Work(u), r)) => Committed[r] = Original(Work(t), Slots, r)

OneWriter ==
  \A t \in Txn, r \in Rid : Writes(Work(t), r) => \A u \in Txn \ {t} : ~Writes(Work(u), r)

LEMMA OneWriterHolds == IInv => OneWriter
BY NoCommonWrites DEF OneWriter

LEMMA OverlayValue == OverlayIsContent
<1>1. \A r \in Rid : Content(r) = ContentOf(Slots[r])
  BY SlotsAndPages
<1>2. \A u \in Txn, r \in Rid : Overlay[u][r] = IF u \in Running /\ Writes(Work(u), r) THEN Content(r) ELSE Unknown
  BY DEF Overlay
<1>3. Overlay = [u \in Txn |-> [r \in Rid |-> Overlay[u][r]]]
  BY DEF Overlay
<1>4. Committed = [r \in Rid |-> Committed[r]]
  BY DEF Committed
<1> QED BY <1>1, <1>2, <1>3, <1>4 DEF OverlayIsContent

LEMMA CommittedValue == IInv => CommittedIsOriginal
<1> SUFFICES ASSUME IInv, NEW t \in Txn, NEW r \in Rid, \A u \in Txn \ {t} : ~Writes(Work(u), r)
             PROVE  Committed[r] = Original(Work(t), Slots, r)
  BY DEF CommittedIsOriginal
<1> DEFINE work == [u \in Txn |-> Work(u)]
           writers == {u \in Txn : Writes(work[u], r)}
<1>1. Committed[r] = IF writers = {} THEN Content(r) ELSE BeforeImage(work[CHOOSE u \in writers : TRUE], r)
  BY DEF Committed
<1>2. writers = IF Writes(Work(t), r) THEN {t} ELSE {}
  OBVIOUS
<1>3. CASE Writes(Work(t), r)
  <2>1. writers = {t} /\ work[t] = Work(t)
    BY <1>2, <1>3
  <2> HIDE DEF writers, work
  <2>2. (CHOOSE u \in writers : TRUE) = t
    BY <2>1
  <2> QED BY <1>1, <1>3, <2>1, <2>2 DEF Original
<1>4. CASE ~Writes(Work(t), r)
  <2>1. writers = {}
    BY <1>2, <1>4
  <2> HIDE DEF writers
  <2> QED BY <1>1, <1>4, <2>1, SlotsAndPages DEF Original
<1> QED BY <1>3, <1>4

\* Another transaction's work does not show that t made a step.
LEMMA OthersInStore ==
  ASSUME IInv, NEW t \in Txn, StepBy(t), NEW u \in Txn, u # t
  PROVE  /\ Work(u)' = Work(u) /\ (u \in Running)' = (u \in Running) /\ seen'[u] = seen[u]
         /\ \A r \in Rid : Writes(Work(u), r) => Slots'[r] = Slots[r]
         /\ \A r \in Rid : Overlay'[u][r] = Overlay[u][r]
<1>1. /\ write_set'[u] = write_set[u] /\ op'[u] = op[u]
      /\ seen'[u] = seen[u] /\ txn_state'[u] = txn_state[u]
  BY DEF StepBy, OthersUnchanged
<1>2. Work(u)' = Work(u)
  BY <1>1, WorkUnchanged
<1>3. (u \in Running)' = (u \in Running)
  BY <1>1 DEF Running
<1>4. \A r \in Rid : Writes(Work(u), r) => Slots'[r] = Slots[r]
  <2> SUFFICES ASSUME NEW r \in Rid, Writes(Work(u), r) PROVE Slots'[r] = Slots[r]
    OBVIOUS
  <2>1. exclusive_lock_table[r] = u
    BY NoCommonWrites
  <2>2. txn_state[u] # "NONE"
    BY <2>1 DEF IInv, LockInv, LM!NoOrphanLocks, LM!Active
  <2>3. exclusive_lock_table'[r] = u
    BY <1>1, <2>1, <2>2, HeldLocksKept DEF IInv, StepBy
  <2> QED BY <2>3 DEF StepBy
<1>5. \A r \in Rid :
        Overlay'[u][r] = IF (u \in Running)' /\ Writes(Work(u)', r) THEN ContentOf(Slots'[r]) ELSE Unknown
  <2>1. OverlayIsContent'
    BY OverlayValue, PTL
  <2> QED BY <2>1 DEF OverlayIsContent
<1>6. \A r \in Rid : Overlay'[u][r] = Overlay[u][r]
  BY <1>2, <1>3, <1>4, <1>5, OverlayValue DEF OverlayIsContent
<1> QED BY <1>1, <1>2, <1>3, <1>4, <1>6

LEMMA CommittedKept ==
  ASSUME IInv, IInv', NEW t \in Txn, StepBy(t), NEW r \in Rid,
         Original(Work(t)', Slots', r) = Original(Work(t), Slots, r)
  PROVE  Committed'[r] = Committed[r]
<1>1. \A x \in Txn : (\A u \in Txn \ {x} : ~Writes(Work(u), r)) => Committed[r] = Original(Work(x), Slots, r)
  BY CommittedValue DEF CommittedIsOriginal
<1>2. \A x \in Txn : (\A u \in Txn \ {x} : ~Writes(Work(u)', r)) => Committed'[r] = Original(Work(x)', Slots', r)
  <2>1. CommittedIsOriginal'
    BY CommittedValue, PTL
  <2> QED BY <2>1 DEF CommittedIsOriginal
<1>3. \A u \in Txn : u # t => Work(u)' = Work(u)
  BY OthersInStore
<1>4. CASE \A u \in Txn \ {t} : ~Writes(Work(u), r)
  BY <1>1, <1>2, <1>3, <1>4
<1>5. ASSUME NEW u \in Txn \ {t}, Writes(Work(u), r) PROVE Committed'[r] = Committed[r]
  <2>1. \A x \in Txn \ {u} : ~Writes(Work(x), r)
    BY <1>5, NoCommonWrites
  <2>2. ~Writes(Work(t)', r)
    <3>1. OneWriter'
      BY OneWriterHolds, PTL
    <3> QED BY <1>3, <1>5, <3>1 DEF OneWriter
  <2>3. \A x \in Txn \ {u} : ~Writes(Work(x)', r)
    BY <1>3, <2>1, <2>2
  <2>4. Original(Work(u)', Slots', r) = Original(Work(u), Slots, r)
    BY <1>3, <1>5 DEF Original
  <2> QED BY <1>1, <1>2, <2>1, <2>3, <2>4
<1> QED BY <1>4, <1>5

\* A step of t that others and the committed state do not notice.
LEMMA UnnoticedStep ==
  ASSUME IInv, IInv', NEW t \in Txn, StepBy(t), KeepsOriginal(t)
  PROVE  /\ Committed' = Committed
         /\ \A u \in Txn, r \in Rid :
              Overlay'[u][r] = IF (u \in Running)' /\ Writes(Work(u)', r) THEN ContentOf(Slots'[r]) ELSE Unknown
         /\ Overlay' = [u \in Txn |-> [r \in Rid |-> Overlay'[u][r]]]
<1>1. OverlayIsContent /\ OverlayIsContent'
  BY OverlayValue, PTL
<1>2. \A r \in Rid : Committed'[r] = Committed[r]
  BY CommittedKept DEF KeepsOriginal
<1> QED BY <1>1, <1>2 DEF OverlayIsContent

\* ... and that changes nothing t itself has read or written.
LEMMA InternalStep ==
  ASSUME IInv, IInv', NEW t \in Txn, StepBy(t), KeepsOriginal(t), seen' = seen,
         (t \in Running)' = (t \in Running),
         t \in Running => Work(t)' = Work(t) /\ Slots' = Slots
  PROVE  Store!StoreInternal
<1>1. Committed' = Committed
  BY UnnoticedStep
<1>2. \A u \in Txn : (u \in Running)' = (u \in Running)
  BY OthersInStore
<1>3. \A u \in Txn, r \in Rid : Overlay'[u][r] = Overlay[u][r]
  <2> SUFFICES ASSUME NEW u \in Txn, NEW r \in Rid PROVE Overlay'[u][r] = Overlay[u][r]
    OBVIOUS
  <2>1. CASE u # t
    BY <2>1, OthersInStore
  <2>2. CASE u = t
    BY <2>2, UnnoticedStep, OverlayValue DEF OverlayIsContent
  <2> QED BY <2>1, <2>2
<1>4. Overlay' = Overlay
  BY <1>3, UnnoticedStep, OverlayValue, Zenon DEF OverlayIsContent
<1>5. Running' = Running
  BY <1>2 DEF Running
<1> QED BY <1>1, <1>4, <1>5 DEF Store!StoreInternal, Store!storeVars

\* A tuple t holds for itself: others have neither read nor written it.
LEMMA OthersKeepOff ==
  ASSUME IInv, IInv', NEW t \in Txn, StepBy(t), NEW u \in Txn, u # t, NEW r \in Rid
  PROVE  /\ Holds(t, r)' => ~Writes(Work(u), r)
         /\ exclusive_lock_table'[r] = t /\ u \in Running => seen[u][r] = Unknown
<1>1. /\ txn_state'[u] = txn_state[u] /\ Work(u)' = Work(u) /\ LockInv /\ LockInv' /\ LockStep /\ TxnInv(u)
  BY OthersInStore DEF StepBy, OthersUnchanged, IInv
<1>2. txn_state[u] # "NONE" =>
        /\ exclusive_lock_table[r] = u => exclusive_lock_table'[r] = u
        /\ u \in shared_lock_table[r] => u \in shared_lock_table'[r]
  BY <1>1, HeldLocksKept
<1>3. /\ exclusive_lock_table[r] = u => txn_state[u] # "NONE"
  BY <1>1 DEF LockInv, LM!NoOrphanLocks, LM!Active
<1>4. LM!Exclusion'
  BY <1>1 DEF LockInv
<1>5. Holds(t, r)' => ~Writes(Work(u), r)
  <2>1. Writes(Work(u), r) => exclusive_lock_table'[r] = u
    BY <1>2, <1>3, NoCommonWrites
  <2> QED BY <1>4, <2>1, SizeAssumption DEF Holds, LM!Exclusion
<1>6. exclusive_lock_table'[r] = t /\ u \in Running => seen[u][r] = Unknown
  <2> SUFFICES ASSUME exclusive_lock_table'[r] = t, u \in Running, seen[u][r] # Unknown PROVE FALSE
    OBVIOUS
  <2>1. Holds(u, r) /\ txn_state[u] # "NONE"
    BY <1>1 DEF TxnInv, ReadsLocked, Running
  <2>2. exclusive_lock_table'[r] = u \/ u \in shared_lock_table'[r]
    BY <1>2, <2>1 DEF Holds
  <2> QED BY <1>4, <2>2, SizeAssumption DEF LM!Exclusion
<1> QED BY <1>5, <1>6

\* t writes r.
LEMMA WriteStep ==
  ASSUME IInv, IInv', NEW t \in Txn, StepBy(t), KeepsOriginal(t), t \in Running, (t \in Running)',
         NEW r \in Rid, exclusive_lock_table'[r] = t, Overwrote(t, r),
         \A q \in Rid : q # r => Slots'[q] = Slots[q],
         \A q \in Rid : Writes(Work(t)', q) <=> (q = r \/ Writes(Work(t), q))
  PROVE  Store!StoreWrite(t, r)
<1>1. Committed' = Committed
  BY UnnoticedStep
<1>2. \A u \in Txn : (u \in Running)' = (u \in Running)
  BY OthersInStore
<1>3. Running' = Running
  BY <1>2 DEF Running
<1>4. \A u \in Running \ {t} : Overlay[u][r] = Unknown /\ seen[u][r] = Unknown
  <2> SUFFICES ASSUME NEW u \in Txn, u # t, u \in Running PROVE Overlay[u][r] = Unknown /\ seen[u][r] = Unknown
    BY DEF Running
  <2>1. ~Writes(Work(u), r) /\ seen[u][r] = Unknown
    BY OthersKeepOff DEF Holds
  <2> QED BY <2>1, OverlayValue DEF OverlayIsContent
<1>5. Overlay'[t][r] \in Value \cup {NoTuple}
  <2>1. Slots' \in [Rid -> SlotState]
    <3>1. (PagesOK => Slots \in [Rid -> SlotState])'
      BY SlotsTyped, PTL
    <3> QED BY <3>1 DEF IInv
  <2>2. ContentOf(Slots'[r]) \in Value \cup {NoTuple}
    BY <2>1, SlotFacts DEF ContentOf
  <2> QED BY <2>2, UnnoticedStep
<1>6. \A u \in Txn, q \in Rid : <<u, q>> # <<t, r>> => Overlay'[u][q] = Overlay[u][q]
  <2> SUFFICES ASSUME NEW u \in Txn, NEW q \in Rid, u # t \/ q # r PROVE Overlay'[u][q] = Overlay[u][q]
    OBVIOUS
  <2>1. CASE u # t
    BY <2>1, OthersInStore
  <2>2. CASE u = t /\ q # r
    BY <2>2, UnnoticedStep, OverlayValue DEF OverlayIsContent
  <2> QED BY <2>1, <2>2
<1>7. Overlay' = [Overlay EXCEPT ![t][r] = Overlay'[t][r]]
  <2> DEFINE O == Overlay
             P == Overlay'
  <2>1. O = [u \in Txn |-> [q \in Rid |-> O[u][q]]] /\ P = [u \in Txn |-> [q \in Rid |-> P[u][q]]]
    BY UnnoticedStep, OverlayValue DEF OverlayIsContent
  <2>2. \A u \in Txn, q \in Rid : <<u, q>> # <<t, r>> => P[u][q] = O[u][q]
    BY <1>6
  <2> HIDE DEF O, P
  <2>3. P = [O EXCEPT ![t][r] = P[t][r]]
    BY <2>1, <2>2
  <2> QED BY <2>3 DEF O, P
<1>8. seen' = [seen EXCEPT ![t][r] = Unknown]
  BY DEF Overwrote, Saw
<1> QED BY <1>1, <1>3, <1>4, <1>5, <1>7, <1>8
     DEF Store!StoreWrite, Store!FreeOfOthers, Store!Touched, Store!Tuple

LEMMA ReadStep ==
  ASSUME IInv, IInv', NEW t \in Txn, NEW r \in Rid, Reads(t, r), StepBy(t), KeepsOriginal(t)
  PROVE  Store!StoreRead(t, r)
<1>1. /\ UNCHANGED <<txn_state, write_set, op>> /\ Slots' = Slots /\ Holds(t, r)' /\ Saw(t, r, Content(r))
      /\ txn_state[t] = "GROWING" /\ op[t].kind = "idle"
  BY OpFacts DEF Reads, Ready, pageVars, Slots
<1>2. Running' = Running /\ t \in Running /\ Work(t)' = Work(t)
  BY <1>1, WorkUnchanged DEF Running
<1>3. \A u \in Txn \ {t} : ~Writes(Work(u), r)
  BY <1>1, OthersKeepOff
<1>4. \A u \in Running \ {t} : Overlay[u][r] = Unknown
  BY <1>3, OverlayValue DEF OverlayIsContent, Running
<1>5. Committed' = Committed
  BY UnnoticedStep
<1>6. Overlay' = Overlay
  <2>1. \A u \in Txn, q \in Rid : Overlay'[u][q] = Overlay[u][q]
    <3> SUFFICES ASSUME NEW u \in Txn, NEW q \in Rid PROVE Overlay'[u][q] = Overlay[u][q]
      OBVIOUS
    <3>1. CASE u # t
      BY <3>1, OthersInStore
    <3>2. CASE u = t
      BY <1>1, <1>2, <3>2, UnnoticedStep, OverlayValue DEF OverlayIsContent
    <3> QED BY <3>1, <3>2
  <2> QED BY <2>1, UnnoticedStep, OverlayValue, Zenon DEF OverlayIsContent
<1>7. Content(r) = ContentOf(Slots[r])
  BY SlotsAndPages
<1>8. Content(r) = Store!View(t, r)
  <2>1. Content(r) # Unknown
    <3>1. Slots[r] \in SlotState
      BY SlotTypes DEF IInv
    <3>2. ContentOf(Slots[r]) \in Value \cup {NoTuple}
      BY <3>1, SlotFacts DEF ContentOf
    <3> QED BY <1>7, <3>2, SizeAssumption
  <2>2. CASE Writes(Work(t), r)
    BY <1>2, <1>7, <2>1, <2>2, OverlayValue DEF OverlayIsContent, Store!View
  <2>3. CASE ~Writes(Work(t), r)
    <3>1. Committed[r] = ContentOf(Slots[r])
      BY <1>3, <2>3, CommittedValue DEF CommittedIsOriginal, Original
    <3>2. Overlay[t][r] = Unknown
      BY <2>3, OverlayValue DEF OverlayIsContent
    <3> QED BY <1>7, <3>1, <3>2 DEF Store!View
  <2> QED BY <2>2, <2>3
<1>9. seen' = [seen EXCEPT ![t][r] = Store!View(t, r)]
  BY <1>1, <1>8 DEF Saw
<1> QED BY <1>2, <1>4, <1>5, <1>6, <1>9 DEF Store!StoreRead

\* What happens to t when it leaves Running.
LEMMA ForgetStep ==
  ASSUME IInv, IInv', NEW t \in Txn, StepBy(t), t \in Running, (t \notin Running)', ForgetReads(t)
  PROVE  Store!Forget(t)
<1>1. \A u \in Txn : u # t => (u \in Running)' = (u \in Running)
  BY OthersInStore
<1>2. Running' = Running \ {t}
  BY <1>1 DEF Running
<1>3. OverlayIsContent /\ OverlayIsContent'
  BY OverlayValue, PTL
<1>4. \A u \in Txn, r \in Rid : Overlay'[u][r] = IF u = t THEN Unknown ELSE Overlay[u][r]
  BY <1>3, OthersInStore DEF OverlayIsContent
<1>5. Overlay' = [Overlay EXCEPT ![t] = [r \in Rid |-> Unknown]]
  <2> DEFINE O == Overlay
             P == Overlay'
  <2>1. O = [u \in Txn |-> [q \in Rid |-> O[u][q]]] /\ P = [u \in Txn |-> [q \in Rid |-> P[u][q]]]
    BY <1>3 DEF OverlayIsContent
  <2>2. \A u \in Txn, q \in Rid : P[u][q] = IF u = t THEN Unknown ELSE O[u][q]
    BY <1>4
  <2> HIDE DEF O, P
  <2>3. P = [O EXCEPT ![t] = [q \in Rid |-> Unknown]]
    BY <2>1, <2>2
  <2> QED BY <2>3 DEF O, P
<1> QED BY <1>2, <1>5 DEF Store!Forget, ForgetReads

LEMMA AbortStep ==
  ASSUME IInv, IInv', NEW t \in Txn, Aborts(t), StepBy(t), KeepsOriginal(t)
  PROVE  Store!StoreAbort(t)
<1>1. t \in Running /\ (t \notin Running)' /\ ForgetReads(t)
  <2>1. txn_state \in [Txn -> LM!TxnState]
    BY TxnTypes
  <2> QED BY <2>1 DEF Aborts, SetAborted, Running
<1>2. Store!Forget(t)
  BY <1>1, ForgetStep
<1>3. Committed' = Committed
  BY UnnoticedStep
<1> QED BY <1>1, <1>2, <1>3 DEF Store!StoreAbort

\* The commit point: what t wrote becomes what is there.
LEMMA CommitStep ==
  ASSUME IInv, IInv', NEW t \in Txn, StepBy(t), t \in Running, (t \notin Running)', ForgetReads(t),
         Work(t)' = <<>>, \A r \in Rid : ContentOf(Slots'[r]) = ContentOf(Slots[r])
  PROVE  Store!StoreCommit(t)
<1>1. Store!Forget(t)
  BY ForgetStep
<1>2. OverlayIsContent /\ OverlayIsContent' /\ CommittedIsOriginal /\ CommittedIsOriginal'
  BY OverlayValue, CommittedValue, PTL
<1>3. ASSUME NEW r \in Rid PROVE Committed'[r] = Store!View(t, r)
  <2>1. CASE Writes(Work(t), r)
    <3>1. Overlay[t][r] = ContentOf(Slots[r])
      BY <1>2, <2>1 DEF OverlayIsContent
    <3>2. ContentOf(Slots[r]) # Unknown
      <4>1. Slots[r] \in SlotState
        BY SlotTypes DEF IInv
      <4>2. ContentOf(Slots[r]) \in Value \cup {NoTuple}
        BY <4>1, SlotFacts DEF ContentOf
      <4> QED BY <4>2, SizeAssumption
    <3>3. \A u \in Txn \ {t} : ~Writes(Work(u)', r)
      BY <2>1, NoCommonWrites, OthersInStore
    <3>4. Committed'[r] = Original(Work(t)', Slots', r)
      BY <1>2, <3>3 DEF CommittedIsOriginal
    <3>5. Original(Work(t)', Slots', r) = ContentOf(Slots'[r])
      BY DEF Original, Writes
    <3> QED BY <3>1, <3>2, <3>4, <3>5 DEF Store!View
  <2>2. CASE ~Writes(Work(t), r)
    <3>1. Original(Work(t)', Slots', r) = Original(Work(t), Slots, r)
      BY <2>2 DEF Original, Writes
    <3>2. Committed'[r] = Committed[r]
      BY <3>1, CommittedKept
    <3>3. Overlay[t][r] = Unknown
      BY <1>2, <2>2 DEF OverlayIsContent
    <3> QED BY <3>2, <3>3 DEF Store!View
  <2> QED BY <2>1, <2>2
<1>4. Committed' = [r \in Rid |-> Store!View(t, r)]
  BY <1>2, <1>3 DEF OverlayIsContent
<1> QED BY <1>1, <1>4 DEF Store!StoreCommit

LEMMA BeginStep ==
  ASSUME IInv, IInv', NEW t \in Txn, Begin(t)
  PROVE  Store!StoreBegin(t)
<1>1. StepBy(t) /\ KeepsOriginal(t) /\ Work(t) = <<>> /\ Work(t)' = <<>>
  BY BeginEffect DEF Effect
<1>2. txn_state[t] = "NONE" /\ txn_state'[t] = "GROWING" /\ op'[t].kind = "idle" /\ UNCHANGED seen
  <2>1. txn_state \in [Txn -> LM!TxnState] /\ TxnsOK
    BY TxnTypes DEF IInv
  <2> QED BY <2>1, OpFacts DEF Begin, LM!Begin, SetOp, TxnsOK
<1>3. \A u \in Txn : u # t => (u \in Running)' = (u \in Running)
  BY <1>1, OthersInStore
<1>4. t \notin Running /\ Running' = Running \cup {t}
  BY <1>2, <1>3 DEF Running
<1>5. Committed' = Committed
  BY <1>1, UnnoticedStep
<1>6. Overlay' = Overlay
  <2>1. \A u \in Txn, q \in Rid : Overlay'[u][q] = Overlay[u][q]
    <3> SUFFICES ASSUME NEW u \in Txn, NEW q \in Rid PROVE Overlay'[u][q] = Overlay[u][q]
      OBVIOUS
    <3>1. CASE u # t
      BY <1>1, <3>1, OthersInStore
    <3>2. CASE u = t
      BY <1>1, <3>2, UnnoticedStep, OverlayValue DEF OverlayIsContent, Writes
    <3> QED BY <3>1, <3>2
  <2> QED BY <1>1, <2>1, UnnoticedStep, OverlayValue, Zenon DEF OverlayIsContent
<1> QED BY <1>2, <1>4, <1>5, <1>6 DEF Store!StoreBegin

\* A recorded write and the first half of a move.
LEMMA AddStep ==
  ASSUME IInv, IInv', NEW t \in Txn, NEW wr, NEW r \in Rid, AddsRecord(t, wr, r),
         op[t].kind # "commit", op'[t].kind # "commit"
  PROVE  Store!StoreWrite(t, r)
<1>1. StepBy(t) /\ KeepsOriginal(t)
  BY AddedRecord
<1>2. t \in Running /\ (t \in Running)' /\ exclusive_lock_table'[r] = t /\ Overwrote(t, r)
  BY DEF AddsRecord, Running, Overwrote, Saw
<1>3. \A q \in Rid : q # r => Slots'[q] = Slots[q]
  <2>1. Slots \in [Rid -> SlotState]
    BY SlotsAreFunction DEF IInv
  <2> QED BY <2>1 DEF AddsRecord
<1>4. \A q \in Rid : Writes(Work(t)', q) <=> (q = r \/ Writes(Work(t), q))
  <2> DEFINE w == Work(t)
  <2>1. w \in Seq(WriteRecord) /\ wr \in WriteRecord /\ Work(t)' = Append(w, wr)
    BY TxnTypes DEF AddsRecord
  <2>2. \A q : Touches(wr, q) <=> q = r
    BY DEF AddsRecord, Touches
  <2> HIDE DEF w
  <2>3. \A q : Writes(Append(w, wr), q) <=> (q = r \/ Writes(w, q))
    BY <2>1, <2>2, AppendRecord DEF Writes
  <2> QED BY <2>1, <2>3 DEF w
<1> QED BY <1>1, <1>2, <1>3, <1>4, WriteStep

LEMMA CommitRecordStep ==
  ASSUME IInv, IInv', NEW t \in Txn, CommitRecord(t)
  PROVE  Store!StoreCommit(t) \/ Store!StoreInternal
<1>1. /\ StepBy(t) /\ Work(t)' = <<>> /\ op'[t].kind = "commit" /\ UNCHANGED txn_state
      /\ \A r \in Rid : ContentOf(Slots'[r]) = ContentOf(Slots[r])
  BY CommitRecordEffect DEF Effect
<1>2. txn_state[t] = "GROWING" /\ op[t].kind \in {"idle", "commit"} /\ ForgetReads(t) /\ (t \notin Running)'
  BY <1>1 DEF CommitRecord, Committing, Running
<1>3. CASE op[t].kind = "idle"
  <2>1. t \in Running
    BY <1>2, <1>3 DEF Running
  <2> QED BY <1>1, <1>2, <2>1, CommitStep
<1>4. CASE op[t].kind = "commit"
  <2>1. t \notin Running /\ Work(t) = <<>>
    BY <1>4 DEF Running, Work
  <2>2. seen' = seen
    <3>1. TxnInv(t) /\ TxnsOK /\ seen[t] \in [Rid -> Value \cup {NoTuple, Unknown}]
      BY TxnTypes DEF IInv
    <3>2. \A r \in Rid : seen[t][r] = Unknown
      BY <2>1, <3>1 DEF TxnInv, ReadsLocked
    <3>3. seen[t] = [r \in Rid |-> Unknown]
      BY <3>1, <3>2
    <3> QED BY <1>2, <3>1, <3>3 DEF ForgetReads, TxnsOK
  <2>3. KeepsOriginal(t)
    BY <1>1, <2>1 DEF KeepsOriginal, Original, Writes
  <2> QED BY <1>1, <1>2, <2>1, <2>2, <2>3, InternalStep
<1> QED BY <1>2, <1>3, <1>4

LEMMA CommitEndStep ==
  ASSUME IInv, IInv', NEW t \in Txn, CommitEnd(t)
  PROVE  Store!StoreCommit(t) \/ Store!StoreInternal
<1>1. Ends(t) /\ ForgetReads(t) /\ Committing(t)
  BY CommitEndEffect DEF CommitEnd
<1>2. StepBy(t) /\ KeepsOriginal(t) /\ Work(t) = <<>> /\ Work(t)' = <<>>
  BY <1>1, EndsEffect DEF Effect
<1>3. Slots' = Slots /\ (t \notin Running)' /\ txn_state[t] = "GROWING" /\ op[t].kind \in {"idle", "commit"}
  <2>1. txn_state \in [Txn -> LM!TxnState]
    BY TxnTypes
  <2> QED BY <1>1, <2>1 DEF Ends, Committing, Running, Slots, pageVars
<1>4. CASE op[t].kind = "idle"
  <2>1. t \in Running
    BY <1>3, <1>4 DEF Running
  <2> QED BY <1>1, <1>2, <1>3, <2>1, CommitStep
<1>5. CASE op[t].kind = "commit"
  <2>1. t \notin Running
    BY <1>5 DEF Running
  <2>2. seen' = seen
    <3>1. TxnInv(t) /\ TxnsOK /\ seen[t] \in [Rid -> Value \cup {NoTuple, Unknown}]
      BY TxnTypes DEF IInv
    <3>2. \A r \in Rid : seen[t][r] = Unknown
      BY <2>1, <3>1 DEF TxnInv, ReadsLocked
    <3>3. seen[t] = [r \in Rid |-> Unknown]
      BY <3>1, <3>2
    <3> QED BY <1>1, <3>1, <3>3 DEF ForgetReads, TxnsOK
  <2> QED BY <1>2, <1>3, <2>1, <2>2, InternalStep
<1> QED BY <1>3, <1>4, <1>5

\* The steps of Abort after the abort point do not show.
LEMMA RollbackStep ==
  ASSUME IInv, IInv', NEW t \in Txn, AbortRecord(t) \/ AbortMoved(t) \/ AbortEnd(t)
  PROVE  Store!StoreInternal
<1>1. Effect(t) /\ KeepsOriginal(t)
  BY AbortRecordEffect, AbortMovedEffect, AbortEndEffect, EndsEffect
<1>2. t \notin Running /\ (t \notin Running)' /\ seen' = seen
  <2>1. txn_state \in [Txn -> LM!TxnState] /\ TxnInv(t)
    BY TxnTypes
  <2>2. CASE AbortRecord(t)
    BY <2>2 DEF AbortRecord, Aborting, Running
  <2>3. CASE AbortMoved(t)
    BY <2>1, <2>3 DEF AbortMoved, TxnInv, OpFitsState, Running
  <2>4. CASE AbortEnd(t)
    BY <2>1, <2>4 DEF AbortEnd, Aborting, Running, LM!ReleaseLocks, LM!Drop
  <2> QED BY <2>2, <2>3, <2>4
<1> QED BY <1>1, <1>2, InternalStep DEF Effect

LEMMA AbortPoint ==
  ASSUME IInv, IInv', NEW t \in Txn, Aborts(t) PROVE Store!StoreAbort(t)
BY AbortsEffect, AbortStep DEF Effect

LEMMA RecordsWriteStep ==
  ASSUME IInv, IInv', NEW t \in Txn, NEW wr, NEW r \in Rid, RecordsWrite(t, wr, r)
  PROVE  Store!StoreWrite(t, r)
BY AddStep DEF RecordsWrite

LEMMA HalfMovesStep ==
  ASSUME IInv, IInv', NEW t \in Txn, HalfMoves(t)
  PROVE  \E r \in Rid : Store!StoreWrite(t, r)
<1>1. /\ op[t].rid \in Rid /\ AddsRecord(t, Deletion(op[t].rid, op[t].old), op[t].rid)
      /\ op[t].kind = "move" /\ op'[t].kind = "moved"
  BY TxnTypes, OpFacts DEF HalfMoves, IInv, TxnsOK
<1>2. Store!StoreWrite(t, op[t].rid)
  BY <1>1, AddStep
<1> QED BY <1>1, <1>2

LEMMA StartsMoveStep ==
  ASSUME IInv, IInv', NEW t \in Txn, NEW r \in Rid, NEW v \in Value, StartsMove(t, r, v)
  PROVE  Store!StoreInternal
<1>1. StepBy(t) /\ KeepsOriginal(t) /\ Work(t)' = Work(t)
  BY StartsMoveEffect DEF Effect
<1>2. Slots' = Slots /\ seen' = seen /\ t \in Running /\ (t \in Running)'
  BY OpFacts DEF StartsMove, Ready, pageVars, Slots, Running, IInv, TxnsOK
<1> QED BY <1>1, <1>2, InternalStep

LEMMA NextImplementsStore ==
  ASSUME IInv, IInv', [Next]_vars
  PROVE  [Store!StoreNext]_(Store!storeVars)
<1>1. CASE UNCHANGED vars
  <2>1. UNCHANGED <<txn_state, pages, write_set, op, seen>>
    BY <1>1 DEF vars, pageVars
  <2>2. UNCHANGED <<Committed, Running, Overlay, seen>>
    BY <2>1 DEF Committed, Running, Overlay, Work, LastRecord, Content, SlotExists, IsDeleted, Slot
  <2> QED BY <2>2 DEF Store!storeVars
<1>2. ASSUME NEW t \in Txn, Begin(t) \/ Operate(t) \/ Finish(t) PROVE Store!StoreNext
  <2> USE DEF Store!StoreNext
  <2>1. CASE Begin(t)
    BY <2>1, BeginStep
  <2>2. ASSUME NEW v \in Value, InsertTuple(t, v) PROVE Store!StoreNext
    BY <2>2, InsertTupleEffect, RecordsWriteStep
  <2>3. ASSUME NEW r \in Rid, GetTuple(t, r) PROVE Store!StoreNext
    <3>1. CASE Aborts(t)
      BY <3>1, AbortPoint
    <3>2. CASE Reads(t, r)
      BY <3>2, ReadsEffect, ReadStep DEF Effect
    <3> QED BY <2>3, <3>1, <3>2, GetTupleEffect
  <2>4. ASSUME NEW r \in Rid, MarkDelete(t, r) PROVE Store!StoreNext
    <3>1. CASE Aborts(t)
      BY <3>1, AbortPoint
    <3>2. CASE RecordsWrite(t, Record("DELETE", r, r, Slot(r).tuple, NoTuple), r)
      BY <3>2, RecordsWriteStep
    <3> QED BY <2>4, <3>1, <3>2, MarkDeleteEffect
  <2>5. ASSUME NEW r \in Rid, NEW v \in Value, UpdateTuple(t, r, v) PROVE Store!StoreNext
    <3>1. CASE Aborts(t)
      BY <3>1, AbortPoint
    <3>2. CASE RecordsWrite(t, Record("UPDATE", r, r, Slot(r).tuple, v), r)
      BY <3>2, RecordsWriteStep
    <3>3. CASE StartsMove(t, r, v)
      BY <3>3, StartsMoveStep
    <3> QED BY <2>5, <3>1, <3>2, <3>3, UpdateTupleEffect
  <2>6. CASE MoveDelete(t)
    <3>1. CASE Aborts(t)
      BY <3>1, AbortPoint
    <3>2. CASE HalfMoves(t)
      BY <3>2, HalfMovesStep
    <3> QED BY <2>6, <3>1, <3>2, MoveDeleteEffect
  <2>7. CASE MoveInsert(t)
    <3>1. PICK r \in Rid : /\ exclusive_lock_table'[r] = t /\ Overwrote(t, r)
                           /\ \A q \in Rid : q # r => Slots'[q] = Slots[q]
                           /\ \A q \in Rid : Writes(Work(t)', q) <=> (q = r \/ Writes(Work(t), q))
      BY <2>7, MoveInsertEffect
    <3>2. StepBy(t) /\ KeepsOriginal(t) /\ t \in Running /\ (t \in Running)'
      BY <2>7, MoveInsertEffect DEF Effect
    <3>3. Store!StoreWrite(t, r)
      BY <3>1, <3>2, WriteStep
    <3> QED BY <3>3
  <2>8. CASE Fail(t)
    BY <2>8, FailEffect, AbortPoint
  <2>9. CASE CommitRecord(t)
    BY <2>9, CommitRecordStep
  <2>10. CASE CommitEnd(t)
    BY <2>10, CommitEndStep
  <2>11. CASE AbortRecord(t) \/ AbortMoved(t) \/ AbortEnd(t)
    BY <2>11, RollbackStep
  <2> HIDE DEF Store!StoreNext
  <2> QED BY <1>2, <2>1, <2>2, <2>3, <2>4, <2>5, <2>6, <2>7, <2>8, <2>9, <2>10, <2>11
          DEF Operate, Finish
<1> QED BY <1>1, <1>2 DEF Next

LEMMA InitImplementsStore == Init => Store!StoreInit
<1> SUFFICES ASSUME Init PROVE Store!StoreInit
  OBVIOUS
<1>1. \A t \in Txn : Work(t) = <<>> /\ txn_state[t] = "NONE"
  BY OpFacts DEF Init, Work, LM!Init
<1>2. \A t \in Txn, r \in Rid : ~Writes(Work(t), r)
  BY <1>1 DEF Writes
<1>3. \A r \in Rid : Content(r) = NoTuple
  <2>1. pages = << <<>> >> /\ DOMAIN pages = {1} /\ pages[1] = <<>> /\ DOMAIN pages[1] = {}
    BY DEF Init
  <2> QED BY <2>1 DEF Content, SlotExists
<1>4. Committed = [r \in Rid |-> NoTuple]
  BY <1>2, <1>3 DEF Committed
<1>5. Running = {}
  BY <1>1 DEF Running
<1>6. Overlay = [t \in Txn |-> [r \in Rid |-> Unknown]]
  BY <1>5 DEF Overlay
<1> QED BY <1>4, <1>5, <1>6 DEF Store!StoreInit, Init

\* The table heap with its in-place updates, delete marks, slot reuse, moves in
\* two steps and record-by-record Commit and Abort, under the lock manager's
\* locks, implements a store in which transactions commit and abort at one
\* point each and what they read and write is isolated.
THEOREM HeapImplementsStore == Spec => ImplementsStore
<1>1. IInv /\ IInv' /\ [Next]_vars => [Store!StoreNext]_(Store!storeVars)
  BY NextImplementsStore
<1> QED BY <1>1, InitImplementsStore, Invariance, PTL DEF Spec, ImplementsStore, Store!StoreSpec

SP == INSTANCE SerializableStoreProofs
        WITH committed <- Committed, running <- Running, overlay <- Overlay

LEMMA SameStore ==
  /\ Store!StoreInit => SP!StoreInit
  /\ [Store!StoreNext]_(Store!storeVars) => [SP!StoreNext]_(SP!storeVars)
  /\ SP!IInv => Store!ReadsAreCurrent /\ Store!WritesAreExclusive
<1>1. Store!StoreInit => SP!StoreInit
  BY Zenon DEF Store!StoreInit, SP!StoreInit
<1>2. UNCHANGED Store!storeVars => UNCHANGED SP!storeVars
  BY DEF Store!storeVars, SP!storeVars
<1>3. Store!StoreNext => SP!StoreNext
  BY Zenon DEF Store!StoreNext, SP!StoreNext, Store!StoreInternal, SP!StoreInternal,
     Store!StoreBegin, SP!StoreBegin, Store!StoreCommit, SP!StoreCommit, Store!StoreAbort, SP!StoreAbort,
     Store!StoreRead, SP!StoreRead, Store!StoreWrite, SP!StoreWrite, Store!Forget, SP!Forget,
     Store!View, SP!View, Store!FreeOfOthers, SP!FreeOfOthers, Store!Touched, SP!Touched,
     Store!Tuple, SP!Tuple, Store!storeVars, SP!storeVars
<1>4. SP!IInv => Store!ReadsAreCurrent /\ Store!WritesAreExclusive
  BY Zenon DEF SP!IInv, SP!ReadsAreCurrent, Store!ReadsAreCurrent, SP!WritesAreExclusive, Store!WritesAreExclusive,
     SP!View, Store!View, SP!Touched, Store!Touched
<1> QED BY <1>1, <1>2, <1>3, <1>4

\* So the committed transactions are serializable in commit order as far as
\* reads and writes of rids go (a scan can still meet phantoms): what a running
\* transaction was shown by GetTuple is still true when Commit begins, and
\* nobody reads or overwrites what another has written and not committed.
THEOREM TransactionsAreSerializable == Spec => [](Store!ReadsAreCurrent /\ Store!WritesAreExclusive)
<1>0. Unknown \notin SP!Tuple
  BY SizeAssumption DEF SP!Tuple
<1>1. Init => SP!IInv
  BY <1>0, InitImplementsStore, SameStore, SP!InitIInv DEF SP!InitIInv
<1>2. IInv /\ IInv' /\ [Next]_vars /\ SP!IInv => SP!IInv'
  BY <1>0, NextImplementsStore, SameStore, SP!NextIInv DEF SP!NextIInv
<1>3. SP!IInv => Store!ReadsAreCurrent /\ Store!WritesAreExclusive
  BY SameStore
<1> QED BY <1>1, <1>2, <1>3, Invariance, PTL DEF Spec

=============================================================================
