-------------------------- MODULE BufferPoolProofs --------------------------
(***************************************************************************)
(* The accounts of the buffer pool are right and pages keep their          *)
(* contents, for any number of threads, frames and pages, as long as a     *)
(* hash join does not give back a page that is still in the pool.          *)
(***************************************************************************)
EXTENDS BufferPool, FiniteSetTheorems, SequenceTheorems, TLAPS

PageRec == [id : PageId, pin : Nat, dirty : BOOLEAN, dealloc : BOOLEAN, data : Value]
ThreadState ==
  [st : {"idle", "frame", "pinned", "latched", "unpinned", "flushing"},
   id : PageId \cup {NoId}, frame : Frame \cup {NoFrame},
   mode : {"none", "R", "W"}, dirty : BOOLEAN]

Types ==
  /\ pageTable \in [PageId -> Frame \cup {NoFrame}]
  /\ pages \in [Frame -> PageRec \cup {NoPage}]
  /\ disk \in [PageId -> Value \cup {Unwritten}]
  /\ thread \in [Thread -> ThreadState]
  /\ mutex \subseteq Thread
  /\ live \subseteq PageId
  /\ nextPageID \in 1..(MaxPageId + 1)

\* The replacer: every frame once, and the hand on one of them.
ListOK ==
  /\ cList \in Seq(Frame) /\ IsInjective(cList)
  /\ clockHand \in Frame \cup {AtHead, Dangling}
  /\ cList # <<>> => clockHand = AtHead \/ InList(clockHand)

FreeOK == freeList \in Seq(Frame) /\ IsInjective(freeList)

\* Where a thread is: what it holds is where the page table says, and the thread
\* with the mutex has a frame that nobody else can get at.
PinnedHere(s) == s.st \in {"pinned", "latched"} => s.id \in PageId /\ pageTable[s.id] = s.frame
FlushesHere(s) ==
  s.st = "flushing" =>
    /\ s.id \in PageId
    /\ \/ s.frame \in Frame /\ pageTable[s.id] = s.frame
       \/ "flush" \in Races /\ s.frame = NoFrame
OwnsFrame(s) ==
  /\ s.frame \in Frame /\ ~Free(s.frame) /\ ~InList(s.frame)
  /\ pages[s.frame] # NoPage => pages[s.frame].pin = 0
  /\ IF s.id = NoId THEN reUsablePageList # <<>> \/ nextPageID <= MaxPageId
     ELSE s.id \in live /\ pageTable[s.id] = NoFrame
ThreadsOK ==
  /\ \A t \in Thread : PinnedHere(thread[t]) /\ FlushesHere(thread[t])
  /\ \A t \in Thread : thread[t].st \in {"pinned", "latched", "unpinned", "flushing"} =>
       thread[t].id \in PageId
  /\ \A t \in Thread : thread[t].st \in {"pinned", "latched", "unpinned"} => thread[t].frame \in Frame
  /\ \A t \in Thread : t \in mutex <=> thread[t].st = "frame"
  /\ \A t \in mutex : OwnsFrame(thread[t])
  /\ \A t, u \in mutex : t = u

\* The page table leads to the page; only a pinned page is not in it; pins are
\* counted; a frame that is not pinned can be found.
MapOK == \A p \in PageId : pageTable[p] # NoFrame => pages[pageTable[p]].id = p
StaleIsPinned ==
  \A f \in Frame : pages[f] # NoPage /\ pageTable[pages[f].id] # f => pages[f].pin > 0
PinsOK ==
  \A p \in PageId :
    /\ IsFiniteSet(Holders(p))
    /\ pageTable[p] # NoFrame => pages[pageTable[p]].pin = Cardinality(Holders(p))
FramesOK ==
  \A f \in Frame :
    /\ Free(f) => pages[f] = NoPage
    /\ InList(f) => pages[f] # NoPage /\ pages[f].pin = 0
    /\ Free(f) \/ InList(f) \/ Taken(f) \/ Pinned(f)

\* Ids that can be given out again are in use nowhere.
IdsOK ==
  /\ reUsablePageList \in Seq(PageId) /\ IsInjective(reUsablePageList)
  /\ \A p \in PageId : p \in live \/ pageTable[p] # NoFrame => p < nextPageID
  /\ \A p \in Range(reUsablePageList) : p < nextPageID /\ p \notin live /\ pageTable[p] = NoFrame

\* A page in use that is clean, and that nobody will unpin as dirty, is on disk.
OnDisk(p) ==
  /\ disk[p] # Unwritten
  /\ "flush" \notin Races => disk[p] = pages[pageTable[p]].data
PageSafe(p) ==
  IF pageTable[p] = NoFrame THEN disk[p] # Unwritten
  ELSE /\ ~pages[pageTable[p]].dealloc
       /\ \/ pages[pageTable[p]].dirty
          \/ \E t \in Holders(p) : thread[t].dirty
          \/ OnDisk(p)
DiskOK == \A p \in live : PageSafe(p)

IInv ==
  /\ Types /\ ListOK /\ FreeOK /\ ThreadsOK /\ MapOK /\ StaleIsPinned /\ PinsOK /\ FramesOK
  /\ IdsOK /\ DiskOK

-----------------------------------------------------------------------------
(***************************************************************************)
(* Sequences without repetitions, as sets.                                 *)
(***************************************************************************)
LEMMA RemoveAtFacts ==
  ASSUME NEW S, NEW s \in Seq(S), IsInjective(s), NEW i \in DOMAIN s
  PROVE  /\ RemoveAt(s, i) \in Seq(S) /\ IsInjective(RemoveAt(s, i))
         /\ Range(RemoveAt(s, i)) = Range(s) \ {s[i]}
<1> DEFINE n == Len(s)
           a == SubSeq(s, 1, i - 1)
           b == SubSeq(s, i + 1, n)
           r == RemoveAt(s, i)
<1>1. n \in Nat /\ i \in 1..n /\ DOMAIN s = 1..n
  OBVIOUS
<1>2. a \in Seq(S) /\ Len(a) = i - 1 /\ \A j \in 1..(i - 1) : a[j] = s[j]
  BY <1>1
<1>3. b \in Seq(S) /\ Len(b) = n - i /\ \A j \in 1..(n - i) : b[j] = s[i + j]
  BY <1>1
<1>4. r = a \o b
  BY DEF RemoveAt
<1> HIDE DEF a, b, r, n
<1>5. r \in Seq(S) /\ Len(r) = n - 1 /\ DOMAIN r = 1..(n - 1)
  <2>1. r \in Seq(S) /\ Len(r) = Len(a) + Len(b)
    BY <1>2, <1>3, <1>4, ConcatProperties
  <2>2. (i - 1) + (n - i) = n - 1
    BY <1>1
  <2>3. Len(r) = n - 1
    BY <1>2, <1>3, <2>1, <2>2
  <2> QED BY <2>1, <2>3
<1>6. \A j \in 1..(n - 1) : r[j] = IF j < i THEN s[j] ELSE s[j + 1]
  <2> SUFFICES ASSUME NEW j \in 1..(n - 1) PROVE r[j] = IF j < i THEN s[j] ELSE s[j + 1]
    OBVIOUS
  <2>1. CASE j < i
    BY <1>1, <1>2, <1>3, <1>4, <2>1
  <2>2. CASE ~(j < i)
    <3>1. j - (i - 1) \in 1..(n - i) /\ i + (j - (i - 1)) = j + 1
      BY <1>1, <2>2
    <3>2. r[j] = b[j - (i - 1)]
      BY <1>1, <1>2, <1>3, <1>4, <2>2
    <3> QED BY <1>3, <2>2, <3>1, <3>2
  <2> QED BY <2>1, <2>2
<1>7. IsInjective(r)
  <2> SUFFICES ASSUME NEW j \in 1..(n - 1), NEW k \in 1..(n - 1), r[j] = r[k] PROVE j = k
    BY <1>5 DEF IsInjective
  <2>1. \A x, y \in 1..n : s[x] = s[y] => x = y
    BY <1>1 DEF IsInjective
  <2> QED BY <1>1, <1>6, <2>1
<1>8. Range(r) = Range(s) \ {s[i]}
  <2>1. ASSUME NEW j \in 1..(n - 1) PROVE r[j] \in Range(s) \ {s[i]}
    <3> DEFINE k == IF j < i THEN j ELSE j + 1
    <3>1. k \in 1..n /\ k # i /\ r[j] = s[k]
      BY <1>1, <1>6
    <3> HIDE DEF k
    <3> QED BY <1>1, <3>1 DEF Range, IsInjective
  <2>2. ASSUME NEW k \in 1..n, k # i PROVE s[k] \in Range(r)
    <3> DEFINE j == IF k < i THEN k ELSE k - 1
    <3>1. j \in 1..(n - 1) /\ r[j] = s[k]
      BY <1>1, <1>6, <2>2
    <3> HIDE DEF j
    <3> QED BY <1>5, <3>1 DEF Range
  <2> QED BY <1>1, <1>5, <2>1, <2>2 DEF Range
<1> QED BY <1>5, <1>7, <1>8 DEF r

LEMMA AppendFacts ==
  ASSUME NEW S, NEW s \in Seq(S), IsInjective(s), NEW x \in S, x \notin Range(s)
  PROVE  /\ Append(s, x) \in Seq(S) /\ IsInjective(Append(s, x)) /\ Append(s, x) # <<>>
         /\ Range(Append(s, x)) = Range(s) \cup {x}
<1> DEFINE r == Append(s, x)
           n == Len(s)
<1>1. n \in Nat /\ DOMAIN s = 1..n
  OBVIOUS
<1>2. r \in Seq(S) /\ Len(r) = n + 1 /\ DOMAIN r = 1..(n + 1) /\ r[n + 1] = x
  BY <1>1
<1>3. \A j \in 1..n : r[j] = s[j]
  BY <1>1
<1> HIDE DEF r
<1>4. \A j \in 1..n : r[j] # x
  BY <1>1, <1>3 DEF Range
<1>5. IsInjective(r)
  <2> SUFFICES ASSUME NEW j \in 1..(n + 1), NEW k \in 1..(n + 1), r[j] = r[k] PROVE j = k
    BY <1>2 DEF IsInjective
  <2>1. CASE j \in 1..n /\ k \in 1..n
    BY <1>1, <1>3, <2>1 DEF IsInjective
  <2>2. CASE j = n + 1 \/ k = n + 1
    BY <1>1, <1>2, <1>4, <2>2
  <2> QED BY <1>1, <2>1, <2>2
<1>6. Range(r) = Range(s) \cup {x}
  <2>1. ASSUME NEW j \in 1..(n + 1) PROVE r[j] \in Range(s) \cup {x}
    <3>1. CASE j \in 1..n
      BY <1>1, <1>3, <3>1 DEF Range
    <3>2. CASE j = n + 1
      BY <1>2, <3>2
    <3> QED BY <1>1, <3>1, <3>2
  <2>2. ASSUME NEW j \in 1..n PROVE s[j] \in Range(r)
    <3>1. j \in 1..(n + 1) /\ r[j] = s[j]
      BY <1>1, <1>3
    <3> QED BY <1>2, <3>1 DEF Range
  <2>3. n + 1 \in 1..(n + 1)
    BY <1>1
  <2>4. x \in Range(r)
    BY <1>2, <2>3 DEF Range
  <2> QED BY <1>1, <1>2, <2>1, <2>2, <2>4 DEF Range
<1>7. r # <<>>
  BY <1>1, <1>2
<1> QED BY <1>2, <1>5, <1>6, <1>7 DEF r

LEMMA TailFacts ==
  ASSUME NEW S, NEW s \in Seq(S), IsInjective(s), s # <<>>
  PROVE  /\ Head(s) \in S /\ Tail(s) \in Seq(S) /\ IsInjective(Tail(s))
         /\ Head(s) \in Range(s) /\ Range(Tail(s)) = Range(s) \ {Head(s)}
<1> DEFINE r == Tail(s)
           n == Len(s)
<1>1. n \in Nat /\ n > 0 /\ DOMAIN s = 1..n /\ 1 \in 1..n
  OBVIOUS
<1>2. r \in Seq(S) /\ Len(r) = n - 1 /\ DOMAIN r = 1..(n - 1) /\ Head(s) = s[1]
  BY <1>1
<1>3. \A j \in 1..(n - 1) : r[j] = s[j + 1]
  BY <1>1
<1> HIDE DEF r
<1>4. IsInjective(r)
  <2> SUFFICES ASSUME NEW j \in 1..(n - 1), NEW k \in 1..(n - 1), r[j] = r[k] PROVE j = k
    BY <1>2 DEF IsInjective
  <2>1. s[j + 1] = s[k + 1] /\ j + 1 \in 1..n /\ k + 1 \in 1..n
    BY <1>1, <1>3
  <2>2. j + 1 = k + 1
    BY <1>1, <2>1 DEF IsInjective
  <2> QED BY <2>2
<1>5. Range(r) = Range(s) \ {s[1]}
  <2>1. ASSUME NEW j \in 1..(n - 1) PROVE r[j] \in Range(s) \ {s[1]}
    <3>1. j + 1 \in 1..n /\ j + 1 # 1 /\ r[j] = s[j + 1]
      BY <1>1, <1>3
    <3> QED BY <1>1, <3>1 DEF Range, IsInjective
  <2>2. ASSUME NEW k \in 1..n, k # 1 PROVE s[k] \in Range(r)
    <3>1. k - 1 \in 1..(n - 1) /\ r[k - 1] = s[k]
      <4>1. k - 1 \in 1..(n - 1) /\ (k - 1) + 1 = k
        BY <1>1, <2>2
      <4> QED BY <1>3, <4>1
    <3> QED BY <1>2, <3>1 DEF Range
  <2> QED BY <1>1, <1>2, <2>1, <2>2 DEF Range
<1>6. s[1] \in S /\ s[1] \in Range(s)
  BY <1>1 DEF Range
<1> QED BY <1>2, <1>4, <1>5, <1>6 DEF r

-----------------------------------------------------------------------------
(***************************************************************************)
(* The replacer.                                                           *)
(***************************************************************************)
LEMMA FrameFacts ==
  /\ Frame \subseteq Nat \ {0} /\ NoFrame \notin Frame /\ AtHead \notin Frame /\ Dangling \notin Frame
  /\ PageId \subseteq Nat \ {0} /\ NoId \notin PageId /\ AtHead # Dangling
  BY DEF Frame, NoFrame, AtHead, Dangling, PageId, NoId

LEMMA HandFacts ==
  ASSUME ListOK, cList # <<>>
  PROVE  AtHand \in Frame /\ InList(AtHand)
<1>1. Head(cList) \in Frame /\ Head(cList) \in Range(cList)
  BY TailFacts DEF ListOK
<1>2. Range(cList) \subseteq Frame
  BY DEF Range, ListOK
<1> QED BY <1>1, <1>2 DEF ListOK, AtHand, InList

LEMMA PositionFacts ==
  ASSUME ListOK, NEW f, InList(f)
  PROVE  Position(f) \in DOMAIN cList /\ cList[Position(f)] = f
<1>1. \E i \in DOMAIN cList : cList[i] = f
  BY DEF InList, Range
<1> QED BY <1>1, Zenon DEF Position

LEMMA SuccessorFacts ==
  ASSUME ListOK, NEW f, InList(f)
  PROVE  /\ Len(cList) = 1 => Successor(f) = Dangling /\ Range(cList) = {f}
         /\ Len(cList) # 1 => Successor(f) \in Frame /\ Successor(f) \in Range(cList) \ {f}
<1> DEFINE i == Position(f)
           n == Len(cList)
           j == (i % n) + 1
<1>1. i \in 1..n /\ n \in Nat /\ cList[i] = f /\ DOMAIN cList = 1..n
  BY PositionFacts DEF ListOK
<1>2. CASE n = 1
  <2>1. i = 1 /\ DOMAIN cList = {1}
    BY <1>1, <1>2
  <2> QED BY <1>1, <1>2, <2>1 DEF Range, Successor
<1>3. CASE n # 1
  <2> HIDE DEF i, n
  <2>1. j \in 1..n /\ j # i
    <3>1. CASE i = n
      <4>1. i % n = 0
        BY <1>1, <3>1
      <4> QED BY <1>1, <1>3, <3>1, <4>1
    <3>2. CASE i # n
      <4>1. i \in 0..(n - 1) /\ n > 0
        BY <1>1, <3>2
      <4>2. i % n = i
        BY <1>1, <4>1
      <4> QED BY <1>1, <3>2, <4>2
    <3> QED BY <3>1, <3>2
  <2>2. Successor(f) = cList[j]
    BY <1>3 DEF Successor, i, n
  <2> HIDE DEF j
  <2>3. cList[j] # f /\ cList[j] \in Range(cList) /\ cList[j] \in Frame
    BY <1>1, <2>1 DEF ListOK, IsInjective, Range
  <2> QED BY <1>3, <2>2, <2>3 DEF n
<1> QED BY <1>2, <1>3

LEMMA RemoveFrameFacts ==
  ASSUME ListOK, NEW f, RemoveFrame(f)
  PROVE  /\ cList' \in Seq(Frame) /\ IsInjective(cList') /\ Range(cList') = Range(cList) \ {f}
<1>1. CASE InList(f)
  BY <1>1, PositionFacts, RemoveAtFacts DEF RemoveFrame, ListOK
<1>2. CASE ~InList(f)
  BY <1>2 DEF RemoveFrame, ListOK, InList
<1> QED BY <1>1, <1>2

LEMMA EmptyRange == ASSUME NEW S, NEW s \in Seq(S), Range(s) = {} PROVE s = <<>>
<1>1. DOMAIN s = {}
  BY DEF Range
<1> QED BY <1>1

\* The hand moves with the frame that is taken out under it.
LEMMA MovedHand ==
  ASSUME ListOK, NEW f, InList(f), RemoveFrame(f), f = AtHand, clockHand' = Successor(f)
  PROVE  ListOK'
<1>1. /\ cList' \in Seq(Frame) /\ IsInjective(cList') /\ Range(cList') = Range(cList) \ {f}
  BY RemoveFrameFacts
<1>2. CASE Len(cList) = 1
  <2>1. Range(cList') = {} /\ clockHand' = Dangling
    BY <1>1, <1>2, SuccessorFacts
  <2>2. cList' = <<>>
    BY <1>1, <2>1, EmptyRange
  <2> QED BY <1>1, <2>1, <2>2 DEF ListOK
<1>3. CASE Len(cList) # 1
  BY <1>1, <1>3, SuccessorFacts DEF ListOK, InList
<1> QED BY <1>2, <1>3

LEMMA VictimFacts ==
  ASSUME ListOK, NEW f, Victim(f)
  PROVE  ListOK' /\ InList(f) /\ f \in Frame /\ Range(cList') = Range(cList) \ {f}
<1>1. f \in Frame /\ InList(f)
  BY HandFacts DEF Victim
<1>2. ListOK'
  BY <1>1, MovedHand DEF Victim
<1> QED BY <1>1, <1>2, RemoveFrameFacts DEF Victim

LEMMA PinFacts ==
  ASSUME ListOK, NEW f, Pin(f)
  PROVE  ListOK' /\ Range(cList') = Range(cList) \ {f}
<1>1. /\ cList' \in Seq(Frame) /\ IsInjective(cList') /\ Range(cList') = Range(cList) \ {f}
  BY RemoveFrameFacts DEF Pin
<1>2. CASE InList(f) /\ f = AtHand
  BY <1>1, <1>2, MovedHand DEF Pin
<1>3. CASE ~(InList(f) /\ f = AtHand)
  <2>1. clockHand' = clockHand
    BY <1>3 DEF Pin
  <2>2. cList' # <<>> => cList # <<>>
    <3>1. cList = <<>> => Range(cList) = {}
      BY DEF Range
    <3> QED BY <1>1, <3>1, EmptyRange
  <2>3. ASSUME cList' # <<>>, clockHand # AtHead PROVE clockHand \in Range(cList')
    <3>1. clockHand \in Range(cList) /\ AtHand = clockHand
      BY <2>2, <2>3 DEF ListOK, InList, AtHand
    <3> QED BY <1>1, <1>3, <3>1 DEF InList
  <2> QED BY <1>1, <2>1, <2>3 DEF ListOK, InList
<1> QED BY <1>1, <1>2, <1>3

LEMMA UnpinFacts ==
  ASSUME ListOK, NEW f \in Frame, ~InList(f), Unpin(f)
  PROVE  ListOK' /\ Range(cList') = Range(cList) \cup {f}
<1>0. cList' = Append(cList, f)
  BY DEF Unpin
<1>1. /\ cList' \in Seq(Frame) /\ IsInjective(cList') /\ Range(cList') = Range(cList) \cup {f}
  BY <1>0, AppendFacts DEF ListOK, InList
<1> QED BY <1>1 DEF ListOK, InList, Unpin

-----------------------------------------------------------------------------
(***************************************************************************)
(* What the invariant says about a page, a frame and a thread.             *)
(***************************************************************************)
LEMMA StateFields ==
  ASSUME NEW s \in ThreadState
  PROVE  /\ s.st \in {"idle", "frame", "pinned", "latched", "unpinned", "flushing"}
         /\ s.id \in PageId \cup {NoId} /\ s.frame \in Frame \cup {NoFrame}
         /\ s.mode \in {"none", "R", "W"} /\ s.dirty \in BOOLEAN
  BY DEF ThreadState

LEMMA IdleState ==
  /\ Idle \in ThreadState /\ Idle.st = "idle" /\ Idle.id = NoId /\ Idle.frame = NoFrame
  /\ Idle.dirty = FALSE
  BY DEF Idle, ThreadState

LEMMA PageFields ==
  ASSUME NEW pg \in PageRec
  PROVE  /\ pg # NoPage /\ pg.id \in PageId /\ pg.pin \in Nat /\ pg.dirty \in BOOLEAN
         /\ pg.dealloc \in BOOLEAN /\ pg.data \in Value
<1>1. /\ pg.id \in PageId /\ pg.pin \in Nat /\ pg.dirty \in BOOLEAN
      /\ pg.dealloc \in BOOLEAN /\ pg.data \in Value
  BY DEF PageRec
<1>2. NoPage.id = NoId
  BY DEF NoPage
<1> QED BY <1>1, <1>2, FrameFacts

\* pg2 is pg with another pin count, dirty flag, deallocated flag and contents.
IsPage(pg2, id, pin, dirty, dealloc, data) ==
  /\ pg2 \in PageRec
  /\ pg2.id = id /\ pg2.pin = pin /\ pg2.dirty = dirty /\ pg2.dealloc = dealloc /\ pg2.data = data

LEMMA PinExcept ==
  ASSUME NEW pg \in PageRec, NEW n \in Nat
  PROVE  IsPage([pg EXCEPT !.pin = n], pg.id, n, pg.dirty, pg.dealloc, pg.data)
  BY DEF PageRec, IsPage

LEMMA UnpinExcept ==
  ASSUME NEW pg \in PageRec, NEW n \in Nat, NEW d \in BOOLEAN
  PROVE  IsPage([pg EXCEPT !.pin = n, !.dirty = d], pg.id, n, d, pg.dealloc, pg.data)
  BY DEF PageRec, IsPage

LEMMA CleanExcept ==
  ASSUME NEW pg \in PageRec
  PROVE  IsPage([pg EXCEPT !.dirty = FALSE], pg.id, pg.pin, FALSE, pg.dealloc, pg.data)
  BY DEF PageRec, IsPage

LEMMA DeallocExcept ==
  ASSUME NEW pg \in PageRec
  PROVE  IsPage([pg EXCEPT !.dealloc = TRUE], pg.id, pg.pin, pg.dirty, TRUE, pg.data)
  BY DEF PageRec, IsPage

LEMMA DataExcept ==
  ASSUME NEW pg \in PageRec, NEW v \in Value
  PROVE  IsPage([pg EXCEPT !.data = v], pg.id, pg.pin, pg.dirty, pg.dealloc, v)
  BY DEF PageRec, IsPage

\* One frame of the pool has another page in it.
FrameSet(f, pg) ==
  /\ pages' \in [Frame -> PageRec \cup {NoPage}]
  /\ pages'[f] = pg
  /\ \A g \in Frame : g # f => pages'[g] = pages[g]

LEMMA FrameChange ==
  ASSUME Types, NEW f \in Frame, NEW pg \in PageRec, pages' = [pages EXCEPT ![f] = pg]
  PROVE  FrameSet(f, pg)
  BY DEF Types, FrameSet

LEMMA MappedFacts ==
  ASSUME IInv, NEW p \in PageId, pageTable[p] # NoFrame
  PROVE  /\ pageTable[p] \in Frame /\ pages[pageTable[p]] \in PageRec
         /\ pages[pageTable[p]] # NoPage /\ pages[pageTable[p]].id = p
         /\ pages[pageTable[p]].pin = Cardinality(Holders(p))
         /\ \A q \in PageId : pageTable[q] = pageTable[p] => q = p
<1>1. pageTable[p] \in Frame /\ pages[pageTable[p]].id = p
  BY DEF IInv, Types, MapOK
<1>2. pages[pageTable[p]] \in PageRec /\ pages[pageTable[p]] # NoPage
  <2>1. NoPage.id # p
    BY FrameFacts DEF NoPage
  <2> QED BY <1>1, <2>1 DEF IInv, Types
<1> QED BY <1>1, <1>2 DEF IInv, MapOK, PinsOK

LEMMA HeldFacts ==
  ASSUME IInv, NEW t \in Thread, thread[t].st \in {"pinned", "latched"}
  PROVE  LET p == thread[t].id
             f == thread[t].frame IN
         /\ p \in PageId /\ f \in Frame /\ pageTable[p] = f /\ t \in Holders(p) /\ IsFiniteSet(Holders(p))
         /\ pages[f] \in PageRec /\ pages[f].id = p /\ pages[f].pin = Cardinality(Holders(p))
         /\ pages[f].pin > 0 /\ ~InList(f) /\ ~Free(f) /\ ~Taken(f)
<1> DEFINE p == thread[t].id
           f == thread[t].frame
<1>1. p \in PageId /\ f \in Frame /\ pageTable[p] = f /\ f # NoFrame
  BY FrameFacts DEF IInv, ThreadsOK, PinnedHere
<1>2. t \in Holders(p) /\ IsFiniteSet(Holders(p))
  BY <1>1 DEF Holders, Holds, IInv, PinsOK
<1>3. pages[f] \in PageRec /\ pages[f].id = p /\ pages[f].pin = Cardinality(Holders(p)) /\ pages[f] # NoPage
  BY <1>1, MappedFacts
<1>4. Cardinality(Holders(p)) \in Nat /\ Cardinality(Holders(p)) # 0
  BY <1>2, FS_EmptySet, FS_CardinalityType
<1>5. pages[f].pin > 0
  BY <1>3, <1>4
<1>6. ~InList(f) /\ ~Free(f)
  BY <1>1, <1>3, <1>5 DEF IInv, FramesOK
<1>7. ~Taken(f)
  BY <1>3, <1>5 DEF IInv, ThreadsOK, OwnsFrame, Taken
<1> QED BY <1>1, <1>2, <1>3, <1>5, <1>6, <1>7

LEMMA UnpinnedFacts ==
  ASSUME IInv, NEW f \in Frame, pages[f] # NoPage => pages[f].pin = 0
  PROVE  /\ pages[f] # NoPage => pages[f] \in PageRec /\ pageTable[pages[f].id] = f
         /\ \A p \in PageId : pageTable[p] = f <=> pages[f] # NoPage /\ p = pages[f].id
         /\ \A p \in PageId : pageTable[p] = f => Holders(p) = {}
<1>1. pages[f] # NoPage => pages[f] \in PageRec /\ pageTable[pages[f].id] = f
  BY DEF IInv, Types, StaleIsPinned
<1>2. \A p \in PageId : pageTable[p] = f <=> pages[f] # NoPage /\ p = pages[f].id
  BY <1>1, FrameFacts, MappedFacts
<1>3. ASSUME NEW p \in PageId, pageTable[p] = f PROVE Holders(p) = {}
  <2>1. Cardinality(Holders(p)) = 0 /\ IsFiniteSet(Holders(p))
    BY <1>2, <1>3, FrameFacts, MappedFacts DEF IInv, PinsOK
  <2> QED BY <2>1, FS_EmptySet
<1> QED BY <1>1, <1>2, <1>3

LEMMA NotMappedNotHeld ==
  ASSUME IInv, NEW p \in PageId, pageTable[p] = NoFrame
  PROVE  Holders(p) = {}
  BY HeldFacts, FrameFacts DEF Holders, Holds

LEMMA HoldersAfter ==
  ASSUME Types, NEW t \in Thread, NEW s, Become(t, s), NEW p
  PROVE  Holders(p)' = IF s.st \in {"pinned", "latched"} /\ s.id = p
                       THEN Holders(p) \cup {t} ELSE Holders(p) \ {t}
<1>1. thread'[t] = s /\ \A u \in Thread : u # t => thread'[u] = thread[u]
  BY DEF Become, Types
<1>2. \A u \in Thread : Holds(u, p)' <=> thread'[u].st \in {"pinned", "latched"} /\ thread'[u].id = p
  BY DEF Holds
<1>3. Holds(t, p)' <=> s.st \in {"pinned", "latched"} /\ s.id = p
  BY <1>1, <1>2
<1>4. \A u \in Thread : u # t => (Holds(u, p)' <=> Holds(u, p))
  BY <1>1, <1>2 DEF Holds
<1> QED BY <1>3, <1>4 DEF Holders

\* A thread outside the mutex may change its state if what it holds and flushes
\* is where it says.
StateOK(s) ==
  /\ s \in ThreadState /\ s.st # "frame"
  /\ s.st \in {"pinned", "latched", "unpinned", "flushing"} => s.id \in PageId
  /\ s.st \in {"pinned", "latched", "unpinned"} => s.frame \in Frame

\* Nobody else loses his page, and who stays inside keeps his frame.
OthersKept(t) ==
  /\ \A u \in Thread \ {t} : thread[u].st \in {"pinned", "latched", "flushing"} =>
       pageTable'[thread[u].id] = pageTable[thread[u].id]
  /\ mutex' = mutex \ {t}
  /\ \A u \in mutex' : OwnsFrame(thread[u])'

LEMMA ThreadChange ==
  ASSUME IInv, NEW t \in Thread, NEW s, Become(t, s), StateOK(s), OthersKept(t),
         s.st \in {"pinned", "latched"} => pageTable'[s.id] = s.frame,
         s.st = "flushing" => s.frame \in Frame /\ pageTable'[s.id] = s.frame
  PROVE  thread' \in [Thread -> ThreadState] /\ ThreadsOK'
<1>1. thread'[t] = s /\ \A u \in Thread : u # t => thread'[u] = thread[u]
  BY DEF IInv, Types, Become
<1>2. thread' \in [Thread -> ThreadState]
  BY DEF IInv, Types, Become, StateOK
<1>3. \A u \in Thread : PinnedHere(thread[u])' /\ FlushesHere(thread[u])'
  <2> SUFFICES ASSUME NEW u \in Thread PROVE PinnedHere(thread[u])' /\ FlushesHere(thread[u])'
    OBVIOUS
  <2>1. CASE u # t
    <3>1. PinnedHere(thread[u]) /\ FlushesHere(thread[u]) /\ thread'[u] = thread[u]
      BY <1>1, <2>1 DEF IInv, ThreadsOK
    <3> QED BY <2>1, <3>1 DEF PinnedHere, FlushesHere, OthersKept
  <2>2. CASE u = t
    BY <1>1, <2>2 DEF PinnedHere, FlushesHere, StateOK
  <2> QED BY <2>1, <2>2
<1> QED BY <1>1, <1>2, <1>3 DEF IInv, ThreadsOK, StateOK, OthersKept, Types

-----------------------------------------------------------------------------
(***************************************************************************)
(* The operations, one by one.                                             *)
(***************************************************************************)
LEMMA InitEstablishes == Init => IInv
<1> SUFFICES ASSUME Init PROVE IInv
  OBVIOUS
<1>1. Types
  BY BufferPoolAssumption, IdleState DEF Init, Types, PageId
<1>2. ListOK
  BY DEF Init, ListOK, IsInjective
<1>3. FreeOK
  <2>1. freeList \in Seq(Frame) /\ DOMAIN freeList = Frame
    BY BufferPoolAssumption DEF Init, Frame
  <2> QED BY <2>1 DEF FreeOK, IsInjective, Init
<1>4. \A t \in Thread : thread[t] = Idle
  BY DEF Init
<1>5. ThreadsOK
  BY <1>4, IdleState DEF Init, ThreadsOK, PinnedHere, FlushesHere
<1>6. MapOK /\ StaleIsPinned
  BY DEF Init, MapOK, StaleIsPinned
<1>7. PinsOK
  <2>1. \A p : Holders(p) = {}
    BY <1>4, IdleState DEF Holders, Holds
  <2> QED BY <2>1, FS_EmptySet DEF PinsOK, Init
<1>8. FramesOK
  BY DEF Init, FramesOK, InList, Free, Range
<1>9. IdsOK
  BY DEF Init, IdsOK, IsInjective, Range
<1>10. DiskOK
  BY DEF Init, DiskOK, PageSafe
<1> QED BY <1>1, <1>2, <1>3, <1>5, <1>6, <1>7, <1>8, <1>9, <1>10 DEF IInv

LEMMA FetchHitKeeps ==
  ASSUME IInv, NEW t \in Thread, NEW p \in PageId, FetchHit(t, p)
  PROVE  IInv'
<1>0. PICK f \in Frame : f = pageTable[p]
  BY DEF FetchHit, IInv, Types
<1> DEFINE s == [Idle EXCEPT !.st = "pinned", !.id = p, !.frame = f]
           pg == [pages[f] EXCEPT !.pin = pages[f].pin + 1]
<1>1. /\ thread[t] = Idle /\ mutex = {} /\ pages' = [pages EXCEPT ![f] = pg]
      /\ Pin(f) /\ Become(t, s)
      /\ UNCHANGED <<pageTable, freeList, reUsablePageList, mutex, nextPageID, disk, live>>
      /\ pageTable[p] # NoFrame
  BY <1>0 DEF FetchHit, Enter
<1>2. /\ f \in Frame /\ pages[f] \in PageRec /\ pages[f] # NoPage /\ pages[f].id = p
      /\ pages[f].pin = Cardinality(Holders(p))
      /\ \A q \in PageId : pageTable[q] = f => q = p
  BY <1>0, <1>1, MappedFacts
<1>3. pages[f].pin \in Nat /\ pages[f].pin + 1 \in Nat
  BY <1>2, PageFields
<1>4. IsPage(pg, p, pages[f].pin + 1, pages[f].dirty, pages[f].dealloc, pages[f].data)
  <2>1. IsPage(pg, pages[f].id, pages[f].pin + 1, pages[f].dirty, pages[f].dealloc, pages[f].data)
    BY <1>2, <1>3, PinExcept
  <2> QED BY <1>2, <2>1
<1>5. s \in ThreadState /\ s.st = "pinned" /\ s.id = p /\ s.frame = f /\ s.dirty = FALSE
  BY <1>2 DEF Idle, ThreadState
<1> HIDE DEF s, pg
<1>6. FrameSet(f, pg)
  BY <1>1, <1>2, <1>4, FrameChange DEF IInv, IsPage
<1>7. ListOK' /\ Range(cList') = Range(cList) \ {f}
  BY <1>1, PinFacts DEF IInv
<1>8. thread' \in [Thread -> ThreadState] /\ ThreadsOK'
  <2>1. StateOK(s) /\ OthersKept(t)
    BY <1>1, <1>2, <1>5 DEF StateOK, OthersKept
  <2> QED BY <1>0, <1>1, <1>5, <2>1, ThreadChange
<1>9. Types'
  BY <1>1, <1>6, <1>8 DEF IInv, Types, FrameSet
<1>10. FreeOK' /\ IdsOK'
  BY <1>1 DEF IInv, FreeOK, IdsOK
<1>11. MapOK' /\ StaleIsPinned'
  <2>1. MapOK'
    BY <1>1, <1>2, <1>4, <1>6 DEF IInv, Types, MapOK, FrameSet, IsPage
  <2>2. ASSUME NEW g \in Frame, pages'[g] # NoPage, pageTable[pages'[g].id] # g PROVE pages'[g].pin > 0
    BY <1>0, <1>2, <1>4, <1>6, <2>2 DEF IInv, StaleIsPinned, FrameSet, IsPage
  <2> QED BY <1>1, <2>1, <2>2 DEF StaleIsPinned
<1>12. \A q \in PageId : Holders(q)' = IF q = p THEN Holders(p) \cup {t} ELSE Holders(q)
  <2>1. \A q : t \notin Holders(q)
    BY <1>1, IdleState DEF Holders, Holds
  <2> SUFFICES ASSUME NEW q \in PageId
               PROVE  Holders(q)' = IF q = p THEN Holders(p) \cup {t} ELSE Holders(q)
    OBVIOUS
  <2>2. Holders(q)' = IF s.st \in {"pinned", "latched"} /\ s.id = q THEN Holders(q) \cup {t} ELSE Holders(q) \ {t}
    BY <1>1, HoldersAfter DEF IInv
  <2> QED BY <1>5, <2>1, <2>2
<1>13. PinsOK'
  <2>1. t \notin Holders(p) /\ IsFiniteSet(Holders(p))
    BY <1>1, IdleState DEF Holders, Holds, IInv, PinsOK
  <2>2. IsFiniteSet(Holders(p) \cup {t}) /\ Cardinality(Holders(p) \cup {t}) = Cardinality(Holders(p)) + 1
    BY <2>1, FS_AddElement
  <2> SUFFICES ASSUME NEW q \in PageId
               PROVE  /\ IsFiniteSet(Holders(q)')
                      /\ pageTable[q] # NoFrame => pages'[pageTable[q]].pin = Cardinality(Holders(q)')
    BY <1>1 DEF PinsOK
  <2>3. CASE q = p
    BY <1>0, <1>2, <1>4, <1>6, <1>12, <2>2, <2>3 DEF FrameSet, IsPage
  <2>4. CASE q # p
    BY <1>2, <1>6, <1>12, <2>4 DEF FrameSet, IInv, PinsOK, Types
  <2> QED BY <2>3, <2>4
<1>14. FramesOK'
  <2> SUFFICES ASSUME NEW g \in Frame
               PROVE  /\ Free(g) => pages'[g] = NoPage
                      /\ InList(g)' => pages'[g] # NoPage /\ pages'[g].pin = 0
                      /\ Free(g) \/ InList(g)' \/ Taken(g)' \/ Pinned(g)'
    BY <1>1 DEF FramesOK, Free
  <2>1. CASE g = f
    <3>1. ~Free(f) /\ ~InList(f)'
      BY <1>2, <1>7 DEF IInv, FramesOK, InList
    <3>2. pages'[f] # NoPage /\ pages'[f].pin > 0
      BY <1>3, <1>4, <1>6, PageFields DEF FrameSet, IsPage
    <3> QED BY <2>1, <3>1, <3>2 DEF Pinned
  <2>2. CASE g # f
    <3>1. pages'[g] = pages[g] /\ (InList(g)' <=> InList(g)) /\ ~Taken(g)
      BY <1>1, <1>6, <1>7, <2>2 DEF FrameSet, InList, Taken
    <3> QED BY <3>1 DEF IInv, FramesOK, Pinned
  <2> QED BY <2>1, <2>2
<1>15. DiskOK'
  <2> SUFFICES ASSUME NEW q \in live, pageTable[q] # NoFrame
               PROVE  /\ ~pages'[pageTable[q]].dealloc
                      /\ \/ pages'[pageTable[q]].dirty
                         \/ \E u \in Holders(q)' : thread'[u].dirty
                         \/ OnDisk(q)'
    BY <1>1 DEF DiskOK, PageSafe, IInv
  <2>1. q \in PageId /\ pageTable[q] \in Frame
    BY DEF IInv, Types
  <2>2. /\ pages'[pageTable[q]].dealloc = pages[pageTable[q]].dealloc
        /\ pages'[pageTable[q]].dirty = pages[pageTable[q]].dirty
        /\ pages'[pageTable[q]].data = pages[pageTable[q]].data
    BY <1>4, <1>6, <2>1 DEF FrameSet, IsPage
  <2>3. ASSUME NEW u \in Holders(q), thread[u].dirty PROVE u \in Holders(q)' /\ thread'[u].dirty
    <3>1. u # t /\ u \in Thread
      BY <1>1, IdleState DEF Holders, Holds
    <3> QED BY <1>1, <1>12, <2>1, <2>3, <3>1 DEF Become, IInv, Types
  <2> QED BY <1>1, <2>2, <2>3 DEF IInv, DiskOK, OnDisk, PageSafe
<1> QED BY <1>7, <1>8, <1>9, <1>10, <1>11, <1>13, <1>14, <1>15 DEF IInv

(***************************************************************************)
(* Steps that change neither pins nor the lists.                           *)
(***************************************************************************)
SamePins(pg, pg2) ==
  /\ pg2 = NoPage <=> pg = NoPage
  /\ pg # NoPage => pg2.id = pg.id /\ pg2.pin = pg.pin
SamePool ==
  /\ UNCHANGED <<pageTable, freeList, reUsablePageList, cList, clockHand, mutex, nextPageID>>
  /\ pages' \in [Frame -> PageRec \cup {NoPage}]
  /\ \A g \in Frame : SamePins(pages[g], pages'[g])
  /\ disk' \in [PageId -> Value \cup {Unwritten}]
  /\ live' \subseteq live
  /\ \A u \in mutex : thread[u].id # NoId => thread[u].id \in live'
SameHold(t, s) ==
  /\ s.st \in {"pinned", "latched"} <=> thread[t].st \in {"pinned", "latched"}
  /\ s.st \in {"pinned", "latched"} => s.id = thread[t].id /\ s.frame = thread[t].frame

LEMMA SamePoolKeeps ==
  ASSUME IInv, SamePool,
         \A p \in PageId : Holders(p)' = Holders(p),
         \A u \in mutex : thread'[u] = thread[u]
  PROVE  /\ ListOK' /\ FreeOK' /\ MapOK' /\ StaleIsPinned' /\ PinsOK' /\ FramesOK' /\ IdsOK'
         /\ \A u \in mutex' : OwnsFrame(thread[u])'
<1>1. ListOK' /\ FreeOK'
  BY DEF IInv, ListOK, FreeOK, SamePool, InList
<1>2. IdsOK'
  BY DEF IInv, IdsOK, SamePool
<1>3. \A p \in PageId : pageTable[p] # NoFrame =>
         /\ pageTable[p] \in Frame /\ pages'[pageTable[p]].id = pages[pageTable[p]].id
         /\ pages'[pageTable[p]].pin = pages[pageTable[p]].pin
  BY MappedFacts DEF SamePool, SamePins
<1>4. MapOK' /\ PinsOK'
  BY <1>3 DEF IInv, MapOK, PinsOK, SamePool
<1>5. StaleIsPinned'
  BY DEF IInv, StaleIsPinned, SamePool, SamePins
<1>6. FramesOK'
  <2> SUFFICES ASSUME NEW g \in Frame
               PROVE  /\ Free(g) => pages'[g] = NoPage
                      /\ InList(g) => pages'[g] # NoPage /\ pages'[g].pin = 0
                      /\ Free(g) \/ InList(g) \/ Taken(g)' \/ Pinned(g)'
    BY DEF SamePool, FramesOK, Free, InList
  <2>1. Taken(g)' <=> Taken(g)
    BY DEF Taken, SamePool
  <2>2. SamePins(pages[g], pages'[g])
    BY DEF SamePool
  <2> QED BY <2>1, <2>2 DEF SamePins, IInv, FramesOK, Pinned
<1>7. ASSUME NEW u \in mutex PROVE OwnsFrame(thread[u])'
  <2>1. OwnsFrame(thread[u]) /\ thread'[u] = thread[u]
    BY DEF IInv, ThreadsOK
  <2> QED BY <1>7, <2>1 DEF OwnsFrame, SamePool, SamePins, Free, InList
<1> QED BY <1>1, <1>2, <1>4, <1>5, <1>6, <1>7 DEF SamePool

LEMMA QuietStep ==
  ASSUME IInv, SamePool, NEW t \in Thread, NEW s, Become(t, s), StateOK(s), t \notin mutex, SameHold(t, s),
         s.st = "flushing" => s.frame \in Frame /\ pageTable[s.id] = s.frame,
         DiskOK'
  PROVE  IInv'
<1>1. \A p \in PageId : Holders(p)' = Holders(p)
  <2> SUFFICES ASSUME NEW p \in PageId PROVE Holders(p)' = Holders(p)
    OBVIOUS
  <2>1. Holders(p)' = IF s.st \in {"pinned", "latched"} /\ s.id = p THEN Holders(p) \cup {t} ELSE Holders(p) \ {t}
    BY HoldersAfter DEF IInv
  <2>2. s.st \in {"pinned", "latched"} /\ s.id = p <=> t \in Holders(p)
    BY DEF SameHold, Holders, Holds
  <2> QED BY <2>1, <2>2
<1>2. \A u \in mutex : thread'[u] = thread[u]
  BY DEF Become, IInv, Types
<1>3. /\ ListOK' /\ FreeOK' /\ MapOK' /\ StaleIsPinned' /\ PinsOK' /\ FramesOK' /\ IdsOK'
      /\ \A u \in mutex' : OwnsFrame(thread[u])'
  BY <1>1, <1>2, SamePoolKeeps
<1>4. OthersKept(t)
  BY <1>3 DEF OthersKept, SamePool
<1>5. s.st \in {"pinned", "latched"} => pageTable'[s.id] = s.frame
  BY DEF SamePool, SameHold, IInv, ThreadsOK, PinnedHere
<1>6. thread' \in [Thread -> ThreadState] /\ ThreadsOK'
  BY <1>4, <1>5, ThreadChange DEF SamePool
<1>7. Types'
  BY <1>6 DEF IInv, Types, SamePool
<1> QED BY <1>3, <1>6, <1>7 DEF IInv

\* What may happen to a page in use without harm to what is on disk.
LEMMA DiskKept ==
  ASSUME IInv, UNCHANGED pageTable, live' \subseteq live, NEW p \in live',
         disk'[p] = disk[p],
         pageTable[p] # NoFrame =>
           /\ pages'[pageTable[p]].dealloc = pages[pageTable[p]].dealloc
           /\ pages'[pageTable[p]].dirty = pages[pageTable[p]].dirty
           /\ \/ pages'[pageTable[p]].data = pages[pageTable[p]].data
              \/ \E u \in Holders(p)' : thread'[u].dirty,
         \A u \in Holders(p) : thread[u].dirty => u \in Holders(p)' /\ thread'[u].dirty
  PROVE  PageSafe(p)'
  BY DEF IInv, DiskOK, OnDisk, PageSafe

LEMMA HoldersOfQuiet ==
  ASSUME IInv, NEW t \in Thread, NEW s, Become(t, s), SameHold(t, s),
         thread[t].st \in {"pinned", "latched"} /\ thread[t].dirty => s.dirty,
         NEW p \in PageId, NEW u \in Holders(p)
  PROVE  u \in Holders(p)' /\ (thread[u].dirty => thread'[u].dirty)
<1>0. u \in Thread
  BY DEF Holders
<1>1. Holders(p)' = IF s.st \in {"pinned", "latched"} /\ s.id = p THEN Holders(p) \cup {t} ELSE Holders(p) \ {t}
  BY HoldersAfter DEF IInv
<1>2. s.st \in {"pinned", "latched"} /\ s.id = p <=> t \in Holders(p)
  BY DEF SameHold, Holders, Holds
<1>3. u \in Holders(p)'
  BY <1>1, <1>2
<1>4. CASE u = t
  BY <1>0, <1>3, <1>4 DEF Become, IInv, Types, Holders, Holds
<1>5. CASE u # t
  BY <1>0, <1>3, <1>5 DEF Become, IInv, Types
<1> QED BY <1>4, <1>5

LEMMA ThreadOnly ==
  ASSUME IInv, NEW t \in Thread, NEW s, Become(t, s), StateOK(s), thread[t].st # "frame", SameHold(t, s),
         thread[t].st \in {"pinned", "latched"} /\ thread[t].dirty => s.dirty,
         s.st = "flushing" => s.frame \in Frame /\ pageTable[s.id] = s.frame,
         UNCHANGED <<poolVars, nextPageID, disk, live>>
  PROVE  IInv'
<1>1. SamePool
  BY DEF IInv, Types, SamePool, SamePins, poolVars, ThreadsOK, OwnsFrame
<1>2. t \notin mutex
  BY DEF IInv, ThreadsOK
<1>3. DiskOK'
  <2> SUFFICES ASSUME NEW p \in live' PROVE PageSafe(p)'
    BY DEF DiskOK
  <2>1. ASSUME NEW u \in Holders(p), thread[u].dirty PROVE u \in Holders(p)' /\ thread'[u].dirty
    <3>1. p \in PageId
      BY DEF IInv, Types
    <3> QED BY <2>1, <3>1, HoldersOfQuiet
  <2> QED BY <2>1, DiskKept DEF poolVars
<1> QED BY <1>1, <1>2, <1>3, QuietStep

LEMMA LatchKeeps ==
  ASSUME IInv, NEW t \in Thread, NEW mode \in {"R", "W"}, Latch(t, mode)
  PROVE  IInv'
<1> DEFINE s == [thread[t] EXCEPT !.st = "latched", !.mode = mode]
<1>1. s \in ThreadState /\ s.st = "latched" /\ s.id = thread[t].id /\ s.frame = thread[t].frame
      /\ s.dirty = thread[t].dirty
  BY DEF IInv, Types, ThreadState
<1>2. Become(t, s) /\ thread[t].st = "pinned" /\ UNCHANGED <<poolVars, nextPageID, disk, live>>
  BY DEF Latch
<1> HIDE DEF s
<1>3. StateOK(s) /\ SameHold(t, s)
  BY <1>1, <1>2, HeldFacts DEF StateOK, SameHold
<1> QED BY <1>1, <1>2, <1>3, ThreadOnly

LEMMA UnlatchKeeps ==
  ASSUME IInv, NEW t \in Thread, Unlatch(t)
  PROVE  IInv'
<1>1. CASE thread[t].st = "unpinned" /\ Become(t, Idle)
  <2>1. StateOK(Idle) /\ SameHold(t, Idle)
    BY <1>1, IdleState DEF StateOK, SameHold
  <2> QED BY <1>1, <2>1, IdleState, ThreadOnly DEF Unlatch
<1>2. CASE thread[t].st = "latched" /\ Become(t, [thread[t] EXCEPT !.st = "pinned"])
  <2> DEFINE s == [thread[t] EXCEPT !.st = "pinned"]
  <2>1. s \in ThreadState /\ s.st = "pinned" /\ s.id = thread[t].id /\ s.frame = thread[t].frame
        /\ s.dirty = thread[t].dirty
    BY DEF IInv, Types, ThreadState
  <2>2. Become(t, s) /\ thread[t].st = "latched" /\ UNCHANGED <<poolVars, nextPageID, disk, live>>
    BY <1>2 DEF Unlatch
  <2> HIDE DEF s
  <2>3. StateOK(s) /\ SameHold(t, s)
    BY <2>1, <2>2, HeldFacts DEF StateOK, SameHold
  <2> QED BY <2>1, <2>2, <2>3, ThreadOnly
<1> QED BY <1>1, <1>2 DEF Unlatch

LEMMA FlushPageKeeps ==
  ASSUME IInv, NEW t \in Thread, NEW p \in PageId, FlushPage(t, p)
  PROVE  IInv'
<1>0. PICK f \in Frame : f = pageTable[p]
  BY DEF FlushPage, IInv, Types
<1> DEFINE s == [Idle EXCEPT !.st = "flushing", !.id = p, !.frame = f]
<1>1. s \in ThreadState /\ s.st = "flushing" /\ s.id = p /\ s.frame = f
  BY DEF Idle, ThreadState
<1>2. Become(t, s) /\ thread[t] = Idle /\ UNCHANGED <<poolVars, nextPageID, disk, live>>
  BY <1>0 DEF FlushPage
<1> HIDE DEF s
<1>3. StateOK(s) /\ SameHold(t, s)
  BY <1>1, <1>2, IdleState DEF StateOK, SameHold
<1> QED BY <1>0, <1>1, <1>2, <1>3, IdleState, ThreadOnly

LEMMA WriteKeeps ==
  ASSUME IInv, NEW t \in Thread, NEW v \in Value, Write(t, v)
  PROVE  IInv'
<1>0. PICK f \in Frame, q \in PageId : f = thread[t].frame /\ q = thread[t].id
  BY HeldFacts DEF Write
<1> DEFINE s == [thread[t] EXCEPT !.dirty = TRUE]
           pg == [pages[f] EXCEPT !.data = v]
<1>1. /\ s \in ThreadState /\ s.st = thread[t].st /\ s.id = q /\ s.frame = f /\ s.dirty
      /\ thread[t].st = "latched"
  BY <1>0 DEF IInv, Types, ThreadState, Write
<1>2. /\ Become(t, s) /\ pages' = [pages EXCEPT ![f] = pg]
      /\ UNCHANGED <<pageTable, freeList, reUsablePageList, cList, clockHand, mutex, nextPageID, disk, live>>
  BY <1>0 DEF Write
<1>3. pages[f] \in PageRec /\ pageTable[q] = f /\ t \in Holders(q) /\ t \notin mutex
  BY <1>0, <1>1, HeldFacts DEF IInv, ThreadsOK
<1>4. IsPage(pg, pages[f].id, pages[f].pin, pages[f].dirty, pages[f].dealloc, v)
  BY <1>3, DataExcept
<1> HIDE DEF s, pg
<1>5. FrameSet(f, pg)
  BY <1>2, <1>4, FrameChange DEF IInv, IsPage
<1>6. SamePool
  <2>1. pages[f] # NoPage /\ pg # NoPage
    BY <1>3, <1>4, PageFields DEF IsPage
  <2>2. \A u \in mutex : thread[u].id # NoId => thread[u].id \in live
    BY DEF IInv, ThreadsOK, OwnsFrame
  <2> QED BY <1>2, <1>4, <1>5, <2>1, <2>2 DEF SamePool, SamePins, FrameSet, IsPage, IInv, Types
<1>7. StateOK(s) /\ SameHold(t, s)
  BY <1>0, <1>1 DEF StateOK, SameHold
<1>8. DiskOK'
  <2> SUFFICES ASSUME NEW p \in live' PROVE PageSafe(p)'
    BY DEF DiskOK
  <2>0. p \in PageId
    BY <1>2 DEF IInv, Types
  <2>1. \A u \in Holders(p) : thread[u].dirty => u \in Holders(p)' /\ thread'[u].dirty
    BY <1>1, <1>2, <1>7, <2>0, HoldersOfQuiet
  <2>2. ASSUME pageTable[p] = f PROVE \E u \in Holders(p)' : thread'[u].dirty
    <3>1. p = q
      BY <1>3, <2>0, <2>2, FrameFacts, MappedFacts
    <3>2. thread'[t] = s
      BY <1>2 DEF Become, IInv, Types
    <3>3. t \in Holders(q)'
      BY <1>1, <1>2, <1>3, <1>7, HoldersOfQuiet
    <3> QED BY <1>1, <3>1, <3>2, <3>3
  <2>3. ASSUME pageTable[p] # NoFrame
        PROVE  /\ pages'[pageTable[p]].dealloc = pages[pageTable[p]].dealloc
               /\ pages'[pageTable[p]].dirty = pages[pageTable[p]].dirty
               /\ \/ pages'[pageTable[p]].data = pages[pageTable[p]].data
                  \/ \E u \in Holders(p)' : thread'[u].dirty
    <3>1. pageTable[p] \in Frame
      BY <2>0, <2>3, MappedFacts
    <3> QED BY <1>4, <1>5, <2>2, <3>1 DEF FrameSet, IsPage
  <2> QED BY <1>2, <2>1, <2>3, DiskKept
<1> QED BY <1>1, <1>2, <1>3, <1>6, <1>7, <1>8, QuietStep

LEMMA SetIsDeallocatedKeeps ==
  ASSUME IInv, NEW t \in Thread, SetIsDeallocated(t)
  PROVE  IInv'
<1>0. PICK f \in Frame, q \in PageId : f = thread[t].frame /\ q = thread[t].id
  BY HeldFacts DEF SetIsDeallocated
<1> DEFINE s == [thread[t] EXCEPT !.dirty = TRUE]
           pg == [pages[f] EXCEPT !.dealloc = TRUE]
<1>1. /\ s \in ThreadState /\ s.st = thread[t].st /\ s.id = q /\ s.frame = f /\ s.dirty
      /\ thread[t].st = "latched"
  BY <1>0 DEF IInv, Types, ThreadState, SetIsDeallocated
<1>2. /\ Become(t, s) /\ pages' = [pages EXCEPT ![f] = pg] /\ live' = live \ {q}
      /\ UNCHANGED <<pageTable, freeList, reUsablePageList, cList, clockHand, mutex, nextPageID, disk>>
  BY <1>0 DEF SetIsDeallocated
<1>3. pages[f] \in PageRec /\ pageTable[q] = f /\ t \notin mutex
  BY <1>0, <1>1, HeldFacts DEF IInv, ThreadsOK
<1>4. IsPage(pg, pages[f].id, pages[f].pin, pages[f].dirty, TRUE, pages[f].data)
  BY <1>3, DeallocExcept
<1> HIDE DEF s, pg
<1>5. FrameSet(f, pg)
  BY <1>2, <1>4, FrameChange DEF IInv, IsPage
<1>6. SamePool
  <2>1. pages[f] # NoPage /\ pg # NoPage
    BY <1>3, <1>4, PageFields DEF IsPage
  <2>2. \A u \in mutex : thread[u].id # NoId => thread[u].id \in live'
    BY <1>2, <1>3, FrameFacts DEF IInv, ThreadsOK, OwnsFrame
  <2> QED BY <1>2, <1>4, <1>5, <2>1, <2>2 DEF SamePool, SamePins, FrameSet, IsPage, IInv, Types
<1>7. StateOK(s) /\ SameHold(t, s)
  BY <1>0, <1>1 DEF StateOK, SameHold
<1>8. DiskOK'
  <2> SUFFICES ASSUME NEW p \in live' PROVE PageSafe(p)'
    BY DEF DiskOK
  <2>0. p \in PageId /\ p # q /\ p \in live
    BY <1>2 DEF IInv, Types
  <2>1. \A u \in Holders(p) : thread[u].dirty => u \in Holders(p)' /\ thread'[u].dirty
    BY <1>1, <1>2, <1>7, <2>0, HoldersOfQuiet
  <2>2. pageTable[p] # NoFrame => pageTable[p] \in Frame /\ pageTable[p] # f
    BY <1>3, <2>0, FrameFacts, MappedFacts
  <2>3. pageTable[p] # NoFrame => pages'[pageTable[p]] = pages[pageTable[p]]
    BY <1>5, <2>2 DEF FrameSet
  <2> QED BY <1>2, <2>1, <2>3, DiskKept
<1> QED BY <1>1, <1>2, <1>3, <1>6, <1>7, <1>8, QuietStep

LEMMA FlushWriteKeeps ==
  ASSUME IInv, NEW t \in Thread, FlushWrite(t)
  PROVE  IInv'
<1>0. PICK f \in Frame \cup {NoFrame}, q \in PageId : f = thread[t].frame /\ q = thread[t].id
  BY DEF FlushWrite, IInv, Types, ThreadState, ThreadsOK
<1> DEFINE d == IF f = NoFrame THEN Zero ELSE pages[f].data
<1>1. /\ thread[t].st = "flushing" /\ t \notin mutex /\ Become(t, Idle)
      /\ disk' = [disk EXCEPT ![q] = d]
      /\ UNCHANGED <<pageTable, freeList, reUsablePageList, cList, clockHand, mutex, nextPageID, live>>
  BY <1>0 DEF FlushWrite, IInv, ThreadsOK
<1>2. StateOK(Idle) /\ SameHold(t, Idle)
  BY <1>1, IdleState DEF StateOK, SameHold
<1>3. \A u \in mutex : thread[u].id # NoId => thread[u].id \in live
  BY DEF IInv, ThreadsOK, OwnsFrame
<1>4. CASE f = NoFrame
  <2>1. UNCHANGED pages /\ d \in Value /\ d # Unwritten /\ "flush" \in Races
    BY <1>0, <1>1, <1>4, BufferPoolAssumption, FrameFacts DEF FlushWrite, IInv, ThreadsOK, FlushesHere
  <2> HIDE DEF d
  <2>2. SamePool
    BY <1>1, <1>3, <2>1 DEF SamePool, SamePins, IInv, Types
  <2>3. DiskOK'
    <3> SUFFICES ASSUME NEW p \in live' PROVE PageSafe(p)'
      BY DEF DiskOK
    <3>0. p \in PageId /\ p \in live
      BY <1>1 DEF IInv, Types
    <3>1. \A u \in Holders(p) : thread[u].dirty => u \in Holders(p)' /\ thread'[u].dirty
      BY <1>1, <1>2, <3>0, HoldersOfQuiet
    <3>2. CASE p # q
      <4>1. disk'[p] = disk[p]
        BY <1>1, <3>0, <3>2 DEF IInv, Types
      <4> QED BY <1>1, <2>1, <3>1, <4>1, DiskKept
    <3>3. CASE p = q
      <4>1. disk'[p] # Unwritten
        BY <1>1, <2>1, <3>0, <3>3 DEF IInv, Types
      <4> QED BY <1>1, <2>1, <3>0, <4>1 DEF OnDisk, IInv, DiskOK, PageSafe
    <3> QED BY <3>2, <3>3
  <2> QED BY <1>1, <1>2, <2>2, <2>3, IdleState, QuietStep
<1>5. CASE f # NoFrame
  <2> DEFINE pg == [pages[f] EXCEPT !.dirty = FALSE]
  <2>1. f \in Frame /\ pageTable[q] = f /\ pages' = [pages EXCEPT ![f] = pg]
    BY <1>0, <1>1, <1>5 DEF FlushWrite, IInv, ThreadsOK, FlushesHere
  <2>2. pages[f] \in PageRec /\ \A p \in PageId : pageTable[p] = f => p = q
    BY <1>5, <2>1, MappedFacts
  <2>3. d \in Value /\ d # Unwritten /\ d = pages[f].data
    BY <1>5, <2>2, PageFields, BufferPoolAssumption
  <2>4. IsPage(pg, pages[f].id, pages[f].pin, FALSE, pages[f].dealloc, pages[f].data)
    BY <2>2, CleanExcept
  <2> HIDE DEF d, pg
  <2>5. FrameSet(f, pg)
    BY <2>1, <2>4, FrameChange DEF IInv, IsPage
  <2>6. SamePool
    <3>1. pages[f] # NoPage /\ pg # NoPage
      BY <2>2, <2>4, PageFields DEF IsPage
    <3> QED BY <1>1, <1>3, <2>3, <2>4, <2>5, <3>1 DEF SamePool, SamePins, FrameSet, IsPage, IInv, Types
  <2>7. DiskOK'
    <3> SUFFICES ASSUME NEW p \in live' PROVE PageSafe(p)'
      BY DEF DiskOK
    <3>0. p \in PageId /\ p \in live
      BY <1>1 DEF IInv, Types
    <3>1. \A u \in Holders(p) : thread[u].dirty => u \in Holders(p)' /\ thread'[u].dirty
      BY <1>1, <1>2, <3>0, HoldersOfQuiet
    <3>2. CASE p # q
      <4>1. disk'[p] = disk[p]
        BY <1>1, <3>0, <3>2 DEF IInv, Types
      <4>2. pageTable[p] # NoFrame => pageTable[p] \in Frame /\ pageTable[p] # f
        BY <2>2, <3>0, <3>2, MappedFacts
      <4>3. pageTable[p] # NoFrame => pages'[pageTable[p]] = pages[pageTable[p]]
        BY <2>5, <4>2 DEF FrameSet
      <4> QED BY <1>1, <3>1, <4>1, <4>3, DiskKept
    <3>3. CASE p = q
      <4>1. disk'[p] = d
        BY <1>1, <3>0, <3>3 DEF IInv, Types
      <4>2. pages'[f].data = d /\ pages'[f].dealloc = pages[f].dealloc /\ pageTable'[p] = f
        BY <1>1, <2>1, <2>3, <2>4, <2>5, <3>3 DEF FrameSet, IsPage
      <4> QED BY <1>1, <1>5, <2>1, <2>3, <3>0, <3>3, <4>1, <4>2 DEF OnDisk, IInv, DiskOK, PageSafe
    <3> QED BY <3>2, <3>3
  <2> QED BY <1>1, <1>2, <2>6, <2>7, IdleState, QuietStep
<1> QED BY <1>4, <1>5

LEMMA FlushAllKeeps ==
  ASSUME IInv, FlushAllDirtyPages
  PROVE  IInv'
<1> DEFINE cached == {p \in PageId : pageTable[p] # NoFrame /\ pages[pageTable[p]].dirty}
<1>1. /\ \A t \in Thread : thread[t] = Idle
      /\ disk' = [p \in PageId |-> IF p \in cached THEN pages[pageTable[p]].data ELSE disk[p]]
      /\ pages' = [f \in Frame |-> IF \E p \in cached : pageTable[p] = f
                                   THEN [pages[f] EXCEPT !.dirty = FALSE] ELSE pages[f]]
      /\ UNCHANGED <<pageTable, freeList, reUsablePageList, cList, clockHand, mutex, nextPageID, thread, live>>
  BY DEF FlushAllDirtyPages
<1>2. ASSUME NEW f \in Frame
      PROVE  /\ pages'[f] \in PageRec \cup {NoPage} /\ SamePins(pages[f], pages'[f])
             /\ pages[f] # NoPage => pages'[f].data = pages[f].data /\ pages'[f].dealloc = pages[f].dealloc
             /\ (~\E p \in cached : pageTable[p] = f) => pages'[f] = pages[f]
  <2>1. CASE \E p \in cached : pageTable[p] = f
    <3>1. pages[f] \in PageRec
      BY <2>1, MappedFacts
    <3>2. IsPage([pages[f] EXCEPT !.dirty = FALSE], pages[f].id, pages[f].pin, FALSE, pages[f].dealloc, pages[f].data)
      BY <3>1, CleanExcept
    <3>3. pages'[f] = [pages[f] EXCEPT !.dirty = FALSE]
      BY <1>1, <2>1
    <3>4. IsPage(pages'[f], pages[f].id, pages[f].pin, FALSE, pages[f].dealloc, pages[f].data)
      BY <3>2, <3>3
    <3> QED BY <2>1, <3>1, <3>4, PageFields DEF IsPage, SamePins
  <2>2. CASE ~\E p \in cached : pageTable[p] = f
    <3>1. pages'[f] = pages[f]
      BY <1>1, <2>2
    <3> QED BY <3>1 DEF SamePins, IInv, Types
  <2> QED BY <2>1, <2>2
<1>3. \A p \in PageId : disk'[p] = IF p \in cached THEN pages[pageTable[p]].data ELSE disk[p]
  BY <1>1
<1>4. \A p \in cached : pages[pageTable[p]].data \in Value
  BY MappedFacts, PageFields
<1>5. \A p \in PageId : disk'[p] \in Value \cup {Unwritten}
  BY <1>3, <1>4 DEF IInv, Types
<1>6. SamePool
  <2>1. pages' \in [Frame -> PageRec \cup {NoPage}] /\ disk' \in [PageId -> Value \cup {Unwritten}]
    BY <1>1, <1>2, <1>5
  <2>2. \A u \in mutex : thread[u].id # NoId => thread[u].id \in live
    BY DEF IInv, ThreadsOK, OwnsFrame
  <2> QED BY <1>1, <1>2, <2>1, <2>2 DEF SamePool
<1>7. \A p : Holders(p) = {} /\ Holders(p)' = {}
  BY <1>1, IdleState DEF Holders, Holds
<1>8. /\ ListOK' /\ FreeOK' /\ MapOK' /\ StaleIsPinned' /\ PinsOK' /\ FramesOK' /\ IdsOK'
      /\ \A u \in mutex' : OwnsFrame(thread[u])'
  BY <1>1, <1>6, <1>7, SamePoolKeeps
<1>9. ThreadsOK'
  BY <1>1, <1>8 DEF IInv, ThreadsOK, PinnedHere, FlushesHere
<1>10. Types'
  BY <1>1, <1>6 DEF IInv, Types, SamePool
<1>11. DiskOK'
  <2> SUFFICES ASSUME NEW p \in live' PROVE PageSafe(p)'
    BY DEF DiskOK
  <2>0. p \in PageId /\ p \in live
    BY <1>1 DEF IInv, Types
  <2>1. CASE pageTable[p] = NoFrame
    BY <1>1, <1>3, <2>0, <2>1 DEF IInv, DiskOK, PageSafe
  <2>2. CASE pageTable[p] # NoFrame
    <3>1. /\ pageTable[p] \in Frame /\ pages[pageTable[p]] # NoPage
          /\ \A x \in PageId : pageTable[x] = pageTable[p] => x = p
          /\ pages[pageTable[p]].data \in Value
      BY <2>0, <2>2, MappedFacts, PageFields
    <3>2. pages'[pageTable[p]].data = pages[pageTable[p]].data /\ pages'[pageTable[p]].dealloc = pages[pageTable[p]].dealloc
      BY <1>2, <3>1
    <3>3. OnDisk(p)'
      <4>1. CASE p \in cached
        <5>1. disk'[p] = pages[pageTable[p]].data /\ disk'[p] # Unwritten
          BY <1>3, <2>0, <3>1, <4>1, BufferPoolAssumption
        <5> QED BY <1>1, <3>2, <5>1 DEF OnDisk
      <4>2. CASE p \notin cached
        <5>1. disk'[p] = disk[p] /\ OnDisk(p)
          BY <1>3, <1>7, <2>0, <2>2, <4>2 DEF IInv, DiskOK, PageSafe
        <5> QED BY <1>1, <3>2, <5>1 DEF OnDisk
      <4> QED BY <4>1, <4>2
    <3> QED BY <1>1, <2>0, <2>2, <3>2, <3>3 DEF IInv, DiskOK, PageSafe
  <2> QED BY <2>1, <2>2
<1> QED BY <1>8, <1>9, <1>10, <1>11 DEF IInv

(***************************************************************************)
(* Taking a frame.                                                         *)
(***************************************************************************)
LEMMA TakeFrameKeeps ==
  ASSUME IInv, NEW t \in Thread, NEW p \in PageId \cup {NoId}, TakeFrame(t, p),
         IF p = NoId THEN reUsablePageList # <<>> \/ nextPageID <= MaxPageId
         ELSE p \in live /\ pageTable[p] = NoFrame
  PROVE  IInv'
<1>0. PICK f \in Frame : GetFrameID(f) /\ Become(t, [Idle EXCEPT !.st = "frame", !.id = p, !.frame = f])
  BY DEF TakeFrame
<1> DEFINE s == [Idle EXCEPT !.st = "frame", !.id = p, !.frame = f]
<1>1. /\ thread[t] = Idle /\ mutex = {} /\ mutex' = {t} /\ Become(t, s)
      /\ UNCHANGED <<pageTable, pages, reUsablePageList, nextPageID, disk, live>>
  BY <1>0 DEF TakeFrame, Enter
<1>2. s \in ThreadState /\ s.st = "frame" /\ s.id = p /\ s.frame = f
  BY DEF Idle, ThreadState
<1> HIDE DEF s
<1>3. thread'[t] = s /\ \A u \in Thread : u # t => thread'[u] = thread[u]
  BY <1>1 DEF Become, IInv, Types
<1>4. /\ ListOK' /\ FreeOK' /\ ~Free(f)' /\ ~InList(f)' /\ (pages[f] # NoPage => pages[f].pin = 0)
      /\ \A g \in Frame : g # f => (Free(g)' <=> Free(g)) /\ (InList(g)' <=> InList(g))
  <2>1. CASE freeList # <<>>
    <3>1. f = Head(freeList) /\ freeList' = Tail(freeList) /\ UNCHANGED <<cList, clockHand>>
      BY <1>0, <2>1 DEF GetFrameID
    <3>2. FreeOK' /\ f \in Range(freeList) /\ Range(freeList') = Range(freeList) \ {f}
      BY <2>1, <3>1, TailFacts DEF IInv, FreeOK
    <3>3. ListOK'
      BY <3>1 DEF IInv, ListOK, InList
    <3>4. pages[f] = NoPage /\ ~InList(f)
      BY <3>2 DEF IInv, FramesOK, Free
    <3> QED BY <3>1, <3>2, <3>3, <3>4 DEF Free, InList
  <2>2. CASE freeList = <<>>
    <3>1. Victim(f) /\ UNCHANGED freeList
      BY <1>0, <2>2 DEF GetFrameID
    <3>2. ListOK' /\ InList(f) /\ Range(cList') = Range(cList) \ {f}
      BY <3>1, VictimFacts DEF IInv
    <3>3. FreeOK'
      BY <3>1 DEF IInv, FreeOK
    <3>4. pages[f].pin = 0 /\ ~Free(f)
      BY <3>2 DEF IInv, FramesOK
    <3> QED BY <3>1, <3>2, <3>3, <3>4 DEF Free, InList
  <2> QED BY <2>1, <2>2
<1>5. Types'
  BY <1>1, <1>2 DEF IInv, Types, Become
<1>6. ThreadsOK'
  <2>1. OwnsFrame(thread[t])'
    BY <1>1, <1>2, <1>3, <1>4 DEF OwnsFrame
  <2>2. \A u \in Thread : PinnedHere(thread[u])' /\ FlushesHere(thread[u])'
    <3> SUFFICES ASSUME NEW u \in Thread PROVE PinnedHere(thread[u])' /\ FlushesHere(thread[u])'
      OBVIOUS
    <3>1. CASE u = t
      BY <1>2, <1>3, <3>1 DEF PinnedHere, FlushesHere
    <3>2. CASE u # t
      BY <1>1, <1>3, <3>2 DEF IInv, ThreadsOK, PinnedHere, FlushesHere
    <3> QED BY <3>1, <3>2
  <2> QED BY <1>1, <1>2, <1>3, <2>1, <2>2 DEF IInv, ThreadsOK
<1>7. MapOK' /\ StaleIsPinned' /\ IdsOK'
  BY <1>1 DEF IInv, MapOK, StaleIsPinned, IdsOK
<1>8. \A q : Holders(q)' = Holders(q)
  <2> SUFFICES ASSUME NEW q PROVE Holders(q)' = Holders(q)
    OBVIOUS
  <2>1. Holders(q)' = IF s.st \in {"pinned", "latched"} /\ s.id = q THEN Holders(q) \cup {t} ELSE Holders(q) \ {t}
    BY <1>1, HoldersAfter DEF IInv
  <2>2. t \notin Holders(q)
    BY <1>1, IdleState DEF Holders, Holds
  <2> QED BY <1>2, <2>1, <2>2
<1>9. PinsOK'
  BY <1>1, <1>8 DEF IInv, PinsOK
<1>10. FramesOK'
  <2> SUFFICES ASSUME NEW g \in Frame
               PROVE  /\ Free(g)' => pages[g] = NoPage
                      /\ InList(g)' => pages[g] # NoPage /\ pages[g].pin = 0
                      /\ Free(g)' \/ InList(g)' \/ Taken(g)' \/ Pinned(g)
    BY <1>1 DEF FramesOK, Pinned
  <2>1. CASE g = f
    BY <1>1, <1>2, <1>3, <1>4, <2>1 DEF Taken
  <2>2. CASE g # f
    BY <1>1, <1>4, <2>2 DEF Taken, IInv, FramesOK
  <2> QED BY <2>1, <2>2
<1>11. DiskOK'
  <2> SUFFICES ASSUME NEW q \in live' PROVE PageSafe(q)'
    BY DEF DiskOK
  <2>1. \A u \in Holders(q) : thread[u].dirty => u \in Holders(q)' /\ thread'[u].dirty
    <3>1. \A u \in Holders(q) : u \in Thread /\ u # t
      BY <1>1, IdleState DEF Holders, Holds
    <3> QED BY <1>3, <1>8, <3>1
  <2> QED BY <1>1, <2>1, DiskKept
<1> QED BY <1>4, <1>5, <1>6, <1>7, <1>9, <1>10, <1>11 DEF IInv

LEMMA ObtainFrameKeeps ==
  ASSUME IInv, NEW t \in Thread
  PROVE  /\ \A p \in PageId : FetchMiss(t, p) => IInv'
         /\ NewPage(t) => IInv'
<1>1. ASSUME NEW p \in PageId, FetchMiss(t, p) PROVE IInv'
  <2>1. p # NoId
    BY FrameFacts
  <2> QED BY <1>1, <2>1, TakeFrameKeeps DEF FetchMiss
<1>2. ASSUME NewPage(t) PROVE IInv'
  BY <1>2, TakeFrameKeeps DEF NewPage
<1> QED BY <1>1, <1>2

(***************************************************************************)
(* Giving a page back.                                                     *)
(***************************************************************************)
LEMMA UnpinKeeps ==
  ASSUME IInv, NEW t \in Thread, thread[t].st \in {"pinned", "latched"}, mutex = {}, UnpinPage(t),
         NEW s, Become(t, s), StateOK(s), s.st \in {"idle", "unpinned"}
  PROVE  IInv'
<1>0. PICK f \in Frame, p \in PageId : f = thread[t].frame /\ p = thread[t].id
  BY HeldFacts
<1> DEFINE n == pages[f].pin
           d == pages[f].dirty \/ thread[t].dirty
           pg == [pages[f] EXCEPT !.pin = n - 1, !.dirty = d]
<1>1. /\ pageTable[p] = f /\ f # NoFrame /\ t \in Holders(p) /\ IsFiniteSet(Holders(p))
      /\ pages[f] \in PageRec /\ pages[f].id = p /\ n = Cardinality(Holders(p)) /\ n > 0
      /\ ~InList(f) /\ ~Free(f)
  BY <1>0, HeldFacts, FrameFacts
<1>2. /\ pages' = [pages EXCEPT ![f] = pg]
      /\ IF n = 1 THEN Unpin(f) ELSE UNCHANGED <<cList, clockHand>>
      /\ UNCHANGED <<pageTable, freeList, reUsablePageList, mutex, nextPageID, disk, live>>
  BY <1>0, <1>1 DEF UnpinPage
<1>3. n \in Nat /\ n - 1 \in Nat /\ d \in BOOLEAN
  BY <1>1, PageFields
<1>4. IsPage(pg, p, n - 1, d, pages[f].dealloc, pages[f].data)
  <2>1. IsPage(pg, pages[f].id, n - 1, d, pages[f].dealloc, pages[f].data)
    BY <1>1, <1>3, UnpinExcept
  <2> QED BY <1>1, <2>1
<1>d. d <=> pages[f].dirty \/ thread[t].dirty
  OBVIOUS
<1> HIDE DEF pg, n, d
<1>5. FrameSet(f, pg)
  BY <1>1, <1>2, <1>4, FrameChange DEF IInv, IsPage
<1>6. ListOK' /\ Range(cList') = IF n = 1 THEN Range(cList) \cup {f} ELSE Range(cList)
  BY <1>1, <1>2, UnpinFacts DEF IInv, ListOK, InList
<1>7. thread' \in [Thread -> ThreadState] /\ ThreadsOK'
  <2>1. OthersKept(t)
    BY <1>2 DEF OthersKept
  <2> QED BY <2>1, ThreadChange
<1>8. Types'
  BY <1>2, <1>5, <1>7 DEF IInv, Types, FrameSet
<1>9. FreeOK' /\ IdsOK'
  BY <1>2 DEF IInv, FreeOK, IdsOK
<1>10. MapOK'
  BY <1>1, <1>2, <1>4, <1>5 DEF IInv, Types, MapOK, FrameSet, IsPage
<1>11. StaleIsPinned'
  <2> SUFFICES ASSUME NEW g \in Frame, pages'[g] # NoPage, pageTable[pages'[g].id] # g PROVE pages'[g].pin > 0
    BY <1>2 DEF StaleIsPinned
  <2>1. g # f
    BY <1>1, <1>4, <1>5 DEF FrameSet, IsPage
  <2> QED BY <1>5, <2>1 DEF IInv, StaleIsPinned, FrameSet
<1>12. \A q \in PageId : Holders(q)' = IF q = p THEN Holders(p) \ {t} ELSE Holders(q)
  <2> SUFFICES ASSUME NEW q \in PageId PROVE Holders(q)' = IF q = p THEN Holders(p) \ {t} ELSE Holders(q)
    OBVIOUS
  <2>1. Holders(q)' = IF s.st \in {"pinned", "latched"} /\ s.id = q THEN Holders(q) \cup {t} ELSE Holders(q) \ {t}
    BY HoldersAfter DEF IInv
  <2>2. q # p => t \notin Holders(q)
    BY <1>0 DEF Holders, Holds
  <2> QED BY <2>1, <2>2
<1>13. PinsOK'
  <2>1. IsFiniteSet(Holders(p) \ {t}) /\ Cardinality(Holders(p) \ {t}) = n - 1
    BY <1>1, FS_RemoveElement
  <2> SUFFICES ASSUME NEW q \in PageId
               PROVE  /\ IsFiniteSet(Holders(q)')
                      /\ pageTable[q] # NoFrame => pages'[pageTable[q]].pin = Cardinality(Holders(q)')
    BY <1>2 DEF PinsOK
  <2>2. CASE q = p
    BY <1>1, <1>4, <1>5, <1>12, <2>1, <2>2 DEF FrameSet, IsPage
  <2>3. CASE q # p
    <3>1. pageTable[q] # NoFrame => pageTable[q] \in Frame /\ pageTable[q] # f
      BY <1>1, <2>3, MappedFacts
    <3> QED BY <1>5, <1>12, <2>3, <3>1 DEF FrameSet, IInv, PinsOK
  <2> QED BY <2>2, <2>3
<1>14. FramesOK'
  <2> SUFFICES ASSUME NEW g \in Frame
               PROVE  /\ Free(g) => pages'[g] = NoPage
                      /\ InList(g)' => pages'[g] # NoPage /\ pages'[g].pin = 0
                      /\ Free(g) \/ InList(g)' \/ Taken(g)' \/ Pinned(g)'
    BY <1>2 DEF FramesOK, Free
  <2>1. CASE g = f
    <3>1. pages'[f] # NoPage /\ pages'[f].pin = n - 1
      BY <1>4, <1>5, PageFields DEF FrameSet, IsPage
    <3>2. CASE n = 1
      BY <1>1, <1>6, <2>1, <3>1, <3>2 DEF InList
    <3>3. CASE n # 1
      <4>1. ~InList(f)' /\ pages'[f].pin > 0
        BY <1>1, <1>3, <1>6, <3>1, <3>3 DEF InList
      <4> QED BY <1>1, <2>1, <3>1, <4>1 DEF Pinned
    <3> QED BY <3>2, <3>3
  <2>2. CASE g # f
    <3>1. pages'[g] = pages[g] /\ (InList(g)' <=> InList(g)) /\ ~Taken(g)
      BY <1>5, <1>6, <2>2 DEF FrameSet, InList, Taken
    <3> QED BY <3>1 DEF IInv, FramesOK, Pinned
  <2> QED BY <2>1, <2>2
<1>15. DiskOK'
  <2> SUFFICES ASSUME NEW q \in live' PROVE PageSafe(q)'
    BY DEF DiskOK
  <2>0. q \in PageId /\ q \in live
    BY <1>2 DEF IInv, Types
  <2>1. \A u \in Holders(q) : thread[u].dirty /\ u # t => u \in Holders(q)' /\ thread'[u].dirty
    <3>1. \A u \in Holders(q) : u \in Thread
      BY DEF Holders
    <3> QED BY <1>12, <2>0, <3>1 DEF Become, IInv, Types
  <2>2. CASE q = p
    <3>1. pages'[f].dirty = d /\ pages'[f].dealloc = pages[f].dealloc /\ pages'[f].data = pages[f].data
      BY <1>4, <1>5 DEF FrameSet, IsPage
    <3> QED BY <1>1, <1>2, <1>d, <2>0, <2>1, <2>2, <3>1 DEF PageSafe, OnDisk, IInv, DiskOK
  <2>3. CASE q # p
    <3>1. pageTable[q] # NoFrame => pageTable[q] \in Frame /\ pageTable[q] # f
      BY <1>1, <2>0, <2>3, MappedFacts
    <3>2. pageTable[q] # NoFrame => pages'[pageTable[q]] = pages[pageTable[q]]
      BY <1>5, <3>1 DEF FrameSet
    <3>3. t \notin Holders(q)
      BY <1>0, <2>3 DEF Holders, Holds
    <3> QED BY <1>2, <2>1, <3>2, <3>3, DiskKept
  <2> QED BY <2>2, <2>3
<1> QED BY <1>6, <1>7, <1>8, <1>9, <1>10, <1>11, <1>13, <1>14, <1>15 DEF IInv

LEMMA UnpinsKeep ==
  ASSUME IInv, NEW t \in Thread, UnpinLatched(t) \/ UnpinUnlatched(t)
  PROVE  IInv'
<1>1. CASE UnpinLatched(t)
  <2> DEFINE s == [thread[t] EXCEPT !.st = "unpinned"]
  <2>1. s \in ThreadState /\ s.st = "unpinned" /\ s.id = thread[t].id /\ s.frame = thread[t].frame
    BY DEF IInv, Types, ThreadState
  <2>2. Become(t, s) /\ thread[t].st = "latched" /\ mutex = {} /\ UnpinPage(t)
    BY <1>1 DEF UnpinLatched, Enter
  <2> HIDE DEF s
  <2>3. StateOK(s)
    BY <2>1, <2>2, HeldFacts DEF StateOK
  <2> QED BY <2>1, <2>2, <2>3, UnpinKeeps
<1>2. CASE UnpinUnlatched(t)
  <2>1. StateOK(Idle)
    BY IdleState DEF StateOK
  <2> QED BY <1>2, <2>1, IdleState, UnpinKeeps DEF UnpinUnlatched, Enter
<1> QED BY <1>1, <1>2

LEMMA DropTmpPageKeeps ==
  ASSUME IInv, NEW p \in PageId, "reuse" \notin Races, DropTmpPage(p)
  PROVE  IInv'
<1>1. /\ mutex = {} /\ pageTable[p] = NoFrame /\ live' = live \ {p}
      /\ UNCHANGED <<pageTable, reUsablePageList, pages, freeList, cList, clockHand, mutex, nextPageID, disk, thread>>
  BY DEF DropTmpPage, DeallocatePage, Enter
<1>2. SamePool
  BY <1>1 DEF SamePool, SamePins, IInv, Types
<1>3. \A q : Holders(q)' = Holders(q)
  BY <1>1 DEF Holders, Holds
<1>4. /\ ListOK' /\ FreeOK' /\ MapOK' /\ StaleIsPinned' /\ PinsOK' /\ FramesOK' /\ IdsOK'
  BY <1>1, <1>2, <1>3, SamePoolKeeps
<1>5. ThreadsOK'
  BY <1>1 DEF IInv, ThreadsOK, PinnedHere, FlushesHere
<1>6. Types'
  BY <1>1 DEF IInv, Types
<1>7. DiskOK'
  BY <1>1, <1>3 DEF IInv, DiskOK, PageSafe, OnDisk
<1> QED BY <1>4, <1>5, <1>6, <1>7 DEF IInv

LEMMA DropLastTmpPageKeeps ==
  ASSUME IInv, NEW t \in Thread, DropLastTmpPage(t)
  PROVE  IInv'
<1>0. PICK f \in Frame, p \in PageId : f = thread[t].frame /\ p = thread[t].id
  BY HeldFacts DEF DropLastTmpPage
<1>1. /\ mutex = {} /\ thread[t].st = "pinned" /\ Become(t, Idle)
      /\ \A u \in Thread \ {t} : thread[u].id # p
      /\ DeallocatePage(p)
  BY <1>0 DEF DropLastTmpPage, Enter
<1>2. /\ pageTable[p] = f /\ f # NoFrame /\ IsFiniteSet(Holders(p))
      /\ pages[f] \in PageRec /\ pages[f].id = p /\ pages[f].pin > 0
  BY <1>0, <1>1, HeldFacts, FrameFacts
<1>3. /\ pageTable' = [pageTable EXCEPT ![p] = NoFrame]
      /\ reUsablePageList' = Append(reUsablePageList, p) /\ live' = live \ {p}
      /\ UNCHANGED <<pages, freeList, cList, clockHand, mutex, nextPageID, disk>>
  BY <1>1, <1>2 DEF DeallocatePage
<1>4. \A q \in PageId : pageTable'[q] = IF q = p THEN NoFrame ELSE pageTable[q]
  BY <1>3 DEF IInv, Types
<1>5. ListOK' /\ FreeOK'
  BY <1>3 DEF IInv, ListOK, FreeOK, InList
<1>6. thread' \in [Thread -> ThreadState] /\ ThreadsOK'
  <2>1. OthersKept(t)
    BY <1>1, <1>3, <1>4 DEF OthersKept, IInv, ThreadsOK
  <2>2. StateOK(Idle)
    BY IdleState DEF StateOK
  <2> QED BY <1>1, <2>1, <2>2, IdleState, ThreadChange
<1>7. Types'
  BY <1>3, <1>6 DEF IInv, Types
<1>8. MapOK'
  BY <1>3, <1>4 DEF IInv, MapOK
<1>9. StaleIsPinned'
  <2> SUFFICES ASSUME NEW g \in Frame, pages[g] # NoPage, pageTable'[pages[g].id] # g PROVE pages[g].pin > 0
    BY <1>3 DEF StaleIsPinned
  <2>1. pages[g].id \in PageId
    BY PageFields DEF IInv, Types
  <2>2. CASE g = f
    BY <1>2, <2>2
  <2>3. CASE g # f
    BY <1>2, <1>4, <2>1, <2>3 DEF IInv, StaleIsPinned
  <2> QED BY <2>2, <2>3
<1>10. \A q \in PageId : Holders(q)' = Holders(q) \ {t} /\ (q # p => Holders(q)' = Holders(q))
  <2> SUFFICES ASSUME NEW q \in PageId PROVE Holders(q)' = Holders(q) \ {t} /\ (q # p => Holders(q)' = Holders(q))
    OBVIOUS
  <2>1. Holders(q)' = Holders(q) \ {t}
    BY <1>1, IdleState, HoldersAfter DEF IInv
  <2>2. q # p => t \notin Holders(q)
    BY <1>0 DEF Holders, Holds
  <2> QED BY <2>1, <2>2
<1>11. PinsOK'
  <2>1. IsFiniteSet(Holders(p) \ {t})
    BY <1>2, FS_RemoveElement
  <2> QED BY <1>3, <1>4, <1>10, <2>1 DEF IInv, PinsOK
<1>12. FramesOK'
  BY <1>1, <1>3 DEF IInv, FramesOK, Free, InList, Taken, Pinned
<1>13. IdsOK'
  <2>1. p \notin Range(reUsablePageList) /\ p < nextPageID
    BY <1>2 DEF IInv, IdsOK
  <2>2. /\ reUsablePageList' \in Seq(PageId) /\ IsInjective(reUsablePageList')
        /\ Range(reUsablePageList') = Range(reUsablePageList) \cup {p}
    BY <1>3, <2>1, AppendFacts DEF IInv, IdsOK
  <2>3. \A q \in Range(reUsablePageList) : q \in PageId
    BY DEF IInv, IdsOK, Range
  <2> QED BY <1>3, <1>4, <2>1, <2>2, <2>3 DEF IInv, IdsOK
<1>14. DiskOK'
  <2> SUFFICES ASSUME NEW q \in live' PROVE PageSafe(q)'
    BY DEF DiskOK
  <2>0. q \in PageId /\ q \in live /\ q # p
    BY <1>3 DEF IInv, Types
  <2>1. \A u \in Holders(q) : u \in Thread /\ u # t
    BY <1>0, <2>0 DEF Holders, Holds
  <2>2. \A u \in Holders(q) : thread'[u] = thread[u]
    BY <1>1, <2>1 DEF Become, IInv, Types
  <2> QED BY <1>3, <1>4, <1>10, <2>0, <2>2 DEF PageSafe, OnDisk, IInv, DiskOK
<1> QED BY <1>5, <1>6, <1>7, <1>8, <1>9, <1>11, <1>12, <1>13, <1>14 DEF IInv

(***************************************************************************)
(* Throwing out a page and installing another one.                         *)
(***************************************************************************)
\* Frame f now has page p, which thread t has pinned; the page that was in it is
\* nowhere but on disk.
Installed(t, f, p) ==
  /\ \A q \in PageId : pageTable'[q] = IF q = p THEN f ELSE IF pageTable[q] = f THEN NoFrame ELSE pageTable[q]
  /\ \A g \in Frame : g # f => pages'[g] = pages[g]
  /\ \A q \in PageId : disk'[q] = IF pageTable[q] = f /\ NeedsWrite(pages[f]) THEN pages[f].data ELSE disk[q]
  /\ \A u \in Thread : thread[u].st # "flushing" /\ u # t => thread'[u] = thread[u]
  /\ \A q \in PageId : Holders(q)' = IF q = p THEN {t} ELSE Holders(q)

LEMMA ThrownOut ==
  ASSUME IInv, NEW f \in Frame, pages[f] # NoPage => pages[f].pin = 0
  PROVE  /\ Unmapped(f) \in [PageId -> Frame \cup {NoFrame}]
         /\ \A q \in PageId : Unmapped(f)[q] = IF pageTable[q] = f THEN NoFrame ELSE pageTable[q]
         /\ WrittenOut(f) \in [PageId -> Value \cup {Unwritten}]
         /\ \A q \in PageId : WrittenOut(f)[q] =
              IF pageTable[q] = f /\ NeedsWrite(pages[f]) THEN pages[f].data ELSE disk[q]
<1>1. /\ pages[f] # NoPage => pages[f] \in PageRec /\ pageTable[pages[f].id] = f
      /\ \A p \in PageId : pageTable[p] = f <=> pages[f] # NoPage /\ p = pages[f].id
  BY UnpinnedFacts
<1>2. pages[f] # NoPage => pages[f].id \in PageId /\ pages[f].data \in Value
  BY <1>1, PageFields
<1>3. CASE pages[f] = NoPage
  BY <1>1, <1>3 DEF Unmapped, WrittenOut, NeedsWrite, IInv, Types
<1>4. CASE pages[f] # NoPage
  <2>1. /\ Unmapped(f) \in [PageId -> Frame \cup {NoFrame}]
        /\ \A q \in PageId : Unmapped(f)[q] = IF pageTable[q] = f THEN NoFrame ELSE pageTable[q]
    BY <1>1, <1>2, <1>4 DEF Unmapped, IInv, Types
  <2>2. CASE NeedsWrite(pages[f])
    BY <1>1, <1>2, <1>4, <2>1, <2>2 DEF WrittenOut, IInv, Types
  <2>3. CASE ~NeedsWrite(pages[f])
    BY <2>1, <2>3 DEF WrittenOut, IInv, Types
  <2> QED BY <2>2, <2>3
<1> QED BY <1>3, <1>4

LEMMA GivenBackFacts ==
  ASSUME IInv, NEW f \in Frame, pages[f] # NoPage => pages[f].pin = 0
  PROVE  /\ GivenBack(f) \in Seq(PageId) /\ IsInjective(GivenBack(f))
         /\ GivenBack(f) = <<>> => reUsablePageList = <<>>
         /\ \A q \in Range(GivenBack(f)) :
              q \in PageId /\ q < nextPageID /\ q \notin live /\ (pageTable[q] = NoFrame \/ pageTable[q] = f)
<1>0. \A q \in Range(reUsablePageList) : q \in PageId
  BY DEF IInv, IdsOK, Range
<1>1. CASE pages[f] # NoPage /\ pages[f].dealloc
  <2> DEFINE p == pages[f].id
  <2>1. p \in PageId /\ pageTable[p] = f
    BY <1>1, UnpinnedFacts, PageFields
  <2>2. p \notin live
    BY <1>1, <2>1, FrameFacts DEF IInv, DiskOK, PageSafe
  <2>3. p \notin Range(reUsablePageList) /\ p < nextPageID
    BY <2>1, FrameFacts DEF IInv, IdsOK
  <2>4. GivenBack(f) = Append(reUsablePageList, p)
    BY <1>1 DEF GivenBack
  <2> HIDE DEF p
  <2>5. /\ GivenBack(f) \in Seq(PageId) /\ IsInjective(GivenBack(f)) /\ GivenBack(f) # <<>>
        /\ Range(GivenBack(f)) = Range(reUsablePageList) \cup {p}
    BY <2>1, <2>3, <2>4, AppendFacts DEF IInv, IdsOK
  <2> QED BY <1>0, <2>1, <2>2, <2>3, <2>5 DEF IInv, IdsOK
<1>2. CASE ~(pages[f] # NoPage /\ pages[f].dealloc)
  BY <1>0, <1>2 DEF GivenBack, IInv, IdsOK
<1> QED BY <1>1, <1>2

LEMMA InstallKeeps ==
  ASSUME IInv, NEW t \in Thread, NEW f \in Frame, NEW p \in PageId, NEW v \in Value,
         f = thread[t].frame, thread[t].st = "frame", MayThrowOut(f),
         disk' = WrittenOut(f), Install(t, f, p, Page(p, v)),
         pageTable[p] = NoFrame \/ pageTable[p] = f,
         nextPageID' \in 1..(MaxPageId + 1), live' \subseteq PageId
  PROVE  /\ Types' /\ ListOK' /\ FreeOK' /\ ThreadsOK' /\ MapOK' /\ StaleIsPinned' /\ PinsOK' /\ FramesOK'
         /\ Installed(t, f, p)
         /\ IsPage(pages'[f], p, 1, FALSE, FALSE, v)
         /\ thread'[t].dirty = (thread[t].id = NoId)
<1> DEFINE pg == Page(p, v)
           th == AfterThrowOut(f)
           s == [Idle EXCEPT !.st = "pinned", !.id = p, !.frame = f, !.dirty = thread[t].id = NoId]
<1>1. /\ pages' = [pages EXCEPT ![f] = pg] /\ pageTable' = [Unmapped(f) EXCEPT ![p] = f]
      /\ thread' = [th EXCEPT ![t] = s] /\ mutex' = {} /\ UNCHANGED <<freeList, cList, clockHand>>
  BY DEF Install
<1>2. IsPage(pg, p, 1, FALSE, FALSE, v)
  BY DEF Page, IsPage, PageRec
<1>3. /\ s \in ThreadState /\ s.st = "pinned" /\ s.id = p /\ s.frame = f
      /\ s.dirty = (thread[t].id = NoId)
  BY DEF Idle, ThreadState
<1>4. /\ OwnsFrame(thread[t]) /\ mutex = {t}
      /\ pages[f] # NoPage => pages[f].pin = 0
      /\ "flush" \in Races \/ ~\E u \in Thread : thread[u].st = "flushing" /\ thread[u].frame = f
  BY DEF IInv, ThreadsOK, MayThrowOut, Types
<1>5. /\ Unmapped(f) \in [PageId -> Frame \cup {NoFrame}]
      /\ \A q \in PageId : Unmapped(f)[q] = IF pageTable[q] = f THEN NoFrame ELSE pageTable[q]
      /\ disk' \in [PageId -> Value \cup {Unwritten}]
      /\ \A q \in PageId : disk'[q] = IF pageTable[q] = f /\ NeedsWrite(pages[f]) THEN pages[f].data ELSE disk[q]
  BY <1>4, ThrownOut
<1>6. \A q \in PageId : pageTable'[q] = IF q = p THEN f ELSE IF pageTable[q] = f THEN NoFrame ELSE pageTable[q]
  BY <1>1, <1>5
<1>7. th \in [Thread -> ThreadState]
      /\ \A u \in Thread : th[u] = IF thread[u].st = "flushing" /\ thread[u].frame = f
                                   THEN [thread[u] EXCEPT !.frame = NoFrame] ELSE thread[u]
  <2>1. \A u \in Thread : thread[u] \in ThreadState /\ [thread[u] EXCEPT !.frame = NoFrame] \in ThreadState
    BY DEF IInv, Types, ThreadState
  <2> QED BY <2>1 DEF AfterThrowOut
<1>8. \A u \in Thread : thread[u].st = "flushing" /\ thread[u].frame = f =>
         th[u].st = "flushing" /\ th[u].frame = NoFrame /\ th[u].id = thread[u].id
  <2> SUFFICES ASSUME NEW u \in Thread, thread[u].st = "flushing" /\ thread[u].frame = f
               PROVE  th[u].st = "flushing" /\ th[u].frame = NoFrame /\ th[u].id = thread[u].id
    OBVIOUS
  <2>1. th[u] = [thread[u] EXCEPT !.frame = NoFrame] /\ thread[u] \in ThreadState
    BY <1>7 DEF IInv, Types
  <2> QED BY <2>1 DEF ThreadState
<1> HIDE DEF pg, th, s
<1>9. thread'[t] = s /\ thread' \in [Thread -> ThreadState] /\ \A u \in Thread : u # t => thread'[u] = th[u]
  BY <1>1, <1>3, <1>7
<1>10. FrameSet(f, pg)
  BY <1>1, <1>2, FrameChange DEF IInv, IsPage
<1>11. Types'
  BY <1>1, <1>5, <1>9, <1>10 DEF IInv, Types, FrameSet
<1>12. ListOK' /\ FreeOK'
  BY <1>1 DEF IInv, ListOK, FreeOK, InList
<1>13. \A q \in PageId : pageTable[q] = NoFrame \/ pageTable[q] = f => Holders(q) = {}
  BY <1>4, UnpinnedFacts, NotMappedNotHeld
<1>14. \A q \in PageId : Holders(q)' = IF q = p THEN {t} ELSE Holders(q)
  <2> SUFFICES ASSUME NEW q \in PageId, NEW u \in Thread
               PROVE  Holds(u, q)' <=> IF q = p THEN u = t ELSE Holds(u, q)
    BY DEF Holders
  <2>1. CASE u = t
    <3>1. Holds(u, q)' <=> q = p
      BY <1>3, <1>9, <2>1 DEF Holds
    <3> QED BY <2>1, <3>1 DEF Holds
  <2>2. CASE u # t
    <3>1. Holds(u, q)' <=> Holds(u, q)
      BY <1>7, <1>8, <1>9, <2>2 DEF Holds
    <3>2. ~Holds(u, p)
      BY <1>13 DEF Holders
    <3> QED BY <2>2, <3>1, <3>2
  <2> QED BY <2>1, <2>2
<1>15. ThreadsOK'
  <2>1. ASSUME NEW u \in Thread
        PROVE  PinnedHere(thread[u])' /\ FlushesHere(thread[u])'
    <3>1. CASE u = t
      BY <1>3, <1>6, <1>9, <3>1 DEF PinnedHere, FlushesHere
    <3>2. CASE u # t /\ thread[u].st \in {"pinned", "latched"}
      <4>1. thread'[u] = thread[u]
        BY <1>7, <1>9, <3>2
      <4>2. /\ thread[u].id \in PageId /\ pageTable[thread[u].id] = thread[u].frame
            /\ u \in Holders(thread[u].id)
        BY <3>2, HeldFacts
      <4>3. thread[u].id # p /\ pageTable[thread[u].id] # f
        BY <1>13, <4>2
      <4> QED BY <1>6, <3>2, <4>1, <4>2, <4>3 DEF PinnedHere, FlushesHere
    <3>3. CASE u # t /\ thread[u].st = "flushing"
      <4>1. FlushesHere(thread[u])
        BY DEF IInv, ThreadsOK
      <4>2. CASE thread[u].frame = f
        BY <1>4, <1>8, <1>9, <3>3, <4>1, <4>2 DEF PinnedHere, FlushesHere
      <4>3. CASE thread[u].frame # f
        <5>1. thread'[u] = thread[u]
          BY <1>7, <1>9, <3>3, <4>3
        <5>2. CASE thread[u].frame \in Frame /\ pageTable[thread[u].id] = thread[u].frame
          <6>1. thread[u].id # p /\ thread[u].frame # NoFrame /\ thread[u].id \in PageId
            BY <3>3, <4>1, <4>3, <5>2, FrameFacts DEF FlushesHere
          <6> QED BY <1>6, <3>3, <4>3, <5>1, <5>2, <6>1 DEF PinnedHere, FlushesHere
        <5>3. CASE "flush" \in Races /\ thread[u].frame = NoFrame
          BY <3>3, <4>1, <5>1, <5>3 DEF PinnedHere, FlushesHere
        <5> QED BY <3>3, <4>1, <5>2, <5>3 DEF FlushesHere
      <4> QED BY <4>2, <4>3
    <3>4. CASE u # t /\ thread[u].st \notin {"pinned", "latched", "flushing"}
      BY <1>7, <1>9, <3>4 DEF PinnedHere, FlushesHere
    <3> QED BY <3>1, <3>2, <3>3, <3>4
  <2>2. ASSUME NEW u \in Thread
        PROVE  /\ thread'[u].st \in {"pinned", "latched", "unpinned", "flushing"} => thread'[u].id \in PageId
               /\ thread'[u].st \in {"pinned", "latched", "unpinned"} => thread'[u].frame \in Frame
               /\ thread'[u].st # "frame"
    <3>1. CASE u = t
      BY <1>3, <1>9, <3>1
    <3>2. CASE u # t /\ thread[u].st = "flushing" /\ thread[u].frame = f
      BY <1>8, <1>9, <3>2 DEF IInv, ThreadsOK
    <3>3. CASE u # t /\ ~(thread[u].st = "flushing" /\ thread[u].frame = f)
      <4>1. thread'[u] = thread[u] /\ thread[u].st # "frame"
        BY <1>4, <1>7, <1>9, <3>3 DEF IInv, ThreadsOK
      <4> QED BY <4>1 DEF IInv, ThreadsOK
    <3> QED BY <3>1, <3>2, <3>3
  <2> QED BY <1>1, <2>1, <2>2 DEF ThreadsOK
<1>16. MapOK'
  <2> SUFFICES ASSUME NEW q \in PageId, pageTable'[q] # NoFrame PROVE pages'[pageTable'[q]].id = q
    BY DEF MapOK
  <2>1. CASE q = p
    BY <1>2, <1>6, <1>10, <2>1 DEF FrameSet, IsPage
  <2>2. CASE q # p
    <3>1. pageTable'[q] = pageTable[q] /\ pageTable[q] # f /\ pageTable[q] # NoFrame
      BY <1>6, <2>2
    <3>2. pageTable[q] \in Frame /\ pages[pageTable[q]].id = q
      BY <3>1, MappedFacts
    <3> QED BY <1>10, <3>1, <3>2 DEF FrameSet
  <2> QED BY <2>1, <2>2
<1>17. StaleIsPinned'
  <2> SUFFICES ASSUME NEW g \in Frame, pages'[g] # NoPage, pageTable'[pages'[g].id] # g PROVE pages'[g].pin > 0
    BY DEF StaleIsPinned
  <2>1. g # f
    BY <1>2, <1>6, <1>10 DEF FrameSet, IsPage
  <2>2. pages'[g] = pages[g]
    BY <1>10, <2>1 DEF FrameSet
  <2>3. pages[g].id \in PageId
    BY <2>2, PageFields DEF IInv, Types
  <2>4. pageTable[pages[g].id] # g
    BY <1>6, <2>1, <2>2, <2>3, FrameFacts
  <2> QED BY <2>2, <2>4 DEF IInv, StaleIsPinned
<1>18. PinsOK'
  <2> SUFFICES ASSUME NEW q \in PageId
               PROVE  /\ IsFiniteSet(Holders(q)')
                      /\ pageTable'[q] # NoFrame => pages'[pageTable'[q]].pin = Cardinality(Holders(q)')
    BY DEF PinsOK
  <2>1. CASE q = p
    <3>1. IsFiniteSet({t}) /\ Cardinality({t}) = 1
      BY FS_Singleton
    <3> QED BY <1>2, <1>6, <1>10, <1>14, <2>1, <3>1 DEF FrameSet, IsPage
  <2>2. CASE q # p
    <3>1. pageTable'[q] # NoFrame => pageTable'[q] = pageTable[q] /\ pageTable[q] # f /\ pageTable[q] # NoFrame
      BY <1>6, <2>2
    <3>2. pageTable'[q] # NoFrame => pages'[pageTable'[q]] = pages[pageTable[q]]
      BY <1>10, <3>1, MappedFacts DEF FrameSet
    <3> QED BY <1>14, <2>2, <3>1, <3>2 DEF IInv, PinsOK
  <2> QED BY <2>1, <2>2
<1>19. FramesOK'
  <2> SUFFICES ASSUME NEW g \in Frame
               PROVE  /\ Free(g) => pages'[g] = NoPage
                      /\ InList(g) => pages'[g] # NoPage /\ pages'[g].pin = 0
                      /\ Free(g) \/ InList(g) \/ Taken(g)' \/ Pinned(g)'
    BY <1>1 DEF FramesOK, Free, InList
  <2>1. CASE g = f
    <3>1. ~Free(f) /\ ~InList(f)
      BY <1>4 DEF OwnsFrame
    <3>2. pages'[f] # NoPage /\ pages'[f].pin > 0
      BY <1>2, <1>10, PageFields DEF FrameSet, IsPage
    <3> QED BY <2>1, <3>1, <3>2 DEF Pinned
  <2>2. CASE g # f
    <3>1. pages'[g] = pages[g] /\ ~Taken(g)
      BY <1>4, <1>10, <2>2 DEF FrameSet, Taken
    <3> QED BY <3>1 DEF IInv, FramesOK, Pinned
  <2> QED BY <2>1, <2>2
<1>20. \A u \in Thread : thread[u].st # "flushing" /\ u # t => thread'[u] = thread[u]
  BY <1>7, <1>9
<1>21. Installed(t, f, p)
  BY <1>5, <1>6, <1>10, <1>14, <1>20 DEF Installed, FrameSet
<1> QED BY <1>2, <1>3, <1>9, <1>10, <1>11, <1>12, <1>15, <1>16, <1>17, <1>18, <1>19, <1>21 DEF FrameSet

\* The pages that were in use before stay safe.
LEMMA InstalledDisk ==
  ASSUME IInv, NEW t \in Thread, NEW f \in Frame, NEW p \in PageId, Installed(t, f, p), MayThrowOut(f),
         NEW q \in live, q # p
  PROVE  PageSafe(q)'
<1>0. q \in PageId /\ PageSafe(q)
  BY DEF IInv, Types, DiskOK
<1>1. CASE pageTable[q] = f
  <2>1. pages[f] # NoPage /\ pages[f] \in PageRec /\ Holders(q) = {} /\ f # NoFrame
    BY <1>0, <1>1, UnpinnedFacts, FrameFacts DEF MayThrowOut
  <2>2. pages[f].data \in Value
    BY <2>1, PageFields
  <2>3. disk'[q] # Unwritten
    <3>1. CASE NeedsWrite(pages[f])
      BY <1>0, <1>1, <2>2, <3>1, BufferPoolAssumption DEF Installed
    <3>2. CASE ~NeedsWrite(pages[f])
      BY <1>0, <1>1, <2>1, <3>2 DEF Installed, NeedsWrite, PageSafe, OnDisk
    <3> QED BY <3>1, <3>2
  <2> QED BY <1>0, <1>1, <2>3 DEF Installed, PageSafe
<1>2. CASE pageTable[q] # f
  <2>1. pageTable'[q] = pageTable[q] /\ disk'[q] = disk[q] /\ Holders(q)' = Holders(q)
    BY <1>0, <1>2 DEF Installed
  <2>2. CASE pageTable[q] = NoFrame
    BY <1>0, <2>1, <2>2 DEF PageSafe
  <2>3. CASE pageTable[q] # NoFrame
    <3>1. pages'[pageTable[q]] = pages[pageTable[q]]
      BY <1>0, <1>2, <2>3, MappedFacts DEF Installed
    <3>2. \A u \in Holders(q) : u = t \/ thread'[u] = thread[u]
      BY DEF Holders, Holds, Installed
    <3>3. Holders(q) = Holders(q)' /\ t \notin Holders(q)
      <4>1. Holders(p)' = {t}
        BY DEF Installed
      <4>2. Holds(t, p)'
        BY <4>1 DEF Holders
      <4>3. thread'[t].id = p
        BY <4>2 DEF Holds
      <4>4. t \notin Holders(q)'
        BY <4>3 DEF Holders, Holds
      <4> QED BY <2>1, <4>4
    <3> QED BY <1>0, <2>1, <2>3, <3>1, <3>2, <3>3 DEF PageSafe, OnDisk
  <2> QED BY <2>2, <2>3
<1> QED BY <1>1, <1>2

LEMMA ReadPageKeeps ==
  ASSUME IInv, NEW t \in Thread, ReadPage(t)
  PROVE  /\ IInv'
         /\ \E f \in Frame, p \in PageId :
              Installed(t, f, p) /\ MayThrowOut(f) /\ p \in live /\ pageTable[p] = NoFrame /\ pages'[f].data = disk[p]
<1>1. t \in mutex /\ OwnsFrame(thread[t]) /\ thread[t].st = "frame" /\ thread[t].id # NoId
  BY DEF ReadPage, IInv, ThreadsOK
<1>2. PICK f \in Frame, p \in PageId : f = thread[t].frame /\ p = thread[t].id
  BY <1>1 DEF OwnsFrame, IInv, Types
<1>3. p \in live /\ pageTable[p] = NoFrame
  BY <1>1, <1>2 DEF OwnsFrame
<1>4. /\ MayThrowOut(f) /\ disk' = WrittenOut(f) /\ disk'[p] # Unwritten
      /\ Install(t, f, p, Page(p, disk'[p]))
      /\ reUsablePageList' = GivenBack(f) /\ UNCHANGED <<nextPageID, live>>
  BY <1>2 DEF ReadPage
<1>5. disk'[p] \in Value
  <2>1. WrittenOut(f) \in [PageId -> Value \cup {Unwritten}]
    BY <1>4, ThrownOut DEF MayThrowOut
  <2> QED BY <1>4, <2>1
<1>6. PICK v \in Value : v = disk'[p]
  BY <1>5
<1>7. /\ Types' /\ ListOK' /\ FreeOK' /\ ThreadsOK' /\ MapOK' /\ StaleIsPinned' /\ PinsOK' /\ FramesOK'
      /\ Installed(t, f, p) /\ IsPage(pages'[f], p, 1, FALSE, FALSE, v)
  <2>1. nextPageID' \in 1..(MaxPageId + 1) /\ live' \subseteq PageId
    BY <1>4 DEF IInv, Types
  <2>2. Install(t, f, p, Page(p, v))
    BY <1>4, <1>6
  <2> QED BY <1>1, <1>2, <1>3, <1>4, <2>1, <2>2, InstallKeeps
<1>8. IdsOK'
  <2>1. /\ GivenBack(f) \in Seq(PageId) /\ IsInjective(GivenBack(f))
        /\ \A q \in Range(GivenBack(f)) :
             q \in PageId /\ q < nextPageID /\ q \notin live /\ (pageTable[q] = NoFrame \/ pageTable[q] = f)
    BY <1>4, GivenBackFacts DEF MayThrowOut
  <2>2. \A q \in Range(GivenBack(f)) : pageTable'[q] = NoFrame
    BY <1>3, <1>7, <2>1 DEF Installed
  <2>3. \A q \in PageId : q \in live' \/ pageTable'[q] # NoFrame => q < nextPageID
    BY <1>3, <1>4, <1>7 DEF Installed, IInv, IdsOK
  <2> QED BY <1>4, <2>1, <2>2, <2>3 DEF IdsOK
<1>9. DiskOK'
  <2> SUFFICES ASSUME NEW q \in live' PROVE PageSafe(q)'
    BY DEF DiskOK
  <2>1. CASE q = p
    <3>1. pageTable'[p] = f
      BY <1>7 DEF Installed
    <3> QED BY <1>4, <1>6, <1>7, <2>1, <3>1 DEF PageSafe, OnDisk, IsPage
  <2>2. CASE q # p
    BY <1>4, <1>7, <2>2, InstalledDisk
  <2> QED BY <2>1, <2>2
<1>10. disk'[p] = disk[p]
  BY <1>3, <1>7, FrameFacts DEF Installed
<1>11. IInv'
  BY <1>7, <1>8, <1>9 DEF IInv
<1> QED BY <1>3, <1>4, <1>6, <1>7, <1>10, <1>11 DEF IsPage

LEMMA InstallNewKeeps ==
  ASSUME IInv, NEW t \in Thread, InstallNew(t)
  PROVE  /\ IInv'
         /\ \E f \in Frame, p \in PageId : Installed(t, f, p) /\ MayThrowOut(f) /\ p \notin live
<1>1. t \in mutex /\ OwnsFrame(thread[t]) /\ thread[t].st = "frame" /\ thread[t].id = NoId
  BY DEF InstallNew, IInv, ThreadsOK
<1>2. PICK f \in Frame : f = thread[t].frame
  BY <1>1 DEF OwnsFrame
<1> DEFINE ids == GivenBack(f)
<1>3. /\ MayThrowOut(f) /\ disk' = WrittenOut(f)
      /\ \/ /\ ids # <<>>
            /\ Install(t, f, Head(ids), Page(Head(ids), Zero))
            /\ reUsablePageList' = Tail(ids)
            /\ live' = live \cup {Head(ids)}
            /\ UNCHANGED nextPageID
         \/ /\ ids = <<>>
            /\ Install(t, f, nextPageID, Page(nextPageID, Zero))
            /\ nextPageID' = nextPageID + 1
            /\ live' = live \cup {nextPageID}
            /\ UNCHANGED reUsablePageList
  BY <1>2 DEF InstallNew
<1>4. /\ ids \in Seq(PageId) /\ IsInjective(ids) /\ (ids = <<>> => reUsablePageList = <<>>)
      /\ \A q \in Range(ids) :
           q \in PageId /\ q < nextPageID /\ q \notin live /\ (pageTable[q] = NoFrame \/ pageTable[q] = f)
  BY <1>3, GivenBackFacts DEF MayThrowOut
<1> HIDE DEF ids
<1>5. PICK p \in PageId :
        /\ Install(t, f, p, Page(p, Zero)) /\ live' = live \cup {p} /\ p \notin live
        /\ pageTable[p] = NoFrame \/ pageTable[p] = f
        /\ p < nextPageID' /\ nextPageID <= nextPageID' /\ nextPageID' \in 1..(MaxPageId + 1)
        /\ reUsablePageList' \in Seq(PageId) /\ IsInjective(reUsablePageList')
        /\ \A q \in Range(reUsablePageList') :
             /\ q \in PageId /\ q < nextPageID /\ q \notin live /\ q # p
             /\ pageTable[q] = NoFrame \/ pageTable[q] = f
  <2>1. CASE ids # <<>> /\ Install(t, f, Head(ids), Page(Head(ids), Zero)) /\ reUsablePageList' = Tail(ids)
             /\ live' = live \cup {Head(ids)} /\ UNCHANGED nextPageID
    <3>1. /\ Head(ids) \in PageId /\ Tail(ids) \in Seq(PageId) /\ IsInjective(Tail(ids))
          /\ Head(ids) \in Range(ids) /\ Range(Tail(ids)) = Range(ids) \ {Head(ids)}
      BY <1>4, <2>1, TailFacts
    <3>2. nextPageID \in Nat /\ nextPageID \in 1..(MaxPageId + 1)
      BY BufferPoolAssumption DEF IInv, Types
    <3> QED BY <1>4, <2>1, <3>1, <3>2
  <2>2. CASE ids = <<>> /\ Install(t, f, nextPageID, Page(nextPageID, Zero)) /\ nextPageID' = nextPageID + 1
             /\ live' = live \cup {nextPageID} /\ UNCHANGED reUsablePageList
    <3>1. nextPageID <= MaxPageId
      BY <1>1, <1>4, <2>2 DEF OwnsFrame
    <3>2. nextPageID \in PageId /\ nextPageID + 1 \in 1..(MaxPageId + 1) /\ nextPageID \in Nat
      BY <3>1, BufferPoolAssumption DEF IInv, Types, PageId
    <3>3. nextPageID \notin live /\ pageTable[nextPageID] = NoFrame
      BY <3>2 DEF IInv, IdsOK
    <3>4. reUsablePageList = <<>> /\ Range(reUsablePageList) = {}
      BY <1>4, <2>2 DEF Range
    <3>5. reUsablePageList' \in Seq(PageId) /\ IsInjective(reUsablePageList') /\ Range(reUsablePageList') = {}
      BY <2>2, <3>4 DEF IInv, IdsOK
    <3> QED BY <2>2, <3>2, <3>3, <3>5
  <2> QED BY <1>3, <2>1, <2>2
<1>6. /\ Types' /\ ListOK' /\ FreeOK' /\ ThreadsOK' /\ MapOK' /\ StaleIsPinned' /\ PinsOK' /\ FramesOK'
      /\ Installed(t, f, p) /\ IsPage(pages'[f], p, 1, FALSE, FALSE, Zero)
      /\ thread'[t].dirty = (thread[t].id = NoId)
  <2>1. live' \subseteq PageId /\ Zero \in Value
    BY <1>5, BufferPoolAssumption DEF IInv, Types
  <2> QED BY <1>1, <1>2, <1>3, <1>5, <2>1, InstallKeeps
<1>7. IdsOK'
  <2>1. \A q \in Range(reUsablePageList') : pageTable'[q] = NoFrame
    BY <1>5, <1>6 DEF Installed
  <2>2. nextPageID \in Nat /\ nextPageID' \in Nat
    BY <1>5, BufferPoolAssumption DEF IInv, Types
  <2>3. ASSUME NEW q \in PageId, q \in live' \/ pageTable'[q] # NoFrame PROVE q < nextPageID'
    <3>1. CASE q = p
      BY <1>5, <3>1
    <3>2. CASE q # p
      <4>1. q \in live \/ pageTable[q] # NoFrame
        BY <1>5, <1>6, <2>3, <3>2 DEF Installed
      <4>2. q < nextPageID /\ q \in Nat
        BY <4>1, FrameFacts DEF IInv, IdsOK
      <4> QED BY <1>5, <2>2, <4>2
    <3> QED BY <3>1, <3>2
  <2>4. \A q \in Range(reUsablePageList') : q < nextPageID' /\ q \notin live'
    <3>1. \A q \in Range(reUsablePageList') : q \in Nat
      BY <1>5, FrameFacts
    <3> QED BY <1>5, <2>2, <3>1
  <2> QED BY <1>5, <2>1, <2>3, <2>4 DEF IdsOK
<1>8. DiskOK'
  <2> SUFFICES ASSUME NEW q \in live' PROVE PageSafe(q)'
    BY DEF DiskOK
  <2>1. CASE q = p
    <3>1. pageTable'[p] = f /\ t \in Holders(p)' /\ thread'[t].dirty
      BY <1>1, <1>6 DEF Installed
    <3>2. f # NoFrame /\ ~pages'[f].dealloc
      BY <1>6, FrameFacts DEF IsPage
    <3>3. \E u \in Holders(p)' : thread'[u].dirty
      BY <3>1
    <3> QED BY <2>1, <3>1, <3>2, <3>3 DEF PageSafe
  <2>2. CASE q # p
    BY <1>3, <1>5, <1>6, <2>2, InstalledDisk
  <2> QED BY <2>1, <2>2
<1> QED BY <1>3, <1>5, <1>6, <1>7, <1>8 DEF IInv

-----------------------------------------------------------------------------
(***************************************************************************)
(* The theorems.                                                           *)
(***************************************************************************)
LEMMA NextKeeps ==
  ASSUME IInv, "reuse" \notin Races, [Next]_vars
  PROVE  IInv'
<1>1. ASSUME NEW t \in Thread, Obtain(t) PROVE IInv'
  <2>1. CASE \E p \in PageId : FetchHit(t, p)
    BY <2>1, FetchHitKeeps
  <2>2. CASE \E p \in PageId : FetchMiss(t, p)
    BY <2>2, ObtainFrameKeeps
  <2>3. CASE NewPage(t)
    BY <2>3, ObtainFrameKeeps
  <2>4. CASE ReadPage(t)
    BY <2>4, ReadPageKeeps
  <2>5. CASE InstallNew(t)
    BY <2>5, InstallNewKeeps
  <2> QED BY <1>1, <2>1, <2>2, <2>3, <2>4, <2>5 DEF Obtain
<1>2. ASSUME NEW t \in Thread, Use(t) PROVE IInv'
  <2>1. CASE \E mode \in {"R", "W"} : Latch(t, mode)
    BY <2>1, LatchKeeps
  <2>2. CASE \E v \in Value : Write(t, v)
    BY <2>2, WriteKeeps
  <2>3. CASE SetIsDeallocated(t)
    BY <2>3, SetIsDeallocatedKeeps
  <2>4. CASE UnpinLatched(t) \/ UnpinUnlatched(t)
    BY <2>4, UnpinsKeep
  <2>5. CASE Unlatch(t)
    BY <2>5, UnlatchKeeps
  <2> QED BY <1>2, <2>1, <2>2, <2>3, <2>4, <2>5 DEF Use
<1>3. ASSUME NEW t \in Thread, FlushWrite(t) \/ DropLastTmpPage(t) PROVE IInv'
  BY <1>3, FlushWriteKeeps, DropLastTmpPageKeeps
<1>4. ASSUME NEW t \in Thread, NEW p \in PageId, FlushPage(t, p) PROVE IInv'
  BY <1>4, FlushPageKeeps
<1>5. ASSUME NEW p \in PageId, DropTmpPage(p) PROVE IInv'
  BY <1>5, DropTmpPageKeeps
<1>6. CASE FlushAllDirtyPages
  BY <1>6, FlushAllKeeps
<1>7. CASE UNCHANGED vars
  <2>1. UNCHANGED <<pageTable, pages, freeList, reUsablePageList, cList, clockHand, mutex, nextPageID, disk, thread, live>>
    BY <1>7 DEF vars, poolVars
  <2>2. Types' /\ ListOK' /\ FreeOK' /\ ThreadsOK' /\ MapOK' /\ StaleIsPinned'
    BY <2>1 DEF IInv, Types, ListOK, InList, FreeOK, ThreadsOK, PinnedHere, FlushesHere, OwnsFrame, Free,
                MapOK, StaleIsPinned
  <2>3. \A p : Holders(p)' = Holders(p)
    BY <2>1 DEF Holders, Holds
  <2>4. PinsOK' /\ FramesOK' /\ IdsOK' /\ DiskOK'
    BY <2>1, <2>3 DEF IInv, PinsOK, FramesOK, Free, InList, Taken, Pinned, IdsOK, DiskOK, PageSafe, OnDisk
  <2> QED BY <2>2, <2>4 DEF IInv
<1> QED BY <1>1, <1>2, <1>3, <1>4, <1>5, <1>6, <1>7 DEF Next

\* The invariant holds in every reachable state of the pool, whatever threads
\* fetch, create, write, flush, throw out and give back, if a hash join drops
\* only pages that are no longer in the pool (DeallocatePage).
THEOREM Invariance == ASSUME "reuse" \notin Races PROVE Spec => []IInv
<1>1. IInv /\ [Next]_vars => IInv'
  BY NextKeeps
<1> QED BY <1>1, InitEstablishes, PTL DEF Spec

\* Frames, the page table and the threads are well formed in every reachable
\* state (the fields of BufferPoolManager).
THEOREM TypeCorrect == ASSUME "reuse" \notin Races PROVE Spec => []TypeOK
<1>1. IInv => TypeOK
  <2> SUFFICES ASSUME IInv PROVE TypeOK
    OBVIOUS
  <2>1. \A f \in Frame : pages[f] # NoPage =>
          pages[f].id \in PageId /\ pages[f].pin \in Nat /\ pages[f].data \in Value
    BY PageFields DEF IInv, Types
  <2>2. Range(freeList) \subseteq Frame /\ Range(cList) \subseteq Frame
    BY DEF IInv, FreeOK, ListOK, Range
  <2> QED BY <2>1, <2>2 DEF IInv, Types, ListOK, TypeOK
<1> QED BY <1>1, Invariance, PTL

LEMMA ExactlyOne ==
  ASSUME NEW a \in BOOLEAN, NEW b \in BOOLEAN, NEW c \in BOOLEAN, NEW d \in BOOLEAN,
         a \/ b \/ c \/ d, ~(a /\ b), ~(a /\ c), ~(a /\ d), ~(b /\ c), ~(b /\ d), ~(c /\ d)
  PROVE  Cardinality({k \in 1..4 : <<a, b, c, d>>[k]}) = 1
<1> DEFINE S == {k \in 1..4 : <<a, b, c, d>>[k]}
<1>1. \A k \in 1..4 : <<a, b, c, d>>[k] <=> (k = 1 /\ a) \/ (k = 2 /\ b) \/ (k = 3 /\ c) \/ (k = 4 /\ d)
  OBVIOUS
<1>2. \A k : k \in S <=> (k = 1 /\ a) \/ (k = 2 /\ b) \/ (k = 3 /\ c) \/ (k = 4 /\ d)
  BY <1>1
<1> HIDE DEF S
<1>3. PICK k \in 1..4 : S = {k}
  <2>1. CASE a
    <3>1. S = {1}
      BY <1>2, <2>1
    <3> QED BY <3>1
  <2>2. CASE b
    <3>1. S = {2}
      BY <1>2, <2>2
    <3> QED BY <3>1
  <2>3. CASE c
    <3>1. S = {3}
      BY <1>2, <2>3
    <3> QED BY <3>1
  <2>4. CASE d
    <3>1. S = {4}
      BY <1>2, <2>4
    <3> QED BY <3>1
  <2> QED BY <2>1, <2>2, <2>3, <2>4
<1> QED BY <1>3, FS_Singleton DEF S

\* The free list, the replacer with its clock hand, the page table, the pins and
\* what the threads hold agree in every reachable state: no frame is lost or
\* given to two pages, and a page is pinned as often as threads hold it
\* (FetchPage, NewPage, UnpinPage, DeallocatePage, Victim, Pin, Unpin).
THEOREM PoolIsConsistent == ASSUME "reuse" \notin Races PROVE Spec => []PoolConsistent
<1>1. IInv => PoolConsistent
  <2> SUFFICES ASSUME IInv PROVE PoolConsistent
    OBVIOUS
  <2>1. ASSUME NEW f \in Frame
        PROVE  Cardinality({k \in 1..4 : <<Free(f), InList(f), Taken(f), Pinned(f)>>[k]}) = 1
    <3>1. Free(f) \in BOOLEAN /\ InList(f) \in BOOLEAN /\ Taken(f) \in BOOLEAN /\ Pinned(f) \in BOOLEAN
      BY DEF Free, InList, Taken, Pinned
    <3>2. Free(f) \/ InList(f) \/ Taken(f) \/ Pinned(f)
      BY DEF IInv, FramesOK
    <3>3. ~(Free(f) /\ InList(f)) /\ ~(Free(f) /\ Pinned(f)) /\ ~(InList(f) /\ Pinned(f))
      BY DEF IInv, FramesOK, Pinned
    <3>4. Taken(f) => ~Free(f) /\ ~InList(f) /\ ~Pinned(f)
      BY DEF IInv, ThreadsOK, OwnsFrame, Taken, Pinned
    <3> QED BY <3>1, <3>2, <3>3, <3>4, ExactlyOne
  <2>2. FramesAccounted
    BY <2>1 DEF FramesAccounted, IInv, ListOK, MapOK
  <2>3. PinsAreHeld
    BY DEF PinsAreHeld, IInv, PinsOK, ThreadsOK, PinnedHere
  <2>4. HandOnList
    BY HandFacts DEF HandOnList, IInv
  <2> QED BY <2>2, <2>3, <2>4 DEF PoolConsistent
<1> QED BY <1>1, Invariance, PTL

\* The thread that waits inside the pool for the latch of its victim (the
\* WLatch before WritePage in FetchPage and NewPage) never waits for a thread
\* that still needs the mutex to unpin.
THEOREM WaitsInsideAreShort == ASSUME "reuse" \notin Races PROVE Spec => []NobodyWaitsInside
<1>1. IInv => NobodyWaitsInside
  <2> SUFFICES ASSUME IInv, NEW t \in mutex, NEW u \in LatchHolders(thread[t].frame, pages[thread[t].frame].id)
               PROVE  thread[u].st = "unpinned"
    BY DEF NobodyWaitsInside
  <2>1. u \in Thread /\ thread[u].st \in {"latched", "unpinned"} /\ thread[u].frame = thread[t].frame
    BY DEF LatchHolders
  <2>2. thread[u].st = "latched" => ~Taken(thread[u].frame)
    BY <2>1, HeldFacts
  <2> QED BY <2>1, <2>2 DEF Taken
<1> QED BY <1>1, Invariance, PTL

\* FetchPage never reads a page in use that was never written, which would
\* return nil with the mutex locked.
THEOREM LivePagesCanBeRead == ASSUME "reuse" \notin Races PROVE Spec => []LivePagesReadable
<1>1. IInv => LivePagesReadable
  BY DEF IInv, DiskOK, PageSafe, LivePagesReadable
<1> QED BY <1>1, Invariance, PTL

(***************************************************************************)
(* Contents.                                                               *)
(***************************************************************************)
LEMMA SameContents ==
  ASSUME IInv,
         \A p \in live \cap live' : pageTable'[p] = pageTable[p] /\ (pageTable[p] = NoFrame => disk'[p] = disk[p]),
         \A g \in Frame : pages[g] \in PageRec => pages'[g].data = pages[g].data,
         NEW p \in live \cap live'
  PROVE  Contents(p)' = Contents(p)
<1>1. p \in PageId
  BY DEF IInv, Types
<1>2. CASE pageTable[p] = NoFrame
  BY <1>2 DEF Contents
<1>3. CASE pageTable[p] # NoFrame
  <2>1. pages'[pageTable[p]].data = pages[pageTable[p]].data
    BY <1>1, <1>3, MappedFacts
  <2> QED BY <1>3, <2>1 DEF Contents
<1> QED BY <1>2, <1>3

LEMMA InstalledContents ==
  ASSUME IInv, "flush" \notin Races, NEW t \in Thread, NEW f \in Frame, NEW p \in PageId,
         Installed(t, f, p), MayThrowOut(f),
         p \in live => pageTable[p] = NoFrame /\ pages'[f].data = disk[p],
         NEW q \in live
  PROVE  Contents(q)' = Contents(q)
<1>0. q \in PageId /\ PageSafe(q) /\ f # NoFrame
  BY FrameFacts DEF IInv, Types, DiskOK
<1>1. CASE q = p
  BY <1>0, <1>1 DEF Contents, Installed
<1>2. CASE q # p /\ pageTable[q] = f
  <2>1. pages[f] # NoPage /\ Holders(q) = {}
    BY <1>0, <1>2, UnpinnedFacts DEF MayThrowOut
  <2>2. disk'[q] = pages[f].data
    <3>1. CASE NeedsWrite(pages[f])
      BY <1>0, <1>2, <3>1 DEF Installed
    <3>2. CASE ~NeedsWrite(pages[f])
      BY <1>0, <1>2, <2>1, <3>2 DEF Installed, NeedsWrite, PageSafe, OnDisk
    <3> QED BY <3>1, <3>2
  <2> QED BY <1>0, <1>2, <2>2 DEF Contents, Installed
<1>3. CASE q # p /\ pageTable[q] # f
  <2>1. pageTable'[q] = pageTable[q] /\ disk'[q] = disk[q]
    BY <1>0, <1>3 DEF Installed
  <2>2. CASE pageTable[q] = NoFrame
    BY <2>1, <2>2 DEF Contents
  <2>3. CASE pageTable[q] # NoFrame
    <3>1. pages'[pageTable[q]] = pages[pageTable[q]]
      BY <1>0, <1>3, <2>3, MappedFacts DEF Installed
    <3> QED BY <2>1, <2>3, <3>1 DEF Contents
  <2> QED BY <2>2, <2>3
<1> QED BY <1>1, <1>2, <1>3

\* A step changes what a page in use holds only if it is a write to that page.
StepKeepsContents ==
  \A p \in live \cap live' :
    Contents(p)' # Contents(p) => \E t \in Thread, v \in Value : thread[t].id = p /\ Write(t, v)

\* Steps that leave the page table and the contents of frames and of pages on
\* disk alone.
SameData ==
  /\ \A p \in live \cap live' : pageTable'[p] = pageTable[p] /\ (pageTable[p] = NoFrame => disk'[p] = disk[p])
  /\ \A g \in Frame : pages[g] \in PageRec => pages'[g].data = pages[g].data

LEMMA SameDataKeeps == ASSUME IInv, SameData PROVE StepKeepsContents
  BY SameContents DEF SameData, StepKeepsContents

LEMMA WriteContents ==
  ASSUME IInv, NEW t \in Thread, NEW v \in Value, Write(t, v)
  PROVE  StepKeepsContents
<1>0. PICK f \in Frame, q \in PageId : f = thread[t].frame /\ q = thread[t].id /\ pageTable[q] = f
  BY HeldFacts DEF Write
<1> SUFFICES ASSUME NEW p \in live \cap live', p # q PROVE Contents(p)' = Contents(p)
  BY <1>0 DEF StepKeepsContents
<1>1. /\ UNCHANGED <<pageTable, disk>> /\ pages' = [pages EXCEPT ![f].data = v] /\ p \in PageId
  BY <1>0 DEF Write, IInv, Types
<1>2. CASE pageTable[p] = NoFrame
  BY <1>1, <1>2 DEF Contents
<1>3. CASE pageTable[p] # NoFrame
  <2>1. pageTable[p] \in Frame /\ pageTable[p] # f
    BY <1>0, <1>1, <1>3, MappedFacts
  <2>2. pages'[pageTable[p]] = pages[pageTable[p]]
    BY <1>1, <2>1 DEF IInv, Types
  <2>3. pageTable' = pageTable
    BY <1>1
  <2> QED BY <1>3, <2>2, <2>3 DEF Contents
<1> QED BY <1>2, <1>3

LEMMA UseContents ==
  ASSUME IInv, NEW t \in Thread, Use(t)
  PROVE  StepKeepsContents
<1>1. CASE \E mode \in {"R", "W"} : Latch(t, mode)
  BY <1>1, SameDataKeeps DEF Latch, SameData, poolVars
<1>2. CASE \E v \in Value : Write(t, v)
  BY <1>2, WriteContents
<1>3. CASE SetIsDeallocated(t)
  <2>1. \A g \in Frame : pages[g] \in PageRec => pages'[g].data = pages[g].data
    BY <1>3 DEF SetIsDeallocated, IInv, Types, PageRec
  <2> QED BY <1>3, <2>1, SameDataKeeps DEF SetIsDeallocated, SameData
<1>4. CASE UnpinLatched(t) \/ UnpinUnlatched(t)
  <2>1. UnpinPage(t)
    BY <1>4 DEF UnpinLatched, UnpinUnlatched
  <2>2. \A g \in Frame : pages[g] \in PageRec => pages'[g].data = pages[g].data
    BY <2>1 DEF UnpinPage, IInv, Types, PageRec
  <2> QED BY <2>1, <2>2, SameDataKeeps DEF UnpinPage, SameData
<1>5. CASE Unlatch(t)
  BY <1>5, SameDataKeeps DEF Unlatch, SameData, poolVars
<1> QED BY <1>1, <1>2, <1>3, <1>4, <1>5 DEF Use

LEMMA ObtainContents ==
  ASSUME IInv, "flush" \notin Races, NEW t \in Thread, Obtain(t)
  PROVE  StepKeepsContents
<1>1. ASSUME NEW p \in PageId, FetchHit(t, p) PROVE StepKeepsContents
  <2>1. \A g \in Frame : pages[g] \in PageRec => pages'[g].data = pages[g].data
    BY <1>1 DEF FetchHit, IInv, Types, PageRec
  <2> QED BY <1>1, <2>1, SameDataKeeps DEF FetchHit, SameData
<1>2. ASSUME NEW p \in PageId, FetchMiss(t, p) PROVE StepKeepsContents
  BY <1>2, SameDataKeeps DEF FetchMiss, TakeFrame, SameData
<1>3. CASE NewPage(t)
  BY <1>3, SameDataKeeps DEF NewPage, TakeFrame, SameData
<1>4. CASE ReadPage(t)
  <2>1. PICK f \in Frame, p \in PageId :
          Installed(t, f, p) /\ MayThrowOut(f) /\ pageTable[p] = NoFrame /\ pages'[f].data = disk[p]
    BY <1>4, ReadPageKeeps
  <2>2. \A q \in live : Contents(q)' = Contents(q)
    BY <2>1, InstalledContents
  <2> QED BY <2>2 DEF StepKeepsContents
<1>5. CASE InstallNew(t)
  <2>1. PICK f \in Frame, p \in PageId : Installed(t, f, p) /\ MayThrowOut(f) /\ p \notin live
    BY <1>5, InstallNewKeeps
  <2>2. \A q \in live : Contents(q)' = Contents(q)
    BY <2>1, InstalledContents
  <2> QED BY <2>2 DEF StepKeepsContents
<1> QED BY <1>1, <1>2, <1>3, <1>4, <1>5 DEF Obtain

LEMMA FlushContents ==
  ASSUME IInv, "flush" \notin Races
  PROVE  /\ \A t \in Thread : FlushWrite(t) => StepKeepsContents
         /\ FlushAllDirtyPages => StepKeepsContents
<1>1. ASSUME NEW t \in Thread, FlushWrite(t) PROVE StepKeepsContents
  <2>1. PICK f \in Frame, p \in PageId : f = thread[t].frame /\ p = thread[t].id /\ pageTable[p] = f
    BY <1>1 DEF FlushWrite, IInv, ThreadsOK, FlushesHere
  <2>2. /\ UNCHANGED pageTable /\ f # NoFrame
        /\ disk' = [disk EXCEPT ![p] = pages[f].data] /\ pages' = [pages EXCEPT ![f].dirty = FALSE]
    BY <1>1, <2>1, FrameFacts DEF FlushWrite
  <2>3. \A g \in Frame : pages[g] \in PageRec => pages'[g].data = pages[g].data
    BY <2>2 DEF IInv, Types, PageRec
  <2>4. \A q \in live : pageTable[q] = NoFrame => disk'[q] = disk[q]
    BY <2>1, <2>2 DEF IInv, Types
  <2> QED BY <2>2, <2>3, <2>4, SameDataKeeps DEF SameData
<1>2. ASSUME FlushAllDirtyPages PROVE StepKeepsContents
  <2>1. \A g \in Frame : pages[g] \in PageRec => pages'[g].data = pages[g].data
    BY <1>2 DEF FlushAllDirtyPages, PageRec
  <2>2. \A q \in live : pageTable[q] = NoFrame => disk'[q] = disk[q]
    BY <1>2 DEF FlushAllDirtyPages, IInv, Types
  <2>3. UNCHANGED pageTable
    BY <1>2 DEF FlushAllDirtyPages
  <2> QED BY <2>1, <2>2, <2>3, SameDataKeeps DEF SameData
<1> QED BY <1>1, <1>2

LEMMA DropContents ==
  ASSUME IInv, NEW p \in PageId, DeallocatePage(p)
  PROVE  StepKeepsContents
<1>1. live' = live \ {p} /\ UNCHANGED <<pages, disk>>
  BY DEF DeallocatePage
<1>2. \A q \in live' : q \in PageId /\ q # p
  BY <1>1 DEF IInv, Types
<1>3. \A q \in PageId : q # p => pageTable'[q] = pageTable[q]
  BY DEF DeallocatePage, IInv, Types
<1> QED BY <1>1, <1>2, <1>3, SameDataKeeps DEF SameData

\* Throwing pages out, reading them back, flushes, checkpoints and the reuse of
\* ids and frames never change what a page in use holds; only a writer with the
\* page's latch does.  This needs callers that keep two rules the pool itself
\* does not enforce: pages are given back only when they are not in the pool,
\* and a page is not thrown out while FlushPage writes it outside the mutex.
THEOREM ContentsKept ==
  ASSUME "reuse" \notin Races, "flush" \notin Races
  PROVE  Spec => PagesKeepContents
<1>1. ASSUME IInv, [Next]_vars PROVE [StepKeepsContents]_vars
  <2>1. ASSUME NEW t \in Thread, Obtain(t) \/ Use(t) \/ FlushWrite(t) PROVE StepKeepsContents
    BY <1>1, <2>1, ObtainContents, UseContents, FlushContents
  <2>2. ASSUME NEW t \in Thread, DropLastTmpPage(t) PROVE StepKeepsContents
    <3>1. thread[t].id \in PageId
      BY <1>1, <2>2, HeldFacts DEF DropLastTmpPage
    <3> QED BY <1>1, <2>2, <3>1, DropContents DEF DropLastTmpPage
  <2>3. ASSUME NEW t \in Thread, NEW p \in PageId, FlushPage(t, p) PROVE StepKeepsContents
    BY <1>1, <2>3, SameDataKeeps DEF FlushPage, SameData, poolVars
  <2>4. ASSUME NEW p \in PageId, DropTmpPage(p) PROVE StepKeepsContents
    BY <1>1, <2>4, DropContents DEF DropTmpPage
  <2>5. CASE FlushAllDirtyPages
    BY <1>1, <2>5, FlushContents
  <2> QED BY <1>1, <2>1, <2>2, <2>3, <2>4, <2>5 DEF Next
<1> QED BY <1>1, Invariance, PTL DEF Spec, PagesKeepContents, StepKeepsContents

=============================================================================
