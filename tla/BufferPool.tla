----------------------------- MODULE BufferPool -----------------------------
(***************************************************************************)
(* The buffer pool (buffer_pool_manager.go) with its clock replacer        *)
(* (clock_replacer.go, circular_list.go), as the table heap, the skip      *)
(* list, the catalog, the checkpoint and the hash join use it.             *)
(*                                                                         *)
(* One mutex protects the pool.  A thread that needs a frame keeps it while *)
(* it waits for the latch of the page it throws out.  Latches, page        *)
(* contents and pages whose last pin is gone are outside the mutex.        *)
(* A thread uses one page at a time here.                                  *)
(***************************************************************************)
EXTENDS Integers, Sequences, FiniteSets, SequencesExt

CONSTANTS Thread,
          NumFrames,   \* pool size
          MaxPageId,   \* bound: page ids the disk manager hands out
          Value,       \* page contents
          Zero,        \* contents of a new page
          Changing,    \* bound: pages that are written or emptied after their creation
          Unwritten,   \* contents of a page the file does not have
          Races,       \* subset of {"reuse", "flush"}: what the callers may do
          MaxLost      \* bound: frames a hash join leaves pinned

ASSUME BufferPoolAssumption ==
  /\ NumFrames \in Nat \ {0} /\ MaxPageId \in Nat /\ MaxLost \in Nat
  /\ Zero \in Value /\ Unwritten \notin Value
  /\ Changing \subseteq 1..MaxPageId
  /\ Races \subseteq {"reuse", "flush"}

Frame == 1..NumFrames
PageId == 1..MaxPageId
NoFrame == 0
NoId == 0
NoPage == [id |-> NoId]
AtHead == 0
Dangling == -1

VARIABLES
  pageTable,         \* PageId -> frame
  pages,             \* Frame -> Page object
  freeList,
  reUsablePageList,
  cList, clockHand,  \* the replacer
  nextPageID,        \* disk manager
  disk,              \* the db file
  mutex,             \* the thread inside the pool, while it waits
  thread,            \* Thread -> what it does
  live               \* history: pages handed out and not given back

poolVars == <<pageTable, pages, freeList, reUsablePageList, cList, clockHand, mutex>>
vars == <<poolVars, nextPageID, disk, thread, live>>

-----------------------------------------------------------------------------
(***************************************************************************)
(* The clock replacer.  clockHand is a pointer to a pointer: to the list's *)
(* head field (AtHead), or to the next field of a node that has left the   *)
(* list; then it stands for the frame that field names, or, if the node    *)
(* was the last one, for the node itself (Dangling).                       *)
(***************************************************************************)
InList(f) == f \in Range(cList)
AtHand == IF clockHand = AtHead THEN Head(cList) ELSE clockHand

Position(f) == CHOOSE i \in DOMAIN cList : cList[i] = f
Successor(f) ==
  IF Len(cList) = 1 THEN Dangling ELSE cList[(Position(f) % Len(cList)) + 1]

RemoveFrame(f) == cList' = IF InList(f) THEN RemoveAt(cList, Position(f)) ELSE cList

\* The hand never moves past the first frame it meets: a set bit is cleared
\* and the same frame taken.
Victim(f) ==
  /\ cList # <<>>
  /\ f = AtHand
  /\ clockHand' = Successor(f)
  /\ RemoveFrame(f)

Pin(f) ==
  /\ RemoveFrame(f)
  /\ clockHand' = IF InList(f) /\ f = AtHand THEN Successor(f) ELSE clockHand

Unpin(f) ==
  IF InList(f) THEN UNCHANGED <<cList, clockHand>>
  ELSE /\ cList' = Append(cList, f)
       /\ clockHand' = IF cList = <<>> THEN AtHead ELSE clockHand

-----------------------------------------------------------------------------
(***************************************************************************)
(* Threads.  Between FetchPage or NewPage and UnpinPage a thread is        *)
(* "pinned" or, with the page's latch, "latched"; writers unpin before     *)
(* they unlatch ("unpinned"), readers after.                               *)
(***************************************************************************)
Idle == [st |-> "idle", id |-> NoId, frame |-> NoFrame, mode |-> "none", dirty |-> FALSE]

Become(t, s) == thread' = [thread EXCEPT ![t] = s]
Holds(t, p) == thread[t].st \in {"pinned", "latched"} /\ thread[t].id = p
Holders(p) == {t \in Thread : Holds(t, p)}
LatchHolders(f, p) ==
  {t \in Thread : thread[t].st \in {"latched", "unpinned"} /\ thread[t].frame = f /\ thread[t].id = p}

Enter == mutex = {}

\* Frames that stay pinned though nobody can unpin their page any more.
Lost == {f \in Frame : pages[f] # NoPage /\ pageTable[pages[f].id] # f /\ pages[f].pin > 0}

\* Faulty variant: the page starts without a pin.
PageUnpinned(p, v) == [id |-> p, pin |-> 0, dirty |-> FALSE, dealloc |-> FALSE, data |-> v]

Page(p, v) == [id |-> p, pin |-> 1, dirty |-> FALSE, dealloc |-> FALSE, data |-> v]

\* getFrameID: the free list first, then the replacer; without a victim it panics.
GetFrameID(f) ==
  IF freeList # <<>>
  THEN f = Head(freeList) /\ freeList' = Tail(freeList) /\ UNCHANGED <<cList, clockHand>>
  ELSE Victim(f) /\ UNCHANGED freeList

\* Faulty variant: the page leaves the replacer, but its pin is not counted.
FetchHitUncounted(t, p) ==
  /\ thread[t] = Idle /\ Enter /\ p \in live
  /\ pageTable[p] # NoFrame
  /\ LET f == pageTable[p] IN
       /\ Pin(f)
       /\ Become(t, [Idle EXCEPT !.st = "pinned", !.id = p, !.frame = f])
  /\ UNCHANGED <<pageTable, pages, freeList, reUsablePageList, mutex, nextPageID, disk, live>>

\* FetchPage of a page in the pool ...
FetchHit(t, p) ==
  /\ thread[t] = Idle /\ Enter /\ p \in live
  /\ pageTable[p] # NoFrame
  /\ LET f == pageTable[p] IN
       /\ pages' = [pages EXCEPT ![f].pin = @ + 1]
       /\ Pin(f)
       /\ Become(t, [Idle EXCEPT !.st = "pinned", !.id = p, !.frame = f])
  /\ UNCHANGED <<pageTable, freeList, reUsablePageList, mutex, nextPageID, disk, live>>

\* ... and of one that is not, and NewPage (p = NoId): take a frame, ...
TakeFrame(t, p) ==
  /\ thread[t] = Idle /\ Enter
  /\ \E f \in Frame :
       /\ GetFrameID(f)
       /\ Become(t, [Idle EXCEPT !.st = "frame", !.id = p, !.frame = f])
  /\ mutex' = {t}
  /\ UNCHANGED <<pageTable, pages, reUsablePageList, nextPageID, disk, live>>

FetchMiss(t, p) == p \in live /\ pageTable[p] = NoFrame /\ TakeFrame(t, p)
NewPage(t) ==
  /\ reUsablePageList # <<>> \/ nextPageID <= MaxPageId
  /\ TakeFrame(t, NoId)

\* ... throw out the page in it, once its latch is free, ...
NeedsWrite(pg) == pg # NoPage /\ ~pg.dealloc /\ pg.dirty
MayThrowOut(f) ==
  /\ NeedsWrite(pages[f]) => LatchHolders(f, pages[f].id) = {}
  /\ pages[f] # NoPage => pages[f].pin = 0
  /\ "flush" \in Races \/ ~\E t \in Thread : thread[t].st = "flushing" /\ thread[t].frame = f

WrittenOut(f) == IF NeedsWrite(pages[f]) THEN [disk EXCEPT ![pages[f].id] = pages[f].data] ELSE disk
Unmapped(f) == IF pages[f] = NoPage THEN pageTable ELSE [pageTable EXCEPT ![pages[f].id] = NoFrame]
GivenBack(f) ==
  IF pages[f] # NoPage /\ pages[f].dealloc
  THEN Append(reUsablePageList, pages[f].id) ELSE reUsablePageList

\* A thread that is flushing the page is left with a cleared buffer.
AfterThrowOut(f) ==
  [u \in Thread |-> IF thread[u].st = "flushing" /\ thread[u].frame = f
                    THEN [thread[u] EXCEPT !.frame = NoFrame] ELSE thread[u]]

\* Faulty variant: the creator of a page does not unpin it as dirty.
InstallClean(t, f, p, pg) ==
  /\ pages' = [pages EXCEPT ![f] = pg]
  /\ pageTable' = [Unmapped(f) EXCEPT ![p] = f]
  /\ thread' = [AfterThrowOut(f) EXCEPT ![t] = [Idle EXCEPT !.st = "pinned", !.id = p, !.frame = f]]
  /\ mutex' = {}
  /\ UNCHANGED <<freeList, cList, clockHand>>

Install(t, f, p, pg) ==
  /\ pages' = [pages EXCEPT ![f] = pg]
  /\ pageTable' = [Unmapped(f) EXCEPT ![p] = f]
  /\ thread' = [AfterThrowOut(f) EXCEPT
                  ![t] = [Idle EXCEPT !.st = "pinned", !.id = p, !.frame = f, !.dirty = thread[t].id = NoId]]
  /\ mutex' = {}
  /\ UNCHANGED <<freeList, cList, clockHand>>

\* ... and read the requested page, ...
ReadPage(t) ==
  LET f == thread[t].frame
      p == thread[t].id
  IN /\ thread[t].st = "frame" /\ p # NoId
     /\ MayThrowOut(f)
     /\ disk' = WrittenOut(f)
     /\ disk'[p] # Unwritten
     /\ Install(t, f, p, Page(p, disk'[p]))
     /\ reUsablePageList' = GivenBack(f)
     /\ UNCHANGED <<nextPageID, live>>

\* ... or make a new one, with an id that was given back if there is one.  The
\* creator unpins it as dirty.
InstallNew(t) ==
  LET f == thread[t].frame
      ids == GivenBack(f)
  IN /\ thread[t].st = "frame" /\ thread[t].id = NoId
     /\ MayThrowOut(f)
     /\ disk' = WrittenOut(f)
     /\ \/ /\ ids # <<>>
           /\ Install(t, f, Head(ids), Page(Head(ids), Zero))
           /\ reUsablePageList' = Tail(ids)
           /\ live' = live \cup {Head(ids)}
           /\ UNCHANGED nextPageID
        \/ /\ ids = <<>>
           /\ Install(t, f, nextPageID, Page(nextPageID, Zero))
           /\ nextPageID' = nextPageID + 1
           /\ live' = live \cup {nextPageID}
           /\ UNCHANGED reUsablePageList

-----------------------------------------------------------------------------
(***************************************************************************)
(* The use of a page.                                                      *)
(***************************************************************************)
MayLatch(t, mode) ==
  \A u \in LatchHolders(thread[t].frame, thread[t].id) : mode = "R" /\ thread[u].mode = "R"

Latch(t, mode) ==
  /\ thread[t].st = "pinned" /\ thread[t].mode = "none"
  /\ MayLatch(t, mode)
  /\ Become(t, [thread[t] EXCEPT !.st = "latched", !.mode = mode])
  /\ UNCHANGED <<poolVars, nextPageID, disk, live>>

\* All a thread writes under the latch, as one step.
Write(t, v) ==
  /\ thread[t].st = "latched" /\ thread[t].mode = "W" /\ thread[t].id \in live \cap Changing
  /\ v # pages[thread[t].frame].data
  /\ pages' = [pages EXCEPT ![thread[t].frame].data = v]
  /\ Become(t, [thread[t] EXCEPT !.dirty = TRUE])
  /\ UNCHANGED <<pageTable, freeList, reUsablePageList, cList, clockHand, mutex, nextPageID, disk, live>>

\* A skip list node that has been emptied: SetIsDeallocated, still latched.
SetIsDeallocated(t) ==
  /\ thread[t].st = "latched" /\ thread[t].mode = "W" /\ thread[t].id \in live \cap Changing
  /\ pages' = [pages EXCEPT ![thread[t].frame].dealloc = TRUE]
  /\ Become(t, [thread[t] EXCEPT !.dirty = TRUE])
  /\ live' = live \ {thread[t].id}
  /\ UNCHANGED <<pageTable, freeList, reUsablePageList, cList, clockHand, mutex, nextPageID, disk>>

\* Faulty variant: the flag of the last caller wins.
UnpinPageOverwriting(t) ==
  LET p == thread[t].id
      f == pageTable[p]
      last == pages[f].pin = 1
  IN /\ f # NoFrame
     /\ pages' = [pages EXCEPT ![f].pin = @ - 1, ![f].dirty = thread[t].dirty]
     /\ IF last THEN Unpin(f) ELSE UNCHANGED <<cList, clockHand>>
     /\ UNCHANGED <<pageTable, freeList, reUsablePageList, mutex, nextPageID, disk, live>>

\* Faulty variant: the frame goes to the replacer whoever else has it pinned.
UnpinPageAlways(t) ==
  LET p == thread[t].id
      f == pageTable[p]
  IN /\ f # NoFrame
     /\ pages' = [pages EXCEPT ![f].pin = @ - 1, ![f].dirty = @ \/ thread[t].dirty]
     /\ Unpin(f)
     /\ UNCHANGED <<pageTable, freeList, reUsablePageList, mutex, nextPageID, disk, live>>

\* UnpinPage looks the page up by its id; without an entry it panics.
UnpinPage(t) ==
  LET p == thread[t].id
      f == pageTable[p]
      last == pages[f].pin = 1
  IN /\ f # NoFrame
     /\ pages' = [pages EXCEPT ![f].pin = @ - 1, ![f].dirty = @ \/ thread[t].dirty]
     /\ IF last THEN Unpin(f) ELSE UNCHANGED <<cList, clockHand>>
     /\ UNCHANGED <<pageTable, freeList, reUsablePageList, mutex, nextPageID, disk, live>>

\* Writers unpin under the latch; readers may unlatch first, and pages that only
\* one thread knows are used without a latch.
UnpinLatched(t) ==
  /\ thread[t].st = "latched" /\ Enter
  /\ UnpinPage(t)
  /\ Become(t, [thread[t] EXCEPT !.st = "unpinned"])

UnpinUnlatched(t) ==
  /\ thread[t].st = "pinned" /\ Enter
  /\ UnpinPage(t)
  /\ Become(t, Idle)

Unlatch(t) ==
  /\ \/ thread[t].st = "unpinned" /\ Become(t, Idle)
     \/ /\ thread[t].st = "latched" /\ thread[t].mode = "R"
        /\ Become(t, [thread[t] EXCEPT !.st = "pinned"])
  /\ UNCHANGED <<poolVars, nextPageID, disk, live>>

-----------------------------------------------------------------------------
(***************************************************************************)
(* Flushing and giving back.                                               *)
(***************************************************************************)
\* FlushPage of a page nobody needs to have pinned (the catalog after CREATE
\* TABLE): the frame is looked up under the mutex ...
FlushPage(t, p) ==
  /\ thread[t] = Idle /\ Enter /\ p \in live
  /\ pageTable[p] # NoFrame
  /\ Become(t, [Idle EXCEPT !.st = "flushing", !.id = p, !.frame = pageTable[p]])
  /\ UNCHANGED <<poolVars, nextPageID, disk, live>>

\* ... and what its buffer then holds is written outside.
FlushWrite(t) ==
  LET f == thread[t].frame IN
  /\ thread[t].st = "flushing"
  /\ disk' = [disk EXCEPT ![thread[t].id] = IF f = NoFrame THEN Zero ELSE pages[f].data]
  /\ pages' = IF f = NoFrame THEN pages ELSE [pages EXCEPT ![f].dirty = FALSE]
  /\ Become(t, Idle)
  /\ UNCHANGED <<pageTable, freeList, reUsablePageList, cList, clockHand, mutex, nextPageID, live>>

\* FlushAllDirtyPages, with the transactions blocked.
FlushAllDirtyPages ==
  LET cached == {p \in PageId : pageTable[p] # NoFrame /\ pages[pageTable[p]].dirty} IN
  /\ \A t \in Thread : thread[t] = Idle
  /\ cached # {}
  /\ disk' = [p \in PageId |-> IF p \in cached THEN pages[pageTable[p]].data ELSE disk[p]]
  /\ pages' = [f \in Frame |-> IF \E p \in cached : pageTable[p] = f
                               THEN [pages[f] EXCEPT !.dirty = FALSE] ELSE pages[f]]
  /\ UNCHANGED <<pageTable, freeList, reUsablePageList, cList, clockHand, mutex, nextPageID, thread, live>>

\* DeallocatePage without waiting: the entry goes, the Page stays in its frame.
DeallocatePage(p) ==
  /\ IF pageTable[p] = NoFrame THEN UNCHANGED <<pageTable, reUsablePageList>>
     ELSE /\ pageTable' = [pageTable EXCEPT ![p] = NoFrame]
          /\ reUsablePageList' = Append(reUsablePageList, p)
  /\ live' = live \ {p}
  /\ UNCHANGED <<pages, freeList, cList, clockHand, mutex, nextPageID, disk>>

\* A hash join gives back its full tmp pages, some of them still in the pool,
\* and the last one, which it never unpinned.
DropTmpPage(p) ==
  /\ Enter /\ p \in live
  /\ "reuse" \in Races \/ pageTable[p] = NoFrame
  /\ \A t \in Thread : thread[t].id # p
  /\ DeallocatePage(p)
  /\ UNCHANGED thread

DropLastTmpPage(t) ==
  /\ Enter /\ thread[t].st = "pinned" /\ thread[t].dirty
  /\ \A u \in Thread \ {t} : thread[u].id # thread[t].id
  /\ Cardinality(Lost) < MaxLost
  /\ DeallocatePage(thread[t].id)
  /\ Become(t, Idle)

-----------------------------------------------------------------------------
Init ==
  /\ pageTable = [p \in PageId |-> NoFrame]
  /\ pages = [f \in Frame |-> NoPage]
  /\ freeList = [i \in Frame |-> i]
  /\ reUsablePageList = <<>>
  /\ cList = <<>> /\ clockHand = AtHead
  /\ nextPageID = 1
  /\ disk = [p \in PageId |-> Unwritten]
  /\ mutex = {}
  /\ thread = [t \in Thread |-> Idle]
  /\ live = {}

Use(t) ==
  \/ \E mode \in {"R", "W"} : Latch(t, mode)
  \/ \E v \in Value : Write(t, v)
  \/ SetIsDeallocated(t) \/ UnpinLatched(t) \/ UnpinUnlatched(t) \/ Unlatch(t)

Obtain(t) ==
  \/ \E p \in PageId : FetchHit(t, p) \/ FetchMiss(t, p)
  \/ NewPage(t) \/ ReadPage(t) \/ InstallNew(t)

Next ==
  \/ \E t \in Thread : Obtain(t) \/ Use(t) \/ FlushWrite(t) \/ DropLastTmpPage(t)
  \/ \E t \in Thread, p \in PageId : FlushPage(t, p)
  \/ \E p \in PageId : DropTmpPage(p)
  \/ FlushAllDirtyPages

Spec == Init /\ [][Next]_vars

-----------------------------------------------------------------------------
\* Frames, page table, free list, replacer and the pages on disk are well formed.
TypeOK ==
  /\ pageTable \in [PageId -> Frame \cup {NoFrame}]
  /\ \A f \in Frame : pages[f] # NoPage =>
       pages[f].id \in PageId /\ pages[f].pin \in Nat /\ pages[f].data \in Value
  /\ Range(freeList) \subseteq Frame /\ Range(cList) \subseteq Frame
  /\ clockHand \in Frame \cup {AtHead, Dangling}
  /\ nextPageID \in 1..(MaxPageId + 1)
  /\ disk \in [PageId -> Value \cup {Unwritten}]
  /\ live \subseteq PageId

\* No frame is lost or given to two pages: a frame is free, or in the replacer,
\* or holds a pinned page, or belongs to the thread inside; a page table entry
\* leads to the frame that holds that page.
Free(f) == f \in Range(freeList)
Taken(f) == \E t \in mutex : thread[t].frame = f
Pinned(f) == pages[f] # NoPage /\ pages[f].pin > 0
FramesAccounted ==
  /\ \A f \in Frame :
       Cardinality({k \in 1..4 : <<Free(f), InList(f), Taken(f), Pinned(f)>>[k]}) = 1
  /\ IsInjective(cList)
  /\ \A p \in PageId : pageTable[p] # NoFrame => pages[pageTable[p]].id = p

\* A page is pinned as often as threads hold it, and they hold it where the
\* page table says: what they read and write is the page, not a copy thrown out.
PinsAreHeld ==
  /\ \A p \in PageId : pageTable[p] # NoFrame => pages[pageTable[p]].pin = Cardinality(Holders(p))
  /\ \A t \in Thread : thread[t].st \in {"pinned", "latched"} => pageTable[thread[t].id] = thread[t].frame

\* Whoever waits inside the pool, with the mutex, for the latch of a victim waits
\* only for threads that have unpinned it and need nothing but to unlatch.
NobodyWaitsInside ==
  \A t \in mutex : LET f == thread[t].frame IN
    \A u \in LatchHolders(f, pages[f].id) : thread[u].st = "unpinned"

\* UnpinPage finds the page it is called for.
UnpinFindsPage ==
  \A t \in Thread : thread[t].st \in {"pinned", "latched"} => pageTable[thread[t].id] # NoFrame

\* The clock hand stands on a frame of the list whenever there is one.
HandOnList == cList # <<>> => InList(AtHand)

\* The free list, the replacer with its clock hand, the page table and the pins
\* of the pages agree with each other and with what the threads hold.
PoolConsistent == FramesAccounted /\ PinsAreHeld /\ HandOnList

\* A page that is in use can be had: FetchPage never reads a page that was never
\* written, which would return nil with the mutex locked.
LivePagesReadable == \A p \in live : pageTable[p] = NoFrame => disk[p] # Unwritten

\* Pages keep their contents: throwing out, reading back, flushing, checkpoints
\* and the reuse of ids and frames never change what a page in use holds; only
\* a writer with the latch does.
Contents(p) == IF pageTable[p] # NoFrame THEN pages[pageTable[p]].data ELSE disk[p]
PagesKeepContents ==
  [][\A p \in live \cap live' :
       Contents(p)' # Contents(p) => \E t \in Thread, v \in Value : thread[t].id = p /\ Write(t, v)]_vars

=============================================================================
