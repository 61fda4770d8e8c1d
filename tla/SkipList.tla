------------------------------ MODULE SkipList ------------------------------
(***************************************************************************)
(* The concurrent skip list under the skip list indexes: skip_list.go,     *)
(* skip_list_iterator.go and the node pages of skip_list_block_page.go.    *)
(*                                                                         *)
(* A node is a page with sorted entries and one forward link per level.    *)
(* Every operation walks from the start node with latch coupling (FindNode)*)
(* and then works on the node it holds.  A split and the removal of a node *)
(* need the nodes before it on every level: FindNode remembers them with   *)
(* their LSN, which is used as an update counter; the node is unlatched,   *)
(* the remembered nodes are latched from the highest level down, and the   *)
(* operation starts again when one of them has changed meanwhile.          *)
(*                                                                         *)
(* One step is the acquisition of one latch, the work done under it and    *)
(* the releases that follow.  Keys are naturals between InfMin and InfMax; *)
(* where the bytes of an entry lie in its page is left out, a node holds   *)
(* at most Capacity entries of one size.                                   *)
(***************************************************************************)
EXTENDS Integers, Sequences, FiniteSets, SequencesExt, FiniteSetsExt

CONSTANTS Threads, Keys, Vals, Absent, NoCall, Ranges,
          InfMin, InfMax,  \* keys of the start and of the sentinel node
          MaxLevel,        \* MAX_FOWARD_LIST_LEN
          Capacity,        \* entries of a node
          Varchar,         \* keys are varchars (split by bytes) or of fixed size
          Loaded,          \* entries inserted one after the other at start-up
          MaxNode,         \* bound: page ids
          NewVals,         \* bound: the values that calls insert
          MaxCalls         \* bound: calls of all threads together

ASSUME SkipListAssumption ==
  /\ Keys \subseteq Nat /\ InfMin \in Nat /\ InfMax \in Nat
  /\ \A k \in Keys : InfMin < k /\ k < InfMax
  /\ MaxLevel \in Nat \ {0} /\ Capacity \in Nat /\ Capacity >= 3
  /\ MaxNode \in Nat /\ MaxNode >= 2 /\ MaxCalls \in Nat
  /\ Varchar \in BOOLEAN
  /\ NewVals \subseteq Vals /\ Absent \notin Vals

VARIABLES
  pages,   \* page id -> node, or NoNode
  th,      \* Threads -> where the thread is in its call
  calls,   \* number of calls made
  ret,     \* Threads -> what its last call returned
  content, \* history: the map that the list represents
  window,  \* history: Threads -> what a running scan must and may return
  disk     \* page id -> the copy last written, or NoNode

vars == <<pages, th, calls, ret, content, window, disk>>

PageId == 1..MaxNode
StartNode == 1
Sentinel == 2
InvalidPageID == 0
Level == 0..(MaxLevel - 1)
NoNode == [entries |-> <<>>]
NoCorner == [id |-> InvalidPageID, lsn |-> -1]

-----------------------------------------------------------------------------
(***************************************************************************)
(* Nodes.                                                                  *)
(***************************************************************************)
EntryOf(k, v) == [key |-> k, val |-> v]

\* NewSkipListBlockPage: a node whose update counter starts at 0 again.
NewNode(level, entries, fwd) ==
  [lsn |-> 0, level |-> level, entries |-> entries, fwd |-> fwd,
   isDeallocated |-> FALSE]

SmallestKey(n) == pages[n].entries[1].key
EntryCnt(n) == Len(pages[n].entries)

\* FindEntryByKey: the index of the key, or of the nearest smaller one.
NearestIdx(entries, k) == Cardinality({i \in DOMAIN entries : entries[i].key <= k})
Found(entries, k) == \E i \in DOMAIN entries : entries[i].key = k

\* InsertInner: behind the entry at the nearest smaller index.
InsertInner(entries, idx, e) == InsertAt(entries, idx + 1, e)

IsFull(entries) == Len(entries) >= Capacity

\* Faulty variant: the split index is one too high and the new node gets no entry.
SplitKeepOneMore(entries) == (Len(entries) \div 2) + 2

\* Number of entries that stay: splitIdx + 1.
SplitKeep(entries) ==
  IF Varchar THEN (Capacity + 1) \div 2 ELSE (Len(entries) \div 2) + 1

FreeIds(pgs) == {n \in PageId : pgs[n] = NoNode}

(***************************************************************************)
(* SplitNode: the upper entries move to a new node of the given level that *)
(* is linked behind the corner of each of its levels; then the new entry   *)
(* goes to the half it belongs to.                                         *)
(***************************************************************************)
SplitNode(pgs, node, corner, level, e) ==
  LET new == Min(FreeIds(pgs))
      old == pgs[node].entries
      keep == SplitKeep(old)
      idx == NearestIdx(old, e.key)
      low == SubSeq(old, 1, keep)
      high == SubSeq(old, keep + 1, Len(old))
      linked(m) == {l \in 0..(level - 1) : corner[l].id = m}
      relink(m) == [pgs[m] EXCEPT
                      !.fwd = [l \in Level |-> IF l \in linked(m) THEN new ELSE @[l]],
                      !.lsn = @ + Cardinality(linked(m))]
  IN  [m \in PageId |->
         IF m = new
         THEN NewNode(level,
                      IF idx > keep THEN InsertInner(high, idx - keep, e) ELSE high,
                      [l \in Level |-> IF l < level THEN pgs[corner[l].id].fwd[l]
                                       ELSE InvalidPageID])
         ELSE IF m = node
         THEN [relink(m) EXCEPT
                 !.entries = IF idx > keep THEN low ELSE InsertInner(low, idx, e)]
         ELSE IF linked(m) # {} THEN relink(m) ELSE pgs[m]]

\* Faulty variant: only the lowest level forgets the node.
UnlinkNodeLowestLevel(pgs, node, pred0, corner) ==
  [pgs EXCEPT ![pred0.id].fwd[0] = pgs[node].fwd[0], ![pred0.id].lsn = @ + 1,
              ![node].lsn = @ + 1, ![node].isDeallocated = TRUE]

\* Faulty variant: the node taken out keeps its LSN.
UnlinkNodeSameLSN(pgs, node, pred0, corner) ==
  LET prev(l) == IF l = 0 THEN pred0.id ELSE corner[l].id
      linked(m) == {l \in 0..(pgs[node].level - 1) : prev(l) = m}
  IN  [m \in PageId |->
         IF m = node THEN [pgs[m] EXCEPT !.isDeallocated = TRUE]
         ELSE IF linked(m) = {} THEN pgs[m]
         ELSE [pgs[m] EXCEPT
                 !.fwd = [l \in Level |-> IF l \in linked(m) THEN pgs[node].fwd[l]
                                          ELSE @[l]],
                 !.lsn = @ + Cardinality(linked(m))]]

(***************************************************************************)
(* Node removal: its predecessor on every level takes over its link.       *)
(***************************************************************************)
UnlinkNode(pgs, node, pred0, corner) ==
  LET prev(l) == IF l = 0 THEN pred0.id ELSE corner[l].id
      linked(m) == {l \in 0..(pgs[node].level - 1) : prev(l) = m}
  IN  [m \in PageId |->
         IF m = node
         THEN [pgs[m] EXCEPT !.lsn = @ + 1, !.isDeallocated = TRUE]
         ELSE IF linked(m) = {} THEN pgs[m]
         ELSE [pgs[m] EXCEPT
                 !.fwd = [l \in Level |-> IF l \in linked(m) THEN pgs[node].fwd[l]
                                          ELSE @[l]],
                 !.lsn = @ + Cardinality(linked(m))]]

\* What the page holds after the entry is inserted into a node with room for it.
InsertEntry(pgs, node, e) ==
  LET old == pgs[node].entries IN
  [pgs EXCEPT ![node].entries = InsertInner(old, NearestIdx(old, e.key), e),
              ![node].lsn = @ + 1]

\* SetEntry at the index of the existing key.  (The code writes the entry anew and
\* so uses up free space of the page with each overwrite; the room in a node is
\* counted in entries here, and an overwrite costs none.)
OverwriteEntry(pgs, node, e) ==
  [pgs EXCEPT ![node].entries[NearestIdx(pgs[node].entries, e.key)] = e,
              ![node].lsn = @ + 1]

RemoveInner(pgs, node, k) ==
  [pgs EXCEPT ![node].entries = RemoveAt(@, NearestIdx(@, k)),
              ![node].lsn = @ + 1]

-----------------------------------------------------------------------------
(***************************************************************************)
(* The nodes of a level in the order of their links, from the start node.  *)
(***************************************************************************)
Chain(pgs, l) ==
  LET walk[i \in 0..MaxNode] ==
        IF i = 0 THEN <<StartNode>>
        ELSE LET s == walk[i - 1] IN
             IF Last(s) \in {Sentinel, InvalidPageID} \/ pgs[Last(s)] = NoNode THEN s
             ELSE Append(s, pgs[Last(s)].fwd[l])
  IN  walk[MaxNode]

Linked(pgs, l) == ToSet(Chain(pgs, l))

Stored(pgs) ==
  UNION {ToSet(pgs[n].entries) : n \in Linked(pgs, 0) \ {Sentinel, InvalidPageID}}

\* The map that the list represents.
Content(pgs) ==
  LET s == Stored(pgs) IN
  [k \in Keys |-> IF \E e \in s : e.key = k
                  THEN (CHOOSE e \in s : e.key = k).val ELSE Absent]

-----------------------------------------------------------------------------
(***************************************************************************)
(* Threads.  A thread in a call holds the latches `latched', in the order  *)
(* taken, for reading in GetValue and in scans, for writing otherwise.     *)
(* predOfPred and corner are FindNode's notes: page ids with the LSN seen. *)
(***************************************************************************)
Idle == [pc |-> "idle", latched |-> <<>>]

Reads(r) == r.op \in {"get", "scan"}

Holds(t, n) == n \in ToSet(th[t].latched)

\* latchOpWithOpType: a sync.RWMutex per page.
CanLatch(t, n, r) ==
  \A u \in Threads \ {t} : Holds(u, n) => Reads(r) /\ Reads(th[u].req)

KeyOf(r) == IF r.op = "scan" THEN r.range[1] ELSE r.key

CornerOf(n) == [id |-> n, lsn |-> pages[n].lsn]

\* FindNode: the latch of the start node and an empty set of notes.
AtStart(r) ==
  [pc |-> "search", req |-> r, level |-> MaxLevel - 1, pred |-> StartNode,
   predOfPred |-> NoCorner, corner |-> [l \in Level |-> NoCorner],
   latched |-> <<StartNode>>]

Goto(t, s) == th' = [th EXCEPT ![t] = s]

\* The call is over and every latch and pin it had is given back.
Return(t, result) ==
  /\ Goto(t, Idle)
  /\ ret' = [ret EXCEPT ![t] = result]
  /\ UNCHANGED <<calls, disk>>

\* A step that only moves the thread.
Moves(t, s) == Goto(t, s) /\ UNCHANGED <<pages, calls, ret, disk>>

(***************************************************************************)
(* Calls.  Insert draws the level of a node to be created when it has      *)
(* found its place.  A scan without a lower bound (range[1] = InfMin) does *)
(* not search, it begins at the start node's first entry behind InfMin.    *)
(***************************************************************************)
Requests ==
  [op : {"get", "remove"}, key : Keys]
  \cup [op : {"insert"}, key : Keys, val : NewVals]
  \cup [op : {"scan"}, range : Ranges]

Call(t, r) ==
  /\ th[t].pc = "idle"
  /\ calls < MaxCalls
  /\ CanLatch(t, StartNode, r)
  /\ calls' = calls + 1
  /\ ret' = [ret EXCEPT ![t] = Absent]
  /\ Goto(t, IF r.op = "scan" /\ r.range[1] = InfMin
             THEN [pc |-> "collect", req |-> r, pred |-> StartNode, from |-> 2,
                   out |-> <<>>, latched |-> <<StartNode>>]
             ELSE AtStart(r))
  /\ UNCHANGED <<pages, disk>>

Retry(t) ==
  /\ th[t].pc = "retry"
  /\ CanLatch(t, StartNode, th[t].req)
  /\ Moves(t, AtStart(th[t].req))

-----------------------------------------------------------------------------
(***************************************************************************)
(* FindNode.                                                               *)
(***************************************************************************)
NextNode(t) == pages[th[t].pred].fwd[th[t].level]

\* The level ends here without looking at the next node.
AtListEnd(t) == th[t].pred = StartNode /\ NextNode(t) = Sentinel

\* A remove that has reached the node it will take out, above the lowest level.
ReachedTooEarly(t) ==
  LET s == th[t] IN
  /\ s.req.op = "remove" /\ s.level # 0
  /\ EntryCnt(s.pred) = 1 /\ SmallestKey(s.pred) = s.req.key

(***************************************************************************)
(* pred is the corner of the level: go down, or, when it is the node to be *)
(* removed, let everything go and step back to the node before it.         *)
(***************************************************************************)
EndLevel(t) ==
  LET s == th[t] IN
  \/ /\ ReachedTooEarly(t)
     /\ Moves(t, [s EXCEPT !.pc = "back", !.latched = <<>>,
                           !.corner[s.level] = s.predOfPred])
  \/ /\ ~ReachedTooEarly(t)
     /\ Moves(t, [s EXCEPT !.pc = IF s.level = 0 THEN "found" ELSE "search",
                           !.level = IF s.level = 0 THEN 0 ELSE @ - 1,
                           !.corner[s.level] = CornerOf(s.pred)])

Advance(t) ==
  /\ th[t].pc = "search" /\ ~AtListEnd(t)
  /\ CanLatch(t, NextNode(t), th[t].req)
  /\ SmallestKey(NextNode(t)) <= KeyOf(th[t].req)
  /\ Moves(t, [th[t] EXCEPT !.predOfPred = CornerOf(th[t].pred),
                            !.pred = NextNode(t),
                            !.latched = <<NextNode(t)>>])

Descend(t) ==
  /\ th[t].pc = "search"
  /\ \/ AtListEnd(t)
     \/ /\ ~AtListEnd(t)
        /\ CanLatch(t, NextNode(t), th[t].req)
        /\ SmallestKey(NextNode(t)) > KeyOf(th[t].req)
  /\ EndLevel(t)

\* The node stepped back to is latched again; if it changed, all is repeated.
StepBack(t) ==
  LET s == th[t]  p == s.predOfPred IN
  /\ s.pc = "back"
  /\ CanLatch(t, p.id, s.req)
  /\ Moves(t, IF pages[p.id].lsn = p.lsn
              THEN [s EXCEPT !.pc = "search", !.pred = p.id,
                             !.latched = <<p.id>>, !.level = @ - 1]
              ELSE [s EXCEPT !.pc = "retry"])

-----------------------------------------------------------------------------
(***************************************************************************)
(* GetValue, Insert and Remove at the node found.                          *)
(***************************************************************************)
AtNode(t, op) == th[t].pc = "found" /\ th[t].req.op = op

GetValue(t) ==
  LET s == th[t]  es == pages[s.pred].entries IN
  /\ AtNode(t, "get")
  /\ Return(t, IF Found(es, s.req.key) THEN es[NearestIdx(es, s.req.key)].val
               ELSE Absent)
  /\ UNCHANGED pages

Insert(t) ==
  LET s == th[t]
      es == pages[s.pred].entries
      e == EntryOf(s.req.key, s.req.val)
  IN
  /\ AtNode(t, "insert")
  /\ \/ /\ Found(es, e.key)
        /\ pages' = OverwriteEntry(pages, s.pred, e)
        /\ Return(t, TRUE)
     \/ /\ ~Found(es, e.key) /\ ~IsFull(es)
        /\ pages' = InsertEntry(pages, s.pred, e)
        /\ Return(t, TRUE)
     \/ /\ ~Found(es, e.key) /\ IsFull(es)
        /\ \E level \in 1..MaxLevel :
             Moves(t, [pc |-> "validate", req |-> s.req, pred |-> s.pred,
                       predOfPred |-> s.predOfPred, corner |-> s.corner,
                       newLevel |-> level,
                       check |-> [i \in 1..level |-> s.corner[level - i]],
                       latched |-> <<>>])

\* Faulty variant: the node itself is not checked again after its latch was released.
RemoveChecksWithoutNode(s) ==
  LET high == pages[s.pred].level - 1 IN
  [i \in 1..high |-> s.corner[high + 1 - i]] \o <<s.predOfPred>>

\* Faulty variant: the node is latched before the nodes in front of it.
RemoveChecksNodeFirst(s) ==
  LET high == pages[s.pred].level - 1 IN
  <<CornerOf(s.pred), s.predOfPred>> \o [i \in 1..high |-> s.corner[i]]

\* The nodes before this one, highest level first, then the node itself.
RemoveChecks(s) ==
  LET high == pages[s.pred].level - 1 IN
  [i \in 1..high |-> s.corner[high + 1 - i]] \o <<s.predOfPred, CornerOf(s.pred)>>

RemoveKey(t) ==
  LET s == th[t]  es == pages[s.pred].entries IN
  /\ AtNode(t, "remove")
  /\ \/ /\ ~Found(es, s.req.key)
        /\ Return(t, FALSE) /\ UNCHANGED pages
     \/ /\ Found(es, s.req.key) /\ Len(es) > 1
        /\ pages' = RemoveInner(pages, s.pred, s.req.key)
        /\ Return(t, TRUE)
     \/ /\ Found(es, s.req.key) /\ Len(es) = 1
        /\ Moves(t, [pc |-> "validate", req |-> s.req, pred |-> s.pred,
                     predOfPred |-> s.predOfPred, corner |-> s.corner,
                     newLevel |-> 0, check |-> RemoveChecks(s), latched |-> <<>>])

(***************************************************************************)
(* validateNoChangeAndGetLock, one node per step.  The last success is     *)
(* followed, under all the latches, by the split or the unlinking.         *)
(***************************************************************************)
Unchanged(c) == pages[c.id].lsn = c.lsn

SameAsLast(s, c) == s.latched # <<>> /\ Last(s.latched) = c.id

Restructure(t) ==
  LET s == th[t] IN
  /\ pages' = IF s.req.op = "insert"
              THEN SplitNode(pages, s.pred, s.corner, s.newLevel,
                             EntryOf(s.req.key, s.req.val))
              ELSE UnlinkNode(pages, s.pred, s.predOfPred, s.corner)
  /\ Return(t, TRUE)

Validate(t) ==
  LET s == th[t]  c == Head(s.check) IN
  /\ s.pc = "validate"
  /\ SameAsLast(s, c) \/ CanLatch(t, c.id, s.req)
  /\ \/ /\ ~Unchanged(c)
        /\ Moves(t, [pc |-> "retry", req |-> s.req, latched |-> <<>>])
     \/ /\ Unchanged(c) /\ Len(s.check) > 1
        /\ Moves(t, [s EXCEPT !.check = Tail(@),
                              !.latched = IF SameAsLast(s, c) THEN @
                                          ELSE Append(@, c.id)])
     \/ /\ Unchanged(c) /\ Len(s.check) = 1
        /\ Restructure(t)

-----------------------------------------------------------------------------
(***************************************************************************)
(* The iterator: initRIDList reads all entries of the range, node by node. *)
(***************************************************************************)
Collected(entries, from, r) ==
  SelectSeq(SubSeq(entries, from, Len(entries)), LAMBDA e : e.key <= r.range[2])

\* An entry above the range stops the iterator at its node.
CollectAt(t, n, from, out) ==
  LET es == pages[n].entries
      more == Collected(es, from, th[t].req)
  IN  IF from + Len(more) <= Len(es)
      THEN Return(t, out \o more) /\ UNCHANGED pages
      ELSE Moves(t, [pc |-> "collect", req |-> th[t].req, pred |-> n,
                     from |-> Len(es) + 1, out |-> out \o more, latched |-> <<n>>])

ScanFirst(t) ==
  LET s == th[t]  es == pages[s.pred].entries  k == s.req.range[1] IN
  /\ AtNode(t, "scan")
  /\ CollectAt(t, s.pred,
               IF Found(es, k) THEN NearestIdx(es, k) ELSE NearestIdx(es, k) + 1,
               <<>>)

ScanNext(t) ==
  LET s == th[t]  es == pages[s.pred].entries  next == pages[s.pred].fwd[0] IN
  /\ s.pc = "collect"
  /\ \/ /\ s.from <= Len(es)
        /\ CollectAt(t, s.pred, s.from, s.out)
     \/ /\ s.from > Len(es)
        /\ CanLatch(t, next, s.req)
        /\ IF next = Sentinel
           THEN Return(t, s.out) /\ UNCHANGED pages
           ELSE CollectAt(t, next, 1, s.out)

-----------------------------------------------------------------------------
(***************************************************************************)
(* Start-up: a list with its two end nodes, filled with the entries of the *)
(* table one after the other.                                              *)
(***************************************************************************)
EmptyList ==
  [n \in PageId |->
     IF n = StartNode
     THEN NewNode(1, <<EntryOf(InfMin, 0)>>, [l \in Level |-> Sentinel])
     ELSE IF n = Sentinel
     THEN NewNode(MaxLevel, <<EntryOf(InfMax, 0)>>, [l \in Level |-> InvalidPageID])
     ELSE NoNode]

\* The last node of the level whose smallest key is not above k.
CornerAt(pgs, l, k) ==
  LET before == {n \in Linked(pgs, l) : pgs[n].entries[1].key <= k} IN
  CHOOSE n \in before :
    \A m \in before : pgs[m].entries[1].key <= pgs[n].entries[1].key

LoadEntry(pgs, e, level) ==
  LET node == CornerAt(pgs, 0, e.key) IN
  IF IsFull(pgs[node].entries)
  THEN SplitNode(pgs, node, [l \in Level |-> [id |-> CornerAt(pgs, l, e.key)]], level, e)
  ELSE InsertEntry(pgs, node, e)

LoadedList(levels) ==
  FoldLeft(LAMBDA pgs, i : LoadEntry(pgs, Loaded[i], levels[i]),
           EmptyList, [i \in 1..Len(Loaded) |-> i])

Map == INSTANCE OrderedMap WITH
  map <- content,
  call <- [t \in Threads |-> IF th[t].pc = "idle" THEN NoCall ELSE th[t].req]

Init ==
  /\ pages \in {LoadedList(levels) : levels \in [1..Len(Loaded) -> 1..MaxLevel]}
  /\ th = [t \in Threads |-> Idle]
  /\ calls = 0
  /\ ret = [t \in Threads |-> Absent]
  /\ content = Content(pages)
  /\ window = [t \in Threads |-> Map!NoWindow]
  /\ disk = [n \in PageId |-> NoNode]

Step(t) ==
  \/ Retry(t) \/ Advance(t) \/ Descend(t) \/ StepBack(t)
  \/ GetValue(t) \/ Insert(t) \/ RemoveKey(t) \/ Validate(t)
  \/ ScanFirst(t) \/ ScanNext(t)

\* The history follows every step: what the list holds, and what it held
\* while a scan was running.
Observe ==
  LET request(u) == IF u.pc = "idle" THEN NoCall ELSE u.req IN
  /\ content' = IF pages' = pages THEN content ELSE Content(pages')
  /\ window' = [t \in Threads |->
                  Map!Observe(t, window[t], request(th[t]), request(th'[t]), content')]

Next ==
  /\ \E t \in Threads : (\E r \in Requests : Call(t, r)) \/ Step(t)
  /\ Observe

Spec == Init /\ [][Next]_vars /\ \A t \in Threads : WF_th(Step(t))

-----------------------------------------------------------------------------
(***************************************************************************)
(* Buffer pool pressure.  A checkpoint writes nodes; a node marked as      *)
(* deallocated is thrown out unwritten once nobody has a pin on it, and a  *)
(* thread that still has it among its notes reads back the copy on disk.   *)
(* Pinned: the nodes latched, and the node of a split or removal while its *)
(* latch is given up.                                                      *)
(***************************************************************************)
Pinned(n) == \E t \in Threads :
  Holds(t, n) \/ (th[t].pc = "validate" /\ th[t].pred = n)

Checkpoint(n) ==
  /\ pages[n] # NoNode /\ disk[n] # pages[n] /\ ~Pinned(n)
  /\ disk' = [disk EXCEPT ![n] = pages[n]]
  /\ UNCHANGED <<pages, th, calls, ret>>

ThrowOut(n) ==
  /\ pages[n] # NoNode /\ pages[n].isDeallocated /\ ~Pinned(n)
  /\ disk[n] # NoNode
  /\ pages' = [pages EXCEPT ![n] = [disk[n] EXCEPT !.isDeallocated = FALSE]]
  /\ UNCHANGED <<th, calls, ret, disk>>

NextUnderPressure ==
  \/ Next
  \/ /\ \E n \in PageId : Checkpoint(n) \/ ThrowOut(n)
     /\ Observe

SpecUnderPressure == Init /\ [][NextUnderPressure]_vars

-----------------------------------------------------------------------------
(***************************************************************************)
(* Properties.                                                             *)
(***************************************************************************)
Node == [lsn : Nat, level : 1..MaxLevel, entries : Seq(Map!Entry \cup
           {EntryOf(InfMin, 0), EntryOf(InfMax, 0)}) \ {<<>>},
         fwd : [Level -> PageId \cup {InvalidPageID}], isDeallocated : BOOLEAN]

\* Types of the list, the threads and the history: no node is ever empty, and
\* no thread keeps a latch outside a call.
TypeOK ==
  /\ DOMAIN pages = PageId
  /\ \A n \in PageId : pages[n] = NoNode \/ pages[n] \in Node
  /\ \A t \in Threads :
       /\ th[t].pc \in {"idle", "search", "back", "found", "validate",
                        "retry", "collect"}
       /\ th[t].pc # "idle" => th[t].req \in Requests
       /\ ToSet(th[t].latched) \subseteq PageId
       /\ th[t].pc \in {"idle", "back", "retry"} => th[t].latched = <<>>
  /\ calls \in 0..MaxCalls

\* Every level is a chain from the start node to the sentinel with ascending
\* keys and holds exactly the live nodes tall enough for it; entries are in
\* order across the whole lowest level; a node taken out is on no level.
ListWellFormed ==
  LET live == {n \in PageId : pages[n] # NoNode /\ ~pages[n].isDeallocated}
      tall(l) == {n \in live : pages[n].level > l} \cup {StartNode}
      keys(n) == {e.key : e \in ToSet(pages[n].entries)}
  IN
  /\ \A l \in Level :
       LET at == Chain(pages, l) IN
       /\ Last(at) = Sentinel
       /\ ToSet(at) = tall(l)
       /\ \A i \in 1..(Len(at) - 1) :
            \A j \in keys(at[i]), k \in keys(at[i + 1]) : j < k
  /\ \A n \in live : Map!Ascending(pages[n].entries) /\ EntryCnt(n) <= Capacity

\* validateNoChangeAndGetLock lets only nodes through that are still in the
\* list: a node that was removed meanwhile has another LSN, or no page at all.
ValidatedNodesAreLinked ==
  \A t \in Threads :
    th[t].pc = "validate" => ToSet(th[t].latched) \subseteq Linked(pages, 0)

\* Insert, Remove and GetValue take effect atomically, and an iterator returns
\* every entry of its range that was there throughout, in order, and none that
\* was never there.
ImplementsMap == Map!Spec

\* No operation waits for a latch or repeats its search for ever.
EveryCallReturns ==
  \A t \in Threads : th[t].pc # "idle" ~> th[t].pc = "idle"

=============================================================================
