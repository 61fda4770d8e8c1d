------------------------------ MODULE Executors ------------------------------
(***************************************************************************)
(* The query executors (execution/executors) over a database that nobody   *)
(* changes meanwhile; TransactionManager and IndexedTable model what       *)
(* happens when somebody does.                                             *)
(*                                                                         *)
(* A tuple is a function from its columns to values, a stream of tuples is *)
(* a sequence.  Init and Next of an executor are modelled together by the  *)
(* sequence that the execution engine collects from them.                  *)
(***************************************************************************)
EXTENDS Values, SequencesExt, FiniteSetsExt

CONSTANTS Columns,      \* Columns[t]: the columns of table t
          Database,     \* Database[t]: the rows of table t in heap order
          TupleSize,    \* bytes of a tuple that a hash join stores
          TmpPageSize,  \* bytes of a page
          TmpHeader,    \* offsetFreeSpace + 4
          UInt32,       \* 2^32, scaled down
          HashSpread    \* how many hash values there are

Tables == DOMAIN Columns

\* A tuple takes four bytes more than its size.  Outside of the second
\* conjunct the subtraction in TmpTuplePage.Insert wraps around and the
\* executor panics: see the README.
ASSUME TmpPageAssumption ==
  /\ \A n \in {TupleSize, TmpPageSize, TmpHeader, UInt32, HashSpread} : n \in Nat \ {0}
  /\ \/ 4 + TupleSize <= TmpHeader
     \/ TmpPageSize % (4 + TupleSize) < TmpHeader
  /\ TmpHeader + 4 + TupleSize <= TmpPageSize /\ TmpPageSize < UInt32

\* SQL statements cannot store a NULL: the parser has no literal for it.
ASSUME DatabaseAssumption ==
  \A t \in Tables : \A i \in DOMAIN Database[t] :
    DOMAIN Database[t][i] = Columns[t] /\ \A c \in Columns[t] : ~Database[t][i][c].null

-----------------------------------------------------------------------------
(***************************************************************************)
(* Predicates: comparisons of a column with a constant, on either side,    *)
(* or with a column.                                                       *)
(***************************************************************************)
OfConstant(col, op, val) == [form |-> "const", col |-> col, op |-> op, val |-> val]
OfConstantLeft(val, op, col) == [form |-> "constLeft", col |-> col, op |-> op, val |-> val]
OfColumns(col, other) == [form |-> "columns", col |-> col, op |-> "=", other |-> other]

Evaluate(c, t) ==
  CASE c.form = "const"     -> performComparison(c.op, t[c.col], c.val)
    [] c.form = "constLeft" -> performComparison(c.op, c.val, t[c.col])
    [] c.form = "columns"   -> performComparison(c.op, t[c.col], t[c.other])

\* performLogicalOp over a chain of one operator; no predicate selects all.
Selects(pred, t) ==
  \/ pred.conds = << >>
  \/ pred.logic = "AND" /\ \A i \in DOMAIN pred.conds : Evaluate(pred.conds[i], t)
  \/ pred.logic = "OR"  /\ \E i \in DOMAIN pred.conds : Evaluate(pred.conds[i], t)

Selection(pred, tuples) == SelectSeq(tuples, LAMBDA t : Selects(pred, t))

projects(cols, tuples) == [i \in DOMAIN tuples |-> [c \in cols |-> tuples[i][c]]]

-----------------------------------------------------------------------------
SeqScan(table, pred) == Selection(pred, Database[table])

\* The index yields its entries in the order of their keys.  A NULL has the
\* key of its default content; the recheck of the fetched tuple that makes the
\* scan abort then is in IndexedTable.
PointScanWithIndex(table, col, key) ==
  SelectSeq(Database[table], LAMBDA t : EncodeKey(t[col]) = EncodeKey(key))

RangeScanWithIndex(table, col, min, max) ==
  SortSeq(SelectSeq(Database[table],
                    LAMBDA t : /\ EncodeKey(min) <= EncodeKey(t[col])
                               /\ EncodeKey(t[col]) <= EncodeKey(max)),
          LAMBDA s, t : EncodeKey(s[col]) < EncodeKey(t[col]))

-----------------------------------------------------------------------------
(***************************************************************************)
(* HashJoinExecutor.  Init stores the left tuples in temporary pages and   *)
(* enters the place of each under the hash of its key; Next looks up the   *)
(* tuples of the right side one after the other.                           *)
(***************************************************************************)
TmpFits(free) == (free - (4 + TupleSize)) % UInt32 >= TmpHeader

StoreInNewPage(built, t) ==
  [built EXCEPT !.pages = Append(@, <<t>>),
                !.free = TmpPageSize - (4 + TupleSize),
                !.place = <<Len(built.pages) + 1, 1>>]

StoreInLastPage(built, t) ==
  LET last == Len(built.pages) IN
  [built EXCEPT !.pages[last] = Append(@, t),
                !.free = @ - (4 + TupleSize),
                !.place = <<last, Len(built.pages[last]) + 1>>]

TmpInsert(built, t) ==
  IF built.pages # << >> /\ TmpFits(built.free)
    THEN StoreInLastPage(built, t)
    ELSE StoreInNewPage(built, t)

HashValue(x) == x.v % HashSpread

JHTInsert(built, key) ==
  IF key.null THEN built
  ELSE [built EXCEPT !.jht[HashValue(key)] = Append(@, built.place)]

BuildHashTable(lkey, left) ==
  FoldLeft(LAMBDA built, t : JHTInsert(TmpInsert(built, t), t[lkey]),
           [pages |-> << >>, free |-> 0, place |-> << >>,
            jht |-> [h \in 0 .. HashSpread - 1 |-> << >>]],
           left)

ProbeHashTable(built, lkey, rkey, r) ==
  LET places == IF r[rkey].null THEN << >> ELSE built.jht[HashValue(r[rkey])]
      lefts  == [i \in DOMAIN places |-> built.pages[places[i][1]][places[i][2]]]
      valid  == SelectSeq(lefts, LAMBDA l : CompareEquals(l[lkey], r[rkey]))
  IN  [i \in DOMAIN valid |-> valid[i] @@ r]

HashJoin(lkey, rkey, left, right) ==
  LET built == BuildHashTable(lkey, left) IN
  FlattenSeq([i \in DOMAIN right |-> ProbeHashTable(built, lkey, rkey, right[i])])

(***************************************************************************)
(* IndexJoinExecutor: a point scan of the right table for every left key,  *)
(* remembered under the content of the key when it found something.        *)
(***************************************************************************)
JoinOne(lkey, rkey, table, acc, l) ==
  LET key   == l[lkey].v
      found == IF key \in DOMAIN acc.cache THEN acc.cache[key]
               ELSE PointScanWithIndex(table, rkey, l[lkey])
  IN  [cache |-> IF found = << >> THEN acc.cache ELSE (key :> found) @@ acc.cache,
       out   |-> acc.out \o [i \in DOMAIN found |-> l @@ found[i]]]

IndexJoin(lkey, rkey, left, table) ==
  FoldLeft(LAMBDA acc, l : JoinOne(lkey, rkey, table, acc, l),
           [cache |-> [k \in {} |-> << >>], out |-> << >>], left).out

\* There is no predicate: every left tuple with every right tuple.
NestedLoopJoin(left, right) ==
  FlattenSeq([i \in DOMAIN left |-> [j \in DOMAIN right |-> left[i] @@ right[j]]])

-----------------------------------------------------------------------------
(***************************************************************************)
(* AggregationExecutor with one group-by column and the four aggregates of *)
(* one column.  The hash of a group-by key is taken to be the key: two     *)
(* keys that the 32 bit hash confuses would share a group.                 *)
(***************************************************************************)
\* Faulty variant: the minimum starts at zero like the others.
InitialAggregateZero ==
  [count |-> Integer(0), sum |-> Integer(0), min |-> Integer(0), max |-> Integer(MinInt)]

InitialAggregateValue ==
  [count |-> Integer(0), sum |-> Integer(0), min |-> Integer(MaxInt), max |-> Integer(MinInt)]

CombineAggregateValues(agg, x) ==
  [count |-> Add(agg.count, Integer(1)), sum |-> Add(agg.sum, x),
   min |-> MinValue(agg.min, x), max |-> MaxValue(agg.max, x)]

InsertCombine(ht, key, x) ==
  LET old == IF key \in DOMAIN ht THEN ht[key] ELSE InitialAggregateValue
  IN  (key :> CombineAggregateValues(old, x)) @@ ht

AggregationTable(group, arg, tuples) ==
  FoldLeft(LAMBDA ht, t : InsertCombine(ht, t[group], t[arg]), [k \in {} |-> {}], tuples)

\* A Go map is read in any order.
IterationOrders(ht) == SetToSeqs(DOMAIN ht)

Having(having, aggs) == having.op = "none" \/ performComparison(having.op, aggs[having.agg], having.val)

\* Next leaves its loop over the groups that fail HAVING at the last group,
\* whether that one passes or not.
SkipFailing(order, ht, having, from) ==
  CHOOSE i \in from .. Len(order) :
    /\ i = Len(order) \/ Having(having, ht[order[i]])
    /\ \A j \in from .. i - 1 : ~Having(having, ht[order[j]])

AggregationNext(order, ht, having, acc) ==
  IF acc.at > Len(order) THEN acc
  ELSE LET i == SkipFailing(order, ht, having, acc.at)
       IN  [at |-> i + 1, out |-> Append(acc.out, [group |-> order[i], aggs |-> ht[order[i]]])]

Aggregation(order, ht, having) ==
  FoldLeft(LAMBDA acc, n : AggregationNext(order, ht, having, acc),
           [at |-> 1, out |-> << >>], [n \in 1 .. Len(order) |-> n]).out

-----------------------------------------------------------------------------
(***************************************************************************)
(* OrderbyExecutor.  The comparison of sort.Slice, column by column; how   *)
(* it arranges tuples with equal keys is left open, and so is everything   *)
(* when a key is NULL, for the comparison is no order then.                *)
(***************************************************************************)
SortsBefore(by, s, t) ==
  \E i \in DOMAIN by :
    /\ \A j \in 1 .. i - 1 : CompareEquals(s[by[j].col], t[by[j].col])
    /\ ~CompareEquals(s[by[i].col], t[by[i].col])
    /\ CompareLessThan(s[by[i].col], t[by[i].col]) = (by[i].order = "ASC")

Orderbys(by, tuples) ==
  LET n     == Len(tuples)
      nulls == \E i \in 1 .. n, j \in DOMAIN by : tuples[i][by[j].col].null
      sorted(p) == \A i, j \in 1 .. n : i < j => ~SortsBefore(by, tuples[p[j]], tuples[p[i]])
  IN  {[i \in 1 .. n |-> tuples[p[i]]] : p \in {q \in SetToSeqs(1 .. n) : nulls \/ sorted(q)}}

\* Faulty variant: the limit itself is not reached.
LimitNextOneLess(limit, offset, acc, t) ==
  IF acc.done THEN acc
  ELSE IF acc.skipped < offset THEN [acc EXCEPT !.skipped = @ + 1]
  ELSE IF acc.emitted + 1 >= limit THEN [acc EXCEPT !.emitted = @ + 1, !.done = TRUE]
  ELSE [acc EXCEPT !.emitted = @ + 1, !.out = Append(@, t)]

\* LimitExecutor.Next, once per tuple of the child until it says done.
LimitNext(limit, offset, acc, t) ==
  IF acc.done THEN acc
  ELSE IF acc.skipped < offset THEN [acc EXCEPT !.skipped = @ + 1]
  ELSE IF acc.emitted + 1 > limit THEN [acc EXCEPT !.emitted = @ + 1, !.done = TRUE]
  ELSE [acc EXCEPT !.emitted = @ + 1, !.out = Append(@, t)]

Limit(limit, offset, tuples) ==
  FoldLeft(LAMBDA acc, t : LimitNext(limit, offset, acc, t),
           [skipped |-> 0, emitted |-> 0, done |-> FALSE, out |-> << >>], tuples).out

=============================================================================
