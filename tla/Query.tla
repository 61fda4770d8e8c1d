-------------------------------- MODULE Query --------------------------------
(***************************************************************************)
(* From a parsed query to its result: the rewriting of the predicate, the  *)
(* Selinger optimizer (planner/optimizer), the planner's way around it for *)
(* OR (planner/simple_planner.go), and the execution of the plan.  The     *)
(* statements that the planner makes no plan for, aggregates and ORDER BY  *)
(* with LIMIT, are plans an embedding program builds by itself.            *)
(*                                                                         *)
(* The costs come from statistics that a background thread refreshes from  *)
(* time to time, so any of the candidates may look the cheapest.  One      *)
(* thing is sure: a Selection costs what its child costs and is listed     *)
(* after it, so the joins with a Selection on top are never taken.         *)
(***************************************************************************)
EXTENDS Executors

CONSTANT Queries        \* the queries to start from

VARIABLES query,        \* QueryInfo
          phase,        \* "parsed", "rewritten", "scans", "planned", "done"
          scans,        \* optimalPlans of the single tables
          plan,         \* the plan
          result        \* the tuples the client gets

vars == <<query, phase, scans, plan, result>>

NoPlan == [kind |-> "none"]
And(conds) == [logic |-> "AND", conds |-> conds]

-----------------------------------------------------------------------------
(***************************************************************************)
(* The range of an index key that the conditions on its column leave.      *)
(***************************************************************************)
NewRange(type) ==
  [min |-> InfMin(type), max |-> InfMax(type), minInclusive |-> FALSE, maxInclusive |-> FALSE]

Empty(r) == IsInfMin(r.min) /\ IsInfMax(r.max)

UpperBound(r, rhs, inclusive) == [r EXCEPT !.max = rhs, !.maxInclusive = inclusive]
LowerBound(r, rhs, inclusive) == [r EXCEPT !.min = rhs, !.minInclusive = inclusive]

\* Faulty variant: the side of the constant is not looked at.
BoundsAboveAnySide(c) == c.op \in {"<", "<="}

\* x < 10 and 10 > x bound from above, x > 10 and 10 < x from below.
BoundsAbove(c) == c.op \in IF c.form = "const" THEN {"<", "<="} ELSE {">", ">="}

UpdateStrict(r, c) ==
  IF BoundsAbove(c)
    THEN IF IsInfMax(r.max) \/ CompareLessThan(c.val, r.max)
         THEN UpperBound(r, c.val, FALSE) ELSE r
    ELSE IF IsInfMin(r.min) \/ CompareLessThan(r.min, c.val)
         THEN LowerBound(r, c.val, FALSE) ELSE r

UpdateInclusive(r, c) ==
  IF BoundsAbove(c)
    THEN IF IsInfMax(r.max) \/ CompareLessThanOrEqual(c.val, r.max)
         THEN UpperBound(r, c.val, TRUE) ELSE r
    ELSE LowerBound(r, c.val, TRUE)

Update(r, c) ==
  CASE c.op = "="          -> UpperBound(LowerBound(r, c.val, TRUE), c.val, TRUE)
    [] c.op = "<>"         -> r
    [] c.op \in {"<", ">"} -> UpdateStrict(r, c)
    [] OTHER               -> UpdateInclusive(r, c)

\* columnStats.EstimateCount, called for the cost, exchanges the bounds in
\* place when they are the wrong way round.
Ordered(r) ==
  IF CompareLessThanOrEqual(r.max, r.min) THEN [r EXCEPT !.min = r.max, !.max = r.min] ELSE r

-----------------------------------------------------------------------------
(***************************************************************************)
(* Scans of one table.  The stack of findBestScan takes the conditions     *)
(* from the last to the first.                                             *)
(***************************************************************************)
TypeOf(table, col) == Database[table][1][col].type

relatedOps(table, conds) ==
  SelectSeq(Reverse(conds), LAMBDA c : c.form # "columns" /\ c.col \in Columns[table])

RangeOf(table, col, conds) ==
  FoldLeft(Update, NewRange(TypeOf(table, col)),
           SelectSeq(relatedOps(table, conds), LAMBDA c : c.col = col))

touchOnly(ops, col) == \A i \in DOMAIN ops : ops[i].col = col

SelectionPlan(child, conds) == [kind |-> "Selection", child |-> child, pred |-> And(conds)]
ProjectionPlan(child, cols) == [kind |-> "Projection", child |-> child, cols |-> cols]

\* Faulty variant: open ends of the range are not checked.
NeedsSelectionForOthers(table, col, ops, r) == ~touchOnly(ops, col)

NeedsSelection(table, col, ops, r) ==
  ~r.minInclusive \/ ~r.maxInclusive \/ ~touchOnly(ops, col)

RangeScanPlan(table, col, conds) ==
  LET ops  == relatedOps(table, conds)
      r    == RangeOf(table, col, conds)
      scan == [kind |-> "RangeScan", table |-> table, col |-> col,
               min |-> Ordered(r).min, max |-> Ordered(r).max]
  IN  IF NeedsSelection(table, col, ops, r) THEN SelectionPlan(scan, ops) ELSE scan

SeqScanPlan(table, conds) ==
  LET ops  == relatedOps(table, conds)
      scan == [kind |-> "SeqScan", table |-> table, pred |-> And(<< >>)]
  IN  IF ops = << >> THEN scan ELSE SelectionPlan(scan, ops)

\* Every column of a table made by CREATE TABLE has an index.
ScanPlans(table, conds) ==
  {SeqScanPlan(table, conds)} \union
  {RangeScanPlan(table, col, conds) : col \in {c \in Columns[table] : ~Empty(RangeOf(table, c, conds))}}

findBestScan(table, conds, needed) ==
  {IF needed = Columns[table] THEN p ELSE ProjectionPlan(p, needed) : p \in ScanPlans(table, conds)}

TouchedColumns(q) ==
  q.fields \union UNION {IF c.form = "columns" THEN {c.col, c.other} ELSE {c.col} :
                           c \in ToSet(q.where.conds)}

-----------------------------------------------------------------------------
(***************************************************************************)
(* Joins of two plans.                                                     *)
(***************************************************************************)
RECURSIVE OutputSchema(_)
OutputSchema(p) ==
  CASE p.kind \in {"SeqScan", "RangeScan"} -> Columns[p.table]
    [] p.kind = "Selection"  -> OutputSchema(p.child)
    [] p.kind = "Projection" -> p.cols
    [] p.kind \in {"HashJoin", "NestedLoopJoin"} -> OutputSchema(p.left) \union OutputSchema(p.right)
    [] p.kind = "IndexJoin"  -> OutputSchema(p.left) \union Columns[p.table]

\* The pairs of columns that the predicate equates, the left plan's first.
equals(conds, left, right) ==
  LET has(p, col) == col \in OutputSchema(p)
      pairs == [i \in DOMAIN conds |->
                 LET c == conds[i] IN
                 IF c.form # "columns" THEN << >>
                 ELSE IF has(left, c.col) /\ has(right, c.other) THEN <<c.col, c.other>>
                 ELSE IF has(right, c.col) /\ has(left, c.other) THEN <<c.other, c.col>>
                 ELSE << >>]
  IN  SelectSeq(pairs, LAMBDA p : p # << >>)

HashJoinPlan(left, right, lkey, rkey) ==
  [kind |-> "HashJoin", left |-> left, right |-> right, lkey |-> lkey, rkey |-> rkey]

\* The right plan, with what it selects, is not used: only its table is.
IndexJoinPlan(left, table, lkey, rkey) ==
  [kind |-> "IndexJoin", left |-> left, table |-> table, lkey |-> lkey, rkey |-> rkey]

findBestJoinInner(conds, left, right, rightTable) ==
  LET eq == equals(conds, left, right) IN
  IF Len(eq) = 1
    THEN {HashJoinPlan(left, right, eq[1][1], eq[1][2]),
          HashJoinPlan(right, left, eq[1][2], eq[1][1]),
          IndexJoinPlan(left, rightTable, eq[1][1], eq[1][2])}
    ELSE {[kind |-> "NestedLoopJoin", left |-> left, right |-> right]}

-----------------------------------------------------------------------------
\* ExecutionEngine.Execute and CreateExecutor.
RECURSIVE Execute(_)
Execute(p) ==
  CASE p.kind = "SeqScan"        -> SeqScan(p.table, p.pred)
    [] p.kind = "RangeScan"      -> RangeScanWithIndex(p.table, p.col, p.min, p.max)
    [] p.kind = "Selection"      -> Selection(p.pred, Execute(p.child))
    [] p.kind = "Projection"     -> projects(p.cols, Execute(p.child))
    [] p.kind = "HashJoin"       -> HashJoin(p.lkey, p.rkey, Execute(p.left), Execute(p.right))
    [] p.kind = "IndexJoin"      -> IndexJoin(p.lkey, p.rkey, Execute(p.left), p.table)
    [] p.kind = "NestedLoopJoin" -> NestedLoopJoin(Execute(p.left), Execute(p.right))

-----------------------------------------------------------------------------
Init ==
  /\ query \in Queries
  /\ phase = IF query.kind = "select" THEN "parsed" ELSE "planned"
  /\ scans = [t \in {} |-> NoPlan]
  /\ plan = NoPlan
  /\ result = << >>

\* The condition of ON joins the ones of WHERE.
RewriteQueryInfo ==
  /\ phase = "parsed"
  /\ query' = [query EXCEPT !.where.conds = @ \o query.on, !.on = << >>]
  /\ phase' = "rewritten"
  /\ UNCHANGED <<scans, plan, result>>

\* The optimizer does not support OR.
MakeSelectPlanWithoutJoin ==
  /\ phase = "rewritten" /\ query.where.logic = "OR" /\ Cardinality(query.from) = 1
  /\ \E t \in query.from :
       plan' = ProjectionPlan([kind |-> "SeqScan", table |-> t, pred |-> query.where], query.fields)
  /\ phase' = "planned"
  /\ UNCHANGED <<query, scans, result>>

findBestScans ==
  /\ phase = "rewritten" /\ query.where.logic = "AND"
  /\ LET best(t) == findBestScan(t, query.where.conds, TouchedColumns(query) \intersect Columns[t])
     IN  \E choice \in [query.from -> UNION {best(t) : t \in query.from}] :
           /\ \A t \in query.from : choice[t] \in best(t)
           /\ scans' = choice
  /\ phase' = "scans"
  /\ UNCHANGED <<query, plan, result>>

\* Faulty variant: the columns needed below stay in the result.
WithoutFinalProjection(p) == p

WithFinalProjection(p) ==
  IF Cardinality(OutputSchema(p)) > Cardinality(query.fields) THEN ProjectionPlan(p, query.fields) ELSE p

\* One table keeps its scan; of two, either may be the left one.
findBestJoin ==
  /\ phase = "scans"
  /\ \/ \E t \in query.from : query.from = {t} /\ plan' = WithFinalProjection(scans[t])
     \/ \E base, join \in query.from : \E p \in findBestJoinInner(query.where.conds, scans[base], scans[join], join) :
          base # join /\ plan' = WithFinalProjection(p)
  /\ phase' = "planned"
  /\ UNCHANGED <<query, scans, result>>

ExecuteSelect ==
  /\ phase = "planned" /\ query.kind = "select"
  /\ result' = Execute(plan)
  /\ phase' = "done"
  /\ UNCHANGED <<query, scans, plan>>

ExecuteAggregation ==
  /\ phase = "planned" /\ query.kind = "aggregate"
  /\ LET ht == AggregationTable(query.group, query.arg, query.rows) IN
     \E order \in IterationOrders(ht) :
       /\ plan' = [kind |-> "Aggregation", order |-> order]
       /\ result' = Aggregation(order, ht, query.having)
  /\ phase' = "done"
  /\ UNCHANGED <<query, scans>>

ExecuteOrderbyLimit ==
  /\ phase = "planned" /\ query.kind = "top"
  /\ \E sorted \in Orderbys(query.by, query.rows) : result' = Limit(query.limit, query.offset, sorted)
  /\ phase' = "done"
  /\ UNCHANGED <<query, scans, plan>>

Next ==
  \/ RewriteQueryInfo \/ MakeSelectPlanWithoutJoin \/ findBestScans \/ findBestJoin
  \/ ExecuteSelect \/ ExecuteAggregation \/ ExecuteOrderbyLimit

Spec == Init /\ [][Next]_vars

-----------------------------------------------------------------------------
(***************************************************************************)
(* Properties.                                                             *)
(***************************************************************************)
\* Every tuple of a result has the columns that were asked for: the columns
\* that the pushed-down projections keep are enough for every join and
\* selection above them, whichever plan is taken.
TypeOK ==
  /\ phase \in {"parsed", "rewritten", "scans", "planned", "done"}
  /\ DOMAIN scans \subseteq Tables
  /\ phase = "done" /\ query.kind = "select" =>
       \A i \in DOMAIN result : DOMAIN result[i] = query.fields

\* The reference: the combinations of rows that satisfy the whole predicate.
Combinations == {f \in [query.from -> 1 .. Max({Len(Database[t]) : t \in query.from})] :
                   \A t \in query.from : f[t] \in DOMAIN Database[t]}
RowOf(f) == [c \in UNION {Columns[t] : t \in query.from} |->
               LET t == CHOOSE u \in query.from : c \in Columns[u] IN Database[t][f[t]][c]]
Answers == {f \in Combinations : Selects(query.where, RowOf(f))}
Answer(f) == [c \in query.fields |-> RowOf(f)[c]]
Returned(row) == Cardinality({i \in DOMAIN result : result[i] = row})
Selected == phase = "done" /\ query.kind = "select"

\* The plan scans the index of a Varchar column over a range with an open end.
\* The infinities of Varchar are ordinary strings to the index, the lower one
\* behind the upper one: such a scan finds nothing below its upper bound, and
\* nothing behind "SamehadaDBInfMaxValue" above its lower bound.
RECURSIVE ScansOpenVarcharRange(_)
ScansOpenVarcharRange(p) ==
  CASE p.kind = "RangeScan" -> /\ TypeOf(p.table, p.col) = "Varchar"
                               /\ IsInfMin(p.min) \/ IsInfMax(p.max)
    [] p.kind \in {"Projection", "Selection"} -> ScansOpenVarcharRange(p.child)
    [] p.kind \in {"HashJoin", "NestedLoopJoin"} ->
         ScansOpenVarcharRange(p.left) \/ ScansOpenVarcharRange(p.right)
    [] p.kind = "IndexJoin" -> ScansOpenVarcharRange(p.left)
    [] OTHER -> FALSE

\* Whatever plan the statistics make the cheapest, unless it scans an open range
\* of Varchar, every combination of rows that satisfies the predicate is in the
\* result, as often as it occurs: index ranges narrowed by several conditions in
\* any order, contradictory ones included, hash joins over several temporary
\* pages with colliding hashes, and index joins lose no row.  (A hash join of
\* tuples with a size outside of TmpPageAssumption panics instead.)
NoRowLost ==
  Selected /\ ~ScansOpenVarcharRange(plan) =>
    \A f \in Answers :
      Returned(Answer(f)) >= Cardinality({g \in Answers : Answer(g) = Answer(f)})

\* The queries whose index ranges say all that their conditions say: a column
\* is compared once, or once from below and once from above in the right order.
OnColumn(col) == {c \in ToSet(query.where.conds) : c.form # "columns" /\ c.col = col}
RangeIsTheCondition(col) ==
  \/ Cardinality(OnColumn(col)) <= 1
  \/ \E low, high \in OnColumn(col) :
       /\ OnColumn(col) = {low, high} /\ {low.op, high.op} \intersect {"=", "<>"} = {}
       /\ ~BoundsAbove(low) /\ BoundsAbove(high) /\ CompareLessThanOrEqual(low.val, high.val)
JoinColumnPairs == Cardinality({c \in ToSet(query.where.conds) : c.form = "columns"})

\* The index join reads the right table and not the right plan.
RECURSIVE DropsConditions(_)
DropsConditions(p) ==
  CASE p.kind \in {"Projection", "Selection"} -> DropsConditions(p.child)
    [] p.kind = "IndexJoin" -> relatedOps(p.table, query.where.conds) # << >>
    [] OTHER -> FALSE

\* For these queries every plan but a scan of an open range of Varchar and an
\* index join whose right table has conditions of its own returns exactly the
\* answer: the selections that findBestScan leaves out for inclusive ranges are
\* not needed.
ExactForRanges ==
  /\ Selected
  /\ \A t \in query.from : \A col \in Columns[t] : RangeIsTheCondition(col)
  /\ JoinColumnPairs <= 1
  /\ ~DropsConditions(plan) /\ ~ScansOpenVarcharRange(plan)
  => Len(result) = Cardinality(Answers)

\* Every group that passes HAVING is returned once, with the count of its rows
\* and the wrapped sum and the extremes of its values that are not NULL,
\* whatever the order in which the map of groups is read; and nothing else is
\* returned, except that Next does not skip the group it reads last.  That
\* exception is against the test of HAVING: see the README.
GroupRows(group) == {i \in DOMAIN query.rows : query.rows[i][query.group] = group}
GroupArgs(group) == {i \in GroupRows(group) : ~query.rows[i][query.arg].null}
GroupAggregates(group) ==
  LET arg(i) == query.rows[i][query.arg].v
      args   == {arg(i) : i \in GroupArgs(group)}
  IN  [count |-> Integer(Cardinality(GroupRows(group))),
       sum   |-> Integer(Wrap(MapThenSumSet(arg, GroupArgs(group)))),
       min   |-> Integer(Min(args \union {MaxInt})),
       max   |-> Integer(Max(args \union {MinInt}))]

AggregationExact ==
  phase = "done" /\ query.kind = "aggregate" =>
    LET groups == {query.rows[i][query.group] : i \in DOMAIN query.rows}
        passes(g) == Having(query.having, GroupAggregates(g))
        lastReadPasses == plan.order = << >> \/ passes(Last(plan.order))
    IN  /\ \A g \in groups : passes(g) => \E i \in DOMAIN result : result[i].group = g
        /\ \A i, j \in DOMAIN result : i # j => result[i].group # result[j].group
        /\ \A i \in DOMAIN result : result[i].aggs = GroupAggregates(result[i].group)
        /\ lastReadPasses => \A i \in DOMAIN result : passes(result[i].group)

\* ORDER BY with LIMIT and OFFSET returns the rows whose ranks are in the
\* window: the i-th one has fewer than offset + i rows before it, and at least
\* that many that it does not come before; a row is never returned twice.
TopRowsInWindow ==
  phase = "done" /\ query.kind = "top"
  /\ (\A i \in DOMAIN query.rows, j \in DOMAIN query.by : ~query.rows[i][query.by[j].col].null) =>
    LET n == Len(query.rows)
        before(t) == Cardinality({i \in 1 .. n : SortsBefore(query.by, query.rows[i], t)})
        upTo(t)   == Cardinality({i \in 1 .. n : ~SortsBefore(query.by, t, query.rows[i])})
    IN  /\ Len(result) = Min({query.limit, Max({0, n - query.offset})})
        /\ \A i \in DOMAIN result : /\ before(result[i]) < query.offset + i
                                    /\ query.offset + i <= upTo(result[i])
        /\ \A i \in DOMAIN result :
             Returned(result[i]) <= Cardinality({j \in 1 .. n : query.rows[j] = result[i]})

=============================================================================
