------------------------------- MODULE MCQuery -------------------------------
(* Two tables, Integer columns with the extreme values, a Varchar column    *)
(* with strings on both sides of its infinities.                            *)
EXTENDS Query

ColumnsDef == [A |-> {"A.k", "A.p"}, B |-> {"B.k", "B.q"}]

RowA(k, p) == "A.k" :> Integer(k) @@ "A.p" :> Integer(p)
RowB(k, q) == "B.k" :> Integer(k) @@ "B.q" :> Varchar(q)

DatabaseDef ==
  [A |-> <<RowA(2, 1), RowA(1, 0), RowA(MinInt, 1), RowA(1, 1), RowA(2, 1), RowA(MaxInt, 0)>>,
   B |-> <<RowB(2, 1), RowB(0, 2), RowB(1, 10), RowB(2, 2)>>]

SeqsUpTo(S, n) == UNION {[1 .. i -> S] : i \in 0 .. n}

OnKeyA == {OfConstant("A.k", op, Integer(n)) : op \in ComparisonType, n \in {1, 2}}
            \union {OfConstant("A.k", op, Integer(MaxInt)) : op \in {"<", "<="}}
            \union {OfConstantLeft(Integer(1), op, "A.k") : op \in {"=", "<", ">="}}
OnA == {OfConstant("A.p", op, Integer(1)) : op \in {"=", ">="}}
OnB == {OfConstant("B.k", "=", Integer(2)), OfConstant("B.k", ">", Integer(0)),
        OfConstant("B.q", "=", Varchar(2)), OfConstant("B.q", "<>", Varchar(1))}
OnQ == {OfConstant("B.q", op, Varchar(s)) : op \in ComparisonType, s \in {1, 2}}
         \union {OfConstant("B.q", "<=", Varchar(10)), OfConstantLeft(Varchar(2), "<", "B.q")}
JoinConds == {OfConstant("A.k", ">=", Integer(1)), OfConstant("A.k", "<", Integer(2)),
              OfConstant("A.p", "=", Integer(1)), OfConstant("B.q", "<", Varchar(2))} \union OnB
Ons == {<< >>, <<OfColumns("A.k", "B.k")>>, <<OfColumns("B.k", "A.k")>>,
        <<OfColumns("A.k", "B.k"), OfColumns("A.p", "B.k")>>}

SelectQuery(from, fields, logic, conds, on) ==
  [kind |-> "select", from |-> from, fields |-> fields,
   where |-> [logic |-> logic, conds |-> conds], on |-> on]

Selects1 == {SelectQuery({"A"}, {"A.k"}, "AND", conds, << >>) : conds \in SeqsUpTo(OnKeyA, 3)}
Selects2 == {SelectQuery({"A"}, {"A.p"}, "AND", conds, << >>) : conds \in SeqsUpTo(OnKeyA \union OnA, 2)}
Selects3 == {SelectQuery({"B"}, {"B.k"}, "AND", conds, << >>) : conds \in SeqsUpTo(OnQ, 3)}
SelectsOr == {SelectQuery({"A"}, {"A.p"}, "OR", conds, << >>) :
                conds \in {s \in SeqsUpTo(OnKeyA \union OnA, 2) : \A i \in DOMAIN s : s[i].form = "const"} \ {<< >>}}
SelectsJoin == {SelectQuery({"A", "B"}, fields, "AND", conds, on) :
                  fields \in {{"A.p", "B.q"}, {"B.k"}}, conds \in SeqsUpTo(JoinConds, 2), on \in Ons}

AggRows == {"g" :> g @@ "x" :> x : g \in {Integer(0), Integer(1), Null("Integer")},
                                   x \in {Integer(5), Integer(-1), Null("Integer")}}
Havings == {[op |-> "none", agg |-> "count", val |-> Integer(0)],
            [op |-> ">=", agg |-> "count", val |-> Integer(2)],
            [op |-> "<", agg |-> "sum", val |-> Integer(0)]}
Aggregates == {[kind |-> "aggregate", rows |-> rows, group |-> "g", arg |-> "x", having |-> h] :
                 rows \in SeqsUpTo(AggRows, 3), h \in Havings}

TopRows == {"k" :> k @@ "p" :> Integer(p) : k \in {Integer(1), Integer(2), Null("Integer")}, p \in 0 .. 1}
By(col, order) == [col |-> col, order |-> order]
Tops == {[kind |-> "top", rows |-> rows, by |-> by, limit |-> l, offset |-> o] :
           rows \in SeqsUpTo(TopRows, 3), by \in {<<By("k", "ASC")>>, <<By("k", "DESC"), By("p", "ASC")>>},
           l \in 0 .. 2, o \in 0 .. 2}

QueriesDef == Selects1 \union Selects2 \union Selects3 \union SelectsOr \union SelectsJoin \union Aggregates \union Tops
=============================================================================
