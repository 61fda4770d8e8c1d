------------------------------- MODULE Values -------------------------------
(***************************************************************************)
(* SQL values (types/column_value.go): their comparison, the arithmetic of *)
(* the aggregates and their encoding as index keys (samehada_util.go).     *)
(*                                                                         *)
(* A value is its type, its null flag and its content.  Contents are       *)
(* numbers: an int32 scaled down to MinInt..MaxInt, or the place of a      *)
(* string in byte order.  Floats behave like integers and Booleans like a  *)
(* type of two values; both are left out.  The infinities are values of    *)
(* the type like any other: MaxInt32, "SamehadaDBInfMaxValue" and so on.   *)
(***************************************************************************)
EXTENDS Integers

CONSTANTS MaxInt,      \* MaxInt32, scaled down
          InfMaxString, InfMinString   \* places of the two strings in byte order

MinInt == -MaxInt - 1
Word == 2 * (MaxInt + 1)

\* Inserting and comparing need no more of a string than its place; the empty
\* string comes first, and "...Max..." comes before "...Min...".
ASSUME ValuesAssumption ==
  /\ MaxInt \in Nat \ {0}
  /\ InfMaxString \in Nat /\ InfMinString \in Nat
  /\ 0 < InfMaxString /\ InfMaxString < InfMinString

Integer(n) == [type |-> "Integer", null |-> FALSE, v |-> n]
Varchar(s) == [type |-> "Varchar", null |-> FALSE, v |-> s]

\* SetNull resets the content to the default of the type.
Null(type) == [type |-> type, null |-> TRUE, v |-> 0]

IsInfMax(x) == x.v = IF x.type = "Integer" THEN MaxInt ELSE InfMaxString
IsInfMin(x) == x.v = IF x.type = "Integer" THEN MinInt ELSE InfMinString

InfMax(type) == IF type = "Integer" THEN Integer(MaxInt) ELSE Varchar(InfMaxString)
InfMin(type) == IF type = "Integer" THEN Integer(MinInt) ELSE Varchar(InfMinString)

-----------------------------------------------------------------------------
(***************************************************************************)
(* Comparison.  An infinity is beyond every other value whatever its       *)
(* content.  The strict comparisons look at the left operand's null flag   *)
(* only: a NULL on the right counts as its default content.                *)
(***************************************************************************)
Place(x) == IF IsInfMax(x) THEN 2 ELSE IF IsInfMin(x) THEN 0 ELSE 1

Below(x, y) ==
  Place(x) < Place(y) \/ (Place(x) = 1 /\ Place(y) = 1 /\ x.v < y.v)

CompareEquals(x, y) == IF x.null \/ y.null THEN x.null /\ y.null ELSE x.v = y.v
CompareNotEquals(x, y) == ~CompareEquals(x, y)
CompareLessThan(x, y) == ~x.null /\ Below(x, y)
CompareGreaterThan(x, y) == ~x.null /\ Below(y, x)
CompareLessThanOrEqual(x, y) == IF x.null \/ y.null THEN x.null /\ y.null ELSE ~Below(y, x)
CompareGreaterThanOrEqual(x, y) == IF x.null \/ y.null THEN x.null /\ y.null ELSE ~Below(x, y)

ComparisonType == {"=", "<>", "<", "<=", ">", ">="}

performComparison(op, x, y) ==
  CASE op = "="  -> CompareEquals(x, y)
    [] op = "<>" -> CompareNotEquals(x, y)
    [] op = "<"  -> CompareLessThan(x, y)
    [] op = "<=" -> CompareLessThanOrEqual(x, y)
    [] op = ">"  -> CompareGreaterThan(x, y)
    [] op = ">=" -> CompareGreaterThanOrEqual(x, y)

-----------------------------------------------------------------------------
(***************************************************************************)
(* The aggregates' arithmetic: int32 wraps around, a NULL argument leaves  *)
(* the value as it is.                                                     *)
(***************************************************************************)
Wrap(n) == ((n - MinInt) % Word) + MinInt

Add(x, y) == IF y.null THEN x ELSE Integer(Wrap(x.v + y.v))
MaxValue(x, y) == IF y.null THEN x ELSE Integer(IF x.v >= y.v THEN x.v ELSE y.v)
MinValue(x, y) == IF y.null THEN x ELSE Integer(IF x.v <= y.v THEN x.v ELSE y.v)

(***************************************************************************)
(* The index key: an integer's sign bit is flipped, so that the unsigned   *)
(* byte order is the integer order; a string is its own bytes, an infinity *)
(* like any other.  NULL is encoded as its default content.  (The row id   *)
(* that follows in the entry is in IndexedTable.)                          *)
(***************************************************************************)
EncodeKey(x) == IF x.type = "Integer" THEN x.v - MinInt ELSE x.v


=============================================================================
