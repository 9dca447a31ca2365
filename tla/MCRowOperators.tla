--------------------------- MODULE MCRowOperators ---------------------------
(***************************************************************************)
(* Model checking of RowOperators: one family of queries for each type and *)
(* each operator, over all small tables of chosen values.  Bytes have 3    *)
(* bits, an INT two of them (-32 .. 31), a LONG three (-256 .. 255), and   *)
(* characters are 0 .. 7, from 4 on not ASCII.                             *)
(***************************************************************************)
EXTENDS RowOperators

CONSTANTS
  Ints, Longs, Floats,   (* values of number columns                        *)
  Chars,                 (* characters of string columns                    *)
  MaxRows                (* bound on the rows of an aggregate's input       *)

Negative(S) == S \cup { -n : n \in S }

In(k) == [input |-> k]
Op(name, operands) == [op |-> name, operands |-> operands]
Of2(name) == << In(0), In(1), Op(name, <<1, 2>>) >>
Number0(type, n) == [literal |-> n, type |-> type, precision |-> 0]
Char1(c) == [literal |-> <<c>>, type |-> "CHAR", precision |-> 1]
Least2 == << In(0), In(1), Op("LESS_THAN", <<1, 2>>), Op("CASE", <<3, 1, 2>>) >>

Plain(types) == [i \in DOMAIN types |-> FieldDesc(types[i], 0)]
Str(n) == FieldDesc("STRING", n)
Strings(n) == UNION { [1 .. k -> Chars] : k \in 1 .. n }

(* Tables of n rows: columns of the given values, and a dummy tag or not.  *)
Tables(schema, rows, n, tagged) ==
  { [schema |-> schema, rows |-> r, hasDummyTag |-> tagged] : r \in [1 .. n -> rows] }

Query(op, inputs, exprs, aggs) ==
  [op |-> op, inputs |-> inputs, trees |-> exprs, aggregates |-> aggs]
Unary(op, inputs, exprs) == { Query(op, <<t>>, exprs, << >>) : t \in inputs }

IntLong == << FieldDesc("INT", 0), FieldDesc("LONG", 0) >>
IntString == << FieldDesc("INT", 0), Str(1) >>
Tag == {0, 1}

Numbers(type, values) ==
  Unary("Project", Tables(Plain(<<type, type>>), values \X values, 1, FALSE),
        << <<In(1)>>, Of2("PLUS"), Of2("MINUS"), Of2("TIMES"), Of2("DIVIDE"),
           Least2, Of2("EQUALS"), Of2("GREATER_THAN_OR_EQUAL"), <<In(0)>> >>)

Texts ==
  Unary("Project",
        Tables(<<Str(2), Str(2)>>, Strings(2) \X Strings(2), 1, FALSE),
        << <<In(1)>>, Of2("EQUALS"), <<In(0)>>, Of2("NOT_EQUALS") >>)
OrderedTexts ==
  Unary("Project",
        Tables(<<Str(2), Str(2)>>, Strings(2) \X Strings(2), 1, FALSE),
        << Of2("LESS_THAN"), Of2("GREATER_THAN"), Of2("LESS_THAN_OR_EQUAL") >>)

Logic ==
  Unary("Project", Tables(Plain(<<"BOOL", "BOOL">>), Tag \X Tag, 1, FALSE),
        << Of2("AND"), Of2("OR"), << In(0), Op("NOT", <<1>>) >> >>)

Predicate ==
  << In(0), Number0("INTEGER", 0), Op("GREATER_THAN_OR_EQUAL", <<1, 2>>),
     In(1), Char1(2), Op("EQUALS", <<4, 5>>), Op("AND", <<3, 6>>) >>
ThreeWay ==
  << In(0), Number0("INTEGER", 0), Op("GREATER_THAN_OR_EQUAL", <<1, 2>>),
     In(1), Char1(2), Op("EQUALS", <<4, 5>>),
     Number0("INTEGER", 1), Op("LESS_THAN", <<1, 7>>), Op("AND", <<3, 6, 8>>) >>
(* True of the zeros of a dummy, too.                                      *)
NotNegative ==
  << In(0), Number0("INTEGER", 0), Op("GREATER_THAN_OR_EQUAL", <<1, 2>>) >>
Tagged == { -1, 0, 1 } \X [1 .. 1 -> {2, 3}] \X Tag

Filters(json, n) ==
  Unary("Filter", Tables(IntString, Tagged, n, TRUE), <<json>>)

(* q8: 1 for one nation, 0 for the others, times a volume.                 *)
Volume ==
  << In(1), Char1(2), Op("EQUALS", <<1, 2>>), In(0), Number0("INTEGER", 0),
     Op("CASE", <<3, 4, 5>>) >>
Reordered ==
  Unary("Project", Tables(IntString, Tagged, 2, TRUE),
        << <<In(1)>>, Volume, <<In(0)>> >>)

Remainders ==
  Unary("Project",
        Tables(Plain(<<"INT", "INT">>), Negative(Ints) \X (Ints \ {0}), 1, FALSE),
        << Of2("MODULUS") >>)

Pads == Unary("Pad", Tables(IntString, Tagged, 2, TRUE), << >>)

Unions ==
  { Query("Union", <<l, r>>, << >>, << >>) :
      l \in Tables(IntString, Tagged, 1, TRUE),
      r \in Tables(IntString, Tagged, 1, TRUE) }

(* An equi-join of a tagged table with one of the same keys and one more   *)
(* column.                                                                 *)
Joins ==
  { Query("BasicJoin", <<l, r>>,
          << << In(0), In(2), Op("EQUALS", <<1, 2>>), In(1), In(3),
                Op("LESS_THAN_OR_EQUAL", <<4, 5>>), Op("AND", <<3, 6>>) >> >>,
          << >>) :
      l \in Tables(IntLong, {0, 1} \X {0, 40} \X Tag, 2, TRUE),
      r \in Tables(IntLong, {0, 1} \X {40} \X Tag, 2, TRUE) }

Agg(type, ordinal) == [type |-> type, ordinal |-> ordinal]
Aggregates(type, values, aggs) ==
  UNION { { Query("ScalarAggregate", <<t>>, << >>, aggs) :
              t \in Tables(Plain(<<type>>), values \X Tag, n, TRUE) } :
          n \in 1 .. MaxRows }
Extremes == << Agg("COUNT", 0), Agg("SUM", 1), Agg("MIN", 1), Agg("MAX", 1) >>
Averages == << Agg("AVG", 1), Agg("COUNT", 1), Agg("SUM", 1) >>
AggInts == {-31, -1, 0, 2, 31}

MCQueries ==
  << Numbers("INT", Negative(Ints)), Numbers("LONG", Negative(Longs)),
     Numbers("FLOAT", Negative(Floats)), Texts, OrderedTexts, Logic,
     Filters(Predicate, 2), Filters(ThreeWay, 1),
     Filters(NotNegative, 2), Reordered, Remainders,
     Pads, Unions, Joins,
     Aggregates("INT", AggInts, Extremes), Aggregates("INT", AggInts, Averages),
     Aggregates("LONG", {-40, 3, 40}, Averages),
     Aggregates("FLOAT", {-2, 1, 4}, Extremes),
     Aggregates("FLOAT", {4}, Averages) >>
=============================================================================
