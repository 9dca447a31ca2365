------------------------------- MODULE SortOp -------------------------------
(***************************************************************************)
(* Sort: Alice sorts her clear table by a sort definition and commits the  *)
(* result; with a LIMIT the table is then cut.  Both parties check as a    *)
(* circuit that the committed rows are those of the input (set equality)   *)
(* and that neighbours are in order.  Alice's comparison (Sort::lt) and    *)
(* the circuit's (Sort::checkOrder) are written apart from each other.     *)
(*                                                                         *)
(* A sort definition is a sequence of columns with directions; column -1   *)
(* is the dummy tag.  The other columns are numbered from 0.               *)
(***************************************************************************)
EXTENDS Integers, Sequences, FiniteSets, Functions

CONSTANTS
  Width,       (* number of columns                                         *)
  Values,      (* values of a column                                        *)
  Inputs,      (* input tables                                              *)
  Collations,  (* "collation" of the plan's sort operator                   *)
  Limits       (* its "fetch"; 0 for none                                   *)

DummyTag == -1
Columns == 0 .. Width - 1
Directions == {"ASCENDING", "DESCENDING"}
ColumnSort == [col : Columns \cup {DummyTag}, dir : Directions]
Row == [cols : [Columns -> Values], dummy : BOOLEAN]

ASSUME ValuesAssumption == Width \in Nat \ {0} /\ Values \subseteq Nat
ASSUME InputsAssumption == Inputs \subseteq Seq(Row) \ {<< >>}
ASSUME CollationsAssumption ==
  Limits \subseteq Nat /\ Collations \subseteq Seq(ColumnSort)
(* Only parseSort names the dummy tag; a collation that did so first would *)
(* have to sort it as parseSort does.                                      *)
ASSUME DummyTagAssumption ==
  \A c \in Collations :
    c # << >> /\ c[1].col = DummyTag => c[1].dir = "ASCENDING"

VARIABLES
  input,           (* the child's output                                    *)
  sort_definition,
  limit,
  pc,
  data,            (* tuple_data_ of the output, with what resize() cut off *)
  count            (* its tuple count                                       *)

vars == <<input, sort_definition, limit, pc, data, count>>

(* parseSort without the sort on the dummy tag.                            *)
parseSortPlain(collation, fetch) == collation

(* PlanParser::parseSort: a limit must not cut real rows for dummies.      *)
parseSort(collation, fetch) ==
  IF fetch > 0 /\ collation[1].col # DummyTag
  THEN <<[col |-> DummyTag, dir |-> "ASCENDING"]>> \o collation
  ELSE collation

Field(row, col) ==
  IF col = DummyTag THEN (IF row.dummy THEN 1 ELSE 0) ELSE row.cols[col]

(* Sort::lt without the directions.                                        *)
ltAscending(lhs, rhs, def) ==
  \E i \in DOMAIN def :
    /\ Field(lhs, def[i].col) < Field(rhs, def[i].col)
    /\ \A j \in 1 .. i - 1 : Field(lhs, def[j].col) = Field(rhs, def[j].col)

(* Sort::lt: the first column that differs decides.                        *)
lt(lhs, rhs, def) ==
  LET l(i) == Field(lhs, def[i].col)
      r(i) == Field(rhs, def[i].col)
      asc(i) == def[i].dir = "ASCENDING"
      after[i \in 0 .. Len(def)] ==
        IF i = 0 THEN [lt |-> FALSE, decided |-> FALSE]
        ELSE [lt |-> IF after[i - 1].decided THEN after[i - 1].lt
                     ELSE (l(i) < r(i) /\ asc(i)) \/ (l(i) > r(i) /\ ~asc(i)),
              decided |-> after[i - 1].decided \/ l(i) # r(i)]
  IN  after[Len(def)].lt

(* Sort::checkOrder: in the definition's order, equality included; a pair  *)
(* with a dummy in it always passes.                                       *)
checkOrderStrict(lhs, rhs, def) ==
  lhs.dummy \/ rhs.dummy \/ lt(lhs, rhs, def)

checkOrder(lhs, rhs, def) ==
  LET l(i) == Field(lhs, def[i].col)
      r(i) == Field(rhs, def[i].col)
      eq(i) == l(i) = r(i)
      colSortMatch(i) == (l(i) < r(i)) = (def[i].dir = "ASCENDING")
      after[i \in 0 .. Len(def)] ==
        IF i = 0 THEN [correct |-> TRUE, allEq |-> TRUE]
        ELSE [correct |-> IF after[i - 1].allEq
                          THEN \/ eq(i) /\ after[i - 1].correct
                               \/ ~eq(i) /\ colSortMatch(i)
                          ELSE after[i - 1].correct,
              allEq |-> after[i - 1].allEq /\ eq(i)]
  IN  lhs.dummy \/ rhs.dummy \/ after[Len(def)].correct

Init ==
  /\ input \in Inputs
  /\ \E collation \in Collations, fetch \in Limits :
       /\ fetch > 0 => collation # << >>
       /\ limit = fetch
       /\ sort_definition = parseSort(collation, fetch)
  /\ pc = "sort"
  /\ data = << >>
  /\ count = 0

(* std::sort is not stable: rows that compare equal come in any order.     *)
SortRows ==
  /\ pc = "sort"
  /\ \E p \in Bijection(DOMAIN input, DOMAIN input) :
       /\ \A i, j \in DOMAIN input :
            i < j => ~lt(input[p[j]], input[p[i]], sort_definition)
       /\ data' = [i \in DOMAIN input |-> input[p[i]]]
  /\ count' = Len(input)
  /\ pc' = "resize"
  /\ UNCHANGED <<input, sort_definition, limit>>

(* resize() shortens the vector; the bytes beyond its end stay in place.   *)
Resize ==
  /\ pc = "resize"
  /\ count' = IF limit > 0 /\ count > limit THEN limit ELSE count
  /\ pc' = "equality"
  /\ UNCHANGED <<input, sort_definition, limit, data>>

(* ZKSet::equal, over as many rows as the input has.                       *)
Occurrences(table, n, row) ==
  Cardinality({ i \in 1 .. n : table[i] = row })

VerifySetEquality ==
  /\ pc = "equality"
  /\ pc' = IF \A row \in Range(input) \cup Range(data) :
                Occurrences(input, Len(input), row) =
                  Occurrences(data, Len(input), row)
           THEN "order" ELSE "rejected"
  /\ UNCHANGED <<input, sort_definition, limit, data, count>>

VerifyOrder ==
  /\ pc = "order"
  /\ pc' = IF \A i \in 2 .. count :
                checkOrder(data[i - 1], data[i], sort_definition)
           THEN "accepted" ELSE "rejected"
  /\ UNCHANGED <<input, sort_definition, limit, data, count>>

Terminated == pc \in {"accepted", "rejected"} /\ UNCHANGED vars

Next ==
  SortRows \/ Resize \/ VerifySetEquality \/ VerifyOrder \/ Terminated

Spec == Init /\ [][Next]_vars
-----------------------------------------------------------------------------
TypeOK ==
  /\ input \in Inputs
  /\ sort_definition \in Seq(ColumnSort)
  /\ limit \in Limits
  /\ pc \in {"sort", "resize", "equality", "order", "accepted", "rejected"}
  /\ data \in Seq(Row)
  /\ count \in 0 .. Len(data)
  /\ limit > 0 => sort_definition[1].col = DummyTag

(* What the definition means: the first column in which two rows differ    *)
(* puts the one before the other.                                          *)
Before(a, b) ==
  \E i \in DOMAIN sort_definition :
    LET col == sort_definition[i].col IN
    /\ \A j \in 1 .. i - 1 :
         Field(a, sort_definition[j].col) = Field(b, sort_definition[j].col)
    /\ IF sort_definition[i].dir = "ASCENDING"
       THEN Field(a, col) < Field(b, col)
       ELSE Field(a, col) > Field(b, col)

(* Whatever order std::sort gives to ties, and however much of the table   *)
(* is cut off before it is checked, an honest sort is accepted.            *)
NeverRejected == pc # "rejected"

(* All real rows of the result are in order, also across the dummies       *)
(* between them and not only neighbour by neighbour.                       *)
OutputSorted ==
  pc = "accepted" =>
    \A i, j \in 1 .. count :
      i < j /\ ~data[i].dummy /\ ~data[j].dummy => ~Before(data[j], data[i])

(* "Need to sort on dummy tag to make resizing not delete real tuples": a  *)
(* limit keeps as many real rows as it can, and those that come first.     *)
RealIn(table, n) == { i \in 1 .. n : ~table[i].dummy }

LimitKeepsReal ==
  pc = "accepted" =>
    LET real == Cardinality(RealIn(input, Len(input))) IN
    /\ Cardinality(RealIn(data, count)) =
         IF limit > 0 /\ real > limit THEN limit ELSE real
    /\ \A i \in RealIn(data, count), j \in RealIn(data, Len(data)) :
         j > count => ~Before(data[j], data[i])
=============================================================================
