----------------------------- MODULE QueryPlan -----------------------------
(***************************************************************************)
(* How a plan keeps its tables in the order its aggregates need:           *)
(* parser/plan_parser.cpp and the sort orders that operators claim.        *)
(*                                                                         *)
(* The parser builds a chain of operators over one scan, each with the     *)
(* sort order its constructor derives from its child's, and puts a Sort    *)
(* below an aggregate only where the child's claim is not compatible. The  *)
(* chain is then run on a table, which carries a claim of its own. Nothing *)
(* compares a claim with the rows: what a wrong one does is to split the   *)
(* groups of an aggregate.                                                 *)
(*                                                                         *)
(* Columns count from 0, as in plans; column -1 is the dummy tag. COUNT    *)
(* stands for all aggregates. Sorting, filtering, projecting and grouping  *)
(* of rows are those of SortOp, RowOperators and GroupBy in short.         *)
(***************************************************************************)
EXTENDS Integers, FiniteSets, SequencesExt

CONSTANTS
  Values,    (* values of a column                                          *)
  Plans,     (* the steps above the scan: op, order, cols and limit         *)
  Inputs,    (* tables a scan reads                                         *)
  InputWidth (* their number of columns                                     *)

DummyTag == -1
Computed == -2      (* a projected expression that is no input reference    *)
NoLimit == -1

Kinds == {"LogicalSort", "LogicalFilter", "LogicalProject", "LogicalAggregate"}
SortDefinition == Seq([col : Int, dir : {"ASC", "DESC"}])
Row == [v : Seq(Nat), dummy : BOOLEAN]

ASSUME ValuesAssumption == 0 \in Values /\ Values \subseteq Nat
ASSUME InputsAssumption ==
  /\ InputWidth \in Nat \ {0}
  /\ Inputs \subseteq Seq(Row) \ {<< >>}
  /\ \A t \in Inputs : \A n \in DOMAIN t : Len(t[n].v) = InputWidth

(* Columns below step n of a plan: those of the last step that makes new   *)
(* ones.                                                                   *)
Width(p, n) ==
  LET makes == { m \in 1 .. n - 1 : p[m].op \in {"LogicalProject", "LogicalAggregate"} }
      last == CHOOSE m \in makes : \A h \in makes : h <= m
  IN  IF makes = {} THEN InputWidth
      ELSE IF p[last].op = "LogicalProject" THEN Len(p[last].cols)
      ELSE Len(p[last].cols) + 1

(* A plan names columns there are; a sort has an order and an aggregate    *)
(* keys (without them it is a ScalarAggregate).                            *)
ASSUME PlansAssumption ==
  \A p \in Plans :
    /\ p \in Seq([op : Kinds, order : SortDefinition, cols : Seq(Int), limit : Int])
    /\ \A n \in DOMAIN p :
         LET columns == 0 .. Width(p, n) - 1
         IN  /\ \A k \in DOMAIN p[n].order : p[n].order[k].col \in columns
             /\ p[n].op = "LogicalSort" => p[n].order # << >>
             /\ p[n].op # "LogicalSort" => p[n].cols # << >>
             /\ \A k \in DOMAIN p[n].cols :
                  \/ p[n].cols[k] \in columns
                  \/ p[n].op = "LogicalProject" /\ p[n].cols[k] = Computed

VARIABLES
  plan,    (* the plan                                                      *)
  input,   (* what the scan reads                                           *)
  steps,   (* steps of the plan not yet parsed                              *)
  ops,     (* operators built, each above the one before                    *)
  at,      (* operators that have run                                       *)
  table,   (* rows of the last output_                                      *)
  order,   (* its order_by_                                                 *)
  pc

vars == <<plan, input, steps, ops, at, table, order, pc>>

-----------------------------------------------------------------------------
(* Rows.                                                                   *)

Ascending(c) == [col |-> c, dir |-> "ASC"]

Cell(row, c) == IF c = DummyTag THEN (IF row.dummy THEN 1 ELSE 0) ELSE row.v[c + 1]

Zero(width) == [v |-> [c \in 1 .. width |-> 0], dummy |-> TRUE]

(* Row a may come before row b: they differ first where a is the lesser.   *)
MayPrecede(a, b, def) ==
  \A k \in DOMAIN def :
    (\A h \in 1 .. k - 1 : Cell(a, def[h].col) = Cell(b, def[h].col)) =>
      IF def[k].dir = "ASC" THEN Cell(a, def[k].col) <= Cell(b, def[k].col)
                            ELSE Cell(a, def[k].col) >= Cell(b, def[k].col)

InOrder(rows, def) ==
  \A m, n \in DOMAIN rows : m < n => MayPrecede(rows[m], rows[n], def)

(* The orders std::sort may leave the rows in.                             *)
Sorts(rows, def) ==
  { s \in { [n \in DOMAIN rows |-> rows[p[n]]] :
            p \in SetToSeqs(DOMAIN rows) } : InOrder(s, def) }

-----------------------------------------------------------------------------
(* Parsing.                                                                *)

Node(op, cols, limit, claim, width) ==
  [op |-> op, cols |-> cols, limit |-> limit, claim |-> claim, width |-> width]

(* parseSeqScan gives a scan no order.                                     *)
SeqScan == Node("SqlInput", << >>, NoLimit, << >>, InputWidth)

Init ==
  /\ plan \in Plans /\ input \in Inputs
  /\ steps = plan
  /\ ops = <<SeqScan>>
  /\ at = 0
  /\ table = << >> /\ order = << >>
  /\ pc = "Parse"

child == Last(ops)

(* An operator that is given no sort definition takes its child's.         *)
Claim(sorted_on) == IF sorted_on = << >> THEN child.claim ELSE sorted_on

Step(op) ==
  /\ pc = "Parse" /\ steps # << >> /\ Head(steps).op = op
  /\ steps' = Tail(steps)
  /\ UNCHANGED <<plan, input, at, table, order, pc>>

(* A limit sorts on the dummy tag first.                                   *)
sortDefinition(def, limit) ==
  IF limit # NoLimit /\ def[1].col # DummyTag
  THEN <<Ascending(DummyTag)>> \o def ELSE def

ParseSort ==
  /\ Step("LogicalSort")
  /\ LET s == Head(steps)
     IN  ops' = Append(ops, Node("Sort", << >>, s.limit,
                                 Claim(sortDefinition(s.order, s.limit)), child.width))

(* A filter keeps its input's rows where they are, and the claim with them.*)
ParseFilter ==
  /\ Step("LogicalFilter")
  /\ ops' = Append(ops, Node("Filter", Head(steps).cols, NoLimit,
                             Claim(child.claim), child.width))

Mapped(cols, c) == c = DummyTag \/ \E n \in DOMAIN cols : cols[n] = c

MappingFromOne(cols, c) ==
  IF c = DummyTag THEN DummyTag
  ELSE CHOOSE n \in DOMAIN cols : cols[n] = c /\ \A m \in 1 .. n - 1 : cols[m] # c

(* The first column that column c of the input is mapped to.               *)
Mapping(cols, c) ==
  IF c = DummyTag THEN DummyTag
  ELSE (CHOOSE n \in DOMAIN cols : cols[n] = c /\ \A m \in 1 .. n - 1 : cols[m] # c) - 1

(* The claim survives up to the first column that is not projected.        *)
carriedAll(claim, cols) ==
  LET kept == SelectSeq(claim, LAMBDA s : Mapped(cols, s.col))
  IN  [n \in DOMAIN kept |-> [kept[n] EXCEPT !.col = Mapping(cols, @)]]

carried(claim, cols) ==
  LET n == CHOOSE k \in 0 .. Len(claim) :
             /\ \A h \in 1 .. k : Mapped(cols, claim[h].col)
             /\ k = Len(claim) \/ ~Mapped(cols, claim[k + 1].col)
  IN  [h \in 1 .. n |-> [claim[h] EXCEPT !.col = Mapping(cols, @)]]

ParseProjection ==
  /\ Step("LogicalProject")
  /\ LET cols == Head(steps).cols
     IN  ops' = Append(ops, Node("Project", cols, NoLimit, carried(child.claim, cols),
                                 Len(cols)))

sortCompatibleAnyOrder(sorted_on, group_by) ==
  ToSet(group_by) \subseteq { sorted_on[n].col : n \in DOMAIN sorted_on }

(* The directions do not matter.                                           *)
sortCompatible(sorted_on, group_by) ==
  /\ Len(sorted_on) >= Len(group_by)
  /\ \A n \in DOMAIN group_by : sorted_on[n].col = group_by[n]

(* The aggregate claims its child's order, by the columns of its child.    *)
ParseAggregate ==
  /\ Step("LogicalAggregate")
  /\ LET group_by == Head(steps).cols
         sorts == IF sortCompatible(child.claim, group_by) THEN << >>
                  ELSE << Node("Sort", << >>, NoLimit,
                               [n \in DOMAIN group_by |-> Ascending(group_by[n])],
                               child.width) >>
     IN  ops' = ops \o sorts
                  \o << Node("GroupByAggregate", group_by, NoLimit,
                             Last(<<child>> \o sorts).claim, Len(group_by) + 1) >>

EndParse ==
  /\ pc = "Parse" /\ steps = << >>
  /\ pc' = "Run"
  /\ UNCHANGED <<plan, input, steps, ops, at, table, order>>

-----------------------------------------------------------------------------
(* Running. Each operator leaves a table, and takes over its order.        *)

Runs(op) == pc = "Run" /\ at < Len(ops) /\ ops[at + 1].op = op

self == ops[at + 1]

Output(rows, claim) ==
  /\ table' = rows /\ order' = claim
  /\ ops' = [ops EXCEPT ![at + 1].claim = claim]
  /\ at' = at + 1
  /\ UNCHANGED <<plan, input, steps, pc>>

RunSqlInput == Runs("SqlInput") /\ Output(input, self.claim)

RunSort ==
  /\ Runs("Sort")
  /\ \E sorted \in Sorts(table, self.claim) :
       Output(IF self.limit > 0 /\ Len(sorted) > self.limit
              THEN SubSeq(sorted, 1, self.limit) ELSE sorted, self.claim)

(* The predicate asks that a column is not zero.                           *)
matches(row, cols) == Cell(row, cols[1]) # 0

RunFilter ==
  /\ Runs("Filter")
  /\ Output([n \in DOMAIN table |->
              IF ~table[n].dummy /\ matches(table[n], self.cols)
              THEN table[n] ELSE Zero(self.width)], order)

(* An expression of the first column, or a copy of a column.               *)
projected(row, c) == IF c = Computed THEN (IF Cell(row, 0) = 0 THEN 1 ELSE 0)
                     ELSE Cell(row, c)

RunProject ==
  /\ Runs("Project")
  /\ Output([n \in DOMAIN table |->
              [v |-> [k \in DOMAIN self.cols |-> projected(table[n], self.cols[k])],
               dummy |-> table[n].dummy]], self.claim)

Keys(row, group_by) == [k \in DOMAIN group_by |-> Cell(row, group_by[k])]

(* One pass over adjacent rows: the last row of a bin gets its keys and    *)
(* count if the bin has a real row, all others become zero dummies.        *)
Grouped(rows, group_by) ==
  LET bin(n) == { m \in DOMAIN rows :
                  \A h \in DOMAIN rows : (m <= h /\ h <= n) \/ (n <= h /\ h <= m) =>
                    Keys(rows[h], group_by) = Keys(rows[n], group_by) }
      real(n) == { m \in bin(n) : ~rows[m].dummy }
  IN  [n \in DOMAIN rows |->
        IF (\A m \in bin(n) : m <= n) /\ real(n) # {}
        THEN [v |-> Append(Keys(rows[n], group_by), Cardinality(real(n))), dummy |-> FALSE]
        ELSE Zero(Len(group_by) + 1)]

(* The result of verifySortOrder is not looked at. The output's order is   *)
(* the first entries of the input's.                                       *)
RunGroupBy ==
  /\ Runs("GroupByAggregate")
  /\ Len(order) >= Len(self.cols)
  /\ Output(Grouped(table, self.cols), SubSeq(order, 1, Len(self.cols)))

(* A table that claims fewer columns than the parser was told: entries are *)
(* read past the end of its order, and what follows is undefined.          *)
RunPastOrder ==
  /\ Runs("GroupByAggregate")
  /\ Len(order) < Len(self.cols)
  /\ pc' = "Undefined"
  /\ UNCHANGED <<plan, input, steps, ops, at, table, order>>

EndRun ==
  /\ pc = "Run" /\ at = Len(ops)
  /\ pc' = "Done"
  /\ UNCHANGED <<plan, input, steps, ops, at, table, order>>

Terminated == pc \in {"Done", "Undefined"} /\ UNCHANGED vars

Next ==
  \/ ParseSort \/ ParseFilter \/ ParseProjection \/ ParseAggregate \/ EndParse
  \/ RunSqlInput \/ RunSort \/ RunFilter \/ RunProject
  \/ RunGroupBy \/ RunPastOrder \/ EndRun
  \/ Terminated

Spec == Init /\ [][Next]_vars

-----------------------------------------------------------------------------
(* Sorts and projections claim columns they have, or the dummy tag.  An    *)
(* aggregate need not: it claims by its child's columns.  Rows have the    *)
(* width of the operator they come from.                                   *)
TypeOK ==
  /\ pc \in {"Parse", "Run", "Done", "Undefined"}
  /\ at \in 0 .. Len(ops)
  /\ \A n \in DOMAIN ops :
       /\ ops[n].claim \in SortDefinition
       /\ ops[n].op \in {"Sort", "Project"} => \A k \in DOMAIN ops[n].claim :
            ops[n].claim[k].col \in DummyTag .. ops[n].width - 1
  /\ table \in Seq(Row)
  /\ at > 0 => /\ order = ops[at].claim
               /\ \A n \in DOMAIN table : Len(table[n].v) = ops[at].width

(* Aggregates group by the leading columns of their input.                 *)
KeysLead ==
  \A n \in DOMAIN plan : plan[n].op = "LogicalAggregate" =>
    plan[n].cols = [k \in DOMAIN plan[n].cols |-> k - 1]

(* Every projection that has run claims what it would derive from the      *)
(* order its child ran with; an aggregate gives up claims the parser had.  *)
ClaimsAgree ==
  \A n \in 2 .. at : ops[n].op = "Project" =>
    ops[n].claim = carried(ops[n - 1].claim, ops[n].cols)

(* The real rows of every table are in the order the table claims, and its *)
(* claim names columns it has: dummies left aside, as long as aggregates   *)
(* group by leading columns and no projection keeps a claim that an        *)
(* aggregate below it gave up.                                             *)
RealRowsInOrder ==
  KeysLead /\ ClaimsAgree =>
    /\ at > 0 => \A k \in DOMAIN order : order[k].col \in DummyTag .. ops[at].width - 1
    /\ \A m, n \in DOMAIN table :
         m < n /\ ~table[m].dummy /\ ~table[n].dummy =>
           MayPrecede(table[m], table[n], order)

(* SQL on a bag of rows: a function with one argument for each row.  What  *)
(* the arguments are does not matter; a group is given by its keys.        *)
SqlStep(s, rows) ==
  CASE s.op = "LogicalSort" -> rows
    [] s.op = "LogicalFilter" ->
         Restrict(rows, { n \in DOMAIN rows : matches(rows[n], s.cols) })
    [] s.op = "LogicalProject" ->
         [n \in DOMAIN rows |->
           [v |-> [k \in DOMAIN s.cols |-> projected(rows[n], s.cols[k])], dummy |-> FALSE]]
    [] s.op = "LogicalAggregate" ->
         LET group(key) == { n \in DOMAIN rows : Keys(rows[n], s.cols) = key }
         IN  [key \in { Keys(rows[n], s.cols) : n \in DOMAIN rows } |->
               [v |-> Append(key, Cardinality(group(key))), dummy |-> FALSE]]

RealOnly(rows) == Restrict(rows, { n \in DOMAIN rows : ~rows[n].dummy })

(* The answers to the first n steps of a plan.                             *)
Answers(p, rows) ==
  LET answer[n \in 0 .. Len(p)] ==
        IF n = 0 THEN RealOnly(rows) ELSE SqlStep(p[n], answer[n - 1])
  IN  answer

Answer == Answers(plan, input)[Len(plan)]

SameBag(a, b) ==
  \A row \in { a[n] : n \in DOMAIN a } \union { b[n] : n \in DOMAIN b } :
    Cardinality({ n \in DOMAIN a : a[n] = row }) = Cardinality({ n \in DOMAIN b : b[n] = row })

AnswerRight ==
  pc \in {"Done", "Undefined"} =>
    pc = "Done" /\ SameBag(RealOnly(table), Answer)

Unlimited == \A n \in DOMAIN plan : plan[n].limit = NoLimit

(* Each aggregate stands on a sort, with projections at most in between:   *)
(* no claim reaches it through rows that an operator has zeroed in place.  *)
SortedAfresh ==
  \A n \in DOMAIN ops : ops[n].op = "GroupByAggregate" =>
    \E m \in 1 .. n - 1 :
      ops[m].op = "Sort" /\ \A h \in m + 1 .. n - 1 : ops[h].op = "Project"

(* A plan whose aggregates stand on a sort, with projections between them  *)
(* at most, gives SQL's answer: no claim the parser trusts is wrong there. *)
AnswerRightOnFreshSorts == SortedAfresh /\ Unlimited => AnswerRight

(* group_by_aggregate.h: "checks that input table is sorted by group-by    *)
(* cols". A group has one row however the plan came to trust its order.    *)
GroupsHaveOneRow ==
  (pc = "Done" /\ ops[Len(ops)].op = "GroupByAggregate") =>
    \A m, n \in DOMAIN table :
      /\ ~table[m].dummy /\ ~table[n].dummy
      /\ \A k \in 1 .. ops[Len(ops)].width - 1 : table[m].v[k] = table[n].v[k]
      => m = n
=============================================================================
