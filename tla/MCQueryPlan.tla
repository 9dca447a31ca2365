---------------------------- MODULE MCQueryPlan ----------------------------
(***************************************************************************)
(* Model checking of QueryPlan: all plans of up to MaxSteps steps, on all  *)
(* tables of MaxRows rows of two columns, dummies (zeroed or not) included.*)
(***************************************************************************)
EXTENDS QueryPlan

CONSTANTS MaxSteps, MaxRows

PlanStep(op, def, cols, limit) == [op |-> op, order |-> def, cols |-> cols, limit |-> limit]

Sorting(def, limit) == PlanStep("LogicalSort", def, << >>, limit)
Descending(c) == [col |-> c, dir |-> "DESC"]
SortSteps ==
  { Sorting(<<Ascending(0)>>, NoLimit), Sorting(<<Ascending(0), Ascending(1)>>, NoLimit),
    Sorting(<<Descending(1), Ascending(0)>>, NoLimit), Sorting(<<Ascending(0)>>, 1) }

(* Steps that suit two columns and leave two, and aggregates on both, which*)
(* leave three.                                                            *)
Narrow ==
  SortSteps
  \union { PlanStep("LogicalFilter", << >>, <<c>>, NoLimit) : c \in {0, 1} }
  \union { PlanStep("LogicalProject", << >>, cols, NoLimit) :
           cols \in { <<1, 0>>, <<0, Computed>>, <<Computed, 1>> } }
  \union { PlanStep("LogicalAggregate", << >>, <<c>>, NoLimit) : c \in {0, 1} }

Pairs == { PlanStep("LogicalAggregate", << >>, <<0, 1>>, NoLimit) }

MCPlans == UNION { [1 .. n -> Narrow \union Pairs] : n \in 1 .. MaxSteps }

Rows == [v : [1 .. 2 -> Values], dummy : {FALSE}] \union {Zero(2)}
MCInputs == [1 .. MaxRows -> Rows]
=============================================================================
