------------------------------ MODULE GroupBy ------------------------------
(***************************************************************************)
(* GroupByAggregate: one oblivious pass over an input that is meant to be  *)
(* sorted on the group-by columns.  Every input row yields an output row;  *)
(* all but the last of a bin are dummies, and a bin of dummies has no real *)
(* output row.  Alice runs the pass on her clear table (runSelfPlain), and *)
(* both run it as a circuit on the committed table                         *)
(* (verifyGroupByAggregate); the two are the same code on two types, and   *)
(* one module.                                                             *)
(*                                                                         *)
(* A row has one group-by column, one column to aggregate and a dummy tag. *)
(* The columns of a dummy row may hold anything: BasicJoin tags the pairs  *)
(* that do not match and leaves their columns, and Project evaluates its   *)
(* expressions on dummies too.  Every aggregate of                         *)
(* group_by_aggregate_impl.cpp is computed in every run.                   *)
(***************************************************************************)
EXTENDS Integers, Sequences, FiniteSets

CONSTANTS
  Keys,     (* values of the group-by column                                *)
  ZeroKey,  (* the one whose bits are all zero                              *)
  Vals,     (* values of the aggregated column                              *)
  Lowest,   (* FieldFactory::getMin of its type                             *)
  Highest,  (* FieldFactory::getMax of its type                             *)
  Half,     (* the type holds -Half .. Half - 1                             *)
  Inputs    (* the input tables                                             *)

Row == [key : Keys, val : Vals, dummy : BOOLEAN]

ASSUME KeysAssumption == ZeroKey \in Keys
ASSUME ValsAssumption ==
  /\ Half \in Nat \ {0}
  /\ {Lowest, Highest} \cup Vals \subseteq (-Half) .. (Half - 1)
  /\ \A v \in Vals : Lowest <= v /\ v <= Highest
ASSUME InputsAssumption == Inputs \subseteq Seq(Row) \ {<< >>}

VARIABLES
  input,    (* the child's output                                           *)
  pos,      (* rows taken up so far; the last of them is the predecessor    *)
  agg,      (* running state of the aggregators                             *)
  realBin,  (* real_bin                                                     *)
  output,   (* rows written                                                 *)
  done

vars == <<input, pos, agg, realBin, output, done>>

WrapNot(x) == x
Wrap(x) == ((x + Half) % (2 * Half)) - Half

(* The state of all aggregators after initialize() on the first row of a   *)
(* bin.                                                                    *)
FreshKeepsMax(row) ==
  [count |-> IF row.dummy THEN 0 ELSE 1,
   sum   |-> IF row.dummy THEN 0 ELSE row.val,
   avgCount |-> 1,
   min   |-> IF row.dummy THEN Highest ELSE row.val,
   max   |-> row.val]

Fresh(row) ==
  [count |-> IF row.dummy THEN 0 ELSE 1,
   sum   |-> IF row.dummy THEN 0 ELSE row.val,
   avgCount |-> 1,
   min   |-> IF row.dummy THEN Highest ELSE row.val,
   max   |-> IF row.dummy THEN Lowest ELSE row.val]

Initialize(a, row, isGroupByMatch) == IF isGroupByMatch THEN a ELSE Fresh(row)

(* accumulate() without its test.                                         *)
AccumulateAlways(a, row, notMatch) ==
  [count |-> a.count + 1,
   sum   |-> Wrap(a.sum + row.val),
   avgCount |-> a.avgCount + 1,
   min   |-> IF row.val < a.min THEN row.val ELSE a.min,
   max   |-> IF row.val > a.max THEN row.val ELSE a.max]

(* accumulate() is passed the negation of the match and negates it again.  *)
Accumulate(a, row, notMatch) ==
  IF ~notMatch /\ ~row.dummy
  THEN [count |-> a.count + 1,
        sum   |-> Wrap(a.sum + row.val),
        avgCount |-> a.avgCount + 1,
        min   |-> IF row.val < a.min THEN row.val ELSE a.min,
        max   |-> IF row.val > a.max THEN row.val ELSE a.max]
  ELSE a

groupByMatch(lhs, rhs) == lhs.key = rhs.key

(* generateOutputTuple: group-by column of the last row, the aggregates so *)
(* far, and a dummy tag that only the last row of a real bin is spared.    *)
OutputTuple(last, lastEntry, real) ==
  [key |-> last.key, agg |-> agg, dummy |-> IF lastEntry THEN ~real ELSE TRUE]

Predecessor == input[pos]

Init ==
  /\ input \in Inputs
  /\ pos = 1
  /\ agg = Fresh(input[1])
  /\ realBin = ~input[1].dummy
  /\ output = << >>
  /\ done = FALSE

RealAfterNoReset(match, real) == real
RealAfter(match, real) == IF ~match THEN FALSE ELSE real

(* One iteration of the loop over the rows from the second on.             *)
Step ==
  /\ ~done
  /\ pos < Len(input)
  /\ LET current == input[pos + 1]
         real == realBin \/ ~Predecessor.dummy
         match == groupByMatch(Predecessor, current)
     IN  /\ output' = Append(output, OutputTuple(Predecessor, ~match, real))
         /\ agg' = Accumulate(Initialize(agg, current, match), current, ~match)
         /\ realBin' = RealAfter(match, real)
  /\ pos' = pos + 1
  /\ UNCHANGED <<input, done>>

LastEntryDummy(real) == OutputTuple(Predecessor, FALSE, real)
LastEntry(real) == OutputTuple(Predecessor, TRUE, real)

(* Operator::zeroOutDummies: every bit of a dummy but its tag is cleared.  *)
Cleared ==
  [key |-> ZeroKey,
   agg |-> [count |-> 0, sum |-> 0, avgCount |-> 0, min |-> 0, max |-> 0],
   dummy |-> TRUE]

zeroOutDummies(rows) ==
  [i \in 1 .. Len(rows) |-> IF rows[i].dummy THEN Cleared ELSE rows[i]]

(* After the loop the last bin is always written out, and the dummies of   *)
(* the output are zeroed.                                                  *)
Finish ==
  /\ ~done
  /\ pos = Len(input)
  /\ output' = zeroOutDummies(
                 Append(output, LastEntry(realBin \/ ~Predecessor.dummy)))
  /\ done' = TRUE
  /\ UNCHANGED <<input, pos, agg, realBin>>

Terminated == done /\ UNCHANGED vars

Next == Step \/ Finish \/ Terminated

Spec == Init /\ [][Next]_vars

-----------------------------------------------------------------------------
(* What the pass is to compute.                                            *)

(* The rows up to i that are in the same bin as row i: the rows before it  *)
(* back to the last change of key.                                         *)
Bin(i) == { j \in 1 .. i : \A k \in j .. i : input[k].key = input[i].key }

RealIn(i) == { j \in Bin(i) : ~input[j].dummy }

LastOfBin(i) == i = Len(input) \/ input[i + 1].key # input[i].key

(* The output row of input row i is real iff i ends a bin that has a real  *)
(* row in it.                                                              *)
RealOutput(i) == ~output[i].dummy

Value == (-Half) .. (Half - 1)

Aggregates ==
  [count : Nat, sum : Value, avgCount : Nat, min : Value, max : Value]

TypeOK ==
  /\ input \in Inputs
  /\ pos \in 1 .. Len(input)
  /\ agg \in Aggregates
  /\ realBin \in BOOLEAN
  /\ output \in Seq([key : Keys, agg : Aggregates, dummy : BOOLEAN])
  /\ done \in BOOLEAN
  /\ Len(output) = IF done THEN pos ELSE pos - 1

(* A bin has exactly one real output row, at its end, if it has a real row *)
(* and none otherwise: dummies at the front, in the middle or at the end   *)
(* of it, and dummy bins in between, make no difference.                   *)
OneRowPerBin ==
  \A i \in 1 .. Len(output) :
    RealOutput(i) <=> (LastOfBin(i) /\ RealIn(i) # {})

(* COUNT counts the real rows of the bin, even when a dummy opens it.      *)
CountIsOfRealRows ==
  \A i \in 1 .. Len(output) :
    RealOutput(i) => output[i].agg.count = Cardinality(RealIn(i))

(* The sum of the rows of S among the first i.                             *)
SumUpTo(S, i) ==
  LET sum[j \in 0 .. Len(input)] ==
        IF j = 0 THEN 0 ELSE sum[j - 1] + (IF j \in S THEN input[j].val ELSE 0)
  IN  sum[i]

(* SUM is the sum of the real rows of the bin, modulo the width of the     *)
(* column type.                                                            *)
SumIsOfRealRows ==
  \A i \in 1 .. Len(output) :
    RealOutput(i) => (output[i].agg.sum - SumUpTo(RealIn(i), i)) % (2 * Half) = 0

(* MIN and MAX are taken over the real rows of the bin, whatever the       *)
(* columns of its dummies hold and whatever the bin before it held.  Of    *)
(* integer columns: every value lies between what the two start from       *)
(* (ValsAssumption).  FLOATs are not in this model; their least value is   *)
(* taken to be the least positive one (field_factory.cpp:157).             *)
ExtremesAreOfRealRows ==
  \A i \in 1 .. Len(output) :
    RealOutput(i) =>
      LET seen == { input[j].val : j \in RealIn(i) } IN
      /\ output[i].agg.min \in seen /\ \A v \in seen : output[i].agg.min <= v
      /\ output[i].agg.max \in seen /\ \A v \in seen : output[i].agg.max >= v

(* AVG divides the sum of the real rows by their number.                   *)
AverageIsOverRealRows ==
  \A i \in 1 .. Len(output) :
    RealOutput(i) => output[i].agg.avgCount = Cardinality(RealIn(i))
=============================================================================
