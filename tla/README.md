# zksql verification

zksql answers a SQL query with a zero-knowledge proof that the answer is right.
A JSON query plan is evaluated twice, in lockstep, by two processes: Alice (the
prover) owns the data, Bob (the verifier) holds only commitments to it. Each
operator of the plan computes its result in the clear on Alice's side, commits
it, and both parties then check it as a circuit on the committed tables, mostly
by statements about sets of rows. Bob accepts if every check passes.

This directory holds TLA+ modules that model the engine, TLC configurations
that check them on small instances, and proofs for the TLA+ proof system. The
source is `src/src/main/cpp` (the engine) and `src/zk-set` (the set checks);
paths below are relative to `src/src/main/cpp` unless they start with `zk-set`.

Both parties are the program as it is written. What a party that deviates from
its program could do is a question about the cryptography and not asked here.

## Inventory

| Component | State | Operations | Reached from |
|---|---|---|---|
| Operator life cycle (`operators/operator.*`, `sql_input.*`) | `output_`, `operator_executed_`, cost counters | `run`, `getOutput`, `reset`, `runSelf` of each operator | the root's `run()`, parents |
| Plan parser (`parser/plan_parser.*`) | `operators_`, `support_ops_` | one `parse...` per operator kind; inserts sorts; runs scans | test fixture |
| Session (`query_table/zk_query_table.*`, `util/zk_global_vars.*`, `test/`) | three copies of each table, the channel, the transcript | commit, reveal, resize, set up, tear down | all operators |
| Sort | sort definition, limit | sort, cut, check equality, check order | parser, joins |
| Keyed join, checks of joins (`hash_keyed_join.*`, `join.*`) | hash table, temporary tables, unmatched rows | build, probe, `verifyPredicate`, `verifyEquality`, `verifyDisjoint` | parser |
| Basic join | row cursor | pairs with their check, one by one | parser |
| Group-by aggregation | aggregators, `real_bin`, row cursor | one pass over adjacent rows | parser |
| Scalar aggregation | aggregators, which outlive a run | one pass | parser |
| Filter, Project, Union | row cursor | one pass; claimed sort orders | parser, joins |
| ZK set library (`zk-set/emp-zk-set`) | sorted union, walk; draws challenges | `equal`, `subset`, `disjoint`, `setUnion`, `intersection` | sort, joins |
| Batched products (`zk-set/emp-zk-set/poly_prdt.h`) | buffer of products, `num` | buffer, check when full, check at the end | ZK set library |
| Tuples, tables, schemas (`query_table/`) | bytes or bits, dummy tag, `order_by_` | read, write, clear, compare, resize | everything |
| Fields, types, expressions (`query_table/field`, `expression/`) | none | evaluate, compare, convert, translate to circuits | operators |
| Data provider, utilities | none | read from PostgreSQL, pad, print | scans, joins |
| Planner front end (`src/main/java`) | none that survives a query | SQL to JSON by Calcite | by hand |

How they interact. The parser builds the operators bottom-up and runs the scans
as it goes. The root's `run()` calls `run()` of its children, then its own
`runSelf()`, which asks for the children's tables with `getOutput()`, and frees
them. Joins run short-lived Sort, Project and Union operators of their own.
Alice and Bob share nothing but one channel, on which messages carry no headers;
they stay together because both run the same code on tables of the same size.

What is hard here:

- operators that two parents share, evaluated and freed in an order that
  depends on the plan, with counters that nest;
- two processes far apart in time that must agree on every size and on every
  point of the transcript at which a challenge is drawn;
- dummy rows: every operator must keep them out of its answer, leave them
  zeroed if a join is to read them, and tell them from a real row of zeros;
- computations that are written twice, for Alice's clear table and for the
  circuit, and must agree row by row;
- checks that must accept every honest run: ties, duplicates, padding, empty
  matches, cut tables;
- sort orders that operators claim, that are never compared with the rows, and
  that decide whether an aggregate gets a Sort;
- widths, limits and the last row of a loop.

`PROJECT.json` lists each of these hazards at its line with the properties that
cover it.

## Plan

Order, most important behaviour first. All of it exists.

1. `OperatorTree`, `OperatorTree_proofs`: the life cycle, composed with the parser.
2. `ZkSession`: the two parties and the channel, running lists of operators.
3. `GroupBy`, `MCGroupBy`, `GroupBy_proofs`: the aggregation pass.
4. `EquiJoin` (abstract), `KeyedJoin`, `MCKeyedJoin`: the join and its checks.
5. `SortOp`, `MCSortOp`: the sort, its limit and its checks.
6. Proofs for 1 and 3.
7. `Fields`, `Storage`, `Expressions`, `RowOperators`, `MCRowOperators`: values,
   rows and expressions, each in the clear and as a circuit, and the operators
   that work row by row, composed of them.
8. `ZkSets`, `MCZkSets`: the set operations the checks of sorts and joins rest on.
9. `QueryPlan`, `MCQueryPlan`: how the plan decides that an input is sorted,
   composed with short forms of the operators.
10. `Arrangement`: tables sorted or reduced to some of their rows, as several
   components do. `Iteration`: facts about numbers, loops, sorting and permutations
   that the proofs share.
11. Proofs about `ZkSession`, `SortOp`, `KeyedJoin` (with its refinement of
    `EquiJoin`), `QueryPlan`, and that `OperatorTree` evaluates once.
12. `ZkSets_proofs` (the walk over the sorted union finds a shared element iff
    there is one; the equalities that Alice's fillers make true), SUM in
    `GroupBy_proofs`, and SQL's answer in `QueryPlan_proofs`.

Modules that will be proved about use recursive functions, never RECURSIVE
operators; constants carry named assumptions; each operation is an action.

## Modules

### OperatorTree

`parser/plan_parser.cpp`, `operators/operator.cpp`, `operators/sql_input.cpp`.
A plan is built operator by operator (`CreateInputOperator`, `ParseUnary`,
`ParseJoin`; an input must be in `operators_` already, so it has a smaller
number). Execution is the C++ call stack: a frame of `stack` is a call of `run()`
with the place it has reached (`pc`) and the child its loop is at (`i`).
`executed` is `operator_executed_`, `live` is `output_.initialized()`, `evals`
counts `runSelf()` calls, `fed`/`stale` follow the aggregators of a scalar
aggregate through a second evaluation, `wire`, `cost` and `unmetered` follow the
byte counters. One action per step of `run()`: `ReturnCached`, `EnterRun`,
`RunChild`, `BeginSelf`, `FetchChild`, `RerunChild`, `BeginWork`, `SubOperators`,
`Work`, `FinishSelf`.

### ZkSession

`query_table/zk_query_table.cpp`, the `runSelf()` of every operator,
`zk-set/emp-zk-set/{poly_prdt.h,zk_set_equal.hpp,zk_set_utils.hpp,zk_set_disjoint.hpp}`,
`test/support/zk_base_test.cpp`, `test/tpch_test.cpp`. A plan is the list of
`runSelf()` calls. `StepsOf(p, ts, c)` is what party `p` does on the channel for a
call `c`, as a sequence of steps with a kind and a count, computed from that
party's own idea `ts` of the tables' sizes; it is where the code branches on
`party_` (`AliceFlush` is a flush that only Alice makes). `todo[p]` is what is left
of it. `outbuf` and `pipe` are Alice's output buffer and the messages in flight;
`seen` and `drawn` are the transcript hashed and the challenges drawn from it; `num`
is the product buffer. The channel and the circuits are external and modelled from
how they are used: committing, gates, products and reveals each send something from
Alice to Bob.

### GroupBy

`operators/group_by_aggregate.*`, `operators/support/group_by_aggregate_impl.cpp`.
`Step` is one iteration of the loop: the output row of the row before, the reset
of the aggregators at a change of key, the accumulation, and the two halves of
the update of `real_bin`. `Finish` writes the last bin and zeroes the dummies.
All five aggregates run at once. Sums wrap at the width of the column.
`MCGroupBy` adds the inputs only.

### KeyedJoin and EquiJoin

`operators/hash_keyed_join.cpp`, `operators/join.cpp`,
`zk-set/emp-zk-set/zk_set_disjoint.hpp`, `util/data_utilities.cpp`.
`Build` and `Probe` are Alice's hash join; `VerifyPredicate`, `VerifyLeft`,
`VerifyRight`, `VerifyDisjoint` are the checks in the order the code makes them,
with the de-duplication, set difference, concatenation and padding they call.
The two methods of the class are mirror images; `left` says which one runs.
`equal` compares multisets, which is what the products of the ZK set library
establish up to their soundness error. `EquiJoin` is the promise: the answer
is the bag of all pairs of real rows with equal keys, given once. `KeyedJoin`
implements it under the mapping that takes the output to the bag of its real
rows once the last check has passed, and to nothing before. `std::sort` appears as
`SortedBy`: its order is total on rows, so the sorted table is determined. The loops
that copy the rows they keep and pad with dummies appear as `Compacted`. Two named
assumptions on the inputs are preconditions that the code states or relies on:
dummies are zeroed, and the keys of the primary-key side are unique among its real
rows.

### SortOp

`operators/sort.*`, `parseSort`. `lt` and `checkOrder` are the two comparisons,
each a loop over the sort definition. `SortRows` picks any order in which no row
is less than one before it: `std::sort` is not stable. `Resize` shortens the
table, and `VerifySetEquality` still reads as many rows as the input had. A
collation that starts with the dummy tag has it ascending (`DummyTagAssumption`):
only `parseSort` names the tag, and it does so.

### Fields, Storage, Expressions, RowOperators

`query_table/field/*`, `util/type_utilities.cpp`, `query_table/*_tuple.cpp`,
`query_schema.cpp`, `query_table.cpp`, `expression/*`,
`parser/expression_parser.cpp`, `operators/{filter,project,union,basic_join,scalar_aggregate}.cpp`,
`data/psql_data_provider.cpp`.

The engine writes everything twice: once for `B = bool`, Alice's clear rows, and
once for `B = emp::Bit`, the committed ones. `Fields` has both forms of a value
(a number or a sequence of characters; a sequence of bits) with one operator per
visitor, conversion and factory method. `Storage` has both forms of a row, bytes
and wires, with the offsets a schema gives its columns and the dummy tag behind
them. `Expressions` parses the expression trees of a plan, types them, evaluates
them on either form and rebuilds them for the circuit. These three are constant
modules; `RowOperators` is the machine over them. `ReadTables` and `CommitTable`
turn database rows into a table and a commitment; then one operator runs, row by
row (`FilterRow`, `ProjectRow`, `AccumulateRow`), pair by pair (`JoinPair`) or at
once (`CopyUnion`, `Pad`), always on both forms. `WriteResults` and `Crash` are
the two ends of an aggregate. What emp-tool's circuits do is external: arithmetic
on the numbers that bits stand for. The reference is `SqlAnswer`: SQL on unbounded
numbers and plain rows, written without `Fields`.

### ZkSets

`zk-set/emp-zk-set/zk_set*.hpp`. A behaviour is one call. `Equal` is all of
`equal`; `Compress` replaces elements wider than a block by their hash;
`Subset`, `CommitCommon`, `Intersect` and `Combine` are the proofs in which Alice
commits what is missing (fillers, the common elements) and an equality of
multisets is checked; `CommitSorted`, `Walk` and `Reveal` are disjointness as a
walk over the signed and sorted union. Alice's local computations
(`set_minus_origin`, `intersection_local`) are as written: the loop that keeps
some elements as `Picked`, `std::sort` as `SortedBy`, `std::set_intersection` as a
recursive function that advances in the two sorted tables. `Abort` and
`SubsetOutOfStep` are the ways in which they fail. `check_set_equality` compares
multisets and what Alice claims with what was committed. `BothSplit` is all that
intersection checks: L is M and something more, and so is R. The properties
therefore say of it what this amounts to (`IntersectionAcceptsCommonParts`); what its
comment says, that M is the whole intersection, does not hold (see Runs).

### QueryPlan

`parser/plan_parser.cpp`, `operators/operator.cpp` and the constructors and
`runSelf()` of Sort, Filter, Project and GroupByAggregate. A plan is a chain of
steps. Each `Parse...` action builds an operator with the order it claims; only
`ParseAggregate` looks at a claim, and inserts a Sort where it is not compatible.
Each `Run...` action then makes a table of rows from the last one, with the order
the code gives it. Operators are short forms of the ones in the other modules: a
Sort leaves any order that `std::sort` may, COUNT stands for all aggregates, one
predicate for all. `RunPastOrder` is the read past the end of an order that is
shorter than the parser was told. The reference is `Answer`: SQL over bags, where a
bag is a function with one argument per row, so that which rows there are and how
often is all it says. Scans claim no order, as `parseSeqScan` has it;
`parseSqlInputs`, which would give them one, is not called by the parser's
constructor. Plans name columns that their operators have (`PlansAssumption`).
`TypeOK` says this of the orders that Sort and Project claim. It is not true of an
aggregate before it has run: that one claims by its child's columns, and cuts the
claim when it runs.

`RealRowsInOrder` has two conditions. Aggregates group by leading columns: the
order an aggregate gives its output is its input's, by the input's columns. And no
projection keeps a claim that was given up below it (`ClaimsAgree`): Project uses at
run time the order its constructor derived (`project.cpp:63`), from an aggregate
that then still claimed all of its child's columns and cuts the claim to its
group-by columns when it runs (`group_by_aggregate.cpp:43-47`). With three columns,
a sort on (0, 1, 2), a filter, an aggregate by 0 and a projection on both its
columns give the real rows (1, 2), (1, 1) under a claimed order (0, 1). Two columns
are too few for this, and tables whose groups are whole do not show it.

The plans shipped with the repository (`conf/plans`) have no aggregate that trusts
the order of another one directly.

## Runs

| Run | Module, configuration | Asks | Bounds |
|---|---|---|---|
| `operators_shared` | `OperatorTree`, `OperatorTreeShared.cfg` | caching, freeing, re-entry, cost, termination | all plans of up to 4 operators: enough for a diamond, a shared join input and one operator above it |
| `session` | `ZkSession`, `ZkSession.cfg` | lockstep, challenges, sizes, completeness, termination | all plans of up to 3 calls without BasicJoin, scans of 0 to 3 rows, limit 2, a product buffer of 1, 2 buffered messages and 1 in flight |
| `session_basic_join` | `ZkSessionBasicJoin.cfg` | lockstep with BasicJoin: violated | as above |
| `groupby` | `MCGroupBy`, `GroupBy.cfg` | one real row per bin, COUNT, SUM, MIN, MAX | all tables of up to 4 rows over 2 keys and 2 values, a column type of 6 values |
| `groupby_average` | `GroupByAverage.cfg` | AVG divides by the number of real rows: violated | as above |
| `keyed_join` | `MCKeyedJoin`, `KeyedJoin.cfg` | honest joins are accepted, and are equi-joins | all foreign-key tables of up to 3 rows and keyed tables of up to 3, 2 keys and 2 values, either orientation |
| `sort` | `MCSortOp`, `SortOp.cfg` | honest sorts are accepted and sorted, limits keep real rows | all tables of up to 3 rows of 2 columns, all collations of up to 3 columns, limits 0 to 2 |
| `row_operators` | `MCRowOperators`, `RowOperators.cfg` | committed rows are Alice's; answers are SQL's; left-out rows are zeros | one family of queries per type and operator, on all tables of 1 to 3 rows of chosen values; bytes of 3 bits, an INT of 2 and a LONG of 3 bytes |
| `zk_sets` | `MCZkSets`, `ZkSets.cfg` | answers are exact; subset and union accept nothing false, intersection accepts exactly the shared parts; true statements are accepted | all tables of up to 3 elements (2 for some operands) of 4 values, elements of a limb, a block, and one and five bits more than a block, 2 coefficients |
| `zk_sets_two_blocks` | `ZkSetsTwoBlocks.cfg` | equality of elements of exactly two blocks: violated | 2 elements |
| `query_plan` | `MCQueryPlan`, `QueryPlan.cfg` | claims that no aggregate gave up are true of real rows; plans on fresh sorts give SQL's answer | all plans of up to 3 steps of 12 kinds, all tables of 3 rows of 2 columns over 2 values, dummies included |
| `query_plan_nested` | `QueryPlanNested.cfg` | an aggregate gives a group one row: violated | as above |

Why these bounds show the cases of interest. Three rows put a dummy between two
real rows, two equal rows next to a third, and a match next to a miss; four rows
make two bins with a dummy in each. Two keys include zero, the key a cleared
dummy has. A limit below the number of rows both cuts real rows and cuts only
dummies. Bytes of 3 bits make an INT of 6 bits: sums, products and borrows cross
bytes, results leave the type's range, and a string's character has a sign bit.
Elements are compared in limbs and packed in blocks, so widths lie on either side
of both, and the field of the hash is smaller than a block, so that reduction
matters. Three steps are a sort, something that disturbs the order, and an
aggregate; or an aggregate, a projection that renumbers it, and another. Scans of
no rows throw, of one row have no pair to compare. With a
product buffer of one, the buffer fills inside an inner product; with one message
in flight Alice and Bob can be apart by as much as the buffer holds, and the
channel can be full.

What the violations show is in `findings` of `PROJECT.json`:

- BasicJoin reveals its verdict on Bob's side only, so Bob takes Alice's next
  message for it;
- the average of a bin that starts with a dummy divides by one too many;
- equality of elements of a whole number of blocks, more than one, does not
  compare their last block;
- an aggregate over another aggregate, or over a filtered sort, trusts an order
  that has zeroed rows in it, and splits groups.

One more disagreement shows in a property that holds. The comment on intersection
(`zk_set_intersection.hpp:6`, `zk_set.h:147`) says that "the set M is the
intersection of L and R"; the code accepts any part of it that has its elements as
often as L and R do, an empty one too, since it checks that L is M and
something more and that R is, and not that the rest of L and the rest of R are
disjoint. `IntersectionAcceptsCommonParts` says this exactly, both ways: with
L = R = {1, 2} and M = {1}, say, Bob accepts. Statements of the operators' checks do
not depend on it: they use equality and disjointness, and the union proof needs the
containment only.

Some properties hold under a condition, which is where the code departs from what
one would expect of it; `hazards` has the lines. SQL's answer (`RowsRight`,
`AggregatesRight`) is claimed where nothing overflows, floats are equal or far
apart, connectives have two operands, MODULUS is not used and an aggregate has an
answer. Clear and committed text agree (`SecureAgrees`) on ASCII. Operators are
evaluated once (`EvaluatedOnceInTree`) where none is shared; a shared one is
evaluated again, and a shared ScalarAggregate counts its rows again. Joins accept
honest results (`NeverRejected` of `KeyedJoin`) on inputs whose dummies are zero,
which Project does not guarantee. SUM is right modulo the width of its column. A
true subset is accepted (`ProofsAreComplete`) when the larger table ends in zero,
and true unions and intersections of tables without repetitions. MIN and MAX of a
group (`ExtremesAreOfRealRows`) are about integer columns: MAX of FLOATs starts from
the least positive one, which `GroupBy` does not have. A scalar MAX over FLOATs of
which none is positive, an extreme over no rows, longer connectors and MODULUS are
in `RowOperators` as the code has them: their two forms agree (`SecureAgrees`), and
no property says that their value is right. A scalar AVG over no rows crashes.

## Fairness

- `OperatorTree`: one thread. Parsing and running are each weakly fair: the
  program takes its next step.
- `ZkSession`: two processes that each take their next step (`Shared`, `Send`,
  `EmptyInput` for Alice, `Shared`, `Receive`, `CutOff` for Bob). The channel is
  only obliged to write when Alice flushes, when its buffer is full and when it is
  deleted (`MustWrite`): that it writes on its own account is possible and never
  assumed. Alice waits for nothing from Bob here, so a flush that is left out delays
  Bob, at the latest until Alice closes the channel, and stops nobody.
- `KeyedJoin`: one computation, weakly fair.
- `GroupBy`, `SortOp`, `RowOperators`, `ZkSets`, `QueryPlan`: no fairness; they are
  single computations, and their properties are about what is reached.

## Proofs

`OperatorTree_proofs`, for plans of any size and shape: `TypeCorrect`,
`NoReentryHolds`, `NeverReturnsFreedHolds`, `InputsHeldHolds`,
`BytesAccountedHolds`. From `MaxOpsAssumption`. None of the properties is
inductive: they rest on an invariant that describes the call stack. Its parts
are `InputsBelow` (inputs have smaller numbers), `WaitsForNext` (each frame
waits for the call above it, which is one of its inputs) and `AllSecured` (what
each frame can rely on being evaluated while it waits). The crux is a join whose
second input contains its first: running the second frees the first, `runSelf()`
evaluates it again, and that cannot free the second because the first has the
smaller number.

`GroupBy_proofs`, for inputs of any length and columns of any range:
`TypeCorrect`, `OneRowPerBinHolds`, `CountIsRight`, `ExtremesAreRight`,
`SumIsRight`. From `ValsAssumption` (the type's least and greatest
value bound the column, and lie in its width) and `InputsAssumption`. SUM is
proved congruent, modulo the width, to the sum of the bin's real rows
(`SumUpTo`). The invariant relates the running state of
the aggregators to the set of real rows of the open bin (`RealIn(pos)`), which is
either extended by a row (`BinGrows`) or replaced by a new one (`BinOpens`), and
says of the rows written that each is right for its place; `OneRowPerBin` follows
because the flag together with the row in hand says whether the open bin has a
real row.

For plans that are trees `OperatorTree_proofs` also has `EvaluatedOnceHolds`: every
operator is evaluated at most once. The further invariant (`TreeInv`) is that an
operator whose output has been freed has a parent that has been evaluated, and that
the frame below any other is its only parent, not evaluated yet; so nobody is left
to ask for a freed output.

`Iteration` has what the other proofs share: induction over Nat as a statement
about sets (the library's theorem takes an operator, which the provers cannot
instantiate), the least member of a set of numbers, what a recursive function is
that follows a rule (`Loops`) or runs from a state (`Iterates`, `Recursion`),
initial intervals (`DownwardClosed`), that permutations exist that rank a set
(`Ranked`) and keep counts (`SameCount`), that `SortedBy` sorts (`SortedFacts`), how
often a value occurs in tables put together or permuted (`PlacesOfConcat`,
`PlacesOfPermuted`), and what the rows picked from a table are (`NthFacts`,
`PickedFacts`).

`ZkSession_proofs`, for plans of any length, tables of any size and channels of
any capacity: `TypeCorrect`, `ReadsAreRight`, `ChallengesAreEqual`,
`TablesAreEqual`, `AcceptanceIsComplete`. They assume `NoBasicJoin`, since
`session_basic_join` shows that a session with one breaks them. Each party alone is
deterministic: `Follow` gives its one next step, and `Run(plan)` the sequence of
states that `Follow` makes. The invariant (`LockStep`) puts both parties at places
of this same run, Alice's not before Bob's, with exactly the messages of the run in
between on the channel. That both make the same run is `StepsAgree`: the places
where the code branches on `party_` send what the other side reads. What has been
made at one place is still there at a later one (`Extends`), which gives agreement
of tables and challenges. TLC checks the properties, not `LockStep`: `Run` is a
function on Nat.

`SortOp_proofs`, for tables and sort definitions of any length: `TypeCorrect`,
`NeverRejectedHolds`, `OutputSortedHolds`, `LimitKeepsRealHolds`. `Sort::lt` and
`Sort::checkOrder` are two loops, written apart as recursive functions; `LtDecides`
and `CheckDecides` show that either decides by the first column in which two rows
differ. The invariant says that the table is a permutation of the input, cut or
not, and sorted; with the dummy tag sorted first its real rows are an initial
interval, so that a limit keeps as many as it can.

`KeyedJoin_proofs`, for tables of any length: `TypeCorrect`, `NeverRejectedHolds`,
`DeltaIsUnmatchedHolds`, `OutputDummiesZeroedHolds`, `ImplementsEquiJoin`. From the
assumptions on dummies and keys above. The invariant counts: as many rows have been
placed as foreign-key rows probed had a match, and each placed pair is of one of
them. Two tables whose dummies are zero are equal as multisets iff each real row
occurs as often in both (`EqualByReal`); `zeroOutDupes` leaves each real row once
(`ZeroOutDupesFacts`), which takes a key that was matched often back to one row;
keys left over on the two sides lie on opposite sides of the hash-table lookup,
hence the walk finds none shared (`DisjointHolds`). `ImplementsEquiJoin` is the
safety part of the refinement: initial states map to initial states and each step
to a step of `EquiJoin` or a stutter.

`QueryPlan_proofs`, for plans and tables of any length and width: `TypeCorrect`,
`RealRowsInOrderHolds`, `FreshSortsAreRead`, `FreshSortsGroup`,
`AnswerRightOnFreshSortsHolds`. From
`InputsAssumption` and `PlansAssumption`. None of the properties is inductive. The
invariant describes the chain of operators (`StandsOn`): what the parser saw to when
it put one on another, and that what an operator gives up when it runs leaves a
prefix of its claim, so that an aggregate parsed as compatible still agrees with what
is left. Orders then pass upwards: rows that are dropped leave the rest in order; a
projection carries its order over (`ProjectedInOrder`, on `CarriedFacts`); the rows
an aggregate writes stand for real rows in the same order, since bins are intervals
(`GroupedInOrder`). `FreshSortsGroup` is the converse of the finding of
`query_plan_nested`: where every aggregate stands on a sort, with projections at
most between, whole tables are in order, dummies and all (`Sorted`); equal keys then
have only equal keys between them (`SortedBetween`) and each group gets one row.

`AnswerRightOnFreshSortsHolds` says more of such plans, where they have no limit: the
real rows of the last table are SQL's answer to the plan. Its invariant is
`AnswerInv`. `Follows` matches the operators with the steps of the plan, the sorts
that the parser inserted standing for none; the real rows of the last table are, as
a bag, the answer to the steps done so far, which is a pairing one to one of equal
rows (`SameRows`). A step of SQL takes equal bags to equal bags; a sort permutes
rows; a filter and a projection do to the real rows what SQL does. An aggregate
does if rows with equal keys stand together (`Together`), since its pass then meets
each group whole.

`ZkSets_proofs`, for tables of any length and elements, blocks and limbs of any
width: `TypeCorrect`, `AnswersCorrect`, `SubsetsAndUnionsTrue`,
`CommonPartsAccepted`, `ProofsComplete`. From
`WidthsAssumption` and `CallsAssumption`. All but the first assume
`LastBlockHasBits`, that the last block of no wide element is full:
`zk_sets_two_blocks` shows that equality is wrong without it. The properties are
about the tables of the call, but the checks are made on compressed ones. So the
invariant says of the tables as they are what the properties say of those of the
call (`Answers`), and that the former are the latter up to a renaming of elements,
one to one, that keeps zero (`Renamed`); that the hash is such a renaming is due to
the challenge being drawn so that it does not collide (`Draws`), which leaves out
the soundness error. The rest of it is about what is in progress: what the two
checks of a union have established between them (`Uniting`), and that a walk has
compared all neighbours in the sorted union up to its place (`Walking`). The walk
decides (`WalkDecides`) because equal keys of the two tables are neighbours once
signed and sorted, with the limbs compared as one number. Fillers make the
multisets equal just if the statement is true (`SplitEqual`, `SubsetFits`,
`UnionProvable`). For an intersection the statement is that each element of M occurs
in L and in R as often as in M (`CommonPart`): the removal of M from L then leaves as
many elements as the sizes say (`PartLength`), so that Alice does not abort, and the
equality holds. Where it is not so, Alice aborts or one of the equalities fails.

TLC has checked the inductive invariants other than `LockStep` on small instances
before they were proved, with the renaming of `Renamed` and the numbering and
pairing of `AnswerInv` sought among finite functions.

Only model-checked: liveness (`RunReturns`, `SessionEnds`, the progress part of
`IsEquiJoin`), for which there is no prover; and everything in `RowOperators`,
whose values are built by recursion on bits and on expression trees: that the
two forms of an expression agree would need induction over its structure.

## Not modelled

- The cryptography below the circuit interface, the soundness error of set
  equality, and TCP. A committed value is the value, a check is its predicate.
- Casts, hashes, `compareAndSwap`, printing and timing; fractions of floats; helpers
  that nothing calls. Parsing of JSON text: a plan is given as its nodes.
- PostgreSQL: `RowOperators` starts from the rows it returns.
- Orders that joins claim at run time; no parsed plan depends on them.
- `JoinEqualityConditionVisitor`: its result, the keys of a join, is given.
- The planner front end: one pass through Calcite before the system runs.
- Inputs that break a precondition the code states and never checks: a
  primary-key side with repeated keys, a limit without an order.
