--------------------------- MODULE GroupBy_proofs ---------------------------
(***************************************************************************)
(* Proofs about GroupBy, for inputs of any length over any columns.        *)
(*                                                                         *)
(* The inductive invariant says that the running state of the aggregators  *)
(* is that of the bin rows taken up so far (AggregateOf at pos), that the  *)
(* flag is (FlagIsOfOpenBin), and that each row written was right when it  *)
(* was written (Written).  The lemmas say how the open bin grows.          *)
(***************************************************************************)
EXTENDS GroupBy, Iteration

(* Two numbers are the same in a column of Half's width.                   *)
SameModulo(x, y) == \E k \in Int : x = y + k * (2 * Half)

(* a is what COUNT, SUM, MIN and MAX are to be after row i.                *)
AggregateOf(a, i) ==
  /\ a.count = Cardinality(RealIn(i))
  /\ SameModulo(a.sum, SumUpTo(RealIn(i), i))
  /\ RealIn(i) = {} => a.min = Highest /\ a.max = Lowest
  /\ RealIn(i) # {} =>
       /\ \E j \in RealIn(i) : input[j].val = a.min
       /\ \E j \in RealIn(i) : input[j].val = a.max
  /\ \A j \in RealIn(i) : a.min <= input[j].val /\ input[j].val <= a.max

WrittenIn(out) ==
  \A i \in 1 .. Len(out) :
    /\ ~out[i].dummy => AggregateOf(out[i].agg, i)
    /\ ~out[i].dummy <=> (LastOfBin(i) /\ RealIn(i) # {})

Written == WrittenIn(output)

OutRow == [key : Keys, agg : Aggregates, dummy : BOOLEAN]

(* The flag kept across iterations says, together with the current row,    *)
(* whether the open bin has a real row.                                    *)
FlagIsOfOpenBin ==
  ~done => ((realBin \/ ~Predecessor.dummy) <=> RealIn(pos) # {})

IndInv ==
  /\ TypeOK
  /\ AggregateOf(agg, pos)
  /\ FlagIsOfOpenBin
  /\ Written

-----------------------------------------------------------------------------
(* A row that matches its predecessor joins the predecessor's bin.         *)
LEMMA BinGrows ==
  ASSUME input \in Seq(Row), NEW i \in 1 .. Len(input), i + 1 \in 1 .. Len(input),
         input[i].key = input[i + 1].key
  PROVE  /\ input[i + 1].dummy => RealIn(i + 1) = RealIn(i)
         /\ ~input[i + 1].dummy => RealIn(i + 1) = RealIn(i) \cup {i + 1}
<1>1. Bin(i + 1) = Bin(i) \cup {i + 1}
  <2>1. ASSUME NEW j \in Bin(i + 1) PROVE j \in Bin(i) \cup {i + 1}
    <3>1. j \in 1 .. (i + 1) /\ \A k \in j .. (i + 1) : input[k].key = input[i + 1].key
      BY <2>1 DEF Bin
    <3>2. CASE j = i + 1
      BY <3>2
    <3>3. CASE j # i + 1
      <4>1. j \in 1 .. i
        BY <3>1, <3>3
      <4>2. \A k \in j .. i : k \in j .. (i + 1)
        BY <4>1
      <4> QED
        BY <3>1, <4>1, <4>2 DEF Bin
    <3> QED
      BY <3>2, <3>3
  <2>2. ASSUME NEW j \in Bin(i) PROVE j \in Bin(i + 1)
    <3>1. j \in 1 .. i /\ \A k \in j .. i : input[k].key = input[i].key
      BY <2>2 DEF Bin
    <3>2. \A k \in j .. (i + 1) : k \in j .. i \/ k = i + 1
      BY <3>1
    <3> QED
      BY <3>1, <3>2 DEF Bin
  <2>3. i + 1 \in Bin(i + 1)
    BY DEF Bin
  <2> QED
    BY <2>1, <2>2, <2>3
<1> QED
  BY <1>1 DEF RealIn

(* A row that does not match opens a bin of its own.                       *)
LEMMA BinOpens ==
  ASSUME input \in Seq(Row), NEW i \in 1 .. Len(input),
         \/ i = 1
         \/ i - 1 \in 1 .. Len(input) /\ input[i - 1].key # input[i].key
  PROVE  /\ input[i].dummy => RealIn(i) = {}
         /\ ~input[i].dummy => RealIn(i) = {i}
<1>1. Bin(i) = {i}
  <2>1. ASSUME NEW j \in Bin(i) PROVE j = i
    <3>1. j \in 1 .. i /\ \A k \in j .. i : input[k].key = input[i].key
      BY <2>1 DEF Bin
    <3>2. SUFFICES ASSUME j # i PROVE FALSE
      OBVIOUS
    <3>3. i # 1 /\ i - 1 \in j .. i
      BY <3>1, <3>2
    <3> QED
      BY <3>1, <3>3
  <2>2. i \in Bin(i)
    BY DEF Bin
  <2> QED
    BY <2>1, <2>2
<1> QED
  BY <1>1 DEF RealIn

(* The real rows of a bin are finitely many, and none of them comes later. *)
LEMMA RealInFinite ==
  ASSUME NEW i \in Nat
  PROVE  IsFiniteSet(RealIn(i)) /\ RealIn(i) \subseteq 1 .. i
<1>1. RealIn(i) \subseteq 1 .. i
  BY DEF RealIn, Bin
<1>2. IsFiniteSet(1 .. i)
  BY FS_Interval
<1> QED
  BY <1>1, <1>2, FS_Subset

-----------------------------------------------------------------------------
(* Rows and the running state have the types of their columns.             *)
LEMMA RowTypes ==
  ASSUME input \in Inputs, NEW i \in 1 .. Len(input)
  PROVE  /\ input \in Seq(Row) /\ Len(input) \in Nat /\ i \in Nat
         /\ input[i] \in Row /\ input[i].key \in Keys
         /\ input[i].dummy \in BOOLEAN
         /\ input[i].val \in Value /\ input[i].val \in Int
         /\ Lowest <= input[i].val /\ input[i].val <= Highest
<1>1. input \in Seq(Row)
  BY InputsAssumption
<1>2. input[i] \in Row
  BY <1>1
<1>3. input[i].val \in Vals
  BY <1>2 DEF Row
<1> QED
  BY <1>1, <1>2, <1>3, ValsAssumption DEF Row, Value

(* A sum stays within its column type.                                     *)
LEMMA WrapType ==
  ASSUME NEW x \in Int
  PROVE  Wrap(x) \in Value
<1> DEFINE n == 2 * Half
           y == x + Half
<1>1. Half \in Nat /\ n \in Nat /\ n > 0 /\ y \in Int
  BY ValsAssumption
<1>2. y % n \in 0 .. (n - 1)
  <2> HIDE DEF n, y
  <2> QED
    BY <1>1
<1> QED
  BY <1>1, <1>2 DEF Wrap, Value

LEMMA SameItself ==
  ASSUME NEW x \in Int
  PROVE  SameModulo(x, x)
<1>1. 0 \in Int /\ x = x + 0 * (2 * Half)
  BY ValsAssumption
<1> QED
  BY <1>1 DEF SameModulo

(* Wrapping keeps a number the same in its column.                         *)
LEMMA WrapSame ==
  ASSUME NEW x \in Int, NEW y \in Int, NEW v \in Int, SameModulo(x, y)
  PROVE  SameModulo(Wrap(x + v), y + v)
<1> DEFINE n == 2 * Half
           z == x + v + Half
<1>1. Half \in Nat /\ n \in Nat /\ n > 0 /\ z \in Int
  BY ValsAssumption
<1>2. PICK k \in Int : x = y + k * n
  BY DEF SameModulo
<1>3. Wrap(x + v) = (z % n) - Half
  BY DEF Wrap
<1> HIDE DEF n
<1>4. PICK q \in Int : (z % n) = z - q * n
  <2> HIDE DEF z
  <2>1. z = n * (z \div n) + (z % n) /\ z \div n \in Int
    BY <1>1
  <2> QED
    BY <1>1, <2>1
<1>5. Wrap(x + v) = (y + v) + (k - q) * n
  BY <1>1, <1>2, <1>3, <1>4
<1>6. k - q \in Int
  OBVIOUS
<1> QED
  BY <1>5, <1>6 DEF SameModulo, n

-----------------------------------------------------------------------------
(* Sums of some of the first rows.                                         *)
LEMMA SumFacts ==
  ASSUME input \in Inputs, NEW S
  PROVE  /\ SumUpTo(S, 0) = 0
         /\ \A i \in 0 .. Len(input) - 1 :
              SumUpTo(S, i + 1) =
                SumUpTo(S, i) + (IF i + 1 \in S THEN input[i + 1].val ELSE 0)
         /\ \A i \in 0 .. Len(input) : SumUpTo(S, i) \in Int
<1> DEFINE n == Len(input)
           Term(j) == IF j \in S THEN input[j].val ELSE 0
           Rule(f) == [j \in 0 .. n |-> IF j = 0 THEN 0 ELSE f[j - 1] + Term(j)]
           sum == CHOOSE f : f = Rule(f)
           Add == [s \in Nat \X Int |-> s[2] + (IF s[1] \in 1 .. n THEN Term(s[1]) ELSE 0)]
<1>1. n \in Nat /\ \A j \in 1 .. n : Term(j) \in Int
  BY RowTypes, InputsAssumption
<1>2. \A i : SumUpTo(S, i) = sum[i]
  BY DEF SumUpTo
<1> HIDE DEF n, Term
<1>3. Add \in [Nat \X Int -> Int]
  BY <1>1
<1>4. \A j \in 1 .. n, x \in Int : Add[<<j, x>>] = x + Term(j)
  BY <1>1
<1> HIDE DEF Add
<1>5. PICK f : IsRecursion(f, Int, Add, 0, n)
  <2> DEFINE Sums == Int
  <2>1. Add \in [Nat \X Sums -> Sums] /\ 0 \in Sums /\ n \in Nat
    BY <1>1, <1>3
  <2> HIDE DEF Sums
  <2>2. \E f : IsRecursion(f, Sums, Add, 0, n)
    BY <2>1, Recursion
  <2> QED
    BY <2>2 DEF Sums
<1>6. f \in [0 .. n -> Int] /\ f[0] = 0 /\ \A j \in 1 .. n : f[j] = Add[<<j, f[j - 1]>>]
  BY <1>5 DEF IsRecursion
<1>7. \A j \in 1 .. n : f[j] = f[j - 1] + Term(j)
  <2> SUFFICES ASSUME NEW j \in 1 .. n PROVE f[j] = f[j - 1] + Term(j)
    OBVIOUS
  <2>1. f[j - 1] \in Int
    BY <1>1, <1>6
  <2> QED
    BY <1>4, <1>6, <2>1
<1>8. f = Rule(f)
  <2>1. \A j \in 0 .. n : f[j] = IF j = 0 THEN 0 ELSE f[j - 1] + Term(j)
    BY <1>1, <1>6, <1>7
  <2> QED
    BY <1>6, <2>1
<1>9. sum = Rule(sum)
  <2> HIDE DEF Rule
  <2> QED
    BY <1>8
<1> HIDE DEF sum
<1>10. /\ sum[0] = 0 /\ \A j \in 1 .. n : sum[j] = sum[j - 1] + Term(j)
  BY <1>1, <1>9
<1> HIDE DEF Rule
<1> DEFINE Good == { i \in Nat : i <= n => sum[i] \in Int }
<1>11. 0 \in Good
  BY <1>10
<1>12. ASSUME NEW i \in Nat, i \in Good PROVE i + 1 \in Good
  BY <1>1, <1>10, <1>12
<1>13. Nat \subseteq Good
  <2> HIDE DEF Good
  <2> QED
    BY <1>11, <1>12, NatSetInduction
<1>14. \A i \in 0 .. n - 1 : sum[i + 1] = sum[i] + Term(i + 1)
  BY <1>1, <1>10
<1> QED
  BY <1>1, <1>2, <1>10, <1>13, <1>14 DEF n, Term

LEMMA SumType ==
  ASSUME input \in Inputs, NEW S, NEW i \in 0 .. Len(input)
  PROVE  SumUpTo(S, i) \in Int
BY SumFacts

LEMMA SumStart ==
  ASSUME input \in Inputs, NEW S
  PROVE  SumUpTo(S, 0) = 0
BY SumFacts

LEMMA SumStep ==
  ASSUME input \in Inputs, NEW S, NEW i \in 0 .. Len(input) - 1
  PROVE  SumUpTo(S, i + 1) = SumUpTo(S, i) + (IF i + 1 \in S THEN input[i + 1].val ELSE 0)
BY SumFacts

(* The same rows have the same sum.                                        *)
LEMMA SumOfSame ==
  ASSUME input \in Inputs, NEW S, NEW T, NEW i \in 0 .. Len(input),
         \A j \in 1 .. i : j \in S <=> j \in T
  PROVE  SumUpTo(S, i) = SumUpTo(T, i)
<1> DEFINE Good == { j \in Nat : j <= i => SumUpTo(S, j) = SumUpTo(T, j) }
<1>1. Len(input) \in Nat
  BY InputsAssumption
<1>2. 0 \in Good
  BY SumStart
<1>3. ASSUME NEW j \in Nat, j \in Good PROVE j + 1 \in Good
  <2> SUFFICES ASSUME j + 1 <= i PROVE SumUpTo(S, j + 1) = SumUpTo(T, j + 1)
    OBVIOUS
  <2>1. j \in 0 .. Len(input) - 1 /\ j + 1 \in 1 .. i /\ SumUpTo(S, j) = SumUpTo(T, j)
    BY <1>1, <1>3
  <2>2. /\ SumUpTo(S, j + 1) = SumUpTo(S, j) + (IF j + 1 \in S THEN input[j + 1].val ELSE 0)
        /\ SumUpTo(T, j + 1) = SumUpTo(T, j) + (IF j + 1 \in T THEN input[j + 1].val ELSE 0)
    BY <2>1, SumStep
  <2> QED
    BY <2>1, <2>2
<1> HIDE DEF Good
<1>4. Nat \subseteq Good
  BY <1>2, <1>3, NatSetInduction
<1> QED
  BY <1>1, <1>4 DEF Good

(* No rows have the sum zero.                                              *)
LEMMA SumOfNone ==
  ASSUME input \in Inputs, NEW i \in 0 .. Len(input)
  PROVE  SumUpTo({}, i) = 0
<1> DEFINE Good == { j \in Nat : j <= Len(input) => SumUpTo({}, j) = 0 }
<1>1. Len(input) \in Nat
  BY InputsAssumption
<1>2. 0 \in Good
  BY SumStart
<1>3. ASSUME NEW j \in Nat, j \in Good PROVE j + 1 \in Good
  <2> SUFFICES ASSUME j + 1 <= Len(input) PROVE SumUpTo({}, j + 1) = 0
    OBVIOUS
  <2>1. j \in 0 .. Len(input) - 1 /\ SumUpTo({}, j) = 0
    BY <1>1, <1>3
  <2>2. SumUpTo({}, j + 1) = SumUpTo({}, j) + (IF j + 1 \in {} THEN input[j + 1].val ELSE 0)
    BY <2>1, SumStep
  <2> QED
    BY <2>1, <2>2
<1> HIDE DEF Good
<1>4. Nat \subseteq Good
  BY <1>2, <1>3, NatSetInduction
<1> QED
  BY <1>1, <1>4 DEF Good

-----------------------------------------------------------------------------
LEMMA FreshType ==
  ASSUME input \in Inputs, NEW i \in 1 .. Len(input)
  PROVE  Fresh(input[i]) \in Aggregates
<1>1. /\ Lowest \in Value /\ Highest \in Value /\ 0 \in Value
  BY ValsAssumption DEF Value
<1> QED
  BY <1>1, RowTypes DEF Fresh, Aggregates

LEMMA AccumulateType ==
  ASSUME input \in Inputs, NEW i \in 1 .. Len(input), NEW a \in Aggregates,
         NEW notMatch \in BOOLEAN
  PROVE  Accumulate(a, input[i], notMatch) \in Aggregates
<1>1. /\ a.count \in Nat /\ a.sum \in Value /\ a.avgCount \in Nat
      /\ a.min \in Value /\ a.max \in Value
  BY DEF Aggregates
<1>2. a.sum + input[i].val \in Int
  BY <1>1, RowTypes, ValsAssumption DEF Value
<1>3. Wrap(a.sum + input[i].val) \in Value
  BY <1>2, WrapType
<1> QED
  BY <1>1, <1>3, RowTypes DEF Accumulate, Aggregates

-----------------------------------------------------------------------------
(* The first row of a bin: initialize() resets everything that the bin     *)
(* before it left behind.                                                  *)
LEMMA FreshIsRight ==
  ASSUME input \in Inputs, NEW i \in 1 .. Len(input),
         \/ i = 1
         \/ i - 1 \in 1 .. Len(input) /\ input[i - 1].key # input[i].key
  PROVE  AggregateOf(Fresh(input[i]), i)
<1> USE RowTypes
<1>1. CASE input[i].dummy
  <2>1. RealIn(i) = {}
    BY <1>1, BinOpens
  <2>2. SumUpTo(RealIn(i), i) = 0
    BY <2>1, SumOfNone
  <2>3. SameModulo(Fresh(input[i]).sum, SumUpTo(RealIn(i), i))
    BY <1>1, <2>2, SameItself DEF Fresh
  <2> QED
    BY <1>1, <2>1, <2>3, FS_EmptySet DEF AggregateOf, Fresh
<1>2. CASE ~input[i].dummy
  <2>1. RealIn(i) = {i}
    BY <1>2, BinOpens
  <2>2. Cardinality(RealIn(i)) = 1
    BY <2>1, FS_Singleton
  <2>3. SumUpTo(RealIn(i), i) = input[i].val
    <3>1. i - 1 \in 0 .. Len(input) - 1 /\ i - 1 \in 0 .. Len(input) /\ (i - 1) + 1 = i
      OBVIOUS
    <3>2. SumUpTo({i}, i - 1) = SumUpTo({}, i - 1)
      BY <3>1, SumOfSame
    <3>3. SumUpTo({i}, i - 1) = 0
      BY <3>1, <3>2, SumOfNone
    <3> DEFINE h == i - 1
    <3>4. h \in 0 .. Len(input) - 1 /\ h + 1 = i
      BY <3>1
    <3> HIDE DEF h
    <3>5. SumUpTo({i}, h + 1) =
            SumUpTo({i}, h) + (IF h + 1 \in {i} THEN input[h + 1].val ELSE 0)
      BY <3>4, SumStep
    <3>6. SumUpTo({i}, i) = 0 + input[i].val
      BY <3>3, <3>4, <3>5 DEF h
    <3> QED
      BY <2>1, <3>6
  <2>4. SameModulo(Fresh(input[i]).sum, SumUpTo(RealIn(i), i))
    <3>1. Fresh(input[i]).sum = input[i].val
      BY <1>2 DEF Fresh
    <3> QED
      BY <2>3, <3>1, SameItself
  <2> QED
    BY <1>2, <2>1, <2>2, <2>4 DEF AggregateOf, Fresh
<1> QED
  BY <1>1, <1>2

(* A further row of the bin: the row after i has the same key.             *)
LEMMA AccumulateIsRight ==
  ASSUME input \in Inputs, NEW i \in 1 .. Len(input), i + 1 \in 1 .. Len(input),
         input[i].key = input[i + 1].key,
         NEW a \in Aggregates, AggregateOf(a, i)
  PROVE  AggregateOf(Accumulate(a, input[i + 1], FALSE), i + 1)
<1> DEFINE row == input[i + 1]
           b == Accumulate(a, row, FALSE)
<1>1. /\ row.dummy \in BOOLEAN /\ row.val \in Int
      /\ Lowest <= row.val /\ row.val <= Highest
  BY RowTypes
<1>2. a.count \in Nat /\ a.min \in Int /\ a.max \in Int
  BY ValsAssumption DEF Aggregates, Value
<1>3. CASE row.dummy
  <2>1. b = a
    BY <1>3 DEF Accumulate
  <2>2. RealIn(i + 1) = RealIn(i)
    BY <1>3, BinGrows, RowTypes
  <2>3. i + 1 \notin RealIn(i) /\ i \in 0 .. Len(input) - 1
    BY RealInFinite, RowTypes
  <2>4. SumUpTo(RealIn(i), i + 1) = SumUpTo(RealIn(i), i) + 0
    BY <2>3, SumStep
  <2>5. SumUpTo(RealIn(i), i) \in Int
    BY <2>3, SumType
  <2>6. SumUpTo(RealIn(i + 1), i + 1) = SumUpTo(RealIn(i), i)
    BY <2>2, <2>4, <2>5
  <2> QED
    BY <2>1, <2>2, <2>6 DEF AggregateOf
<1>4. CASE ~row.dummy
  <2>1. RealIn(i + 1) = RealIn(i) \cup {i + 1}
    BY <1>4, BinGrows, RowTypes
  <2>2. IsFiniteSet(RealIn(i)) /\ RealIn(i) \subseteq 1 .. i /\ i + 1 \notin RealIn(i)
    BY RealInFinite, RowTypes
  <2>3. /\ b.count = a.count + 1
        /\ b.min = IF row.val < a.min THEN row.val ELSE a.min
        /\ b.max = IF row.val > a.max THEN row.val ELSE a.max
    BY <1>4 DEF Accumulate
  <2> HIDE DEF b
  <2>a. /\ b.min \in Int /\ b.min <= a.min /\ b.min <= row.val
        /\ b.max \in Int /\ a.max <= b.max /\ row.val <= b.max
    BY <1>1, <1>2, <2>3
  <2>4. b.count = Cardinality(RealIn(i + 1))
    BY <2>1, <2>2, <2>3, FS_AddElement DEF AggregateOf
  <2>5. \A j \in RealIn(i) : /\ input[j].val \in Int
                             /\ a.min <= input[j].val /\ input[j].val <= a.max
    BY <2>2, RowTypes DEF AggregateOf
  <2>6. \A j \in RealIn(i + 1) : b.min <= input[j].val /\ input[j].val <= b.max
    <3> SUFFICES ASSUME NEW j \in RealIn(i + 1)
                 PROVE  b.min <= input[j].val /\ input[j].val <= b.max
      OBVIOUS
    <3>1. CASE j = i + 1
      BY <3>1, <2>a
    <3>2. CASE j \in RealIn(i)
      BY <3>2, <1>2, <2>a, <2>5
    <3> QED
      BY <2>1, <3>1, <3>2
  <2>7. i + 1 \in RealIn(i + 1) /\ RealIn(i + 1) # {}
    BY <2>1
  <2>8. \E j \in RealIn(i + 1) : input[j].val = b.min
    <3>1. CASE row.val < a.min
      BY <3>1, <2>3, <2>7
    <3>2. CASE ~(row.val < a.min) /\ RealIn(i) # {}
      BY <3>2, <2>1, <2>3 DEF AggregateOf
    <3>3. CASE ~(row.val < a.min) /\ RealIn(i) = {}
      <4>1. a.min = Highest
        BY <3>3 DEF AggregateOf
      <4>2. row.val = a.min
        BY <4>1, <3>3, <1>1, <1>2
      <4> QED
        BY <4>2, <3>3, <2>3, <2>7
    <3> QED
      BY <3>1, <3>2, <3>3
  <2>9. \E j \in RealIn(i + 1) : input[j].val = b.max
    <3>1. CASE row.val > a.max
      BY <3>1, <2>3, <2>7
    <3>2. CASE ~(row.val > a.max) /\ RealIn(i) # {}
      BY <3>2, <2>1, <2>3 DEF AggregateOf
    <3>3. CASE ~(row.val > a.max) /\ RealIn(i) = {}
      <4>1. a.max = Lowest
        BY <3>3 DEF AggregateOf
      <4>2. row.val = a.max
        BY <4>1, <3>3, <1>1, <1>2
      <4> QED
        BY <4>2, <3>3, <2>3, <2>7
    <3> QED
      BY <3>1, <3>2, <3>3
  <2>10. SameModulo(b.sum, SumUpTo(RealIn(i + 1), i + 1))
    <3>1. i \in 0 .. Len(input) - 1 /\ i \in 0 .. Len(input)
      BY RowTypes
    <3>2. \A j \in 1 .. i : j \in RealIn(i + 1) <=> j \in RealIn(i)
      BY <2>1, RowTypes
    <3>3. SumUpTo(RealIn(i + 1), i) = SumUpTo(RealIn(i), i)
      BY <3>1, <3>2, SumOfSame
    <3>4. SumUpTo(RealIn(i + 1), i + 1) = SumUpTo(RealIn(i), i) + row.val
      BY <2>7, <3>1, <3>3, SumStep
    <3>5. SumUpTo(RealIn(i), i) \in Int /\ a.sum \in Int
      BY <3>1, SumType, ValsAssumption DEF Aggregates, Value
    <3>6. SameModulo(Wrap(a.sum + row.val), SumUpTo(RealIn(i), i) + row.val)
      BY <1>1, <3>5, WrapSame DEF AggregateOf
    <3>7. b.sum = Wrap(a.sum + row.val)
      BY <1>4 DEF Accumulate, b
    <3> QED
      BY <3>4, <3>6, <3>7
  <2>11. AggregateOf(b, i + 1)
    BY <2>4, <2>6, <2>7, <2>8, <2>9, <2>10 DEF AggregateOf
  <2> QED
    BY <2>11 DEF b
<1> QED
  BY <1>1, <1>3, <1>4

-----------------------------------------------------------------------------
(* A row written with the right dummy tag keeps all that is written right. *)
LEMMA WrittenGrows ==
  ASSUME IndInv, ~done, NEW d \in BOOLEAN, NEW out,
         ~d <=> (LastOfBin(pos) /\ RealIn(pos) # {}),
         out = Append(output, [key |-> Predecessor.key, agg |-> agg, dummy |-> d])
  PROVE  out \in Seq(OutRow) /\ Len(out) = pos /\ WrittenIn(out)
<1> DEFINE new == [key |-> Predecessor.key, agg |-> agg, dummy |-> d]
<1>1. /\ output \in Seq(OutRow) /\ Len(output) = pos - 1 /\ pos \in Nat
      /\ pos \in 1 .. Len(input) /\ input \in Inputs /\ agg \in Aggregates
  BY RowTypes DEF IndInv, TypeOK, OutRow
<1>2. new \in OutRow
  BY <1>1, RowTypes DEF Predecessor, OutRow
<1>3. /\ out \in Seq(OutRow) /\ Len(out) = pos
      /\ out[pos] = new
      /\ \A i \in 1 .. (pos - 1) : out[i] = output[i]
  <2> HIDE DEF new
  <2>1. out = Append(output, new)
    BY DEF new
  <2> QED
    BY <1>1, <1>2, <2>1
<1>4. ASSUME NEW i \in 1 .. Len(out)
      PROVE  /\ ~out[i].dummy => AggregateOf(out[i].agg, i)
             /\ ~out[i].dummy <=> (LastOfBin(i) /\ RealIn(i) # {})
  <2>1. CASE i = pos
    <3>1. out[i].agg = agg /\ out[i].dummy = d
      BY <1>3, <2>1
    <3> QED
      BY <2>1, <3>1 DEF IndInv
  <2>2. CASE i # pos
    <3>1. i \in 1 .. Len(output) /\ out[i] = output[i]
      BY <1>1, <1>3, <2>2
    <3> QED
      BY <3>1 DEF IndInv, Written, WrittenIn
  <2> QED
    BY <2>1, <2>2
<1> QED
  BY <1>3, <1>4 DEF WrittenIn

(* Zeroing the dummies touches no real row.                                *)
LEMMA ZeroedIsRight ==
  ASSUME NEW out \in Seq(OutRow), WrittenIn(out)
  PROVE  /\ zeroOutDummies(out) \in Seq(OutRow)
         /\ Len(zeroOutDummies(out)) = Len(out)
         /\ WrittenIn(zeroOutDummies(out))
<1> DEFINE zeroed == zeroOutDummies(out)
<1>1. Cleared \in OutRow
  <2>1. 0 \in Value
    BY ValsAssumption DEF Value
  <2> QED
    BY <2>1, KeysAssumption DEF Cleared, OutRow, Aggregates
<1>2. Cleared.dummy = TRUE
  BY DEF Cleared
<1>3. Len(out) \in Nat /\ \A i \in 1 .. Len(out) : out[i] \in OutRow
  OBVIOUS
<1>4. \A i \in 1 .. Len(out) : zeroed[i] = IF out[i].dummy THEN Cleared ELSE out[i]
  BY DEF zeroOutDummies
<1>5. zeroed \in Seq(OutRow) /\ Len(zeroed) = Len(out)
  BY <1>1, <1>3 DEF zeroOutDummies
<1>6. \A i \in 1 .. Len(out) : out[i].dummy \in BOOLEAN
  BY <1>3 DEF OutRow
<1> HIDE DEF zeroed
<1>7. WrittenIn(zeroed)
  BY <1>2, <1>4, <1>5, <1>6 DEF WrittenIn
<1> QED
  BY <1>5, <1>7 DEF zeroed

(* What is written right stays so while the input does not change.         *)
LEMMA InputOnly ==
  ASSUME input' = input
  PROVE  /\ \A i : (RealIn(i))' = RealIn(i) /\ SumUpTo(RealIn(i), i)' = SumUpTo(RealIn(i), i)
         /\ \A a, i : (AggregateOf(a, i))' <=> AggregateOf(a, i)
         /\ WrittenIn(output') => Written'
<1>1. \A i : /\ (RealIn(i))' = RealIn(i)
             /\ (LastOfBin(i))' <=> LastOfBin(i)
             /\ SumUpTo(RealIn(i), i)' = SumUpTo(RealIn(i), i)
  BY DEF RealIn, Bin, LastOfBin, SumUpTo
<1>2. \A a, i : (AggregateOf(a, i))' <=> AggregateOf(a, i)
  BY <1>1 DEF AggregateOf, SameModulo
<1> QED
  BY <1>1, <1>2 DEF Written, WrittenIn

-----------------------------------------------------------------------------
LEMMA InitIsRight == Init => IndInv
<1> SUFFICES ASSUME Init PROVE IndInv
  OBVIOUS
<1>1. /\ input \in Inputs /\ input \in Seq(Row) /\ Len(input) \in Nat /\ pos = 1
      /\ pos \in 1 .. Len(input) /\ output = << >> /\ done = FALSE
  BY InputsAssumption DEF Init
<1>2. AggregateOf(agg, pos)
  BY <1>1, FreshIsRight DEF Init
<1>3. TypeOK
  <2>1. agg \in Aggregates
    BY <1>1, FreshType DEF Init
  <2>2. realBin \in BOOLEAN
    BY <1>1, RowTypes DEF Init
  <2>3. output \in Seq([key : Keys, agg : Aggregates, dummy : BOOLEAN])
    BY <1>1
  <2>4. Len(output) = pos - 1
    BY <1>1
  <2> QED
    BY <1>1, <2>1, <2>2, <2>3, <2>4 DEF TypeOK
<1>4. FlagIsOfOpenBin
  <2>1. /\ input[1].dummy => RealIn(1) = {}
        /\ ~input[1].dummy => RealIn(1) = {1}
    BY <1>1, BinOpens
  <2> QED
    BY <1>1, <2>1, RowTypes DEF Init, FlagIsOfOpenBin, Predecessor
<1>5. Written
  BY <1>1 DEF Written, WrittenIn
<1> QED
  BY <1>2, <1>3, <1>4, <1>5 DEF IndInv

(* One iteration: the row written for the predecessor is real iff the row  *)
(* after it opens a new bin and the flag is up; the aggregators go on with *)
(* the bin or start afresh.                                                *)
LEMMA StepIsRight == IndInv /\ Step => IndInv'
<1> SUFFICES ASSUME IndInv, Step PROVE IndInv'
  OBVIOUS
<1> DEFINE current == input[pos + 1]
           real == realBin \/ ~Predecessor.dummy
           match == groupByMatch(Predecessor, current)
           d == IF ~match THEN ~real ELSE TRUE
<1>1. /\ input \in Inputs /\ pos \in 1 .. Len(input) /\ ~done /\ pos < Len(input)
      /\ Len(input) \in Nat /\ agg \in Aggregates /\ realBin \in BOOLEAN
      /\ input' = input /\ pos' = pos + 1 /\ done' = done
      /\ pos + 1 \in 1 .. Len(input) /\ (pos + 1) - 1 = pos
  BY RowTypes DEF IndInv, TypeOK, Step
<1>2. /\ input \in Seq(Row) /\ Predecessor \in Row /\ current \in Row
      /\ Predecessor.dummy \in BOOLEAN /\ current.dummy \in BOOLEAN
      /\ match \in BOOLEAN /\ real \in BOOLEAN /\ d \in BOOLEAN
  BY <1>1, RowTypes DEF Predecessor, groupByMatch
<1>3. /\ output' = Append(output, [key |-> Predecessor.key, agg |-> agg, dummy |-> d])
      /\ agg' = Accumulate(Initialize(agg, current, match), current, ~match)
      /\ realBin' = IF ~match THEN FALSE ELSE real
  BY DEF Step, OutputTuple, RealAfter
<1>4. /\ match <=> input[pos].key = input[pos + 1].key
      /\ LastOfBin(pos) <=> ~match
      /\ real <=> RealIn(pos) # {}
  BY <1>1 DEF groupByMatch, Predecessor, LastOfBin, IndInv, FlagIsOfOpenBin
<1> HIDE DEF real, match, d
<1>5. ~d <=> (LastOfBin(pos) /\ RealIn(pos) # {})
  BY <1>2, <1>4 DEF d
<1>6. /\ output' \in Seq(OutRow) /\ Len(output') = pos /\ Written'
  BY <1>1, <1>2, <1>3, <1>5, WrittenGrows, InputOnly
<1>7. agg' \in Aggregates /\ AggregateOf(agg', pos + 1)
  <2>1. CASE match
    <3>1. agg' = Accumulate(agg, current, FALSE)
      BY <1>3, <2>1 DEF Initialize
    <3>2. AggregateOf(agg, pos)
      BY DEF IndInv
    <3> QED
      BY <1>1, <1>4, <2>1, <3>1, <3>2, AccumulateType, AccumulateIsRight
  <2>2. CASE ~match
    <3>1. agg' = Fresh(current)
      BY <1>2, <1>3, <2>2 DEF Initialize, Accumulate
    <3> QED
      BY <1>1, <1>4, <2>2, <3>1, FreshType, FreshIsRight
  <2> QED
    BY <2>1, <2>2
<1>8. (realBin' \/ ~current.dummy) <=> RealIn(pos + 1) # {}
  <2>1. CASE match
    BY <1>1, <1>2, <1>3, <1>4, <2>1, BinGrows
  <2>2. CASE ~match
    BY <1>1, <1>2, <1>3, <1>4, <2>2, BinOpens
  <2> QED
    BY <2>1, <2>2
<1>9. realBin' \in BOOLEAN
  BY <1>2, <1>3
<1>10. \A i : (RealIn(i))' = RealIn(i) /\ SumUpTo(RealIn(i), i)' = SumUpTo(RealIn(i), i)
  BY <1>1, InputOnly
<1>11. (AggregateOf(agg, pos))'
  BY <1>1, <1>7, <1>10 DEF AggregateOf
<1>12. FlagIsOfOpenBin'
  BY <1>1, <1>8, <1>10 DEF FlagIsOfOpenBin, Predecessor
<1>13. TypeOK'
  <2>1. pos' \in 1 .. Len(input') /\ ~done' /\ done' \in BOOLEAN
    BY <1>1 DEF IndInv, TypeOK
  <2>2. Len(output') = pos' - 1
    BY <1>1, <1>6
  <2> QED
    BY <1>1, <1>6, <1>7, <1>9, <2>1, <2>2 DEF TypeOK, OutRow
<1> QED
  BY <1>6, <1>11, <1>12, <1>13 DEF IndInv

(* The last bin: the last row has no row after it.                         *)
LEMMA FinishIsRight == IndInv /\ Finish => IndInv'
<1> SUFFICES ASSUME IndInv, Finish PROVE IndInv'
  OBVIOUS
<1> DEFINE real == realBin \/ ~Predecessor.dummy
<1>1. /\ input \in Inputs /\ pos \in 1 .. Len(input) /\ ~done /\ pos = Len(input)
      /\ agg \in Aggregates /\ realBin \in BOOLEAN
      /\ input' = input /\ pos' = pos /\ agg' = agg /\ realBin' = realBin /\ done'
      /\ done' = TRUE
  BY DEF IndInv, TypeOK, Finish
<1>2. Predecessor.dummy \in BOOLEAN
  BY <1>1, RowTypes DEF Predecessor
<1> DEFINE out == Append(output, [key |-> Predecessor.key, agg |-> agg, dummy |-> ~real])
<1>3. output' = zeroOutDummies(out)
  BY DEF Finish, LastEntry, OutputTuple
<1>4. ~~real <=> (LastOfBin(pos) /\ RealIn(pos) # {})
  BY <1>1, <1>2 DEF LastOfBin, IndInv, FlagIsOfOpenBin
<1>5. (~real) \in BOOLEAN
  BY <1>1, <1>2
<1> HIDE DEF real
<1>6. out \in Seq(OutRow) /\ Len(out) = pos /\ WrittenIn(out)
  BY <1>1, <1>4, <1>5, WrittenGrows
<1> HIDE DEF out
<1>7. output' \in Seq(OutRow) /\ Len(output') = pos /\ Written'
  BY <1>1, <1>3, <1>6, ZeroedIsRight, InputOnly
<1>8. (AggregateOf(agg, pos))'
  BY <1>1, InputOnly DEF AggregateOf, IndInv
<1>9. FlagIsOfOpenBin'
  BY <1>1 DEF FlagIsOfOpenBin
<1>10. TypeOK'
  BY <1>1, <1>7 DEF TypeOK, OutRow
<1> QED
  BY <1>7, <1>8, <1>9, <1>10 DEF IndInv

LEMMA StutterIsRight == IndInv /\ UNCHANGED vars => IndInv'
<1> SUFFICES ASSUME IndInv, UNCHANGED vars PROVE IndInv'
  OBVIOUS
<1>1. /\ input' = input /\ pos' = pos /\ agg' = agg /\ realBin' = realBin
      /\ output' = output /\ done' = done
  BY DEF vars
<1>2. TypeOK'
  BY <1>1 DEF IndInv, TypeOK
<1>3. (AggregateOf(agg, pos))'
  BY <1>1, InputOnly DEF AggregateOf, IndInv
<1>4. Written'
  BY <1>1, InputOnly DEF Written, IndInv
<1>5. FlagIsOfOpenBin'
  BY <1>1, InputOnly DEF FlagIsOfOpenBin, Predecessor, IndInv
<1> QED
  BY <1>2, <1>3, <1>4, <1>5 DEF IndInv

(* Every reachable state has the inductive invariant.                      *)
THEOREM PassIsRight == Spec => []IndInv
<1>1. IndInv /\ [Next]_vars => IndInv'
  BY StepIsRight, FinishIsRight, StutterIsRight DEF Next, Terminated
<1> QED
  BY <1>1, InitIsRight, PTL DEF Spec

-----------------------------------------------------------------------------
(* GroupByAggregate never leaves the types of its columns, and has written *)
(* one row for every row taken up but the last.                            *)
THEOREM TypeCorrect == Spec => []TypeOK
<1>1. IndInv => TypeOK
  BY DEF IndInv
<1> QED
  BY <1>1, PassIsRight, PTL

(* A bin has one real output row if it has a real row, none otherwise.     *)
THEOREM OneRowPerBinHolds == Spec => []OneRowPerBin
<1>1. IndInv => OneRowPerBin
  BY DEF IndInv, Written, WrittenIn, OneRowPerBin, RealOutput
<1> QED
  BY <1>1, PassIsRight, PTL

(* COUNT is the number of real rows of the bin.                            *)
THEOREM CountIsRight == Spec => []CountIsOfRealRows
<1>1. IndInv => CountIsOfRealRows
  BY DEF IndInv, Written, WrittenIn, AggregateOf, CountIsOfRealRows, RealOutput
<1> QED
  BY <1>1, PassIsRight, PTL

(* SUM is, modulo the width of its column, that of the real rows of the    *)
(* bin.                                                                    *)
THEOREM SumIsRight == Spec => []SumIsOfRealRows
<1>1. ASSUME IndInv, NEW i \in 1 .. Len(output), RealOutput(i)
      PROVE  (output[i].agg.sum - SumUpTo(RealIn(i), i)) % (2 * Half) = 0
  <2>1. SameModulo(output[i].agg.sum, SumUpTo(RealIn(i), i))
    BY <1>1 DEF IndInv, Written, WrittenIn, RealOutput, AggregateOf
  <2> DEFINE n == 2 * Half
  <2>2. PICK k \in Int : output[i].agg.sum = SumUpTo(RealIn(i), i) + k * n
    BY <2>1 DEF SameModulo
  <2>3. SumUpTo(RealIn(i), i) \in Int /\ n \in Nat \ {0}
    <3>1. i \in 0 .. Len(input) /\ input \in Inputs
      BY <1>1, InputsAssumption DEF IndInv, TypeOK
    <3> QED
      BY <3>1, SumType, ValsAssumption
  <2> HIDE DEF n
  <2>4. output[i].agg.sum - SumUpTo(RealIn(i), i) = k * n
    BY <2>2, <2>3
  <2>5. (k * n) % n = 0
    BY <2>3
  <2> QED
    BY <2>4, <2>5 DEF n
<1>2. IndInv => SumIsOfRealRows
  BY <1>1 DEF SumIsOfRealRows
<1> QED
  BY <1>2, PassIsRight, PTL

(* MIN and MAX are attained in the bin's real rows and bound them.         *)
THEOREM ExtremesAreRight == Spec => []ExtremesAreOfRealRows
<1>1. ASSUME IndInv, NEW i \in 1 .. Len(output), RealOutput(i)
      PROVE  LET seen == { input[j].val : j \in RealIn(i) } IN
             /\ output[i].agg.min \in seen
             /\ \A v \in seen : output[i].agg.min <= v
             /\ output[i].agg.max \in seen
             /\ \A v \in seen : output[i].agg.max >= v
  <2>1. AggregateOf(output[i].agg, i) /\ RealIn(i) # {}
    BY <1>1 DEF IndInv, Written, WrittenIn, RealOutput
  <2>2. \A j \in RealIn(i) : input[j].val \in Int
    <3>1. i \in Nat /\ RealIn(i) \subseteq 1 .. i /\ i <= Len(input)
      BY <1>1, RealInFinite, RowTypes DEF IndInv, TypeOK
    <3> QED
      BY <1>1, <3>1, RowTypes DEF IndInv, TypeOK
  <2>3. output[i].agg.max \in Int
    BY <2>1, <2>2 DEF AggregateOf
  <2>4. \A j \in RealIn(i) : output[i].agg.max >= input[j].val
    BY <2>1, <2>2, <2>3 DEF AggregateOf
  <2> QED
    BY <2>1, <2>4 DEF AggregateOf
<1>2. IndInv => ExtremesAreOfRealRows
  BY <1>1 DEF ExtremesAreOfRealRows
<1> QED
  BY <1>2, PassIsRight, PTL
=============================================================================
