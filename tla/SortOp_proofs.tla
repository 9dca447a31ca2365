---------------------------- MODULE SortOp_proofs ----------------------------
(***************************************************************************)
(* What TLAPS proves about SortOp, for tables of any length and width and  *)
(* sort definitions of any length:                                         *)
(*                                                                         *)
(*   - Sort::lt and Sort::checkOrder, two loops over the sort definition   *)
(*     written apart, decide the same order (LtDecides, CheckDecides);     *)
(*   - an honest sort is never rejected, and what is accepted is sorted;   *)
(*   - a limit keeps as many real rows as it can, the first ones.          *)
(***************************************************************************)
EXTENDS SortOp, Iteration, SequenceTheorems

(* Column k of def puts a before b.                                        *)
Orders(a, b, def, k) ==
  IF def[k].dir = "ASCENDING"
  THEN Field(a, def[k].col) < Field(b, def[k].col)
  ELSE Field(a, def[k].col) > Field(b, def[k].col)

(* k is the first column of def in which a and b differ.                   *)
FirstDiffers(a, b, def, k) ==
  /\ Field(a, def[k].col) # Field(b, def[k].col)
  /\ \A j \in 1 .. k - 1 : Field(a, def[j].col) = Field(b, def[j].col)

BeforeBy(a, b, def) ==
  \E k \in 1 .. Len(def) : FirstDiffers(a, b, def, k) /\ Orders(a, b, def, k)

LEMMA FieldsAreNumbers ==
  ASSUME NEW a \in Row, NEW def \in Seq(ColumnSort), NEW k \in 1 .. Len(def)
  PROVE  Field(a, def[k].col) \in Nat
<1>1. def[k] \in ColumnSort
  OBVIOUS
<1> QED
  BY <1>1, ValuesAssumption DEF Field, ColumnSort, Row, DummyTag

(* The first column that differs is one and the same.                      *)
LEMMA FirstDiffersOnce ==
  ASSUME NEW a, NEW b, NEW def, NEW k \in Nat, NEW l \in Nat,
         1 <= k, 1 <= l,
         FirstDiffers(a, b, def, k), FirstDiffers(a, b, def, l)
  PROVE  k = l
<1>1. CASE k < l
  <2>1. k \in 1 .. l - 1
    BY <1>1
  <2> QED
    BY <2>1 DEF FirstDiffers
<1>2. CASE l < k
  <2>1. l \in 1 .. k - 1
    BY <1>2
  <2> QED
    BY <2>1 DEF FirstDiffers
<1> QED
  BY <1>1, <1>2

(* Sort::lt says whether the first column that differs puts a before b.    *)
LEMMA LtDecides ==
  ASSUME NEW a \in Row, NEW b \in Row, NEW def \in Seq(ColumnSort)
  PROVE  lt(a, b, def) <=> BeforeBy(a, b, def)
<1> DEFINE l(i) == Field(a, def[i].col)
           r(i) == Field(b, def[i].col)
           asc(i) == def[i].dir = "ASCENDING"
           State == [lt : BOOLEAN, decided : BOOLEAN]
           first == [lt |-> FALSE, decided |-> FALSE]
           G == [s \in Nat \X State |->
                  [lt |-> IF s[2].decided THEN s[2].lt
                          ELSE (l(s[1]) < r(s[1]) /\ asc(s[1]))
                               \/ (l(s[1]) > r(s[1]) /\ ~asc(s[1])),
                   decided |-> s[2].decided \/ l(s[1]) # r(s[1])]]
           Loop(f) == [i \in 0 .. Len(def) |->
                        IF i = 0 THEN [lt |-> FALSE, decided |-> FALSE]
                        ELSE [lt |-> IF f[i - 1].decided THEN f[i - 1].lt
                                     ELSE (l(i) < r(i) /\ asc(i)) \/ (l(i) > r(i) /\ ~asc(i)),
                              decided |-> f[i - 1].decided \/ l(i) # r(i)]]
           after == CHOOSE f : f = Loop(f)
<1>1. lt(a, b, def) = after[Len(def)].lt
  BY DEF lt
<1>2. Len(def) \in Nat /\ first \in State
  OBVIOUS
<1>3. after = Loop(after)
  <2>1. G \in [Nat \X State -> State]
    OBVIOUS
  <2>2. PICK f \in [0 .. Len(def) -> State] :
          f[0] = first /\ \A i \in 1 .. Len(def) : f[i] = G[<<i, f[i - 1]>>]
    <3> HIDE DEF G, State, first, Loop, after, l, r, asc
    <3>1. PICK f : IsRecursion(f, State, G, first, Len(def))
      BY <1>2, <2>1, Recursion
    <3> QED
      BY <3>1 DEF IsRecursion
  <2>3. ASSUME NEW i \in 1 .. Len(def) PROVE f[i] = Loop(f)[i]
    <3>1. i - 1 \in 0 .. Len(def) /\ i \in Nat /\ i # 0 /\ i \in 0 .. Len(def)
      OBVIOUS
    <3>2. <<i, f[i - 1]>> \in Nat \X State
      BY <2>2, <3>1
    <3>3. f[i] = G[<<i, f[i - 1]>>]
      BY <2>2
    <3> QED
      BY <3>1, <3>2, <3>3
  <2>4. f[0] = Loop(f)[0]
    BY <2>2, <1>2
  <2>5. f = Loop(f)
    <3>1. f = [i \in 0 .. Len(def) |-> f[i]]
      BY <2>2
    <3>2. \A i \in 0 .. Len(def) : f[i] = Loop(f)[i]
      <4> HIDE DEF Loop
      <4> QED
        BY <2>3, <2>4, <1>2
    <3>3. Loop(f) = [i \in 0 .. Len(def) |-> Loop(f)[i]]
      OBVIOUS
    <3> HIDE DEF Loop
    <3> QED
      BY <3>1, <3>2, <3>3
  <2> HIDE DEF Loop
  <2> QED
    BY <2>5
<1> HIDE DEF after
<1>4. after[0] = first
  <2>1. 0 \in 0 .. Len(def)
    BY <1>2
  <2>2. Loop(after)[0] = first
    BY <2>1
  <2> HIDE DEF Loop
  <2> QED
    BY <1>3, <2>2
<1>5. \A i \in 1 .. Len(def) :
        after[i] = [lt |-> IF after[i - 1].decided THEN after[i - 1].lt
                           ELSE (l(i) < r(i) /\ asc(i)) \/ (l(i) > r(i) /\ ~asc(i)),
                    decided |-> after[i - 1].decided \/ l(i) # r(i)]
  <2> SUFFICES ASSUME NEW i \in 1 .. Len(def)
      PROVE  Loop(after)[i] = [lt |-> IF after[i - 1].decided THEN after[i - 1].lt
                           ELSE (l(i) < r(i) /\ asc(i)) \/ (l(i) > r(i) /\ ~asc(i)),
                    decided |-> after[i - 1].decided \/ l(i) # r(i)]
    <3> HIDE DEF Loop, l, r, asc
    <3> QED
      BY <1>3
  <2>1. i \in 0 .. Len(def) /\ i # 0
    BY <1>2
  <2> HIDE DEF l, r, asc
  <2> QED
    BY <2>1
<1> DEFINE Differ(n) == \E k \in 1 .. n : FirstDiffers(a, b, def, k)
           Ordered(n) == \E k \in 1 .. n : FirstDiffers(a, b, def, k) /\ Orders(a, b, def, k)
           Good == { n \in Nat : n <= Len(def) =>
                       /\ after[n].decided \in BOOLEAN /\ after[n].lt \in BOOLEAN
                       /\ after[n].decided <=> Differ(n)
                       /\ after[n].lt <=> Ordered(n)
                       /\ ~Differ(n) => \A k \in 1 .. n : l(k) = r(k) }
<1>6. 0 \in Good
  <2>1. /\ after[0].decided = FALSE /\ after[0].lt = FALSE
        /\ ~Differ(0) /\ ~Ordered(0) /\ \A k \in 1 .. 0 : l(k) = r(k)
    BY <1>4
  <2> HIDE DEF l, r, asc, Differ, Ordered
  <2> QED
    BY <2>1
<1>7. ASSUME NEW n \in Nat, n \in Good PROVE n + 1 \in Good
  <2> SUFFICES ASSUME n + 1 <= Len(def)
      PROVE  /\ after[n + 1].decided \in BOOLEAN /\ after[n + 1].lt \in BOOLEAN
             /\ after[n + 1].decided <=> Differ(n + 1)
             /\ after[n + 1].lt <=> Ordered(n + 1)
             /\ ~Differ(n + 1) => \A k \in 1 .. n + 1 : l(k) = r(k)
    OBVIOUS
  <2>1. /\ n + 1 \in 1 .. Len(def) /\ (n + 1) - 1 = n /\ n <= Len(def)
    BY <1>2
  <2>2. after[n + 1] = [lt |-> IF after[n].decided THEN after[n].lt
                               ELSE (l(n + 1) < r(n + 1) /\ asc(n + 1))
                                    \/ (l(n + 1) > r(n + 1) /\ ~asc(n + 1)),
                        decided |-> after[n].decided \/ l(n + 1) # r(n + 1)]
    <3> HIDE DEF l, r, asc
    <3> QED
      BY <2>1, <1>5
  <2>3. l(n + 1) \in Nat /\ r(n + 1) \in Nat
    BY <2>1, FieldsAreNumbers
  <2>4. /\ after[n].decided \in BOOLEAN /\ after[n].lt \in BOOLEAN
        /\ after[n].decided <=> Differ(n)
        /\ after[n].lt <=> Ordered(n)
        /\ ~Differ(n) => \A k \in 1 .. n : l(k) = r(k)
    BY <1>7, <2>1
  <2>5. \A k : k \in 1 .. n + 1 <=> k \in 1 .. n \/ k = n + 1
    OBVIOUS
  <2>6. /\ Differ(n + 1) <=> Differ(n) \/ FirstDiffers(a, b, def, n + 1)
        /\ Ordered(n + 1) <=>
             Ordered(n) \/ (FirstDiffers(a, b, def, n + 1) /\ Orders(a, b, def, n + 1))
    BY <2>5
  <2>7. Differ(n) => ~FirstDiffers(a, b, def, n + 1)
    BY FirstDiffersOnce
  <2>8. ~Differ(n) => (FirstDiffers(a, b, def, n + 1) <=> l(n + 1) # r(n + 1))
    BY <2>1, <2>4 DEF FirstDiffers
  <2>9. Ordered(n) => Differ(n)
    OBVIOUS
  <2>10. Orders(a, b, def, n + 1) <=>
           (l(n + 1) < r(n + 1) /\ asc(n + 1)) \/ (l(n + 1) > r(n + 1) /\ ~asc(n + 1))
    BY <2>3 DEF Orders
  <2>11. l(n + 1) = r(n + 1) =>
           ~((l(n + 1) < r(n + 1) /\ asc(n + 1)) \/ (l(n + 1) > r(n + 1) /\ ~asc(n + 1)))
    BY <2>3
  <2> HIDE DEF Differ, Ordered, l, r, asc
  <2>12. /\ after[n + 1].decided = (after[n].decided \/ l(n + 1) # r(n + 1))
         /\ after[n].decided => after[n + 1].lt = after[n].lt
         /\ ~after[n].decided =>
              after[n + 1].lt = ((l(n + 1) < r(n + 1) /\ asc(n + 1))
                                 \/ (l(n + 1) > r(n + 1) /\ ~asc(n + 1)))
    BY <2>2, <2>4
  <2> QED
    BY <2>4, <2>5, <2>6, <2>7, <2>8, <2>9, <2>10, <2>11, <2>12
<1> HIDE DEF Good
<1>8. Len(def) \in Good
  BY <1>2, <1>6, <1>7, NatSetInduction
<1> QED
  BY <1>1, <1>2, <1>8 DEF Good, BeforeBy

(* Sort::checkOrder fails exactly when both rows are real and the second   *)
(* belongs before the first.                                               *)
LEMMA CheckDecides ==
  ASSUME NEW a \in Row, NEW b \in Row, NEW def \in Seq(ColumnSort)
  PROVE  checkOrder(a, b, def) <=> a.dummy \/ b.dummy \/ ~BeforeBy(b, a, def)
<1> DEFINE l(i) == Field(a, def[i].col)
           r(i) == Field(b, def[i].col)
           eq(i) == l(i) = r(i)
           colSortMatch(i) == (l(i) < r(i)) = (def[i].dir = "ASCENDING")
           State == [correct : BOOLEAN, allEq : BOOLEAN]
           first == [correct |-> TRUE, allEq |-> TRUE]
           G == [s \in Nat \X State |->
                  [correct |-> IF s[2].allEq
                               THEN \/ eq(s[1]) /\ s[2].correct
                                    \/ ~eq(s[1]) /\ colSortMatch(s[1])
                               ELSE s[2].correct,
                   allEq |-> s[2].allEq /\ eq(s[1])]]
           Loop(f) == [i \in 0 .. Len(def) |->
                        IF i = 0 THEN [correct |-> TRUE, allEq |-> TRUE]
                        ELSE [correct |-> IF f[i - 1].allEq
                                          THEN \/ eq(i) /\ f[i - 1].correct
                                               \/ ~eq(i) /\ colSortMatch(i)
                                          ELSE f[i - 1].correct,
                              allEq |-> f[i - 1].allEq /\ eq(i)]]
           after == CHOOSE f : f = Loop(f)
<1>1. checkOrder(a, b, def) = (a.dummy \/ b.dummy \/ after[Len(def)].correct)
  BY DEF checkOrder
<1>2. Len(def) \in Nat /\ first \in State
  OBVIOUS
<1>3. after = Loop(after)
  <2>1. G \in [Nat \X State -> State]
    OBVIOUS
  <2>2. PICK f \in [0 .. Len(def) -> State] :
          f[0] = first /\ \A i \in 1 .. Len(def) : f[i] = G[<<i, f[i - 1]>>]
    <3> HIDE DEF G, State, first, Loop, after, l, r, eq, colSortMatch
    <3>1. PICK f : IsRecursion(f, State, G, first, Len(def))
      BY <1>2, <2>1, Recursion
    <3> QED
      BY <3>1 DEF IsRecursion
  <2>3. ASSUME NEW i \in 1 .. Len(def) PROVE f[i] = Loop(f)[i]
    <3>1. i - 1 \in 0 .. Len(def) /\ i \in Nat /\ i # 0 /\ i \in 0 .. Len(def)
      OBVIOUS
    <3>2. <<i, f[i - 1]>> \in Nat \X State
      BY <2>2, <3>1
    <3>3. f[i] = G[<<i, f[i - 1]>>]
      BY <2>2
    <3> QED
      BY <3>1, <3>2, <3>3
  <2>4. f[0] = Loop(f)[0]
    BY <2>2, <1>2
  <2>5. f = Loop(f)
    <3>1. f = [i \in 0 .. Len(def) |-> f[i]]
      BY <2>2
    <3>2. \A i \in 0 .. Len(def) : f[i] = Loop(f)[i]
      <4> HIDE DEF Loop
      <4> QED
        BY <2>3, <2>4, <1>2
    <3>3. Loop(f) = [i \in 0 .. Len(def) |-> Loop(f)[i]]
      OBVIOUS
    <3> HIDE DEF Loop
    <3> QED
      BY <3>1, <3>2, <3>3
  <2> HIDE DEF Loop
  <2> QED
    BY <2>5
<1> HIDE DEF after
<1>4. after[0] = first
  <2>1. 0 \in 0 .. Len(def)
    BY <1>2
  <2>2. Loop(after)[0] = first
    BY <2>1
  <2> HIDE DEF Loop
  <2> QED
    BY <1>3, <2>2
<1>5. \A i \in 1 .. Len(def) :
        after[i] = [correct |-> IF after[i - 1].allEq
                                THEN \/ eq(i) /\ after[i - 1].correct
                                     \/ ~eq(i) /\ colSortMatch(i)
                                ELSE after[i - 1].correct,
                    allEq |-> after[i - 1].allEq /\ eq(i)]
  <2> SUFFICES ASSUME NEW i \in 1 .. Len(def)
      PROVE  Loop(after)[i] =
               [correct |-> IF after[i - 1].allEq
                            THEN \/ eq(i) /\ after[i - 1].correct
                                 \/ ~eq(i) /\ colSortMatch(i)
                            ELSE after[i - 1].correct,
                allEq |-> after[i - 1].allEq /\ eq(i)]
    <3> HIDE DEF Loop, eq, colSortMatch
    <3> QED
      BY <1>3
  <2>1. i \in 0 .. Len(def) /\ i # 0
    BY <1>2
  <2> HIDE DEF eq, colSortMatch
  <2> QED
    BY <2>1
<1> DEFINE Good == { n \in Nat : n <= Len(def) =>
                       /\ after[n].allEq \in BOOLEAN /\ after[n].correct \in BOOLEAN
                       /\ after[n].allEq <=> \A k \in 1 .. n : eq(k)
                       /\ after[n].allEq => after[n].correct
                       /\ ~after[n].allEq =>
                            \E k \in 1 .. n :
                              /\ FirstDiffers(a, b, def, k)
                              /\ after[n].correct = colSortMatch(k) }
<1>6. 0 \in Good
  <2>1. /\ after[0].allEq = TRUE /\ after[0].correct = TRUE
        /\ \A k \in 1 .. 0 : eq(k)
    BY <1>4
  <2> HIDE DEF l, r, eq, colSortMatch
  <2> QED
    BY <2>1
<1>7. ASSUME NEW n \in Nat, n \in Good PROVE n + 1 \in Good
  <2> SUFFICES ASSUME n + 1 <= Len(def)
      PROVE  /\ after[n + 1].allEq \in BOOLEAN /\ after[n + 1].correct \in BOOLEAN
             /\ after[n + 1].allEq <=> \A k \in 1 .. n + 1 : eq(k)
             /\ after[n + 1].allEq => after[n + 1].correct
             /\ ~after[n + 1].allEq =>
                  \E k \in 1 .. n + 1 :
                    /\ FirstDiffers(a, b, def, k)
                    /\ after[n + 1].correct = colSortMatch(k)
    OBVIOUS
  <2>1. n + 1 \in 1 .. Len(def) /\ (n + 1) - 1 = n /\ n <= Len(def)
    BY <1>2
  <2>2. after[n + 1] = [correct |-> IF after[n].allEq
                                    THEN \/ eq(n + 1) /\ after[n].correct
                                         \/ ~eq(n + 1) /\ colSortMatch(n + 1)
                                    ELSE after[n].correct,
                        allEq |-> after[n].allEq /\ eq(n + 1)]
    <3> HIDE DEF eq, colSortMatch
    <3> QED
      BY <2>1, <1>5
  <2>3. /\ after[n].allEq \in BOOLEAN /\ after[n].correct \in BOOLEAN
        /\ after[n].allEq <=> \A k \in 1 .. n : eq(k)
        /\ after[n].allEq => after[n].correct
        /\ ~after[n].allEq =>
             \E k \in 1 .. n :
               FirstDiffers(a, b, def, k) /\ after[n].correct = colSortMatch(k)
    <3> HIDE DEF eq, colSortMatch
    <3> QED
      BY <1>7, <2>1
  <2>4. \A k : k \in 1 .. n + 1 <=> k \in 1 .. n \/ k = n + 1
    OBVIOUS
  <2>5. after[n].allEq /\ ~eq(n + 1) => FirstDiffers(a, b, def, n + 1)
    BY <2>3, <2>1 DEF FirstDiffers
  <2>6. eq(n + 1) \in BOOLEAN /\ colSortMatch(n + 1) \in BOOLEAN
    OBVIOUS
  <2> HIDE DEF eq, colSortMatch
  <2>7. /\ after[n + 1].allEq = (after[n].allEq /\ eq(n + 1))
        /\ after[n].allEq /\ eq(n + 1) => after[n + 1].correct = after[n].correct
        /\ after[n].allEq /\ ~eq(n + 1) => after[n + 1].correct = colSortMatch(n + 1)
        /\ ~after[n].allEq => after[n + 1].correct = after[n].correct
    <3>1. /\ after[n + 1].allEq = (after[n].allEq /\ eq(n + 1))
          /\ after[n + 1].correct = IF after[n].allEq
                                    THEN \/ eq(n + 1) /\ after[n].correct
                                         \/ ~eq(n + 1) /\ colSortMatch(n + 1)
                                    ELSE after[n].correct
      BY <2>2
    <3>2. CASE after[n].allEq /\ eq(n + 1)
      BY <2>3, <2>6, <3>1, <3>2, Zenon
    <3>3. CASE after[n].allEq /\ ~eq(n + 1)
      BY <2>3, <2>6, <3>1, <3>3, Zenon
    <3>4. CASE ~after[n].allEq
      BY <2>3, <2>6, <3>1, <3>4
    <3> QED
      BY <2>3, <2>6, <3>1, <3>2, <3>3, <3>4
  <2>8. CASE after[n].allEq /\ eq(n + 1)
    BY <2>3, <2>4, <2>7, <2>8
  <2>9. CASE after[n].allEq /\ ~eq(n + 1)
    BY <2>3, <2>4, <2>5, <2>6, <2>7, <2>9
  <2>10. CASE ~after[n].allEq
    BY <2>3, <2>4, <2>7, <2>10
  <2> QED
    BY <2>3, <2>6, <2>8, <2>9, <2>10
<1> HIDE DEF Good
<1>8. Len(def) \in Good
  BY <1>2, <1>6, <1>7, NatSetInduction
<1> DEFINE ok == after[Len(def)]
<1>9. /\ ok.allEq \in BOOLEAN /\ ok.correct \in BOOLEAN
      /\ ok.allEq <=> \A k \in 1 .. Len(def) : eq(k)
      /\ ok.allEq => ok.correct
      /\ ~ok.allEq =>
           \E k \in 1 .. Len(def) :
             FirstDiffers(a, b, def, k) /\ ok.correct = colSortMatch(k)
  <2> HIDE DEF eq, colSortMatch
  <2> QED
    BY <1>2, <1>8 DEF Good
<1> HIDE DEF ok
<1>10. \A k : FirstDiffers(a, b, def, k) <=> FirstDiffers(b, a, def, k)
  BY DEF FirstDiffers
<1>11. CASE ok.allEq
  <2>1. ~BeforeBy(b, a, def)
    BY <1>9, <1>11 DEF BeforeBy, FirstDiffers
  <2> QED
    BY <1>1, <1>9, <1>11, <2>1 DEF ok
<1>12. CASE ~ok.allEq
  <2>1. PICK k \in 1 .. Len(def) :
          FirstDiffers(a, b, def, k) /\ ok.correct = colSortMatch(k)
    <3> HIDE DEF colSortMatch
    <3> QED
      BY <1>9, <1>12
  <2>2. BeforeBy(b, a, def) <=> Orders(b, a, def, k)
    BY <1>10, <2>1, FirstDiffersOnce DEF BeforeBy
  <2>3. l(k) \in Nat /\ r(k) \in Nat /\ l(k) # r(k)
    BY <2>1, FieldsAreNumbers DEF FirstDiffers
  <2>4. colSortMatch(k) <=> ~Orders(b, a, def, k)
    BY <2>3 DEF Orders
  <2>5. ok.correct <=> ~BeforeBy(b, a, def)
    BY <2>1, <2>2, <2>4, <1>9
  <2> QED
    BY <1>1, <2>5 DEF ok
<1> QED
  BY <1>11, <1>12
-----------------------------------------------------------------------------
(* With a limit, the definition begins with the dummy tag, ascending.      *)
DummiesLast ==
  limit > 0 =>
    /\ sort_definition # << >>
    /\ sort_definition[1].col = DummyTag /\ sort_definition[1].dir = "ASCENDING"

(* From SortRows on, data holds the rows of input in another order, none   *)
(* after one that belongs behind it.                                       *)
Permuted ==
  \E p \in Bijection(DOMAIN input, DOMAIN input) :
    data = [i \in DOMAIN input |-> input[p[i]]]

InOrder ==
  \A i, j \in DOMAIN input : i < j => ~lt(data[j], data[i], sort_definition)

Sorted == pc # "sort" => Permuted /\ InOrder

Counted ==
  /\ pc = "sort" => count = 0
  /\ pc = "resize" => count = Len(input)
  /\ pc \in {"equality", "order", "accepted"} =>
       count = IF limit > 0 /\ Len(input) > limit THEN limit ELSE Len(input)

IndInv == TypeOK /\ DummiesLast /\ Sorted /\ Counted /\ NeverRejected

LEMMA InputIsTable ==
  ASSUME NEW t \in Inputs
  PROVE  t \in Seq(Row) /\ Len(t) \in Nat /\ DOMAIN t = 1 .. Len(t) /\ t # << >>
BY InputsAssumption

(* A permutation of a table is a table of the same length.                 *)
LEMMA PermutedTable ==
  ASSUME NEW t \in Seq(Row), NEW p \in Bijection(DOMAIN t, DOMAIN t),
         NEW d, d = [i \in DOMAIN t |-> t[p[i]]]
  PROVE  d \in Seq(Row) /\ Len(d) = Len(t)
<1>1. DOMAIN t = 1 .. Len(t) /\ Len(t) \in Nat
  OBVIOUS
<1>2. \A i \in 1 .. Len(t) : p[i] \in 1 .. Len(t)
  <2> DEFINE D == DOMAIN t
  <2>1. p \in Bijection(D, D)
    OBVIOUS
  <2> HIDE DEF D
  <2>2. \A i \in D : p[i] \in D
    BY <2>1, Permutation
  <2> QED
    BY <1>1, <2>2 DEF D
<1>3. d \in [1 .. Len(t) -> Row]
  BY <1>1, <1>2
<1> QED
  BY <1>1, <1>3

LEMMA Prefixed ==
  ASSUME NEW S, NEW s \in Seq(S), NEW t \in Seq(S), Len(s) = 1
  PROVE  s \o t \in Seq(S) /\ Len(s \o t) >= 1 /\ (s \o t)[1] = s[1]
<1>1. s \o t \in Seq(S) /\ Len(s \o t) >= 1
  OBVIOUS
<1>2. (s \o t)[1] = s[1]
  BY ConcatProperties
<1> QED
  BY <1>1, <1>2

LEMMA InitInv == Init => IndInv
<1> SUFFICES ASSUME Init PROVE IndInv
  OBVIOUS
<1>1. PICK collation \in Collations, fetch \in Limits :
        /\ fetch > 0 => collation # << >>
        /\ limit = fetch
        /\ sort_definition = parseSort(collation, fetch)
  BY DEF Init
<1>2. collation \in Seq(ColumnSort) /\ fetch \in Nat
  BY CollationsAssumption
<1> DEFINE tag == <<[col |-> DummyTag, dir |-> "ASCENDING"]>>
<1>3. CASE fetch > 0 /\ collation[1].col # DummyTag
  <2>1. sort_definition = tag \o collation
    BY <1>1, <1>3 DEF parseSort
  <2>2. tag \in Seq(ColumnSort) /\ Len(tag) = 1 /\ tag[1] = [col |-> DummyTag, dir |-> "ASCENDING"]
    BY DEF ColumnSort, Directions, DummyTag
  <2> HIDE DEF tag
  <2>3. /\ sort_definition \in Seq(ColumnSort) /\ Len(sort_definition) >= 1
        /\ sort_definition[1] = [col |-> DummyTag, dir |-> "ASCENDING"]
    BY <1>2, <2>1, <2>2, Prefixed
  <2>4. sort_definition # << >>
    BY <2>3
  <2> QED
    BY <1>1, <2>3, <2>4 DEF Init, IndInv, TypeOK, DummiesLast, Sorted, Counted, NeverRejected
<1>4. CASE ~(fetch > 0 /\ collation[1].col # DummyTag)
  <2>1. sort_definition = collation
    BY <1>1, <1>4 DEF parseSort
  <2>2. fetch > 0 => /\ collation # << >> /\ collation[1].col = DummyTag
                     /\ collation[1].dir = "ASCENDING"
    BY <1>1, <1>4, DummyTagAssumption
  <2> QED
    BY <1>1, <1>2, <2>1, <2>2
    DEF Init, IndInv, TypeOK, DummiesLast, Sorted, Counted, NeverRejected
<1> QED
  BY <1>3, <1>4

LEMMA SortRowsStep == IndInv /\ SortRows => IndInv'
<1> SUFFICES ASSUME IndInv, SortRows PROVE IndInv'
  OBVIOUS
<1>1. PICK p \in Bijection(DOMAIN input, DOMAIN input) :
        /\ \A i, j \in DOMAIN input :
             i < j => ~lt(input[p[j]], input[p[i]], sort_definition)
        /\ data' = [i \in DOMAIN input |-> input[p[i]]]
  BY DEF SortRows
<1>2. /\ input \in Inputs /\ input \in Seq(Row) /\ Len(input) \in Nat
  BY InputIsTable DEF IndInv, TypeOK
<1>3. data' \in Seq(Row) /\ Len(data') = Len(input)
  BY <1>1, <1>2, PermutedTable
<1>4. TypeOK'
  BY <1>2, <1>3 DEF IndInv, TypeOK, SortRows
<1>5. Sorted'
  BY <1>1 DEF SortRows, Sorted, Permuted, InOrder
<1> QED
  BY <1>4, <1>5 DEF IndInv, SortRows, DummiesLast, Counted, NeverRejected

LEMMA ResizeStep == IndInv /\ Resize => IndInv'
<1> SUFFICES ASSUME IndInv, Resize PROVE IndInv'
  OBVIOUS
<1>1. /\ count = Len(input) /\ Len(input) \in Nat /\ limit \in Nat
      /\ count \in 0 .. Len(data) /\ Len(data) \in Nat
  BY InputIsTable, CollationsAssumption DEF IndInv, TypeOK, Counted, Resize
<1>2. TypeOK'
  BY <1>1 DEF IndInv, TypeOK, Resize
<1>3. Sorted'
  BY DEF IndInv, Resize, Sorted, Permuted, InOrder
<1> QED
  BY <1>1, <1>2, <1>3 DEF IndInv, Resize, DummiesLast, Counted, NeverRejected

LEMMA EqualityStep == IndInv /\ VerifySetEquality => IndInv'
<1> SUFFICES ASSUME IndInv, VerifySetEquality PROVE IndInv'
  OBVIOUS
<1>1. PICK p \in Bijection(DOMAIN input, DOMAIN input) :
        data = [i \in DOMAIN input |-> input[p[i]]]
  BY DEF IndInv, Sorted, Permuted, VerifySetEquality
<1>2. DOMAIN input = 1 .. Len(input) /\ Len(input) \in Nat
  BY InputIsTable DEF IndInv, TypeOK
<1>3. ASSUME NEW row
      PROVE  Occurrences(input, Len(input), row) = Occurrences(data, Len(input), row)
  <2> DEFINE A == { i \in 1 .. Len(input) : input[i] = row }
           D == DOMAIN input
  <2>1. p \in Bijection(D, D) /\ IsFiniteSet(D) /\ A \in SUBSET D
    BY <1>2, FS_Interval
  <2>2. \A i \in D : p[i] \in D
    <3> HIDE DEF A, D
    <3> QED
      BY <2>1, Permutation
  <2>3. { i \in 1 .. Len(input) : data[i] = row } = { i \in D : p[i] \in A }
    BY <1>1, <1>2, <2>2
  <2>4. Cardinality({ i \in D : p[i] \in A }) = Cardinality(A)
    <3> HIDE DEF A, D
    <3> QED
      BY <2>1, SameCount
  <2> QED
    BY <2>3, <2>4 DEF Occurrences
<1>4. pc' = "order"
  BY <1>3 DEF VerifySetEquality
<1>5. Sorted'
  BY DEF IndInv, VerifySetEquality, Sorted, Permuted, InOrder
<1> QED
  BY <1>4, <1>5 DEF IndInv, TypeOK, VerifySetEquality, DummiesLast, Counted, NeverRejected

(* What is sorted holds table rows, and no row belongs before an earlier   *)
(* one.                                                                    *)
LEMMA SortedRows ==
  ASSUME IndInv, pc # "sort"
  PROVE  /\ Len(input) \in Nat /\ Len(data) = Len(input) /\ limit \in Nat
         /\ sort_definition \in Seq(ColumnSort)
         /\ \A i \in 1 .. Len(input) : data[i] \in Row
         /\ \A i, j \in 1 .. Len(input) :
              i < j => ~BeforeBy(data[j], data[i], sort_definition)
<1>1. /\ DOMAIN input = 1 .. Len(input) /\ Len(input) \in Nat /\ limit \in Nat
      /\ sort_definition \in Seq(ColumnSort) /\ data \in Seq(Row) /\ input \in Seq(Row)
  BY InputIsTable, CollationsAssumption DEF IndInv, TypeOK
<1>2. Permuted /\ InOrder
  BY DEF IndInv, Sorted
<1>3. Len(data) = Len(input)
  BY <1>1, <1>2, PermutedTable DEF Permuted
<1>4. \A i \in 1 .. Len(input) : data[i] \in Row
  BY <1>1, <1>3
<1>5. ASSUME NEW i \in 1 .. Len(input), NEW j \in 1 .. Len(input), i < j
      PROVE  ~BeforeBy(data[j], data[i], sort_definition)
  <2>1. ~lt(data[j], data[i], sort_definition)
    BY <1>1, <1>2, <1>5 DEF InOrder
  <2>2. data[i] \in Row /\ data[j] \in Row
    BY <1>4
  <2> QED
    BY <1>1, <2>1, <2>2, LtDecides
<1> QED
  BY <1>1, <1>3, <1>4, <1>5

LEMMA OrderStep == IndInv /\ VerifyOrder => IndInv'
<1> SUFFICES ASSUME IndInv, VerifyOrder PROVE IndInv'
  OBVIOUS
<1>1. pc = "order"
  BY DEF VerifyOrder
<1>2. count \in 0 .. Len(input)
  BY <1>1, SortedRows DEF IndInv, TypeOK
<1>3. ASSUME NEW i \in 2 .. count
      PROVE  checkOrder(data[i - 1], data[i], sort_definition)
  <2>1. i - 1 \in 1 .. Len(input) /\ i \in 1 .. Len(input) /\ i - 1 < i
    BY <1>1, <1>2, SortedRows
  <2>2. /\ data[i - 1] \in Row /\ data[i] \in Row /\ sort_definition \in Seq(ColumnSort)
        /\ ~BeforeBy(data[i], data[i - 1], sort_definition)
    BY <1>1, <2>1, SortedRows
  <2> QED
    BY <2>2, CheckDecides
<1>4. pc' = "accepted"
  BY <1>3 DEF VerifyOrder
<1>5. Sorted'
  BY DEF IndInv, VerifyOrder, Sorted, Permuted, InOrder
<1> QED
  BY <1>1, <1>4, <1>5 DEF IndInv, TypeOK, VerifyOrder, DummiesLast, Counted, NeverRejected

(* IndInv holds in every reachable state.                                  *)
THEOREM InvHolds == Spec => []IndInv
<1>1. ASSUME IndInv, [Next]_vars PROVE IndInv'
  <2>1. CASE UNCHANGED vars
    BY <1>1, <2>1
    DEF vars, IndInv, TypeOK, DummiesLast, Sorted, Permuted, InOrder, Counted, NeverRejected
  <2>2. CASE Terminated
    BY <2>1, <2>2 DEF Terminated
  <2> QED
    BY <1>1, <2>1, <2>2, SortRowsStep, ResizeStep, EqualityStep, OrderStep DEF Next
<1> QED
  BY InitInv, <1>1, PTL DEF Spec

(* Every variable of the sort keeps its type, and with a limit the dummy   *)
(* tag is what the table is sorted by first (PlanParser::parseSort).       *)
THEOREM TypeCorrect == Spec => []TypeOK
<1>1. IndInv => TypeOK
  BY DEF IndInv
<1> QED
  BY <1>1, InvHolds, PTL

(* Whatever order std::sort gives to ties and however much is cut off, an  *)
(* honest sort passes ZKSet::equal and every checkOrder.                   *)
THEOREM NeverRejectedHolds == Spec => []NeverRejected
<1>1. IndInv => NeverRejected
  BY DEF IndInv
<1> QED
  BY <1>1, InvHolds, PTL

LEMMA BeforeDecided ==
  ASSUME NEW a \in Row, NEW b \in Row, sort_definition \in Seq(ColumnSort),
         Before(a, b)
  PROVE  BeforeBy(a, b, sort_definition)
<1>1. PICK k \in 1 .. Len(sort_definition) :
        /\ \A j \in 1 .. k - 1 :
             Field(a, sort_definition[j].col) = Field(b, sort_definition[j].col)
        /\ Orders(a, b, sort_definition, k)
  BY DEF Before, Orders
<1>2. /\ Field(a, sort_definition[k].col) \in Nat
      /\ Field(b, sort_definition[k].col) \in Nat
  BY FieldsAreNumbers
<1>3. FirstDiffers(a, b, sort_definition, k)
  BY <1>1, <1>2 DEF FirstDiffers, Orders
<1> QED
  BY <1>1, <1>3 DEF BeforeBy

(* No real row of an accepted output belongs before an earlier real row.   *)
THEOREM OutputSortedHolds == Spec => []OutputSorted
<1>1. IndInv => OutputSorted
  <2> SUFFICES ASSUME IndInv, pc = "accepted",
                      NEW i \in 1 .. count, NEW j \in 1 .. count, i < j
      PROVE  ~Before(data[j], data[i])
    BY DEF OutputSorted
  <2>1. /\ count \in 0 .. Len(input) /\ Len(input) \in Nat
        /\ sort_definition \in Seq(ColumnSort)
        /\ \A k \in 1 .. Len(input) : data[k] \in Row
        /\ \A k, m \in 1 .. Len(input) :
             k < m => ~BeforeBy(data[m], data[k], sort_definition)
    BY SortedRows DEF IndInv, TypeOK
  <2>2. ~BeforeBy(data[j], data[i], sort_definition)
    BY <2>1
  <2> QED
    BY <2>1, <2>2, BeforeDecided
<1> QED
  BY <1>1, InvHolds, PTL

(* With a limit the real rows come before all dummies.                     *)
LEMMA RealRowsFirst ==
  ASSUME IndInv, pc # "sort", limit > 0,
         NEW i \in 1 .. Len(input), NEW j \in 1 .. Len(input), i < j, ~data[j].dummy
  PROVE  ~data[i].dummy
<1> SUFFICES ASSUME data[i].dummy PROVE FALSE
  OBVIOUS
<1>1. /\ sort_definition \in Seq(ColumnSort) /\ sort_definition # << >>
      /\ sort_definition[1].col = DummyTag /\ sort_definition[1].dir = "ASCENDING"
  BY DEF IndInv, TypeOK, DummiesLast
<1>2. 1 \in 1 .. Len(sort_definition)
  BY <1>1
<1>3. /\ Field(data[j], sort_definition[1].col) = 0
      /\ Field(data[i], sort_definition[1].col) = 1
  BY <1>1 DEF Field
<1>4. /\ FirstDiffers(data[j], data[i], sort_definition, 1)
      /\ Orders(data[j], data[i], sort_definition, 1)
  BY <1>1, <1>3 DEF FirstDiffers, Orders
<1>5. BeforeBy(data[j], data[i], sort_definition)
  BY <1>2, <1>4 DEF BeforeBy
<1> QED
  BY <1>5, SortedRows

(* The output has as many real rows as the input.                          *)
LEMMA SameRealRows ==
  ASSUME IndInv, pc # "sort"
  PROVE  Cardinality(RealIn(data, Len(input))) = Cardinality(RealIn(input, Len(input)))
<1>1. PICK p \in Bijection(DOMAIN input, DOMAIN input) :
        data = [i \in DOMAIN input |-> input[p[i]]]
  BY DEF IndInv, Sorted, Permuted
<1>2. DOMAIN input = 1 .. Len(input) /\ Len(input) \in Nat
  BY InputIsTable DEF IndInv, TypeOK
<1> DEFINE A == RealIn(input, Len(input))
           D == DOMAIN input
<1>3. p \in Bijection(D, D) /\ IsFiniteSet(D) /\ A \in SUBSET D
  BY <1>2, FS_Interval DEF RealIn
<1>4. \A i \in D : p[i] \in D
  <2> HIDE DEF A, D
  <2> QED
    BY <1>3, Permutation
<1>5. RealIn(data, Len(input)) = { i \in D : p[i] \in A }
  BY <1>1, <1>2, <1>4 DEF RealIn
<1>6. Cardinality({ i \in D : p[i] \in A }) = Cardinality(A)
  <2> HIDE DEF A, D
  <2> QED
    BY <1>3, SameCount
<1> QED
  BY <1>5, <1>6

(* A limit keeps as many real rows as it can, and those that come first.   *)
THEOREM LimitKeepsRealHolds == Spec => []LimitKeepsReal
<1>1. IndInv => LimitKeepsReal
  <2> SUFFICES ASSUME IndInv, pc = "accepted" PROVE LimitKeepsReal
    BY DEF LimitKeepsReal
  <2> DEFINE n == Len(input)
             real == Cardinality(RealIn(input, n))
  <2>1. /\ n \in Nat /\ Len(data) = n /\ limit \in Nat
        /\ sort_definition \in Seq(ColumnSort)
        /\ \A k \in 1 .. Len(input) : data[k] \in Row
        /\ \A k, m \in 1 .. n :
             k < m => ~BeforeBy(data[m], data[k], sort_definition)
    BY SortedRows
  <2>2. count = IF limit > 0 /\ n > limit THEN limit ELSE n
    BY DEF IndInv, Counted
  <2>3. Cardinality(RealIn(data, n)) = real
    BY SameRealRows
  <2>4. Cardinality(RealIn(data, count)) = IF limit > 0 /\ real > limit THEN limit ELSE real
    <3>1. CASE limit = 0
      BY <2>1, <2>2, <2>3, <3>1
    <3>2. CASE limit > 0
      <4> DEFINE D == RealIn(data, n)
      <4>1. D \in SUBSET (1 .. n)
        BY DEF RealIn
      <4>2. \A j \in D : \A i \in 1 .. j : i \in D
        <5> SUFFICES ASSUME NEW j \in D, NEW i \in 1 .. j, i # j PROVE i \in D
          OBVIOUS
        <5>1. i \in 1 .. n /\ j \in 1 .. n /\ i < j /\ ~data[j].dummy
          BY <2>1 DEF RealIn
        <5> QED
          BY <3>2, <5>1, RealRowsFirst DEF RealIn
      <4> HIDE DEF D
      <4>3. Cardinality(D) \in 0 .. n /\ D = 1 .. Cardinality(D)
        BY <2>1, <4>1, <4>2, DownwardClosed
      <4>4. real \in 0 .. n /\ D = 1 .. real
        BY <2>3, <4>3 DEF D
      <4> HIDE DEF real
      <4>5. RealIn(data, count) = { i \in D : i <= count }
        BY <2>1, <2>2, <3>2 DEF D, RealIn
      <4> DEFINE least == IF real > limit THEN limit ELSE real
      <4>6. /\ real \in Nat /\ limit \in Nat /\ real <= n /\ least \in Nat
            /\ \A i \in 1 .. real : i <= count <=> i <= least
        <5>1. real \in Nat /\ limit \in Nat /\ real <= n /\ n \in Nat
          BY <2>1, <4>4
        <5>2. count \in Nat /\ (count = limit \/ count = n)
          BY <2>1, <2>2
        <5> QED
          BY <2>2, <3>2, <5>1, <5>2
      <4>7. RealIn(data, count) = 1 .. least
        <5>1. RealIn(data, count) = { i \in 1 .. real : i <= least }
          BY <4>4, <4>5, <4>6
        <5>2. least <= real
          BY <4>6
        <5> HIDE DEF least
        <5> QED
          BY <4>6, <5>1, <5>2
      <4>8. Cardinality(1 .. least) = least
        <5> HIDE DEF least
        <5>1. Cardinality(1 .. least) = IF 1 <= least THEN least - 1 + 1 ELSE 0
          BY <4>6, FS_Interval
        <5> QED
          BY <4>6, <5>1
      <4> QED
        BY <3>2, <4>7, <4>8
    <3> QED
      BY <2>1, <3>1, <3>2
  <2>5. ASSUME NEW i \in RealIn(data, count), NEW j \in RealIn(data, Len(data)), j > count
        PROVE  ~Before(data[j], data[i])
    <3>1. i \in 1 .. n /\ j \in 1 .. n /\ i < j
      BY <2>1, <2>2, <2>5 DEF RealIn
    <3>2. ~BeforeBy(data[j], data[i], sort_definition)
      BY <2>1, <3>1
    <3> QED
      BY <2>1, <3>1, <3>2, BeforeDecided
  <2> QED
    BY <2>4, <2>5 DEF LimitKeepsReal
<1> QED
  BY <1>1, InvHolds, PTL
=============================================================================
