-------------------------- MODULE QueryPlan_proofs --------------------------
(***************************************************************************)
(* What TLAPS proves about QueryPlan, for plans and tables of any length:  *)
(*                                                                         *)
(*   - claims name columns there are, and rows have their operator's width;*)
(*   - the real rows of a table are in the order it claims;                *)
(*   - on fresh sorts no order is read past its end, and every group has   *)
(*     one row;                                                            *)
(*   - on fresh sorts and without limits the answer is SQL's.              *)
(***************************************************************************)
EXTENDS QueryPlan, Iteration, SequenceTheorems

-----------------------------------------------------------------------------
(* Orders and what a projection leaves of them.                            *)

(* A row may still precede another where as many or fewer columns of the   *)
(* same values are compared in the same directions.                        *)
LEMMA StillPrecedes ==
  ASSUME NEW d \in SortDefinition, NEW e \in SortDefinition, Len(e) <= Len(d),
         NEW a, NEW b, NEW c, NEW g,
         \A k \in DOMAIN e : /\ e[k].dir = d[k].dir
                             /\ Cell(c, e[k].col) = Cell(a, d[k].col)
                             /\ Cell(g, e[k].col) = Cell(b, d[k].col),
         MayPrecede(a, b, d)
  PROVE  MayPrecede(c, g, e)
<1> SUFFICES ASSUME NEW k \in DOMAIN e,
                    \A h \in 1 .. k - 1 : Cell(c, e[h].col) = Cell(g, e[h].col)
    PROVE  IF e[k].dir = "ASC" THEN Cell(c, e[k].col) <= Cell(g, e[k].col)
                               ELSE Cell(c, e[k].col) >= Cell(g, e[k].col)
  BY DEF MayPrecede
<1>1. k \in DOMAIN d /\ \A h \in 1 .. k - 1 : h \in DOMAIN e
  BY DEF SortDefinition
<1>2. \A h \in 1 .. k - 1 : Cell(a, d[h].col) = Cell(b, d[h].col)
  BY <1>1
<1>3. IF d[k].dir = "ASC" THEN Cell(a, d[k].col) <= Cell(b, d[k].col)
                          ELSE Cell(a, d[k].col) >= Cell(b, d[k].col)
  BY <1>1, <1>2 DEF MayPrecede
<1> QED
  BY <1>3

LEMMA MappingFacts ==
  ASSUME NEW cols \in Seq(Int), NEW c, Mapped(cols, c)
  PROVE  /\ Mapping(cols, c) \in DummyTag .. Len(cols) - 1
         /\ c = DummyTag => Mapping(cols, c) = DummyTag
         /\ c # DummyTag => /\ Mapping(cols, c) + 1 \in DOMAIN cols
                            /\ cols[Mapping(cols, c) + 1] = c
<1>1. CASE c = DummyTag
  BY <1>1 DEF Mapping, DummyTag
<1>2. CASE c # DummyTag
  <2> DEFINE S == { n \in DOMAIN cols : cols[n] = c }
  <2>1. S # {} /\ S \subseteq Nat
    BY <1>2 DEF Mapped
  <2>2. PICK n \in S : \A m \in S : n <= m
    BY <2>1, LeastNumber
  <2>3. n \in DOMAIN cols /\ cols[n] = c /\ \A m \in 1 .. n - 1 : cols[m] # c
    <3>1. \A m \in 1 .. n - 1 : m \in DOMAIN cols /\ ~(n <= m)
      OBVIOUS
    <3> QED
      BY <2>2, <3>1
  <2> DEFINE first == CHOOSE h \in DOMAIN cols : cols[h] = c /\ \A m \in 1 .. h - 1 : cols[m] # c
  <2>4. first \in DOMAIN cols /\ cols[first] = c
    BY <2>3
  <2>5. Mapping(cols, c) = first - 1
    BY <1>2 DEF Mapping
  <2> HIDE DEF first
  <2> QED
    BY <1>2, <2>4, <2>5 DEF DummyTag
<1> QED
  BY <1>1, <1>2

LEMMA CarriedFacts ==
  ASSUME NEW claim \in SortDefinition, NEW cols \in Seq(Int)
  PROVE  /\ carried(claim, cols) \in SortDefinition
         /\ Len(carried(claim, cols)) <= Len(claim)
         /\ \A h \in DOMAIN carried(claim, cols) :
              /\ Mapped(cols, claim[h].col)
              /\ carried(claim, cols)[h].dir = claim[h].dir
              /\ carried(claim, cols)[h].col = Mapping(cols, claim[h].col)
              /\ carried(claim, cols)[h].col \in DummyTag .. Len(cols) - 1
<1> DEFINE survives(k) == /\ \A h \in 1 .. k : Mapped(cols, claim[h].col)
                          /\ k = Len(claim) \/ ~Mapped(cols, claim[k + 1].col)
           n == CHOOSE k \in 0 .. Len(claim) : survives(k)
           c == [h \in 1 .. n |-> [claim[h] EXCEPT !.col = Mapping(cols, @)]]
<1>1. Len(claim) \in Nat
  BY DEF SortDefinition
<1>2. \E k \in 0 .. Len(claim) : survives(k)
  <2> DEFINE S == { k \in 0 .. Len(claim) : k = Len(claim) \/ ~Mapped(cols, claim[k + 1].col) }
  <2>1. Len(claim) \in S /\ S \subseteq Nat
    BY <1>1
  <2>2. PICK k \in S : \A m \in S : k <= m
    <3> HIDE DEF S
    <3> QED
      BY <2>1, LeastNumber
  <2>3. ASSUME NEW h \in 1 .. k PROVE Mapped(cols, claim[h].col)
    <3>1. h - 1 \in 0 .. Len(claim) /\ h - 1 # Len(claim) /\ ~(k <= h - 1) /\ (h - 1) + 1 = h
      BY <1>1
    <3>2. h - 1 \notin S
      BY <2>2, <3>1
    <3>3. Mapped(cols, claim[(h - 1) + 1].col)
      BY <3>1, <3>2
    <3> QED
      BY <3>1, <3>3
  <2> QED
    BY <2>3
<1>3. n \in 0 .. Len(claim) /\ survives(n)
  BY <1>2
<1>4. carried(claim, cols) = c
  BY DEF carried
<1> HIDE DEF n
<1>5. ASSUME NEW h \in 1 .. n
      PROVE  /\ Mapped(cols, claim[h].col)
             /\ claim[h] \in [col : Int, dir : {"ASC", "DESC"}]
             /\ Mapping(cols, claim[h].col) \in DummyTag .. Len(cols) - 1
  <2>1. Mapped(cols, claim[h].col)
    BY <1>3
  <2>2. claim[h] \in [col : Int, dir : {"ASC", "DESC"}]
    <3>1. n \in 0 .. Len(claim)
      BY <1>3
    <3>2. h \in DOMAIN claim
      BY <1>1, <3>1 DEF SortDefinition
    <3> QED
      BY <3>2, ElementType DEF SortDefinition
  <2> QED
    BY <2>1, <2>2, MappingFacts
<1>6. ASSUME NEW h \in 1 .. n
      PROVE  /\ c[h] \in [col : Int, dir : {"ASC", "DESC"}]
             /\ c[h].dir = claim[h].dir
             /\ c[h].col = Mapping(cols, claim[h].col)
  <2>1. Mapping(cols, claim[h].col) \in Int
    BY <1>5 DEF DummyTag
  <2> DEFINE s == claim[h]
             m == Mapping(cols, claim[h].col)
  <2>2. c[h] = [s EXCEPT !.col = m]
    OBVIOUS
  <2>3. s \in [col : Int, dir : {"ASC", "DESC"}] /\ m \in Int
    BY <1>5, <2>1
  <2> HIDE DEF c, s, m
  <2>4. [s EXCEPT !.col = m] \in [col : Int, dir : {"ASC", "DESC"}]
        /\ [s EXCEPT !.col = m].dir = s.dir /\ [s EXCEPT !.col = m].col = m
    BY <2>3
  <2> QED
    BY <2>2, <2>4 DEF s, m
<1>7. DOMAIN c = 1 .. n /\ n \in Nat /\ n <= Len(claim)
  BY <1>1, <1>3
<1> HIDE DEF c
<1>8. c \in Seq([col : Int, dir : {"ASC", "DESC"}]) /\ Len(c) = n
  <2>1. c = [h \in 1 .. n |-> c[h]]
    BY <1>7 DEF c
  <2> DEFINE T == [col : Int, dir : {"ASC", "DESC"}]
  <2>2. \A h \in 1 .. n : c[h] \in T
    BY <1>6
  <2> HIDE DEF T
  <2>3. c \in [1 .. n -> T]
    BY <2>1, <2>2
  <2>4. c \in Seq(T) /\ Len(c) = n
    BY <1>7, <2>3
  <2> QED
    BY <2>4 DEF T
<1> QED
  BY <1>4, <1>5, <1>6, <1>7, <1>8 DEF SortDefinition

-----------------------------------------------------------------------------
(* Widths of a plan.                                                       *)

Changes == {"LogicalProject", "LogicalAggregate"}

LEMMA WidthStep ==
  ASSUME NEW p, NEW n \in Nat \ {0}
  PROVE  /\ Width(p, 1) = InputWidth
         /\ p[n].op \notin Changes => Width(p, n + 1) = Width(p, n)
         /\ p[n].op = "LogicalProject" => Width(p, n + 1) = Len(p[n].cols)
         /\ p[n].op = "LogicalAggregate" => Width(p, n + 1) = Len(p[n].cols) + 1
<1> DEFINE makes(k) == { m \in 1 .. k - 1 : p[m].op \in Changes }
           last(k) == CHOOSE m \in makes(k) : \A h \in makes(k) : h <= m
           width(k) == IF makes(k) = {} THEN InputWidth
                       ELSE IF p[last(k)].op = "LogicalProject" THEN Len(p[last(k)].cols)
                       ELSE Len(p[last(k)].cols) + 1
<1>1. \A k : Width(p, k) = width(k)
  BY DEF Width, Changes
<1>2. makes(1) = {}
  OBVIOUS
<1>3. p[n].op \notin Changes => makes(n + 1) = makes(n)
  OBVIOUS
<1>4. p[n].op \in Changes => last(n + 1) = n /\ makes(n + 1) # {}
  <2> SUFFICES ASSUME p[n].op \in Changes PROVE last(n + 1) = n /\ makes(n + 1) # {}
    OBVIOUS
  <2>1. n \in makes(n + 1) /\ \A h \in makes(n + 1) : h <= n
    OBVIOUS
  <2>2. makes(n + 1) \subseteq Nat
    OBVIOUS
  <2> HIDE DEF makes
  <2>3. \A m \in makes(n + 1) : (\A h \in makes(n + 1) : h <= m) => m = n
    BY <2>1, <2>2
  <2> QED
    BY <2>1, <2>3
<1>5. p[n].op \notin Changes => width(n + 1) = width(n)
  <2> SUFFICES ASSUME p[n].op \notin Changes PROVE width(n + 1) = width(n)
    OBVIOUS
  <2>1. makes(n + 1) = makes(n)
    BY <1>3
  <2> HIDE DEF makes
  <2>2. last(n + 1) = last(n)
    BY <2>1
  <2> HIDE DEF last
  <2> QED
    BY <2>1, <2>2
<1>6. width(1) = InputWidth
  BY <1>2
<1>7. p[n].op \in Changes =>
        width(n + 1) = IF p[n].op = "LogicalProject" THEN Len(p[n].cols) ELSE Len(p[n].cols) + 1
  <2> HIDE DEF makes, last
  <2> QED
    BY <1>4
<1> HIDE DEF width
<1> QED
  BY <1>1, <1>5, <1>6, <1>7 DEF Changes

PlanStep == [op : Kinds, order : SortDefinition, cols : Seq(Int), limit : Int]

LEMMA PlanFacts ==
  ASSUME NEW p \in Plans
  PROVE  /\ p \in Seq(PlanStep)
         /\ \A n \in DOMAIN p :
              /\ p[n] \in PlanStep
              /\ Width(p, n) \in Nat
              /\ \A k \in DOMAIN p[n].order : p[n].order[k].col \in 0 .. Width(p, n) - 1
              /\ p[n].op = "LogicalSort" => p[n].order # << >>
              /\ \A k \in DOMAIN p[n].cols :
                   \/ p[n].cols[k] \in 0 .. Width(p, n) - 1
                   \/ p[n].op = "LogicalProject" /\ p[n].cols[k] = Computed
<1>1. p \in Seq(PlanStep)
  BY PlansAssumption DEF PlanStep
<1>2. \A n \in DOMAIN p : p[n] \in PlanStep
  BY <1>1, ElementType
<1>3. ASSUME NEW n \in DOMAIN p PROVE Width(p, n) \in Nat
  <2> DEFINE makes == { m \in 1 .. n - 1 : p[m].op \in Changes }
             last == CHOOSE m \in makes : \A h \in makes : h <= m
  <2>1. Width(p, n) = IF makes = {} THEN InputWidth
                      ELSE IF p[last].op = "LogicalProject" THEN Len(p[last].cols)
                      ELSE Len(p[last].cols) + 1
    BY DEF Width, Changes
  <2>2. CASE makes = {}
    BY <2>1, <2>2, InputsAssumption
  <2>3. CASE makes # {}
    <3>1. makes \subseteq Int
      BY <1>1
    <3>2. \E m \in makes : \A h \in makes : h <= m
      <4> DEFINE gap == { n - m : m \in makes }
      <4>1. gap \subseteq Nat /\ gap # {}
        BY <2>3, <1>1
      <4> HIDE DEF gap
      <4>2. PICK g \in gap : \A h \in gap : g <= h
        BY <4>1, LeastNumber
      <4>3. PICK m \in makes : g = n - m
        BY DEF gap
      <4>4. ASSUME NEW h \in makes PROVE h <= m
        <5>1. n - h \in gap
          BY DEF gap
        <5>2. n - m <= n - h
          BY <4>2, <4>3, <5>1
        <5>3. n \in Int /\ h \in Int /\ m \in Int
          BY <1>1, <3>1
        <5> HIDE DEF makes
        <5> QED
          BY <5>2, <5>3
      <4> QED
        BY <4>4
    <3>3. last \in makes
      BY <3>2
    <3>4. last \in DOMAIN p
      BY <3>3, <1>1
    <3>5. Len(p[last].cols) \in Nat
      BY <1>2, <3>4 DEF PlanStep
    <3> QED
      BY <2>1, <2>3, <3>5
  <2> QED
    BY <2>2, <2>3
<1>4. ASSUME NEW n \in DOMAIN p
      PROVE  /\ \A k \in DOMAIN p[n].order : p[n].order[k].col \in 0 .. Width(p, n) - 1
             /\ p[n].op = "LogicalSort" => p[n].order # << >>
             /\ \A k \in DOMAIN p[n].cols :
                   \/ p[n].cols[k] \in 0 .. Width(p, n) - 1
                   \/ p[n].op = "LogicalProject" /\ p[n].cols[k] = Computed
  BY PlansAssumption
<1> QED
  BY <1>1, <1>2, <1>3, <1>4

-----------------------------------------------------------------------------
(* Rows.                                                                   *)

HaveWidth(rows, w) == \A n \in DOMAIN rows : Len(rows[n].v) = w

LEMMA CellType ==
  ASSUME NEW row \in Row, NEW c \in DummyTag .. Len(row.v) - 1
  PROVE  Cell(row, c) \in Nat /\ (c = DummyTag /\ ~row.dummy => Cell(row, c) = 0)
<1>1. CASE c = DummyTag
  BY <1>1 DEF Cell
<1>2. CASE c # DummyTag
  <2>1. row.v \in Seq(Nat) /\ c + 1 \in DOMAIN row.v
    BY <1>2 DEF Row, DummyTag
  <2>2. row.v[c + 1] \in Nat
    BY <2>1, ElementType
  <2> QED
    BY <1>2, <2>2 DEF Cell
<1> QED
  BY <1>1, <1>2

LEMMA ZeroRow ==
  ASSUME NEW w \in Nat
  PROVE  Zero(w) \in Row /\ Zero(w).dummy /\ Len(Zero(w).v) = w
BY DEF Zero, Row

LEMMA KeysFacts ==
  ASSUME NEW row \in Row, NEW group_by \in Seq(Int),
         \A k \in DOMAIN group_by : group_by[k] \in 0 .. Len(row.v) - 1
  PROVE  /\ Keys(row, group_by) \in Seq(Nat) /\ Len(Keys(row, group_by)) = Len(group_by)
         /\ \A k \in DOMAIN group_by : Keys(row, group_by)[k] = Cell(row, group_by[k])
<1>1. \A k \in DOMAIN group_by : Cell(row, group_by[k]) \in Nat
  <2> SUFFICES ASSUME NEW k \in DOMAIN group_by PROVE Cell(row, group_by[k]) \in Nat
    OBVIOUS
  <2>1. group_by[k] \in DummyTag .. Len(row.v) - 1
    BY DEF DummyTag
  <2> QED
    BY <2>1, CellType
<1>2. DOMAIN group_by = 1 .. Len(group_by) /\ Len(group_by) \in Nat
  OBVIOUS
<1>3. Keys(row, group_by) \in [1 .. Len(group_by) -> Nat]
  BY <1>1, <1>2 DEF Keys
<1> QED
  BY <1>2, <1>3 DEF Keys

(* The pass over adjacent rows: a row it writes stands at the last row of  *)
(* a bin that has a real row, and has that bin's keys.                     *)
Bin(rows, group_by, n) ==
  { m \in DOMAIN rows :
      \A h \in DOMAIN rows : (m <= h /\ h <= n) \/ (n <= h /\ h <= m) =>
        Keys(rows[h], group_by) = Keys(rows[n], group_by) }

LEMMA GroupedFacts ==
  ASSUME NEW rows \in Seq(Row), NEW group_by \in Seq(Int), NEW w, HaveWidth(rows, w),
         \A k \in DOMAIN group_by : group_by[k] \in 0 .. w - 1
  PROVE  /\ Grouped(rows, group_by) \in Seq(Row)
         /\ Len(Grouped(rows, group_by)) = Len(rows)
         /\ HaveWidth(Grouped(rows, group_by), Len(group_by) + 1)
         /\ \A n \in DOMAIN rows : ~Grouped(rows, group_by)[n].dummy =>
              /\ \A m \in Bin(rows, group_by, n) : m <= n
              /\ \E m \in Bin(rows, group_by, n) : ~rows[m].dummy
              /\ \A k \in DOMAIN group_by :
                   Grouped(rows, group_by)[n].v[k] = Cell(rows[n], group_by[k])
<1> DEFINE bin(n) == Bin(rows, group_by, n)
           real(n) == { m \in bin(n) : ~rows[m].dummy }
           G == Grouped(rows, group_by)
           keys(n) == Keys(rows[n], group_by)
           written(n) == [v |-> Append(keys(n), Cardinality(real(n))), dummy |-> FALSE]
           writes(n) == (\A m \in bin(n) : m <= n) /\ real(n) # {}
           L == Len(group_by)
<1>1. G = [n \in DOMAIN rows |-> IF writes(n) THEN written(n) ELSE Zero(L + 1)]
  BY DEF Grouped, Bin
<1>2. /\ DOMAIN rows = 1 .. Len(rows) /\ Len(rows) \in Nat
      /\ DOMAIN group_by = 1 .. L /\ L \in Nat
  OBVIOUS
<1>3. ASSUME NEW n \in DOMAIN rows
      PROVE  /\ keys(n) \in Seq(Nat) /\ Len(keys(n)) = L
             /\ \A k \in DOMAIN group_by : keys(n)[k] = Cell(rows[n], group_by[k])
  <2>1. rows[n] \in Row /\ Len(rows[n].v) = w
    BY ElementType DEF HaveWidth
  <2> DEFINE row == rows[n]
  <2> HIDE DEF row
  <2>2. row \in Row /\ Len(row.v) = w
    BY <2>1 DEF row
  <2>3. \A k \in DOMAIN group_by : group_by[k] \in 0 .. Len(row.v) - 1
    BY <2>2
  <2>4. /\ Keys(row, group_by) \in Seq(Nat) /\ Len(Keys(row, group_by)) = Len(group_by)
        /\ \A k \in DOMAIN group_by : Keys(row, group_by)[k] = Cell(row, group_by[k])
    BY <2>2, <2>3, KeysFacts
  <2> QED
    BY <2>4 DEF row
<1>4. ASSUME NEW n \in DOMAIN rows PROVE Cardinality(real(n)) \in Nat
  <2>1. IsFiniteSet(1 .. Len(rows))
    BY <1>2, FS_Interval
  <2>2. real(n) \subseteq 1 .. Len(rows)
    BY <1>2 DEF Bin
  <2> HIDE DEF real
  <2> QED
    BY <2>1, <2>2, FS_Subset, FS_CardinalityType
<1> HIDE DEF G, keys, bin, real
<1>5. ASSUME NEW n \in DOMAIN rows
      PROVE  /\ written(n) \in Row /\ ~written(n).dummy /\ Len(written(n).v) = L + 1
             /\ \A k \in DOMAIN group_by : written(n).v[k] = Cell(rows[n], group_by[k])
  <2> DEFINE ks == keys(n)
             c == Cardinality(real(n))
  <2>1. /\ ks \in Seq(Nat) /\ Len(ks) = L /\ c \in Nat
        /\ \A k \in DOMAIN group_by : ks[k] = Cell(rows[n], group_by[k])
    BY <1>3, <1>4
  <2> HIDE DEF ks, c
  <2>2. /\ Append(ks, c) \in Seq(Nat) /\ Len(Append(ks, c)) = L + 1
        /\ \A k \in 1 .. L : Append(ks, c)[k] = ks[k]
    BY <1>2, <2>1
  <2>3. written(n) = [v |-> Append(ks, c), dummy |-> FALSE]
    BY DEF ks, c
  <2> HIDE DEF written, L
  <2> QED
    BY <1>2, <2>1, <2>2, <2>3 DEF Row
<1>6. L + 1 \in Nat
  BY <1>2
<1>7. Zero(L + 1) \in Row /\ Zero(L + 1).dummy /\ Len(Zero(L + 1).v) = L + 1
  BY <1>6, ZeroRow
<1> HIDE DEF written, writes, L
<1>8. \A n \in DOMAIN rows : G[n] \in Row /\ Len(G[n].v) = L + 1
  BY <1>1, <1>5, <1>7
<1>9. DOMAIN G = 1 .. Len(rows)
  BY <1>1, <1>2
<1>10. G \in Seq(Row) /\ Len(G) = Len(rows)
  <2>1. G \in [1 .. Len(rows) -> Row]
    BY <1>1, <1>2, <1>8, <1>9
  <2> QED
    BY <1>2, <2>1
<1>11. HaveWidth(G, L + 1)
  BY <1>2, <1>8, <1>9 DEF HaveWidth
<1>12. ASSUME NEW n \in DOMAIN rows, ~G[n].dummy
       PROVE  /\ \A m \in bin(n) : m <= n
              /\ \E m \in bin(n) : ~rows[m].dummy
              /\ \A k \in DOMAIN group_by : G[n].v[k] = Cell(rows[n], group_by[k])
  <2>1. writes(n) /\ G[n] = written(n)
    BY <1>1, <1>7, <1>12
  <2>2. (\A m \in bin(n) : m <= n) /\ \E m \in bin(n) : ~rows[m].dummy
    BY <2>1 DEF writes, real
  <2> QED
    BY <2>1, <2>2, <1>5
<1> QED
  BY <1>10, <1>11, <1>12 DEF G, bin, L

(* Real rows that the pass gives stand for real rows in the same order.    *)
LEMMA GroupedInOrder ==
  ASSUME NEW rows \in Seq(Row), NEW group_by \in Seq(Int), NEW w, HaveWidth(rows, w),
         \A k \in DOMAIN group_by : group_by[k] \in 0 .. w - 1,
         NEW m \in DOMAIN rows, NEW n \in DOMAIN rows, m < n,
         ~Grouped(rows, group_by)[m].dummy, ~Grouped(rows, group_by)[n].dummy
  PROVE  /\ \E i, j \in DOMAIN rows :
              /\ i < j /\ ~rows[i].dummy /\ ~rows[j].dummy
              /\ \A k \in DOMAIN group_by :
                   /\ Grouped(rows, group_by)[m].v[k] = Cell(rows[i], group_by[k])
                   /\ Grouped(rows, group_by)[n].v[k] = Cell(rows[j], group_by[k])
         /\ \E h \in DOMAIN rows : m <= h /\ h <= n /\
              Keys(rows[h], group_by) # Keys(rows[m], group_by)
<1> DEFINE G == Grouped(rows, group_by)
           bin(x) == Bin(rows, group_by, x)
           keys(x) == Keys(rows[x], group_by)
<1>1. \A x \in {m, n} :
        /\ \A i \in bin(x) : i <= x
        /\ \E i \in bin(x) : ~rows[i].dummy
        /\ \A k \in DOMAIN group_by : G[x].v[k] = Cell(rows[x], group_by[k])
  BY GroupedFacts
<1>2. DOMAIN rows = 1 .. Len(rows) /\ Len(rows) \in Nat
  OBVIOUS
<1>3. \A x \in DOMAIN rows : \A i \in bin(x) :
        /\ i \in DOMAIN rows
        /\ \A h \in DOMAIN rows : (i <= h /\ h <= x) \/ (x <= h /\ h <= i) => keys(h) = keys(x)
  BY DEF Bin
<1>4. PICK i \in bin(m) : ~rows[i].dummy
  BY <1>1
<1>5. PICK j \in bin(n) : ~rows[j].dummy
  BY <1>1
<1>6. i \in DOMAIN rows /\ j \in DOMAIN rows /\ i <= m /\ j <= n
  BY <1>1, <1>3, <1>4, <1>5
<1>7. \E h \in DOMAIN rows : m <= h /\ h <= n /\ keys(h) # keys(m)
  <2> SUFFICES ASSUME \A h \in DOMAIN rows : m <= h /\ h <= n => keys(h) = keys(m)
      PROVE  FALSE
    OBVIOUS
  <2>1. \A h \in DOMAIN rows : (n <= h /\ h <= m) \/ (m <= h /\ h <= n) => keys(h) = keys(m)
    BY <1>2
  <2>2. n \in bin(m)
    BY <2>1 DEF Bin
  <2>3. n <= m
    BY <1>1, <2>2
  <2> QED
    BY <1>2, <2>3
<1>8. m < j
  <2> SUFFICES ASSUME j <= m PROVE FALSE
    BY <1>2, <1>6
  <2>1. \A h \in DOMAIN rows : m <= h /\ h <= n => keys(h) = keys(n)
    <3> SUFFICES ASSUME NEW h \in DOMAIN rows, m <= h, h <= n PROVE keys(h) = keys(n)
      OBVIOUS
    <3>1. j <= h
      BY <1>2, <1>6
    <3> QED
      BY <1>3, <1>5, <3>1
  <2>2. m <= m /\ m <= n
    BY <1>2
  <2>3. keys(m) = keys(n)
    BY <2>1, <2>2
  <2> QED
    BY <1>7, <2>1, <2>3
<1>9. i < j
  BY <1>2, <1>6, <1>8
<1>10. keys(i) = keys(m) /\ keys(j) = keys(n)
  <2>1. i <= i /\ j <= j
    BY <1>2, <1>6
  <2> QED
    BY <1>3, <1>4, <1>5, <1>6, <2>1
<1>11. \A k \in DOMAIN group_by : Cell(rows[i], group_by[k]) = Cell(rows[m], group_by[k])
                               /\ Cell(rows[j], group_by[k]) = Cell(rows[n], group_by[k])
  <2>1. \A x \in DOMAIN rows : \A k \in DOMAIN group_by : keys(x)[k] = Cell(rows[x], group_by[k])
    BY DEF Keys
  <2> HIDE DEF keys
  <2> QED
    BY <1>6, <1>10, <2>1
<1> HIDE DEF G, bin, keys
<1>12. \A k \in DOMAIN group_by : G[m].v[k] = Cell(rows[i], group_by[k])
                                /\ G[n].v[k] = Cell(rows[j], group_by[k])
  BY <1>1, <1>11
<1> QED
  BY <1>4, <1>5, <1>6, <1>7, <1>9, <1>12 DEF G, keys

(* Between rows with the same values in the first columns of an order,     *)
(* sorted rows have these values too.                                      *)
LEMMA SortedBetween ==
  ASSUME NEW rows \in Seq(Row), NEW w, HaveWidth(rows, w), NEW def \in SortDefinition,
         \A k \in DOMAIN def : def[k].col \in DummyTag .. w - 1,
         InOrder(rows, def), NEW L \in 0 .. Len(def),
         NEW m \in DOMAIN rows, NEW h \in DOMAIN rows, NEW n \in DOMAIN rows,
         m <= h, h <= n,
         \A k \in 1 .. L : Cell(rows[m], def[k].col) = Cell(rows[n], def[k].col)
  PROVE  \A k \in 1 .. L : Cell(rows[h], def[k].col) = Cell(rows[m], def[k].col)
<1> DEFINE S == { k \in 1 .. L : Cell(rows[h], def[k].col) # Cell(rows[m], def[k].col) }
<1> SUFFICES ASSUME S # {} PROVE FALSE
  OBVIOUS
<1>1. PICK k \in S : \A g \in S : k <= g
  <2>1. S \subseteq Nat
    OBVIOUS
  <2> QED
    BY <2>1, LeastNumber
<1>2. k \in 1 .. L /\ k \in DOMAIN def /\ L \in Nat
  BY DEF SortDefinition
<1>3. \A g \in 1 .. k - 1 :
        /\ Cell(rows[h], def[g].col) = Cell(rows[m], def[g].col)
        /\ Cell(rows[h], def[g].col) = Cell(rows[n], def[g].col)
  <2> SUFFICES ASSUME NEW g \in 1 .. k - 1
      PROVE  Cell(rows[h], def[g].col) = Cell(rows[m], def[g].col) /\ g \in 1 .. L
    OBVIOUS
  <2>1. g \in 1 .. L /\ ~(k <= g)
    BY <1>2
  <2> QED
    BY <1>1, <2>1
<1>4. \A x \in {m, h, n} : Cell(rows[x], def[k].col) \in Nat
  <2> SUFFICES ASSUME NEW x \in DOMAIN rows PROVE Cell(rows[x], def[k].col) \in Nat
    OBVIOUS
  <2>1. rows[x] \in Row /\ Len(rows[x].v) = w
    BY ElementType DEF HaveWidth
  <2>2. def[k].col \in DummyTag .. Len(rows[x].v) - 1
    BY <1>2, <2>1
  <2> QED
    BY <2>1, <2>2, CellType
<1>5. m # h /\ (h = n => FALSE)
  BY <1>1, <1>2
<1>6. m < h /\ h < n
  BY <1>5
<1>7. MayPrecede(rows[m], rows[h], def) /\ MayPrecede(rows[h], rows[n], def)
  BY <1>6 DEF InOrder
<1> DEFINE x == Cell(rows[m], def[k].col)
           y == Cell(rows[h], def[k].col)
           z == Cell(rows[n], def[k].col)
<1>8. IF def[k].dir = "ASC" THEN x <= y ELSE x >= y
  BY <1>2, <1>3, <1>7 DEF MayPrecede
<1>9. IF def[k].dir = "ASC" THEN y <= z ELSE y >= z
  BY <1>2, <1>3, <1>7 DEF MayPrecede
<1>10. x = z /\ y # x /\ x \in Nat /\ y \in Nat
  BY <1>1, <1>2, <1>4
<1> HIDE DEF x, y, z
<1> QED
  BY <1>8, <1>9, <1>10

-----------------------------------------------------------------------------
(* The chain of operators.                                                 *)

Op == [op : {"SqlInput", "Sort", "Filter", "Project", "GroupByAggregate"},
       cols : Seq(Int), limit : Int, claim : SortDefinition, width : Nat]

PrefixOf(s, t) == Len(s) <= Len(t) /\ \A k \in DOMAIN s : s[k] = t[k]

(* What the parser sees to when it puts operator o on operator b, and what *)
(* is left of it once o has run, b before it.  An aggregate trusts what b  *)
(* claims; what b gives up when it runs shortens the claim.                *)
StandsOn(p, o, b, ran) ==
  /\ o.op # "SqlInput"
  /\ o.op \in {"Sort", "Filter"} => o.width = b.width
  /\ o.op \in {"Sort", "Project"} => \A k \in DOMAIN o.claim :
       o.claim[k].col \in DummyTag .. o.width - 1
  /\ o.op = "Project" =>
       /\ o.width = Len(o.cols)
       /\ \A k \in DOMAIN o.cols : o.cols[k] \in 0 .. b.width - 1 \/ o.cols[k] = Computed
       /\ b.op \in {"Sort", "Project"} => o.claim = carried(b.claim, o.cols)
  /\ o.op = "GroupByAggregate" =>
       /\ o.width = Len(o.cols) + 1
       /\ \A k \in DOMAIN o.cols : o.cols[k] \in 0 .. b.width - 1
       /\ \E i \in DOMAIN p : p[i].op = "LogicalAggregate" /\ p[i].cols = o.cols
       /\ ~ran => \A k \in DOMAIN o.cols \cap DOMAIN b.claim : b.claim[k].col = o.cols[k]
       /\ b.op \in {"Sort", "Project"} => Len(o.cols) <= Len(b.claim)
  /\ o.op \in {"Filter", "GroupByAggregate"} /\ ~ran => PrefixOf(b.claim, o.claim)

(* A chain of operators on a scan, of which those up to a have run.        *)
ChainOK(p, ss, a) ==
  /\ ss \in Seq(Op) /\ ss # << >>
  /\ ss[1].op = "SqlInput" /\ ss[1].claim = << >> /\ ss[1].width = InputWidth
  /\ \A n \in 2 .. Len(ss) : StandsOn(p, ss[n], ss[n - 1], n <= a)

CanStandOn(p, o, b) == StandsOn(p, o, b, FALSE)

LEMMA ChainAppend ==
  ASSUME NEW p, NEW ss, ChainOK(p, ss, 0), NEW o \in Op, CanStandOn(p, o, ss[Len(ss)]),
         NEW t, t = Append(ss, o)
  PROVE  ChainOK(p, t, 0) /\ t[Len(t)] = o
<1> DEFINE l == Len(ss)
<1>1. ss \in Seq(Op) /\ l \in Nat \ {0}
  BY DEF ChainOK
<1>2. /\ t \in Seq(Op) /\ Len(t) = l + 1 /\ t[l + 1] = o /\ t # << >>
      /\ \A n \in 1 .. l : t[n] = ss[n]
  BY <1>1
<1>3. ASSUME NEW n \in 2 .. l + 1 PROVE StandsOn(p, t[n], t[n - 1], n <= 0)
  <2>1. (n <= 0) = FALSE
    OBVIOUS
  <2>2. CASE n = l + 1
    <3>1. t[n] = o /\ t[n - 1] = ss[l]
      BY <1>1, <1>2, <2>2
    <3> QED
      BY <2>1, <3>1 DEF l, CanStandOn
  <2>3. CASE n # l + 1
    <3>1. n \in 2 .. l /\ n \in 1 .. l /\ n - 1 \in 1 .. l
      BY <1>1, <2>3
    <3>2. StandsOn(p, ss[n], ss[n - 1], n <= 0)
      BY <3>1 DEF ChainOK, l
    <3> QED
      BY <1>2, <3>1, <3>2
  <2> QED
    BY <2>2, <2>3
<1>4. t[1] = ss[1]
  BY <1>1, <1>2
<1>5. ChainOK(p, t, 0)
  <2> HIDE DEF l
  <2> QED
    BY <1>2, <1>3, <1>4 DEF ChainOK
<1> QED
  BY <1>2, <1>5

(* Running the next operator may shorten its claim.                        *)
LEMMA ChainRun ==
  ASSUME NEW p, NEW ss, NEW a \in Nat, ChainOK(p, ss, a), a < Len(ss),
         NEW c \in SortDefinition, PrefixOf(c, ss[a + 1].claim),
         ss[a + 1].op \in {"SqlInput", "Sort", "Project"} => c = ss[a + 1].claim
  PROVE  LET t == [ss EXCEPT ![a + 1].claim = c] IN
         /\ ChainOK(p, t, a + 1) /\ Len(t) = Len(ss)
         /\ t[a + 1].claim = c
         /\ \A n \in 1 .. Len(ss) :
              /\ t[n].op = ss[n].op /\ t[n].cols = ss[n].cols /\ t[n].width = ss[n].width
              /\ n # a + 1 => t[n] = ss[n]
<1> DEFINE t == [ss EXCEPT ![a + 1].claim = c]
           o == [ss[a + 1] EXCEPT !.claim = c]
           l == Len(ss)
<1>1. ss \in Seq(Op) /\ l \in Nat \ {0} /\ a + 1 \in 1 .. l
  BY DEF ChainOK
<1>2. \A n \in 1 .. l : ss[n] \in Op
  BY <1>1
<1>3. /\ o \in Op /\ o.claim = c
      /\ o.op = ss[a + 1].op /\ o.cols = ss[a + 1].cols /\ o.width = ss[a + 1].width
      /\ o.limit = ss[a + 1].limit
  BY <1>1, <1>2 DEF Op
<1>4. t = [ss EXCEPT ![a + 1] = o]
  OBVIOUS
<1> HIDE DEF t, o
<1>5. /\ t \in Seq(Op) /\ Len(t) = l /\ t # << >>
      /\ \A n \in 1 .. l : t[n] = IF n = a + 1 THEN o ELSE ss[n]
  BY <1>1, <1>3, <1>4
<1>6. c = << >> \/ a + 1 # 1 \/ ss[1].op # "SqlInput"
  BY <1>1 DEF ChainOK
<1>7. t[1].op = "SqlInput" /\ t[1].claim = << >> /\ t[1].width = InputWidth
  BY <1>1, <1>3, <1>5 DEF ChainOK
<1>8. ASSUME NEW n \in 2 .. l PROVE StandsOn(p, t[n], t[n - 1], n <= a + 1)
  <2>1. StandsOn(p, ss[n], ss[n - 1], n <= a) /\ n \in 1 .. l /\ n - 1 \in 1 .. l
    BY <1>1 DEF ChainOK
  <2>2. CASE n = a + 1
    <3>1. t[n] = o /\ t[n - 1] = ss[n - 1]
      BY <1>1, <1>5, <2>1, <2>2
    <3>2. (n <= a + 1) = TRUE
      BY <2>2
    <3>3. StandsOn(p, o, ss[n - 1], TRUE)
      BY <1>3, <2>1, <2>2 DEF StandsOn
    <3> QED
      BY <3>1, <3>2, <3>3
  <2>3. CASE n = a + 2
    <3>1. t[n] = ss[n] /\ t[n - 1] = o /\ ss[n - 1] = ss[a + 1]
      BY <1>1, <1>5, <2>1, <2>3
    <3>2. (n <= a + 1) = FALSE /\ (n <= a) = FALSE
      BY <2>3
    <3>3. StandsOn(p, ss[n], ss[a + 1], FALSE)
      BY <2>1, <3>1, <3>2
    <3>4. Len(c) <= Len(ss[a + 1].claim) /\ \A k \in DOMAIN c : c[k] = ss[a + 1].claim[k]
      BY DEF PrefixOf
    <3>5. \A k \in DOMAIN c : k \in DOMAIN ss[a + 1].claim
      <4>1. ss[a + 1].claim \in SortDefinition
        BY <1>1, <1>2 DEF Op
      <4> QED
        BY <3>4, <4>1 DEF SortDefinition
    <3>6. PrefixOf(ss[a + 1].claim, ss[n].claim) => PrefixOf(c, ss[n].claim)
      <4>1. ss[a + 1].claim \in SortDefinition /\ ss[n].claim \in SortDefinition
        BY <1>1, <1>2, <2>1 DEF Op
      <4> QED
        BY <3>4, <3>5, <4>1, SMTT(30) DEF PrefixOf, SortDefinition
    <3>7. StandsOn(p, ss[n], o, FALSE)
      BY <1>3, <3>3, <3>4, <3>5, <3>6 DEF StandsOn
    <3> QED
      BY <3>1, <3>2, <3>7
  <2>4. CASE n # a + 1 /\ n # a + 2
    <3>1. t[n] = ss[n] /\ t[n - 1] = ss[n - 1]
      BY <1>1, <1>5, <2>1, <2>4
    <3>2. (n <= a + 1) = (n <= a)
      BY <2>4
    <3> QED
      BY <2>1, <3>1, <3>2
  <2> QED
    BY <2>2, <2>3, <2>4
<1>9. ChainOK(p, t, a + 1)
  BY <1>5, <1>7, <1>8 DEF ChainOK
<1> QED
  BY <1>1, <1>3, <1>5, <1>9 DEF t

-----------------------------------------------------------------------------
(* The invariant.                                                          *)

(* Operator n is a sort, or projections on one.                            *)
OnSort(ss, n) == \E m \in 1 .. n : ss[m].op = "Sort" /\ \A h \in m + 1 .. n : ss[h].op = "Project"

OneRowPerGroup(rows, l) ==
  \A m, n \in DOMAIN rows :
    ~rows[m].dummy /\ ~rows[n].dummy /\ (\A k \in 1 .. l : rows[m].v[k] = rows[n].v[k]) => m = n

(* The parser is through the steps of the plan but those left.             *)
Parsed ==
  /\ plan \in Plans /\ input \in Inputs
  /\ steps \in Seq(PlanStep) /\ Len(steps) <= Len(plan)
  /\ \A k \in DOMAIN steps : steps[k] = plan[k + (Len(plan) - Len(steps))]
  /\ pc = "Parse" =>
       at = 0 /\ ops[Len(ops)].width = Width(plan, Len(plan) - Len(steps) + 1)

(* A table that has been sorted whole, or projected from one, is in order  *)
(* dummies and all; an aggregate of it gives every group one row.          *)
Sorted ==
  /\ at > 0 /\ OnSort(ops, at) => InOrder(table, order)
  /\ at > 1 /\ ops[at].op = "GroupByAggregate" /\ OnSort(ops, at - 1) =>
       OneRowPerGroup(table, ops[at].width - 1)

IndInv ==
  /\ TypeOK
  /\ Parsed
  /\ ChainOK(plan, ops, at)
  /\ at = 0 => table = << >> /\ order = << >>
  /\ RealRowsInOrder
  /\ Sorted
  /\ pc = "Done" => at = Len(ops)
  /\ pc = "Undefined" => ~SortedAfresh

LEMMA OpFacts ==
  ASSUME NEW p, NEW ss, NEW a \in Nat, ChainOK(p, ss, a)
  PROVE  /\ ss \in Seq(Op) /\ Len(ss) \in Nat \ {0} /\ DOMAIN ss = 1 .. Len(ss)
         /\ \A n \in 1 .. Len(ss) : /\ ss[n] \in Op
                                    /\ ss[n].op # "SqlInput" <=> n # 1
         /\ \A n \in DOMAIN ss :
              /\ ss[n].claim \in SortDefinition
              /\ ss[n].op \in {"Sort", "Project"} => \A k \in DOMAIN ss[n].claim :
                   ss[n].claim[k].col \in DummyTag .. ss[n].width - 1
<1>1. ss \in Seq(Op) /\ Len(ss) \in Nat \ {0} /\ DOMAIN ss = 1 .. Len(ss)
  BY DEF ChainOK
<1>2. ASSUME NEW n \in 1 .. Len(ss)
      PROVE  /\ ss[n] \in Op /\ (ss[n].op # "SqlInput" <=> n # 1)
             /\ ss[n].claim \in SortDefinition
             /\ ss[n].op \in {"Sort", "Project"} => \A k \in DOMAIN ss[n].claim :
                  ss[n].claim[k].col \in DummyTag .. ss[n].width - 1
  <2>1. ss[n] \in Op
    BY <1>1
  <2>2. ss[n].claim \in SortDefinition
    BY <2>1 DEF Op
  <2>3. CASE n = 1
    BY <2>1, <2>2, <2>3 DEF ChainOK
  <2>4. CASE n # 1
    <3>1. StandsOn(p, ss[n], ss[n - 1], n <= a)
      BY <1>1, <2>4 DEF ChainOK
    <3> QED
      BY <2>1, <2>2, <2>4, <3>1 DEF StandsOn, CanStandOn
  <2> QED
    BY <2>3, <2>4
<1> QED
  BY <1>1, <1>2

LEMMA NoOrder ==
  ASSUME NEW a, NEW b
  PROVE  MayPrecede(a, b, << >>)
BY DEF MayPrecede

LEMMA InitInv == Init => IndInv
<1> SUFFICES ASSUME Init PROVE IndInv
  OBVIOUS
<1>1. plan \in Plans /\ input \in Inputs /\ steps = plan /\ ops = <<SeqScan>> /\ at = 0
      /\ table = << >> /\ order = << >> /\ pc = "Parse"
  BY DEF Init
<1>2. plan \in Seq(PlanStep)
  BY <1>1, PlanFacts
<1>3. SeqScan \in Op /\ SeqScan.op = "SqlInput" /\ SeqScan.claim = << >>
      /\ SeqScan.width = InputWidth
  BY InputsAssumption DEF SeqScan, Node, Op, NoLimit, SortDefinition
<1>4. ChainOK(plan, ops, at)
  <2>1. ops \in Seq(Op) /\ Len(ops) = 1 /\ ops[1] = SeqScan /\ ops # << >>
    BY <1>1, <1>3
  <2>2. \A n \in 2 .. Len(ops) : FALSE
    BY <2>1
  <2> QED
    BY <1>3, <2>1, <2>2 DEF ChainOK
<1>5. Len(ops) = 1 /\ ops[1] = SeqScan
  BY <1>1
<1>6. Width(plan, 1) = InputWidth
  <2>1. 1 \in Nat \ {0}
    OBVIOUS
  <2> QED
    BY <2>1, WidthStep
<1>7. Parsed
  <2>1. Len(plan) - Len(steps) + 1 = 1 /\ Len(plan) - Len(steps) = 0 /\ Len(plan) \in Nat
    BY <1>1, <1>2
  <2>2. \A k \in DOMAIN plan : k + 0 = k
    BY <1>2
  <2> QED
    BY <1>1, <1>2, <1>3, <1>5, <1>6, <2>1, <2>2 DEF Parsed
<1>8. TypeOK
  <2>1. at \in Nat
    BY <1>1
  <2>2. \A n \in DOMAIN ops :
          /\ ops[n].claim \in SortDefinition
          /\ ops[n].op \in {"Sort", "Project"} => \A k \in DOMAIN ops[n].claim :
               ops[n].claim[k].col \in DummyTag .. ops[n].width - 1
    BY <1>4, <2>1, OpFacts
  <2> QED
    BY <1>1, <1>5, <2>2 DEF TypeOK
<1>9. RealRowsInOrder /\ Sorted
  BY <1>1 DEF RealRowsInOrder, Sorted
<1> QED
  BY <1>1, <1>4, <1>7, <1>8, <1>9 DEF IndInv

-----------------------------------------------------------------------------
(* Parsing keeps the invariant.                                            *)

LEMMA StepFacts ==
  ASSUME IndInv, NEW op, Step(op)
  PROVE  /\ pc = "Parse" /\ at = 0
         /\ UNCHANGED <<plan, input, at, table, order, pc>>
         /\ \E i \in DOMAIN plan :
              /\ Head(steps) = plan[i] /\ plan[i].op = op /\ plan[i] \in PlanStep
              /\ child.width = Width(plan, i)
              /\ steps' \in Seq(PlanStep) /\ Len(steps') = Len(plan) - i
              /\ \A k \in DOMAIN steps' : steps'[k] = plan[k + i]
         /\ child \in Op /\ child = ops[Len(ops)]
<1> DEFINE i == Len(plan) - Len(steps) + 1
<1>1. /\ pc = "Parse" /\ steps # << >> /\ Head(steps).op = op /\ steps' = Tail(steps)
      /\ UNCHANGED <<plan, input, at, table, order, pc>>
  BY DEF Step
<1>2. Parsed /\ ChainOK(plan, ops, at) /\ at = 0
  BY <1>1 DEF IndInv, Parsed
<1>3. plan \in Seq(PlanStep) /\ steps \in Seq(PlanStep) /\ Len(steps) <= Len(plan)
  BY <1>2, PlanFacts DEF Parsed
<1>4. i \in DOMAIN plan /\ Len(steps) \in Nat \ {0} /\ 1 \in DOMAIN steps
  BY <1>1, <1>3
<1>5. Head(steps) = plan[i]
  <2>1. Head(steps) = steps[1]
    BY <1>1, <1>3
  <2>2. steps[1] = plan[1 + (Len(plan) - Len(steps))]
    BY <1>2, <1>4 DEF Parsed
  <2>3. 1 + (Len(plan) - Len(steps)) = i
    BY <1>3
  <2> QED
    BY <2>1, <2>2, <2>3
<1>6. plan[i] \in PlanStep
  BY <1>3, <1>4
<1>7. steps' \in Seq(PlanStep) /\ Len(steps') = Len(steps) - 1
      /\ \A k \in DOMAIN steps' : steps'[k] = steps[k + 1] /\ k + 1 \in DOMAIN steps
  BY <1>1, <1>3
<1>8. \A k \in DOMAIN steps' : steps'[k] = plan[k + i]
  <2> SUFFICES ASSUME NEW k \in DOMAIN steps' PROVE steps'[k] = plan[k + i]
    OBVIOUS
  <2>1. steps'[k] = plan[(k + 1) + (Len(plan) - Len(steps))]
    BY <1>2, <1>7 DEF Parsed
  <2>2. (k + 1) + (Len(plan) - Len(steps)) = k + i
    <3>1. k \in Int /\ Len(plan) \in Int /\ Len(steps) \in Int
      BY <1>3, <1>7
    <3> QED
      BY <3>1
  <2> QED
    BY <2>1, <2>2
<1>9. Len(steps') = Len(plan) - i
  BY <1>3, <1>7
<1>10. child = ops[Len(ops)]
  BY DEF child, Last
<1>11. child \in Op
  <2>1. at \in Nat
    BY <1>2
  <2>2. Len(ops) \in 1 .. Len(ops) /\ \A n \in 1 .. Len(ops) : ops[n] \in Op
    BY <1>2, <2>1, OpFacts
  <2> QED
    BY <1>10, <2>2
<1>12. child.width = Width(plan, i)
  BY <1>1, <1>2, <1>10 DEF Parsed
<1> HIDE DEF i
<1> QED
  BY <1>1, <1>2, <1>4, <1>5, <1>6, <1>7, <1>8, <1>9, <1>10, <1>11, <1>12

LEMMA ParsedInv ==
  ASSUME IndInv, NEW op, Step(op), NEW i \in DOMAIN plan,
         steps' \in Seq(PlanStep), Len(steps') = Len(plan) - i,
         \A k \in DOMAIN steps' : steps'[k] = plan[k + i],
         ChainOK(plan, ops', 0), ops'[Len(ops')].width = Width(plan, i + 1)
  PROVE  IndInv'
<1>1. pc = "Parse" /\ at = 0 /\ UNCHANGED <<plan, input, at, table, order, pc>>
  BY StepFacts
<1>2. plan \in Seq(PlanStep) /\ Parsed /\ table = << >> /\ order = << >>
  BY <1>1, PlanFacts DEF IndInv, Parsed
<1>3. Parsed'
  <2>1. /\ Len(plan) \in Nat /\ i \in 1 .. Len(plan)
        /\ Len(plan) - Len(steps') + 1 = i + 1 /\ Len(plan) - Len(steps') = i
        /\ Len(steps') <= Len(plan)
    BY <1>2
  <2> QED
    BY <1>1, <1>2, <2>1 DEF Parsed
<1>4. 0 \in Nat
  OBVIOUS
<1>5. /\ Len(ops') \in Nat \ {0}
      /\ \A n \in DOMAIN ops' :
          /\ ops'[n].claim \in SortDefinition
          /\ ops'[n].op \in {"Sort", "Project"} => \A k \in DOMAIN ops'[n].claim :
               ops'[n].claim[k].col \in DummyTag .. ops'[n].width - 1
  BY <1>4, OpFacts
<1>6. TypeOK'
  BY <1>1, <1>2, <1>5 DEF TypeOK
<1>7. RealRowsInOrder' /\ Sorted'
  BY <1>1, <1>2 DEF RealRowsInOrder, Sorted
<1> QED
  BY <1>1, <1>2, <1>3, <1>6, <1>7 DEF IndInv

LEMMA ParseSortStep == IndInv /\ ParseSort => IndInv'
<1> SUFFICES ASSUME IndInv, ParseSort PROVE IndInv'
  OBVIOUS
<1> DEFINE s == Head(steps)
           def == sortDefinition(s.order, s.limit)
           o == Node("Sort", << >>, s.limit, Claim(def), child.width)
<1>1. Step("LogicalSort") /\ ops' = Append(ops, o)
  BY DEF ParseSort
<1>2. PICK i \in DOMAIN plan :
        /\ s = plan[i] /\ plan[i].op = "LogicalSort" /\ plan[i] \in PlanStep
        /\ child.width = Width(plan, i)
        /\ steps' \in Seq(PlanStep) /\ Len(steps') = Len(plan) - i
        /\ \A k \in DOMAIN steps' : steps'[k] = plan[k + i]
  BY <1>1, StepFacts
<1>3. /\ at = 0 /\ child \in Op /\ child = ops[Len(ops)]
      /\ plan \in Plans /\ ChainOK(plan, ops, 0)
  BY <1>1, StepFacts DEF IndInv, Parsed
<1>4. /\ s \in PlanStep /\ s.order \in SortDefinition /\ s.order # << >> /\ s.limit \in Int
      /\ \A k \in DOMAIN s.order : s.order[k].col \in 0 .. child.width - 1
      /\ child.width \in Nat
  BY <1>2, <1>3, PlanFacts DEF PlanStep, Op
<1>5. /\ def \in SortDefinition /\ def # << >>
      /\ \A k \in DOMAIN def : def[k].col \in DummyTag .. child.width - 1
  <2> DEFINE d == s.order
             w == child.width
  <2>1. d \in SortDefinition /\ d # << >> /\ w \in Nat /\ \A k \in DOMAIN d : d[k].col \in 0 .. w - 1
    BY <1>4
  <2>2. def = d \/ def = <<Ascending(DummyTag)>> \o d
    BY DEF sortDefinition
  <2> HIDE DEF d, w, def
  <2>3. CASE def = d
    BY <2>1, <2>3 DEF DummyTag, w
  <2>4. CASE def = <<Ascending(DummyTag)>> \o d
    <3> DEFINE f == <<Ascending(DummyTag)>>
               T == [col : Int, dir : {"ASC", "DESC"}]
    <3>1. f \in Seq(T) /\ Len(f) = 1 /\ f[1].col = DummyTag
      BY DEF Ascending, DummyTag
    <3>2. d \in Seq(T)
      BY <2>1 DEF SortDefinition
    <3>3. def = f \o d
      BY <2>4
    <3> HIDE DEF f, T
    <3>4. /\ def \in Seq(T) /\ Len(def) = Len(f) + Len(d)
          /\ \A k \in 1 .. Len(f) + Len(d) : def[k] = IF k <= Len(f) THEN f[k] ELSE d[k - Len(f)]
      BY <3>1, <3>2, <3>3, ConcatProperties
    <3>5. ASSUME NEW k \in DOMAIN def PROVE def[k].col \in DummyTag .. w - 1
      <4>1. k \in 1 .. 1 + Len(d) /\ Len(d) \in Nat
        BY <3>1, <3>2, <3>4
      <4>2. CASE k = 1
        <5>1. def[k].col = DummyTag
          BY <3>1, <3>4, <4>1, <4>2
        <5> QED
          BY <2>1, <5>1 DEF DummyTag
      <4>3. CASE k # 1
        <5>1. def[k] = d[k - 1] /\ k - 1 \in DOMAIN d
          BY <3>1, <3>2, <3>4, <4>1, <4>3
        <5>2. d[k - 1].col \in 0 .. w - 1
          BY <2>1, <5>1
        <5> QED
          BY <5>1, <5>2 DEF DummyTag
      <4> QED
        BY <4>2, <4>3
    <3>6. def # << >>
      <4>1. Len(def) > 0
        BY <3>1, <3>2, <3>4
      <4> QED
        BY <4>1
    <3> QED
      BY <3>4, <3>5, <3>6 DEF T, SortDefinition, w
  <2> QED
    BY <2>2, <2>3, <2>4 DEF w
<1>6. o = [op |-> "Sort", cols |-> << >>, limit |-> s.limit, claim |-> def, width |-> child.width]
  BY <1>5 DEF Node, Claim
<1> HIDE DEF o, def, s
<1>7. o \in Op
  BY <1>4, <1>5, <1>6 DEF Op
<1>8. CanStandOn(plan, o, ops[Len(ops)])
  BY <1>3, <1>5, <1>6 DEF StandsOn, CanStandOn
<1>9. ChainOK(plan, ops', 0) /\ ops'[Len(ops')] = o
  <2>1. ChainOK(plan, Append(ops, o), 0) /\ Append(ops, o)[Len(Append(ops, o))] = o
    BY <1>3, <1>7, <1>8, ChainAppend
  <2> QED
    BY <1>1, <2>1, Zenon
<1>10. Width(plan, i + 1) = Width(plan, i)
  <2>1. i \in Nat \ {0} /\ plan[i].op \notin Changes
    BY <1>2, <1>3, PlanFacts DEF Changes
  <2> QED
    BY <2>1, WidthStep
<1> QED
  BY <1>1, <1>2, <1>6, <1>9, <1>10, ParsedInv

LEMMA ParseFilterStep == IndInv /\ ParseFilter => IndInv'
<1> SUFFICES ASSUME IndInv, ParseFilter PROVE IndInv'
  OBVIOUS
<1> DEFINE s == Head(steps)
           o == Node("Filter", s.cols, NoLimit, Claim(child.claim), child.width)
<1>1. Step("LogicalFilter") /\ ops' = Append(ops, o)
  BY DEF ParseFilter
<1>2. PICK i \in DOMAIN plan :
        /\ s = plan[i] /\ plan[i].op = "LogicalFilter" /\ plan[i] \in PlanStep
        /\ child.width = Width(plan, i)
        /\ steps' \in Seq(PlanStep) /\ Len(steps') = Len(plan) - i
        /\ \A k \in DOMAIN steps' : steps'[k] = plan[k + i]
  BY <1>1, StepFacts
<1>3. /\ at = 0 /\ child \in Op /\ child = ops[Len(ops)]
      /\ plan \in Plans /\ ChainOK(plan, ops, 0)
  BY <1>1, StepFacts DEF IndInv, Parsed
<1>4. s.cols \in Seq(Int) /\ child.claim \in SortDefinition /\ child.width \in Nat
  BY <1>2, <1>3 DEF PlanStep, Op
<1>5. o = [op |-> "Filter", cols |-> s.cols, limit |-> NoLimit, claim |-> child.claim,
           width |-> child.width]
  BY DEF Node, Claim
<1> HIDE DEF o, s
<1>6. o \in Op
  BY <1>4, <1>5 DEF Op, NoLimit
<1>7. PrefixOf(child.claim, child.claim)
  BY <1>4 DEF PrefixOf, SortDefinition
<1>8. CanStandOn(plan, o, ops[Len(ops)])
  BY <1>3, <1>5, <1>7 DEF StandsOn, CanStandOn
<1>9. ChainOK(plan, ops', 0) /\ ops'[Len(ops')] = o
  <2>1. ChainOK(plan, Append(ops, o), 0) /\ Append(ops, o)[Len(Append(ops, o))] = o
    BY <1>3, <1>6, <1>8, ChainAppend
  <2> QED
    BY <1>1, <2>1, Zenon
<1>10. Width(plan, i + 1) = Width(plan, i)
  <2>1. i \in Nat \ {0} /\ plan[i].op \notin Changes
    BY <1>2, <1>3, PlanFacts DEF Changes
  <2> QED
    BY <2>1, WidthStep
<1> QED
  BY <1>1, <1>2, <1>5, <1>9, <1>10, ParsedInv

LEMMA ParseProjectionStep == IndInv /\ ParseProjection => IndInv'
<1> SUFFICES ASSUME IndInv, ParseProjection PROVE IndInv'
  OBVIOUS
<1> DEFINE s == Head(steps)
           c == carried(child.claim, s.cols)
           o == Node("Project", s.cols, NoLimit, c, Len(s.cols))
<1>1. Step("LogicalProject") /\ ops' = Append(ops, o)
  BY DEF ParseProjection
<1>2. PICK i \in DOMAIN plan :
        /\ s = plan[i] /\ plan[i].op = "LogicalProject" /\ plan[i] \in PlanStep
        /\ child.width = Width(plan, i)
        /\ steps' \in Seq(PlanStep) /\ Len(steps') = Len(plan) - i
        /\ \A k \in DOMAIN steps' : steps'[k] = plan[k + i]
  BY <1>1, StepFacts
<1>3. /\ at = 0 /\ child \in Op /\ child = ops[Len(ops)]
      /\ plan \in Plans /\ ChainOK(plan, ops, 0)
  BY <1>1, StepFacts DEF IndInv, Parsed
<1>4. /\ s.cols \in Seq(Int) /\ child.claim \in SortDefinition /\ Len(s.cols) \in Nat
      /\ \A k \in DOMAIN s.cols : s.cols[k] \in 0 .. child.width - 1 \/ s.cols[k] = Computed
  BY <1>2, <1>3, PlanFacts, SMTT(30) DEF PlanStep, Op
<1>5. /\ c \in SortDefinition
      /\ \A k \in DOMAIN c : c[k].col \in DummyTag .. Len(s.cols) - 1
  BY <1>4, CarriedFacts
<1>6. o = [op |-> "Project", cols |-> s.cols, limit |-> NoLimit, claim |-> c,
           width |-> Len(s.cols)]
  BY DEF Node
<1> HIDE DEF o, s
<1>7. o \in Op
  BY <1>4, <1>5, <1>6 DEF Op, NoLimit
<1>8. CanStandOn(plan, o, ops[Len(ops)])
  BY <1>3, <1>4, <1>5, <1>6 DEF StandsOn, CanStandOn
<1>9. ChainOK(plan, ops', 0) /\ ops'[Len(ops')] = o
  <2>1. ChainOK(plan, Append(ops, o), 0) /\ Append(ops, o)[Len(Append(ops, o))] = o
    BY <1>3, <1>7, <1>8, ChainAppend
  <2> QED
    BY <1>1, <2>1, Zenon
<1>10. Width(plan, i + 1) = Len(s.cols)
  <2>1. i \in Nat \ {0}
    BY <1>2, <1>3, PlanFacts
  <2> QED
    BY <1>2, <2>1, WidthStep
<1> QED
  BY <1>1, <1>2, <1>6, <1>9, <1>10, ParsedInv

LEMMA ParseAggregateStep == IndInv /\ ParseAggregate => IndInv'
<1> SUFFICES ASSUME IndInv, ParseAggregate PROVE IndInv'
  OBVIOUS
<1> DEFINE g == Head(steps).cols
           keyed == [n \in DOMAIN g |-> Ascending(g[n])]
           sort == Node("Sort", << >>, NoLimit, keyed, child.width)
           sorts == IF sortCompatible(child.claim, g) THEN << >> ELSE <<sort>>
           agg(claim) == Node("GroupByAggregate", g, NoLimit, claim, Len(g) + 1)
<1>1. /\ Step("LogicalAggregate")
      /\ ops' = ops \o sorts \o <<agg(Last(<<child>> \o sorts).claim)>>
  BY DEF ParseAggregate
<1>2. PICK i \in DOMAIN plan :
        /\ Head(steps) = plan[i] /\ plan[i].op = "LogicalAggregate" /\ plan[i] \in PlanStep
        /\ child.width = Width(plan, i)
        /\ steps' \in Seq(PlanStep) /\ Len(steps') = Len(plan) - i
        /\ \A k \in DOMAIN steps' : steps'[k] = plan[k + i]
  BY <1>1, StepFacts
<1>3. /\ at = 0 /\ child \in Op /\ child = ops[Len(ops)]
      /\ plan \in Plans /\ ChainOK(plan, ops, 0)
  BY <1>1, StepFacts DEF IndInv, Parsed
<1>4. /\ g \in Seq(Int) /\ child.claim \in SortDefinition /\ Len(g) \in Nat /\ child.width \in Nat
      /\ \A k \in DOMAIN g : g[k] \in 0 .. child.width - 1
  <2>1. /\ \A k \in DOMAIN plan[i].cols : plan[i].cols[k] \in 0 .. Width(plan, i) - 1
        /\ plan[i].cols \in Seq(Int)
    BY <1>2, <1>3, PlanFacts DEF PlanStep
  <2> QED
    BY <1>2, <1>3, <2>1 DEF Op
<1>5. g = plan[i].cols
  BY <1>2
<1> HIDE DEF g
<1>6. /\ keyed \in SortDefinition /\ Len(keyed) = Len(g) /\ DOMAIN keyed = DOMAIN g
      /\ \A k \in DOMAIN g : keyed[k].col = g[k]
  <2>1. DOMAIN g = 1 .. Len(g)
    BY <1>4
  <2>2. \A k \in DOMAIN g : Ascending(g[k]) \in [col : Int, dir : {"ASC", "DESC"}]
                            /\ Ascending(g[k]).col = g[k]
    BY <1>4 DEF Ascending
  <2>3. keyed \in [1 .. Len(g) -> [col : Int, dir : {"ASC", "DESC"}]]
    BY <2>1, <2>2
  <2> QED
    BY <1>4, <2>1, <2>2, <2>3 DEF SortDefinition
<1>7. sort = [op |-> "Sort", cols |-> << >>, limit |-> NoLimit, claim |-> keyed,
              width |-> child.width]
  BY DEF Node
<1>8. \A claim : agg(claim) = [op |-> "GroupByAggregate", cols |-> g, limit |-> NoLimit,
                               claim |-> claim, width |-> Len(g) + 1]
  BY DEF Node
<1> HIDE DEF keyed, sort, agg
<1>9. \A claim \in SortDefinition : agg(claim) \in Op
  BY <1>4, <1>8 DEF Op, NoLimit
<1>10. ASSUME NEW b \in Op, b.width = child.width, sortCompatible(b.claim, g)
       PROVE  CanStandOn(plan, agg(b.claim), b)
  <2>1. b.claim \in SortDefinition
    BY DEF Op
  <2>2. PrefixOf(b.claim, b.claim)
    BY <2>1 DEF PrefixOf, SortDefinition
  <2>3. /\ Len(g) <= Len(b.claim)
        /\ \A k \in DOMAIN g : b.claim[k].col = g[k]
    BY <1>4, <2>1, <1>10 DEF sortCompatible, SortDefinition
  <2>4. plan[i].op = "LogicalAggregate" /\ plan[i].cols = g
    BY <1>2, <1>5
  <2> QED
    BY <1>4, <1>8, <1>10, <2>2, <2>3, <2>4 DEF StandsOn, CanStandOn
<1>11. Width(plan, i + 1) = Len(g) + 1
  <2>1. i \in Nat \ {0}
    BY <1>2, <1>3, PlanFacts
  <2> QED
    BY <1>2, <1>5, <2>1, WidthStep
<1>12. ops \in Seq(Op)
  BY <1>3 DEF ChainOK
<1>13. CASE sortCompatible(child.claim, g)
  <2>1. sorts = << >>
    BY <1>13
  <2>2. Last(<<child>> \o sorts).claim = child.claim
    BY <2>1 DEF Last
  <2> DEFINE o == agg(child.claim)
  <2>3. o \in Op /\ CanStandOn(plan, o, ops[Len(ops)])
    BY <1>3, <1>4, <1>9, <1>10, <1>13
  <2>4. ops' = Append(ops, o)
    <3>1. ops' = ops \o << >> \o <<o>>
      BY <1>1, <2>1, <2>2
    <3> HIDE DEF o
    <3> QED
      BY <1>12, <2>3, <3>1
  <2> HIDE DEF o
  <2>5. ChainOK(plan, ops', 0) /\ ops'[Len(ops')] = o
    <3>1. ChainOK(plan, Append(ops, o), 0) /\ Append(ops, o)[Len(Append(ops, o))] = o
      BY <1>3, <2>3, ChainAppend
    <3> QED
      BY <2>4, <3>1, Zenon
  <2>6. o.width = Len(g) + 1
    BY <1>8 DEF o
  <2> QED
    BY <1>1, <1>2, <1>11, <2>5, <2>6, ParsedInv
<1>14. CASE ~sortCompatible(child.claim, g)
  <2>1. sorts = <<sort>>
    BY <1>14
  <2>2. sort \in Op
    BY <1>4, <1>6, <1>7 DEF Op, NoLimit
  <2>3. Last(<<child>> \o sorts).claim = sort.claim
    <3> DEFINE b == child
               t == sort
    <3>1. b \in Op /\ t \in Op
      BY <1>3, <2>2
    <3> HIDE DEF b, t
    <3>2. Len(<<b>> \o <<t>>) = 2 /\ (<<b>> \o <<t>>)[2] = t
      BY <3>1
    <3> QED
      BY <2>1, <3>2 DEF Last, b, t
  <2>4. CanStandOn(plan, sort, ops[Len(ops)])
    <3>1. \A k \in DOMAIN keyed : keyed[k].col \in DummyTag .. child.width - 1
      BY <1>4, <1>6 DEF DummyTag
    <3> QED
      BY <1>3, <1>7, <3>1 DEF StandsOn, CanStandOn
  <2>5. sortCompatible(sort.claim, g)
    BY <1>4, <1>6, <1>7 DEF sortCompatible
  <2> DEFINE o == agg(sort.claim)
             mid == Append(ops, sort)
  <2>6. sort.width = child.width /\ sort.claim \in SortDefinition
    BY <1>6, <1>7
  <2>7. o \in Op /\ CanStandOn(plan, o, sort)
    BY <1>9, <1>10, <2>2, <2>5, <2>6
  <2>8. ops' = Append(mid, o)
    <3>1. ops' = ops \o <<sort>> \o <<o>>
      BY <1>1, <2>1, <2>3
    <3> HIDE DEF o
    <3> QED
      BY <1>12, <2>2, <2>7, <3>1
  <2> HIDE DEF o, mid
  <2>9. ChainOK(plan, mid, 0) /\ mid[Len(mid)] = sort
    BY <1>3, <2>2, <2>4, ChainAppend DEF mid
  <2>10. ChainOK(plan, ops', 0) /\ ops'[Len(ops')] = o
    <3>1. ChainOK(plan, Append(mid, o), 0) /\ Append(mid, o)[Len(Append(mid, o))] = o
      BY <2>7, <2>9, ChainAppend
    <3> QED
      BY <2>8, <3>1, Zenon
  <2>11. o.width = Len(g) + 1
    BY <1>8 DEF o
  <2> QED
    BY <1>1, <1>2, <1>11, <2>10, <2>11, ParsedInv
<1> QED
  BY <1>13, <1>14

LEMMA EndParseStep == IndInv /\ EndParse => IndInv'
<1> SUFFICES ASSUME IndInv, EndParse PROVE IndInv'
  OBVIOUS
<1>1. pc = "Parse" /\ pc' = "Run" /\ UNCHANGED <<plan, input, steps, ops, at, table, order>>
  BY DEF EndParse
<1>2. TypeOK' /\ Parsed' /\ Sorted'
  BY <1>1 DEF IndInv, TypeOK, Parsed, Sorted
<1>3. RealRowsInOrder'
  BY <1>1 DEF IndInv, RealRowsInOrder, KeysLead, ClaimsAgree
<1> QED
  BY <1>1, <1>2, <1>3 DEF IndInv


-----------------------------------------------------------------------------
(* Running keeps the invariant.                                            *)

LEMMA RunFacts ==
  ASSUME IndInv, NEW op, Runs(op)
  PROVE  /\ pc = "Run" /\ at \in Nat /\ at < Len(ops) /\ ChainOK(plan, ops, at)
         /\ self \in Op /\ self.op = op /\ self = ops[at + 1]
         /\ table \in Seq(Row)
         /\ op # "SqlInput" =>
              /\ at > 0 /\ ops[at] \in Op /\ order = ops[at].claim
              /\ order \in SortDefinition
              /\ HaveWidth(table, ops[at].width)
              /\ CanStandOn(plan, self, ops[at])
<1>1. pc = "Run" /\ at < Len(ops) /\ ops[at + 1].op = op /\ self = ops[at + 1]
  BY DEF Runs, self
<1>2. TypeOK /\ ChainOK(plan, ops, at)
  BY DEF IndInv
<1>3. at \in Nat /\ table \in Seq(Row)
  BY <1>2 DEF TypeOK
<1>4. /\ Len(ops) \in Nat
      /\ \A n \in 1 .. Len(ops) : ops[n] \in Op /\ (ops[n].op # "SqlInput" <=> n # 1)
  BY <1>2, <1>3, OpFacts
<1>5. at + 1 \in 1 .. Len(ops)
  BY <1>1, <1>3, <1>4
<1>6. ASSUME op # "SqlInput"
      PROVE  /\ at > 0 /\ ops[at] \in Op /\ order = ops[at].claim
             /\ order \in SortDefinition
             /\ HaveWidth(table, ops[at].width)
             /\ CanStandOn(plan, self, ops[at])
  <2>1. at > 0 /\ at \in 1 .. Len(ops) /\ at + 1 \in 2 .. Len(ops)
    BY <1>1, <1>3, <1>4, <1>5, <1>6
  <2>2. ops[at] \in Op
    BY <1>4, <2>1
  <2>3. order = ops[at].claim /\ HaveWidth(table, ops[at].width)
    BY <1>2, <2>1 DEF TypeOK, HaveWidth
  <2>4. StandsOn(plan, ops[at + 1], ops[(at + 1) - 1], at + 1 <= at)
    BY <1>2, <2>1 DEF ChainOK
  <2>5. (at + 1) - 1 = at /\ (at + 1 <= at) = FALSE
    BY <1>3
  <2>6. StandsOn(plan, self, ops[at], FALSE)
    BY <1>1, <2>4, <2>5
  <2> QED
    BY <2>1, <2>2, <2>3, <2>6 DEF CanStandOn, Op
<1> QED
  BY <1>1, <1>2, <1>3, <1>4, <1>5, <1>6

(* What an operator leaves: a table of its width, in the order it claims.  *)
Leaves(rows, c) ==
  /\ rows \in Seq(Row) /\ HaveWidth(rows, self.width)
  /\ c \in SortDefinition /\ PrefixOf(c, self.claim)
  /\ self.op \in {"SqlInput", "Sort", "Project"} => c = self.claim

RealInOrder(rows, c, w) ==
  /\ \A k \in DOMAIN c : c[k].col \in DummyTag .. w - 1
  /\ \A m, n \in DOMAIN rows :
       m < n /\ ~rows[m].dummy /\ ~rows[n].dummy => MayPrecede(rows[m], rows[n], c)

(* What is known of the order below the operator that runs.                *)
OrderBelow(c) ==
  /\ RealInOrder(table, order, ops[at].width)
  /\ self.op = "Project" => c = carried(order, self.cols)

LEMMA RanChain ==
  ASSUME IndInv, NEW op, Runs(op), NEW rows, NEW c, Leaves(rows, c), Output(rows, c)
  PROVE  /\ ChainOK(plan, ops', at + 1) /\ Len(ops') = Len(ops) /\ Len(ops) \in Nat
         /\ ops'[at + 1].claim = c
         /\ \A n \in 1 .. Len(ops) :
              /\ ops'[n].op = ops[n].op /\ ops'[n].cols = ops[n].cols
              /\ ops'[n].width = ops[n].width
              /\ n # at + 1 => ops'[n] = ops[n]
<1>1. at \in Nat /\ at < Len(ops) /\ ChainOK(plan, ops, at) /\ self = ops[at + 1]
  BY RunFacts
<1>2. /\ c \in SortDefinition /\ PrefixOf(c, ops[at + 1].claim)
      /\ ops[at + 1].op \in {"SqlInput", "Sort", "Project"} => c = ops[at + 1].claim
  BY <1>1 DEF Leaves
<1>3. ops' = [ops EXCEPT ![at + 1].claim = c]
  BY DEF Output
<1> DEFINE t == [ops EXCEPT ![at + 1].claim = c]
<1>4. /\ ChainOK(plan, t, at + 1) /\ Len(t) = Len(ops)
      /\ t[at + 1].claim = c
      /\ \A n \in 1 .. Len(ops) :
            /\ t[n].op = ops[n].op /\ t[n].cols = ops[n].cols /\ t[n].width = ops[n].width
            /\ n # at + 1 => t[n] = ops[n]
  BY <1>1, <1>2, ChainRun
<1>5. Len(ops) \in Nat
  BY <1>1, OpFacts
<1>6. ops' = t
  BY <1>3
<1> HIDE DEF t
<1> QED
  BY <1>4, <1>5, <1>6

LEMMA AgreeBefore ==
  ASSUME IndInv, NEW op, Runs(op), op # "SqlInput",
         NEW rows, NEW c, Leaves(rows, c), Output(rows, c), KeysLead, ClaimsAgree'
  PROVE  OrderBelow(c)
<1>1. /\ at \in Nat /\ at > 0 /\ at < Len(ops) /\ self = ops[at + 1] /\ self.op = op
      /\ order = ops[at].claim
  BY RunFacts
<1>2. /\ Len(ops) \in Nat /\ ops'[at + 1].claim = c
      /\ \A n \in 1 .. Len(ops) :
              /\ ops'[n].op = ops[n].op /\ ops'[n].cols = ops[n].cols
              /\ n # at + 1 => ops'[n] = ops[n]
  BY RanChain
<1>3. at' = at + 1
  BY DEF Output
<1>4. \A n \in 2 .. at + 1 : ops'[n].op = "Project" =>
        ops'[n].claim = carried(ops'[n - 1].claim, ops'[n].cols)
  BY <1>3 DEF ClaimsAgree
<1>5. ClaimsAgree
  <2> SUFFICES ASSUME NEW n \in 2 .. at, ops[n].op = "Project"
      PROVE  ops[n].claim = carried(ops[n - 1].claim, ops[n].cols)
    BY DEF ClaimsAgree
  <2>1. /\ n \in 2 .. at + 1 /\ n \in 1 .. Len(ops) /\ n - 1 \in 1 .. Len(ops)
        /\ n # at + 1 /\ n - 1 # at + 1
    BY <1>1, <1>2
  <2>2. ops'[n] = ops[n] /\ ops'[n - 1] = ops[n - 1]
    BY <1>2, <2>1
  <2> QED
    BY <1>4, <2>1, <2>2
<1>6. self.op = "Project" => c = carried(order, self.cols)
  <2> SUFFICES ASSUME self.op = "Project" PROVE c = carried(order, self.cols)
    OBVIOUS
  <2>1. at + 1 \in 2 .. at + 1 /\ at + 1 \in 1 .. Len(ops) /\ at \in 1 .. Len(ops)
        /\ (at + 1) - 1 = at /\ at # at + 1
    BY <1>1, <1>2
  <2>2. ops'[at + 1].op = "Project" /\ ops'[at + 1].cols = self.cols /\ ops'[at] = ops[at]
    BY <1>1, <1>2, <2>1
  <2>3. ops'[at + 1].claim = carried(ops'[at].claim, ops'[at + 1].cols)
    BY <1>4, <2>1, <2>2
  <2> QED
    BY <1>1, <1>2, <2>2, <2>3
<1>7. RealInOrder(table, order, ops[at].width)
  BY <1>1, <1>5 DEF IndInv, RealRowsInOrder, RealInOrder
<1> QED
  BY <1>6, <1>7 DEF OrderBelow

LEMMA RanInv ==
  ASSUME IndInv, NEW op, Runs(op), NEW rows, NEW c, Leaves(rows, c), Output(rows, c),
         KeysLead /\ ClaimsAgree' => RealInOrder(rows, c, self.width),
         OnSort(ops, at + 1) => InOrder(rows, c),
         at > 0 /\ op = "GroupByAggregate" /\ OnSort(ops, at) =>
           OneRowPerGroup(rows, self.width - 1)
  PROVE  IndInv'
<1>1. /\ pc = "Run" /\ at \in Nat /\ at < Len(ops)
      /\ self = ops[at + 1] /\ self.op = op
  BY RunFacts
<1>2. /\ table' = rows /\ order' = c /\ at' = at + 1
      /\ UNCHANGED <<plan, input, steps, pc>>
  BY DEF Output
<1>3. /\ ChainOK(plan, ops', at + 1) /\ Len(ops') = Len(ops) /\ Len(ops) \in Nat
      /\ ops'[at + 1].claim = c
      /\ \A n \in 1 .. Len(ops) :
              /\ ops'[n].op = ops[n].op /\ ops'[n].cols = ops[n].cols
              /\ ops'[n].width = ops[n].width
              /\ n # at + 1 => ops'[n] = ops[n]
  BY RanChain
<1>4. at + 1 \in 1 .. Len(ops) /\ at + 1 \in Nat /\ at + 1 > 0
  BY <1>1, <1>3
<1>5. ops'[at + 1].op = op /\ ops'[at + 1].width = self.width
  BY <1>1, <1>3, <1>4
<1>6. TypeOK'
  <2>1. \A n \in DOMAIN ops' :
          /\ ops'[n].claim \in SortDefinition
          /\ ops'[n].op \in {"Sort", "Project"} => \A k \in DOMAIN ops'[n].claim :
               ops'[n].claim[k].col \in DummyTag .. ops'[n].width - 1
    BY <1>3, <1>4, OpFacts
  <2>2. rows \in Seq(Row) /\ \A n \in DOMAIN rows : Len(rows[n].v) = self.width
    BY DEF Leaves, HaveWidth
  <2>3. at' \in 0 .. Len(ops')
    BY <1>2, <1>3, <1>4
  <2> QED
    BY <1>1, <1>2, <1>3, <1>5, <2>1, <2>2, <2>3 DEF TypeOK
<1>7. Parsed'
  BY <1>1, <1>2 DEF IndInv, Parsed
<1>8. RealRowsInOrder'
  <2>1. KeysLead' => KeysLead
    BY <1>2 DEF KeysLead
  <2>2. ASSUME KeysLead', ClaimsAgree' PROVE RealInOrder(rows, c, self.width)
    BY <2>1, <2>2
  <2> QED
    BY <1>2, <1>5, <2>2 DEF RealRowsInOrder, RealInOrder
<1>9. Sorted'
  <2>1. ASSUME NEW n \in 1 .. Len(ops), OnSort(ops', n) PROVE OnSort(ops, n)
    <3>1. PICK m \in 1 .. n : ops'[m].op = "Sort" /\ \A h \in m + 1 .. n : ops'[h].op = "Project"
      BY <2>1 DEF OnSort
    <3>2. m \in 1 .. Len(ops) /\ \A h \in m + 1 .. n : h \in 1 .. Len(ops)
      BY <1>3
    <3>3. ops[m].op = "Sort" /\ \A h \in m + 1 .. n : ops[h].op = "Project"
      BY <1>3, <3>1, <3>2
    <3> QED
      BY <3>3 DEF OnSort
  <2>2. ASSUME OnSort(ops', at + 1) PROVE InOrder(rows, c)
    BY <1>4, <2>1, <2>2
  <2>3. ASSUME at + 1 > 1, op = "GroupByAggregate", OnSort(ops', (at + 1) - 1)
        PROVE  OneRowPerGroup(rows, self.width - 1)
    <3>1. at > 0 /\ at \in 1 .. Len(ops) /\ (at + 1) - 1 = at
      BY <1>1, <1>3, <2>3
    <3>2. OnSort(ops', at)
      BY <2>3, <3>1
    <3>3. OnSort(ops, at)
      BY <2>1, <3>1, <3>2
    <3> QED
      BY <2>3, <3>1, <3>3
  <2> QED
    BY <1>2, <1>5, <2>2, <2>3 DEF Sorted
<1>10. at' # 0 /\ pc' = "Run"
  BY <1>1, <1>2
<1> QED
  BY <1>2, <1>3, <1>6, <1>7, <1>8, <1>9, <1>10 DEF IndInv

LEMMA SqlInputStep == IndInv /\ RunSqlInput => IndInv'
<1> SUFFICES ASSUME IndInv, RunSqlInput PROVE IndInv'
  OBVIOUS
<1>1. Runs("SqlInput") /\ Output(input, self.claim)
  BY DEF RunSqlInput
<1>2. /\ at \in Nat /\ at < Len(ops) /\ self \in Op /\ self = ops[at + 1]
      /\ self.op = "SqlInput" /\ ChainOK(plan, ops, at)
  BY <1>1, RunFacts
<1>3. at = 0
  <2>1. at + 1 \in 1 .. Len(ops)
    BY <1>2, OpFacts
  <2>2. at + 1 = 1
    BY <1>2, <2>1, OpFacts
  <2> QED
    BY <1>2, <2>2
<1>4. self.claim = << >> /\ self.width = InputWidth
  BY <1>2, <1>3 DEF ChainOK
<1>5. input \in Seq(Row) /\ HaveWidth(input, InputWidth)
  BY InputsAssumption DEF IndInv, Parsed, HaveWidth
<1>6. PrefixOf(<< >>, << >>) /\ << >> \in SortDefinition
  BY DEF PrefixOf, SortDefinition
<1>7. Leaves(input, self.claim)
  BY <1>4, <1>5, <1>6 DEF Leaves
<1>8. RealInOrder(input, self.claim, self.width) /\ InOrder(input, self.claim)
  BY <1>4, NoOrder DEF RealInOrder, InOrder
<1> QED
  BY <1>1, <1>3, <1>7, <1>8, RanInv

LEMMA RunSortStep == IndInv /\ RunSort => IndInv'
<1> SUFFICES ASSUME IndInv, RunSort PROVE IndInv'
  OBVIOUS
<1> DEFINE taken(s) == IF self.limit > 0 /\ Len(s) > self.limit
                       THEN SubSeq(s, 1, self.limit) ELSE s
<1>1. Runs("Sort") /\ \E s \in Sorts(table, self.claim) : Output(taken(s), self.claim)
  BY DEF RunSort
<1>2. PICK s \in Sorts(table, self.claim) : Output(taken(s), self.claim)
  BY <1>1
<1>3. /\ self \in Op /\ self.op = "Sort" /\ table \in Seq(Row) /\ ops[at] \in Op
      /\ HaveWidth(table, ops[at].width)
      /\ CanStandOn(plan, self, ops[at])
  BY <1>1, RunFacts
<1>4. /\ self.claim \in SortDefinition /\ self.limit \in Int /\ self.width = ops[at].width
      /\ \A k \in DOMAIN self.claim : self.claim[k].col \in DummyTag .. self.width - 1
  BY <1>3 DEF Op, CanStandOn, StandsOn
<1>5. /\ s \in Seq(Row) /\ HaveWidth(s, self.width) /\ InOrder(s, self.claim)
  <2>1. PICK p \in SetToSeqs(DOMAIN table) :
          s = [n \in DOMAIN table |-> table[p[n]]] /\ InOrder(s, self.claim)
    BY DEF Sorts
  <2>2. DOMAIN table = 1 .. Len(table) /\ Len(table) \in Nat
    BY <1>3
  <2>3. Cardinality(DOMAIN table) = Len(table)
    <3> DEFINE n == Len(table)
    <3>1. 1 \in Int /\ n \in Int /\ n \in Nat
      BY <2>2
    <3> HIDE DEF n
    <3>2. Cardinality(1 .. n) = IF 1 > n THEN 0 ELSE n - 1 + 1
      BY <3>1, FS_Interval
    <3>3. Cardinality(1 .. n) = n
      BY <3>1, <3>2
    <3> QED
      BY <2>2, <3>3 DEF n
  <2>4. \A n \in DOMAIN table : p[n] \in DOMAIN table
    BY <2>1, <2>2, <2>3 DEF SetToSeqs
  <2>5. \A n \in DOMAIN table : table[n] \in Row /\ Len(table[n].v) = self.width
    BY <1>3, <1>4, ElementType DEF HaveWidth
  <2>6. \A n \in 1 .. Len(table) : s[n] \in Row /\ Len(s[n].v) = self.width
    BY <2>1, <2>2, <2>4, <2>5
  <2>7. s \in [1 .. Len(table) -> Row]
    BY <2>1, <2>2, <2>4, <2>5
  <2> QED
    BY <2>1, <2>2, <2>6, <2>7 DEF HaveWidth
<1>6. /\ taken(s) \in Seq(Row)
      /\ \A n \in DOMAIN taken(s) : n \in DOMAIN s /\ taken(s)[n] = s[n]
      /\ DOMAIN taken(s) \subseteq Int
  <2> DEFINE l == self.limit
             t == taken(s)
  <2>1. l \in Int /\ t = IF l > 0 /\ Len(s) > l THEN SubSeq(s, 1, l) ELSE s
    BY <1>4
  <2> HIDE DEF l, t
  <2>2. s \in Seq(Row) /\ Len(s) \in Nat /\ DOMAIN s = 1 .. Len(s)
    BY <1>5
  <2>3. /\ t \in Seq(Row)
        /\ \A n \in DOMAIN t : n \in DOMAIN s /\ t[n] = s[n]
        /\ DOMAIN t \subseteq Int
    <3>1. CASE l > 0 /\ Len(s) > l
      <4>1. SubSeq(s, 1, l) \in Seq(Row)
        BY <2>1, <2>2, <3>1
      <4>2. DOMAIN SubSeq(s, 1, l) = 1 .. l /\ \A n \in 1 .. l : SubSeq(s, 1, l)[n] = s[n]
        BY <2>1, <2>2, <3>1
      <4>3. \A n \in 1 .. l : n \in DOMAIN s
        BY <2>1, <2>2, <3>1
      <4>4. t = SubSeq(s, 1, l)
        BY <2>1, <3>1
      <4>5. 1 .. l \subseteq Int
        OBVIOUS
      <4> QED
        BY <4>1, <4>2, <4>3, <4>4, <4>5, Zenon
    <3>2. CASE ~(l > 0 /\ Len(s) > l)
      <4>1. t = s
        BY <2>1, <3>2
      <4> QED
        BY <2>2, <4>1
    <3> QED
      BY <3>1, <3>2
  <2> QED
    BY <2>3 DEF t
<1> HIDE DEF taken
<1>7. HaveWidth(taken(s), self.width)
  BY <1>5, <1>6 DEF HaveWidth
<1>8. InOrder(taken(s), self.claim)
  BY <1>5, <1>6 DEF InOrder
<1>9. PrefixOf(self.claim, self.claim)
  BY <1>4 DEF PrefixOf, SortDefinition
<1>10. Leaves(taken(s), self.claim)
  BY <1>3, <1>4, <1>6, <1>7, <1>9 DEF Leaves
<1>11. RealInOrder(taken(s), self.claim, self.width)
  BY <1>4, <1>8 DEF RealInOrder, InOrder
<1> QED
  BY <1>1, <1>2, <1>8, <1>10, <1>11, RanInv

LEMMA RunFilterStep == IndInv /\ RunFilter => IndInv'
<1> SUFFICES ASSUME IndInv, RunFilter PROVE IndInv'
  OBVIOUS
<1> DEFINE row(n) == IF ~table[n].dummy /\ matches(table[n], self.cols)
                     THEN table[n] ELSE Zero(self.width)
           rows == [n \in DOMAIN table |-> row(n)]
<1>1. Runs("Filter") /\ Output(rows, order)
  BY DEF RunFilter
<1>2. /\ at \in Nat /\ self \in Op /\ self.op = "Filter" /\ self = ops[at + 1]
      /\ table \in Seq(Row) /\ ops[at] \in Op
      /\ order = ops[at].claim /\ order \in SortDefinition
      /\ HaveWidth(table, ops[at].width)
      /\ CanStandOn(plan, self, ops[at])
  BY <1>1, RunFacts
<1>3. self.width = ops[at].width /\ self.width \in Nat /\ PrefixOf(order, self.claim)
  BY <1>2 DEF Op, CanStandOn, StandsOn
<1>4. Zero(self.width) \in Row /\ Zero(self.width).dummy /\ Len(Zero(self.width).v) = self.width
  BY <1>3, ZeroRow
<1>5. ASSUME NEW n \in DOMAIN table
      PROVE  /\ row(n) \in Row /\ Len(row(n).v) = self.width
             /\ ~row(n).dummy => row(n) = table[n]
  <2>1. table[n] \in Row /\ Len(table[n].v) = self.width
    BY <1>2, <1>3, ElementType DEF HaveWidth
  <2> QED
    BY <1>4, <2>1
<1> HIDE DEF row
<1>6. rows \in Seq(Row) /\ DOMAIN rows = DOMAIN table
  <2>1. DOMAIN table = 1 .. Len(table) /\ Len(table) \in Nat
    BY <1>2
  <2>2. rows \in [1 .. Len(table) -> Row]
    BY <1>5, <2>1
  <2> QED
    BY <2>1, <2>2
<1>7. \A n \in DOMAIN rows : rows[n] = row(n)
  OBVIOUS
<1> HIDE DEF rows
<1>8. HaveWidth(rows, self.width)
  BY <1>5, <1>6, <1>7 DEF HaveWidth
<1>9. Leaves(rows, order)
  BY <1>2, <1>3, <1>6, <1>8 DEF Leaves
<1>10. ASSUME KeysLead, ClaimsAgree' PROVE RealInOrder(rows, order, self.width)
  <2>1. OrderBelow(order)
    BY <1>1, <1>9, <1>10, AgreeBefore
  <2> QED
    BY <2>1, <1>3, <1>5, <1>6, <1>7 DEF OrderBelow, RealInOrder
<1>11. ~OnSort(ops, at + 1)
  <2> SUFFICES ASSUME OnSort(ops, at + 1) PROVE FALSE
    OBVIOUS
  <2>1. PICK m \in 1 .. at + 1 :
          ops[m].op = "Sort" /\ \A h \in m + 1 .. at + 1 : ops[h].op = "Project"
    BY DEF OnSort
  <2>2. m = at + 1 \/ at + 1 \in m + 1 .. at + 1
    BY <1>2
  <2> QED
    BY <1>2, <2>1, <2>2
<1> QED
  BY <1>1, <1>9, <1>10, <1>11, RanInv

(* A projected row has the cells of the row below under their new columns. *)
Projected(row, cols) == [v |-> [k \in DOMAIN cols |-> projected(row, cols[k])],
                         dummy |-> row.dummy]

ColumnsOf(cols, w) == \A k \in DOMAIN cols : cols[k] \in 0 .. w - 1 \/ cols[k] = Computed

LEMMA ProjectedFacts ==
  ASSUME NEW row \in Row, NEW cols \in Seq(Int), ColumnsOf(cols, Len(row.v))
  PROVE  /\ Projected(row, cols) \in Row /\ Len(Projected(row, cols).v) = Len(cols)
         /\ \A c \in DummyTag .. Len(row.v) - 1 :
              Mapped(cols, c) => Cell(Projected(row, cols), Mapping(cols, c)) = Cell(row, c)
<1> DEFINE r == Projected(row, cols)
           v == [k \in DOMAIN cols |-> projected(row, cols[k])]
<1>1. ASSUME NEW k \in DOMAIN cols PROVE projected(row, cols[k]) \in Nat
  <2>1. CASE cols[k] = Computed
    BY <2>1 DEF projected
  <2>2. CASE cols[k] # Computed
    <3>1. cols[k] \in DummyTag .. Len(row.v) - 1
      BY <2>2 DEF ColumnsOf, DummyTag
    <3> QED
      BY <2>2, <3>1, CellType DEF projected
  <2> QED
    BY <2>1, <2>2
<1>2. DOMAIN cols = 1 .. Len(cols) /\ Len(cols) \in Nat
  OBVIOUS
<1>3. v \in Seq(Nat) /\ Len(v) = Len(cols)
  <2>1. v \in [1 .. Len(cols) -> Nat]
    BY <1>1, <1>2
  <2> QED
    BY <1>2, <2>1
<1>4. \A k \in DOMAIN cols : v[k] = projected(row, cols[k])
  OBVIOUS
<1>5. r = [v |-> v, dummy |-> row.dummy]
  BY DEF Projected
<1> HIDE DEF v, r
<1>6. r \in Row /\ r.v = v /\ r.dummy = row.dummy
  BY <1>3, <1>5 DEF Row
<1>7. ASSUME NEW c \in DummyTag .. Len(row.v) - 1, Mapped(cols, c)
      PROVE  Cell(r, Mapping(cols, c)) = Cell(row, c)
  <2>1. CASE c = DummyTag
    BY <1>6, <1>7, <2>1, MappingFacts DEF Cell
  <2>2. CASE c # DummyTag
    <3> DEFINE k == Mapping(cols, c)
    <3>1. k \in DummyTag .. Len(cols) - 1 /\ k + 1 \in DOMAIN cols /\ cols[k + 1] = c
      BY <1>7, <2>2, MappingFacts
    <3> HIDE DEF k
    <3>2. k # DummyTag /\ c # Computed
      BY <1>2, <1>7, <3>1 DEF DummyTag, Computed
    <3>3. Cell(r, k) = v[k + 1]
      BY <1>6, <3>2 DEF Cell
    <3>4. v[k + 1] = Cell(row, c)
      BY <1>4, <3>1, <3>2 DEF projected
    <3> QED
      BY <3>3, <3>4 DEF k
  <2> QED
    BY <2>1, <2>2
<1> QED
  BY <1>3, <1>6, <1>7 DEF r

LEMMA ProjectedInOrder ==
  ASSUME NEW w, NEW a \in Row, NEW b \in Row, Len(a.v) = w, Len(b.v) = w,
         NEW cols \in Seq(Int), ColumnsOf(cols, w),
         NEW d \in SortDefinition, \A k \in DOMAIN d : d[k].col \in DummyTag .. w - 1,
         MayPrecede(a, b, d)
  PROVE  MayPrecede(Projected(a, cols), Projected(b, cols), carried(d, cols))
<1> DEFINE e == carried(d, cols)
           x == Projected(a, cols)
           y == Projected(b, cols)
<1>1. /\ e \in SortDefinition /\ Len(e) <= Len(d)
      /\ \A k \in DOMAIN e : /\ Mapped(cols, d[k].col) /\ e[k].dir = d[k].dir
                             /\ e[k].col = Mapping(cols, d[k].col)
  BY CarriedFacts
<1>2. \A c \in DummyTag .. w - 1 : Mapped(cols, c) =>
        Cell(x, Mapping(cols, c)) = Cell(a, c) /\ Cell(y, Mapping(cols, c)) = Cell(b, c)
  BY ProjectedFacts
<1> HIDE DEF e, x, y
<1>3. ASSUME NEW k \in DOMAIN e
      PROVE  /\ e[k].dir = d[k].dir
             /\ Cell(x, e[k].col) = Cell(a, d[k].col)
             /\ Cell(y, e[k].col) = Cell(b, d[k].col)
  <2>1. k \in DOMAIN d
    BY <1>1 DEF SortDefinition
  <2> QED
    BY <1>1, <1>2, <2>1
<1>4. MayPrecede(x, y, e)
  BY <1>1, <1>3, StillPrecedes
<1> QED
  BY <1>4 DEF e, x, y

LEMMA RunProjectStep == IndInv /\ RunProject => IndInv'
<1> SUFFICES ASSUME IndInv, RunProject PROVE IndInv'
  OBVIOUS
<1> DEFINE rows == [n \in DOMAIN table |-> Projected(table[n], self.cols)]
           w == ops[at].width
           b == ops[at]
<1>1. Runs("Project") /\ Output(rows, self.claim)
  BY DEF RunProject, Projected
<1>2. /\ at \in Nat /\ at > 0 /\ at < Len(ops) /\ self \in Op /\ self.op = "Project"
      /\ self = ops[at + 1] /\ ChainOK(plan, ops, at)
      /\ table \in Seq(Row) /\ b \in Op
      /\ order = b.claim /\ order \in SortDefinition
      /\ HaveWidth(table, w)
      /\ CanStandOn(plan, self, b)
  BY <1>1, RunFacts
<1>3. /\ self.cols \in Seq(Int) /\ self.width = Len(self.cols) /\ ColumnsOf(self.cols, w)
      /\ self.claim \in SortDefinition
      /\ \A k \in DOMAIN self.claim : self.claim[k].col \in DummyTag .. self.width - 1
      /\ b.op \in {"Sort", "Project"} => self.claim = carried(b.claim, self.cols)
  BY <1>2 DEF Op, CanStandOn, StandsOn, ColumnsOf
<1>4. ASSUME NEW n \in DOMAIN table
      PROVE  table[n] \in Row /\ Len(table[n].v) = w
  BY <1>2, ElementType DEF HaveWidth
<1> HIDE DEF w, b
<1>5. ASSUME NEW n \in DOMAIN table
      PROVE  /\ Projected(table[n], self.cols) \in Row
             /\ Len(Projected(table[n], self.cols).v) = self.width
             /\ Projected(table[n], self.cols).dummy = table[n].dummy
  <2>1. Projected(table[n], self.cols).dummy = table[n].dummy
    BY DEF Projected
  <2> QED
    BY <1>3, <1>4, <2>1, ProjectedFacts
<1>6. rows \in Seq(Row) /\ DOMAIN rows = DOMAIN table
  <2>1. DOMAIN table = 1 .. Len(table) /\ Len(table) \in Nat
    BY <1>2
  <2>2. rows \in [1 .. Len(table) -> Row]
    BY <1>5, <2>1
  <2> QED
    BY <2>1, <2>2
<1>7. \A n \in DOMAIN rows : rows[n] = Projected(table[n], self.cols)
  OBVIOUS
<1> HIDE DEF rows
<1>8. HaveWidth(rows, self.width)
  BY <1>5, <1>6, <1>7 DEF HaveWidth
<1>9. PrefixOf(self.claim, self.claim)
  BY <1>3 DEF PrefixOf, SortDefinition
<1>10. Leaves(rows, self.claim)
  BY <1>3, <1>6, <1>8, <1>9 DEF Leaves
<1>11. ASSUME self.claim = carried(order, self.cols),
              \A k \in DOMAIN order : order[k].col \in DummyTag .. w - 1,
              NEW m \in DOMAIN table, NEW n \in DOMAIN table,
              MayPrecede(table[m], table[n], order)
       PROVE  MayPrecede(rows[m], rows[n], self.claim)
  <2>1. MayPrecede(Projected(table[m], self.cols), Projected(table[n], self.cols),
                   carried(order, self.cols))
    BY <1>2, <1>3, <1>4, <1>11, ProjectedInOrder
  <2> QED
    BY <1>6, <1>7, <1>11, <2>1
<1>12. ASSUME KeysLead, ClaimsAgree' PROVE RealInOrder(rows, self.claim, self.width)
  <2>1. RealInOrder(table, order, w) /\ self.claim = carried(order, self.cols)
    BY <1>1, <1>2, <1>10, <1>12, AgreeBefore DEF OrderBelow, w
  <2> QED
    BY <1>3, <1>5, <1>6, <1>7, <1>11, <2>1 DEF RealInOrder
<1>13. ASSUME OnSort(ops, at + 1) PROVE InOrder(rows, self.claim)
  <2>1. PICK m \in 1 .. at + 1 :
          ops[m].op = "Sort" /\ \A h \in m + 1 .. at + 1 : ops[h].op = "Project"
    BY <1>13 DEF OnSort
  <2>2. m # at + 1
    BY <1>2, <2>1
  <2>3. m \in 1 .. at /\ \A h \in m + 1 .. at : ops[h].op = "Project"
    BY <1>2, <2>1, <2>2
  <2>4. InOrder(table, order)
    BY <1>2, <2>1, <2>3 DEF OnSort, IndInv, Sorted
  <2>5. b.op \in {"Sort", "Project"}
    <3>1. m = at \/ at \in m + 1 .. at
      BY <1>2, <2>3
    <3> QED
      BY <2>1, <2>3, <3>1 DEF b
  <2>6. \A k \in DOMAIN order : order[k].col \in DummyTag .. w - 1
    <3>1. at \in DOMAIN ops
      BY <1>2, OpFacts
    <3> QED
      BY <1>2, <2>5, <3>1, OpFacts DEF b, w
  <2>7. self.claim = carried(order, self.cols)
    BY <1>2, <1>3, <2>5
  <2> QED
    BY <1>6, <1>11, <2>4, <2>6, <2>7 DEF InOrder
<1> QED
  BY <1>1, <1>10, <1>12, <1>13, RanInv

LEMMA RunGroupByStep == IndInv /\ RunGroupBy => IndInv'
<1> SUFFICES ASSUME IndInv, RunGroupBy PROVE IndInv'
  OBVIOUS
<1> DEFINE cols == self.cols
           L == Len(cols)
           rows == Grouped(table, cols)
           c == SubSeq(order, 1, L)
           b == ops[at]
           w == b.width
<1>1. Runs("GroupByAggregate") /\ Output(rows, c) /\ Len(order) >= L
  BY DEF RunGroupBy
<1>2. /\ at \in Nat /\ at > 0 /\ at < Len(ops) /\ self \in Op /\ self.op = "GroupByAggregate"
      /\ self = ops[at + 1] /\ ChainOK(plan, ops, at)
      /\ table \in Seq(Row) /\ b \in Op
      /\ order = b.claim /\ order \in SortDefinition
      /\ HaveWidth(table, w)
      /\ CanStandOn(plan, self, b)
  BY <1>1, RunFacts
<1>3. /\ cols \in Seq(Int) /\ L \in Nat /\ DOMAIN cols = 1 .. L
      /\ self.claim \in SortDefinition
  BY <1>2 DEF Op
<1>4. /\ self.width = L + 1
      /\ \A k \in DOMAIN cols : cols[k] \in 0 .. w - 1
      /\ \E i \in DOMAIN plan : plan[i].op = "LogicalAggregate" /\ plan[i].cols = cols
      /\ \A k \in DOMAIN cols \cap DOMAIN order : order[k].col = cols[k]
      /\ PrefixOf(order, self.claim)
  BY <1>2 DEF CanStandOn, StandsOn
<1> HIDE DEF cols, L, rows, w, b
<1>5. /\ rows \in Seq(Row) /\ Len(rows) = Len(table) /\ HaveWidth(rows, L + 1)
      /\ DOMAIN rows = DOMAIN table
  <2>1. /\ rows \in Seq(Row) /\ Len(rows) = Len(table) /\ HaveWidth(rows, L + 1)
    BY <1>2, <1>3, <1>4, GroupedFacts DEF rows, L
  <2> QED
    BY <1>2, <2>1
<1>6. ASSUME NEW m \in DOMAIN table, NEW n \in DOMAIN table, m < n,
             ~rows[m].dummy, ~rows[n].dummy
      PROVE  /\ \E i, j \in DOMAIN table :
                  /\ i < j /\ ~table[i].dummy /\ ~table[j].dummy
                  /\ \A k \in DOMAIN cols : /\ rows[m].v[k] = Cell(table[i], cols[k])
                                            /\ rows[n].v[k] = Cell(table[j], cols[k])
             /\ \E h \in DOMAIN table : m <= h /\ h <= n /\
                  Keys(table[h], cols) # Keys(table[m], cols)
  BY <1>2, <1>3, <1>4, <1>6, GroupedInOrder DEF rows
<1>7. /\ c \in SortDefinition /\ Len(c) = L /\ DOMAIN c = 1 .. L
      /\ \A k \in 1 .. L : c[k] = order[k] /\ k \in DOMAIN order /\ order[k].col = cols[k]
  <2>1. /\ DOMAIN order = 1 .. Len(order) /\ Len(order) \in Nat
        /\ order \in Seq([col : Int, dir : {"ASC", "DESC"}])
    BY <1>2 DEF SortDefinition
  <2> DEFINE T == [col : Int, dir : {"ASC", "DESC"}]
  <2>2. order \in Seq(T)
    BY <2>1
  <2> HIDE DEF T
  <2>3. SubSeq(order, 1, L) \in Seq(T) /\ Len(SubSeq(order, 1, L)) = L
        /\ \A k \in 1 .. L : SubSeq(order, 1, L)[k] = order[k]
    BY <1>1, <1>3, <2>1, <2>2
  <2>4. \A k \in 1 .. L : k \in DOMAIN order
    BY <1>1, <1>3, <2>1
  <2>5. DOMAIN SubSeq(order, 1, L) = 1 .. L
    BY <2>3
  <2> QED
    BY <1>3, <1>4, <2>3, <2>4, <2>5 DEF T, SortDefinition
<1> HIDE DEF c
<1>8. PrefixOf(c, self.claim)
  <2>1. Len(order) <= Len(self.claim) /\ \A k \in DOMAIN order : order[k] = self.claim[k]
    BY <1>4 DEF PrefixOf
  <2>2. Len(order) \in Nat /\ Len(self.claim) \in Nat
    BY <1>2, <1>3 DEF SortDefinition
  <2> QED
    BY <1>1, <1>3, <1>7, <2>1, <2>2 DEF PrefixOf
<1>9. Leaves(rows, c)
  BY <1>2, <1>4, <1>5, <1>7, <1>8 DEF Leaves
<1>10. ASSUME KeysLead, ClaimsAgree' PROVE RealInOrder(rows, c, self.width)
  <2>1. RealInOrder(table, order, w)
    BY <1>1, <1>2, <1>9, <1>10, AgreeBefore DEF OrderBelow, w, b
  <2>2. \A k \in 1 .. L : c[k].col = k - 1
    <3>1. cols = [k \in DOMAIN cols |-> k - 1]
      BY <1>4, <1>10 DEF KeysLead
    <3>2. \A k \in DOMAIN cols : cols[k] = k - 1
      BY <3>1
    <3> QED
      BY <1>3, <1>7, <3>2
  <2>3. \A k \in DOMAIN c : c[k].col \in DummyTag .. self.width - 1
    BY <1>3, <1>4, <1>7, <2>2 DEF DummyTag
  <2>4. ASSUME NEW m \in DOMAIN rows, NEW n \in DOMAIN rows, m < n,
               ~rows[m].dummy, ~rows[n].dummy
        PROVE  MayPrecede(rows[m], rows[n], c)
    <3>1. PICK i, j \in DOMAIN table :
                  /\ i < j /\ ~table[i].dummy /\ ~table[j].dummy
                  /\ \A k \in DOMAIN cols : /\ rows[m].v[k] = Cell(table[i], cols[k])
                                            /\ rows[n].v[k] = Cell(table[j], cols[k])
      <4>1. m \in DOMAIN table /\ n \in DOMAIN table
        BY <1>5
      <4> QED
        BY ONLY <4>1, <1>6, <2>4
    <3>2. MayPrecede(table[i], table[j], order)
      BY <2>1, <3>1 DEF RealInOrder
    <3>3. ASSUME NEW k \in DOMAIN c
          PROVE  /\ c[k].dir = order[k].dir
                 /\ Cell(rows[m], c[k].col) = Cell(table[i], order[k].col)
                 /\ Cell(rows[n], c[k].col) = Cell(table[j], order[k].col)
      <4>1. k \in 1 .. L /\ k \in DOMAIN cols /\ c[k] = order[k] /\ order[k].col = cols[k]
        BY <1>3, <1>7
      <4>2. \A r : Cell(r, c[k].col) = r.v[k]
        <5>1. c[k].col = k - 1 /\ k - 1 # DummyTag /\ (k - 1) + 1 = k
          BY <1>3, <2>2, <4>1 DEF DummyTag
        <5> QED
          BY <5>1 DEF Cell
      <4> QED
        BY <3>1, <4>1, <4>2
    <3>4. Len(c) <= Len(order)
      BY <1>1, <1>7
    <3> DEFINE x == table[i]
               y == table[j]
               r == rows[m]
               s == rows[n]
    <3>5. /\ MayPrecede(x, y, order)
          /\ \A k \in DOMAIN c : /\ c[k].dir = order[k].dir
                                  /\ Cell(r, c[k].col) = Cell(x, order[k].col)
                                  /\ Cell(s, c[k].col) = Cell(y, order[k].col)
      BY <3>2, <3>3
    <3> HIDE DEF x, y, r, s
    <3>6. MayPrecede(r, s, c)
      BY <1>2, <1>7, <3>4, <3>5, StillPrecedes
    <3> QED
      BY <3>6 DEF r, s
  <2> QED
    BY <2>3, <2>4 DEF RealInOrder
<1>11. ~OnSort(ops, at + 1)
  <2> SUFFICES ASSUME OnSort(ops, at + 1) PROVE FALSE
    OBVIOUS
  <2>1. PICK m \in 1 .. at + 1 :
          ops[m].op = "Sort" /\ \A h \in m + 1 .. at + 1 : ops[h].op = "Project"
    BY DEF OnSort
  <2>2. m = at + 1 \/ at + 1 \in m + 1 .. at + 1
    BY <1>2
  <2> QED
    BY <1>2, <2>1, <2>2
<1>12. ASSUME OnSort(ops, at) PROVE OneRowPerGroup(rows, L)
  <2>1. InOrder(table, order)
    BY <1>2, <1>12 DEF IndInv, Sorted
  <2>2. \A k \in DOMAIN order : order[k].col \in DummyTag .. w - 1
    <3>1. PICK m \in 1 .. at :
            ops[m].op = "Sort" /\ \A h \in m + 1 .. at : ops[h].op = "Project"
      BY <1>12 DEF OnSort
    <3>2. m = at \/ at \in m + 1 .. at
      BY <1>2
    <3>3. b.op \in {"Sort", "Project"}
      BY <3>1, <3>2 DEF b
    <3>4. at \in DOMAIN ops
      BY <1>2, OpFacts
    <3> QED
      BY <1>2, <3>3, <3>4, OpFacts DEF b, w
  <2>3. ASSUME NEW m \in DOMAIN rows, NEW n \in DOMAIN rows, m < n,
               ~rows[m].dummy, ~rows[n].dummy,
               \A k \in 1 .. L : rows[m].v[k] = rows[n].v[k]
        PROVE  FALSE
    <3>0. \A x \in DOMAIN table : ~rows[x].dummy =>
            \A k \in DOMAIN cols : rows[x].v[k] = Cell(table[x], cols[k])
      BY <1>2, <1>3, <1>4, GroupedFacts DEF rows
    <3>1. \A x \in {m, n} : \A k \in DOMAIN cols : rows[x].v[k] = Cell(table[x], cols[k])
      BY <1>5, <2>3, <3>0
    <3>2. PICK h \in DOMAIN table : m <= h /\ h <= n /\
                  Keys(table[h], cols) # Keys(table[m], cols)
      BY <1>5, <1>6, <2>3
    <3>3. \A k \in 1 .. L : Cell(table[m], order[k].col) = Cell(table[n], order[k].col)
      BY <1>3, <1>7, <2>3, <3>1
    <3>4. L \in 0 .. Len(order)
      BY <1>1, <1>2, <1>3 DEF SortDefinition
    <3>5. \A k \in 1 .. L : Cell(table[h], order[k].col) = Cell(table[m], order[k].col)
      <4>1. m \in DOMAIN table /\ n \in DOMAIN table /\ HaveWidth(table, w)
            /\ table \in Seq(Row) /\ order \in SortDefinition
        BY <1>2, <1>5
      <4>2. h \in DOMAIN table /\ m <= h /\ h <= n
        BY <3>2
      <4> HIDE DEF L
      <4> QED
        BY ONLY <4>1, <4>2, <2>1, <2>2, <3>3, <3>4, SortedBetween
    <3>6. \A k \in DOMAIN cols : Cell(table[h], cols[k]) = Cell(table[m], cols[k])
      BY <1>3, <1>7, <3>5
    <3>7. Keys(table[h], cols) = Keys(table[m], cols)
      BY <3>6 DEF Keys
    <3> QED
      BY <3>2, <3>7
  <2>4. DOMAIN rows = 1 .. Len(rows)
    BY <1>5
  <2> QED
    BY <2>3, <2>4 DEF OneRowPerGroup
<1>13. self.width - 1 = L
  BY <1>3, <1>4
<1> QED
  BY <1>1, <1>9, <1>10, <1>11, <1>12, <1>13, RanInv

(* An aggregate on fresh sorts is never told of more columns than it gets. *)
LEMMA RunPastOrderStep == IndInv /\ RunPastOrder => IndInv'
<1> SUFFICES ASSUME IndInv, RunPastOrder PROVE IndInv'
  OBVIOUS
<1>1. /\ Runs("GroupByAggregate") /\ Len(order) < Len(self.cols) /\ pc' = "Undefined"
      /\ UNCHANGED <<plan, input, steps, ops, at, table, order>>
  BY DEF RunPastOrder
<1>2. /\ at \in Nat /\ at > 0 /\ at < Len(ops) /\ self \in Op /\ self.op = "GroupByAggregate"
      /\ self = ops[at + 1] /\ pc = "Run" /\ ChainOK(plan, ops, at)
      /\ order = ops[at].claim /\ order \in SortDefinition
      /\ CanStandOn(plan, self, ops[at])
  BY <1>1, RunFacts
<1>3. ~SortedAfresh
  <2> SUFFICES ASSUME SortedAfresh PROVE FALSE
    OBVIOUS
  <2>1. at + 1 \in DOMAIN ops /\ (at + 1) - 1 = at
    BY <1>2, OpFacts
  <2>2. PICK m \in 1 .. at : ops[m].op = "Sort" /\ \A h \in m + 1 .. at : ops[h].op = "Project"
    BY <1>2, <2>1 DEF SortedAfresh
  <2>3. m = at \/ at \in m + 1 .. at
    BY <1>2
  <2>4. ops[at].op \in {"Sort", "Project"}
    BY <2>2, <2>3
  <2>5. Len(self.cols) <= Len(order)
    BY <1>2, <2>4 DEF CanStandOn, StandsOn
  <2>6. Len(self.cols) \in Nat /\ Len(order) \in Nat
    BY <1>2 DEF Op, SortDefinition
  <2> QED
    BY <1>1, <2>5, <2>6
<1>4. ~SortedAfresh'
  BY <1>1, <1>3 DEF SortedAfresh
<1>5. TypeOK' /\ Parsed' /\ Sorted'
  BY <1>1, <1>2 DEF IndInv, TypeOK, Parsed, Sorted
<1>6. RealRowsInOrder'
  BY <1>1 DEF IndInv, RealRowsInOrder, KeysLead, ClaimsAgree
<1> QED
  BY <1>1, <1>4, <1>5, <1>6 DEF IndInv

LEMMA EndRunStep == IndInv /\ EndRun => IndInv'
<1> SUFFICES ASSUME IndInv, EndRun PROVE IndInv'
  OBVIOUS
<1>1. /\ pc = "Run" /\ at = Len(ops) /\ pc' = "Done"
      /\ UNCHANGED <<plan, input, steps, ops, at, table, order>>
  BY DEF EndRun
<1>2. TypeOK' /\ Parsed' /\ Sorted'
  BY <1>1 DEF IndInv, TypeOK, Parsed, Sorted
<1>3. RealRowsInOrder'
  BY <1>1 DEF IndInv, RealRowsInOrder, KeysLead, ClaimsAgree
<1> QED
  BY <1>1, <1>2, <1>3 DEF IndInv

LEMMA StutterStep == IndInv /\ UNCHANGED vars => IndInv'
<1> SUFFICES ASSUME IndInv, UNCHANGED vars PROVE IndInv'
  OBVIOUS
<1>1. UNCHANGED <<plan, input, steps, ops, at, table, order, pc>>
  BY DEF vars
<1>2. TypeOK' /\ Parsed' /\ Sorted'
  BY <1>1 DEF IndInv, TypeOK, Parsed, Sorted
<1>3. RealRowsInOrder' /\ (SortedAfresh' <=> SortedAfresh)
  BY <1>1 DEF IndInv, RealRowsInOrder, KeysLead, ClaimsAgree, SortedAfresh
<1> QED
  BY <1>1, <1>2, <1>3 DEF IndInv

-----------------------------------------------------------------------------
(* The invariant holds of every plan and every table.                      *)
THEOREM InvHolds == Spec => []IndInv
<1>1. Init => IndInv
  BY InitInv
<1>2. IndInv /\ [Next]_vars => IndInv'
  <2> SUFFICES ASSUME IndInv, [Next]_vars PROVE IndInv'
    OBVIOUS
  <2>1. CASE ParseSort
    BY <2>1, ParseSortStep
  <2>2. CASE ParseFilter
    BY <2>2, ParseFilterStep
  <2>3. CASE ParseProjection
    BY <2>3, ParseProjectionStep
  <2>4. CASE ParseAggregate
    BY <2>4, ParseAggregateStep
  <2>5. CASE EndParse
    BY <2>5, EndParseStep
  <2>6. CASE RunSqlInput
    BY <2>6, SqlInputStep
  <2>7. CASE RunSort
    BY <2>7, RunSortStep
  <2>8. CASE RunFilter
    BY <2>8, RunFilterStep
  <2>9. CASE RunProject
    BY <2>9, RunProjectStep
  <2>10. CASE RunGroupBy
    BY <2>10, RunGroupByStep
  <2>11. CASE RunPastOrder
    BY <2>11, RunPastOrderStep
  <2>12. CASE EndRun
    BY <2>12, EndRunStep
  <2>13. CASE Terminated \/ UNCHANGED vars
    BY <2>13, StutterStep DEF Terminated
  <2> QED
    BY <2>1, <2>2, <2>3, <2>4, <2>5, <2>6, <2>7, <2>8, <2>9, <2>10, <2>11, <2>12, <2>13
       DEF Next
<1> QED
  BY <1>1, <1>2, PTL DEF Spec

(* Sorts and projections claim columns they have, and the rows of a table  *)
(* are as wide as its operator says, whatever the plan and the input.      *)
THEOREM TypeCorrect == Spec => []TypeOK
<1>1. IndInv => TypeOK
  BY DEF IndInv
<1> QED
  BY <1>1, InvHolds, PTL

(* The real rows of every table are in the order the table claims, as long *)
(* as aggregates group by leading columns and no projection keeps a claim  *)
(* that an aggregate below it gave up.                                     *)
THEOREM RealRowsInOrderHolds == Spec => []RealRowsInOrder
<1>1. IndInv => RealRowsInOrder
  BY DEF IndInv
<1> QED
  BY <1>1, InvHolds, PTL

(* group_by_aggregate.cpp reads its input's order for as many columns as it*)
(* groups by: on fresh sorts never past the end.                           *)
THEOREM FreshSortsAreRead == Spec => [](SortedAfresh => pc # "Undefined")
<1>1. IndInv => (SortedAfresh => pc # "Undefined")
  BY DEF IndInv
<1> QED
  BY <1>1, InvHolds, PTL

(* What plan_parser.cpp inserts sorts for: an aggregate on a fresh sort    *)
(* gives every group one row.  Other plans violate this.                   *)
THEOREM FreshSortsGroup == Spec => [](SortedAfresh => GroupsHaveOneRow)
<1>1. IndInv => (SortedAfresh => GroupsHaveOneRow)
  <2> SUFFICES ASSUME IndInv, SortedAfresh, pc = "Done",
                      ops[Len(ops)].op = "GroupByAggregate"
      PROVE  OneRowPerGroup(table, ops[Len(ops)].width - 1)
    BY DEF GroupsHaveOneRow, OneRowPerGroup
  <2>1. at = Len(ops) /\ ChainOK(plan, ops, at) /\ at \in Nat
    BY DEF IndInv, TypeOK
  <2>2. at \in DOMAIN ops /\ at \in 1 .. Len(ops) /\ at > 1
    <3>1. Len(ops) \in Nat \ {0} /\ DOMAIN ops = 1 .. Len(ops) /\ at \in 1 .. Len(ops)
      BY <2>1, OpFacts
    <3>2. at # 1
      BY <2>1 DEF ChainOK
    <3> QED
      BY <2>1, <3>1, <3>2
  <2>3. OnSort(ops, at - 1)
    BY <2>1, <2>2 DEF SortedAfresh, OnSort
  <2> QED
    BY <2>1, <2>2, <2>3 DEF IndInv, Sorted
<1> QED
  BY <1>1, InvHolds, PTL

-----------------------------------------------------------------------------
(* SQL's answer.                                                           *)

LEMMA AnswersFacts ==
  ASSUME NEW p, Len(p) \in Nat, NEW rows
  PROVE  /\ Answers(p, rows)[0] = RealOnly(rows)
         /\ \A n \in 1 .. Len(p) :
              Answers(p, rows)[n] = SqlStep(p[n], Answers(p, rows)[n - 1])
<1> DEFINE Rule(f, l) == [n \in 0 .. l |->
                           IF n = 0 THEN RealOnly(rows) ELSE SqlStep(p[n], f[n - 1])]
           Good == { l \in Nat : \E f : f = Rule(f, l) }
<1>1. 0 \in Good
  <2> DEFINE f == [n \in 0 .. 0 |-> RealOnly(rows)]
  <2>1. f = Rule(f, 0)
    OBVIOUS
  <2> QED
    BY <2>1
<1>2. ASSUME NEW l \in Nat, l \in Good PROVE l + 1 \in Good
  <2>1. PICK f : f = Rule(f, l)
    BY <1>2
  <2> DEFINE g == [n \in 0 .. l + 1 |-> IF n = l + 1 THEN SqlStep(p[l + 1], f[l]) ELSE f[n]]
  <2>2. ASSUME NEW n \in 0 .. l + 1
        PROVE  g[n] = IF n = 0 THEN RealOnly(rows) ELSE SqlStep(p[n], g[n - 1])
    <3>1. CASE n = l + 1
      <4>1. n - 1 = l /\ l \in 0 .. l + 1 /\ l # l + 1 /\ n # 0
        BY <3>1
      <4>2. g[n] = SqlStep(p[n], f[l]) /\ g[l] = f[l]
        BY <3>1, <4>1
      <4> QED
        BY <4>1, <4>2
    <3>2. CASE n # l + 1
      <4>1. n \in 0 .. l
        BY <3>2
      <4>2. g[n] = f[n]
        BY <3>2
      <4>3. f[n] = IF n = 0 THEN RealOnly(rows) ELSE SqlStep(p[n], f[n - 1])
        <5>1. Rule(f, l)[n] = IF n = 0 THEN RealOnly(rows) ELSE SqlStep(p[n], f[n - 1])
          BY <4>1
        <5> HIDE DEF Rule
        <5> QED
          BY <2>1, <5>1
      <4>4. n # 0 => g[n - 1] = f[n - 1]
        BY <4>1
      <4> HIDE DEF g
      <4> QED
        BY <4>2, <4>3, <4>4
    <3> QED
      BY <3>1, <3>2
  <2>3. g = [n \in 0 .. l + 1 |-> g[n]]
    OBVIOUS
  <2> HIDE DEF g
  <2>4. g = Rule(g, l + 1)
    BY <2>2, <2>3
  <2> HIDE DEF Rule
  <2> QED
    BY <2>4
<1> HIDE DEF Good
<1>3. Len(p) \in Good
  BY <1>1, <1>2, NatSetInduction
<1> DEFINE a == Answers(p, rows)
<1>4. a = Rule(a, Len(p))
  <2>1. a = CHOOSE f : f = Rule(f, Len(p))
    BY DEF Answers
  <2>2. \E f : f = Rule(f, Len(p))
    BY <1>3 DEF Good
  <2> HIDE DEF Rule, a
  <2> QED
    BY <2>1, <2>2
<1> HIDE DEF a
<1>5. /\ Rule(a, Len(p))[0] = RealOnly(rows)
      /\ \A n \in 1 .. Len(p) : Rule(a, Len(p))[n] = SqlStep(p[n], a[n - 1])
  OBVIOUS
<1> HIDE DEF Rule
<1>6. a[0] = RealOnly(rows) /\ \A n \in 1 .. Len(p) : a[n] = SqlStep(p[n], a[n - 1])
  BY <1>4, <1>5
<1> QED
  BY <1>6 DEF a

(* Two bags with the same rows: one to one, an argument of one for each    *)
(* argument of the other.                                                  *)
PairsUp(m, a, b) ==
  /\ m \in [DOMAIN a -> DOMAIN b]
  /\ \A i, j \in DOMAIN a : m[i] = m[j] => i = j
  /\ \A y \in DOMAIN b : \E i \in DOMAIN a : m[i] = y
  /\ \A i \in DOMAIN a : a[i] = b[m[i]]

SameRows(a, b) == \E m : PairsUp(m, a, b)

LEMMA SameRowsReflexive ==
  ASSUME NEW a
  PROVE  SameRows(a, a)
<1>1. PairsUp([i \in DOMAIN a |-> i], a, a)
  BY DEF PairsUp
<1> QED
  BY <1>1 DEF SameRows

LEMMA SameRowsTransitive ==
  ASSUME NEW a, NEW b, NEW c, SameRows(a, b), SameRows(b, c)
  PROVE  SameRows(a, c)
<1>1. PICK m : PairsUp(m, a, b)
  BY DEF SameRows
<1>2. PICK n : PairsUp(n, b, c)
  BY DEF SameRows
<1> DEFINE t == [i \in DOMAIN a |-> n[m[i]]]
<1>3. \A i \in DOMAIN a : m[i] \in DOMAIN b /\ a[i] = b[m[i]]
  BY <1>1 DEF PairsUp
<1>4. \A i \in DOMAIN b : n[i] \in DOMAIN c /\ b[i] = c[n[i]]
  BY <1>2 DEF PairsUp
<1>5. t \in [DOMAIN a -> DOMAIN c] /\ \A i \in DOMAIN a : a[i] = c[t[i]]
  BY <1>3, <1>4
<1>6. \A i, j \in DOMAIN a : t[i] = t[j] => i = j
  BY <1>1, <1>2, <1>3 DEF PairsUp
<1>7. \A y \in DOMAIN c : \E i \in DOMAIN a : t[i] = y
  BY <1>1, <1>2 DEF PairsUp
<1> HIDE DEF t
<1>8. PairsUp(t, a, c)
  BY <1>5, <1>6, <1>7 DEF PairsUp
<1> QED
  BY <1>8 DEF SameRows

(* As many rows of either satisfy a condition, given by the arguments.     *)
LEMMA PairsUpCount ==
  ASSUME NEW a, NEW b, NEW m, PairsUp(m, a, b), IsFiniteSet(DOMAIN a),
         NEW A \in SUBSET DOMAIN a, NEW B \in SUBSET DOMAIN b,
         \A i \in DOMAIN a : i \in A <=> m[i] \in B
  PROVE  IsFiniteSet(A) /\ Cardinality(B) = Cardinality(A)
<1> DEFINE q == [i \in A |-> m[i]]
<1>1. q \in [A -> B]
  BY DEF PairsUp
<1>2. \A i, j \in A : q[i] = q[j] => i = j
  BY DEF PairsUp
<1>3. \A y \in B : \E i \in A : q[i] = y
  BY DEF PairsUp
<1> HIDE DEF q
<1>4. IsFiniteSet(A)
  BY FS_Subset
<1> QED
  BY <1>1, <1>2, <1>3, <1>4, SameSize

LEMMA SameRowsSameBag ==
  ASSUME NEW a, NEW b, SameRows(a, b), IsFiniteSet(DOMAIN a)
  PROVE  SameBag(a, b)
<1>1. PICK m : PairsUp(m, a, b)
  BY DEF SameRows
<1> SUFFICES ASSUME NEW row
    PROVE  Cardinality({ n \in DOMAIN a : a[n] = row }) = Cardinality({ n \in DOMAIN b : b[n] = row })
  BY DEF SameBag
<1> DEFINE A == { n \in DOMAIN a : a[n] = row }
           B == { n \in DOMAIN b : b[n] = row }
<1>2. \A i \in DOMAIN a : i \in A <=> m[i] \in B
  BY <1>1 DEF PairsUp
<1>3. A \in SUBSET DOMAIN a /\ B \in SUBSET DOMAIN b
  OBVIOUS
<1> HIDE DEF A, B
<1>4. Cardinality(B) = Cardinality(A)
  BY <1>1, <1>2, <1>3, PairsUpCount
<1> QED
  BY <1>4 DEF A, B

-----------------------------------------------------------------------------
(* Every step of SQL takes bags of the same rows to bags of the same rows. *)

FilterRows(rows, cols) == Restrict(rows, { n \in DOMAIN rows : matches(rows[n], cols) })

ProjectRows(rows, cols) ==
  [n \in DOMAIN rows |->
    [v |-> [k \in DOMAIN cols |-> projected(rows[n], cols[k])], dummy |-> FALSE]]

KeysOf(rows, cols) == { Keys(rows[n], cols) : n \in DOMAIN rows }
GroupOf(rows, cols, key) == { n \in DOMAIN rows : Keys(rows[n], cols) = key }

GroupRows(rows, cols) ==
  [key \in KeysOf(rows, cols) |->
    [v |-> Append(key, Cardinality(GroupOf(rows, cols, key))), dummy |-> FALSE]]

LEMMA SqlStepIs ==
  ASSUME NEW s, NEW rows
  PROVE  /\ s.op = "LogicalSort" => SqlStep(s, rows) = rows
         /\ s.op = "LogicalFilter" => SqlStep(s, rows) = FilterRows(rows, s.cols)
         /\ s.op = "LogicalProject" => SqlStep(s, rows) = ProjectRows(rows, s.cols)
         /\ s.op = "LogicalAggregate" => SqlStep(s, rows) = GroupRows(rows, s.cols)
<1>1. ASSUME s.op = "LogicalSort" PROVE SqlStep(s, rows) = rows
  BY <1>1, Zenon DEF SqlStep
<1>2. ASSUME s.op = "LogicalFilter" PROVE SqlStep(s, rows) = FilterRows(rows, s.cols)
  <2>1. "LogicalFilter" # "LogicalSort"
    OBVIOUS
  <2> QED
    BY <1>2, <2>1, Zenon DEF SqlStep, FilterRows
<1>3. ASSUME s.op = "LogicalProject" PROVE SqlStep(s, rows) = ProjectRows(rows, s.cols)
  <2>1. "LogicalProject" # "LogicalSort" /\ "LogicalProject" # "LogicalFilter"
    OBVIOUS
  <2> QED
    BY <1>3, <2>1, Zenon DEF SqlStep, ProjectRows
<1>4. ASSUME s.op = "LogicalAggregate" PROVE SqlStep(s, rows) = GroupRows(rows, s.cols)
  <2>1. /\ "LogicalAggregate" # "LogicalSort" /\ "LogicalAggregate" # "LogicalFilter"
        /\ "LogicalAggregate" # "LogicalProject"
    OBVIOUS
  <2> QED
    BY <1>4, <2>1, Zenon DEF SqlStep, GroupRows, KeysOf, GroupOf
<1> QED
  BY <1>1, <1>2, <1>3, <1>4

LEMMA FilterRespects ==
  ASSUME NEW a, NEW b, SameRows(a, b), NEW cols
  PROVE  SameRows(FilterRows(a, cols), FilterRows(b, cols))
<1>1. PICK m : PairsUp(m, a, b)
  BY DEF SameRows
<1> DEFINE A == { n \in DOMAIN a : matches(a[n], cols) }
           B == { n \in DOMAIN b : matches(b[n], cols) }
           q == [n \in A |-> m[n]]
           x == FilterRows(a, cols)
           y == FilterRows(b, cols)
<1>2. x = [n \in A |-> a[n]] /\ y = [n \in B |-> b[n]]
  BY DEF FilterRows, Restrict
<1>3. \A n \in DOMAIN a : n \in A <=> m[n] \in B
  BY <1>1 DEF PairsUp
<1>4. A \subseteq DOMAIN a /\ B \subseteq DOMAIN b
  OBVIOUS
<1> HIDE DEF A, B, x, y
<1>5. q \in [A -> B] /\ \A n \in A : x[n] = y[q[n]]
  BY <1>1, <1>2, <1>3, <1>4 DEF PairsUp
<1>6. \A i, j \in A : q[i] = q[j] => i = j
  BY <1>1, <1>4 DEF PairsUp
<1>7. \A k \in B : \E i \in A : q[i] = k
  BY <1>1, <1>3, <1>4 DEF PairsUp
<1> HIDE DEF q
<1>8. PairsUp(q, x, y)
  BY <1>2, <1>5, <1>6, <1>7 DEF PairsUp
<1> QED
  BY <1>8 DEF SameRows, x, y

LEMMA ProjectRespects ==
  ASSUME NEW a, NEW b, SameRows(a, b), NEW cols
  PROVE  SameRows(ProjectRows(a, cols), ProjectRows(b, cols))
<1>1. PICK m : PairsUp(m, a, b)
  BY DEF SameRows
<1> DEFINE row(r) == [v |-> [k \in DOMAIN cols |-> projected(r, cols[k])], dummy |-> FALSE]
           x == ProjectRows(a, cols)
           y == ProjectRows(b, cols)
<1>2. x = [n \in DOMAIN a |-> row(a[n])] /\ y = [n \in DOMAIN b |-> row(b[n])]
  BY DEF ProjectRows
<1> HIDE DEF row, x, y
<1>3. \A n \in DOMAIN a : x[n] = y[m[n]]
  BY <1>1, <1>2 DEF PairsUp
<1>4. PairsUp(m, x, y)
  BY <1>1, <1>2, <1>3 DEF PairsUp
<1> QED
  BY <1>4 DEF SameRows, x, y

LEMMA GroupRespects ==
  ASSUME NEW a, NEW b, SameRows(a, b), IsFiniteSet(DOMAIN a), NEW cols
  PROVE  GroupRows(a, cols) = GroupRows(b, cols)
<1>1. PICK m : PairsUp(m, a, b)
  BY DEF SameRows
<1>2. KeysOf(a, cols) = KeysOf(b, cols)
  BY <1>1 DEF KeysOf, PairsUp
<1>3. ASSUME NEW key
      PROVE  Cardinality(GroupOf(a, cols, key)) = Cardinality(GroupOf(b, cols, key))
  <2>1. \A i \in DOMAIN a : i \in GroupOf(a, cols, key) <=> m[i] \in GroupOf(b, cols, key)
    BY <1>1 DEF PairsUp, GroupOf
  <2>2. /\ GroupOf(a, cols, key) \in SUBSET DOMAIN a
        /\ GroupOf(b, cols, key) \in SUBSET DOMAIN b
    BY DEF GroupOf
  <2> QED
    BY <1>1, <2>1, <2>2, PairsUpCount
<1> QED
  BY <1>2, <1>3, Zenon DEF GroupRows

LEMMA SqlRespects ==
  ASSUME NEW s, s.op \in Kinds, NEW a, NEW b, SameRows(a, b), IsFiniteSet(DOMAIN a)
  PROVE  SameRows(SqlStep(s, a), SqlStep(s, b))
<1>1. CASE s.op = "LogicalSort"
  BY <1>1, SqlStepIs
<1>2. CASE s.op = "LogicalFilter"
  BY <1>2, SqlStepIs, FilterRespects
<1>3. CASE s.op = "LogicalProject"
  BY <1>3, SqlStepIs, ProjectRespects
<1>4. CASE s.op = "LogicalAggregate"
  <2>1. SqlStep(s, a) = SqlStep(s, b)
    BY <1>4, SqlStepIs, GroupRespects
  <2> QED
    BY <2>1, SameRowsReflexive
<1> QED
  BY <1>1, <1>2, <1>3, <1>4 DEF Kinds

-----------------------------------------------------------------------------
(* What each operator does to the real rows is what SQL does to a bag.     *)

RealPlaces(rows) == { n \in DOMAIN rows : ~rows[n].dummy }

LEMMA RealOnlyFacts ==
  ASSUME NEW rows
  PROVE  /\ DOMAIN RealOnly(rows) = RealPlaces(rows)
         /\ RealOnly(rows) = [n \in RealPlaces(rows) |-> rows[n]]
BY DEF RealOnly, RealPlaces, Restrict

LEMMA RealOnlyFinite ==
  ASSUME NEW rows \in Seq(Row)
  PROVE  IsFiniteSet(DOMAIN RealOnly(rows))
<1>1. IsFiniteSet(DOMAIN rows)
  BY DomainFinite
<1>2. RealPlaces(rows) \subseteq DOMAIN rows
  BY DEF RealPlaces
<1> QED
  BY <1>1, <1>2, FS_Subset, RealOnlyFacts

(* std::sort moves rows and neither makes nor loses any.                   *)
LEMMA SortIsSql ==
  ASSUME NEW rows \in Seq(Row), NEW def, NEW s \in Sorts(rows, def)
  PROVE  SameRows(RealOnly(s), RealOnly(rows))
<1> DEFINE D == DOMAIN rows
<1>1. PICK p \in SetToSeqs(D) : s = [n \in D |-> rows[p[n]]]
  BY DEF Sorts
<1>2. /\ D = 1 .. Len(rows) /\ IsFiniteSet(D) /\ Cardinality(D) = Len(rows)
      /\ Len(rows) \in Nat
  BY DomainFinite
<1>3. p \in [D -> D] /\ \A i, j \in D : p[i] = p[j] => i = j
  BY <1>1, <1>2 DEF SetToSeqs
<1> HIDE DEF D
<1>4. \A y \in D : \E i \in D : p[i] = y
  <2> DEFINE T == { p[i] : i \in D }
  <2>1. T \subseteq D /\ p \in [D -> T] /\ \A y \in T : \E i \in D : p[i] = y
    BY <1>3
  <2> HIDE DEF T
  <2>2. Cardinality(T) = Cardinality(D)
    <3>1. /\ IsFiniteSet(D) /\ p \in [D -> T]
          /\ \A i, j \in D : p[i] = p[j] => i = j
          /\ \A y \in T : \E i \in D : p[i] = y
      BY <1>2, <1>3, <2>1
    <3> QED
      BY ONLY <3>1, SameSize
  <2>3. T = D
    BY <1>2, <2>1, <2>2, FS_Subset
  <2> QED
    BY <2>1, <2>3
<1> DEFINE A == RealPlaces(s)
           B == RealPlaces(rows)
           x == RealOnly(s)
           y == RealOnly(rows)
           q == [n \in A |-> p[n]]
<1>5. x = [n \in A |-> s[n]] /\ y = [n \in B |-> rows[n]]
  BY RealOnlyFacts
<1>6. /\ A \subseteq D /\ B \subseteq D
      /\ \A n \in D : s[n] = rows[p[n]] /\ (n \in A <=> p[n] \in B)
  BY <1>1, <1>3 DEF RealPlaces, D
<1> HIDE DEF A, B, x, y
<1>7. q \in [A -> B] /\ \A n \in A : x[n] = y[q[n]]
  BY <1>3, <1>5, <1>6
<1>8. \A i, j \in A : q[i] = q[j] => i = j
  BY <1>3, <1>6
<1>9. \A k \in B : \E i \in A : q[i] = k
  BY <1>4, <1>6
<1> HIDE DEF q
<1>10. PairsUp(q, x, y)
  BY <1>5, <1>7, <1>8, <1>9 DEF PairsUp
<1> QED
  BY <1>10 DEF SameRows, x, y

LEMMA FilterIsSql ==
  ASSUME NEW rows, NEW cols, NEW w \in Nat, NEW t,
         t = [n \in DOMAIN rows |->
               IF ~rows[n].dummy /\ matches(rows[n], cols) THEN rows[n] ELSE Zero(w)]
  PROVE  RealOnly(t) = FilterRows(RealOnly(rows), cols)
<1> DEFINE r == RealOnly(rows)
           S == { n \in DOMAIN r : matches(r[n], cols) }
<1>1. r = [n \in RealPlaces(rows) |-> rows[n]]
  BY RealOnlyFacts
<1>2. Zero(w).dummy
  BY ZeroRow
<1>3. RealPlaces(t) = S
  BY <1>1, <1>2 DEF RealPlaces
<1>4. \A n \in S : t[n] = r[n]
  BY <1>1 DEF RealPlaces
<1>5. RealOnly(t) = [n \in S |-> r[n]]
  <2>1. RealOnly(t) = [n \in S |-> t[n]]
    BY <1>3, RealOnlyFacts
  <2> HIDE DEF S, r
  <2> QED
    BY <1>4, <2>1
<1> QED
  BY <1>5 DEF FilterRows, Restrict

LEMMA ProjectIsSql ==
  ASSUME NEW rows \in Seq(Row), NEW cols, NEW t,
         t = [n \in DOMAIN rows |-> Projected(rows[n], cols)]
  PROVE  RealOnly(t) = ProjectRows(RealOnly(rows), cols)
<1> DEFINE v(r) == [k \in DOMAIN cols |-> projected(r, cols[k])]
           r == RealOnly(rows)
           B == RealPlaces(rows)
<1>1. r = [n \in B |-> rows[n]]
  BY RealOnlyFacts
<1>2. \A n \in DOMAIN rows : t[n] = [v |-> v(rows[n]), dummy |-> rows[n].dummy]
  BY DEF Projected
<1> HIDE DEF v
<1>3. \A n \in DOMAIN rows : t[n].dummy = rows[n].dummy /\ rows[n].dummy \in BOOLEAN
  <2> SUFFICES ASSUME NEW n \in DOMAIN rows
      PROVE  t[n].dummy = rows[n].dummy /\ rows[n].dummy \in BOOLEAN
    OBVIOUS
  <2>1. rows[n] \in Row
    BY ElementType
  <2> QED
    BY <1>2, <2>1 DEF Row
<1>4. RealPlaces(t) = B
  BY <1>3 DEF RealPlaces
<1>5. \A n \in B : n \in DOMAIN rows /\ rows[n].dummy = FALSE
  BY <1>3 DEF RealPlaces
<1> HIDE DEF B, r
<1>6. \A n \in B : t[n] = [v |-> v(r[n]), dummy |-> FALSE]
  BY <1>1, <1>2, <1>5
<1>7. RealOnly(t) = [n \in B |-> [v |-> v(r[n]), dummy |-> FALSE]]
  <2> DEFINE row(n) == [v |-> v(r[n]), dummy |-> FALSE]
  <2>1. \A n \in B : t[n] = row(n)
    BY <1>6
  <2>2. RealOnly(t) = [n \in B |-> t[n]]
    <3>1. RealOnly(t) = [n \in RealPlaces(t) |-> t[n]]
      BY ONLY RealOnlyFacts
    <3> QED
      BY <1>4, <3>1, Zenon
  <2> HIDE DEF row
  <2>3. RealOnly(t) = [n \in B |-> row(n)]
    BY <2>1, <2>2
  <2> QED
    BY <2>3 DEF row
<1>8. DOMAIN r = B
  BY <1>1
<1> QED
  BY <1>7, <1>8 DEF ProjectRows, v, r

(* Rows with the same keys stand together, with no others between them.    *)
Together(rows, cols) ==
  \A m, h, n \in DOMAIN rows :
    m <= h /\ h <= n /\ Keys(rows[m], cols) = Keys(rows[n], cols) =>
      Keys(rows[h], cols) = Keys(rows[m], cols)

LEMMA SortedTogether ==
  ASSUME NEW rows \in Seq(Row), NEW w, HaveWidth(rows, w), NEW def \in SortDefinition,
         \A k \in DOMAIN def : def[k].col \in DummyTag .. w - 1,
         InOrder(rows, def), NEW cols \in Seq(Int), Len(cols) <= Len(def),
         \A k \in DOMAIN cols : def[k].col = cols[k]
  PROVE  Together(rows, cols)
<1> SUFFICES ASSUME NEW m \in DOMAIN rows, NEW h \in DOMAIN rows, NEW n \in DOMAIN rows,
                    m <= h, h <= n, Keys(rows[m], cols) = Keys(rows[n], cols)
    PROVE  Keys(rows[h], cols) = Keys(rows[m], cols)
  BY DEF Together
<1> DEFINE L == Len(cols)
<1>1. L \in 0 .. Len(def) /\ DOMAIN cols = 1 .. L
  BY DEF SortDefinition
<1>2. \A r : \A k \in 1 .. L : Keys(r, cols)[k] = Cell(r, def[k].col)
  BY <1>1 DEF Keys
<1>3. \A k \in 1 .. L : Cell(rows[m], def[k].col) = Cell(rows[n], def[k].col)
  BY <1>2
<1> HIDE DEF L
<1>4. \A k \in 1 .. L : Cell(rows[h], def[k].col) = Cell(rows[m], def[k].col)
  BY <1>1, <1>3, SortedBetween
<1>5. \A k \in DOMAIN cols : Cell(rows[h], cols[k]) = Cell(rows[m], cols[k])
  BY <1>1, <1>4
<1> QED
  BY <1>5 DEF Keys

LEMMA GreatestPlace ==
  ASSUME NEW l \in Nat, NEW S \in SUBSET (1 .. l), S # {}
  PROVE  \E n \in S : \A m \in S : m <= n
<1> DEFINE gap == { l - m : m \in S }
<1>1. gap \subseteq Nat /\ gap # {}
  <2>1. \A m \in S : m \in 1 .. l /\ l - m \in Nat
    OBVIOUS
  <2>2. gap \subseteq Nat
    BY <2>1
  <2> QED
    BY <2>2
<1> HIDE DEF gap
<1>2. PICK g \in gap : \A h \in gap : g <= h
  BY <1>1, LeastNumber
<1>3. PICK n \in S : g = l - n
  BY DEF gap
<1>4. ASSUME NEW m \in S PROVE m <= n
  <2>1. l - m \in gap
    BY DEF gap
  <2>2. l - n <= l - m
    BY <1>2, <1>3, <2>1
  <2> QED
    BY <2>2
<1> QED
  BY <1>4

LEMMA GroupIsSql ==
  ASSUME NEW rows \in Seq(Row), NEW cols \in Seq(Int), Together(rows, cols)
  PROVE  SameRows(RealOnly(Grouped(rows, cols)), GroupRows(RealOnly(rows), cols))
<1> DEFINE D == DOMAIN rows
           G == Grouped(rows, cols)
           r == RealOnly(rows)
           keys(n) == Keys(rows[n], cols)
           bin(n) == Bin(rows, cols, n)
           real(n) == { m \in bin(n) : ~rows[m].dummy }
           written(n) == [v |-> Append(keys(n), Cardinality(real(n))), dummy |-> FALSE]
           writes(n) == (\A m \in bin(n) : m <= n) /\ real(n) # {}
           A == { n \in D : writes(n) }
           B == KeysOf(r, cols)
           x == RealOnly(G)
           y == GroupRows(r, cols)
           q == [n \in A |-> keys(n)]
<1>1. D = 1 .. Len(rows) /\ Len(rows) \in Nat /\ Len(cols) + 1 \in Nat
  OBVIOUS
<1>2. r = [n \in RealPlaces(rows) |-> rows[n]] /\ DOMAIN r = RealPlaces(rows)
  BY RealOnlyFacts
<1>3. ASSUME NEW n \in D PROVE bin(n) = { m \in D : keys(m) = keys(n) }
  <2>1. ASSUME NEW m \in bin(n) PROVE m \in D /\ keys(m) = keys(n)
    <3>1. /\ m \in D
          /\ \A h \in D : (m <= h /\ h <= n) \/ (n <= h /\ h <= m) => keys(h) = keys(n)
      BY DEF Bin
    <3>2. m <= m /\ (m <= n \/ n <= m)
      BY <1>1, <3>1
    <3> QED
      BY <3>1, <3>2
  <2>2. ASSUME NEW m \in D, keys(m) = keys(n) PROVE m \in bin(n)
    <3>1. ASSUME NEW h \in D, (m <= h /\ h <= n) \/ (n <= h /\ h <= m) PROVE keys(h) = keys(n)
      BY <2>2, <3>1 DEF Together
    <3> QED
      BY <3>1 DEF Bin
  <2> HIDE DEF D, keys
  <2> QED
    BY <2>1, <2>2
<1>4. G = [n \in D |-> IF writes(n) THEN written(n) ELSE Zero(Len(cols) + 1)]
  BY DEF Grouped, Bin
<1>5. Zero(Len(cols) + 1).dummy /\ \A n \in D : ~written(n).dummy
  BY <1>1, ZeroRow
<1>6. \A n \in D : real(n) = GroupOf(r, cols, keys(n))
  <2> SUFFICES ASSUME NEW n \in D PROVE real(n) = GroupOf(r, cols, keys(n))
    OBVIOUS
  <2>1. real(n) = { m \in D : keys(m) = keys(n) /\ ~rows[m].dummy }
    BY <1>3
  <2>2. GroupOf(r, cols, keys(n)) = { m \in RealPlaces(rows) : keys(m) = keys(n) }
    BY <1>2 DEF GroupOf
  <2>3. RealPlaces(rows) = { m \in D : ~rows[m].dummy }
    BY DEF RealPlaces
  <2> HIDE DEF D, keys, real
  <2> QED
    BY <2>1, <2>2, <2>3
<1>7. B = { keys(n) : n \in RealPlaces(rows) }
  BY <1>2 DEF KeysOf
<1> HIDE DEF written, writes, G
<1>8. x = [n \in A |-> written(n)]
  <2>1. RealPlaces(G) = A
    BY <1>4, <1>5 DEF RealPlaces
  <2>2. \A n \in A : G[n] = written(n)
    BY <1>4
  <2> HIDE DEF A
  <2> QED
    BY <2>1, <2>2, RealOnlyFacts
<1>9. ASSUME NEW n \in A PROVE keys(n) \in B /\ x[n] = y[keys(n)]
  <2>1. n \in D /\ writes(n)
    OBVIOUS
  <2>2. PICK m \in bin(n) : ~rows[m].dummy
    BY <2>1 DEF writes
  <2>3. m \in D /\ keys(m) = keys(n)
    BY <1>3, <2>1
  <2>4. m \in RealPlaces(rows)
    BY <2>2, <2>3 DEF RealPlaces
  <2>5. keys(n) \in B
    BY <1>7, <2>3, <2>4
  <2>6. y[keys(n)] = [v |-> Append(keys(n), Cardinality(GroupOf(r, cols, keys(n)))), dummy |-> FALSE]
    BY <2>5 DEF GroupRows
  <2>7. x[n] = written(n)
    BY <1>8
  <2> QED
    BY <1>6, <2>1, <2>5, <2>6, <2>7 DEF written
<1>10. ASSUME NEW n \in A, NEW m \in A, keys(n) = keys(m) PROVE n = m
  <2>1. n \in bin(m) /\ m \in bin(n)
    BY <1>3, <1>10
  <2>2. n <= m /\ m <= n
    BY <2>1 DEF writes
  <2> QED
    BY <1>1, <2>2
<1>11. ASSUME NEW k \in B PROVE \E n \in A : keys(n) = k
  <2>1. PICK i \in RealPlaces(rows) : keys(i) = k
    BY <1>7
  <2>2. i \in D /\ ~rows[i].dummy
    BY DEF RealPlaces
  <2> DEFINE S == { m \in D : keys(m) = k }
  <2>3. i \in S /\ S \in SUBSET (1 .. Len(rows))
    BY <1>1, <2>1, <2>2
  <2> HIDE DEF S
  <2>4. PICK n \in S : \A m \in S : m <= n
    BY <1>1, <2>3, GreatestPlace
  <2>5. n \in D /\ keys(n) = k
    BY <2>4 DEF S
  <2>6. bin(n) = S
    BY <1>3, <2>5 DEF S
  <2>7. writes(n)
    BY <2>2, <2>3, <2>4, <2>6 DEF writes
  <2> QED
    BY <2>5, <2>7
<1>12. DOMAIN x = A /\ DOMAIN y = B
  BY <1>8 DEF GroupRows
<1> HIDE DEF A, B, x, y, keys
<1>13. q \in [A -> B] /\ \A n \in A : x[n] = y[q[n]]
  BY <1>9
<1>14. /\ \A i, j \in A : q[i] = q[j] => i = j
       /\ \A k \in B : \E i \in A : q[i] = k
  BY <1>10, <1>11
<1> HIDE DEF q
<1>15. PairsUp(q, x, y)
  BY <1>12, <1>13, <1>14 DEF PairsUp
<1> QED
  BY <1>15 DEF SameRows, x, y, G, r

-----------------------------------------------------------------------------
(* The chain of operators does the steps of the plan one after the other,  *)
(* with sorts in between.                                                  *)

Does ==
  { <<"Sort", "LogicalSort">>, <<"Filter", "LogicalFilter">>,
    <<"Project", "LogicalProject">>, <<"GroupByAggregate", "LogicalAggregate">> }

(* Operator o on one that has the answer to i steps has that to j.         *)
StandsFor(p, o, i, j) ==
  \/ j = i /\ o.op = "Sort" /\ o.limit = NoLimit
  \/ /\ j = i + 1 /\ <<o.op, p[j].op>> \in Does
     /\ IF o.op = "Sort" THEN o.limit = p[j].limit ELSE o.cols = p[j].cols

(* Operators of ss up to n do the first f[n] of d steps.                   *)
Follows(p, ss, d, f) ==
  /\ f \in [1 .. Len(ss) -> 0 .. d]
  /\ f[1] = 0 /\ f[Len(ss)] = d
  /\ \A n \in 2 .. Len(ss) : StandsFor(p, ss[n], f[n - 1], f[n])

(* The real rows of the last table are the answer to the steps done.       *)
AnswerInv ==
  /\ pc # "Parse" => steps = << >>
  /\ \E f : /\ Follows(plan, ops, Len(plan) - Len(steps), f)
            /\ SortedAfresh /\ Unlimited /\ at > 0 =>
                 SameRows(RealOnly(table), Answers(plan, input)[f[at]])

LEMMA FollowsAppend ==
  ASSUME NEW p, NEW ss \in Seq(Op), ss # << >>, NEW o, NEW t, t = Append(ss, o),
         NEW d \in Nat, NEW f, Follows(p, ss, d, f), NEW e \in {d, d + 1}, StandsFor(p, o, d, e)
  PROVE  \E g : Follows(p, t, e, g)
<1> DEFINE l == Len(ss)
           g == [n \in 1 .. l + 1 |-> IF n = l + 1 THEN e ELSE f[n]]
<1>1. l \in Nat \ {0} /\ Len(t) = l + 1 /\ t[l + 1] = o /\ \A n \in 1 .. l : t[n] = ss[n]
  BY SMTT(30)
<1>2. /\ f \in [1 .. l -> 0 .. d] /\ f[1] = 0 /\ f[l] = d
      /\ \A n \in 2 .. l : StandsFor(p, ss[n], f[n - 1], f[n])
  BY DEF Follows
<1> HIDE DEF l
<1>3. /\ g \in [1 .. l + 1 -> 0 .. e] /\ g[1] = 0 /\ g[l + 1] = e /\ g[l] = d
      /\ \A n \in 1 .. l : g[n] = f[n]
  BY <1>1, <1>2
<1> HIDE DEF g
<1>4. ASSUME NEW n \in 2 .. l + 1 PROVE StandsFor(p, t[n], g[n - 1], g[n])
  <2>1. CASE n = l + 1
    <3>1. n - 1 = l
      BY <1>1, <2>1
    <3> QED
      BY <1>1, <1>3, <2>1, <3>1
  <2>2. CASE n # l + 1
    <3>1. n \in 2 .. l /\ n \in 1 .. l /\ n - 1 \in 1 .. l
      BY <1>1, <2>2
    <3>2. t[n] = ss[n] /\ g[n] = f[n] /\ g[n - 1] = f[n - 1]
      BY <1>1, <1>3, <3>1
    <3> QED
      BY <1>2, <3>1, <3>2
  <2> QED
    BY <2>1, <2>2
<1> QED
  BY <1>1, <1>3, <1>4 DEF Follows

LEMMA AnswerInit == Init => AnswerInv
<1> SUFFICES ASSUME Init PROVE AnswerInv
  OBVIOUS
<1>1. plan \in Plans /\ steps = plan /\ ops = <<SeqScan>> /\ at = 0 /\ pc = "Parse"
  BY DEF Init
<1>2. Len(plan) - Len(steps) = 0
  <2>1. plan \in Seq(PlanStep)
    BY <1>1, PlanFacts
  <2> QED
    BY <1>1, <2>1
<1> DEFINE f == [n \in 1 .. 1 |-> 0]
<1>3. Len(ops) = 1
  BY <1>1
<1>4. Follows(plan, ops, 0, f)
  <2>1. f \in [1 .. 1 -> 0 .. 0] /\ f[1] = 0 /\ \A n \in 2 .. 1 : FALSE
    OBVIOUS
  <2> HIDE DEF f
  <2> QED
    BY <1>3, <2>1 DEF Follows
<1> HIDE DEF f
<1> QED
  BY <1>1, <1>2, <1>4 DEF AnswerInv

(* The parser is at step i of the plan, with all before it done.           *)
LEMMA ParseFacts ==
  ASSUME IndInv, AnswerInv, NEW op, Step(op)
  PROVE  /\ at = 0 /\ at' = 0 /\ pc' = "Parse" /\ plan' = plan
         /\ ops \in Seq(Op) /\ ops # << >>
         /\ \E d, f :
              /\ d \in Nat /\ Follows(plan, ops, d, f) /\ Len(plan') - Len(steps') = d + 1
              /\ Head(steps) = plan[d + 1] /\ plan[d + 1].op = op
<1>1. /\ pc = "Parse" /\ steps # << >> /\ steps' = Tail(steps) /\ at = 0
      /\ UNCHANGED <<plan, at, pc>>
  BY StepFacts DEF Step
<1>2. PICK i \in DOMAIN plan :
        /\ Head(steps) = plan[i] /\ plan[i].op = op
        /\ Len(steps') = Len(plan) - i
  BY StepFacts
<1>3. steps \in Seq(PlanStep) /\ plan \in Seq(PlanStep)
  BY PlanFacts DEF IndInv, Parsed
<1>4. Len(steps') = Len(steps) - 1 /\ Len(steps) \in Nat /\ Len(plan) \in Nat
  BY <1>1, <1>3
<1>5. i - 1 \in Nat /\ Len(plan) - Len(steps) = i - 1 /\ Len(plan) - Len(steps') = (i - 1) + 1
      /\ (i - 1) + 1 = i
  BY <1>2, <1>3, <1>4
<1>6. \E f : Follows(plan, ops, i - 1, f)
  BY <1>5 DEF AnswerInv
<1>7. ops \in Seq(Op) /\ ops # << >>
  BY <1>1 DEF IndInv, ChainOK
<1> QED
  BY <1>1, <1>2, <1>5, <1>6, <1>7

LEMMA ParsedAnswer ==
  ASSUME at' = 0, pc' = "Parse", NEW g, Follows(plan', ops', Len(plan') - Len(steps'), g)
  PROVE  AnswerInv'
BY DEF AnswerInv

LEMMA ParseOneAnswer ==
  ASSUME IndInv, AnswerInv,
         NEW op, Step(op), NEW o, ops' = Append(ops, o),
         <<o.op, op>> \in Does,
         IF o.op = "Sort" THEN o.limit = Head(steps).limit ELSE o.cols = Head(steps).cols
  PROVE  AnswerInv'
<1>1. /\ at = 0 /\ at' = 0 /\ pc' = "Parse" /\ plan' = plan
      /\ ops \in Seq(Op) /\ ops # << >>
  BY ParseFacts
<1>2. PICK d, f :
              /\ d \in Nat /\ Follows(plan, ops, d, f) /\ Len(plan') - Len(steps') = d + 1
              /\ Head(steps) = plan[d + 1] /\ plan[d + 1].op = op
  BY ParseFacts
<1>3. StandsFor(plan, o, d, d + 1)
  BY <1>2 DEF StandsFor
<1>4. PICK g : Follows(plan, ops', d + 1, g)
  <2>1. d + 1 \in {d, d + 1}
    OBVIOUS
  <2>2. \A t : t = Append(ops, o) => \E g : Follows(plan, t, d + 1, g)
    BY <1>1, <1>2, <1>3, <2>1, FollowsAppend
  <2> QED
    BY <2>2
<1> QED
  BY <1>1, <1>2, <1>4, ParsedAnswer

LEMMA ParseAnswer ==
  ASSUME IndInv, AnswerInv, ParseSort \/ ParseFilter \/ ParseProjection
  PROVE  AnswerInv'
<1>1. CASE ParseSort
  <2> DEFINE s == Head(steps)
             o == Node("Sort", << >>, s.limit, Claim(sortDefinition(s.order, s.limit)), child.width)
  <2>1. Step("LogicalSort") /\ ops' = Append(ops, o)
    BY <1>1 DEF ParseSort
  <2>2. o.op = "Sort" /\ o.limit = Head(steps).limit
    BY DEF Node
  <2> HIDE DEF o
  <2> QED
    BY <2>1, <2>2, ParseOneAnswer DEF Does
<1>2. CASE ParseFilter
  <2> DEFINE o == Node("Filter", Head(steps).cols, NoLimit, Claim(child.claim), child.width)
  <2>1. Step("LogicalFilter") /\ ops' = Append(ops, o)
    BY <1>2 DEF ParseFilter
  <2>2. o.op = "Filter" /\ o.cols = Head(steps).cols
    BY DEF Node
  <2> HIDE DEF o
  <2> QED
    BY <2>1, <2>2, ParseOneAnswer DEF Does
<1>3. CASE ParseProjection
  <2> DEFINE cols == Head(steps).cols
             o == Node("Project", cols, NoLimit, carried(child.claim, cols), Len(cols))
  <2>1. Step("LogicalProject") /\ ops' = Append(ops, o)
    BY <1>3 DEF ParseProjection
  <2>2. o.op = "Project" /\ o.cols = Head(steps).cols
    BY DEF Node
  <2> HIDE DEF o
  <2> QED
    BY <2>1, <2>2, ParseOneAnswer DEF Does
<1> QED
  BY <1>1, <1>2, <1>3

LEMMA ConcatIsAppend ==
  ASSUME NEW S, NEW s \in Seq(S), NEW o
  PROVE  s \o <<o>> = Append(s, o)
<1> DEFINE T == S \union {o}
<1>1. s \in Seq(T) /\ o \in T
  OBVIOUS
<1> HIDE DEF T
<1> QED
  BY <1>1

LEMMA SortsOnKeys ==
  ASSUME NEW g \in Seq(Int)
  PROVE  [n \in DOMAIN g |-> Ascending(g[n])] \in SortDefinition
<1> DEFINE keyed == [n \in DOMAIN g |-> Ascending(g[n])]
<1>1. DOMAIN g = 1 .. Len(g) /\ Len(g) \in Nat
  OBVIOUS
<1>2. \A k \in DOMAIN g : Ascending(g[k]) \in [col : Int, dir : {"ASC", "DESC"}]
  BY DEF Ascending
<1>3. keyed \in [1 .. Len(g) -> [col : Int, dir : {"ASC", "DESC"}]]
  BY <1>1, <1>2
<1> QED
  BY <1>1, <1>3 DEF SortDefinition

LEMMA ParseAggregateAnswer ==
  ASSUME IndInv, AnswerInv, ParseAggregate
  PROVE  AnswerInv'
<1> DEFINE g == Head(steps).cols
           keyed == [n \in DOMAIN g |-> Ascending(g[n])]
           sort == Node("Sort", << >>, NoLimit, keyed, child.width)
           sorts == IF sortCompatible(child.claim, g) THEN << >> ELSE <<sort>>
           agg(claim) == Node("GroupByAggregate", g, NoLimit, claim, Len(g) + 1)
           o == agg(Last(<<child>> \o sorts).claim)
<1>1. Step("LogicalAggregate") /\ ops' = ops \o sorts \o <<o>>
  BY DEF ParseAggregate
<1>2. /\ o.op = "GroupByAggregate" /\ o.cols = Head(steps).cols
      /\ sort.op = "Sort" /\ sort.limit = NoLimit
  BY DEF Node
<1>3. sorts = << >> \/ sorts = <<sort>>
  OBVIOUS
<1> HIDE DEF sorts, o
<1>4. /\ at = 0 /\ at' = 0 /\ pc' = "Parse" /\ plan' = plan
      /\ ops \in Seq(Op) /\ ops # << >>
  BY <1>1, ParseFacts
<1>5. CASE sorts = << >>
  <2>1. ops \o << >> = ops
    BY <1>4
  <2>2. ops \o <<o>> = Append(ops, o)
    BY <1>4, ConcatIsAppend
  <2>3. ops' = Append(ops, o)
    BY <1>1, <1>5, <2>1, <2>2
  <2> QED
    BY <1>1, <1>2, <2>3, ParseOneAnswer DEF Does
<1>6. CASE sorts = <<sort>>
  <2> DEFINE mid == Append(ops, sort)
  <2>1. sort \in Op
    <3>1. g \in Seq(Int) /\ child.width \in Nat
      <4>1. child \in Op
        BY <1>1, StepFacts
      <4>2. \E i \in DOMAIN plan : Head(steps) = plan[i] /\ plan[i] \in PlanStep
        BY <1>1, StepFacts
      <4> QED
        BY <4>1, <4>2 DEF Op, PlanStep
    <3>2. keyed \in SortDefinition
      BY <3>1, SortsOnKeys
    <3>3. sort = [op |-> "Sort", cols |-> << >>, limit |-> NoLimit, claim |-> keyed,
                  width |-> child.width]
      BY DEF Node
    <3> HIDE DEF sort, keyed
    <3> QED
      BY <3>1, <3>2, <3>3 DEF Op, NoLimit
  <2> HIDE DEF sort
  <2>2. ops \o <<sort>> = mid
    BY <1>4, ConcatIsAppend
  <2>3. mid \in Seq(Op) /\ mid # << >>
    BY <1>4, <2>1
  <2> HIDE DEF mid
  <2>4. mid \o <<o>> = Append(mid, o)
    BY <2>3, ConcatIsAppend
  <2>5. ops' = Append(mid, o)
    BY <1>1, <1>6, <2>2, <2>4
  <2>6. PICK d, f :
              /\ d \in Nat /\ Follows(plan, ops, d, f) /\ Len(plan') - Len(steps') = d + 1
              /\ Head(steps) = plan[d + 1] /\ plan[d + 1].op = "LogicalAggregate"
    BY <1>1, ParseFacts
  <2>7. PICK f1 : Follows(plan, mid, d, f1)
    <3>1. StandsFor(plan, sort, d, d)
      BY <1>2 DEF StandsFor
    <3>2. \A t : t = Append(ops, sort) => \E h : Follows(plan, t, d, h)
      BY <1>4, <2>6, <3>1, FollowsAppend
    <3> QED
      BY <3>2, Zenon DEF mid
  <2>8. PICK f2 : Follows(plan, ops', d + 1, f2)
    <3>1. StandsFor(plan, o, d, d + 1)
      BY <1>2, <2>6 DEF StandsFor, Does
    <3>2. d + 1 \in {d, d + 1}
      OBVIOUS
    <3>3. \A t : t = Append(mid, o) => \E h : Follows(plan, t, d + 1, h)
      BY <2>3, <2>6, <2>7, <3>1, <3>2, FollowsAppend
    <3> QED
      BY <2>5, <3>3
  <2> QED
    BY <1>4, <2>6, <2>8, ParsedAnswer
<1> QED
  BY <1>3, <1>5, <1>6

LEMMA EndParseAnswer == AnswerInv /\ EndParse => AnswerInv'
<1> SUFFICES ASSUME AnswerInv, EndParse PROVE AnswerInv'
  OBVIOUS
<1>1. steps = << >> /\ UNCHANGED <<plan, input, steps, ops, at, table, order>>
  BY DEF EndParse
<1>2. (SortedAfresh' <=> SortedAfresh) /\ (Unlimited' <=> Unlimited)
  BY <1>1 DEF SortedAfresh, Unlimited
<1> QED
  BY <1>1, <1>2 DEF AnswerInv

(* Running changes no more of the operators than a claim.                  *)
LEMMA RanOps ==
  ASSUME IndInv, NEW op, Runs(op), NEW rows, NEW c, Output(rows, c)
  PROVE  /\ Len(ops') = Len(ops) /\ Len(ops) \in Nat \ {0} /\ DOMAIN ops' = DOMAIN ops
         /\ DOMAIN ops = 1 .. Len(ops)
         /\ \A n \in 1 .. Len(ops) :
              /\ ops'[n].op = ops[n].op /\ ops'[n].cols = ops[n].cols
              /\ ops'[n].limit = ops[n].limit
<1>1. at \in Nat /\ at < Len(ops) /\ ChainOK(plan, ops, at)
  BY RunFacts
<1>2. ops \in Seq(Op) /\ Len(ops) \in Nat \ {0} /\ DOMAIN ops = 1 .. Len(ops)
  BY <1>1, OpFacts
<1> DEFINE o == [ops[at + 1] EXCEPT !.claim = c]
<1>3. at + 1 \in 1 .. Len(ops)
  BY <1>1, <1>2
<1>4. ops[at + 1] \in Op
  BY <1>2, <1>3
<1>5. o.op = ops[at + 1].op /\ o.cols = ops[at + 1].cols /\ o.limit = ops[at + 1].limit
  BY <1>4 DEF Op
<1>6. ops' = [ops EXCEPT ![at + 1] = o]
  BY DEF Output
<1> HIDE DEF o
<1>7. DOMAIN ops' = DOMAIN ops /\ Len(ops') = Len(ops)
  BY <1>2, <1>3, <1>6
<1>8. \A n \in 1 .. Len(ops) : ops'[n] = IF n = at + 1 THEN o ELSE ops[n]
  BY <1>2, <1>6
<1> QED
  BY <1>2, <1>5, <1>7, <1>8

(* The operator that runs does to the real rows what the steps of the plan *)
(* that it stands for do to a bag.                                         *)
Taken(i, j, rows) == IF j = i THEN rows ELSE SqlStep(plan[j], rows)

LeavesAnswer(rows) ==
  \A i \in Nat, j \in 0 .. Len(plan) : StandsFor(plan, self, i, j) =>
    SameRows(RealOnly(rows), Taken(i, j, RealOnly(table)))

LEMMA RanAnswer ==
  ASSUME IndInv, AnswerInv, NEW op, Runs(op), NEW rows, NEW c, Output(rows, c),
         IF at = 0 THEN rows = input ELSE SortedAfresh /\ Unlimited => LeavesAnswer(rows)
  PROVE  AnswerInv'
<1>1. /\ pc = "Run" /\ at \in Nat /\ at < Len(ops) /\ self = ops[at + 1] /\ table \in Seq(Row)
  BY RunFacts
<1>2. table' = rows /\ at' = at + 1 /\ UNCHANGED <<plan, input, steps, pc>>
  BY DEF Output
<1>3. /\ Len(ops') = Len(ops) /\ Len(ops) \in Nat \ {0} /\ DOMAIN ops' = DOMAIN ops
      /\ DOMAIN ops = 1 .. Len(ops)
      /\ \A n \in 1 .. Len(ops) :
              /\ ops'[n].op = ops[n].op /\ ops'[n].cols = ops[n].cols
              /\ ops'[n].limit = ops[n].limit
  BY RanOps
<1>4. plan \in Plans /\ plan \in Seq(PlanStep) /\ steps = << >>
  BY <1>1, PlanFacts DEF IndInv, Parsed, AnswerInv
<1> DEFINE d == Len(plan)
           sql(n) == Answers(plan, input)[n]
<1>5. d \in Nat /\ Len(plan) - Len(steps) = d
  BY <1>4
<1>6. PICK f : /\ Follows(plan, ops, d, f)
               /\ SortedAfresh /\ Unlimited /\ at > 0 => SameRows(RealOnly(table), sql(f[at]))
  BY <1>5 DEF AnswerInv
<1>7. /\ f \in [1 .. Len(ops) -> 0 .. d] /\ f[1] = 0
      /\ \A n \in 2 .. Len(ops) : StandsFor(plan, ops[n], f[n - 1], f[n])
  BY <1>6 DEF Follows
<1>8. Follows(plan, ops', d, f)
  <2>1. ASSUME NEW n \in 2 .. Len(ops) PROVE StandsFor(plan, ops'[n], f[n - 1], f[n])
    <3>1. n \in 1 .. Len(ops) /\ StandsFor(plan, ops[n], f[n - 1], f[n])
      BY <1>3, <1>7
    <3> QED
      BY <1>3, <3>1 DEF StandsFor
  <2> QED
    BY <1>3, <1>6, <2>1 DEF Follows
<1>9. (SortedAfresh' => SortedAfresh) /\ (Unlimited' => Unlimited)
  <2>1. Unlimited' => Unlimited
    BY <1>2 DEF Unlimited
  <2>2. ASSUME SortedAfresh', NEW n \in DOMAIN ops, ops[n].op = "GroupByAggregate"
        PROVE  \E m \in 1 .. n - 1 :
                 ops[m].op = "Sort" /\ \A h \in m + 1 .. n - 1 : ops[h].op = "Project"
    <3>1. n \in DOMAIN ops' /\ ops'[n].op = "GroupByAggregate"
      BY <1>3, <2>2
    <3>2. PICK m \in 1 .. n - 1 :
            ops'[m].op = "Sort" /\ \A h \in m + 1 .. n - 1 : ops'[h].op = "Project"
      BY <2>2, <3>1 DEF SortedAfresh
    <3>3. m \in 1 .. Len(ops) /\ \A h \in m + 1 .. n - 1 : h \in 1 .. Len(ops)
      BY <1>3
    <3> QED
      BY <1>3, <3>2, <3>3
  <2> QED
    BY <2>1, <2>2 DEF SortedAfresh
<1>10. ASSUME SortedAfresh, Unlimited PROVE SameRows(RealOnly(rows), sql(f[at + 1]))
  <2>1. CASE at = 0
    <3>1. f[at + 1] = 0
      BY <1>7, <2>1
    <3>2. sql(0) = RealOnly(input)
      BY <1>5, AnswersFacts
    <3> QED
      BY <2>1, <3>1, <3>2, SameRowsReflexive
  <2>2. CASE at # 0
    <3> DEFINE i == f[at]
               j == f[at + 1]
    <3>1. /\ at + 1 \in 2 .. Len(ops) /\ at \in 1 .. Len(ops) /\ at + 1 \in 1 .. Len(ops)
          /\ (at + 1) - 1 = at /\ at > 0
      BY <1>1, <1>3, <2>2
    <3>2. i \in 0 .. d /\ j \in 0 .. d /\ StandsFor(plan, self, i, j)
      BY <1>1, <1>7, <3>1
    <3>3. SameRows(RealOnly(table), sql(i))
      BY <1>6, <1>10, <3>1
    <3> HIDE DEF i, j, d, sql
    <3>4. i \in Nat /\ j \in 0 .. Len(plan)
      BY <1>5, <3>2 DEF d
    <3>5. SameRows(RealOnly(rows), Taken(i, j, RealOnly(table)))
      BY <1>10, <2>2, <3>2, <3>4 DEF LeavesAnswer
    <3>6. SameRows(Taken(i, j, RealOnly(table)), sql(j))
      <4>1. CASE j = i
        BY <3>3, <4>1 DEF Taken
      <4>2. CASE j # i
        <5>1. j = i + 1
          BY <3>2, <4>2 DEF StandsFor
        <5>2. j \in DOMAIN plan /\ j \in 1 .. Len(plan) /\ j - 1 = i
          BY <1>4, <3>4, <5>1
        <5>3. sql(j) = SqlStep(plan[j], sql(i))
          BY <1>5, <5>2, AnswersFacts DEF sql, d
        <5>4. plan[j].op \in Kinds
          <6>1. plan[j] \in PlanStep
            BY <1>4, <5>2, ElementType
          <6> QED
            BY <6>1 DEF PlanStep
        <5>5. SameRows(SqlStep(plan[j], RealOnly(table)), sql(j))
          <6>1. IsFiniteSet(DOMAIN RealOnly(table))
            BY <1>1, RealOnlyFinite
          <6>2. \A s : s.op \in Kinds =>
                  SameRows(SqlStep(s, RealOnly(table)), SqlStep(s, sql(i)))
            BY <3>3, <6>1, SqlRespects
          <6> QED
            BY <5>3, <5>4, <6>2
        <5> QED
          BY <4>2, <5>5 DEF Taken
      <4> QED
        BY <4>1, <4>2
    <3>7. SameRows(RealOnly(rows), sql(j))
      BY <3>5, <3>6, SameRowsTransitive
    <3> QED
      BY <3>7 DEF j
  <2> QED
    BY <2>1, <2>2
<1> HIDE DEF d
<1>11. Len(plan') - Len(steps') = d /\ pc' = "Run" /\ steps' = << >>
  BY <1>1, <1>2, <1>4, <1>5
<1> QED
  BY <1>2, <1>8, <1>9, <1>10, <1>11 DEF AnswerInv

LEMMA SqlInputAnswer ==
  ASSUME IndInv, AnswerInv, RunSqlInput
  PROVE  AnswerInv'
<1>1. Runs("SqlInput") /\ Output(input, self.claim)
  BY DEF RunSqlInput
<1>2. /\ at \in Nat /\ at < Len(ops) /\ self = ops[at + 1] /\ self.op = "SqlInput"
      /\ ChainOK(plan, ops, at)
  BY <1>1, RunFacts
<1>3. at = 0
  <2>1. at + 1 \in 1 .. Len(ops)
    BY <1>2, OpFacts
  <2>2. at + 1 = 1
    BY <1>2, <2>1, OpFacts
  <2> QED
    BY <1>2, <2>2
<1> QED
  BY <1>1, <1>3, RanAnswer

LEMMA SortAnswer ==
  ASSUME IndInv, AnswerInv, RunSort
  PROVE  AnswerInv'
<1> DEFINE taken(s) == IF self.limit > 0 /\ Len(s) > self.limit
                       THEN SubSeq(s, 1, self.limit) ELSE s
<1>1. Runs("Sort") /\ \E s \in Sorts(table, self.claim) : Output(taken(s), self.claim)
  BY DEF RunSort
<1>2. PICK s \in Sorts(table, self.claim) : Output(taken(s), self.claim)
  BY <1>1
<1>3. self.op = "Sort" /\ table \in Seq(Row) /\ at > 0
  BY <1>1, RunFacts
<1>4. SameRows(RealOnly(s), RealOnly(table))
  BY <1>3, SortIsSql
<1>5. ASSUME Unlimited PROVE LeavesAnswer(taken(s))
  <2> SUFFICES ASSUME NEW i \in Nat, NEW j \in 0 .. Len(plan), StandsFor(plan, self, i, j)
      PROVE  SameRows(RealOnly(taken(s)), Taken(i, j, RealOnly(table)))
    BY DEF LeavesAnswer
  <2>1. /\ self.limit = NoLimit
        /\ j # i => plan[j].op = "LogicalSort"
    <3>1. CASE j = i
      BY <1>3, <3>1 DEF StandsFor
    <3>2. CASE j # i
      <4>1. j = i + 1 /\ <<self.op, plan[j].op>> \in Does /\ self.limit = plan[j].limit
        BY <1>3, <3>2 DEF StandsFor
      <4>2. plan[j].op = "LogicalSort"
        BY <1>3, <4>1 DEF Does
      <4>3. j \in DOMAIN plan
        <5>1. plan \in Seq(PlanStep)
          BY PlanFacts DEF IndInv, Parsed
        <5> QED
          BY <4>1, <5>1
      <4> QED
        BY <1>5, <4>1, <4>2, <4>3 DEF Unlimited
    <3> QED
      BY <3>1, <3>2
  <2>2. taken(s) = s
    BY <2>1 DEF NoLimit
  <2>3. Taken(i, j, RealOnly(table)) = RealOnly(table)
    BY <2>1, SqlStepIs DEF Taken
  <2> HIDE DEF taken
  <2> QED
    BY <1>4, <2>2, <2>3
<1> HIDE DEF taken
<1> QED
  BY <1>1, <1>2, <1>3, <1>5, RanAnswer

LEMMA FilterAnswer ==
  ASSUME IndInv, AnswerInv, RunFilter
  PROVE  AnswerInv'
<1> DEFINE rows == [n \in DOMAIN table |->
                     IF ~table[n].dummy /\ matches(table[n], self.cols)
                     THEN table[n] ELSE Zero(self.width)]
<1>1. Runs("Filter") /\ Output(rows, order)
  BY DEF RunFilter
<1>2. self.op = "Filter" /\ self \in Op /\ at > 0
  BY <1>1, RunFacts
<1>3. self.width \in Nat
  BY <1>2 DEF Op
<1>4. RealOnly(rows) = FilterRows(RealOnly(table), self.cols)
  BY <1>3, FilterIsSql
<1> HIDE DEF rows
<1>5. LeavesAnswer(rows)
  <2> SUFFICES ASSUME NEW i \in Nat, NEW j \in 0 .. Len(plan), StandsFor(plan, self, i, j)
      PROVE  SameRows(RealOnly(rows), Taken(i, j, RealOnly(table)))
    BY DEF LeavesAnswer
  <2>1. j = i + 1 /\ <<self.op, plan[j].op>> \in Does /\ self.cols = plan[j].cols
    BY <1>2 DEF StandsFor
  <2>2. plan[j].op = "LogicalFilter" /\ j # i
    BY <1>2, <2>1 DEF Does
  <2>3. Taken(i, j, RealOnly(table)) = RealOnly(rows)
    BY <1>4, <2>1, <2>2, SqlStepIs DEF Taken
  <2> QED
    BY <2>3, SameRowsReflexive
<1> QED
  BY <1>1, <1>2, <1>5, RanAnswer

LEMMA ProjectAnswer ==
  ASSUME IndInv, AnswerInv, RunProject
  PROVE  AnswerInv'
<1> DEFINE rows == [n \in DOMAIN table |-> Projected(table[n], self.cols)]
<1>1. Runs("Project") /\ Output(rows, self.claim)
  BY DEF RunProject, Projected
<1>2. self.op = "Project" /\ table \in Seq(Row) /\ at > 0
  BY <1>1, RunFacts
<1>3. RealOnly(rows) = ProjectRows(RealOnly(table), self.cols)
  BY <1>2, ProjectIsSql
<1> HIDE DEF rows
<1>4. LeavesAnswer(rows)
  <2> SUFFICES ASSUME NEW i \in Nat, NEW j \in 0 .. Len(plan), StandsFor(plan, self, i, j)
      PROVE  SameRows(RealOnly(rows), Taken(i, j, RealOnly(table)))
    BY DEF LeavesAnswer
  <2>1. j = i + 1 /\ <<self.op, plan[j].op>> \in Does /\ self.cols = plan[j].cols
    BY <1>2 DEF StandsFor
  <2>2. plan[j].op = "LogicalProject" /\ j # i
    BY <1>2, <2>1 DEF Does
  <2>3. Taken(i, j, RealOnly(table)) = RealOnly(rows)
    BY <1>3, <2>1, <2>2, SqlStepIs DEF Taken
  <2> QED
    BY <2>3, SameRowsReflexive
<1> QED
  BY <1>1, <1>2, <1>4, RanAnswer

(* On fresh sorts rows with the same keys stand together, so that the pass *)
(* over adjacent rows finds whole groups.                                  *)
LEMMA GroupByAnswer ==
  ASSUME IndInv, AnswerInv, RunGroupBy
  PROVE  AnswerInv'
<1> DEFINE rows == Grouped(table, self.cols)
           c == SubSeq(order, 1, Len(self.cols))
           b == ops[at]
           w == b.width
<1>1. Runs("GroupByAggregate") /\ Output(rows, c) /\ Len(order) >= Len(self.cols)
  BY DEF RunGroupBy
<1>2. /\ at \in Nat /\ at > 0 /\ at < Len(ops) /\ self \in Op /\ self.op = "GroupByAggregate"
      /\ self = ops[at + 1] /\ ChainOK(plan, ops, at)
      /\ table \in Seq(Row) /\ b \in Op
      /\ order = b.claim /\ order \in SortDefinition
      /\ HaveWidth(table, w)
      /\ CanStandOn(plan, self, b)
  BY <1>1, RunFacts
<1>3. /\ self.cols \in Seq(Int)
      /\ \A k \in DOMAIN self.cols \cap DOMAIN order : order[k].col = self.cols[k]
  BY <1>2 DEF Op, CanStandOn, StandsOn
<1> HIDE DEF rows, c
<1>4. ASSUME SortedAfresh PROVE LeavesAnswer(rows)
  <2>1. PICK m \in 1 .. at : ops[m].op = "Sort" /\ \A h \in m + 1 .. at : ops[h].op = "Project"
    <3>1. at + 1 \in DOMAIN ops /\ (at + 1) - 1 = at
      BY <1>2, OpFacts
    <3> QED
      BY <1>2, <1>4, <3>1 DEF SortedAfresh
  <2>2. InOrder(table, order)
    BY <1>2, <2>1 DEF OnSort, IndInv, Sorted
  <2>3. \A k \in DOMAIN order : order[k].col \in DummyTag .. w - 1
    <3>1. m = at \/ at \in m + 1 .. at
      BY <1>2
    <3>2. b.op \in {"Sort", "Project"}
      BY <2>1, <3>1
    <3>3. at \in DOMAIN ops
      BY <1>2, OpFacts
    <3> QED
      BY <1>2, <3>2, <3>3, OpFacts
  <2>4. Len(self.cols) <= Len(order) /\ \A k \in DOMAIN self.cols : order[k].col = self.cols[k]
    <3>1. /\ DOMAIN order = 1 .. Len(order) /\ Len(order) \in Nat
          /\ DOMAIN self.cols = 1 .. Len(self.cols) /\ Len(self.cols) \in Nat
      BY <1>2, <1>3 DEF SortDefinition
    <3>2. \A k \in DOMAIN self.cols : k \in DOMAIN order
      BY <1>1, <3>1
    <3> QED
      BY <1>1, <1>3, <3>1, <3>2
  <2> HIDE DEF b, w
  <2>5. Together(table, self.cols)
    BY <1>2, <1>3, <2>2, <2>3, <2>4, SortedTogether
  <2>6. SameRows(RealOnly(rows), GroupRows(RealOnly(table), self.cols))
    BY <1>2, <1>3, <2>5, GroupIsSql DEF rows
  <2> SUFFICES ASSUME NEW i \in Nat, NEW j \in 0 .. Len(plan), StandsFor(plan, self, i, j)
      PROVE  SameRows(RealOnly(rows), Taken(i, j, RealOnly(table)))
    BY DEF LeavesAnswer
  <2>7. j = i + 1 /\ <<self.op, plan[j].op>> \in Does /\ self.cols = plan[j].cols
    BY <1>2 DEF StandsFor
  <2>8. plan[j].op = "LogicalAggregate" /\ j # i
    BY <1>2, <2>7 DEF Does
  <2>9. Taken(i, j, RealOnly(table)) = GroupRows(RealOnly(table), self.cols)
    BY <2>7, <2>8, SqlStepIs DEF Taken
  <2> QED
    BY <2>6, <2>9
<1> QED
  BY <1>1, <1>2, <1>4, RanAnswer

LEMMA EndAnswer ==
  ASSUME AnswerInv, RunPastOrder \/ EndRun \/ Terminated \/ UNCHANGED vars
  PROVE  AnswerInv'
<1>1. /\ UNCHANGED <<plan, input, steps, ops, at, table, order>>
      /\ pc' = "Parse" => pc = "Parse"
      /\ pc = "Parse" => pc' = "Parse"
  BY DEF RunPastOrder, EndRun, Terminated, vars, Runs
<1>2. (SortedAfresh' <=> SortedAfresh) /\ (Unlimited' <=> Unlimited)
  BY <1>1 DEF SortedAfresh, Unlimited
<1> QED
  BY <1>1, <1>2 DEF AnswerInv

THEOREM AnswerInvHolds == Spec => []AnswerInv
<1>1. Init => AnswerInv
  BY AnswerInit
<1>2. IndInv /\ AnswerInv /\ [Next]_vars => AnswerInv'
  <2> SUFFICES ASSUME IndInv, AnswerInv, [Next]_vars PROVE AnswerInv'
    OBVIOUS
  <2>1. CASE ParseSort \/ ParseFilter \/ ParseProjection
    BY <2>1, ParseAnswer
  <2>2. CASE ParseAggregate
    BY <2>2, ParseAggregateAnswer
  <2>3. CASE EndParse
    BY <2>3, EndParseAnswer
  <2>4. CASE RunSqlInput
    BY <2>4, SqlInputAnswer
  <2>5. CASE RunSort
    BY <2>5, SortAnswer
  <2>6. CASE RunFilter
    BY <2>6, FilterAnswer
  <2>7. CASE RunProject
    BY <2>7, ProjectAnswer
  <2>8. CASE RunGroupBy
    BY <2>8, GroupByAnswer
  <2>9. CASE RunPastOrder \/ EndRun \/ Terminated \/ UNCHANGED vars
    BY <2>9, EndAnswer
  <2> QED
    BY <2>1, <2>2, <2>3, <2>4, <2>5, <2>6, <2>7, <2>8, <2>9 DEF Next
<1> QED
  BY <1>1, <1>2, InvHolds, PTL DEF Spec

(* plan_parser.cpp and the operators it builds answer the query: on fresh  *)
(* sorts and without limits the real rows of the last table are SQL's      *)
(* answer to the plan, whatever the order std::sort leaves equal rows in.  *)
THEOREM AnswerRightOnFreshSortsHolds == Spec => []AnswerRightOnFreshSorts
<1>1. IndInv /\ AnswerInv => AnswerRightOnFreshSorts
  <2> SUFFICES ASSUME IndInv, AnswerInv, SortedAfresh, Unlimited, pc \in {"Done", "Undefined"}
      PROVE  pc = "Done" /\ SameBag(RealOnly(table), Answer)
    BY DEF AnswerRightOnFreshSorts, AnswerRight
  <2>1. pc = "Done" /\ at = Len(ops) /\ ChainOK(plan, ops, at) /\ at \in Nat
        /\ table \in Seq(Row) /\ steps = << >>
    BY DEF IndInv, TypeOK, AnswerInv
  <2>2. at > 0
    BY <2>1, OpFacts
  <2>3. Len(plan) - Len(steps) = Len(plan)
    <3>1. plan \in Seq(PlanStep)
      BY PlanFacts DEF IndInv, Parsed
    <3> QED
      BY <2>1, <3>1
  <2>4. PICK f : /\ Follows(plan, ops, Len(plan), f)
                 /\ SameRows(RealOnly(table), Answers(plan, input)[f[at]])
    BY <2>2, <2>3 DEF AnswerInv
  <2>5. f[at] = Len(plan)
    BY <2>1, <2>4 DEF Follows
  <2>6. SameRows(RealOnly(table), Answer)
    BY <2>4, <2>5 DEF Answer
  <2> QED
    BY <2>1, <2>6, SameRowsSameBag, RealOnlyFinite
<1> QED
  BY <1>1, InvHolds, AnswerInvHolds, PTL
=============================================================================
