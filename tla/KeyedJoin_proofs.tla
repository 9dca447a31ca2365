-------------------------- MODULE KeyedJoin_proofs --------------------------
(***************************************************************************)
(* What TLAPS proves about KeyedJoin, for inputs of any length:            *)
(*                                                                         *)
(*   - the three checks accept every join that was computed by the rules,  *)
(*     with ties, repeats, padding and rows of zeros;                      *)
(*   - the rows set aside as unmatched are those without a partner;        *)
(*   - the output's dummies are zeroed;                                    *)
(*   - the answer, when it is given, is the one of EquiJoin.               *)
(***************************************************************************)
EXTENDS KeyedJoin, Iteration, SequenceTheorems

-----------------------------------------------------------------------------
(* Counting rows.                                                          *)

(* Tables whose dummies are zeroed.                                        *)
Tidy(t) == t \in Seq(Row) /\ \A i \in DOMAIN t : t[i].dummy => t[i] = Zero

LEMMA ZeroFacts ==
  /\ Zero \in Row /\ Zero.dummy /\ Zero.key = 0 /\ Zero.pay = 0
  /\ \A row \in Row : row.dummy \in BOOLEAN /\ row.key \in Keys /\ row.pay \in Pays
  /\ \A k \in Keys : k \in Nat
  /\ \A k \in Pays : k \in Nat
BY ZeroAssumption DEF Zero, Row

LEMMA PlacesFinite ==
  ASSUME NEW t \in Seq(Row), NEW row
  PROVE  /\ IsFiniteSet(PlacesOf(t, row)) /\ Count(t, row) = Cardinality(PlacesOf(t, row))
         /\ Count(t, row) \in Nat
         /\ Count(t, row) = 0 <=> PlacesOf(t, row) = {}
<1>1. PlacesOf(t, row) \in SUBSET DOMAIN t /\ Count(t, row) = Cardinality(PlacesOf(t, row))
  BY DEF PlacesOf, Count
<1>2. IsFiniteSet(DOMAIN t)
  BY DomainFinite
<1>3. IsFiniteSet(PlacesOf(t, row))
  BY <1>1, <1>2, FS_Subset
<1> QED
  BY <1>1, <1>3, FS_CardinalityType, FS_EmptySet

(* Tables with zeroed dummies are equal as multisets when they have the    *)
(* same length and the same real rows.                                     *)
LEMMA EqualByReal ==
  ASSUME NEW a, Tidy(a), NEW b, Tidy(b), Len(a) = Len(b),
         \A row \in Row : ~row.dummy => Count(a, row) = Count(b, row)
  PROVE  equal(a, b)
<1> DEFINE RA == { i \in DOMAIN a : ~a[i].dummy }
           RB == { i \in DOMAIN b : ~b[i].dummy }
           g(row) == CHOOSE f \in Bijection(PlacesOf(a, row), PlacesOf(b, row)) : TRUE
           h == [i \in RA |-> g(a[i])[i]]
<1>1. /\ a \in Seq(Row) /\ b \in Seq(Row)
      /\ \A i \in DOMAIN a : a[i] \in Row
      /\ \A i \in DOMAIN b : b[i] \in Row
  BY DEF Tidy
<1>2. ASSUME NEW row \in Row, ~row.dummy
      PROVE  g(row) \in Bijection(PlacesOf(a, row), PlacesOf(b, row))
  <2>1. /\ IsFiniteSet(PlacesOf(a, row)) /\ IsFiniteSet(PlacesOf(b, row))
        /\ Cardinality(PlacesOf(a, row)) = Cardinality(PlacesOf(b, row))
    BY <1>1, <1>2, PlacesFinite
  <2>2. ExistsBijection(PlacesOf(a, row), PlacesOf(b, row))
    BY <2>1, FS_SameCardinalityBij
  <2> QED
    BY <2>2 DEF ExistsBijection
<1>3. ASSUME NEW row \in Row, ~row.dummy
      PROVE  /\ g(row) \in [PlacesOf(a, row) -> PlacesOf(b, row)]
             /\ \A i, j \in PlacesOf(a, row) : g(row)[i] = g(row)[j] => i = j
             /\ \A y \in PlacesOf(b, row) : \E i \in PlacesOf(a, row) : g(row)[i] = y
  <2> DEFINE f == g(row)
             A == PlacesOf(a, row)
             B == PlacesOf(b, row)
  <2>1. f \in Bijection(A, B)
    BY <1>2, <1>3
  <2> HIDE DEF f, A, B
  <2>2. /\ f \in [A -> B] /\ \A i, j \in A : f[i] = f[j] => i = j
        /\ \A y \in B : \E i \in A : f[i] = y
    BY <2>1 DEF Bijection, Injection, Surjection, IsInjective
  <2> QED
    BY <2>2 DEF f, A, B
<1> HIDE DEF g
<1>4. \A i \in RA : /\ a[i] \in Row /\ ~a[i].dummy /\ i \in PlacesOf(a, a[i])
                    /\ h[i] \in RB /\ b[h[i]] = a[i] /\ h[i] = g(a[i])[i]
  <2> SUFFICES ASSUME NEW i \in RA
      PROVE  /\ a[i] \in Row /\ ~a[i].dummy /\ i \in PlacesOf(a, a[i])
             /\ h[i] \in RB /\ b[h[i]] = a[i] /\ h[i] = g(a[i])[i]
    OBVIOUS
  <2>1. a[i] \in Row /\ ~a[i].dummy /\ i \in PlacesOf(a, a[i]) /\ h[i] = g(a[i])[i]
    BY <1>1 DEF PlacesOf
  <2>2. h[i] \in PlacesOf(b, a[i])
    BY <2>1, <1>3
  <2> HIDE DEF h
  <2> QED
    BY <2>1, <2>2 DEF PlacesOf
<1>5. h \in [RA -> RB]
  <2>1. h = [i \in RA |-> h[i]]
    OBVIOUS
  <2> HIDE DEF h
  <2> QED
    BY <1>4, <2>1
<1>6. \A i, j \in RA : h[i] = h[j] => i = j
  <2> SUFFICES ASSUME NEW i \in RA, NEW j \in RA, h[i] = h[j] PROVE i = j
    OBVIOUS
  <2> HIDE DEF h, RA
  <2>1. a[i] = a[j] /\ g(a[i])[i] = g(a[i])[j]
    BY <1>4
  <2> QED
    BY <2>1, <1>3, <1>4
<1>7. \A y \in RB : \E i \in RA : h[i] = y
  <2> SUFFICES ASSUME NEW y \in RB PROVE \E i \in RA : h[i] = y
    OBVIOUS
  <2>1. b[y] \in Row /\ ~b[y].dummy /\ y \in PlacesOf(b, b[y])
    BY <1>1 DEF PlacesOf
  <2>2. PICK i \in PlacesOf(a, b[y]) : g(b[y])[i] = y
    BY <2>1, <1>3
  <2>3. i \in RA /\ a[i] = b[y]
    BY <2>1, <2>2 DEF PlacesOf
  <2> QED
    BY <2>2, <2>3, <1>4
<1> HIDE DEF h
<1>8. /\ IsFiniteSet(DOMAIN a) /\ IsFiniteSet(DOMAIN b)
      /\ Cardinality(DOMAIN a) = Cardinality(DOMAIN b)
  BY <1>1, DomainFinite
<1>9. RA \in SUBSET DOMAIN a /\ RB \in SUBSET DOMAIN b
  OBVIOUS
<1>10. PlacesOf(a, Zero) = DOMAIN a \ RA /\ PlacesOf(b, Zero) = DOMAIN b \ RB
  BY ZeroFacts DEF PlacesOf, Tidy
<1> HIDE DEF RA, RB
<1>11. IsFiniteSet(RA) /\ Cardinality(RA) = Cardinality(RB)
  <2>1. IsFiniteSet(RA)
    BY <1>8, <1>9, FS_Subset
  <2> QED
    BY <2>1, <1>5, <1>6, <1>7, SameSize
<1>12. Count(a, Zero) = Count(b, Zero)
  <2>1. /\ Cardinality(DOMAIN a \ RA) = Cardinality(DOMAIN a) - Cardinality(DOMAIN a \cap RA)
        /\ Cardinality(DOMAIN b \ RB) = Cardinality(DOMAIN b) - Cardinality(DOMAIN b \cap RB)
    BY <1>8, FS_Difference
  <2>2. DOMAIN a \cap RA = RA /\ DOMAIN b \cap RB = RB
    BY <1>9
  <2> QED
    BY <2>1, <2>2, <1>1, <1>8, <1>10, <1>11, PlacesFinite
<1>13. ASSUME NEW row \in { a[i] : i \in DOMAIN a } \cup { b[i] : i \in DOMAIN b }
       PROVE  Count(a, row) = Count(b, row)
  <2>1. row \in Row /\ (row.dummy => row = Zero)
    BY <1>1 DEF Tidy
  <2> QED
    BY <2>1, <1>12
<1> QED
  BY <1>13 DEF equal

LEMMA CountConcat ==
  ASSUME NEW s \in Seq(Row), NEW t \in Seq(Row), NEW row
  PROVE  Count(s \o t, row) = Count(s, row) + Count(t, row)
<1>1. \A u : Count(u, row) = Cardinality(PlacesOf(u, row))
  BY DEF Count, PlacesOf
<1>2. Cardinality(PlacesOf(s \o t, row)) =
        Cardinality(PlacesOf(s, row)) + Cardinality(PlacesOf(t, row))
  BY PlacesOfConcat
<1> QED
  BY <1>1, <1>2

LEMMA PaddedTable ==
  ASSUME NEW t, Tidy(t), NEW n \in Nat
  PROVE  /\ Tidy(padZeros(t, n)) /\ Len(padZeros(t, n)) = Len(t) + n
         /\ \A row \in Row : ~row.dummy => Count(padZeros(t, n), row) = Count(t, row)
<1>1. /\ t \in Seq(Row) /\ Zeros(n) \in Seq(Row) /\ Len(Zeros(n)) = n
      /\ \A i \in DOMAIN Zeros(n) : Zeros(n)[i] = Zero
  BY ZeroFacts DEF Tidy, Zeros
<1>2. /\ t \o Zeros(n) \in Seq(Row) /\ Len(t \o Zeros(n)) = Len(t) + n
      /\ Len(t) \in Nat /\ DOMAIN (t \o Zeros(n)) = 1 .. Len(t) + n
      /\ DOMAIN t = 1 .. Len(t) /\ DOMAIN Zeros(n) = 1 .. n
  <2> DEFINE z == Zeros(n)
  <2>1. z \in Seq(Row) /\ Len(z) = n
    BY <1>1
  <2> HIDE DEF z
  <2>2. /\ t \o z \in Seq(Row) /\ Len(t \o z) = Len(t) + n
        /\ Len(t) \in Nat /\ DOMAIN (t \o z) = 1 .. Len(t) + n
        /\ DOMAIN t = 1 .. Len(t) /\ DOMAIN z = 1 .. n
    <3>1. t \o z \in Seq(Row) /\ Len(t \o z) = Len(t) + n
      BY <1>1, <2>1
    <3>2. DOMAIN t = 1 .. Len(t) /\ DOMAIN z = 1 .. n /\ Len(t) \in Nat
      BY <1>1, <2>1
    <3> QED
      BY <3>1, <3>2
  <2> QED
    BY <2>2 DEF z
<1>3. \A i \in 1 .. Len(t) + n :
        (t \o Zeros(n))[i] = IF i <= Len(t) THEN t[i] ELSE Zeros(n)[i - Len(t)]
  BY <1>1, ConcatProperties
<1>4. ASSUME NEW i \in 1 .. Len(t) + n, (t \o Zeros(n))[i].dummy
      PROVE  (t \o Zeros(n))[i] = Zero
  <2>1. CASE i <= Len(t)
    <3>1. i \in DOMAIN t /\ (t \o Zeros(n))[i] = t[i]
      BY <2>1, <1>2, <1>3
    <3> QED
      BY <3>1, <1>4 DEF Tidy
  <2>2. CASE ~(i <= Len(t))
    <3>1. i - Len(t) \in DOMAIN Zeros(n) /\ (t \o Zeros(n))[i] = Zeros(n)[i - Len(t)]
      BY <2>2, <1>2, <1>3
    <3> QED
      BY <3>1, <1>1
  <2> QED
    BY <2>1, <2>2
<1>5. ASSUME NEW row \in Row, ~row.dummy
      PROVE  Count(t \o Zeros(n), row) = Count(t, row)
  <2>1. PlacesOf(Zeros(n), row) = {}
    BY <1>1, <1>5, ZeroFacts DEF PlacesOf
  <2>2. Count(Zeros(n), row) = 0 /\ Count(t, row) \in Nat
    BY <1>1, <2>1, PlacesFinite
  <2> QED
    BY <1>1, <2>2, CountConcat
<1> QED
  BY <1>2, <1>4, <1>5 DEF Tidy, padZeros

(* Compacting keeps the real rows it is given, each where it occurs.       *)
LEMMA CompactedTable ==
  ASSUME NEW t \in Seq(Row), NEW U \in SUBSET DOMAIN t, \A i \in U : ~t[i].dummy
  PROVE  /\ Tidy(Compacted(t, U)) /\ Len(Compacted(t, U)) = Len(t)
         /\ \A row \in Row : ~row.dummy =>
              Count(Compacted(t, U), row) = Cardinality({ i \in U : t[i] = row })
<1> DEFINE c == Compacted(t, U)
           N == 1 .. Cardinality(U)
<1>1. /\ DOMAIN t = 1 .. Len(t) /\ Len(t) \in Nat
      /\ IsFiniteSet(DOMAIN t) /\ Cardinality(DOMAIN t) = Len(t)
  BY DomainFinite
<1>2. IsFiniteSet(U) /\ Cardinality(U) <= Len(t) /\ U \subseteq Nat
  BY <1>1, FS_Subset
<1>3. /\ Cardinality(U) \in Nat
      /\ \A n \in N : Nth(U, n) \in U
      /\ \A i \in U : \E n \in N : Nth(U, n) = i
      /\ \A m, n \in N : Nth(U, m) = Nth(U, n) => m = n
  BY <1>2, NthFacts
<1>4. /\ DOMAIN c = 1 .. Len(t)
      /\ \A n \in 1 .. Len(t) :
           c[n] = IF n <= Cardinality(U) THEN t[Nth(U, n)] ELSE Zero
      /\ c = [n \in 1 .. Len(t) |-> c[n]]
  BY <1>1 DEF Compacted
<1> HIDE DEF c
<1>5. \A n \in 1 .. Len(t) : c[n] \in Row /\ (c[n].dummy => c[n] = Zero)
  <2> SUFFICES ASSUME NEW n \in 1 .. Len(t)
      PROVE c[n] \in Row /\ (c[n].dummy => c[n] = Zero)
    OBVIOUS
  <2>1. CASE n <= Cardinality(U)
    <3>1. n \in N
      BY <2>1, <1>3
    <3>2. Nth(U, n) \in U /\ c[n] = t[Nth(U, n)]
      BY <2>1, <3>1, <1>3, <1>4
    <3> QED
      BY <3>2
  <2>2. CASE ~(n <= Cardinality(U))
    BY <2>2, <1>4, ZeroFacts
  <2> QED
    BY <2>1, <2>2
<1>6. c \in Seq(Row) /\ Len(c) = Len(t)
  BY <1>1, <1>4, <1>5
<1>7. Tidy(c)
  BY <1>4, <1>5, <1>6 DEF Tidy
<1>8. ASSUME NEW row \in Row, ~row.dummy
      PROVE  Count(c, row) = Cardinality({ i \in U : t[i] = row })
  <2> DEFINE P == PlacesOf(c, row)
             Q == { i \in U : t[i] = row }
             f == [n \in P |-> Nth(U, n)]
  <2>1. \A n \in P : n \in N /\ f[n] = Nth(U, n) /\ f[n] \in Q
    <3> SUFFICES ASSUME NEW n \in P PROVE n \in N /\ f[n] = Nth(U, n) /\ f[n] \in Q
      OBVIOUS
    <3>1. n \in 1 .. Len(t) /\ c[n] = row
      BY <1>4 DEF PlacesOf
    <3>2. n \in N
      BY <3>1, <1>3, <1>4, <1>8, ZeroFacts
    <3>3. Nth(U, n) \in U /\ t[Nth(U, n)] = row
      BY <3>1, <3>2, <1>3, <1>4
    <3> QED
      BY <3>2, <3>3
  <2>2. \A y \in Q : \E n \in P : f[n] = y
    <3> SUFFICES ASSUME NEW y \in Q PROVE \E n \in P : f[n] = y
      OBVIOUS
    <3>1. PICK n \in N : Nth(U, n) = y
      BY <1>3
    <3>2. n \in 1 .. Len(t) /\ n <= Cardinality(U)
      BY <1>1, <1>2, <1>3
    <3>3. c[n] = row
      BY <3>1, <3>2, <1>4
    <3>4. n \in P
      BY <3>2, <3>3, <1>4 DEF PlacesOf
    <3> QED
      BY <3>1, <3>4
  <2>3. f \in [P -> Q] /\ \A m, n \in P : f[m] = f[n] => m = n
    <3>1. f = [n \in P |-> f[n]]
      OBVIOUS
    <3> HIDE DEF f, P, Q, N
    <3> QED
      BY <2>1, <3>1, <1>3
  <2>4. IsFiniteSet(P) /\ Count(c, row) = Cardinality(P)
    BY <1>6, PlacesFinite
  <2> HIDE DEF f, P, Q
  <2>5. Cardinality(Q) = Cardinality(P)
    BY <2>2, <2>3, <2>4, SameSize
  <2> QED
    BY <2>4, <2>5 DEF Q
<1> QED
  BY <1>6, <1>7, <1>8 DEF c

LEMMA RealRowsCounted ==
  ASSUME NEW t \in Seq(Row), NEW row \in Row
  PROVE  row \in RealRows(t) <=> ~row.dummy /\ Count(t, row) # 0
<1>1. Count(t, row) # 0 <=> \E i \in DOMAIN t : t[i] = row
  BY PlacesFinite DEF PlacesOf
<1>2. row \in RealRows(t) <=> \E i \in DOMAIN t : ~t[i].dummy /\ t[i] = row
  BY DEF RealRows
<1> QED
  BY <1>1, <1>2

(* A table is what is left of it and what was matched of it, if each real  *)
(* row matched is matched as often as it occurs.                           *)
LEMMA DifferenceFacts ==
  ASSUME NEW t, Tidy(t), NEW matched, Tidy(matched), Len(matched) = Len(t),
         \A row \in RealRows(matched) : Count(matched, row) = Count(t, row)
  PROVE  /\ Tidy(hashSetDifference(t, matched)) /\ Len(hashSetDifference(t, matched)) = Len(t)
         /\ \A row \in Row : ~row.dummy =>
              Count(hashSetDifference(t, matched), row) =
                IF row \in RealRows(matched) THEN 0 ELSE Count(t, row)
         /\ equal(hashSetDifference(t, matched) \o matched, padZeros(t, Len(t)))
<1> DEFINE U == { i \in DOMAIN t : ~t[i].dummy /\ t[i] \notin RealRows(matched) }
           d == hashSetDifference(t, matched)
<1>1. t \in Seq(Row) /\ matched \in Seq(Row) /\ Len(t) \in Nat
  BY DEF Tidy
<1>2. d = Compacted(t, U)
  BY DEF hashSetDifference
<1>3. /\ Tidy(d) /\ Len(d) = Len(t)
      /\ \A row \in Row : ~row.dummy => Count(d, row) = Cardinality({ i \in U : t[i] = row })
  <2>1. U \in SUBSET DOMAIN t /\ \A i \in U : ~t[i].dummy
    OBVIOUS
  <2> HIDE DEF U, d
  <2> QED
    BY <1>1, <1>2, <2>1, CompactedTable
<1>4. ASSUME NEW row \in Row, ~row.dummy
      PROVE  Count(d, row) = IF row \in RealRows(matched) THEN 0 ELSE Count(t, row)
  <2>1. Count(d, row) = Cardinality({ i \in U : t[i] = row })
    BY <1>3, <1>4
  <2>2. CASE row \in RealRows(matched)
    <3>1. { i \in U : t[i] = row } = {}
      BY <2>2
    <3> QED
      BY <2>1, <2>2, <3>1, FS_EmptySet
  <2>3. CASE row \notin RealRows(matched)
    <3>1. { i \in U : t[i] = row } = PlacesOf(t, row)
      BY <2>3, <1>4 DEF PlacesOf
    <3> QED
      BY <2>1, <2>3, <3>1, <1>1, PlacesFinite
  <2> QED
    BY <2>2, <2>3
<1> HIDE DEF d
<1>5. d \in Seq(Row)
  BY <1>3 DEF Tidy
<1>6. /\ d \o matched \in Seq(Row) /\ Len(d \o matched) = Len(t) + Len(t)
      /\ DOMAIN (d \o matched) = 1 .. Len(t) + Len(t)
      /\ DOMAIN d = 1 .. Len(t) /\ DOMAIN matched = 1 .. Len(t)
  BY <1>1, <1>3, <1>5, ConcatProperties, SMTT(30)
<1>7. Tidy(d \o matched)
  <2> SUFFICES ASSUME NEW i \in 1 .. Len(t) + Len(t), (d \o matched)[i].dummy
      PROVE (d \o matched)[i] = Zero
    BY <1>6 DEF Tidy
  <2>1. (d \o matched)[i] = IF i <= Len(t) THEN d[i] ELSE matched[i - Len(t)]
    BY <1>1, <1>3, <1>5, <1>6, ConcatProperties
  <2>2. CASE i <= Len(t)
    <3>1. i \in DOMAIN d
      BY <2>2, <1>6
    <3> QED
      BY <3>1, <2>1, <2>2, <1>3 DEF Tidy
  <2>3. CASE ~(i <= Len(t))
    <3>1. i - Len(t) \in DOMAIN matched
      BY <2>3, <1>1, <1>6
    <3> QED
      BY <3>1, <2>1, <2>3 DEF Tidy
  <2> QED
    BY <2>2, <2>3
<1>8. /\ Tidy(padZeros(t, Len(t))) /\ Len(padZeros(t, Len(t))) = Len(t) + Len(t)
      /\ \A row \in Row : ~row.dummy => Count(padZeros(t, Len(t)), row) = Count(t, row)
  BY <1>1, PaddedTable
<1>9. ASSUME NEW row \in Row, ~row.dummy
      PROVE  Count(d \o matched, row) = Count(padZeros(t, Len(t)), row)
  <2>1. Count(d \o matched, row) = Count(d, row) + Count(matched, row)
    BY <1>1, <1>5, CountConcat
  <2>2. Count(d, row) \in Nat /\ Count(matched, row) \in Nat /\ Count(t, row) \in Nat
    BY <1>1, <1>5, PlacesFinite
  <2>3. row \in RealRows(matched) <=> Count(matched, row) # 0
    BY <1>1, <1>9, RealRowsCounted
  <2>4. row \in RealRows(matched) => Count(matched, row) = Count(t, row)
    OBVIOUS
  <2> QED
    BY <2>1, <2>2, <2>3, <2>4, <1>4, <1>8, <1>9
<1>10. equal(d \o matched, padZeros(t, Len(t)))
  <2>1. Len(d \o matched) = Len(padZeros(t, Len(t)))
    BY <1>6, <1>8
  <2> QED
    BY <2>1, <1>7, <1>8, <1>9, EqualByReal
<1> QED
  BY <1>3, <1>4, <1>10 DEF d

LEMMA RowLessOrders == IsStrictOrder(Row, RowLess)
<1>1. \A a, b \in Row : <<a, b>> \in RowLess <=>
        \/ ~a.dummy /\ b.dummy
        \/ /\ a.dummy = b.dummy
           /\ \/ a.key < b.key
              \/ a.key = b.key /\ a.pay < b.pay
  BY DEF RowLess
<1>2. \A a \in Row : <<a, a>> \notin RowLess
  <2> SUFFICES ASSUME NEW a \in Row PROVE <<a, a>> \notin RowLess
    OBVIOUS
  <2>1. ~(a.key < a.key) /\ ~(a.pay < a.pay)
    BY ZeroFacts
  <2> QED
    BY <1>1, <2>1
<1>3. \A a, b \in Row : a # b => <<a, b>> \in RowLess \/ <<b, a>> \in RowLess
  <2> SUFFICES ASSUME NEW a \in Row, NEW b \in Row, a # b
      PROVE  <<a, b>> \in RowLess \/ <<b, a>> \in RowLess
    OBVIOUS
  <2>1. a.dummy # b.dummy \/ a.key # b.key \/ a.pay # b.pay
    BY DEF Row
  <2>2. /\ a.key \in Nat /\ b.key \in Nat /\ a.pay \in Nat /\ b.pay \in Nat
        /\ a.dummy \in BOOLEAN /\ b.dummy \in BOOLEAN
    BY ZeroFacts
  <2> QED
    BY <1>1, <2>1, <2>2
<1>4. ASSUME NEW a \in Row, NEW b \in Row, NEW c \in Row,
             <<a, b>> \in RowLess, <<b, c>> \in RowLess
      PROVE  <<a, c>> \in RowLess
  <2>1. /\ a.key \in Nat /\ b.key \in Nat /\ c.key \in Nat
        /\ a.pay \in Nat /\ b.pay \in Nat /\ c.pay \in Nat
        /\ a.dummy \in BOOLEAN /\ b.dummy \in BOOLEAN /\ c.dummy \in BOOLEAN
    BY ZeroFacts
  <2> QED
    BY <1>1, <1>4, <2>1
<1> QED
  BY <1>2, <1>3, <1>4 DEF IsStrictOrder

(* No dummy is sorted before a real row.                                   *)
LEMMA RealFirst ==
  ASSUME NEW a \in Row, NEW b \in Row, <<a, b>> \in RowLess \/ a = b, ~b.dummy
  PROVE  ~a.dummy
BY ZeroFacts DEF RowLess

(* What is between two equal rows is equal to them.                        *)
LEMMA Between ==
  ASSUME NEW a \in Row, NEW b \in Row,
         <<a, b>> \in RowLess \/ a = b, <<b, a>> \in RowLess \/ a = b
  PROVE  a = b
BY RowLessOrders DEF IsStrictOrder

(* zeroOutDupes leaves each real row once.                                 *)
LEMMA ZeroOutDupesFacts ==
  ASSUME NEW t, Tidy(t)
  PROVE  /\ Tidy(zeroOutDupes(t)) /\ Len(zeroOutDupes(t)) = Len(t)
         /\ \A row \in Row : ~row.dummy =>
              Count(zeroOutDupes(t), row) = IF row \in RealRows(t) THEN 1 ELSE 0
<1> DEFINE s == SortedBy(t, RowLess)
           z == zeroOutDupes(t)
           D == 1 .. Len(t)
<1>1. t \in Seq(Row) /\ DOMAIN t = D /\ Len(t) \in Nat
  BY DomainFinite DEF Tidy
<1>2. /\ \E p \in Bijection(DOMAIN t, DOMAIN t) : s = [n \in DOMAIN t |-> t[p[n]]]
      /\ \A m, n \in DOMAIN t : m < n => <<s[m], s[n]>> \in RowLess \/ s[m] = s[n]
  BY <1>1, RowLessOrders, SortedFacts
<1> HIDE DEF s
<1>3. PICK p \in Bijection(D, D) : s = [n \in D |-> t[p[n]]]
  BY <1>1, <1>2
<1>4. p \in [D -> D] /\ \A y \in D : \E i \in D : p[i] = y
  <2> DEFINE E == D
  <2>1. p \in Bijection(E, E)
    BY <1>3
  <2> HIDE DEF E
  <2>2. p \in [E -> E] /\ \A y \in E : \E i \in E : p[i] = y
    BY <2>1, Permutation
  <2> QED
    BY <2>2 DEF E
<1>5. /\ DOMAIN s = D
      /\ \A n \in D : s[n] \in Row /\ s[n] = t[p[n]] /\ (s[n].dummy => s[n] = Zero)
  <2>1. DOMAIN s = D /\ \A n \in D : s[n] = t[p[n]] /\ p[n] \in D
    BY <1>3, <1>4
  <2>2. \A i \in D : t[i] \in Row /\ (t[i].dummy => t[i] = Zero)
    BY <1>1 DEF Tidy
  <2> QED
    BY <2>1, <2>2
<1>6. \A m, n \in D : m < n => <<s[m], s[n]>> \in RowLess \/ s[m] = s[n]
  BY <1>1, <1>2
<1> DEFINE cleared(i) == i > 1 /\ (s[i].dummy \/ DataOf(s[i - 1]) = DataOf(s[i]))
<1>7. DOMAIN z = D /\ \A i \in D : z[i] = IF cleared(i) THEN Zero ELSE s[i]
  <2>1. z = [i \in DOMAIN s |-> IF cleared(i) THEN Zero ELSE s[i]]
    BY DEF zeroOutDupes, s
  <2> HIDE DEF z, cleared
  <2> QED
    BY <2>1, <1>5
<1>8. z = [i \in D |-> z[i]]
  BY <1>5 DEF zeroOutDupes, s
<1> HIDE DEF z
<1>9. \A i \in D : z[i] \in Row /\ (z[i].dummy => z[i] = Zero)
  BY <1>5, <1>7, ZeroFacts
<1>10. z \in Seq(Row) /\ Len(z) = Len(t)
  BY <1>1, <1>8, <1>9
<1>11. Tidy(z)
  BY <1>7, <1>9, <1>10 DEF Tidy
<1>12. ASSUME NEW a \in Row, NEW b \in Row
       PROVE  DataOf(a) = DataOf(b) /\ a.dummy = b.dummy => a = b
  BY DEF DataOf, Row
<1>13. ASSUME NEW row \in Row, ~row.dummy, row \in RealRows(t)
       PROVE  Count(z, row) = 1
  <2> DEFINE P == { n \in D : s[n] = row }
             f == CHOOSE n \in P : \A m \in P : n <= m
  <2>1. P # {} /\ P \subseteq Nat
    <3>1. PICK i \in D : t[i] = row
      BY <1>1, <1>13 DEF RealRows
    <3>2. PICK n \in D : p[n] = i
      BY <1>4
    <3>3. s[n] = row
      BY <1>5, <3>1, <3>2
    <3>4. n \in P
      BY <3>3
    <3> QED
      BY <3>4
  <2>2. f \in P /\ \A m \in P : f <= m
    <3> HIDE DEF P
    <3>1. \E n \in P : \A m \in P : n <= m
      BY <2>1, LeastNumber
    <3> QED
      BY <3>1
  <2> HIDE DEF f
  <2>3. f \in D /\ s[f] = row /\ f \in Nat
    BY <2>2
  <2>4. z[f] = row
    <3>1. ~s[f].dummy
      BY <1>13, <2>3
    <3>2. ASSUME f > 1 PROVE DataOf(s[f - 1]) # DataOf(s[f])
      <4>1. f - 1 \in D /\ f - 1 < f
        BY <2>3, <3>2
      <4>2. <<s[f - 1], s[f]>> \in RowLess \/ s[f - 1] = s[f]
        BY <4>1, <2>3, <1>6
      <4>3. ~s[f - 1].dummy
        BY <4>1, <4>2, <3>1, <2>3, <1>5, RealFirst
      <4>4. s[f - 1] # row
        <5>1. f - 1 \notin P
          BY <2>2, <4>1, <2>3
        <5> QED
          BY <4>1, <5>1
      <4>5. s[f - 1] \in Row /\ s[f] \in Row
        BY <4>1, <2>3, <1>5
      <4>6. s[f - 1].dummy = s[f].dummy
        BY <4>3, <3>1, <4>5, ZeroFacts
      <4> QED
        BY <4>4, <4>5, <4>6, <2>3, <1>12
    <3>3. ~cleared(f)
      BY <3>1, <3>2
    <3> HIDE DEF cleared
    <3> QED
      BY <3>3, <2>3, <1>7
  <2>5. ASSUME NEW n \in D, z[n] = row PROVE n = f
    <3>1. ~cleared(n) /\ s[n] = row
      <4> HIDE DEF cleared
      <4> QED
        BY <2>5, <1>7, <1>13, ZeroFacts
    <3>2. f <= n /\ n \in Nat
      BY <3>1, <2>2
    <3>3. CASE f < n
      <4>1. n - 1 \in D /\ n - 1 < n /\ n > 1 /\ (f < n - 1 \/ f = n - 1)
        BY <2>3, <3>2, <3>3
      <4>2. /\ s[n - 1] \in Row
            /\ <<row, s[n - 1]>> \in RowLess \/ row = s[n - 1]
            /\ <<s[n - 1], row>> \in RowLess \/ row = s[n - 1]
        BY <4>1, <2>3, <3>1, <1>5, <1>6
      <4>3. s[n - 1] = row
        BY <4>2, Between
      <4> QED
        BY <4>1, <4>3, <3>1
    <3> QED
      BY <2>3, <3>2, <3>3
  <2>6. PlacesOf(z, row) = {f}
    BY <2>3, <2>4, <2>5, <1>7 DEF PlacesOf
  <2> QED
    BY <2>6, <1>10, PlacesFinite, FS_Singleton
<1>14. ASSUME NEW row \in Row, ~row.dummy, row \notin RealRows(t)
       PROVE  Count(z, row) = 0
  <2>1. ASSUME NEW n \in D PROVE z[n] # row
    <3>1. s[n] # row
      <4>1. p[n] \in D /\ s[n] = t[p[n]]
        BY <1>4, <1>5
      <4> QED
        BY <4>1, <1>1, <1>14 DEF RealRows
    <3> QED
      BY <3>1, <1>7, <1>14, ZeroFacts
  <2>2. PlacesOf(z, row) = {}
    BY <2>1, <1>7 DEF PlacesOf
  <2> QED
    BY <2>2, <1>10, PlacesFinite
<1> QED
  BY <1>10, <1>11, <1>13, <1>14 DEF z

-----------------------------------------------------------------------------
(* The invariant.                                                          *)

(* Alice's hash table has the real rows of the primary-key table.          *)
LookedUp ==
  /\ DOMAIN lookup = { row.key : row \in RealRows(pk) }
  /\ \A k \in DOMAIN lookup : lookup[k] \in RealRows(pk) /\ lookup[k].key = k

(* What was placed are the rows probed that have a match, as often as they *)
(* occur; the rest is padding.                                             *)
Fetched ==
  /\ Len(temp) = outputTupleCount
  /\ \A i \in 1 .. placed :
       /\ Matched(temp[i].fk)
       /\ temp[i].pk = lookup[temp[i].fk.key]
  /\ \A i \in placed + 1 .. Len(temp) : temp[i] = ZeroPair
  /\ \A row \in Row : Matched(row) =>
       Cardinality({ i \in 1 .. placed : temp[i].fk = row }) =
       Cardinality({ j \in 1 .. cursor : fk[j] = row })

Written ==
  /\ cursor = Len(fk)
  /\ output = [i \in DOMAIN temp |-> JoinTuples(temp[i])]

MatchedOf(side) == IF side = "fk" THEN Projected(side) ELSE zeroOutDupes(Projected(side))
Difference(side) == hashSetDifference(Padded(side), MatchedOf(side))

SetAside ==
  /\ \A side \in Side : delta[side] = << >> \/ delta[side] = Difference(side)
  /\ pc = "right" => delta[left] = Difference(left)
  /\ pc \in {"disjoint", "accepted"} => \A side \in Side : delta[side] = Difference(side)

IndInv ==
  /\ TypeOK
  /\ pc = "build" => cursor = 0 /\ placed = 0
  /\ pc # "build" => LookedUp /\ Fetched
  /\ pc \in {"build", "probe"} => output = << >> /\ delta = [side \in Side |-> << >>]
  /\ pc \notin {"build", "probe"} => Written /\ SetAside
  /\ NeverRejected

(* The tables are as the assumptions say.                                  *)
LEMMA TableFacts ==
  ASSUME TypeOK
  PROVE  /\ Tidy(fk) /\ Tidy(pk)
         /\ Len(fk) \in Nat /\ Len(pk) \in Nat
         /\ DOMAIN fk = 1 .. Len(fk) /\ DOMAIN pk = 1 .. Len(pk)
         /\ outputTupleCount \in Nat
         /\ Len(fk) <= outputTupleCount /\ Len(pk) <= outputTupleCount
         /\ \A i, j \in DOMAIN pk : pk[i].key = pk[j].key /\ i # j =>
              pk[i].dummy \/ pk[j].dummy
<1>1. PICK in \in Inputs : in.fk = fk /\ in.pk = pk
  BY DEF TypeOK
<1>2. fk \in Seq(Row) /\ pk \in Seq(Row)
  BY <1>1, InputsAssumption
<1>3. /\ \A i \in DOMAIN fk : fk[i].dummy => fk[i] = Zero
      /\ \A i \in DOMAIN pk : pk[i].dummy => pk[i] = Zero
  BY <1>1, ZeroedAssumption
<1>4. \A i, j \in DOMAIN pk : pk[i].key = pk[j].key /\ i # j =>
         pk[i].dummy \/ pk[j].dummy
  BY <1>1, KeyedAssumption
<1> QED
  BY <1>2, <1>3, <1>4 DEF Tidy, outputTupleCount

LEMMA RealRowsOfPk ==
  ASSUME TypeOK
  PROVE  /\ \A row \in RealRows(pk) : row \in Row /\ ~row.dummy
         /\ \A a, b \in RealRows(pk) : a.key = b.key => a = b
         /\ \A row \in RealRows(pk) : Count(pk, row) = 1
<1>1. /\ pk \in Seq(Row)
      /\ \A i, j \in DOMAIN pk : pk[i].key = pk[j].key /\ i # j =>
           pk[i].dummy \/ pk[j].dummy
  BY TableFacts DEF Tidy
<1>2. \A row \in RealRows(pk) : row \in Row /\ ~row.dummy
  BY <1>1 DEF RealRows
<1>3. \A a, b \in RealRows(pk) : a.key = b.key => a = b
  BY <1>1 DEF RealRows
<1>4. ASSUME NEW row \in RealRows(pk) PROVE Count(pk, row) = 1
  <2>1. PICK i \in DOMAIN pk : ~pk[i].dummy /\ pk[i] = row
    BY DEF RealRows
  <2>2. PlacesOf(pk, row) = {i}
    BY <1>1, <2>1 DEF PlacesOf
  <2> QED
    BY <2>2, <1>1, PlacesFinite, FS_Singleton
<1> QED
  BY <1>2, <1>3, <1>4

LEMMA InitInv == Init => IndInv
<1> SUFFICES ASSUME Init PROVE IndInv
  OBVIOUS
<1>1. PICK in \in Inputs : fk = in.fk /\ pk = in.pk
  BY DEF Init
<1>2. [fk |-> fk, pk |-> pk] \in Inputs
  <2>1. [fk |-> in.fk, pk |-> in.pk] = in
    BY InputsAssumption
  <2> QED
    BY <1>1, <2>1
<1> QED
  BY <1>2 DEF Init, IndInv, TypeOK, NeverRejected, Side

-----------------------------------------------------------------------------
(* Computing the join.                                                     *)

LEMMA BuildStep == IndInv /\ Build => IndInv'
<1> SUFFICES ASSUME IndInv, Build PROVE IndInv'
  OBVIOUS
<1> DEFINE reals == { j \in DOMAIN pk : ~pk[j].dummy }
<1>1. /\ TypeOK /\ cursor = 0 /\ placed = 0 /\ output = << >>
      /\ delta = [side \in Side |-> << >>] /\ pc = "build"
  BY DEF IndInv, Build
<1>2. /\ pk \in Seq(Row) /\ outputTupleCount \in Nat
      /\ Len(fk) \in Nat /\ \A i \in DOMAIN pk : pk[i] \in Row
  BY <1>1, TableFacts DEF Tidy
<1>3. /\ pc' = "probe"
      /\ lookup' = [k \in { pk[i].key : i \in reals } |-> FirstWith(k)]
      /\ temp' = [i \in 1 .. outputTupleCount |-> ZeroPair]
      /\ UNCHANGED <<fk, pk, left, cursor, placed, output, delta>>
  BY DEF Build
<1>4. ASSUME NEW k \in { pk[i].key : i \in reals }
      PROVE  FirstWith(k) \in RealRows(pk) /\ FirstWith(k).key = k /\ k \in Keys
  <2>1. RealWith(k) # {} /\ RealWith(k) \subseteq Nat
    BY <1>2 DEF RealWith
  <2>2. \E i \in RealWith(k) : \A j \in RealWith(k) : i <= j
    BY <2>1, LeastNumber
  <2>3. PICK i \in RealWith(k) : FirstWith(k) = pk[i]
    BY <2>2 DEF FirstWith
  <2> QED
    BY <2>3, <1>2, ZeroFacts DEF RealWith, RealRows
<1>5. LookedUp'
  <2>1. DOMAIN lookup' = { pk[i].key : i \in reals }
    BY <1>3
  <2>2. { pk[i].key : i \in reals } = { row.key : row \in RealRows(pk) }
    BY DEF RealRows
  <2>3. \A k \in DOMAIN lookup' : lookup'[k] = FirstWith(k)
    BY <1>3
  <2>4. RealRows(pk)' = RealRows(pk)
    BY <1>3 DEF RealRows
  <2> QED
    BY <2>1, <2>2, <2>3, <2>4, <1>4 DEF LookedUp
<1>6. outputTupleCount' = outputTupleCount
  BY <1>3 DEF outputTupleCount
<1>7. Len(temp') = outputTupleCount /\ temp' \in Seq([fk : Row, pk : Row])
  BY <1>2, <1>3, ZeroFacts DEF ZeroPair
<1>8. Fetched'
  <2>1. \A i \in 1 .. placed' : FALSE
    BY <1>1, <1>3
  <2>2. \A i \in placed' + 1 .. Len(temp') : temp'[i] = ZeroPair
    BY <1>1, <1>2, <1>3, <1>7
  <2>3. ASSUME NEW row \in Row
        PROVE  Cardinality({ i \in 1 .. placed' : temp'[i].fk = row }) =
               Cardinality({ j \in 1 .. cursor' : fk'[j] = row })
    <3>1. /\ { i \in 1 .. placed' : temp'[i].fk = row } = {}
          /\ { j \in 1 .. cursor' : fk'[j] = row } = {}
      BY <1>1, <1>3
    <3> QED
      BY <3>1
  <2> QED
    BY <2>1, <2>2, <2>3, <1>6, <1>7 DEF Fetched
<1>9. TypeOK'
  <2>1. \A k \in DOMAIN lookup' : k \in Keys /\ lookup'[k] \in Row
    BY <1>2, <1>3, <1>4 DEF RealRows
  <2>2. DOMAIN lookup' \subseteq Keys /\ \A k \in DOMAIN lookup' : lookup'[k] \in Row
    BY <2>1
  <2>3. placed' <= Len(temp') /\ cursor' \in 0 .. Len(fk') /\ placed' \in 0 .. cursor'
    BY <1>1, <1>2, <1>3, <1>7
  <2>4. /\ [fk |-> fk', pk |-> pk'] \in Inputs /\ left' \in Side
        /\ output' \in Seq([fk : Data, pk : Data, dummy : BOOLEAN])
        /\ delta' \in [Side -> Seq(Row)]
    BY <1>1, <1>3 DEF TypeOK
  <2> QED
    BY <1>3, <1>7, <2>2, <2>3, <2>4 DEF TypeOK
<1> QED
  BY <1>1, <1>3, <1>5, <1>8, <1>9 DEF IndInv, NeverRejected

LEMMA ProbeStep == IndInv /\ Probe => IndInv'
<1> SUFFICES ASSUME IndInv, Probe PROVE IndInv'
  OBVIOUS
<1> DEFINE row == fk[cursor + 1]
<1>1. /\ TypeOK /\ LookedUp /\ Fetched /\ output = << >>
      /\ delta = [side \in Side |-> << >>] /\ pc = "probe" /\ cursor < Len(fk)
  BY DEF IndInv, Probe
<1>2. /\ fk \in Seq(Row) /\ Len(fk) \in Nat /\ outputTupleCount \in Nat
      /\ Len(fk) <= outputTupleCount
  BY <1>1, TableFacts DEF Tidy
<1>3. /\ cursor \in Nat /\ placed \in Nat /\ placed <= cursor
      /\ temp \in Seq([fk : Row, pk : Row]) /\ Len(temp) = outputTupleCount
      /\ \A k \in DOMAIN lookup : lookup[k] \in Row
  BY <1>1 DEF TypeOK, Fetched
<1>4. row \in Row /\ placed + 1 \in DOMAIN temp
  BY <1>1, <1>2, <1>3
<1>5. /\ cursor' = cursor + 1
      /\ UNCHANGED <<fk, pk, left, pc, lookup, output, delta>>
  BY DEF Probe
<1>6. LookedUp' /\ outputTupleCount' = outputTupleCount
  BY <1>1, <1>5 DEF LookedUp, RealRows, outputTupleCount
<1>7. \A r : Matched(r)' = Matched(r)
  BY <1>5 DEF Matched
<1> DEFINE seen(r) == { j \in 1 .. cursor : fk[j] = r }
           have(r) == { i \in 1 .. placed : temp[i].fk = r }
<1>8. \A r : IsFiniteSet(seen(r)) /\ IsFiniteSet(have(r))
  <2>1. IsFiniteSet(1 .. cursor) /\ IsFiniteSet(1 .. placed)
    <3>1. 1 \in Int /\ cursor \in Int /\ placed \in Int
      BY <1>3
    <3> QED
      BY <3>1, FS_Interval
  <2>2. \A r : seen(r) \in SUBSET (1 .. cursor) /\ have(r) \in SUBSET (1 .. placed)
    OBVIOUS
  <2> HIDE DEF seen, have
  <2> QED
    BY <2>1, <2>2, FS_Subset
<1>9. \A r : { j \in 1 .. cursor' : fk'[j] = r } =
             IF r = row THEN seen(r) \cup {cursor + 1} ELSE seen(r)
  BY <1>3, <1>5
<1>10. \A r : cursor + 1 \notin seen(r) /\ placed + 1 \notin have(r)
  BY <1>3
<1>11. \A r \in Row : Matched(r) => Cardinality(have(r)) = Cardinality(seen(r))
  BY <1>1 DEF Fetched
<1>12. CASE Matched(row)
  <2> DEFINE pair == [fk |-> row, pk |-> lookup[row.key]]
  <2>1. placed' = placed + 1 /\ temp' = [temp EXCEPT ![placed + 1] = pair]
    BY <1>12 DEF Probe
  <2>2. pair \in [fk : Row, pk : Row] /\ pair.fk = row /\ pair.pk = lookup[row.key]
    BY <1>3, <1>4, <1>12 DEF Matched
  <2> HIDE DEF pair
  <2>3. /\ temp' \in Seq([fk : Row, pk : Row]) /\ Len(temp') = Len(temp)
        /\ \A i \in DOMAIN temp : temp'[i] = IF i = placed + 1 THEN pair ELSE temp[i]
    BY <1>3, <1>4, <2>1, <2>2
  <2>4. 1 .. placed + 1 \subseteq DOMAIN temp
    BY <1>3, <1>4
  <2>5. \A i \in 1 .. placed' : Matched(temp'[i].fk) /\ temp'[i].pk = lookup[temp'[i].fk.key]
    <3> SUFFICES ASSUME NEW i \in 1 .. placed + 1
        PROVE  Matched(temp'[i].fk) /\ temp'[i].pk = lookup[temp'[i].fk.key]
      BY <2>1
    <3>1. CASE i = placed + 1
      BY <3>1, <1>12, <2>2, <2>3, <2>4
    <3>2. CASE i # placed + 1
      <4>1. i \in 1 .. placed /\ i \in DOMAIN temp
        BY <3>2, <1>3, <2>4
      <4>2. temp'[i] = temp[i]
        BY <3>2, <2>3, <4>1
      <4>3. Matched(temp[i].fk) /\ temp[i].pk = lookup[temp[i].fk.key]
        BY <1>1, <4>1 DEF Fetched
      <4> QED
        BY <4>2, <4>3
    <3> QED
      BY <3>1, <3>2
  <2>6. \A i \in placed' + 1 .. Len(temp') : temp'[i] = ZeroPair
    BY <1>1, <1>3, <2>1, <2>3 DEF Fetched
  <2>7. \A r : { i \in 1 .. placed' : temp'[i].fk = r } =
              IF r = row THEN have(r) \cup {placed + 1} ELSE have(r)
    <3>1. \A i \in 1 .. placed : temp'[i] = temp[i]
      BY <1>3, <2>3, <2>4
    <3>2. temp'[placed + 1].fk = row /\ 1 .. placed' = (1 .. placed) \cup {placed + 1}
      BY <1>3, <1>4, <2>1, <2>2, <2>3
    <3> QED
      BY <3>1, <3>2
  <2>8. ASSUME NEW r \in Row, Matched(r)
        PROVE  Cardinality({ i \in 1 .. placed' : temp'[i].fk = r }) =
               Cardinality({ j \in 1 .. cursor' : fk'[j] = r })
    <3> HIDE DEF seen, have, row
    <3>1. CASE r = row
      <4>1. /\ Cardinality(have(r) \cup {placed + 1}) = Cardinality(have(r)) + 1
            /\ Cardinality(seen(r) \cup {cursor + 1}) = Cardinality(seen(r)) + 1
        BY <1>8, <1>10, FS_AddElement
      <4> QED
        BY <4>1, <3>1, <1>9, <1>11, <2>7, <2>8
    <3>2. CASE r # row
      BY <3>2, <1>9, <1>11, <2>7, <2>8
    <3> QED
      BY <3>1, <3>2
  <2>9. Fetched'
    <3> HIDE DEF row
    <3> QED
      BY <1>1, <1>5, <1>6, <1>7, <2>3, <2>5, <2>6, <2>8 DEF Fetched
  <2>10. TypeOK'
    BY <1>1, <1>2, <1>3, <1>4, <1>5, <2>1, <2>3 DEF TypeOK
  <2> QED
    BY <1>1, <1>5, <1>6, <2>9, <2>10 DEF IndInv, NeverRejected
<1>13. CASE ~Matched(row)
  <2>1. placed' = placed /\ temp' = temp
    BY <1>13 DEF Probe
  <2>2. ASSUME NEW r \in Row, Matched(r)
        PROVE  Cardinality({ i \in 1 .. placed' : temp'[i].fk = r }) =
               Cardinality({ j \in 1 .. cursor' : fk'[j] = r })
    <3>1. r # row
      BY <1>13, <2>2
    <3> HIDE DEF row
    <3> QED
      BY <3>1, <1>9, <1>11, <2>1, <2>2
  <2>3. Fetched'
    <3> HIDE DEF row
    <3> QED
      BY <1>1, <1>5, <1>6, <1>7, <2>1, <2>2 DEF Fetched
  <2>4. TypeOK'
    BY <1>1, <1>2, <1>3, <1>5, <2>1 DEF TypeOK
  <2> QED
    BY <1>1, <1>5, <1>6, <2>3, <2>4 DEF IndInv, NeverRejected
<1> QED
  BY <1>12, <1>13

(* Each pair is a match of two real rows, or padding.                      *)
LEMMA TempPairs ==
  ASSUME TypeOK, LookedUp, Fetched
  PROVE  /\ DOMAIN temp = 1 .. outputTupleCount
         /\ \A i \in DOMAIN temp :
              /\ temp[i] \in [fk : Row, pk : Row] /\ Predicate(temp[i])
              /\ \/ /\ i \in 1 .. placed /\ Matched(temp[i].fk)
                    /\ temp[i].pk = lookup[temp[i].fk.key]
                    /\ temp[i].pk \in RealRows(pk)
                    /\ ~temp[i].fk.dummy /\ ~temp[i].pk.dummy
                 \/ i \notin 1 .. placed /\ temp[i] = ZeroPair
<1>1. /\ temp \in Seq([fk : Row, pk : Row]) /\ Len(temp) = outputTupleCount
      /\ placed \in Nat
  BY DEF TypeOK, Fetched
<1> SUFFICES ASSUME NEW i \in DOMAIN temp
    PROVE /\ temp[i] \in [fk : Row, pk : Row] /\ Predicate(temp[i])
          /\ \/ /\ i \in 1 .. placed /\ Matched(temp[i].fk)
                /\ temp[i].pk = lookup[temp[i].fk.key]
                /\ temp[i].pk \in RealRows(pk)
                /\ ~temp[i].fk.dummy /\ ~temp[i].pk.dummy
             \/ i \notin 1 .. placed /\ temp[i] = ZeroPair
  BY <1>1
<1>2. CASE i \in 1 .. placed
  <2>1. Matched(temp[i].fk) /\ temp[i].pk = lookup[temp[i].fk.key]
    BY <1>2 DEF Fetched
  <2>2. /\ temp[i].fk.key \in DOMAIN lookup /\ ~temp[i].fk.dummy
        /\ temp[i].pk \in RealRows(pk) /\ temp[i].pk.key = temp[i].fk.key
    BY <2>1 DEF Matched, LookedUp
  <2>3. ~temp[i].pk.dummy
    BY <2>2, RealRowsOfPk
  <2>4. Predicate(temp[i])
    BY <2>2 DEF Predicate
  <2>5. temp[i] \in [fk : Row, pk : Row]
    BY <1>1, ElementType
  <2> QED
    BY <1>2, <2>1, <2>2, <2>3, <2>4, <2>5
<1>3. CASE i \notin 1 .. placed
  <2>1. i \in placed + 1 .. Len(temp)
    BY <1>1, <1>3
  <2> QED
    BY <1>1, <1>3, <2>1 DEF Fetched, Predicate, ZeroPair
<1> QED
  BY <1>2, <1>3

LEMMA PredicateStep == IndInv /\ VerifyPredicate => IndInv'
<1> SUFFICES ASSUME IndInv, VerifyPredicate PROVE IndInv'
  OBVIOUS
<1>1. /\ TypeOK /\ LookedUp /\ Fetched /\ pc = "probe" /\ cursor = Len(fk)
      /\ delta = [side \in Side |-> << >>]
  BY DEF IndInv, VerifyPredicate
<1>2. /\ output' = [i \in DOMAIN temp |-> JoinTuples(temp[i])]
      /\ UNCHANGED <<fk, pk, left, lookup, cursor, temp, placed, delta>>
  BY DEF VerifyPredicate
<1>3. pc' = "left"
  BY <1>1, TempPairs DEF VerifyPredicate, Proven
<1>4. output' \in Seq([fk : Data, pk : Data, dummy : BOOLEAN])
  <2>1. ASSUME NEW i \in DOMAIN temp
        PROVE  JoinTuples(temp[i]) \in [fk : Data, pk : Data, dummy : BOOLEAN]
    <3>1. temp[i] \in [fk : Row, pk : Row]
      BY <1>1, TempPairs
    <3>2. DataOf(temp[i].fk) \in Data /\ DataOf(temp[i].pk) \in Data
      BY <3>1 DEF DataOf, Data, Row
    <3>3. (~Predicate(temp[i]) \/ temp[i].fk.dummy \/ temp[i].pk.dummy) \in BOOLEAN
      OBVIOUS
    <3> QED
      BY <3>2, <3>3 DEF JoinTuples
  <2>2. DOMAIN temp = 1 .. outputTupleCount /\ outputTupleCount \in Nat
    BY <1>1, TempPairs, TableFacts
  <2> QED
    BY <1>2, <2>1, <2>2
<1>5. TypeOK'
  BY <1>1, <1>2, <1>3, <1>4 DEF TypeOK
<1>6. LookedUp' /\ Fetched'
  <2>1. outputTupleCount' = outputTupleCount /\ RealRows(pk)' = RealRows(pk)
    BY <1>2 DEF outputTupleCount, RealRows
  <2>2. \A r : Matched(r)' = Matched(r)
    BY <1>2 DEF Matched
  <2> QED
    BY <1>1, <1>2, <2>1, <2>2 DEF LookedUp, Fetched
<1>7. Written' /\ SetAside'
  BY <1>1, <1>2, <1>3 DEF Written, SetAside
<1> QED
  BY <1>3, <1>5, <1>6, <1>7 DEF IndInv, NeverRejected

-----------------------------------------------------------------------------
(* What was matched.                                                       *)

Computed == TypeOK /\ LookedUp /\ Fetched /\ Written

Other(side) == IF side = "fk" THEN pk ELSE fk
Partner(side, row) == \E r \in RealRows(Other(side)) : r.key = row.key

(* The columns of a side of the output are the rows that were placed.      *)
LEMMA ProjectedFacts ==
  ASSUME Computed, NEW side \in Side
  PROVE  /\ Tidy(Projected(side)) /\ Len(Projected(side)) = outputTupleCount
         /\ DOMAIN Projected(side) = DOMAIN temp
         /\ \A i \in DOMAIN temp : Projected(side)[i] = temp[i][side]
<1>1. TypeOK /\ LookedUp /\ Fetched /\ Written
  BY DEF Computed
<1>2. /\ DOMAIN temp = 1 .. outputTupleCount /\ outputTupleCount \in Nat
      /\ output = [i \in DOMAIN temp |-> JoinTuples(temp[i])]
  BY <1>1, TempPairs, TableFacts DEF Written
<1>3. ASSUME NEW i \in DOMAIN temp
      PROVE  /\ Projected(side)[i] = temp[i][side]
             /\ temp[i][side] \in Row
             /\ temp[i][side].dummy => temp[i][side] = Zero
  <2>1. /\ temp[i] \in [fk : Row, pk : Row] /\ Predicate(temp[i])
        /\ \/ ~temp[i].fk.dummy /\ ~temp[i].pk.dummy
           \/ temp[i] = ZeroPair
    BY <1>1, TempPairs
  <2>2. /\ temp[i].fk \in Row /\ temp[i].pk \in Row
        /\ temp[i].fk.dummy = temp[i].pk.dummy
        /\ temp[i].fk.dummy => temp[i].fk = Zero
        /\ temp[i].pk.dummy => temp[i].pk = Zero
    BY <2>1, ZeroFacts DEF ZeroPair
  <2>3. /\ output[i] = JoinTuples(temp[i])
        /\ Projected(side)[i] = [key |-> output[i][side].key, pay |-> output[i][side].pay,
                                 dummy |-> output[i].dummy]
    BY <1>2 DEF Projected
  <2>4. /\ output[i].fk = DataOf(temp[i].fk) /\ output[i].pk = DataOf(temp[i].pk)
        /\ output[i].dummy = temp[i].fk.dummy
    BY <2>1, <2>2, <2>3, ZeroFacts DEF JoinTuples
  <2>5. \A row \in Row : row = [key |-> DataOf(row).key, pay |-> DataOf(row).pay,
                               dummy |-> row.dummy]
    BY DEF Row, DataOf
  <2>6. CASE side = "fk"
    BY <2>2, <2>3, <2>4, <2>5, <2>6
  <2>7. CASE side = "pk"
    BY <2>2, <2>3, <2>4, <2>5, <2>7
  <2> QED
    BY <2>6, <2>7 DEF Side
<1>4. DOMAIN Projected(side) = DOMAIN temp
  BY <1>2 DEF Projected
<1>5. Projected(side) \in Seq(Row) /\ Len(Projected(side)) = outputTupleCount
  <2> DEFINE proj == Projected(side)
  <2>1. proj = [i \in DOMAIN temp |-> proj[i]] /\ \A i \in DOMAIN temp : proj[i] \in Row
    BY <1>3, <1>4 DEF Projected
  <2> HIDE DEF proj
  <2>2. proj \in Seq(Row) /\ Len(proj) = outputTupleCount
    BY <1>2, <2>1
  <2> QED
    BY <2>2 DEF proj
<1> QED
  BY <1>3, <1>4, <1>5 DEF Tidy

LEMMA TablePadded ==
  ASSUME TypeOK, NEW side \in Side
  PROVE  /\ Tidy(Table(side)) /\ Tidy(Padded(side)) /\ Len(Padded(side)) = outputTupleCount
         /\ \A row \in Row : ~row.dummy => Count(Padded(side), row) = Count(Table(side), row)
<1>1. /\ Tidy(Table(side)) /\ outputTupleCount - Len(Table(side)) \in Nat
      /\ Len(Table(side)) + (outputTupleCount - Len(Table(side))) = outputTupleCount
  BY TableFacts DEF Table
<1> QED
  BY <1>1, PaddedTable DEF Padded

(* Foreign-key rows are matched as often as they occur.                    *)
LEMMA ForeignMatched ==
  ASSUME Computed, NEW row \in Row, ~row.dummy
  PROVE  Count(Projected("fk"), row) =
           IF row.key \in DOMAIN lookup THEN Count(fk, row) ELSE 0
<1> DEFINE proj == Projected("fk")
<1>1. TypeOK /\ LookedUp /\ Fetched /\ cursor = Len(fk)
  BY DEF Computed, Written
<1>2. /\ proj \in Seq(Row) /\ DOMAIN proj = DOMAIN temp
      /\ \A i \in DOMAIN temp : proj[i] = temp[i].fk
  BY ProjectedFacts DEF Side, Tidy
<1>3. /\ fk \in Seq(Row) /\ DOMAIN fk = 1 .. Len(fk)
      /\ placed \in Nat /\ placed <= Len(temp) /\ DOMAIN temp = 1 .. Len(temp)
      /\ Len(temp) \in Nat
  <2>1. Len(temp) = outputTupleCount /\ outputTupleCount \in Nat /\ DOMAIN temp = 1 .. outputTupleCount
    BY <1>1, TempPairs, TableFacts DEF Fetched
  <2>2. placed \in Nat /\ placed <= cursor /\ Len(fk) <= outputTupleCount /\ Len(fk) \in Nat
    BY <1>1, TableFacts DEF TypeOK
  <2> QED
    BY <1>1, <2>1, <2>2, TableFacts DEF Tidy
<1> HIDE DEF proj
<1>4. PlacesOf(proj, row) = { i \in 1 .. placed : temp[i].fk = row }
  <2>1. \A i \in DOMAIN temp : temp[i].fk = row => i \in 1 .. placed
    BY <1>1, TempPairs, ZeroFacts DEF ZeroPair
  <2>2. 1 .. placed \subseteq DOMAIN temp
    BY <1>3
  <2> QED
    BY <1>2, <2>1, <2>2 DEF PlacesOf
<1>5. CASE row.key \in DOMAIN lookup
  <2>1. Cardinality({ i \in 1 .. placed : temp[i].fk = row }) =
        Cardinality({ j \in 1 .. cursor : fk[j] = row })
    BY <1>1, <1>5 DEF Fetched, Matched
  <2>2. { j \in 1 .. cursor : fk[j] = row } = PlacesOf(fk, row)
    BY <1>1, <1>3 DEF PlacesOf
  <2> QED
    BY <1>2, <1>3, <1>4, <1>5, <2>1, <2>2, PlacesFinite DEF proj
<1>6. CASE row.key \notin DOMAIN lookup
  <2>1. PlacesOf(proj, row) = {}
    BY <1>1, <1>4, <1>6 DEF Fetched, Matched
  <2> QED
    BY <1>2, <1>6, <2>1, PlacesFinite DEF proj
<1> QED
  BY <1>5, <1>6

(* Primary-key rows are matched if a foreign-key row has their key.        *)
LEMMA PrimaryMatched ==
  ASSUME Computed, NEW row \in Row, ~row.dummy
  PROVE  row \in RealRows(Projected("pk")) <=> row \in RealRows(pk) /\ Partner("pk", row)
<1> DEFINE proj == Projected("pk")
<1>1. TypeOK /\ LookedUp /\ Fetched
  BY DEF Computed
<1>2. /\ DOMAIN proj = DOMAIN temp
      /\ \A i \in DOMAIN temp : proj[i] = temp[i].pk
  BY ProjectedFacts DEF Side, Tidy
<1> HIDE DEF proj
<1>3. ASSUME NEW i \in DOMAIN temp, temp[i].pk = row
      PROVE  row \in RealRows(pk) /\ Partner("pk", row)
  <2>1. /\ i \in 1 .. placed /\ Matched(temp[i].fk) /\ temp[i].fk.key = temp[i].pk.key
        /\ temp[i].pk \in RealRows(pk) /\ temp[i].fk \in Row
    BY <1>1, <1>3, TempPairs, ZeroFacts DEF ZeroPair, Predicate
  <2>2. Count(Projected("fk"), temp[i].fk) # 0
    <3>1. /\ DOMAIN Projected("fk") = DOMAIN temp /\ Projected("fk")[i] = temp[i].fk
          /\ Projected("fk") \in Seq(Row)
      BY ProjectedFacts DEF Side, Tidy
    <3>2. i \in PlacesOf(Projected("fk"), temp[i].fk)
      BY <3>1 DEF PlacesOf
    <3> QED
      BY <3>1, <3>2, PlacesFinite
  <2>3. Count(fk, temp[i].fk) # 0 /\ ~temp[i].fk.dummy
    BY <2>1, <2>2, ForeignMatched DEF Matched
  <2>4. temp[i].fk \in RealRows(fk)
    BY <1>1, <2>1, <2>3, TableFacts, RealRowsCounted DEF Tidy
  <2> QED
    BY <1>3, <2>1, <2>4 DEF Partner, Other
<1>4. ASSUME row \in RealRows(pk), NEW r \in RealRows(fk), r.key = row.key
      PROVE  \E i \in DOMAIN temp : temp[i].pk = row
  <2>1. r \in Row /\ ~r.dummy
    BY <1>1, TableFacts DEF RealRows, Tidy
  <2>2. r.key \in DOMAIN lookup
    BY <1>1, <1>4 DEF LookedUp
  <2>3. Count(fk, r) # 0
    BY <1>1, <1>4, <2>1, TableFacts, RealRowsCounted DEF Tidy
  <2>4. Count(Projected("fk"), r) # 0
    BY <2>1, <2>2, <2>3, ForeignMatched
  <2>5. PICK i \in DOMAIN temp : temp[i].fk = r
    <3>1. /\ DOMAIN Projected("fk") = DOMAIN temp /\ Projected("fk") \in Seq(Row)
          /\ \A i \in DOMAIN temp : Projected("fk")[i] = temp[i].fk
      BY ProjectedFacts DEF Side, Tidy
    <3>2. PlacesOf(Projected("fk"), r) # {}
      BY <2>4, <3>1, PlacesFinite
    <3> QED
      BY <3>1, <3>2 DEF PlacesOf
  <2>6. temp[i].pk = lookup[r.key]
    BY <1>1, <2>1, <2>5, TempPairs, ZeroFacts DEF ZeroPair
  <2>7. lookup[r.key] \in RealRows(pk) /\ lookup[r.key].key = row.key
    BY <1>1, <1>4, <2>2 DEF LookedUp
  <2>8. lookup[r.key] = row
    BY <1>1, <1>4, <2>7, RealRowsOfPk
  <2> QED
    BY <2>6, <2>8
<1>5. row \in RealRows(proj) <=> \E i \in DOMAIN temp : temp[i].pk = row
  BY <1>2 DEF RealRows
<1> QED
  BY <1>3, <1>4, <1>5 DEF proj, Partner, Other

LEMMA MatchedFacts ==
  ASSUME Computed, NEW side \in Side
  PROVE  /\ Tidy(MatchedOf(side)) /\ Len(MatchedOf(side)) = outputTupleCount
         /\ \A row \in Row : ~row.dummy =>
              (row \in RealRows(MatchedOf(side)) <=>
                 row \in RealRows(Table(side)) /\ Partner(side, row))
         /\ \A row \in RealRows(MatchedOf(side)) :
              Count(MatchedOf(side), row) = Count(Padded(side), row)
<1>1. TypeOK /\ LookedUp /\ Fetched
  BY DEF Computed
<1>2. Tidy(Projected(side)) /\ Len(Projected(side)) = outputTupleCount
  BY ProjectedFacts
<1>3. Tidy(MatchedOf(side)) /\ Len(MatchedOf(side)) = outputTupleCount
  BY <1>2, ZeroOutDupesFacts DEF MatchedOf
<1>4. \A row \in RealRows(MatchedOf(side)) : row \in Row /\ ~row.dummy
  BY <1>3, ElementType DEF RealRows, Tidy
<1>5. Tidy(Table(side)) /\ \A row \in Row : ~row.dummy => Count(Padded(side), row) = Count(Table(side), row)
  BY <1>1, TablePadded
<1>6. ASSUME NEW row \in Row, ~row.dummy
      PROVE  /\ row \in RealRows(MatchedOf(side)) <=>
                  row \in RealRows(Table(side)) /\ Partner(side, row)
             /\ row \in RealRows(MatchedOf(side)) =>
                  Count(MatchedOf(side), row) = Count(Padded(side), row)
  <2>1. /\ row \in RealRows(MatchedOf(side)) <=> Count(MatchedOf(side), row) # 0
        /\ row \in RealRows(Table(side)) <=> Count(Table(side), row) # 0
        /\ row \in RealRows(Projected(side)) <=> Count(Projected(side), row) # 0
    BY <1>2, <1>3, <1>5, <1>6, RealRowsCounted DEF Tidy
  <2>2. Count(Padded(side), row) = Count(Table(side), row)
    BY <1>5, <1>6
  <2>3. CASE side = "fk"
    <3>1. Count(MatchedOf(side), row) = IF row.key \in DOMAIN lookup THEN Count(fk, row) ELSE 0
      BY <1>6, <2>3, ForeignMatched DEF MatchedOf
    <3>2. Table(side) = fk
      BY <2>3 DEF Table
    <3>3. Partner(side, row) <=> row.key \in DOMAIN lookup
      BY <1>1, <2>3 DEF Partner, Other, LookedUp
    <3> QED
      BY <2>1, <2>2, <3>1, <3>2, <3>3
  <2>4. CASE side = "pk"
    <3>1. Count(MatchedOf(side), row) = IF row \in RealRows(Projected(side)) THEN 1 ELSE 0
      BY <1>2, <1>6, <2>4, ZeroOutDupesFacts DEF MatchedOf
    <3>2. row \in RealRows(Projected(side)) <=> row \in RealRows(pk) /\ Partner(side, row)
      BY <1>6, <2>4, PrimaryMatched
    <3>3. Table(side) = pk /\ (row \in RealRows(pk) => Count(pk, row) = 1)
      BY <1>1, <2>4, RealRowsOfPk DEF Table
    <3> QED
      BY <2>1, <2>2, <3>1, <3>2, <3>3
  <2> QED
    BY <2>3, <2>4 DEF Side
<1> QED
  BY <1>3, <1>4, <1>6

(* What is set aside are the rows without a partner.                       *)
LEMMA Unmatched ==
  ASSUME Computed, NEW side \in Side
  PROVE  /\ Tidy(Difference(side)) /\ Len(Difference(side)) = outputTupleCount
         /\ \A row \in Row : ~row.dummy =>
              Count(Difference(side), row) =
                IF Partner(side, row) THEN 0 ELSE Count(Table(side), row)
         /\ equal(Difference(side) \o MatchedOf(side),
                  padZeros(Padded(side), Len(Padded(side))))
<1>1. /\ Tidy(Padded(side)) /\ Len(Padded(side)) = outputTupleCount /\ Tidy(Table(side))
      /\ \A row \in Row : ~row.dummy => Count(Padded(side), row) = Count(Table(side), row)
  BY TablePadded DEF Computed
<1>2. /\ Tidy(MatchedOf(side)) /\ Len(MatchedOf(side)) = Len(Padded(side))
      /\ \A row \in Row : ~row.dummy =>
           (row \in RealRows(MatchedOf(side)) <=>
              row \in RealRows(Table(side)) /\ Partner(side, row))
      /\ \A row \in RealRows(MatchedOf(side)) :
           Count(MatchedOf(side), row) = Count(Padded(side), row)
  BY <1>1, MatchedFacts
<1>3. /\ Tidy(Difference(side)) /\ Len(Difference(side)) = Len(Padded(side))
      /\ \A row \in Row : ~row.dummy =>
           Count(Difference(side), row) =
             IF row \in RealRows(MatchedOf(side)) THEN 0 ELSE Count(Padded(side), row)
      /\ equal(Difference(side) \o MatchedOf(side),
               padZeros(Padded(side), Len(Padded(side))))
  BY <1>1, <1>2, DifferenceFacts DEF Difference
<1>4. ASSUME NEW row \in Row, ~row.dummy
      PROVE  Count(Difference(side), row) =
               IF Partner(side, row) THEN 0 ELSE Count(Table(side), row)
  <2>1. row \in RealRows(Table(side)) <=> Count(Table(side), row) # 0
    BY <1>1, <1>4, RealRowsCounted DEF Tidy
  <2> QED
    BY <2>1, <1>1, <1>2, <1>3, <1>4
<1> QED
  BY <1>1, <1>3, <1>4

-----------------------------------------------------------------------------
(* The checks.                                                             *)

LEMMA SameDifferences ==
  ASSUME UNCHANGED <<fk, pk, left, output, temp, lookup, placed, cursor>>
  PROVE  /\ \A side \in Side : Difference(side)' = Difference(side)
         /\ LookedUp' <=> LookedUp
         /\ Fetched' <=> Fetched
         /\ Written' <=> Written
BY DEF Difference, MatchedOf, Projected, Padded, Table, outputTupleCount,
       LookedUp, Fetched, Written, Matched

LEMMA EqualityHolds ==
  ASSUME Computed, NEW side \in Side, NEW next, VerifyEquality(side, next)
  PROVE  /\ delta' = [delta EXCEPT ![side] = Difference(side)] /\ pc' = next
         /\ Difference(side) \in Seq(Row)
         /\ UNCHANGED <<fk, pk, left, lookup, cursor, temp, placed, output>>
<1>1. /\ delta' = [delta EXCEPT ![side] = Difference(side)]
      /\ pc' = Proven(equal(Difference(side) \o MatchedOf(side),
                            padZeros(Padded(side), Len(Padded(side)))), next)
      /\ UNCHANGED <<fk, pk, left, lookup, cursor, temp, placed, output>>
  BY DEF VerifyEquality, Difference, MatchedOf
<1> QED
  BY <1>1, Unmatched DEF Proven, Tidy

LEMMA LeftStep == IndInv /\ VerifyLeft => IndInv'
<1> SUFFICES ASSUME IndInv, VerifyLeft PROVE IndInv'
  OBVIOUS
<1>1. Computed /\ left \in Side /\ pc = "left" /\ VerifyEquality(left, "right") /\ SetAside
  BY DEF IndInv, VerifyLeft, Computed, TypeOK
<1>2. /\ delta' = [delta EXCEPT ![left] = Difference(left)] /\ pc' = "right"
      /\ Difference(left) \in Seq(Row)
      /\ UNCHANGED <<fk, pk, left, lookup, cursor, temp, placed, output>>
  BY <1>1, EqualityHolds
<1>3. /\ \A side \in Side : Difference(side)' = Difference(side)
      /\ LookedUp' /\ Fetched' /\ Written'
  BY <1>1, <1>2, SameDifferences DEF Computed
<1>4. delta \in [Side -> Seq(Row)] /\ delta' \in [Side -> Seq(Row)]
  BY <1>1, <1>2 DEF Computed, TypeOK
<1>5. TypeOK'
  BY <1>1, <1>2, <1>4 DEF TypeOK, Computed
<1>6. SetAside'
  BY <1>1, <1>2, <1>3, <1>4 DEF SetAside
<1> QED
  BY <1>2, <1>3, <1>5, <1>6 DEF IndInv, NeverRejected

LEMMA RightStep == IndInv /\ VerifyRight => IndInv'
<1> SUFFICES ASSUME IndInv, VerifyRight PROVE IndInv'
  OBVIOUS
<1>1. /\ Computed /\ left \in Side /\ right \in Side /\ pc = "right"
      /\ VerifyEquality(right, "disjoint") /\ SetAside
      /\ Side = {left, right}
  BY DEF IndInv, VerifyRight, Computed, TypeOK, right, Side
<1>2. /\ delta' = [delta EXCEPT ![right] = Difference(right)] /\ pc' = "disjoint"
      /\ Difference(right) \in Seq(Row)
      /\ UNCHANGED <<fk, pk, left, lookup, cursor, temp, placed, output>>
  BY <1>1, EqualityHolds
<1>3. /\ \A side \in Side : Difference(side)' = Difference(side)
      /\ LookedUp' /\ Fetched' /\ Written'
  BY <1>1, <1>2, SameDifferences DEF Computed
<1>4. delta \in [Side -> Seq(Row)] /\ delta' \in [Side -> Seq(Row)]
  BY <1>1, <1>2 DEF Computed, TypeOK
<1>5. TypeOK'
  BY <1>1, <1>2, <1>4 DEF TypeOK, Computed
<1>6. delta[left] = Difference(left)
  BY <1>1 DEF SetAside
<1>7. \A side \in Side : delta'[side] = Difference(side)'
  <2> SUFFICES ASSUME NEW side \in Side PROVE delta'[side] = Difference(side)'
    OBVIOUS
  <2>1. CASE side = right
    BY <2>1, <1>1, <1>2, <1>3, <1>4
  <2>2. CASE side # right
    <3>1. side = left /\ delta'[side] = delta[side]
      BY <2>2, <1>1, <1>2, <1>4
    <3> QED
      BY <3>1, <1>3, <1>6
  <2> QED
    BY <2>1, <2>2
<1>8. SetAside'
  BY <1>2, <1>7 DEF SetAside
<1> QED
  BY <1>2, <1>3, <1>5, <1>8 DEF IndInv, NeverRejected

LEMMA CustomLessOrders == IsStrictOrder(SortKey, CustomLess)
<1>1. \A a, b \in SortKey : <<a, b>> \in CustomLess <=>
        \/ ~a.dummy /\ b.dummy
        \/ /\ a.dummy = b.dummy
           /\ \/ a.key < b.key
              \/ a.key = b.key /\ a.sig < b.sig
  BY DEF CustomLess
<1>2. \A a \in SortKey : a.key \in Nat /\ a.dummy \in BOOLEAN /\ a.sig \in Nat
  BY ZeroFacts DEF SortKey
<1>3. \A a \in SortKey : <<a, a>> \notin CustomLess
  <2> SUFFICES ASSUME NEW a \in SortKey PROVE <<a, a>> \notin CustomLess
    OBVIOUS
  <2>1. ~(a.key < a.key) /\ ~(a.sig < a.sig)
    BY <1>2
  <2> QED
    BY <1>1, <2>1
<1>4. \A a, b \in SortKey : a # b => <<a, b>> \in CustomLess \/ <<b, a>> \in CustomLess
  <2> SUFFICES ASSUME NEW a \in SortKey, NEW b \in SortKey, a # b
      PROVE  <<a, b>> \in CustomLess \/ <<b, a>> \in CustomLess
    OBVIOUS
  <2>1. a.dummy # b.dummy \/ a.key # b.key \/ a.sig # b.sig
    BY DEF SortKey
  <2>2. /\ a.key \in Nat /\ b.key \in Nat /\ a.sig \in Nat /\ b.sig \in Nat
        /\ a.dummy \in BOOLEAN /\ b.dummy \in BOOLEAN
    BY <1>2
  <2> QED
    BY <1>1, <2>1, <2>2
<1>5. ASSUME NEW a \in SortKey, NEW b \in SortKey, NEW c \in SortKey,
             <<a, b>> \in CustomLess, <<b, c>> \in CustomLess
      PROVE  <<a, c>> \in CustomLess
  <2>1. /\ a.key \in Nat /\ b.key \in Nat /\ c.key \in Nat
        /\ a.sig \in Nat /\ b.sig \in Nat /\ c.sig \in Nat
        /\ a.dummy \in BOOLEAN /\ b.dummy \in BOOLEAN /\ c.dummy \in BOOLEAN
    BY <1>2
  <2> QED
    BY <1>1, <1>5, <2>1
<1> QED
  BY <1>3, <1>4, <1>5 DEF IsStrictOrder

(* The keys of the two sides, and which rows they are of.                  *)
LEMMA KeysFacts ==
  ASSUME delta \in [Side -> Seq(Row)], NEW side \in Side, NEW sig \in {0, 1}
  PROVE  /\ KeysOf(side, sig) \in Seq(SortKey)
         /\ \A i \in DOMAIN KeysOf(side, sig) :
              /\ i \in DOMAIN delta[side] /\ KeysOf(side, sig)[i].sig = sig
              /\ KeysOf(side, sig)[i].key = delta[side][i].key
              /\ KeysOf(side, sig)[i].dummy = delta[side][i].dummy
<1>1. delta[side] \in Seq(Row)
  OBVIOUS
<1>2. /\ DOMAIN delta[side] = 1 .. Len(delta[side]) /\ Len(delta[side]) \in Nat
      /\ \A i \in DOMAIN delta[side] : delta[side][i] \in Row
  BY <1>1, DomainFinite, ElementType
<1>3. \A i \in DOMAIN delta[side] :
        [key |-> delta[side][i].key, dummy |-> delta[side][i].dummy, sig |-> sig] \in SortKey
  BY <1>2, ZeroFacts DEF SortKey
<1> QED
  BY <1>2, <1>3 DEF KeysOf

LEMMA DisjointHolds ==
  ASSUME Computed, \A side \in Side : delta[side] = Difference(side)
  PROVE  disjoint(KeysOf(left, 0), KeysOf(right, 1))
<1> DEFINE a == KeysOf(left, 0)
           b == KeysOf(right, 1)
           both == a \o b
           s == SortedBy(both, CustomLess)
<1>1. /\ delta \in [Side -> Seq(Row)] /\ left \in Side /\ right \in Side
      /\ {left, right} = {"fk", "pk"} /\ TypeOK
  BY DEF Computed, TypeOK, Side, right
<1>2. /\ a \in Seq(SortKey) /\ b \in Seq(SortKey)
      /\ \A i \in DOMAIN a :
           /\ i \in DOMAIN delta[left] /\ a[i].sig = 0
           /\ a[i].key = delta[left][i].key /\ a[i].dummy = delta[left][i].dummy
      /\ \A i \in DOMAIN b :
           /\ i \in DOMAIN delta[right] /\ b[i].sig = 1
           /\ b[i].key = delta[right][i].key /\ b[i].dummy = delta[right][i].dummy
  BY <1>1, KeysFacts
<1> HIDE DEF a, b
<1>3. /\ both \in Seq(SortKey) /\ Len(both) = Len(a) + Len(b)
      /\ DOMAIN both = 1 .. Len(a) + Len(b) /\ DOMAIN a = 1 .. Len(a)
      /\ DOMAIN b = 1 .. Len(b) /\ Len(a) \in Nat /\ Len(b) \in Nat
  BY <1>2, ConcatProperties
<1>4. \A i \in 1 .. Len(a) + Len(b) :
        both[i] = IF i <= Len(a) THEN a[i] ELSE b[i - Len(a)]
  BY <1>2, ConcatProperties
<1> DEFINE sideOf(x) == IF x.sig = 0 THEN left ELSE right
<1>5. ASSUME NEW i \in DOMAIN both
      PROVE  /\ both[i].sig \in {0, 1}
             /\ \E j \in DOMAIN delta[sideOf(both[i])] :
                  /\ both[i].key = delta[sideOf(both[i])][j].key
                  /\ both[i].dummy = delta[sideOf(both[i])][j].dummy
  <2>1. CASE i <= Len(a)
    <3>1. i \in DOMAIN a /\ both[i] = a[i]
      BY <2>1, <1>3, <1>4
    <3> HIDE DEF both
    <3> QED
      BY <3>1, <1>2
  <2>2. CASE ~(i <= Len(a))
    <3> DEFINE j == i - Len(a)
    <3>1. j \in DOMAIN b /\ both[i] = b[j]
      BY <2>2, <1>3, <1>4
    <3> HIDE DEF both, j
    <3>2. both[i].sig = 1 /\ sideOf(both[i]) = right
      BY <3>1, <1>2
    <3>3. /\ j \in DOMAIN delta[right] /\ both[i].key = delta[right][j].key
          /\ both[i].dummy = delta[right][j].dummy
      BY <3>1, <1>2
    <3> QED
      BY <3>2, <3>3
  <2> QED
    BY <2>1, <2>2
<1> HIDE DEF both
<1>6. PICK p \in Bijection(DOMAIN both, DOMAIN both) : s = [n \in DOMAIN both |-> both[p[n]]]
  BY <1>3, CustomLessOrders, SortedFacts
<1>7. \A n \in DOMAIN both : p[n] \in DOMAIN both
  <2> DEFINE E == DOMAIN both
  <2>1. p \in Bijection(E, E)
    BY <1>6
  <2> HIDE DEF E
  <2>2. p \in [E -> E]
    BY <2>1, Permutation
  <2> QED
    BY <2>2 DEF E
<1>8. /\ DOMAIN s = 1 .. Len(s) /\ Len(s) \in Nat
      /\ \A n \in DOMAIN s : p[n] \in DOMAIN both /\ s[n] = both[p[n]]
  BY <1>3, <1>6, <1>7
<1> HIDE DEF s
<1>9. ASSUME NEW n \in DOMAIN s
      PROVE  /\ s[n].sig \in {0, 1}
             /\ \E j \in DOMAIN delta[sideOf(s[n])] :
                  /\ s[n].key = delta[sideOf(s[n])][j].key
                  /\ s[n].dummy = delta[sideOf(s[n])][j].dummy
  BY <1>5, <1>8
<1>10. ASSUME NEW x, NEW y, sideOf(x) # sideOf(y),
              NEW j \in DOMAIN delta[sideOf(x)], NEW k \in DOMAIN delta[sideOf(y)],
              ~delta[sideOf(x)][j].dummy, ~delta[sideOf(y)][k].dummy
       PROVE  delta[sideOf(x)][j].key # delta[sideOf(y)][k].key
  <2> DEFINE c == sideOf(x)
             d == sideOf(y)
             r == delta[c][j]
             q == delta[d][k]
  <2>1. /\ c \in Side /\ d \in Side /\ Other(c) = Table(d) /\ Other(d) = Table(c)
    BY <1>1, <1>10 DEF Side, Other, Table
  <2> HIDE DEF c, d
  <2>2. /\ delta[c] \in Seq(Row) /\ delta[d] \in Seq(Row)
        /\ j \in DOMAIN delta[c] /\ k \in DOMAIN delta[d] /\ ~r.dummy /\ ~q.dummy
    BY <1>1, <1>10, <2>1 DEF c, d
  <2>3. r \in Row /\ q \in Row
    BY <2>2, ElementType
  <2>4. Count(delta[c], r) # 0 /\ Count(delta[d], q) # 0
    <3>1. j \in PlacesOf(delta[c], r) /\ k \in PlacesOf(delta[d], q)
      BY <2>2 DEF PlacesOf
    <3> HIDE DEF r, q
    <3> QED
      BY <2>2, <3>1, PlacesFinite
  <2> HIDE DEF r, q
  <2>5. /\ ~Partner(c, r) /\ Count(Table(d), q) # 0
    BY <2>1, <2>2, <2>3, <2>4, Unmatched
  <2>6. q \in RealRows(Table(d))
    BY <1>1, <2>1, <2>2, <2>3, <2>5, TablePadded, RealRowsCounted DEF Tidy
  <2>7. r.key # q.key
    BY <2>1, <2>5, <2>6 DEF Partner
  <2> QED
    BY <2>7 DEF r, q, c, d
<1>11. ASSUME NEW i \in 1 .. Len(s) - 1, SameKey(s[i], s[i + 1]), s[i].sig # s[i + 1].sig
       PROVE  IsDummy(s[i + 1])
  <2> DEFINE x == s[i]
             y == s[i + 1]
  <2>1. i \in DOMAIN s /\ i + 1 \in DOMAIN s
    BY <1>8
  <2>2. PICK j \in DOMAIN delta[sideOf(x)] : /\ x.key = delta[sideOf(x)][j].key
                                            /\ x.dummy = delta[sideOf(x)][j].dummy
    BY <1>9, <2>1
  <2>3. PICK k \in DOMAIN delta[sideOf(y)] : /\ y.key = delta[sideOf(y)][k].key
                                            /\ y.dummy = delta[sideOf(y)][k].dummy
    BY <1>9, <2>1
  <2>4. x.key = y.key /\ x.dummy = y.dummy /\ sideOf(x) # sideOf(y) /\ sideOf(y) \in Side
    <3>1. x.sig \in {0, 1} /\ y.sig \in {0, 1} /\ x.sig # y.sig
      BY <1>9, <1>11, <2>1
    <3>2. left # right
      BY <1>1 DEF right
    <3> QED
      BY <3>1, <3>2, <1>1, <1>11 DEF SameKey
  <2> HIDE DEF x, y
  <2>5. CASE ~y.dummy
    BY <2>2, <2>3, <2>4, <2>5, <1>10
  <2>6. CASE y.dummy
    <3>1. Tidy(delta[sideOf(y)])
      BY <2>4, Unmatched
    <3>2. delta[sideOf(y)][k] = Zero
      BY <2>3, <2>6, <3>1 DEF Tidy
    <3> QED
      BY <2>3, <2>6, <3>2, ZeroFacts DEF IsDummy, y
  <2> QED
    BY <2>5, <2>6
<1> QED
  BY <1>11 DEF disjoint, s, both, a, b

LEMMA DisjointStep == IndInv /\ VerifyDisjoint => IndInv'
<1> SUFFICES ASSUME IndInv, VerifyDisjoint PROVE IndInv'
  OBVIOUS
<1>1. /\ Computed /\ SetAside /\ pc = "disjoint"
      /\ \A side \in Side : delta[side] = Difference(side)
  BY DEF IndInv, VerifyDisjoint, Computed, SetAside
<1>2. /\ pc' = "accepted"
      /\ UNCHANGED <<fk, pk, left, lookup, cursor, temp, placed, output, delta>>
  BY <1>1, DisjointHolds DEF VerifyDisjoint, Proven
<1>3. /\ \A side \in Side : Difference(side)' = Difference(side)
      /\ LookedUp' /\ Fetched' /\ Written'
  BY <1>1, <1>2, SameDifferences DEF Computed
<1>4. TypeOK'
  BY <1>1, <1>2 DEF TypeOK, Computed
<1>5. SetAside'
  BY <1>1, <1>2, <1>3 DEF SetAside
<1> QED
  BY <1>2, <1>3, <1>4, <1>5 DEF IndInv, NeverRejected

LEMMA StutterStep == IndInv /\ UNCHANGED vars => IndInv'
<1> SUFFICES ASSUME IndInv, UNCHANGED vars PROVE IndInv'
  OBVIOUS
<1>1. UNCHANGED <<fk, pk, left, pc, lookup, cursor, temp, placed, output, delta>>
  BY DEF vars
<1>2. /\ \A side \in Side : Difference(side)' = Difference(side)
      /\ LookedUp' <=> LookedUp
      /\ Fetched' <=> Fetched
      /\ Written' <=> Written
  BY <1>1, SameDifferences
<1>3. TypeOK' <=> TypeOK
  BY <1>1 DEF TypeOK
<1>4. SetAside => SetAside'
  <2> SUFFICES ASSUME SetAside PROVE SetAside'
    OBVIOUS
  <2>1. left \in Side
    BY DEF IndInv, TypeOK
  <2>2. \A side \in Side : (delta[side] = << >> \/ delta[side] = Difference(side))'
    BY <1>1, <1>2 DEF SetAside
  <2>3. (pc = "right" => delta[left] = Difference(left))'
    BY <1>1, <1>2, <2>1 DEF SetAside
  <2>4. (pc \in {"disjoint", "accepted"} =>
           \A side \in Side : delta[side] = Difference(side))'
    BY <1>1, <1>2 DEF SetAside
  <2> QED
    BY <2>2, <2>3, <2>4 DEF SetAside
<1> QED
  BY <1>1, <1>2, <1>3, <1>4 DEF IndInv, NeverRejected

(* Every step of the join keeps the invariant.                             *)
THEOREM InvHolds == Spec => []IndInv
<1>1. IndInv /\ [Next]_vars => IndInv'
  BY BuildStep, ProbeStep, PredicateStep, LeftStep, RightStep, DisjointStep, StutterStep
     DEF Next, Run, Terminated
<1> QED
  BY InitInv, <1>1, PTL DEF Spec

(* Every variable keeps its type: the probe never places more rows than    *)
(* the temporary tables have (tempTablePos).                               *)
THEOREM TypeCorrect == Spec => []TypeOK
<1>1. IndInv => TypeOK
  BY DEF IndInv
<1> QED
  BY InvHolds, <1>1, PTL

(* The predicate check, both equality checks and the disjointness check    *)
(* accept what an honest Alice computed (Join::verifyPredicate,            *)
(* verifyEquality, verifyDisjoint).                                        *)
THEOREM NeverRejectedHolds == Spec => []NeverRejected
<1>1. IndInv => NeverRejected
  BY DEF IndInv
<1> QED
  BY InvHolds, <1>1, PTL

(* The rows that hashSetDifference sets aside are the real rows without a  *)
(* partner, with their repeats.                                            *)
THEOREM DeltaIsUnmatchedHolds == Spec => []DeltaIsUnmatched
<1>1. IndInv => DeltaIsUnmatched
  <2> SUFFICES ASSUME IndInv, NEW side \in Side, delta[side] # << >>,
                      NEW row \in RealRows(Table(side)) \cup RealRows(delta[side])
      PROVE  Count(delta[side], row) =
               IF Partner(side, row) THEN 0 ELSE Count(Table(side), row)
    BY DEF DeltaIsUnmatched, Partner, Other
  <2>1. /\ pc \notin {"build", "probe"}
    BY DEF IndInv
  <2>2. Computed /\ delta[side] = Difference(side)
    BY <2>1 DEF IndInv, Computed, SetAside
  <2>3. Tidy(Table(side)) /\ Tidy(delta[side])
    BY <2>2, TablePadded, Unmatched DEF Computed
  <2>4. row \in Row /\ ~row.dummy
    BY <2>3, ElementType DEF RealRows, Tidy
  <2> QED
    BY <2>2, <2>4, Unmatched
<1> QED
  BY InvHolds, <1>1, PTL

(* The output's dummies are zeroed, so that another join can read them.    *)
THEOREM OutputDummiesZeroedHolds == Spec => []OutputDummiesZeroed
<1>1. IndInv => OutputDummiesZeroed
  <2> SUFFICES ASSUME IndInv, NEW i \in DOMAIN output, output[i].dummy
      PROVE  output[i].fk = DataOf(Zero) /\ output[i].pk = DataOf(Zero)
    BY DEF OutputDummiesZeroed
  <2>1. TypeOK /\ LookedUp /\ Fetched /\ Written
    BY DEF IndInv
  <2>2. i \in DOMAIN temp /\ output[i] = JoinTuples(temp[i])
    BY <2>1 DEF Written
  <2>3. temp[i] = ZeroPair
    <3>1. temp[i] \in [fk : Row, pk : Row] /\ Predicate(temp[i])
      BY <2>1, <2>2, TempPairs
    <3>2. JoinTuples(temp[i]).dummy =
            (~Predicate(temp[i]) \/ temp[i].fk.dummy \/ temp[i].pk.dummy)
      BY DEF JoinTuples
    <3>3. temp[i].fk.dummy \/ temp[i].pk.dummy
      BY <2>2, <3>1, <3>2
    <3> QED
      BY <2>1, <2>2, <3>3, TempPairs
  <2> QED
    BY <2>2, <2>3 DEF JoinTuples, ZeroPair
<1> QED
  BY InvHolds, <1>1, PTL

-----------------------------------------------------------------------------
(* The join implements EquiJoin.                                           *)

RealOf(d) == [key |-> d.key, pay |-> d.pay, dummy |-> FALSE]

LEMMA SameCardinality == \A S : Abstract!Cardinality(S) = Cardinality(S)
  BY Zenon DEF Cardinality, Abstract!Cardinality

LEMMA OccurrencesCounted ==
  ASSUME NEW t \in Seq(Row), NEW d \in Data
  PROVE  /\ RealOf(d) \in Row /\ ~RealOf(d).dummy /\ DataOf(RealOf(d)) = d
         /\ RealOf(d).key = d.key
         /\ \A row \in Row : ~row.dummy /\ DataOf(row) = d => row = RealOf(d)
         /\ Abstract!Occurrences(t, d) = Count(t, RealOf(d))
<1>1. RealOf(d) \in Row /\ ~RealOf(d).dummy /\ DataOf(RealOf(d)) = d /\ RealOf(d).key = d.key
  BY DEF RealOf, Row, Data, DataOf
<1>2. \A row \in Row : ~row.dummy /\ DataOf(row) = d => row = RealOf(d)
  BY DEF RealOf, Row, Data, DataOf
<1>3. \A i \in DOMAIN t :
        ~t[i].dummy /\ t[i].key = d.key /\ t[i].pay = d.pay <=> t[i] = RealOf(d)
  <2> SUFFICES ASSUME NEW i \in DOMAIN t
      PROVE  ~t[i].dummy /\ t[i].key = d.key /\ t[i].pay = d.pay <=> t[i] = RealOf(d)
    OBVIOUS
  <2>1. t[i] \in Row
    BY ElementType
  <2> DEFINE row == t[i]
  <2> HIDE DEF row
  <2>2. row \in Row
    BY <2>1 DEF row
  <2>3. ~row.dummy /\ row.key = d.key /\ row.pay = d.pay <=> row = RealOf(d)
    BY <2>2 DEF RealOf, Row, Data
  <2> QED
    BY <2>3 DEF row
<1>4. { i \in DOMAIN t : ~t[i].dummy /\ t[i].key = d.key /\ t[i].pay = d.pay }
      = { i \in DOMAIN t : t[i] = RealOf(d) }
  BY <1>3
<1> QED
  BY <1>1, <1>2, <1>4, SameCardinality DEF Abstract!Occurrences, Count

(* Each pair of real rows with equal keys is given once.                   *)
LEMMA AnswerIsJoined ==
  ASSUME Computed, NEW p \in [fk : Data, pk : Data]
  PROVE  Cardinality({ i \in DOMAIN output :
            ~output[i].dummy /\ output[i].fk = p.fk /\ output[i].pk = p.pk }) =
         IF p.fk.key = p.pk.key
         THEN Abstract!Occurrences(fk, p.fk) * Abstract!Occurrences(pk, p.pk)
         ELSE 0
<1> DEFINE given == { i \in DOMAIN output :
              ~output[i].dummy /\ output[i].fk = p.fk /\ output[i].pk = p.pk }
           r == RealOf(p.fk)
           q == RealOf(p.pk)
<1>1. /\ TypeOK /\ LookedUp /\ Fetched /\ p.fk \in Data /\ p.pk \in Data
      /\ output = [i \in DOMAIN temp |-> JoinTuples(temp[i])]
  BY DEF Computed, Written
<1>2. /\ fk \in Seq(Row) /\ pk \in Seq(Row)
  BY <1>1, TableFacts DEF Tidy
<1>3. /\ r \in Row /\ ~r.dummy /\ r.key = p.fk.key /\ DataOf(r) = p.fk
      /\ q \in Row /\ ~q.dummy /\ q.key = p.pk.key /\ DataOf(q) = p.pk
      /\ \A row \in Row : ~row.dummy /\ DataOf(row) = p.fk => row = r
      /\ \A row \in Row : ~row.dummy /\ DataOf(row) = p.pk => row = q
      /\ Abstract!Occurrences(fk, p.fk) = Count(fk, r)
      /\ Abstract!Occurrences(pk, p.pk) = Count(pk, q)
  BY <1>1, <1>2, OccurrencesCounted
<1> HIDE DEF r, q
<1>4. given = { i \in DOMAIN temp : temp[i].fk = r /\ temp[i].pk = q }
  <2>1. ASSUME NEW i \in DOMAIN temp
        PROVE  ~output[i].dummy /\ output[i].fk = p.fk /\ output[i].pk = p.pk
                 <=> temp[i].fk = r /\ temp[i].pk = q
    <3>1. temp[i] \in [fk : Row, pk : Row] /\ Predicate(temp[i])
      BY <1>1, TempPairs
    <3>2. output[i] = [fk |-> DataOf(temp[i].fk), pk |-> DataOf(temp[i].pk),
                       dummy |-> ~Predicate(temp[i]) \/ temp[i].fk.dummy \/ temp[i].pk.dummy]
      BY <1>1 DEF JoinTuples
    <3>3. /\ output[i].fk = DataOf(temp[i].fk) /\ output[i].pk = DataOf(temp[i].pk)
          /\ ~output[i].dummy <=> ~temp[i].fk.dummy /\ ~temp[i].pk.dummy
      BY <3>1, <3>2, ZeroFacts
    <3> QED
      BY <3>1, <3>3, <1>3
  <2>2. DOMAIN output = DOMAIN temp
    BY <1>1
  <2> QED
    BY <2>1, <2>2
<1> HIDE DEF given
<1>5. /\ Projected("fk") \in Seq(Row) /\ DOMAIN Projected("fk") = DOMAIN temp
      /\ \A i \in DOMAIN temp : Projected("fk")[i] = temp[i].fk
  BY ProjectedFacts DEF Side, Tidy
<1>6. Count(fk, r) \in Nat /\ Count(pk, q) \in Nat
  BY <1>2, PlacesFinite
<1>7. q \in RealRows(pk) <=> Count(pk, q) # 0
  BY <1>2, <1>3, RealRowsCounted
<1>8. CASE p.fk.key # p.pk.key
  <2>1. given = {}
    BY <1>1, <1>3, <1>4, <1>8, TempPairs DEF Predicate
  <2> QED
    BY <2>1, <1>8, FS_EmptySet DEF given
<1>9. CASE p.fk.key = p.pk.key /\ q \in RealRows(pk)
  <2>1. r.key \in DOMAIN lookup /\ Count(pk, q) = 1
    BY <1>1, <1>3, <1>9, RealRowsOfPk DEF LookedUp
  <2>2. lookup[r.key] = q
    <3>1. lookup[r.key] \in RealRows(pk) /\ lookup[r.key].key = q.key
      BY <1>1, <1>3, <1>9, <2>1 DEF LookedUp
    <3> QED
      BY <3>1, <1>1, <1>9, RealRowsOfPk
  <2>3. \A i \in DOMAIN temp : temp[i].fk = r => temp[i].pk = q
    BY <1>1, <1>3, <2>2, TempPairs, ZeroFacts DEF ZeroPair
  <2>4. given = PlacesOf(Projected("fk"), r)
    BY <1>4, <1>5, <2>3 DEF PlacesOf
  <2>5. Cardinality(given) = Count(fk, r)
    BY <1>3, <1>5, <2>1, <2>4, ForeignMatched, PlacesFinite
  <2> QED
    BY <2>1, <2>5, <1>3, <1>6, <1>9 DEF given
<1>10. CASE p.fk.key = p.pk.key /\ q \notin RealRows(pk)
  <2>1. given = {}
    BY <1>1, <1>3, <1>4, <1>10, TempPairs, ZeroFacts DEF ZeroPair
  <2>2. Cardinality(given) = 0
    BY <2>1, FS_EmptySet
  <2>3. Abstract!Occurrences(fk, p.fk) * Abstract!Occurrences(pk, p.pk) = 0
    <3>1. Count(pk, q) = 0
      BY <1>7, <1>10
    <3>2. Count(fk, r) * Count(pk, q) = 0
      BY <1>6, <3>1
    <3> QED
      BY <1>3, <3>2
  <2> QED
    BY <2>2, <2>3, <1>10 DEF given
<1> QED
  BY <1>8, <1>9, <1>10

LEMMA AbstractInit == Init => Abstract!Init
<1> SUFFICES ASSUME Init PROVE Abstract!Init
  OBVIOUS
<1>1. TypeOK /\ pc = "build"
  BY InitInv DEF IndInv, Init
<1>2. fk \in Seq(Row) /\ pk \in Seq(Row)
  BY <1>1, TableFacts DEF Tidy
<1>3. Answer = [p \in [fk : Data, pk : Data] |-> 0]
  BY <1>1 DEF Answer
<1> QED
  BY <1>1, <1>2, <1>3 DEF Abstract!Init, Abstract!Row, Abstract!Pair, Abstract!Data, Row, Data

LEMMA AbstractStep ==
  IndInv /\ IndInv' /\ [Next]_vars => [Abstract!Give]_Abstract!vars
<1> SUFFICES ASSUME IndInv, IndInv', [Next]_vars PROVE [Abstract!Give]_Abstract!vars
  OBVIOUS
<1>1. CASE VerifyDisjoint
  <2>1. /\ pc = "disjoint" /\ Computed
        /\ UNCHANGED <<fk, pk, left, lookup, cursor, temp, placed, output, delta>>
    BY <1>1 DEF VerifyDisjoint, IndInv, Computed
  <2>2. pc' = "accepted"
    BY <1>1 DEF VerifyDisjoint, Proven, IndInv, NeverRejected
  <2>3. Answer' = Abstract!Joined
    <3>1. Answer' = [p \in [fk : Data, pk : Data] |->
            Cardinality({ i \in DOMAIN output :
              ~output[i].dummy /\ output[i].fk = p.fk /\ output[i].pk = p.pk })]
      BY <2>1, <2>2 DEF Answer
    <3>2. Answer' = [p \in [fk : Data, pk : Data] |->
            IF p.fk.key = p.pk.key
            THEN Abstract!Occurrences(fk, p.fk) * Abstract!Occurrences(pk, p.pk)
            ELSE 0]
      BY <2>1, <3>1, AnswerIsJoined
    <3> QED
      BY <3>2 DEF Abstract!Joined, Abstract!Pair, Abstract!Data, Data
  <2> QED
    BY <2>1, <2>2, <2>3 DEF Abstract!Give
<1>2. CASE Build \/ Probe \/ VerifyPredicate \/ VerifyLeft \/ VerifyRight
  <2>1. pc # "accepted" /\ pc' # "accepted" /\ UNCHANGED <<fk, pk>>
    BY <1>2 DEF Build, Probe, VerifyPredicate, VerifyLeft, VerifyRight, VerifyEquality, Proven
  <2>2. Answer' = Answer
    BY <2>1 DEF Answer
  <2> QED
    BY <2>1, <2>2 DEF Abstract!vars
<1>3. CASE UNCHANGED vars
  <2>1. UNCHANGED <<fk, pk, pc, output>>
    BY <1>3 DEF vars
  <2> QED
    BY <2>1 DEF Abstract!vars, Answer
<1> QED
  BY <1>1, <1>2, <1>3 DEF Next, Run, Terminated

(* The keyed join is an equi-join: its answer is given at most once, and   *)
(* is the bag of all pairs of real rows with equal keys (IsEquiJoin        *)
(* without its progress).                                                  *)
THEOREM ImplementsEquiJoin ==
  Spec => Abstract!Init /\ [][Abstract!Give]_Abstract!vars
<1> QED
  BY InvHolds, AbstractInit, AbstractStep, PTL DEF Spec
=============================================================================
