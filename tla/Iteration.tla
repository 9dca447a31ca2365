------------------------------ MODULE Iteration ------------------------------
(***************************************************************************)
(* Induction and iteration over the natural numbers, permutations and      *)
(* orders of finite sets, and what sorting and picking leave of a table,   *)
(* for the proofs of the other modules.  All are stated of sets and        *)
(* functions rather than of operators, so that the provers can instantiate *)
(* them.                                                                   *)
(***************************************************************************)
EXTENDS Integers, Sequences, FiniteSets, Arrangement, FiniteSetTheorems,
        FunctionTheorems, SequenceTheorems, TLAPS

(* A set that has 0 and the successor of each of its numbers has them all. *)
(* If it lacked n then x |-> x - 1 would map the finite set of the numbers *)
(* up to n that it lacks into itself, one to one, and miss n.              *)
LEMMA NatSetInduction ==
  ASSUME NEW S, 0 \in S, \A n \in Nat : n \in S => n + 1 \in S
  PROVE  Nat \subseteq S
<1> SUFFICES ASSUME NEW n \in Nat, n \notin S PROVE FALSE
  OBVIOUS
<1> DEFINE Lacking == { x \in 0 .. n : x \notin S }
           Pred == [x \in Lacking |-> x - 1]
<1>1. IsFiniteSet(Lacking)
  <2>1. IsFiniteSet(0 .. n) /\ Lacking \subseteq 0 .. n
    BY FS_Interval
  <2> QED
    BY <2>1, FS_Subset
<1>2. n \in Lacking
  OBVIOUS
<1>3. Pred \in [Lacking -> Lacking \ {n}]
  <2> SUFFICES ASSUME NEW x \in Lacking PROVE x - 1 \in Lacking \ {n}
    OBVIOUS
  <2>1. x - 1 \in Nat /\ x - 1 \notin S
    OBVIOUS
  <2> QED
    BY <2>1
<1>4. /\ Cardinality(Lacking \ {n}) = Cardinality(Lacking) - 1
      /\ IsFiniteSet(Lacking \ {n}) /\ Cardinality(Lacking) \in Nat
  BY <1>1, <1>2, FS_RemoveElement, FS_CardinalityType
<1>5. \A x, y \in Lacking : x # y => Pred[x] # Pred[y]
  OBVIOUS
<1> HIDE DEF Pred
<1> QED
  BY <1>1, <1>3, <1>4, <1>5, FS_PigeonHole

LEMMA LeastNumber ==
  ASSUME NEW S, S \subseteq Nat, S # {}
  PROVE  \E n \in S : \A m \in S : n <= m
<1> SUFFICES ASSUME \A n \in S : \E m \in S : m < n PROVE FALSE
  OBVIOUS
<1> DEFINE Good == { n \in Nat : \A m \in S : n < m }
<1>1. 0 \in Good
  <2> SUFFICES ASSUME NEW m \in S PROVE 0 < m
    OBVIOUS
  <2>1. PICK l \in S : l < m
    OBVIOUS
  <2> QED
    BY <2>1
<1>2. ASSUME NEW n \in Nat, n \in Good PROVE n + 1 \in Good
  <2> SUFFICES ASSUME NEW m \in S PROVE n + 1 < m
    OBVIOUS
  <2>1. PICK l \in S : l < m
    OBVIOUS
  <2>2. n < l /\ l \in Nat /\ m \in Nat
    BY <1>2
  <2> QED
    BY <2>1, <2>2
<1> HIDE DEF Good
<1>3. Nat \subseteq Good
  BY <1>1, <1>2, NatSetInduction
<1>4. PICK n \in S : TRUE
  OBVIOUS
<1>5. n \in Good
  BY <1>3
<1> QED
  BY <1>4, <1>5 DEF Good

(* The first k steps of F from c.                                          *)
PrefixesOf(S, F, c, k) ==
  { g \in [0 .. k -> S] :
      g[0] = c /\ \A i \in 0 .. (k - 1) : g[i + 1] = F[g[i]] }

LEMMA PrefixExists ==
  ASSUME NEW S, NEW F \in [S -> S], NEW c \in S, NEW k \in Nat
  PROVE  PrefixesOf(S, F, c, k) # {}
<1> DEFINE Good == { j \in Nat : PrefixesOf(S, F, c, j) # {} }
<1>1. 0 \in Good
  <2>1. [i \in 0 .. 0 |-> c] \in PrefixesOf(S, F, c, 0)
    BY DEF PrefixesOf
  <2> QED
    BY <2>1
<1>2. ASSUME NEW j \in Nat, j \in Good PROVE j + 1 \in Good
  <2>1. PICK g \in PrefixesOf(S, F, c, j) : TRUE
    BY <1>2
  <2> DEFINE h == [i \in 0 .. (j + 1) |-> IF i <= j THEN g[i] ELSE F[g[j]]]
  <2>2. g \in [0 .. j -> S] /\ g[0] = c /\ \A i \in 0 .. (j - 1) : g[i + 1] = F[g[i]]
    BY <2>1 DEF PrefixesOf
  <2>3. h \in [0 .. (j + 1) -> S]
    BY <2>2
  <2>4. h[0] = c
    BY <2>2
  <2>5. \A i \in 0 .. j : h[i + 1] = F[h[i]]
    <3> SUFFICES ASSUME NEW i \in 0 .. j PROVE h[i + 1] = F[h[i]]
      OBVIOUS
    <3>1. CASE i = j
      BY <3>1
    <3>2. CASE i # j
      BY <3>2, <2>2
    <3> QED
      BY <3>1, <3>2
  <2>6. h \in PrefixesOf(S, F, c, j + 1)
    <3> HIDE DEF h
    <3>1. (j + 1) - 1 = j
      OBVIOUS
    <3> QED
      BY <3>1, <2>3, <2>4, <2>5 DEF PrefixesOf
  <2> QED
    BY <2>6
<1> HIDE DEF Good
<1>3. Nat \subseteq Good
  BY <1>1, <1>2, NatSetInduction
<1> QED
  BY <1>3 DEF Good

LEMMA PrefixesAgree ==
  ASSUME NEW S, NEW F \in [S -> S], NEW c \in S, NEW k \in Nat, NEW m \in Nat,
         NEW g \in PrefixesOf(S, F, c, k), NEW h \in PrefixesOf(S, F, c, m),
         NEW i \in Nat, i <= k, i <= m
  PROVE  g[i] = h[i]
<1> DEFINE Good == { j \in Nat : j <= k /\ j <= m => g[j] = h[j] }
<1>1. 0 \in Good
  BY DEF PrefixesOf
<1>2. ASSUME NEW j \in Nat, j \in Good PROVE j + 1 \in Good
  <2> SUFFICES ASSUME j + 1 <= k, j + 1 <= m PROVE g[j + 1] = h[j + 1]
    OBVIOUS
  <2>1. g[j] = h[j]
    BY <1>2
  <2>2. j \in 0 .. (k - 1) /\ j \in 0 .. (m - 1)
    OBVIOUS
  <2> QED
    BY <2>1, <2>2 DEF PrefixesOf
<1> HIDE DEF Good
<1>3. Nat \subseteq Good
  BY <1>1, <1>2, NatSetInduction
<1> QED
  BY <1>3 DEF Good

IsIteration(f, S, F, c) ==
  f \in [Nat -> S] /\ f[0] = c /\ \A n \in Nat : f[n + 1] = F[f[n]]

(* F can be iterated from any c.                                           *)
THEOREM Iterates ==
  ASSUME NEW S, NEW F \in [S -> S], NEW c \in S
  PROVE  \E f : IsIteration(f, S, F, c)
<1> DEFINE g(k) == CHOOSE p \in PrefixesOf(S, F, c, k) : TRUE
           f == [n \in Nat |-> g(n)[n]]
<1>1. \A k \in Nat : g(k) \in PrefixesOf(S, F, c, k)
  BY PrefixExists
<1> HIDE DEF g
<1>2. f \in [Nat -> S] /\ f[0] = c
  BY <1>1 DEF PrefixesOf
<1>3. ASSUME NEW n \in Nat PROVE f[n + 1] = F[f[n]]
  <2>1. g(n + 1)[n] = g(n)[n]
    BY <1>1, PrefixesAgree
  <2>2. g(n + 1)[n + 1] = F[g(n + 1)[n]]
    BY <1>1 DEF PrefixesOf
  <2> QED
    BY <2>1, <2>2
<1>4. IsIteration(f, S, F, c)
  BY <1>2, <1>3 DEF IsIteration
<1> QED
  BY <1>4

IsLoop(f, S, G, c) ==
  f \in [Nat -> S] /\ f[0] = c /\ \A i \in Nat : f[i + 1] = G[<<i + 1, f[i]>>]

(* What a loop f[i \in Nat] == IF i = 0 THEN c ELSE G[<<i, f[i - 1]>>] asks *)
(* for exists.                                                             *)
THEOREM Loops ==
  ASSUME NEW S, NEW G \in [Nat \X S -> S], NEW c \in S
  PROVE  \E f : IsLoop(f, S, G, c)
<1> DEFINE F == [s \in Nat \X S |-> <<s[1] + 1, G[<<s[1] + 1, s[2]>>]>>]
<1>1. F \in [Nat \X S -> Nat \X S] /\ <<0, c>> \in Nat \X S
  OBVIOUS
<1>2. PICK h : IsIteration(h, Nat \X S, F, <<0, c>>)
  <2> HIDE DEF F
  <2> QED
    BY <1>1, Iterates
<1>3. /\ h \in [Nat -> Nat \X S] /\ h[0] = <<0, c>>
      /\ \A i \in Nat : h[i + 1] = <<h[i][1] + 1, G[<<h[i][1] + 1, h[i][2]>>]>>
  BY <1>2 DEF IsIteration
<1> HIDE DEF F
<1> DEFINE Good == { i \in Nat : h[i][1] = i }
<1>4. 0 \in Good
  BY <1>3
<1>5. ASSUME NEW i \in Nat, i \in Good PROVE i + 1 \in Good
  <2>1. h[i + 1] = <<i + 1, G[<<i + 1, h[i][2]>>]>>
    BY <1>3, <1>5
  <2> QED
    BY <2>1
<1> HIDE DEF Good
<1>6. Nat \subseteq Good
  BY <1>4, <1>5, NatSetInduction
<1>7. \A i \in Nat : h[i + 1][2] = G[<<i + 1, h[i][2]>>]
  BY <1>3, <1>6 DEF Good
<1> DEFINE f == [i \in Nat |-> h[i][2]]
<1>8. f \in [Nat -> S] /\ f[0] = c
  BY <1>3
<1>9. \A i \in Nat : f[i + 1] = G[<<i + 1, f[i]>>]
  BY <1>7
<1> HIDE DEF f
<1> QED
  BY <1>8, <1>9 DEF IsLoop

IsRecursion(f, S, G, c, n) ==
  /\ f \in [0 .. n -> S]
  /\ f[0] = c /\ \A i \in 1 .. n : f[i] = G[<<i, f[i - 1]>>]

(* The same for a loop f[i \in 0 .. n] that ends.                           *)
THEOREM Recursion ==
  ASSUME NEW S, NEW G \in [Nat \X S -> S], NEW c \in S, NEW n \in Nat
  PROVE  \E f : IsRecursion(f, S, G, c, n)
<1>1. PICK h : IsLoop(h, S, G, c)
  BY Loops
<1>2. /\ h \in [Nat -> S] /\ h[0] = c
      /\ \A i \in Nat : h[i + 1] = G[<<i + 1, h[i]>>]
  BY <1>1 DEF IsLoop
<1> DEFINE f == [i \in 0 .. n |-> h[i]]
<1>3. f \in [0 .. n -> S] /\ f[0] = c
  BY <1>2
<1>4. \A i \in 1 .. n : f[i] = G[<<i, f[i - 1]>>]
  <2> SUFFICES ASSUME NEW i \in 1 .. n PROVE f[i] = G[<<i, f[i - 1]>>]
    OBVIOUS
  <2>1. i - 1 \in Nat /\ i - 1 \in 0 .. n /\ i \in 0 .. n /\ (i - 1) + 1 = i
    OBVIOUS
  <2>2. h[(i - 1) + 1] = G[<<(i - 1) + 1, h[i - 1]>>]
    BY <1>2, <2>1
  <2> QED
    BY <2>1, <2>2
<1> HIDE DEF f
<1> QED
  BY <1>3, <1>4 DEF IsRecursion

(* A set of numbers from 1 to n that has, with each, all smaller ones is   *)
(* the interval up to its cardinality.                                     *)
LEMMA DownwardClosed ==
  ASSUME NEW n \in Nat, NEW D \in SUBSET (1 .. n),
         \A j \in D : \A i \in 1 .. j : i \in D
  PROVE  Cardinality(D) \in 0 .. n /\ D = 1 .. Cardinality(D)
<1> DEFINE Good == { k \in Nat : k <= n => \E r \in 0 .. k : D \cap (1 .. k) = 1 .. r }
<1>1. 0 \in Good
  OBVIOUS
<1>2. ASSUME NEW k \in Nat, k \in Good PROVE k + 1 \in Good
  <2> SUFFICES ASSUME k + 1 <= n
      PROVE  \E r \in 0 .. (k + 1) : D \cap (1 .. (k + 1)) = 1 .. r
    OBVIOUS
  <2>1. CASE k + 1 \in D
    BY <2>1
  <2>2. CASE k + 1 \notin D
    <3>1. PICK r \in 0 .. k : D \cap (1 .. k) = 1 .. r
      BY <1>2
    <3>2. D \cap (1 .. (k + 1)) = D \cap (1 .. k)
      BY <2>2
    <3> QED
      BY <3>1, <3>2
  <2> QED
    BY <2>1, <2>2
<1>3. n \in Good
  <2> HIDE DEF Good
  <2> QED
    BY <1>1, <1>2, NatSetInduction
<1>4. PICK r \in 0 .. n : D = 1 .. r
  <2>1. PICK r \in 0 .. n : D \cap (1 .. n) = 1 .. r
    BY <1>3
  <2>2. D \cap (1 .. n) = D
    OBVIOUS
  <2> QED
    BY <2>1, <2>2
<1>5. Cardinality(D) = r
  BY <1>4, FS_Interval
<1> QED
  BY <1>4, <1>5

-----------------------------------------------------------------------------
(* Permutations and orders of finite sets.                                 *)

LEMMA Permutation ==
  ASSUME NEW D, NEW p \in Bijection(D, D)
  PROVE  /\ p \in [D -> D] /\ \A i, j \in D : p[i] = p[j] => i = j
         /\ \A y \in D : \E i \in D : p[i] = y
BY Fun_BijectionProperties

(* As many positions of a table satisfy any condition as of a permutation  *)
(* of it.                                                                  *)
LEMMA SameCount ==
  ASSUME NEW D, IsFiniteSet(D), NEW p \in Bijection(D, D), NEW A \in SUBSET D
  PROVE  Cardinality({ i \in D : p[i] \in A }) = Cardinality(A)
<1> DEFINE B == { i \in D : p[i] \in A }
           q == [i \in B |-> p[i]]
<1>1. /\ p \in [D -> D] /\ \A i, j \in D : p[i] = p[j] => i = j
      /\ \A y \in D : \E i \in D : p[i] = y
  BY Permutation
<1>2. q \in [B -> A]
  OBVIOUS
<1>3. \A i, j \in B : q[i] = q[j] => i = j
  BY <1>1
<1>4. \A y \in A : \E i \in B : q[i] = y
  BY <1>1
<1> HIDE DEF q
<1>5. q \in Bijection(B, A)
  BY <1>2, <1>3, <1>4, Fun_IsBij
<1>6. IsFiniteSet(B)
  BY FS_Subset
<1> HIDE DEF B
<1>7. ExistsBijection(B, A)
  BY <1>5 DEF ExistsBijection
<1> QED
  BY <1>6, <1>7, FS_Bijection DEF B

(* The place of an element in a set that is ordered: how many come before  *)
(* it, itself included.                                                    *)
Rank(S, R) == [i \in S |-> Cardinality({ j \in S : <<j, i>> \in R })]

IsTotalOrder(S, R) ==
  /\ \A i \in S : <<i, i>> \in R
  /\ \A i, j \in S : <<i, j>> \in R \/ <<j, i>> \in R
  /\ \A i, j \in S : <<i, j>> \in R /\ <<j, i>> \in R => i = j
  /\ \A i, j, k \in S : <<i, j>> \in R /\ <<j, k>> \in R => <<i, k>> \in R

(* Places are the numbers from 1 up, one each, and grow with the order.    *)
LEMMA Ranked ==
  ASSUME NEW S, IsFiniteSet(S), NEW R, IsTotalOrder(S, R)
  PROVE  /\ Rank(S, R) \in Bijection(S, 1 .. Cardinality(S))
         /\ \A i, j \in S : Rank(S, R)[i] < Rank(S, R)[j] => <<i, j>> \in R
<1> DEFINE upto(i) == { j \in S : <<j, i>> \in R }
           f == Rank(S, R)
           n == Cardinality(S)
<1>1. \A i \in S : /\ IsFiniteSet(upto(i)) /\ Cardinality(upto(i)) \in 1 .. n
                   /\ f[i] = Cardinality(upto(i))
  <2> SUFFICES ASSUME NEW i \in S
      PROVE  /\ IsFiniteSet(upto(i)) /\ Cardinality(upto(i)) \in 1 .. n
             /\ f[i] = Cardinality(upto(i))
    OBVIOUS
  <2>1. upto(i) \in SUBSET S /\ i \in upto(i)
    BY DEF IsTotalOrder
  <2>2. f[i] = Cardinality(upto(i))
    BY DEF Rank
  <2> HIDE DEF upto, f
  <2>3. IsFiniteSet(upto(i)) /\ Cardinality(upto(i)) <= n
    BY <2>1, FS_Subset
  <2>4. Cardinality(upto(i)) \in Nat /\ n \in Nat /\ Cardinality(upto(i)) # 0
    BY <2>1, <2>3, FS_CardinalityType, FS_EmptySet
  <2> QED
    BY <2>2, <2>3, <2>4
<1>2. ASSUME NEW i \in S, NEW j \in S, i # j, <<i, j>> \in R
      PROVE  f[i] < f[j]
  <2>1. upto(i) \in SUBSET upto(j) /\ j \in upto(j) /\ j \notin upto(i)
    BY <1>2 DEF IsTotalOrder
  <2> HIDE DEF upto, f, n
  <2>2. IsFiniteSet(upto(j)) /\ upto(i) # upto(j)
    BY <1>1, <2>1
  <2>3. /\ Cardinality(upto(i)) <= Cardinality(upto(j))
        /\ Cardinality(upto(j)) = Cardinality(upto(i)) => upto(j) = upto(i)
    BY <2>1, <2>2, FS_Subset
  <2>4. /\ Cardinality(upto(i)) \in 1 .. n /\ Cardinality(upto(j)) \in 1 .. n
        /\ f[i] = Cardinality(upto(i)) /\ f[j] = Cardinality(upto(j)) /\ n \in Nat
    BY <1>1, FS_CardinalityType DEF n
  <2> QED
    BY <2>2, <2>3, <2>4
<1>3. n \in Nat
  BY FS_CardinalityType
<1>4. f \in [S -> 1 .. n]
  <2> f = [i \in S |-> Cardinality(upto(i))]
    BY DEF Rank
  <2> HIDE DEF upto, n, f
  <2> QED
    BY <1>1
<1> HIDE DEF f, n, upto
<1>5. \A i \in S : f[i] \in Nat
  BY <1>3, <1>4
<1>6. \A i, j \in S : f[i] = f[j] => i = j
  <2> SUFFICES ASSUME NEW i \in S, NEW j \in S, i # j PROVE f[i] # f[j]
    OBVIOUS
  <2>1. <<i, j>> \in R \/ <<j, i>> \in R
    BY DEF IsTotalOrder
  <2> QED
    BY <2>1, <1>2, <1>5
<1>7. \A i, j \in S : f[i] < f[j] => <<i, j>> \in R
  <2> SUFFICES ASSUME NEW i \in S, NEW j \in S, f[i] < f[j], <<i, j>> \notin R
      PROVE  FALSE
    OBVIOUS
  <2>1. <<j, i>> \in R /\ i # j
    BY DEF IsTotalOrder
  <2> QED
    BY <2>1, <1>2, <1>5
<1>8. f \in Injection(S, 1 .. n)
  BY <1>4, <1>6, Fun_IsInj
<1>9. IsFiniteSet(1 .. n) /\ Cardinality(1 .. n) = n
  BY <1>3, FS_Interval
<1>10. f \in Surjection(S, 1 .. n)
  <2> DEFINE T == 1 .. n
  <2>1. IsFiniteSet(T) /\ f \in Injection(S, T) /\ Cardinality(S) = Cardinality(T)
    BY <1>8, <1>9 DEF n
  <2> HIDE DEF T
  <2>2. f \in Surjection(S, T)
    BY <2>1, FS_Injection
  <2> QED
    BY <2>2 DEF T
<1>11. f \in Bijection(S, 1 .. n)
  BY <1>8, <1>10 DEF Bijection
<1> QED
  BY <1>7, <1>11 DEF f, n

-----------------------------------------------------------------------------
(* Sorting and picking.                                                    *)

IsStrictOrder(S, less) ==
  /\ \A a \in S : <<a, a>> \notin less
  /\ \A a, b \in S : a # b => <<a, b>> \in less \/ <<b, a>> \in less
  /\ \A a, b, c \in S : <<a, b>> \in less /\ <<b, c>> \in less => <<a, c>> \in less

(* A sorted table is a permutation in which no row is less than one before.*)
LEMMA SortedFacts ==
  ASSUME NEW S, NEW less, IsStrictOrder(S, less), NEW t \in Seq(S)
  PROVE  /\ \E p \in Bijection(DOMAIN t, DOMAIN t) :
              SortedBy(t, less) = [n \in DOMAIN t |-> t[p[n]]]
         /\ \A m, n \in DOMAIN t :
              m < n => \/ <<SortedBy(t, less)[m], SortedBy(t, less)[n]>> \in less
                       \/ SortedBy(t, less)[m] = SortedBy(t, less)[n]
<1> DEFINE D == 1 .. Len(t)
           R == { x \in D \X D : \/ <<t[x[1]], t[x[2]]>> \in less
                                 \/ t[x[1]] = t[x[2]] /\ x[1] <= x[2] }
           place(i) == Cardinality({ j \in DOMAIN t :
                         \/ <<t[j], t[i]>> \in less
                         \/ t[j] = t[i] /\ j <= i })
           p == [n \in DOMAIN t |-> CHOOSE i \in DOMAIN t : place(i) = n]
<1>1. DOMAIN t = D /\ Len(t) \in Nat /\ \A i \in D : t[i] \in S
  OBVIOUS
<1>2. \A i, j \in D : <<j, i>> \in R <=> \/ <<t[j], t[i]>> \in less
                                         \/ t[j] = t[i] /\ j <= i
  OBVIOUS
<1>3. IsTotalOrder(D, R)
  <2> HIDE DEF R
  <2>1. \A i \in D : t[i] \in S /\ i \in Nat
    OBVIOUS
  <2> HIDE DEF D
  <2>2. ASSUME NEW i \in D PROVE <<i, i>> \in R
    <3>1. t[i] = t[i] /\ i <= i
      BY <2>1
    <3> QED
      BY <3>1, <1>2
  <2>3. ASSUME NEW i \in D, NEW j \in D PROVE <<i, j>> \in R \/ <<j, i>> \in R
    <3>1. t[i] \in S /\ t[j] \in S /\ (i <= j \/ j <= i)
      BY <2>1
    <3>2. CASE t[i] = t[j]
      BY <3>1, <3>2, <1>2
    <3>3. CASE t[i] # t[j]
      BY <3>1, <3>3, <1>2 DEF IsStrictOrder
    <3> QED
      BY <3>2, <3>3
  <2>4. ASSUME NEW i \in D, NEW j \in D, <<i, j>> \in R, <<j, i>> \in R PROVE i = j
    <3>1. t[i] \in S /\ t[j] \in S /\ i \in Nat /\ j \in Nat
      BY <2>1
    <3>2. /\ <<t[i], t[j]>> \in less \/ (t[i] = t[j] /\ i <= j)
          /\ <<t[j], t[i]>> \in less \/ (t[j] = t[i] /\ j <= i)
      BY <1>2, <2>4
    <3>3. ~(<<t[i], t[j]>> \in less)
      <4> SUFFICES ASSUME <<t[i], t[j]>> \in less PROVE FALSE
        OBVIOUS
      <4>1. <<t[j], t[i]>> \in less \/ t[j] = t[i]
        BY <3>2
      <4>2. <<t[i], t[i]>> \in less
        BY <3>1, <4>1 DEF IsStrictOrder
      <4> QED
        BY <3>1, <4>2 DEF IsStrictOrder
    <3>4. i <= j /\ t[j] = t[i]
      BY <3>2, <3>3
    <3>5. j <= i
      BY <3>2, <3>3, <3>4
    <3> QED
      BY <3>1, <3>4, <3>5
  <2>5. ASSUME NEW i \in D, NEW j \in D, NEW k \in D, <<i, j>> \in R, <<j, k>> \in R
        PROVE  <<i, k>> \in R
    <3>1. /\ t[i] \in S /\ t[j] \in S /\ t[k] \in S
          /\ i \in Nat /\ j \in Nat /\ k \in Nat
      BY <2>1
    <3>2. /\ <<t[i], t[j]>> \in less \/ (t[i] = t[j] /\ i <= j)
          /\ <<t[j], t[k]>> \in less \/ (t[j] = t[k] /\ j <= k)
      BY <1>2, <2>5
    <3>3. <<t[i], t[k]>> \in less \/ (t[i] = t[k] /\ i <= k)
      BY <3>1, <3>2 DEF IsStrictOrder
    <3> QED
      BY <3>3, <1>2
  <2> QED
    BY <2>2, <2>3, <2>4, <2>5 DEF IsTotalOrder
<1>4. IsFiniteSet(D) /\ Cardinality(D) = Len(t)
  <2>1. Len(t) \in Nat /\ 1 \in Int /\ Len(t) \in Int
    OBVIOUS
  <2>2. /\ IsFiniteSet(1 .. Len(t))
        /\ Cardinality(1 .. Len(t)) = IF 1 > Len(t) THEN 0 ELSE Len(t) - 1 + 1
    BY <2>1, FS_Interval
  <2> QED
    BY <2>1, <2>2
<1>5. \A i \in D : Rank(D, R)[i] = place(i)
  <2> SUFFICES ASSUME NEW i \in D PROVE Rank(D, R)[i] = place(i)
    OBVIOUS
  <2>1. { j \in D : <<j, i>> \in R } = { j \in DOMAIN t :
                         \/ <<t[j], t[i]>> \in less
                         \/ t[j] = t[i] /\ j <= i }
    BY <1>1, <1>2
  <2> QED
    BY <2>1 DEF Rank
<1> HIDE DEF R, place
<1>6. /\ Rank(D, R) \in Bijection(D, D)
      /\ \A i, j \in D : Rank(D, R)[i] < Rank(D, R)[j] => <<i, j>> \in R
  BY <1>3, <1>4, Ranked
<1>7. /\ \A i, j \in D : place(i) = place(j) => i = j
      /\ \A n \in D : \E i \in D : place(i) = n
      /\ \A i, j \in D : place(i) < place(j) => <<i, j>> \in R
  <2> DEFINE E == D
  <2>1. Rank(D, R) \in Bijection(E, E)
    BY <1>6
  <2> HIDE DEF E
  <2>2. /\ \A i, j \in E : Rank(D, R)[i] = Rank(D, R)[j] => i = j
        /\ \A n \in E : \E i \in E : Rank(D, R)[i] = n
    BY <2>1, Permutation
  <2> QED
    BY <2>2, <1>5, <1>6 DEF E
<1>8. \A n \in D : p[n] \in D /\ place(p[n]) = n
  BY <1>1, <1>7
<1>9. p \in Bijection(DOMAIN t, DOMAIN t)
  <2>1. p \in [D -> D] /\ \A i, j \in D : p[i] = p[j] => i = j
    <3>1. DOMAIN p = D
      BY <1>1
    <3> QED
      BY <3>1, <1>8
  <2>2. \A i \in D : \E n \in D : p[n] = i
    <3> SUFFICES ASSUME NEW i \in D PROVE \E n \in D : p[n] = i
      OBVIOUS
    <3>1. place(i) \in D
      <4> DEFINE E == D
      <4>1. Rank(D, R) \in Bijection(E, E)
        BY <1>6
      <4> HIDE DEF E
      <4>2. Rank(D, R) \in [E -> E]
        BY <4>1, Permutation
      <4> QED
        BY <4>2, <1>5 DEF E
    <3> QED
      BY <3>1, <1>7, <1>8
  <2> HIDE DEF p
  <2>3. p \in Bijection(D, D)
    BY <2>1, <2>2, Fun_IsBij
  <2> QED
    BY <2>3, <1>1
<1>10. SortedBy(t, less) = [n \in DOMAIN t |-> t[p[n]]]
  BY DEF SortedBy, place
<1>11. ASSUME NEW m \in DOMAIN t, NEW n \in DOMAIN t, m < n
       PROVE  \/ <<SortedBy(t, less)[m], SortedBy(t, less)[n]>> \in less
              \/ SortedBy(t, less)[m] = SortedBy(t, less)[n]
  <2>1. /\ p[m] \in D /\ p[n] \in D /\ m \in D /\ n \in D
        /\ place(p[m]) = m /\ place(p[n]) = n
    BY <1>1, <1>8
  <2>3. <<p[m], p[n]>> \in R
    <3> HIDE DEF p, D
    <3> QED
      BY <2>1, <1>7, <1>11
  <2> HIDE DEF p
  <2>2. <<t[p[m]], t[p[n]]>> \in less \/ t[p[m]] = t[p[n]]
    BY <2>1, <2>3, <1>2
  <2> QED
    BY <2>2, <1>10
<1> HIDE DEF p
<1> QED
  BY <1>9, <1>10, <1>11

(* Nth numbers the elements of a set of numbers.                           *)
LEMMA NthFacts ==
  ASSUME NEW U, U \subseteq Nat, IsFiniteSet(U)
  PROVE  /\ Cardinality(U) \in Nat
         /\ \A n \in 1 .. Cardinality(U) : Nth(U, n) \in U
         /\ \A i \in U : \E n \in 1 .. Cardinality(U) : Nth(U, n) = i
         /\ \A m, n \in 1 .. Cardinality(U) : Nth(U, m) = Nth(U, n) => m = n
<1> DEFINE R == { x \in U \X U : x[1] <= x[2] }
           place(i) == Cardinality({ j \in U : j <= i })
           N == 1 .. Cardinality(U)
<1>1. IsTotalOrder(U, R)
  BY DEF IsTotalOrder
<1>2. Rank(U, R) \in Bijection(U, N)
  <2> HIDE DEF R
  <2> QED
    BY <1>1, Ranked
<1>3. \A i \in U : Rank(U, R)[i] = place(i)
  <2> SUFFICES ASSUME NEW i \in U PROVE Rank(U, R)[i] = place(i)
    OBVIOUS
  <2>1. { j \in U : <<j, i>> \in R } = { j \in U : j <= i }
    OBVIOUS
  <2> HIDE DEF R
  <2> QED
    BY <2>1 DEF Rank
<1> HIDE DEF R, place, N
<1>4. /\ \A i, j \in U : place(i) = place(j) => i = j
      /\ \A i \in U : place(i) \in N
      /\ \A n \in N : \E i \in U : place(i) = n
  <2>1. /\ Rank(U, R) \in [U -> N]
        /\ \A i, j \in U : Rank(U, R)[i] = Rank(U, R)[j] => i = j
        /\ \A n \in N : \E i \in U : Rank(U, R)[i] = n
    <3> DEFINE f == Rank(U, R)
    <3>1. f \in Bijection(U, N)
      BY <1>2
    <3> HIDE DEF f
    <3>2. /\ f \in [U -> N] /\ \A i, j \in U : f[i] = f[j] => i = j
          /\ \A n \in N : \E i \in U : f[i] = n
      BY <3>1 DEF Bijection, Injection, Surjection, IsInjective
    <3> QED
      BY <3>2 DEF f
  <2> QED
    BY <2>1, <1>3
<1>5. \A n : Nth(U, n) = CHOOSE i \in U : place(i) = n
  BY DEF Nth, place
<1>6. \A n \in N : Nth(U, n) \in U /\ place(Nth(U, n)) = n
  BY <1>4, <1>5
<1>7. Cardinality(U) \in Nat
  BY FS_CardinalityType
<1>8. \A i \in U : \E n \in N : Nth(U, n) = i
  <2> SUFFICES ASSUME NEW i \in U PROVE Nth(U, place(i)) = i /\ place(i) \in N
    OBVIOUS
  <2>1. place(i) \in N
    BY <1>4
  <2>2. Nth(U, place(i)) \in U /\ place(Nth(U, place(i))) = place(i)
    BY <1>6, <2>1
  <2> QED
    BY <1>4, <2>1, <2>2
<1>9. \A m, n \in N : Nth(U, m) = Nth(U, n) => m = n
  BY <1>6
<1> QED
  BY <1>6, <1>7, <1>8, <1>9 DEF N

-----------------------------------------------------------------------------
(* Counting the places of a value.                                         *)

LEMMA SameSize ==
  ASSUME NEW A, IsFiniteSet(A), NEW B, NEW f \in [A -> B],
         \A i, j \in A : f[i] = f[j] => i = j, \A y \in B : \E i \in A : f[i] = y
  PROVE  IsFiniteSet(B) /\ Cardinality(B) = Cardinality(A)
<1>1. f \in Bijection(A, B)
  BY Fun_IsBij
<1>2. ExistsBijection(A, B)
  BY <1>1 DEF ExistsBijection
<1> QED
  BY <1>2, FS_Bijection

LEMMA DomainFinite ==
  ASSUME NEW S, NEW t \in Seq(S)
  PROVE  /\ DOMAIN t = 1 .. Len(t) /\ Len(t) \in Nat
         /\ IsFiniteSet(DOMAIN t) /\ Cardinality(DOMAIN t) = Len(t)
<1>1. DOMAIN t = 1 .. Len(t) /\ Len(t) \in Nat /\ 1 \in Int /\ Len(t) \in Int
  OBVIOUS
<1>2. /\ IsFiniteSet(1 .. Len(t))
      /\ Cardinality(1 .. Len(t)) = IF 1 > Len(t) THEN 0 ELSE Len(t) - 1 + 1
  BY <1>1, FS_Interval
<1> QED
  BY <1>1, <1>2

LEMMA ElementType ==
  ASSUME NEW S, NEW t \in Seq(S), NEW i \in DOMAIN t
  PROVE  t[i] \in S
OBVIOUS

PlacesOf(t, x) == { i \in DOMAIN t : t[i] = x }

LEMMA PlacesOfFinite ==
  ASSUME NEW S, NEW t \in Seq(S), NEW x
  PROVE  /\ IsFiniteSet(PlacesOf(t, x)) /\ Cardinality(PlacesOf(t, x)) \in Nat
         /\ Cardinality(PlacesOf(t, x)) = 0 <=> PlacesOf(t, x) = {}
<1>1. PlacesOf(t, x) \in SUBSET DOMAIN t /\ IsFiniteSet(DOMAIN t)
  BY DomainFinite DEF PlacesOf
<1>2. IsFiniteSet(PlacesOf(t, x))
  BY <1>1, FS_Subset
<1> QED
  BY <1>2, FS_CardinalityType, FS_EmptySet

LEMMA PlacesOfConcat ==
  ASSUME NEW S, NEW s \in Seq(S), NEW t \in Seq(S), NEW x
  PROVE  Cardinality(PlacesOf(s \o t, x)) =
           Cardinality(PlacesOf(s, x)) + Cardinality(PlacesOf(t, x))
<1> DEFINE P == PlacesOf(s, x)
           Q == PlacesOf(t, x)
           Q2 == { i \in Len(s) + 1 .. Len(s) + Len(t) : (s \o t)[i] = x }
           f == [j \in Q |-> Len(s) + j]
<1>1. /\ s \o t \in Seq(S) /\ Len(s \o t) = Len(s) + Len(t)
      /\ Len(s) \in Nat /\ Len(t) \in Nat
      /\ DOMAIN (s \o t) = 1 .. Len(s) + Len(t)
      /\ DOMAIN s = 1 .. Len(s) /\ DOMAIN t = 1 .. Len(t)
  BY ConcatProperties
<1>2. /\ \A i \in 1 .. Len(s) : (s \o t)[i] = s[i]
      /\ \A j \in 1 .. Len(t) : (s \o t)[Len(s) + j] = t[j]
  <2>1. \A i \in 1 .. Len(s) + Len(t) :
          (s \o t)[i] = IF i <= Len(s) THEN s[i] ELSE t[i - Len(s)]
    BY ConcatProperties
  <2>2. ASSUME NEW j \in 1 .. Len(t) PROVE (s \o t)[Len(s) + j] = t[j]
    <3>1. /\ Len(s) + j \in 1 .. Len(s) + Len(t) /\ ~(Len(s) + j <= Len(s))
          /\ Len(s) + j - Len(s) = j
      BY <1>1
    <3> QED
      BY <3>1, <2>1
  <2>3. ASSUME NEW i \in 1 .. Len(s) PROVE (s \o t)[i] = s[i]
    <3>1. i \in 1 .. Len(s) + Len(t) /\ i <= Len(s)
      BY <1>1
    <3> QED
      BY <3>1, <2>1
  <2> QED
    BY <2>2, <2>3
<1>3. PlacesOf(s \o t, x) = P \cup Q2
  BY <1>1, <1>2 DEF PlacesOf
<1>4. P \cap Q2 = {}
  BY <1>1 DEF PlacesOf
<1>5. /\ IsFiniteSet(P) /\ IsFiniteSet(Q)
      /\ Cardinality(P) \in Nat /\ Cardinality(Q) \in Nat
  BY PlacesOfFinite
<1>6. \A j \in Q : f[j] = Len(s) + j /\ f[j] \in Q2 /\ j \in Nat
  BY <1>1, <1>2 DEF PlacesOf
<1>7. \A y \in Q2 : \E j \in Q : f[j] = y
  <2> SUFFICES ASSUME NEW y \in Q2 PROVE \E j \in Q : f[j] = y
    OBVIOUS
  <2>1. y - Len(s) \in 1 .. Len(t) /\ Len(s) + (y - Len(s)) = y
    BY <1>1
  <2>2. t[y - Len(s)] = x
    BY <2>1, <1>2
  <2>3. y - Len(s) \in Q
    BY <2>1, <2>2, <1>1 DEF PlacesOf
  <2> QED
    BY <2>1, <2>3, <1>6
<1>8. f \in [Q -> Q2] /\ \A i, j \in Q : f[i] = f[j] => i = j
  <2>1. f = [j \in Q |-> f[j]]
    OBVIOUS
  <2> HIDE DEF f, Q, Q2
  <2> QED
    BY <1>1, <1>6, <2>1
<1> HIDE DEF f, Q, Q2, P
<1>9. IsFiniteSet(Q2) /\ Cardinality(Q2) = Cardinality(Q)
  BY <1>5, <1>7, <1>8, SameSize
<1>10. Cardinality(P \cup Q2) = Cardinality(P) + Cardinality(Q2) - 0
  <2>1. Cardinality(P \cup Q2) = Cardinality(P) + Cardinality(Q2) - Cardinality(P \cap Q2)
    BY <1>5, <1>9, FS_Union
  <2> QED
    BY <2>1, <1>4, FS_EmptySet
<1>11. Cardinality(P \cup Q2) = Cardinality(P) + Cardinality(Q)
  BY <1>5, <1>9, <1>10
<1> QED
  BY <1>3, <1>11 DEF P, Q

(* A permutation of a table has each value as often.                       *)
LEMMA PlacesOfPermuted ==
  ASSUME NEW S, NEW t \in Seq(S), NEW p \in Bijection(DOMAIN t, DOMAIN t), NEW x
  PROVE  Cardinality(PlacesOf([n \in DOMAIN t |-> t[p[n]]], x)) =
           Cardinality(PlacesOf(t, x))
<1> DEFINE D == DOMAIN t
           A == PlacesOf(t, x)
           B == { i \in D : p[i] \in A }
<1>1. IsFiniteSet(D) /\ p \in Bijection(D, D) /\ A \in SUBSET D
  BY DomainFinite DEF PlacesOf
<1>2. p \in [D -> D]
  <2> HIDE DEF D
  <2> QED
    BY <1>1, Permutation
<1>3. PlacesOf([n \in DOMAIN t |-> t[p[n]]], x) = B
  BY <1>2 DEF PlacesOf
<1> HIDE DEF D, A
<1>4. Cardinality(B) = Cardinality(A)
  BY <1>1, SameCount
<1> QED
  BY <1>3, <1>4 DEF A, D

(* What is picked has a value as often as the positions picked do.         *)
LEMMA PickedFacts ==
  ASSUME NEW S, NEW t \in Seq(S), NEW U \in SUBSET DOMAIN t
  PROVE  /\ IsFiniteSet(U) /\ Cardinality(U) \in 0 .. Len(t)
         /\ Picked(t, U) \in Seq(S) /\ Len(Picked(t, U)) = Cardinality(U)
         /\ \A x : Cardinality(PlacesOf(Picked(t, U), x)) =
                     Cardinality({ i \in U : t[i] = x })
<1> DEFINE c == Picked(t, U)
           N == 1 .. Cardinality(U)
<1>1. /\ DOMAIN t = 1 .. Len(t) /\ Len(t) \in Nat
      /\ IsFiniteSet(DOMAIN t) /\ Cardinality(DOMAIN t) = Len(t)
  BY DomainFinite
<1>2. IsFiniteSet(U) /\ Cardinality(U) <= Len(t) /\ U \subseteq Nat
  BY <1>1, FS_Subset
<1>3. /\ Cardinality(U) \in Nat
      /\ \A n \in N : Nth(U, n) \in U
      /\ \A i \in U : \E n \in N : Nth(U, n) = i
      /\ \A m, n \in N : Nth(U, m) = Nth(U, n) => m = n
  BY <1>2, NthFacts
<1>4. /\ DOMAIN c = N /\ c = [n \in N |-> c[n]]
      /\ \A n \in N : c[n] = t[Nth(U, n)]
  BY DEF Picked
<1> HIDE DEF c
<1>5. \A n \in N : c[n] \in S
  <2> SUFFICES ASSUME NEW n \in N PROVE c[n] \in S
    OBVIOUS
  <2>1. Nth(U, n) \in DOMAIN t /\ c[n] = t[Nth(U, n)]
    BY <1>3, <1>4
  <2> QED
    BY <2>1, ElementType
<1>6. c \in Seq(S) /\ Len(c) = Cardinality(U)
  BY <1>3, <1>4, <1>5
<1>7. ASSUME NEW x
      PROVE  Cardinality(PlacesOf(c, x)) = Cardinality({ i \in U : t[i] = x })
  <2> DEFINE P == PlacesOf(c, x)
             Q == { i \in U : t[i] = x }
             f == [n \in P |-> Nth(U, n)]
  <2>1. \A n \in P : n \in N /\ f[n] = Nth(U, n) /\ f[n] \in Q
    BY <1>3, <1>4 DEF PlacesOf
  <2>2. \A y \in Q : \E n \in P : f[n] = y
    <3> SUFFICES ASSUME NEW y \in Q PROVE \E n \in P : f[n] = y
      OBVIOUS
    <3>1. PICK n \in N : Nth(U, n) = y
      BY <1>3
    <3>2. n \in P
      BY <3>1, <1>4 DEF PlacesOf
    <3> QED
      BY <3>1, <3>2
  <2>3. f \in [P -> Q] /\ \A m, n \in P : f[m] = f[n] => m = n
    <3>1. f = [n \in P |-> f[n]]
      OBVIOUS
    <3> HIDE DEF f, P, Q, N
    <3> QED
      BY <2>1, <3>1, <1>3
  <2>4. IsFiniteSet(P)
    BY <1>6, PlacesOfFinite
  <2> HIDE DEF f, P, Q
  <2>5. Cardinality(Q) = Cardinality(P)
    BY <2>2, <2>3, <2>4, SameSize
  <2> QED
    BY <2>5 DEF P, Q
<1>8. Cardinality(U) \in 0 .. Len(t)
  BY <1>1, <1>2, <1>3
<1> QED
  BY <1>2, <1>6, <1>7, <1>8 DEF c

=============================================================================
