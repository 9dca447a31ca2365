---------------------------- MODULE Arrangement -----------------------------
(***************************************************************************)
(* Tables rearranged: sorted by an order, or reduced to some of their      *)
(* rows, as the joins and the ZK set library do with vectors.              *)
(***************************************************************************)
EXTENDS Naturals, Sequences, FiniteSets

(* std::sort by an order in which no two rows tie that are not equal: a    *)
(* row's place is the number of rows that do not come behind it.           *)
SortedBy(table, less) ==
  LET place(i) == Cardinality({ j \in DOMAIN table :
                    \/ <<table[j], table[i]>> \in less
                    \/ table[j] = table[i] /\ j <= i })
  IN  [n \in DOMAIN table |-> table[CHOOSE i \in DOMAIN table : place(i) = n]]

(* What the n-th pass through a loop that skips other positions is at.     *)
Nth(S, n) == CHOOSE i \in S : Cardinality({ j \in S : j <= i }) = n

(* The rows at some positions, in their order.                             *)
Picked(table, positions) ==
  [n \in 1 .. Cardinality(positions) |-> table[Nth(positions, n)]]
=============================================================================
