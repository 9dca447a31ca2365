------------------------------ MODULE KeyedJoin -----------------------------
(***************************************************************************)
(* HashKeyedJoin: Alice joins a foreign-key table with a primary-key table *)
(* by hashing, and both parties then check the result as a circuit: every  *)
(* row written meets the predicate; each input is what was matched of it   *)
(* plus what was not; and no key is among the unmatched rows of both.      *)
(*                                                                         *)
(* A row has a key, one other column and a dummy tag; zero is the value of *)
(* a column whose bits are all zero.  Alice computes everything twice, in  *)
(* the clear and in the circuit; the model has one table for both.         *)
(***************************************************************************)
EXTENDS Naturals, Sequences, FiniteSets, Arrangement

CONSTANTS
  Keys,     (* values of the join key, ordered as the circuit orders them   *)
  Pays,     (* values of the other column                                   *)
  Inputs    (* pairs of a foreign-key and a primary-key table               *)

Data == [key : Keys, pay : Pays]
Row == [key : Keys, pay : Pays, dummy : BOOLEAN]

ASSUME ZeroAssumption == Keys \cup Pays \subseteq Nat /\ 0 \in Keys \cap Pays
ASSUME InputsAssumption ==
  Inputs \subseteq [fk : Seq(Row) \ {<< >>}, pk : Seq(Row) \ {<< >>}]

Zero == [key |-> 0, pay |-> 0, dummy |-> TRUE]

(* Dummies are zeroed, as Filter, GroupByAggregate and this join leave     *)
(* them, and the key of the primary-key table is one: the class relies on  *)
(* both and checks neither.                                                *)
ASSUME ZeroedAssumption ==
  \A in \in Inputs : \A table \in {in.fk, in.pk} : \A i \in DOMAIN table :
    table[i].dummy => table[i] = Zero
ASSUME KeyedAssumption ==
  \A in \in Inputs : \A i, j \in DOMAIN in.pk :
    in.pk[i].key = in.pk[j].key /\ i # j => in.pk[i].dummy \/ in.pk[j].dummy

VARIABLES
  fk, pk,   (* the children's outputs                                       *)
  left,     (* the side of the left child: foreign_key_input_ = 0 iff "fk"  *)
  pc,
  lookup,   (* hash table of the primary-key rows                           *)
  cursor,   (* foreign-key rows probed                                      *)
  temp,     (* tempLhs and tempRhs, row by row                              *)
  placed,   (* tempTablePos                                                 *)
  output,   (* output_                                                      *)
  delta     (* diff_rt and diff_st                                          *)

vars == <<fk, pk, left, pc, lookup, cursor, temp, placed, output, delta>>

ZeroPair == [fk |-> Zero, pk |-> Zero]
Zeros(n) == [i \in 1 .. n |-> Zero]

Side == {"fk", "pk"}
right == IF left = "fk" THEN "pk" ELSE "fk"
Table(side) == IF side = "fk" THEN fk ELSE pk
DataOf(row) == [key |-> row.key, pay |-> row.pay]

outputTupleCountOfPrimary == Len(pk)

(* The larger of the two tables.                                           *)
outputTupleCount == IF Len(fk) > Len(pk) THEN Len(fk) ELSE Len(pk)
Init ==
  /\ \E in \in Inputs : fk = in.fk /\ pk = in.pk
  /\ left \in Side
  /\ pc = "build"
  /\ lookup = << >>
  /\ cursor = 0 /\ placed = 0
  /\ temp = << >> /\ output = << >>
  /\ delta = [side \in Side |-> << >>]

(* Real primary-key rows by key; insert() keeps the first of two.          *)
RealWith(k) == { i \in DOMAIN pk : ~pk[i].dummy /\ pk[i].key = k }

FirstWith(k) ==
  pk[CHOOSE i \in RealWith(k) : \A j \in RealWith(k) : i <= j]

Build ==
  /\ pc = "build"
  /\ lookup' = [k \in { pk[i].key : i \in { j \in DOMAIN pk : ~pk[j].dummy } }
                  |-> FirstWith(k)]
  /\ temp' = [i \in 1 .. outputTupleCount |-> ZeroPair]
  /\ pc' = "probe"
  /\ UNCHANGED <<fk, pk, left, cursor, placed, output, delta>>

(* Matched without its test of the dummy tag.                              *)
MatchedDummyToo(row) == row.key \in DOMAIN lookup
Matched(row) == ~row.dummy /\ row.key \in DOMAIN lookup

Probe ==
  /\ pc = "probe"
  /\ cursor < Len(fk)
  /\ cursor' = cursor + 1
  /\ LET row == fk[cursor + 1] IN
       IF Matched(row)
       THEN /\ placed' = placed + 1
            /\ temp' = [temp EXCEPT ![placed + 1] =
                          [fk |-> row, pk |-> lookup[row.key]]]
       ELSE UNCHANGED <<placed, temp>>
  /\ UNCHANGED <<fk, pk, left, pc, lookup, output, delta>>

(* Join::join_tuples and Join::get_dummy_tag.                              *)
Predicate(pair) == pair.fk.key = pair.pk.key

(* JoinTuples without the tags of its halves.                              *)
JoinTuplesPredicateOnly(pair) ==
  [fk |-> DataOf(pair.fk), pk |-> DataOf(pair.pk),
   dummy |-> ~Predicate(pair)]

JoinTuples(pair) ==
  [fk |-> DataOf(pair.fk), pk |-> DataOf(pair.pk),
   dummy |-> ~Predicate(pair) \/ pair.fk.dummy \/ pair.pk.dummy]

Proven(check, next) == IF check THEN next ELSE "rejected"

(* Join::verifyPredicate over all rows, padding included, writing output_. *)
VerifyPredicate ==
  /\ pc = "probe"
  /\ cursor = Len(fk)
  /\ output' = [i \in DOMAIN temp |-> JoinTuples(temp[i])]
  /\ pc' = Proven(\A i \in DOMAIN temp : Predicate(temp[i]), "left")
  /\ UNCHANGED <<fk, pk, left, lookup, cursor, temp, placed, delta>>

padZeros(table, n) == table \o Zeros(n)

Padded(side) ==
  padZeros(Table(side), outputTupleCount - Len(Table(side)))

(* The columns of one side of the output.                                  *)
Projected(side) ==
  [i \in DOMAIN output |->
     [key |-> output[i][side].key, pay |-> output[i][side].pay,
      dummy |-> output[i].dummy]]

(* sortByDummyTag: real rows first, then by every column.                  *)
RowLess ==
  { p \in Row \X Row :
      \/ ~p[1].dummy /\ p[2].dummy
      \/ /\ p[1].dummy = p[2].dummy
         /\ \/ p[1].key < p[2].key
            \/ p[1].key = p[2].key /\ p[1].pay < p[2].pay }

(* zeroOutDupes without the pass over the sorted rows.                     *)
zeroOutDupesKeeps(table) == SortedBy(table, RowLess)

(* zeroOutDupesSortedArray: any row but the first is cleared if it has the *)
(* columns of the row sorted before it, or is a dummy.                     *)
zeroOutDupes(table) ==
  LET sorted == SortedBy(table, RowLess) IN
  [i \in DOMAIN sorted |->
     IF /\ i > 1
        /\ sorted[i].dummy \/ DataOf(sorted[i - 1]) = DataOf(sorted[i])
     THEN Zero
     ELSE sorted[i]]

RealRows(table) == { table[i] : i \in { j \in DOMAIN table : ~table[j].dummy } }

(* The rows at some positions in their order, then dummies, as many rows   *)
(* as the table has.                                                       *)
Compacted(table, positions) ==
  [n \in DOMAIN table |->
     IF n <= Cardinality(positions) THEN table[Nth(positions, n)] ELSE Zero]

(* hashSetDifference on columns, whether the row found is real or not.     *)
hashSetDifferenceByColumns(table, other) ==
  Compacted(table, { i \in DOMAIN table :
    ~table[i].dummy /\ \A j \in DOMAIN other : DataOf(other[j]) # DataOf(table[i]) })

(* Join::hashSetDifference: the real rows that are not in the other table. *)
hashSetDifference(table, other) ==
  Compacted(table, { i \in DOMAIN table :
    ~table[i].dummy /\ table[i] \notin RealRows(other) })

(* ZKSet::equal compares the tables as multisets of rows.                  *)
Count(table, row) == Cardinality({ i \in DOMAIN table : table[i] = row })

equal(a, b) ==
  \A row \in { a[i] : i \in DOMAIN a } \cup { b[i] : i \in DOMAIN b } :
    Count(a, row) = Count(b, row)

(* Join::verifyEquality: what is left of the side and what was matched of  *)
(* it make up the side.  A foreign-key row is matched at most once and a   *)
(* primary-key row any number of times, so only those lose their repeats.  *)
VerifyEquality(side, next) ==
  \E table \in {Padded(side)},
     projected \in {IF side = "fk" THEN Projected(side)
                    ELSE zeroOutDupes(Projected(side))} :
    LET difference == hashSetDifference(table, projected)
    IN  /\ delta' = [delta EXCEPT ![side] = difference]
        /\ pc' = Proven(equal(difference \o projected,
                              padZeros(table, Len(table))), next)
        /\ UNCHANGED <<fk, pk, left, lookup, cursor, temp, placed, output>>

VerifyLeft == pc = "left" /\ VerifyEquality(left, "right")
VerifyRight == pc = "right" /\ VerifyEquality(right, "disjoint")

(* ZKSet::disjoint: the keys of both sides, sorted together; the dummy bit *)
(* is the highest, and equal keys of the left come first.                  *)
KeysOf(side, sig) ==
  [i \in DOMAIN delta[side] |->
     [key |-> delta[side][i].key, dummy |-> delta[side][i].dummy, sig |-> sig]]

SortKey == [key : Keys, dummy : BOOLEAN, sig : {0, 1}]

CustomLess ==
  { p \in SortKey \X SortKey :
      \/ ~p[1].dummy /\ p[2].dummy
      \/ /\ p[1].dummy = p[2].dummy
         /\ \/ p[1].key < p[2].key
            \/ p[1].key = p[2].key /\ p[1].sig < p[2].sig }

SameKey(a, b) == a.key = b.key /\ a.dummy = b.dummy
IsDummy(a) == a.key = 0 /\ a.dummy

disjoint(lhs, rhs) ==
  LET sorted == SortedBy(lhs \o rhs, CustomLess) IN
  \A i \in 1 .. Len(sorted) - 1 :
    \/ IsDummy(sorted[i + 1])
    \/ ~SameKey(sorted[i], sorted[i + 1])
    \/ sorted[i].sig = sorted[i + 1].sig

(* Join::verifyDisjoint.                                                   *)
VerifyDisjoint ==
  /\ pc = "disjoint"
  /\ pc' = Proven(disjoint(KeysOf(left, 0), KeysOf(right, 1)), "accepted")
  /\ UNCHANGED <<fk, pk, left, lookup, cursor, temp, placed, output, delta>>

Terminated == pc \in {"accepted", "rejected"} /\ UNCHANGED vars

Run == \/ Build \/ Probe \/ VerifyPredicate
       \/ VerifyLeft \/ VerifyRight \/ VerifyDisjoint

Next == Run \/ Terminated

Spec == Init /\ [][Next]_vars /\ WF_vars(Run)
-----------------------------------------------------------------------------
TypeOK ==
  /\ [fk |-> fk, pk |-> pk] \in Inputs
  /\ left \in Side
  /\ pc \in {"build", "probe", "left", "right", "disjoint",
             "accepted", "rejected"}
  /\ DOMAIN lookup \subseteq Keys
  /\ \A k \in DOMAIN lookup : lookup[k] \in Row
  /\ cursor \in 0 .. Len(fk)
  /\ placed \in 0 .. cursor
  /\ pc = "build" \/ placed <= Len(temp)
  /\ temp \in Seq([fk : Row, pk : Row])
  /\ output \in Seq([fk : Data, pk : Data, dummy : BOOLEAN])
  /\ delta \in [Side -> Seq(Row)]

(* The checks accept every join that was computed by the rules: no proof   *)
(* of an honest Alice fails.  (assert(check) in verifyPredicate,           *)
(* verifyEquality and verifyDisjoint)                                      *)
NeverRejected == pc # "rejected"

(* The rows set aside as unmatched, on which disjointness is decided, are  *)
(* the real rows of the side with no partner on the other side, with       *)
(* their repeats: also when such a row is zero in all columns and the      *)
(* output is padded with zero dummies.                                     *)
DeltaIsUnmatched ==
  LET other(side) == IF side = "fk" THEN pk ELSE fk
      partner(side, row) == \E r \in RealRows(other(side)) : r.key = row.key
  IN  \A side \in Side : delta[side] # << >> =>
        \A row \in RealRows(Table(side)) \cup RealRows(delta[side]) :
          Count(delta[side], row) =
            IF partner(side, row) THEN 0 ELSE Count(Table(side), row)

(* The dummies of the output are zero in all columns: a join that reads    *)
(* this one's output finds its inputs as it needs them.                    *)
OutputDummiesZeroed ==
  \A i \in DOMAIN output :
    output[i].dummy => output[i].fk = DataOf(Zero) /\ output[i].pk = DataOf(Zero)

(* The join gives the answer of an equi-join of its inputs, and does give  *)
(* it.                                                                     *)
Answer ==
  [p \in [fk : Data, pk : Data] |->
     IF pc = "accepted"
     THEN Cardinality({ i \in DOMAIN output :
            ~output[i].dummy /\ output[i].fk = p.fk /\ output[i].pk = p.pk })
     ELSE 0]

Abstract == INSTANCE EquiJoin WITH given <- pc = "accepted", answer <- Answer

IsEquiJoin == Abstract!Spec
=============================================================================
