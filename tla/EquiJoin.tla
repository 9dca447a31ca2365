------------------------------- MODULE EquiJoin ------------------------------
(***************************************************************************)
(* What a keyed join promises: the answer is the bag of all pairs of a     *)
(* real row of one table and a real row of the other with equal keys, and  *)
(* it is given once.                                                       *)
(***************************************************************************)
EXTENDS Naturals, Sequences, FiniteSets

CONSTANTS
  Keys,  (* values of the join key                                          *)
  Pays   (* values of the other column                                      *)

VARIABLES
  fk, pk,  (* the joined tables                                             *)
  given,   (* the answer has been given                                     *)
  answer   (* how often each pair occurs in it                              *)

vars == <<fk, pk, given, answer>>

Data == [key : Keys, pay : Pays]
Row == [key : Keys, pay : Pays, dummy : BOOLEAN]
Pair == [fk : Data, pk : Data]

Occurrences(table, d) ==
  Cardinality({ i \in DOMAIN table :
    ~table[i].dummy /\ table[i].key = d.key /\ table[i].pay = d.pay })

Joined ==
  [p \in Pair |->
     IF p.fk.key = p.pk.key
     THEN Occurrences(fk, p.fk) * Occurrences(pk, p.pk)
     ELSE 0]

Init ==
  /\ fk \in Seq(Row) /\ pk \in Seq(Row)
  /\ given = FALSE
  /\ answer = [p \in Pair |-> 0]

Give ==
  /\ ~given
  /\ given' = TRUE
  /\ answer' = Joined
  /\ UNCHANGED <<fk, pk>>

Spec == Init /\ [][Give]_vars /\ WF_vars(Give)
=============================================================================
