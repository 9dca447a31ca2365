----------------------------- MODULE MCKeyedJoin ----------------------------
(***************************************************************************)
(* Model checking of KeyedJoin on all small tables whose primary key is    *)
(* one: no two real rows of the primary-key table have the same key.       *)
(***************************************************************************)
EXTENDS KeyedJoin

CONSTANTS
  MaxForeign,  (* bound on the rows of the foreign-key table                *)
  MaxPrimary   (* bound on the rows of the primary-key table                *)

ZeroedRow == { row \in Row : row.dummy => row = Zero }

TablesOf(rows, n) == UNION { [1 .. k -> rows] : k \in 1 .. n }

IsKeyed(table) ==
  \A i, j \in DOMAIN table :
    table[i].key = table[j].key /\ i # j => table[i].dummy \/ table[j].dummy

InputsOf(rows) ==
  [fk : TablesOf(rows, MaxForeign),
   pk : { table \in TablesOf(rows, MaxPrimary) : IsKeyed(table) }]

(* Dummies as Filter, GroupByAggregate and the join itself leave them.     *)
ZeroedInputs == InputsOf(ZeroedRow)
=============================================================================
