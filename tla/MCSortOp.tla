------------------------------ MODULE MCSortOp ------------------------------
(***************************************************************************)
(* Model checking of SortOp: all small tables, and all collations that     *)
(* name a column at most once.                                             *)
(***************************************************************************)
EXTENDS SortOp

CONSTANTS
  MaxRows,     (* bound on the rows of the input                            *)
  MaxColumns   (* bound on the columns of a collation                       *)

MCInputs == UNION { [1 .. n -> Row] : n \in 1 .. MaxRows }

(* No plan sorts on the dummy tag but ascending and first.                 *)
MCCollations ==
  { c \in UNION { [1 .. n -> ColumnSort] : n \in 0 .. MaxColumns } :
    /\ IsInjective([i \in DOMAIN c |-> c[i].col])
    /\ \A i \in DOMAIN c :
         c[i].col = DummyTag => i = 1 /\ c[i].dir = "ASCENDING" }
=============================================================================
