------------------------------ MODULE MCGroupBy -----------------------------
(***************************************************************************)
(* Model checking of GroupBy: all tables of up to MaxRows rows.            *)
(***************************************************************************)
EXTENDS GroupBy

CONSTANT MaxRows  (* bound on the rows of an input                          *)

MCInputs == UNION { [1 .. n -> Row] : n \in 1 .. MaxRows }

MCLowest == -Half
MCHighest == Half - 1
=============================================================================
