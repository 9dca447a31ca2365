------------------------------ MODULE MCZkSets ------------------------------
(***************************************************************************)
(* Model checking of ZkSets: all small tables over a few elements of each  *)
(* width. With blocks of 6 bits and limbs of 3, width 3 fits a limb, 6     *)
(* fills a block, 7 and 11 are compressed, and 12 fills two blocks.        *)
(***************************************************************************)
EXTENDS ZkSets

CONSTANTS
  MaxRows,     (* bound on the elements of a table                          *)
  EqualWidths, (* widths of the tables compared                             *)
  SetWidths    (* widths of the elements of the other operations            *)

(* Zero, the key of a dummy row, a key that tells low limbs apart and one  *)
(* that only the last bits tell from zero.                                 *)
ElementsOf(w) == {0, 1, Pow2[w - TagBits], Pow2[w - TagBits - 1]}

Tables(w, least, most) == UNION { [1 .. n -> ElementsOf(w)] : n \in least .. most }

Call(ops, w, ls, rs, ms) ==
  [op : ops, block_sz : {w}, lhs : ls, rhs : rs, mhs : ms]

MCEqualCalls ==
  UNION { Call({"equal"}, w, [1 .. n -> ElementsOf(w)], [1 .. n -> ElementsOf(w)],
               {<< >>}) : w \in EqualWidths, n \in 1 .. MaxRows }

MCPairCalls ==
  UNION { Call({"subset"}, w, Tables(w, 1, n), [1 .. n -> ElementsOf(w)], {<< >>}) :
          w \in SetWidths, n \in 1 .. MaxRows }
    \union UNION { Call({"disjoint"}, w, Tables(w, 1, 2), Tables(w, 1, MaxRows), {<< >>}) :
                   w \in SetWidths }

MCTripleCalls ==
  UNION { Call({"setUnion", "intersection"}, w, Tables(w, 1, 2), Tables(w, 1, 2),
               Tables(w, 1, MaxRows)) : w \in SetWidths }
    \union UNION { Call({"intersection"}, w, Tables(w, 1, 2), Tables(w, 1, 2), {<< >>}) :
                   w \in {x \in SetWidths : x <= BlockBits} }

MCCalls == MCEqualCalls \union MCPairCalls \union MCTripleCalls
=============================================================================
