------------------------------- MODULE ZkSets -------------------------------
(***************************************************************************)
(* The ZK set library, zk-set/emp-zk-set: equal, subset, setUnion,         *)
(* intersection and disjoint over committed elements of block_sz bits.     *)
(* A behaviour is one call. Alice packs the elements into 128-bit blocks,  *)
(* commits what helps her to prove the statement, and both parties reduce  *)
(* it to the equality of two multisets. Wider elements are first           *)
(* compressed to one block by a universal hash.                            *)
(*                                                                         *)
(* An element is the number its bits make. A committed element is that     *)
(* number; what Alice claims for it may differ, and then Bob rejects. The  *)
(* soundness error of the checks and collisions of the hash are left out.  *)
(***************************************************************************)
EXTENDS Integers, FiniteSets, SequencesExt, Arrangement

CONSTANTS
  BlockBits,     (* 128: bits of a block                                    *)
  HalfBits,      (* 64: bits of a limb of a comparison                      *)
  TagBits,       (* 8: bits of a dummy tag                                  *)
  FieldSize,     (* the field of the hash, as a prime below 2 ^ BlockBits   *)
  Coefficients,  (* the coefficients the transcript may give                *)
  Calls          (* op, block_sz, lhs, rhs and mhs of each call             *)

Alice == "Alice"
Bob == "Bob"

Ops == {"equal", "subset", "setUnion", "intersection", "disjoint"}

Pow2[n \in Nat] == IF n = 0 THEN 1 ELSE 2 * Pow2[n - 1]

ASSUME WidthsAssumption ==
  /\ TagBits \in Nat \ {0} /\ HalfBits \in Nat /\ HalfBits > TagBits
  /\ BlockBits = 2 * HalfBits
  /\ FieldSize \in 2 .. Pow2[BlockBits] /\ Coefficients \subseteq 1 .. FieldSize - 1

(* An inner product reads its first element whatever the count is, so no   *)
(* caller compares two empty tables.                                       *)
ASSUME CallsAssumption ==
  \A k \in Calls :
    /\ k.op \in Ops /\ k.block_sz \in Nat /\ k.block_sz > TagBits
    /\ \A s \in {k.lhs, k.rhs, k.mhs} : s \in Seq(0 .. Pow2[k.block_sz] - 1)
    /\ k.lhs # << >> /\ k.rhs # << >>
    /\ k.op = "equal" => Len(k.lhs) = Len(k.rhs)
    /\ k.op = "subset" => Len(k.lhs) <= Len(k.rhs)
    /\ k.op = "setUnion" \/ (k.op = "intersection" /\ k.block_sz > BlockBits)
         => k.mhs # << >>

VARIABLES
  call,      (* what was called                                             *)
  lhs,       (* the elements being compared: those of the call, or their    *)
  rhs,       (* compressions                                                *)
  mhs,
  block_sz,  (* their width                                                 *)
  dummy,     (* the key of a dummy row                                      *)
  shs,       (* the intersection Alice commits for a union                  *)
  uhs,       (* the sorted union, each element under a sign                 *)
  i,         (* the pair of uhs the walk is at                              *)
  res,       (* the committed result of the walk                            *)
  verdict,   (* what the call has returned so far, per party                *)
  pc

vars == <<call, lhs, rhs, mhs, block_sz, dummy, shs, uhs, i, res, verdict, pc>>

-----------------------------------------------------------------------------
(* Packing and compression.                                                *)

Blocks(width) == (width + BlockBits - 1) \div BlockBits

(* The bits of the last block are those the width leaves over.             *)
BitsOf(width, b) == IF b = Blocks(width) THEN width % BlockBits ELSE BlockBits

packRevealBitBlock(v, b, bits) ==
  (v \div Pow2[BlockBits * (b - 1)]) % Pow2[bits]

packRevealBitBlockExt(v, width) ==
  [b \in 1 .. Blocks(width) |-> packRevealBitBlock(v, b, BitsOf(width, b))]

uni_hash_no_red(blocks, coefficient) ==
  LET sum[b \in 0 .. Len(blocks)] ==
        IF b = 0 THEN 0 ELSE sum[b - 1] + blocks[b] * coefficient[b]
  IN  sum[Len(blocks)]

uni_hash(blocks, coefficient) ==
  LET sum[b \in 0 .. Len(blocks)] ==
        IF b = 0 THEN 0 ELSE (sum[b - 1] + blocks[b] * coefficient[b]) % FieldSize
  IN  sum[Len(blocks)]

compress(v, width, coefficient) ==
  uni_hash(packRevealBitBlockExt(v, width), coefficient)

compressBitsToBlock(s, width, coefficient) ==
  [n \in DOMAIN s |-> compress(s[n], width, coefficient)]

(* A draw under which different blocks have different hashes.              *)
Draws(S, width) ==
  { c \in [1 .. Blocks(width) -> Coefficients] :
    \A v, w \in S : \/ packRevealBitBlockExt(v, width) = packRevealBitBlockExt(w, width)
                    \/ compress(v, width, c) # compress(w, width, c) }

(* Bob compares products of what is committed; they are consistent with    *)
(* what Alice claims only if she claims what is committed.                 *)
check_set_equality_as_sets(lval, lcommitted, rval, rcommitted) ==
  lval = lcommitted /\ rval = rcommitted /\ ToSet(lcommitted) = ToSet(rcommitted)

check_set_equality(lval, lcommitted, rval, rcommitted) ==
  lval = lcommitted /\ rval = rcommitted /\ ToBag(lcommitted) = ToBag(rcommitted)

checkCorrectCompression(val, auth) == check_set_equality(val, val, auth, auth)

(* equalInternal or equalExtInternal, by the width.                        *)
equal(l, r, width, coefficient) ==
  IF width <= BlockBits
  THEN check_set_equality(l, l, r, r)
  ELSE LET lval == compressBitsToBlock(l, width, coefficient)
           rval == compressBitsToBlock(r, width, coefficient)
       IN  check_set_equality(lval, lval, rval, rval)

-----------------------------------------------------------------------------
Init ==
  /\ call \in Calls
  /\ lhs = call.lhs /\ rhs = call.rhs /\ mhs = call.mhs
  /\ block_sz = call.block_sz
  /\ dummy = Pow2[block_sz - TagBits]
  /\ shs = << >> /\ uhs = << >> /\ i = 0 /\ res = TRUE
  /\ verdict = [p \in {Alice, Bob} |-> TRUE]
  /\ pc = "Start"

(* check_set_equality returns true to Alice, whatever Bob finds.           *)
BobChecks(check) == verdict' = [verdict EXCEPT ![Bob] = @ /\ check]

Return == pc' = "Done"

Equal ==
  /\ pc = "Start" /\ call.op = "equal"
  /\ \E c \in Draws(ToSet(lhs \o rhs), block_sz) :
       BobChecks(equal(lhs, rhs, block_sz, c))
  /\ Return
  /\ UNCHANGED <<call, lhs, rhs, mhs, block_sz, dummy, shs, uhs, i, res>>

(* The Ext variants: compress all tables and the dummy's key under one     *)
(* draw, commit the compressions, and go on with those.                    *)
Compress ==
  /\ pc = "Start" /\ call.op # "equal" /\ block_sz > BlockBits
  /\ \E c \in Draws(ToSet(lhs \o rhs \o mhs) \union {dummy, 0}, block_sz) :
       /\ lhs' = compressBitsToBlock(lhs, block_sz, c)
       /\ rhs' = compressBitsToBlock(rhs, block_sz, c)
       /\ mhs' = compressBitsToBlock(mhs, block_sz, c)
       /\ dummy' = compress(dummy, block_sz, c)
  /\ BobChecks(/\ checkCorrectCompression(lhs', lhs')
               /\ checkCorrectCompression(rhs', rhs')
               /\ checkCorrectCompression(mhs', mhs'))
  /\ block_sz' = BlockBits
  /\ UNCHANGED <<call, shs, uhs, i, res, pc>>

Internal(op) == pc = "Start" /\ call.op = op /\ block_sz <= BlockBits

-----------------------------------------------------------------------------
(* Subset: R = M + L for some M that Alice commits.                        *)

(* Elements that equal the last one count as fillers.                      *)
set_minus(val, filter) ==
  Picked(val, { n \in DOMAIN val : val[n] # Last(val) /\ val[n] \notin filter })

Fill(n, v) == [k \in 1 .. n |-> v]

(* A filler is claimed as the last element and committed as zero.          *)
Subset ==
  /\ Internal("subset")
  /\ LET mcount == Len(rhs) - Len(lhs)
         rhs_not_lhs == set_minus(rhs, ToSet(lhs))
         mval == rhs_not_lhs \o Fill(mcount - Len(rhs_not_lhs), Last(rhs)) \o lhs
         mcommitted == rhs_not_lhs \o Fill(mcount - Len(rhs_not_lhs), 0) \o lhs
     IN  /\ Len(rhs_not_lhs) <= mcount
         /\ BobChecks(check_set_equality(rhs, rhs, mval, mcommitted))
  /\ Return
  /\ UNCHANGED <<call, lhs, rhs, mhs, block_sz, dummy, shs, uhs, i, res>>

(* Alice commits every element left over, Bob expects mcount of them.      *)
SubsetOutOfStep ==
  /\ Internal("subset")
  /\ Len(set_minus(rhs, ToSet(lhs))) > Len(rhs) - Len(lhs)
  /\ pc' = "OutOfStep"
  /\ UNCHANGED <<call, lhs, rhs, mhs, block_sz, dummy, shs, uhs, i, res, verdict>>

-----------------------------------------------------------------------------
(* Intersection: L = L\M + M and R = R\M + M. Union: L + R = M + S for an  *)
(* intersection S that Alice commits.                                      *)

set_minus_origin(val, filter) ==
  Picked(val, { n \in DOMAIN val : val[n] \notin filter })

(* The merge of two sorted tables, and one pass through its loop.          *)
MergeStep(l, r, at) ==
  IF at.l > Len(l) \/ at.r > Len(r) THEN at
  ELSE IF l[at.l] < r[at.r] THEN [at EXCEPT !.l = @ + 1]
  ELSE IF l[at.l] = r[at.r]
       THEN [l |-> at.l + 1, r |-> at.r + 1, common |-> Append(at.common, l[at.l])]
  ELSE [at EXCEPT !.r = @ + 1]

Merge(l, r) ==
  LET after[n \in 0 .. Len(l) + Len(r)] ==
        IF n = 0 THEN [l |-> 1, r |-> 1, common |-> << >>]
        ELSE MergeStep(l, r, after[n - 1])
  IN  after[Len(l) + Len(r)].common

Ascending(s) == SortedBy(s, { p \in ToSet(s) \X ToSet(s) : p[1] < p[2] })

intersection_local_unsorted(l, r) == Merge(Ascending(l), r)

intersection_local(l, r) == Merge(Ascending(l), Ascending(r))

scount == Len(lhs) + Len(rhs) - Len(mhs)

(* The vector holds scount elements, zeros where the merge gives fewer. A  *)
(* longer merge runs past its end and is cut, if the process survives it.  *)
CommitCommon ==
  /\ Internal("setUnion")
  /\ scount >= 0
  /\ LET common == intersection_local(lhs, rhs)
     IN  shs' = IF Len(common) <= scount
                THEN common \o Fill(scount - Len(common), 0)
                ELSE SubSeq(common, 1, scount)
  /\ pc' = "Intersect"
  /\ UNCHANGED <<call, lhs, rhs, mhs, block_sz, dummy, uhs, i, res, verdict>>

(* The set said to be the intersection.                                    *)
claimed == IF call.op = "setUnion" THEN shs ELSE mhs

AtIntersection == Internal("intersection") \/ pc = "Intersect"

SizesFit ==
  \A s \in {lhs, rhs} :
    Len(set_minus_origin(s, ToSet(claimed))) = Len(s) - Len(claimed)

Split(s, c) == set_minus_origin(s, ToSet(c)) \o c

SplitsOff(s, c) == check_set_equality(s, s, Split(s, c), Split(s, c))

LastSplit == SplitsOff(rhs, claimed)

BothSplit == SplitsOff(lhs, claimed) /\ SplitsOff(rhs, claimed)

Intersect ==
  /\ AtIntersection
  /\ SizesFit
  /\ BobChecks(BothSplit)
  /\ pc' = IF call.op = "setUnion" THEN "Combine" ELSE "Done"
  /\ UNCHANGED <<call, lhs, rhs, mhs, block_sz, dummy, shs, uhs, i, res>>

Combine ==
  /\ pc = "Combine"
  /\ BobChecks(equal(lhs \o rhs, mhs \o shs, block_sz, << >>))
  /\ Return
  /\ UNCHANGED <<call, lhs, rhs, mhs, block_sz, dummy, shs, uhs, i, res>>

(* error() of set_minus_origin, a vector of negative length, or a write    *)
(* past the end of S_block that brings the process down.                   *)
Abort ==
  /\ \/ AtIntersection /\ ~SizesFit
     \/ Internal("setUnion") /\ scount < 0
     \/ Internal("setUnion") /\ Len(intersection_local(lhs, rhs)) > scount
  /\ pc' = "Aborted"
  /\ UNCHANGED <<call, lhs, rhs, mhs, block_sz, dummy, shs, uhs, i, res, verdict>>

-----------------------------------------------------------------------------
(* Disjoint: the walk over the sorted union, signed by origin.             *)

Signed(s, sig) == [n \in DOMAIN s |-> s[n] + sig * Pow2[block_sz]]
ValOf(u) == u % Pow2[block_sz]
SigOf(u) == u \div Pow2[block_sz]

CustomLess(a, b) ==
  ValOf(a) < ValOf(b) \/ (ValOf(a) = ValOf(b) /\ SigOf(a) < SigOf(b))

CommitSorted ==
  /\ Internal("disjoint")
  /\ LET ahs == Signed(lhs, 0) \o Signed(rhs, 1)
     IN  /\ uhs' = SortedBy(ahs, { p \in ToSet(ahs) \X ToSet(ahs) :
                                     CustomLess(p[1], p[2]) })
         /\ \E c \in Draws(ToSet(ahs), block_sz + 1) :
              BobChecks(equal(ahs, uhs', block_sz + 1, c))
  /\ i' = 1
  /\ pc' = "Walk"
  /\ UNCHANGED <<call, lhs, rhs, mhs, block_sz, dummy, shs, res>>

High(v) == v \div Pow2[HalfBits]
Low(v) == v % Pow2[HalfBits]

(* The circuit on two neighbours: one comparison, or one per limb.         *)
ApartHighDummy(a, b) ==
  \/ High(ValOf(b)) = High(dummy)
  \/ ValOf(b) > ValOf(a)
  \/ ValOf(b) = ValOf(a) /\ SigOf(a) = SigOf(b)

Apart(a, b) ==
  LET is_equal == ValOf(b) = ValOf(a)
      ah == High(ValOf(a))  al == Low(ValOf(a))
      bh == High(ValOf(b))  bl == Low(ValOf(b))
  IN  IF block_sz <= HalfBits
      THEN \/ ValOf(b) = dummy
           \/ ValOf(b) >= ValOf(a) /\ ~is_equal
           \/ is_equal /\ SigOf(a) = SigOf(b)
      ELSE \/ bh = High(dummy) /\ bl = Low(dummy)
           \/ (bh >= ah /\ bh # ah) \/ (bh = ah /\ bl >= al /\ bl # al)
           \/ bh = ah /\ bl = al /\ SigOf(a) = SigOf(b)

Walk ==
  /\ pc = "Walk" /\ i < Len(uhs)
  /\ res' = (res /\ Apart(uhs[i], uhs[i + 1]))
  /\ i' = i + 1
  /\ UNCHANGED <<call, lhs, rhs, mhs, block_sz, dummy, shs, uhs, verdict, pc>>

(* The result of the walk is revealed to both.                             *)
Reveal ==
  /\ pc = "Walk" /\ i = Len(uhs)
  /\ verdict' = [p \in {Alice, Bob} |-> verdict[p] /\ res]
  /\ Return
  /\ UNCHANGED <<call, lhs, rhs, mhs, block_sz, dummy, shs, uhs, i, res>>

-----------------------------------------------------------------------------
Terminated == pc \in {"Done", "Aborted", "OutOfStep"} /\ UNCHANGED vars

Next ==
  \/ Equal \/ Compress
  \/ Subset \/ SubsetOutOfStep
  \/ CommitCommon \/ Intersect \/ Combine \/ Abort
  \/ CommitSorted \/ Walk \/ Reveal
  \/ Terminated

Spec == Init /\ [][Next]_vars

-----------------------------------------------------------------------------
(* Every table holds elements of the current width; the walk stays inside  *)
(* the sorted union.                                                       *)
TypeOK ==
  /\ call.op \in Ops
  /\ block_sz \in {call.block_sz, BlockBits}
  /\ \A s \in {lhs, rhs, mhs, shs} : s \in Seq(0 .. Pow2[block_sz] - 1)
  /\ dummy \in 0 .. Pow2[block_sz] - 1
  /\ uhs \in Seq(0 .. Pow2[block_sz + 1] - 1)
  /\ i \in 0 .. Len(uhs)
  /\ res \in BOOLEAN /\ verdict \in [{Alice, Bob} -> BOOLEAN]
  /\ pc \in {"Start", "Intersect", "Combine", "Walk", "Done", "Aborted", "OutOfStep"}

Accepted == pc = "Done" /\ verdict[Bob]
Answered == pc = "Done"

(* Widths whose last block is not left out of the packing.                 *)
LastBlockHasBits ==
  \A k \in Calls : k.block_sz <= BlockBits \/ k.block_sz % BlockBits # 0

(* equal accepts exactly the tables that hold the same elements, each as   *)
(* often.                                                                  *)
EqualIsExact ==
  Answered /\ call.op = "equal" =>
    (verdict[Bob] <=> ToBag(call.lhs) = ToBag(call.rhs))

Unique(s) == IsInjective(s)

(* disjoint tells both parties whether the tables share a key that is not  *)
(* the dummy's, however often either of them has it.                       *)
DisjointIsExact ==
  Answered /\ call.op = "disjoint" =>
    \A p \in {Alice, Bob} :
      verdict[p] <=> ToSet(call.lhs) \intersect ToSet(call.rhs)
                       \subseteq {Pow2[call.block_sz - TagBits]}

(* equal and disjoint answer what they are asked, on every input.          *)
AnswersAreExact == EqualIsExact /\ DisjointIsExact

Occurrences(s, v) == Cardinality({ n \in DOMAIN s : s[n] = v })

(* What subset and setUnion accept is true: of a subset as multisets, of a *)
(* union as sets.                                                          *)
SubsetsAndUnionsAreTrue ==
  Accepted =>
    /\ call.op = "subset" =>
         \A v \in ToSet(call.lhs) :
           Occurrences(call.lhs, v) <= Occurrences(call.rhs, v)
    /\ call.op = "setUnion" =>
         ToSet(call.mhs) = ToSet(call.lhs) \union ToSet(call.rhs)

Ended == pc \in {"Done", "Aborted", "OutOfStep"}

(* intersection accepts exactly the tables that have each of their         *)
(* elements as often as L has it, and as often as R.  This is less than    *)
(* zk_set_intersection.hpp:6 and zk_set.h:147 say, that M is the           *)
(* intersection of L and R: that they share nothing else is not checked.   *)
(* M = <<1>> is accepted for L = R = <<1, 2>>.                             *)
IntersectionAcceptsCommonParts ==
  Ended /\ call.op = "intersection" =>
    (Accepted <=>
       \A v \in ToSet(call.mhs) :
         /\ Occurrences(call.lhs, v) = Occurrences(call.mhs, v)
         /\ Occurrences(call.rhs, v) = Occurrences(call.mhs, v))

(* On tables without repetitions a true statement is accepted; of a subset *)
(* when the larger table ends in zero, which fillers are committed as.     *)
ProofsAreComplete ==
  Ended /\ Unique(call.lhs) /\ Unique(call.rhs) /\ Unique(call.mhs) =>
    /\ (call.op = "subset" /\ ToSet(call.lhs) \subseteq ToSet(call.rhs)
          /\ Last(call.rhs) = 0) => Accepted
    /\ (call.op = "setUnion" /\ ToSet(call.mhs) = ToSet(call.lhs) \union ToSet(call.rhs))
         => Accepted
    /\ (call.op = "intersection"
          /\ ToSet(call.mhs) = ToSet(call.lhs) \intersect ToSet(call.rhs))
         => Accepted
=============================================================================
