-------------------------- MODULE ZkSession_proofs --------------------------
(***************************************************************************)
(* Proofs about ZkSession, for plans of any length over tables of any size *)
(* and channels of any capacity, for sessions without BasicJoin.           *)
(*                                                                         *)
(* A party on its own is deterministic: Follow is the one step it can take *)
(* next, and Run(plan) the run that Follow makes from the start.  The      *)
(* inductive invariant (LockStep) says that Alice and Bob are each at some *)
(* place of this same run, however far apart, and that the channel holds   *)
(* the messages of the run that lie between them.  What the run has at one *)
(* of its places it keeps at the later ones (Extends), so that what the    *)
(* two parties have made so far agrees.                                    *)
(***************************************************************************)
EXTENDS ZkSession, SequenceTheorems, Iteration

(* The session violates ReadsWhatWasSent where there is a BasicJoin.       *)
NoBasicJoin == "BasicJoin" \notin Kinds

(* The steps of all calls but scans; those that come after the last call.  *)
PlainStep == [do : (Messages \ {"count"}) \cup {"flush", "challenge"}, n : Nat]
EndStep == [do : {"reveal", "sums", "flush", "challenge"}, n : Nat]

TableType == [rows : Nat, plain : Nat]
Even(ts) == \A i \in 1 .. Len(ts) : ts[i].plain = ts[i].rows

-----------------------------------------------------------------------------
(* Calls and the tables they need.                                         *)

CallOver(k) ==
  { c \in CallsAt(k) : c.kind \in {"Scan", "Filter", "GroupBy", "ScalarAggregate",
                                   "Sort", "FkPkJoin", "PkFkJoin"} }

LEMMA Bounds ==
  /\ MaxItems \in Nat \ {0} /\ MaxRows \in Nat \ {0} /\ BufferSz \in Nat \ {0}
  /\ OutBuf \in Nat \ {0} /\ Pipe \in Nat \ {0} /\ Limit \in Nat
  /\ WideRows \in BOOLEAN
BY BoundsAssumption, LimitAssumption, WideRowsAssumption

(* Each call of a plan refers to tables made before it.                    *)
LEMMA PlanFacts ==
  ASSUME NoBasicJoin, NEW pl \in Plans
  PROVE  /\ Len(pl) \in Nat
         /\ \A k \in 1 .. Len(pl) : pl[k] \in CallOver(k)
<1>1. PICK n \in 1 .. MaxItems : pl \in PlansOfLength(n)
  BY DEF Plans
<1> DEFINE C == { c \in CallsAt(MaxItems) : c.kind \in Kinds }
<1>2. pl \in [1 .. n -> C] /\ \A k \in 1 .. n : pl[k] \in CallsAt(k)
  BY <1>1 DEF PlansOfLength
<1>3. n \in Nat /\ Len(pl) = n
  BY <1>1, <1>2, Bounds
<1>4. ASSUME NEW k \in 1 .. n PROVE pl[k] \in CallOver(k)
  <2>1. pl[k] \in CallsAt(k) /\ pl[k].kind \in Kinds
    BY <1>2
  <2>2. pl[k].kind # "BasicJoin"
    BY <2>1 DEF NoBasicJoin
  <2> QED
    BY <2>1, <2>2, KindsAssumption DEF CallOver, UnaryKinds, JoinKinds
<1> QED
  BY <1>3, <1>4

LEMMA CallFacts ==
  ASSUME NEW k \in Nat, NEW c \in CallOver(k)
  PROVE  /\ c.kind \in {"Scan", "Filter", "GroupBy", "ScalarAggregate",
                        "Sort", "FkPkJoin", "PkFkJoin"}
         /\ c.kind = "Scan" => c.rows \in Nat
         /\ c.kind # "Scan" => c.l \in 1 .. (k - 1)
         /\ c.kind \in {"FkPkJoin", "PkFkJoin"} => c.r \in 1 .. (k - 1)
<1>1. CASE c \in { Call("Scan", 0, 0, n) : n \in 0 .. MaxRows }
  BY <1>1, Bounds DEF Call
<1>2. CASE c \in { Call(u, i, 0, 0) : u \in UnaryKinds, i \in 1 .. (k - 1) }
  BY <1>2 DEF Call, UnaryKinds
<1>3. CASE c \in { Call(j, l, r, 0) : j \in JoinKinds, l, r \in 1 .. (k - 1) }
  BY <1>3 DEF Call, JoinKinds, CallOver
<1> QED
  BY <1>1, <1>2, <1>3 DEF CallOver, CallsAt

-----------------------------------------------------------------------------
(* What the steps of a call are made of.                                   *)

LEMMA ConcatPlain ==
  ASSUME NEW s \in Seq(PlainStep), NEW t \in Seq(PlainStep)
  PROVE  s \o t \in Seq(PlainStep)
BY ConcatProperties

LEMMA SomePlain ==
  ASSUME NEW do \in (Messages \ {"count"}) \cup {"flush", "challenge"}, NEW n \in Int
  PROVE  Some(do, n) \in Seq(PlainStep)
<1>1. CASE n > 0
  <2>1. Step(do, n) \in PlainStep
    BY <1>1 DEF Step, PlainStep
  <2> QED
    BY <1>1, <2>1 DEF Some
<1>2. CASE ~(n > 0)
  BY <1>2 DEF Some
<1> QED
  BY <1>1, <1>2

LEMMA PartsPlain ==
  /\ Flush \in Seq(PlainStep) /\ AliceFlush \in Seq(PlainStep)
  /\ Challenge \in Seq(PlainStep) /\ Reveal \in Seq(PlainStep)
  /\ << >> \in Seq(PlainStep)
BY DEF Flush, AliceFlush, Challenge, Reveal, Some, Step, PlainStep, Messages

LEMMA InnerProductPlain ==
  ASSUME NEW n \in Nat
  PROVE  InnerProduct(n) \in Seq(PlainStep)
<1> DEFINE k == (n - 1) \div 4
           s == [i \in 1 .. k |-> Step("product", 1)]
<1>1. k \in Int /\ (n - 1) % 4 \in Int
  OBVIOUS
<1>2. Step("product", 1) \in PlainStep
  BY DEF Step, PlainStep, Messages
<1>3. s \in Seq(PlainStep)
  <2> HIDE DEF k
  <2>1. CASE k \in Nat
    BY <1>2, <2>1
  <2>2. CASE k < 0
    <3>1. 1 .. k = {} /\ 1 .. 0 = {}
      BY <1>1, <2>2
    <3>2. s \in [1 .. 0 -> PlainStep]
      BY <3>1
    <3> HIDE DEF s
    <3> QED
      BY <3>2, SeqDef
  <2> QED
    BY <1>1, <2>1, <2>2
<1>4. Some("mul", (n - 1) % 4) \in Seq(PlainStep)
  BY <1>1, SomePlain DEF Messages
<1> QED
  BY <1>3, <1>4, ConcatPlain DEF InnerProduct

LEMMA EqualPlain ==
  ASSUME NEW n \in Nat
  PROVE  Equal(n) \in Seq(PlainStep) /\ CheckSetEquality(n) \in Seq(PlainStep)
<1>1. Some("macs", 2) \in Seq(PlainStep)
  BY SomePlain DEF Messages
<1>2. CheckSetEquality(n) \in Seq(PlainStep)
  BY <1>1, PartsPlain, InnerProductPlain, ConcatPlain DEF CheckSetEquality
<1> QED
  BY <1>2, PartsPlain, ConcatPlain DEF Equal

LEMMA BatchCheckPlain ==
  BatchCheck \in Seq(PlainStep) /\ BatchCheck \in Seq(EndStep) /\ BatchCheck # << >>
<1>1. Some("sums", 5) \in Seq(PlainStep)
  BY SomePlain DEF Messages
<1>2. BatchCheck \in Seq(PlainStep)
  BY <1>1, PartsPlain, ConcatPlain DEF BatchCheck
<1>3. /\ Flush \in Seq(EndStep) /\ AliceFlush \in Seq(EndStep)
      /\ Challenge \in Seq(EndStep) /\ Some("sums", 5) \in Seq(EndStep)
  BY DEF Flush, AliceFlush, Challenge, Some, Step, EndStep
<1>4. BatchCheck \in Seq(EndStep)
  BY <1>3, ConcatProperties DEF BatchCheck
<1>5. Len(BatchCheck) = 4
  BY DEF BatchCheck, Flush, AliceFlush, Challenge, Some
<1> QED
  BY <1>2, <1>4, <1>5

LEMMA SortStepsPlain ==
  ASSUME NEW p \in Parties, NEW plain \in Nat, NEW rows \in Nat, NEW kept \in Nat
  PROVE  /\ SortSteps(p, plain, rows, kept) \in Seq(PlainStep)
         /\ Commit(p, plain, rows) \in Seq(PlainStep)
         /\ Commit(p, rows, rows) = Some("bits", rows)
<1>1. Commit(p, plain, rows) \in Seq(PlainStep)
  BY SomePlain DEF Commit, Messages
<1>2. Some("gates", kept - 1) \in Seq(PlainStep)
  BY SomePlain DEF Messages
<1>3. SortSteps(p, plain, rows, kept) \in Seq(PlainStep)
  BY <1>1, <1>2, EqualPlain, PartsPlain, ConcatPlain DEF SortSteps
<1> QED
  BY <1>1, <1>3 DEF Commit

LEMMA KeyedJoinStepsPlain ==
  ASSUME NEW p \in Parties, NEW lrows \in Nat, NEW rrows \in Nat,
         NEW fkLeft \in BOOLEAN
  PROVE  KeyedJoinSteps(p, lrows, rrows, fkLeft) \in Seq(PlainStep)
<1> DEFINE n == Larger(lrows, rrows)
<1>1. n \in Nat
  BY DEF Larger
<1> HIDE DEF n
<1>2. Commit(p, n, n) \in Seq(PlainStep) /\ Commit(p, 2 * n, 2 * n) \in Seq(PlainStep)
  BY <1>1, SortStepsPlain
<1>3. /\ Some("gates", n) \in Seq(PlainStep)
      /\ Some("gates", n - 1) \in Seq(PlainStep)
      /\ Some("gates", 2 * n - 1) \in Seq(PlainStep)
      /\ Some("bits", 1) \in Seq(PlainStep)
      /\ Some("bits", 2 * n) \in Seq(PlainStep)
  <2>1. n \in Int /\ n - 1 \in Int /\ 2 * n - 1 \in Int /\ 1 \in Int /\ 2 * n \in Int
    BY <1>1
  <2> QED
    BY <2>1, SomePlain DEF Messages
<1>4. ZeroOutDupes(p, n) \in Seq(PlainStep)
  BY <1>1, <1>3, SortStepsPlain, ConcatPlain DEF ZeroOutDupes
<1>5. Equal(2 * n) \in Seq(PlainStep) /\ CheckSetEquality(2 * n) \in Seq(PlainStep)
  BY <1>1, EqualPlain
<1>6. ASSUME NEW b PROVE VerifyEquality(p, b, n) \in Seq(PlainStep)
  BY <1>2, <1>4, <1>5, PartsPlain, ConcatPlain DEF VerifyEquality
<1>7. VerifyDisjoint(p, n) \in Seq(PlainStep)
  BY <1>3, <1>5, PartsPlain, ConcatPlain DEF VerifyDisjoint
<1> DEFINE padding == IF lrows # rrows THEN Commit(p, n, n) ELSE << >>
<1>8. padding \in Seq(PlainStep)
  BY <1>2, PartsPlain
<1> HIDE DEF padding
<1>9. KeyedJoinSteps(p, lrows, rrows, fkLeft) =
        Commit(p, n, n) \o Commit(p, n, n) \o Commit(p, n, n)
          \o Some("gates", n) \o Reveal \o padding
          \o VerifyEquality(p, fkLeft, n) \o VerifyEquality(p, ~fkLeft, n)
          \o VerifyDisjoint(p, n)
  BY DEF KeyedJoinSteps, n, padding
<1>10. Commit(p, n, n) \o Commit(p, n, n) \o Commit(p, n, n)
         \o Some("gates", n) \o Reveal \o padding \in Seq(PlainStep)
  BY <1>2, <1>3, <1>8, PartsPlain, ConcatPlain
<1>11. /\ VerifyEquality(p, fkLeft, n) \in Seq(PlainStep)
       /\ VerifyEquality(p, ~fkLeft, n) \in Seq(PlainStep)
  BY <1>6
<1> QED
  BY <1>7, <1>9, <1>10, <1>11, ConcatPlain

(* Both parties do the same for a join.                                    *)
LEMMA KeyedJoinStepsAgree ==
  ASSUME NEW lrows \in Nat, NEW rrows \in Nat, NEW fkLeft \in BOOLEAN
  PROVE  KeyedJoinSteps(BOB, lrows, rrows, fkLeft) =
           KeyedJoinSteps(ALICE, lrows, rrows, fkLeft)
<1> DEFINE n == Larger(lrows, rrows)
<1>1. n \in Nat
  BY DEF Larger
<1> HIDE DEF n
<1>2. Commit(BOB, n, n) = Commit(ALICE, n, n) /\ Commit(BOB, 2 * n, 2 * n) = Commit(ALICE, 2 * n, 2 * n)
  BY DEF Commit
<1>3. SortSteps(BOB, n, n, n) = SortSteps(ALICE, n, n, n)
  BY <1>2 DEF SortSteps
<1>4. ZeroOutDupes(BOB, n) = ZeroOutDupes(ALICE, n)
  BY <1>3 DEF ZeroOutDupes
<1>5. \A b : VerifyEquality(BOB, b, n) = VerifyEquality(ALICE, b, n)
  BY <1>2, <1>4 DEF VerifyEquality
<1>6. VerifyDisjoint(BOB, n) = VerifyDisjoint(ALICE, n)
  BY DEF VerifyDisjoint
<1>7. /\ VerifyEquality(BOB, fkLeft, n) = VerifyEquality(ALICE, fkLeft, n)
      /\ VerifyEquality(BOB, ~fkLeft, n) = VerifyEquality(ALICE, ~fkLeft, n)
  BY <1>5
<1> DEFINE steps(p) ==
      Commit(p, n, n) \o Commit(p, n, n) \o Commit(p, n, n)
        \o Some("gates", n) \o Reveal
        \o (IF lrows # rrows THEN Commit(p, n, n) ELSE << >>)
        \o VerifyEquality(p, fkLeft, n) \o VerifyEquality(p, ~fkLeft, n)
        \o VerifyDisjoint(p, n)
<1>8. \A p : KeyedJoinSteps(p, lrows, rrows, fkLeft) = steps(p)
  BY DEF KeyedJoinSteps, n
<1>9. steps(BOB) = steps(ALICE)
  BY <1>2, <1>6, <1>7
<1> QED
  BY <1>8, <1>9

-----------------------------------------------------------------------------
(* What a call makes of tables whose copies have the same size.            *)

LEMMA OutputEven ==
  ASSUME NEW k \in Nat, NEW ts \in Seq(TableType), Len(ts) = k - 1, Even(ts),
         NEW c \in CallOver(k), NEW p \in Parties
  PROVE  /\ OutputOf(p, ts, c) \in TableType
         /\ OutputOf(p, ts, c).plain = OutputOf(p, ts, c).rows
         /\ OutputOf(p, ts, c) = OutputOf(ALICE, ts, c)
<1> USE CallFacts
<1>1. \A i \in 1 .. Len(ts) : ts[i] \in TableType /\ ts[i].plain = ts[i].rows
  BY DEF Even
<1>2. CASE c.kind = "Scan"
  BY <1>2 DEF OutputOf, Table, TableType
<1>3. CASE c.kind = "Filter"
  BY <1>1, <1>3 DEF OutputOf
<1>4. CASE c.kind = "GroupBy"
  BY <1>1, <1>4 DEF OutputOf, Table, TableType
<1>5. CASE c.kind = "ScalarAggregate"
  BY <1>5 DEF OutputOf, Table, TableType
<1>6. CASE c.kind = "Sort"
  <2> DEFINE n == ts[c.l].rows
  <2>1. n \in Nat /\ ts[c.l].plain = n
    BY <1>1, <1>6 DEF TableType
  <2>2. OutputOf(p, ts, c) = Resize(Table(n, n)) /\ OutputOf(ALICE, ts, c) = Resize(Table(n, n))
    BY <1>6, <2>1 DEF OutputOf
  <2> HIDE DEF n
  <2>3. Truncated(n) \in Nat
    BY <2>1, Bounds DEF Truncated
  <2> QED
    BY <2>2, <2>3 DEF Resize, Table, TableType
<1>7. CASE c.kind \in {"FkPkJoin", "PkFkJoin"}
  <2> DEFINE n == Larger(ts[c.l].rows, ts[c.r].rows)
  <2>1. n \in Nat
    BY <1>1, <1>7 DEF TableType, Larger
  <2>2. OutputOf(p, ts, c) = Table(n, n) /\ OutputOf(ALICE, ts, c) = Table(n, n)
    BY <1>7 DEF OutputOf
  <2> HIDE DEF n
  <2> QED
    BY <2>1, <2>2 DEF Table, TableType
<1> QED
  BY <1>2, <1>3, <1>4, <1>5, <1>6, <1>7

LEMMA StepsAgree ==
  ASSUME NEW k \in Nat, NEW ts \in Seq(TableType), Len(ts) = k - 1, Even(ts),
         NEW c \in CallOver(k), c.kind # "Scan"
  PROVE  /\ StepsOf(ALICE, ts, c) \in Seq(PlainStep)
         /\ StepsOf(BOB, ts, c) = StepsOf(ALICE, ts, c)
<1> USE CallFacts DEF Parties
<1>1. \A i \in 1 .. Len(ts) :
        ts[i].rows \in Nat /\ ts[i].plain = ts[i].rows
  <2>1. \A i \in 1 .. Len(ts) : ts[i] \in TableType
    OBVIOUS
  <2> QED
    BY <2>1 DEF Even, TableType
<1>2. CASE c.kind \in {"Filter", "GroupBy", "ScalarAggregate"}
  <2>1. StepsOf(ALICE, ts, c) = Some("gates", ts[c.l].rows) /\ StepsOf(BOB, ts, c) = Some("gates", ts[c.l].rows)
    BY <1>2 DEF StepsOf
  <2>2. ts[c.l].rows \in Int
    BY <1>1, <1>2
  <2> QED
    BY <2>1, <2>2, SomePlain DEF Messages
<1>3. CASE c.kind = "Sort"
  <2> DEFINE n == ts[c.l].rows
             m == OutputOf(ALICE, ts, c).rows
  <2>1. n \in Nat /\ ts[c.l].plain = n
    BY <1>1, <1>3
  <2>2. m \in Nat /\ OutputOf(BOB, ts, c).rows = m
    BY OutputEven DEF TableType
  <2>3. StepsOf(ALICE, ts, c) = SortSteps(ALICE, n, n, m) /\ StepsOf(BOB, ts, c) = SortSteps(BOB, n, n, m)
    BY <1>3, <2>1, <2>2 DEF StepsOf
  <2> HIDE DEF n, m
  <2>4. SortSteps(ALICE, n, n, m) = SortSteps(BOB, n, n, m)
    BY DEF SortSteps, Commit
  <2> QED
    BY <2>1, <2>2, <2>3, <2>4, SortStepsPlain
<1>4. CASE c.kind \in {"FkPkJoin", "PkFkJoin"}
  <2>1. \A p \in Parties : StepsOf(p, ts, c) =
           KeyedJoinSteps(p, ts[c.l].rows, ts[c.r].rows, c.kind = "FkPkJoin")
    BY <1>4 DEF StepsOf
  <2>2. ts[c.l].rows \in Nat /\ ts[c.r].rows \in Nat
    BY <1>1, <1>4
  <2>3. (c.kind = "FkPkJoin") \in BOOLEAN
    OBVIOUS
  <2> QED
    BY <2>1, <2>2, <2>3, KeyedJoinStepsPlain, KeyedJoinStepsAgree
<1> QED
  BY <1>2, <1>3, <1>4

-----------------------------------------------------------------------------
(* A party on its own.                                                     *)

Place(i, td, n, ts, st, sn, dr) ==
  [item |-> i, todo |-> td, num |-> n, tables |-> ts, status |-> st,
   seen |-> sn, drawn |-> dr]

PlaceType ==
  [item : Nat, todo : Seq(StepType), num : 0 .. BufferSz, tables : Seq(TableType),
   status : {"running", "result", "teardown", "done"}, seen : Nat, drawn : Seq(Nat)]

(* What holds wherever a party can be in the run of pl.                    *)
Places(pl) ==
  { c \in PlaceType :
      /\ c.item <= Len(pl)
      /\ Len(c.tables) = c.item
      /\ Even(c.tables)
      /\ \A i \in 1 .. Len(c.drawn) : c.drawn[i] <= c.seen
      /\ c.todo # << >> => Tail(c.todo) \in Seq(PlainStep)
      /\ c.status # "running" => c.item = Len(pl) /\ c.todo \in Seq(EndStep)
      /\ c.status \in {"teardown", "done"} => c.num = 0
      /\ c.status = "done" => c.todo = << >> }

Fills(c) == Head(c.todo).do = "product" /\ c.num >= BufferSz
IsMsg(c) == c.todo # << >> /\ Head(c.todo).do \in Messages /\ ~Fills(c)

AfterCall(pl, c) ==
  Place(c.item + 1, StepsOf(ALICE, c.tables, pl[c.item + 1]), c.num,
        Append(c.tables, OutputOf(ALICE, c.tables, pl[c.item + 1])),
        c.status, c.seen, c.drawn)

AfterPlan(c) ==
  Place(c.item, Reveal, c.num, c.tables, "result", c.seen, c.drawn)

AfterResult(c) ==
  Place(c.item, IF c.num = 0 THEN << >> ELSE BatchCheck, 0, c.tables, "teardown",
        c.seen, c.drawn)

AfterTearDown(c) ==
  Place(c.item, c.todo, c.num, c.tables, "done", c.seen, c.drawn)

AfterFull(c) ==
  Place(c.item, BatchCheck \o c.todo, 0, c.tables, c.status, c.seen, c.drawn)

AfterFlush(c) ==
  Place(c.item, Tail(c.todo), c.num, c.tables, c.status, c.seen, c.drawn)

AfterChallenge(c) ==
  Place(c.item, Tail(c.todo), c.num, c.tables, c.status, c.seen,
        Append(c.drawn, c.seen))

AfterMsg(c) ==
  Place(c.item, Tail(c.todo), IF Head(c.todo).do = "product" THEN c.num + 1 ELSE c.num,
        c.tables, c.status, c.seen + 1, c.drawn)

Follow(pl, c) ==
  IF c.todo = << >>
  THEN IF c.status = "running"
       THEN IF c.item < Len(pl) THEN AfterCall(pl, c) ELSE AfterPlan(c)
       ELSE IF c.status = "result" THEN AfterResult(c)
       ELSE IF c.status = "teardown" THEN AfterTearDown(c) ELSE c
  ELSE IF Fills(c) THEN AfterFull(c)
  ELSE IF Head(c.todo).do = "flush" THEN AfterFlush(c)
  ELSE IF Head(c.todo).do = "challenge" THEN AfterChallenge(c) ELSE AfterMsg(c)

Start == Place(0, << >>, 0, << >>, "running", 0, << >>)

(* A message of the run is still to come after c.                          *)
Pending(c) ==
  \/ c.status = "running"
  \/ c.num # 0
  \/ \E i \in 1 .. Len(c.todo) : c.todo[i].do \in Messages

(* What c has, d has too; and if c has a message to come, then d is still  *)
(* to see it or has seen it.                                               *)
Extends(c, d) ==
  /\ c.seen <= d.seen
  /\ Len(c.drawn) <= Len(d.drawn)
  /\ \A i \in 1 .. Len(c.drawn) : d.drawn[i] = c.drawn[i]
  /\ Len(c.tables) <= Len(d.tables)
  /\ \A i \in 1 .. Len(c.tables) : d.tables[i] = c.tables[i]
  /\ Pending(c) => Pending(d) \/ c.seen < d.seen
  /\ c.status = "done" => d = c

LEMMA PlaceFacts ==
  ASSUME NEW pl \in Plans, NEW c \in Places(pl)
  PROVE  /\ c.item \in Nat /\ c.item <= Len(pl) /\ Len(c.tables) = c.item
         /\ c.todo \in Seq(StepType) /\ c.num \in 0 .. BufferSz
         /\ c.tables \in Seq(TableType) /\ Even(c.tables)
         /\ c.status \in {"running", "result", "teardown", "done"}
         /\ c.seen \in Nat /\ c.drawn \in Seq(Nat)
         /\ \A i \in 1 .. Len(c.drawn) : c.drawn[i] <= c.seen
         /\ c.todo # << >> =>
              /\ Tail(c.todo) \in Seq(PlainStep) /\ Head(c.todo) \in StepType
              /\ Head(c.todo).do \in Messages \cup {"flush", "challenge"}
              /\ Head(c.todo).n \in Nat
              /\ Len(Tail(c.todo)) = Len(c.todo) - 1
              /\ \A i \in 1 .. Len(Tail(c.todo)) : Tail(c.todo)[i] = c.todo[i + 1]
         /\ c.status # "running" => c.item = Len(pl) /\ c.todo \in Seq(EndStep)
         /\ c.status \in {"teardown", "done"} => c.num = 0
         /\ c.status = "done" => c.todo = << >>
<1>1. c \in PlaceType
  BY DEF Places
<1>2. c.todo \in Seq(StepType)
  BY <1>1 DEF PlaceType
<1>3. c.todo # << >> =>
        /\ Head(c.todo) \in StepType
        /\ Len(Tail(c.todo)) = Len(c.todo) - 1
        /\ \A i \in 1 .. Len(Tail(c.todo)) : Tail(c.todo)[i] = c.todo[i + 1]
  BY <1>2, HeadTailProperties
<1>4. Head(c.todo) \in StepType =>
        Head(c.todo).do \in Messages \cup {"flush", "challenge"} /\ Head(c.todo).n \in Nat
  BY DEF StepType
<1> QED
  BY <1>1, <1>2, <1>3, <1>4 DEF Places, PlaceType

LEMMA PlainIsStep ==
  /\ PlainStep \subseteq StepType /\ EndStep \subseteq PlainStep
  /\ Seq(PlainStep) \subseteq Seq(StepType) /\ Seq(EndStep) \subseteq Seq(PlainStep)
<1>1. PlainStep \subseteq StepType /\ EndStep \subseteq PlainStep
  BY DEF PlainStep, EndStep, StepType, Messages
<1> QED
  BY <1>1, SeqMonotonic

LEMMA TailPlain ==
  ASSUME NEW s \in Seq(PlainStep)
  PROVE  s \in Seq(StepType) /\ (s # << >> => Tail(s) \in Seq(PlainStep))
BY PlainIsStep, HeadTailProperties

LEMMA EvenAppend ==
  ASSUME NEW ts \in Seq(TableType), Even(ts), NEW t \in TableType, t.plain = t.rows
  PROVE  /\ Append(ts, t) \in Seq(TableType) /\ Even(Append(ts, t))
         /\ Len(Append(ts, t)) = Len(ts) + 1
         /\ \A i \in 1 .. Len(ts) : Append(ts, t)[i] = ts[i]
BY AppendProperties DEF Even

(* The steps of a call: those of a scan have its count in front.           *)
LEMMA CallSteps ==
  ASSUME NEW k \in Nat, NEW ts \in Seq(TableType), Len(ts) = k - 1, Even(ts),
         NEW c \in CallOver(k)
  PROVE  /\ StepsOf(ALICE, ts, c) \in Seq(StepType)
         /\ StepsOf(ALICE, ts, c) # << >> => Tail(StepsOf(ALICE, ts, c)) \in Seq(PlainStep)
         /\ c.kind = "Scan" =>
              StepsOf(ALICE, ts, c) = <<Step("count", c.rows)>> \o Some("bits", c.rows)
<1>1. CASE c.kind # "Scan"
  BY <1>1, StepsAgree, TailPlain
<1>2. CASE c.kind = "Scan"
  <2>1. c.rows \in Nat
    BY <1>2, CallFacts
  <2>2. StepsOf(ALICE, ts, c) = ScanSteps(ALICE, c.rows)
    BY <1>2 DEF StepsOf
  <2>3. StepsOf(ALICE, ts, c) = <<Step("count", c.rows)>> \o Some("bits", c.rows)
    BY <2>2 DEF ScanSteps, Commit
  <2>4. Some("bits", c.rows) \in Seq(PlainStep)
    BY <2>1, SomePlain DEF Messages
  <2>5. Step("count", c.rows) \in StepType
    BY <2>1 DEF Step, StepType, Messages
  <2> DEFINE b == Some("bits", c.rows)
             x == Step("count", c.rows)
  <2> HIDE DEF b, x
  <2>6. b \in Seq(StepType) /\ b \in Seq(PlainStep) /\ x \in StepType
    BY <2>4, <2>5, PlainIsStep DEF b, x
  <2>7. <<x>> \o b \in Seq(StepType)
    BY <2>6, ConcatProperties
  <2>8. Tail(<<x>> \o b) = b
    BY <2>6
  <2> QED
    BY <1>2, <2>3, <2>6, <2>7, <2>8 DEF b, x
<1> QED
  BY <1>1, <1>2

LEMMA FollowCall ==
  ASSUME NoBasicJoin, NEW pl \in Plans, NEW c \in Places(pl),
         c.todo = << >>, c.status = "running", c.item < Len(pl)
  PROVE  AfterCall(pl, c) \in Places(pl) /\ Extends(c, AfterCall(pl, c))
<1> DEFINE k == c.item + 1
           ts == Append(c.tables, OutputOf(ALICE, c.tables, pl[k]))
           td == StepsOf(ALICE, c.tables, pl[k])
<1>1. k \in Nat /\ k \in 1 .. Len(pl) /\ pl[k] \in CallOver(k) /\ Len(c.tables) = k - 1
  BY PlaceFacts, PlanFacts
<1>2. /\ OutputOf(ALICE, c.tables, pl[k]) \in TableType
      /\ OutputOf(ALICE, c.tables, pl[k]).plain = OutputOf(ALICE, c.tables, pl[k]).rows
  BY <1>1, OutputEven, PlaceFacts DEF Parties
<1>3. /\ ts \in Seq(TableType) /\ Even(ts) /\ Len(ts) = k
      /\ Len(ts) = Len(c.tables) + 1
      /\ \A i \in 1 .. Len(c.tables) : ts[i] = c.tables[i]
  BY <1>1, <1>2, EvenAppend, PlaceFacts
<1>4. td \in Seq(StepType) /\ (td # << >> => Tail(td) \in Seq(PlainStep))
  BY <1>1, CallSteps, PlaceFacts
<1>5. AfterCall(pl, c) = Place(k, td, c.num, ts, c.status, c.seen, c.drawn)
  BY DEF AfterCall
<1> HIDE DEF k, ts, td
<1>6. Place(k, td, c.num, ts, c.status, c.seen, c.drawn) \in Places(pl)
  <2>1. /\ c.num \in 0 .. BufferSz /\ c.seen \in Nat /\ c.drawn \in Seq(Nat)
        /\ \A i \in 1 .. Len(c.drawn) : c.drawn[i] <= c.seen
    BY PlaceFacts
  <2>2. k <= Len(pl)
    BY <1>1
  <2> QED
    BY <1>1, <1>3, <1>4, <2>1, <2>2 DEF Place, Places, PlaceType
<1>7. Extends(c, Place(k, td, c.num, ts, c.status, c.seen, c.drawn))
  BY <1>3, PlaceFacts DEF Extends, Place, Pending
<1> QED
  BY <1>5, <1>6, <1>7

LEMMA FollowEnd ==
  ASSUME NoBasicJoin, NEW pl \in Plans, NEW c \in Places(pl), c.todo = << >>
  PROVE  /\ c.status = "running" /\ ~(c.item < Len(pl)) =>
              AfterPlan(c) \in Places(pl) /\ Extends(c, AfterPlan(c))
         /\ c.status = "result" =>
              AfterResult(c) \in Places(pl) /\ Extends(c, AfterResult(c))
         /\ c.status = "teardown" =>
              AfterTearDown(c) \in Places(pl) /\ Extends(c, AfterTearDown(c))
<1>0. /\ c.item \in Nat /\ c.item <= Len(pl) /\ Len(pl) \in Nat
      /\ c.num \in 0 .. BufferSz /\ 0 \in 0 .. BufferSz /\ c.num \in Nat
      /\ c.tables \in Seq(TableType) /\ Even(c.tables) /\ Len(c.tables) = c.item
      /\ c.seen \in Nat /\ c.drawn \in Seq(Nat)
      /\ \A i \in 1 .. Len(c.drawn) : c.drawn[i] <= c.seen
      /\ Len(c.drawn) \in Nat /\ Len(c.tables) \in Nat
  BY PlaceFacts, PlanFacts, Bounds
<1>1. ASSUME c.status = "running", ~(c.item < Len(pl))
      PROVE  AfterPlan(c) \in Places(pl) /\ Extends(c, AfterPlan(c))
  <2>1. Reveal \in Seq(EndStep) /\ Reveal \in Seq(PlainStep)
    BY PartsPlain DEF Reveal, Some, Step, EndStep
  <2>2. Reveal \in Seq(StepType) /\ (Reveal # << >> => Tail(Reveal) \in Seq(PlainStep))
    BY <2>1, TailPlain
  <2>3. AfterPlan(c) \in Places(pl)
    <3>1. c.item = Len(pl)
      BY <1>0, <1>1
    <3> QED
      BY <1>0, <2>1, <2>2, <3>1 DEF Place, Places, PlaceType, AfterPlan
  <2>4. \E i \in 1 .. Len(Reveal) : Reveal[i].do \in Messages
    BY DEF Reveal, Some, Step, Messages
  <2>5. Pending(AfterPlan(c))
    BY <2>4 DEF Pending, AfterPlan, Place
  <2> QED
    BY <1>0, <1>1, <2>3, <2>5 DEF Extends, AfterPlan, Place
<1>2. ASSUME c.status = "result"
      PROVE  AfterResult(c) \in Places(pl) /\ Extends(c, AfterResult(c))
  <2> DEFINE td == IF c.num = 0 THEN << >> ELSE BatchCheck
  <2>1. td \in Seq(EndStep) /\ td \in Seq(PlainStep)
    BY BatchCheckPlain
  <2>2. td \in Seq(StepType) /\ (td # << >> => Tail(td) \in Seq(PlainStep))
    BY <2>1, TailPlain
  <2>3. c.item = Len(pl)
    BY <1>2, PlaceFacts
  <2>4. AfterResult(c) = Place(c.item, td, 0, c.tables, "teardown", c.seen, c.drawn)
    BY DEF AfterResult
  <2>5. ASSUME c.num # 0 PROVE \E i \in 1 .. Len(td) : td[i].do \in Messages
    <3>1. td = BatchCheck
      BY <2>5
    <3>2. Len(BatchCheck) = 4 /\ BatchCheck[3].do = "sums"
      BY DEF BatchCheck, Flush, AliceFlush, Challenge, Some, Step
    <3> HIDE DEF td
    <3> QED
      BY <3>1, <3>2 DEF Messages
  <2> HIDE DEF td
  <2>6. AfterResult(c) \in Places(pl)
    <3>1. "teardown" = "done" => td = << >>
      OBVIOUS
    <3> QED
      BY <1>0, <2>1, <2>2, <2>3, <2>4, <3>1 DEF Place, Places, PlaceType
  <2>7. Pending(c) => Pending(AfterResult(c))
    BY <1>0, <1>2, <2>4, <2>5 DEF Pending, Place
  <2> QED
    BY <1>0, <1>2, <2>4, <2>6, <2>7 DEF Extends, Place
<1>3. ASSUME c.status = "teardown"
      PROVE  AfterTearDown(c) \in Places(pl) /\ Extends(c, AfterTearDown(c))
  <2>1. c.item = Len(pl) /\ c.num = 0 /\ c.todo \in Seq(EndStep) /\ c.todo \in Seq(StepType)
    BY <1>3, PlaceFacts
  <2>2. AfterTearDown(c) \in Places(pl)
    BY <1>0, <2>1 DEF Place, Places, PlaceType, AfterTearDown
  <2>3. ~Pending(c)
    BY <1>3, <2>1 DEF Pending
  <2> QED
    BY <1>0, <1>3, <2>2, <2>3 DEF Extends, AfterTearDown, Place
<1> QED
  BY <1>1, <1>2, <1>3

LEMMA FollowFull ==
  ASSUME NoBasicJoin, NEW pl \in Plans, NEW c \in Places(pl), c.todo # << >>, Fills(c)
  PROVE  AfterFull(c) \in Places(pl) /\ Extends(c, AfterFull(c))
<1>0. /\ c.item \in Nat /\ c.item <= Len(pl) /\ 0 \in 0 .. BufferSz
      /\ c.status \in {"running", "result", "teardown", "done"}
      /\ c.tables \in Seq(TableType) /\ Even(c.tables) /\ Len(c.tables) = c.item
      /\ c.seen \in Nat /\ c.drawn \in Seq(Nat)
      /\ \A i \in 1 .. Len(c.drawn) : c.drawn[i] <= c.seen
      /\ Len(c.drawn) \in Nat /\ Len(c.tables) \in Nat
      /\ Head(c.todo) \in StepType /\ c.todo \in Seq(StepType)
  BY PlaceFacts, Bounds
<1>1. c.status = "running"
  <2>1. SUFFICES ASSUME c.todo \in Seq(EndStep) PROVE FALSE
    BY <1>0, PlaceFacts
  <2>2. Head(c.todo) \in EndStep
    BY <2>1, HeadTailProperties
  <2> QED
    BY <2>2 DEF Fills, EndStep
<1>2. c.todo \in Seq(PlainStep)
  <2>1. Head(c.todo) \in PlainStep
    BY <1>0 DEF Fills, StepType, PlainStep, Messages
  <2>2. \A i \in 1 .. Len(c.todo) : c.todo[i] \in PlainStep
    <3> SUFFICES ASSUME NEW i \in 1 .. Len(c.todo) PROVE c.todo[i] \in PlainStep
      OBVIOUS
    <3>1. CASE i = 1
      BY <2>1, <3>1, <1>0
    <3>2. CASE i # 1
      <4>1. i - 1 \in 1 .. Len(Tail(c.todo)) /\ Tail(c.todo)[i - 1] = c.todo[(i - 1) + 1]
        BY <3>2, PlaceFacts
      <4>2. Tail(c.todo) \in Seq(PlainStep)
        BY PlaceFacts
      <4>3. Tail(c.todo)[i - 1] \in PlainStep
        BY <4>1, <4>2, ElementOfSeq
      <4> QED
        BY <4>1, <4>3
    <3> QED
      BY <3>1, <3>2
  <2> QED
    BY <1>0, <2>2
<1> DEFINE td == BatchCheck \o c.todo
<1>3. td \in Seq(PlainStep)
  BY <1>2, BatchCheckPlain, ConcatPlain
<1>4. td \in Seq(StepType) /\ (td # << >> => Tail(td) \in Seq(PlainStep))
  BY <1>3, TailPlain
<1>5. AfterFull(c) = Place(c.item, td, 0, c.tables, c.status, c.seen, c.drawn)
  BY DEF AfterFull
<1> HIDE DEF td
<1>6. AfterFull(c) \in Places(pl)
  BY <1>0, <1>1, <1>4, <1>5 DEF Place, Places, PlaceType
<1>7. Extends(c, AfterFull(c))
  BY <1>0, <1>1, <1>5 DEF Extends, Place, Pending
<1> QED
  BY <1>6, <1>7

LEMMA FollowStep ==
  ASSUME NoBasicJoin, NEW pl \in Plans, NEW c \in Places(pl), c.todo # << >>, ~Fills(c)
  PROVE  /\ Head(c.todo).do = "flush" =>
              AfterFlush(c) \in Places(pl) /\ Extends(c, AfterFlush(c))
         /\ Head(c.todo).do = "challenge" =>
              AfterChallenge(c) \in Places(pl) /\ Extends(c, AfterChallenge(c))
         /\ Head(c.todo).do \in Messages =>
              AfterMsg(c) \in Places(pl) /\ Extends(c, AfterMsg(c))
<1>0. /\ c.item \in Nat /\ c.item <= Len(pl) /\ Len(pl) \in Nat
      /\ c.num \in 0 .. BufferSz /\ c.num \in Nat /\ BufferSz \in Nat
      /\ c.status \in {"running", "result", "teardown", "done"}
      /\ c.tables \in Seq(TableType) /\ Even(c.tables) /\ Len(c.tables) = c.item
      /\ c.seen \in Nat /\ c.drawn \in Seq(Nat)
      /\ \A i \in 1 .. Len(c.drawn) : c.drawn[i] <= c.seen
      /\ Len(c.drawn) \in Nat /\ Len(c.tables) \in Nat /\ c.todo \in Seq(StepType)
      /\ c.status # "running" => c.item = Len(pl) /\ c.todo \in Seq(EndStep)
      /\ c.status \in {"teardown", "done"} => c.num = 0
      /\ c.status # "done"
  BY PlaceFacts, PlanFacts, Bounds
<1> DEFINE td == Tail(c.todo)
<1>1. td \in Seq(PlainStep) /\ td \in Seq(StepType) /\ (td # << >> => Tail(td) \in Seq(PlainStep))
  BY PlaceFacts, TailPlain
<1>2. c.status # "running" => td \in Seq(EndStep) /\ Head(c.todo) \in EndStep
  BY <1>0, HeadTailProperties
<1>3. Head(c.todo).do \notin Messages =>
        (Pending(c) => \A n, ts, dr :
           Pending(Place(c.item, td, c.num, ts, c.status, n, dr)))
  <2> SUFFICES ASSUME Head(c.todo).do \notin Messages,
                      NEW i \in 1 .. Len(c.todo), c.todo[i].do \in Messages
               PROVE  \E j \in 1 .. Len(td) : td[j].do \in Messages
    BY DEF Pending, Place
  <2>1. i # 1
    BY <1>0
  <2>2. i - 1 \in 1 .. Len(td) /\ td[i - 1] = c.todo[(i - 1) + 1]
    BY <1>0, <2>1, PlaceFacts
  <2>3. td[i - 1].do \in Messages
    BY <2>2, <1>0
  <2> QED
    BY <2>2, <2>3
<1>4. ASSUME Head(c.todo).do = "flush"
      PROVE  AfterFlush(c) \in Places(pl) /\ Extends(c, AfterFlush(c))
  <2>1. AfterFlush(c) = Place(c.item, td, c.num, c.tables, c.status, c.seen, c.drawn)
    BY DEF AfterFlush
  <2> HIDE DEF td
  <2>2. AfterFlush(c) \in Places(pl)
    BY <1>0, <1>1, <1>2, <2>1 DEF Place, Places, PlaceType
  <2>3. Pending(c) => Pending(AfterFlush(c))
    BY <1>3, <1>4, <2>1 DEF Messages
  <2> QED
    BY <1>0, <2>1, <2>2, <2>3 DEF Extends, Place
<1>5. ASSUME Head(c.todo).do = "challenge"
      PROVE  AfterChallenge(c) \in Places(pl) /\ Extends(c, AfterChallenge(c))
  <2> DEFINE dr == Append(c.drawn, c.seen)
  <2>1. AfterChallenge(c) = Place(c.item, td, c.num, c.tables, c.status, c.seen, dr)
    BY DEF AfterChallenge
  <2>2. /\ dr \in Seq(Nat) /\ Len(dr) = Len(c.drawn) + 1
        /\ \A i \in 1 .. Len(c.drawn) : dr[i] = c.drawn[i]
        /\ dr[Len(c.drawn) + 1] = c.seen
    BY <1>0, AppendProperties
  <2> HIDE DEF td, dr
  <2>3. \A i \in 1 .. Len(dr) : dr[i] <= c.seen
    <3> SUFFICES ASSUME NEW i \in 1 .. Len(dr) PROVE dr[i] <= c.seen
      OBVIOUS
    <3>1. i \in 1 .. Len(c.drawn) \/ i = Len(c.drawn) + 1
      BY <2>2, <1>0
    <3> QED
      BY <3>1, <2>2, <1>0
  <2>4. AfterChallenge(c) \in Places(pl)
    BY <1>0, <1>1, <1>2, <2>1, <2>2, <2>3 DEF Place, Places, PlaceType
  <2>5. Pending(c) => Pending(AfterChallenge(c))
    BY <1>3, <1>5, <2>1 DEF Messages
  <2> QED
    BY <1>0, <2>1, <2>2, <2>4, <2>5 DEF Extends, Place
<1>6. ASSUME Head(c.todo).do \in Messages
      PROVE  AfterMsg(c) \in Places(pl) /\ Extends(c, AfterMsg(c))
  <2> DEFINE n == IF Head(c.todo).do = "product" THEN c.num + 1 ELSE c.num
  <2>1. AfterMsg(c) = Place(c.item, td, n, c.tables, c.status, c.seen + 1, c.drawn)
    BY DEF AfterMsg
  <2>2. n \in 0 .. BufferSz
    BY <1>0 DEF Fills
  <2>3. c.status \in {"teardown", "done"} => n = 0
    BY <1>0, <1>2 DEF EndStep
  <2>4. \A i \in 1 .. Len(c.drawn) : c.drawn[i] <= c.seen + 1
    BY <1>0
  <2> HIDE DEF td, n
  <2>5. c.seen + 1 \in Nat /\ c.seen < c.seen + 1
    BY <1>0
  <2>6. AfterMsg(c) \in Places(pl)
    BY <1>0, <1>1, <1>2, <2>1, <2>2, <2>3, <2>4, <2>5 DEF Place, Places, PlaceType
  <2> QED
    BY <1>0, <2>1, <2>5, <2>6 DEF Extends, Place
<1> QED
  BY <1>4, <1>5, <1>6

(* A step of the run leads from one place of it to another, which extends  *)
(* the first.                                                              *)
LEMMA FollowFacts ==
  ASSUME NoBasicJoin, NEW pl \in Plans, NEW c \in Places(pl)
  PROVE  Follow(pl, c) \in Places(pl) /\ Extends(c, Follow(pl, c))
<1>1. CASE c.todo = << >>
  <2>1. CASE c.status = "running" /\ c.item < Len(pl)
    BY <1>1, <2>1, FollowCall DEF Follow
  <2>2. CASE c.status = "running" /\ ~(c.item < Len(pl))
    BY <1>1, <2>2, FollowEnd DEF Follow
  <2>3. CASE c.status = "result"
    BY <1>1, <2>3, FollowEnd DEF Follow
  <2>4. CASE c.status = "teardown"
    BY <1>1, <2>4, FollowEnd DEF Follow
  <2>5. CASE c.status = "done"
    <3>1. Extends(c, c)
      BY PlaceFacts DEF Extends
    <3> QED
      BY <1>1, <2>5, <3>1 DEF Follow
  <2> QED
    BY <2>1, <2>2, <2>3, <2>4, <2>5, PlaceFacts
<1>2. CASE c.todo # << >>
  <2>1. CASE Fills(c)
    BY <1>2, <2>1, FollowFull DEF Follow
  <2>2. CASE ~Fills(c)
    <3>1. CASE Head(c.todo).do = "flush"
      BY <1>2, <2>2, <3>1, FollowStep DEF Follow
    <3>2. CASE Head(c.todo).do = "challenge"
      BY <1>2, <2>2, <3>2, FollowStep DEF Follow
    <3>3. CASE Head(c.todo).do \in Messages
      <4>1. Follow(pl, c) = AfterMsg(c)
        BY <1>2, <2>2, <3>3 DEF Follow, Messages
      <4> QED
        BY <1>2, <2>2, <3>3, <4>1, FollowStep
    <3> QED
      BY <1>2, <3>1, <3>2, <3>3, PlaceFacts
  <2> QED
    BY <2>1, <2>2
<1> QED
  BY <1>1, <1>2

-----------------------------------------------------------------------------
(* The run of a plan.                                                      *)

Run(pl) ==
  CHOOSE r \in [Nat -> Places(pl)] :
    r[0] = Start /\ \A n \in Nat : r[n + 1] = Follow(pl, r[n])

LEMMA StartFacts ==
  ASSUME NoBasicJoin, NEW pl \in Plans
  PROVE  Start \in Places(pl)
<1>1. Len(pl) \in Nat /\ 0 \in 0 .. BufferSz
  BY PlanFacts, Bounds
<1>2. /\ << >> \in Seq(TableType) /\ Len(<< >>) = 0 /\ << >> \in Seq(StepType)
      /\ << >> \in Seq(Nat) /\ << >> \in Seq(EndStep)
  OBVIOUS
<1> QED
  BY <1>1, <1>2 DEF Start, Place, Places, PlaceType, Even

LEMMA RunFacts ==
  ASSUME NoBasicJoin, NEW pl \in Plans
  PROVE  /\ Run(pl) \in [Nat -> Places(pl)]
         /\ Run(pl)[0] = Start
         /\ \A n \in Nat : Run(pl)[n + 1] = Follow(pl, Run(pl)[n])
<1> DEFINE F == [c \in Places(pl) |-> Follow(pl, c)]
<1>1. F \in [Places(pl) -> Places(pl)]
  BY FollowFacts
<1>2. \A c \in Places(pl) : F[c] = Follow(pl, c)
  OBVIOUS
<1> HIDE DEF F
<1>3. \E r \in [Nat -> Places(pl)] : r[0] = Start /\ \A n \in Nat : r[n + 1] = F[r[n]]
  <2> DEFINE S == Places(pl)
  <2>1. F \in [S -> S] /\ Start \in S
    BY <1>1, StartFacts
  <2> HIDE DEF S
  <2>2. \E r : IsIteration(r, S, F, Start)
    BY <2>1, Iterates
  <2> QED
    BY <2>2 DEF S, IsIteration
<1>4. \E r \in [Nat -> Places(pl)] :
        r[0] = Start /\ \A n \in Nat : r[n + 1] = Follow(pl, r[n])
  BY <1>2, <1>3
<1> QED
  BY <1>4 DEF Run

LEMMA ExtendsTransitive ==
  ASSUME NEW pl \in Plans, NEW c \in Places(pl), NEW d \in Places(pl), NEW e \in Places(pl),
         Extends(c, d), Extends(d, e)
  PROVE  Extends(c, e)
<1>1. /\ c.seen \in Nat /\ d.seen \in Nat /\ e.seen \in Nat
      /\ Len(c.drawn) \in Nat /\ Len(d.drawn) \in Nat /\ Len(e.drawn) \in Nat
      /\ Len(c.tables) \in Nat /\ Len(d.tables) \in Nat /\ Len(e.tables) \in Nat
  BY PlaceFacts, SMTT(30)
<1>2. c.seen <= e.seen /\ Len(c.drawn) <= Len(e.drawn) /\ Len(c.tables) <= Len(e.tables)
  BY <1>1, SMTT(30) DEF Extends
<1>3. \A i \in 1 .. Len(c.drawn) : e.drawn[i] = c.drawn[i]
  BY <1>1 DEF Extends
<1>4. \A i \in 1 .. Len(c.tables) : e.tables[i] = c.tables[i]
  BY <1>1 DEF Extends
<1>5. Pending(c) => Pending(e) \/ c.seen < e.seen
  <2>1. c.seen <= d.seen /\ d.seen <= e.seen
    BY DEF Extends
  <2>2. Pending(c) => Pending(d) \/ c.seen < d.seen
    BY DEF Extends
  <2>3. Pending(d) => Pending(e) \/ d.seen < e.seen
    BY DEF Extends
  <2> QED
    BY <1>1, <2>1, <2>2, <2>3
<1>6. c.status = "done" => e = c
  BY DEF Extends
<1> QED
  BY <1>2, <1>3, <1>4, <1>5, <1>6 DEF Extends

(* Later places of a run extend earlier ones.                              *)
LEMMA RunExtends ==
  ASSUME NoBasicJoin, NEW pl \in Plans, NEW k \in Nat, NEW m \in Nat, k <= m
  PROVE  Extends(Run(pl)[k], Run(pl)[m])
<1> DEFINE R == Run(pl)
           Good == { j \in Nat : Extends(R[k], R[k + j]) }
<1>1. \A n \in Nat : R[n] \in Places(pl) /\ R[n + 1] = Follow(pl, R[n])
  BY RunFacts
<1> HIDE DEF R
<1>2. 0 \in Good
  <2>1. R[k] \in Places(pl) /\ k + 0 = k
    BY <1>1
  <2>2. Extends(R[k], R[k])
    BY <2>1, PlaceFacts DEF Extends
  <2> QED
    BY <2>1, <2>2
<1>3. ASSUME NEW j \in Nat, j \in Good PROVE j + 1 \in Good
  <2>1. k + j \in Nat /\ k + (j + 1) = (k + j) + 1 /\ k + (j + 1) \in Nat
    OBVIOUS
  <2>2. Extends(R[k + j], R[k + (j + 1)])
    BY <1>1, <2>1, FollowFacts
  <2>3. Extends(R[k], R[k + j])
    BY <1>3
  <2>4. R[k] \in Places(pl) /\ R[k + j] \in Places(pl) /\ R[k + (j + 1)] \in Places(pl)
    BY <1>1, <2>1
  <2>5. Extends(R[k], R[k + (j + 1)])
    BY <2>2, <2>3, <2>4, ExtendsTransitive
  <2> QED
    BY <2>5
<1> HIDE DEF Good
<1>4. Nat \subseteq Good
  BY <1>2, <1>3, NatSetInduction
<1>5. m - k \in Good /\ k + (m - k) = m
  BY <1>4
<1> QED
  BY <1>5 DEF Good, R

LEMMA FollowMsg ==
  ASSUME NoBasicJoin, NEW pl \in Plans, NEW c \in Places(pl)
  PROVE  /\ IsMsg(c) => Follow(pl, c) = AfterMsg(c) /\ Follow(pl, c).seen = c.seen + 1
         /\ ~IsMsg(c) => Follow(pl, c).seen = c.seen
<1>1. CASE IsMsg(c)
  <2>1. Follow(pl, c) = AfterMsg(c)
    BY <1>1 DEF IsMsg, Follow, Messages
  <2> QED
    BY <1>1, <2>1 DEF AfterMsg, Place
<1>2. CASE ~IsMsg(c)
  <2>1. CASE c.todo = << >>
    BY <1>2, <2>1 DEF Follow, AfterCall, AfterPlan, AfterResult, AfterTearDown, Place
  <2>2. CASE c.todo # << >>
    <3>1. Fills(c) \/ Head(c.todo).do \in {"flush", "challenge"}
      BY <1>2, <2>2, PlaceFacts DEF IsMsg
    <3> QED
      BY <1>2, <2>2, <3>1 DEF Follow, AfterFull, AfterFlush, AfterChallenge, Place
  <2> QED
    BY <2>1, <2>2
<1> QED
  BY <1>1, <1>2

(* A message of the run lies between the places before and after it.       *)
LEMMA RunMsg ==
  ASSUME NoBasicJoin, NEW pl \in Plans, NEW k \in Nat, NEW m \in Nat, k < m,
         IsMsg(Run(pl)[k])
  PROVE  Run(pl)[k].seen < Run(pl)[m].seen
<1> DEFINE R == Run(pl)
<1>1. \A n \in Nat : R[n] \in Places(pl) /\ R[n + 1] = Follow(pl, R[n]) /\ R[n].seen \in Nat
  BY RunFacts, PlaceFacts
<1>2. R[k + 1].seen = R[k].seen + 1
  BY <1>1, FollowMsg
<1>3. k + 1 \in Nat /\ k + 1 <= m
  OBVIOUS
<1>4. R[k + 1].seen <= R[m].seen
  BY <1>3, RunExtends DEF Extends
<1> HIDE DEF R
<1>5. R[k].seen < R[m].seen
  BY <1>1, <1>2, <1>3, <1>4
<1> QED
  BY <1>5 DEF R

-----------------------------------------------------------------------------
(* Both parties are in the same run.                                       *)

(* What p is at but for its status, its list and its tables.               *)
CountsAt(p, c) ==
  /\ item[p] = c.item /\ num[p] = c.num
  /\ seen[p] = c.seen /\ drawn[p] = c.drawn

At(p, c) == CountsAt(p, c) /\ todo[p] = c.todo /\ tables[p] = c.tables

AliceAt(c) ==
  /\ At(ALICE, c)
  /\ \/ status[ALICE] = c.status
     \/ status[ALICE] = "threw" /\ c.status = "running" /\ c.todo = << >>

(* Bob has begun a scan and does not know yet how many rows it has.        *)
AwaitsCount(c) ==
  \E n \in Nat :
    /\ todo[BOB] = <<Step("count", 0)>>
    /\ c.todo = <<Step("count", n)>> \o Some("bits", n)
    /\ tables[BOB] \in Seq(TableType)
    /\ c.tables = Append(tables[BOB], Table(n, n))

BobAt(c) ==
  /\ CountsAt(BOB, c)
  /\ status[BOB] = c.status \/ status[BOB] = "cut off"
  /\ \/ At(BOB, c) /\ (c.todo # << >> => Head(c.todo).do # "count")
     \/ AwaitsCount(c)

InFlight(i) == IF i <= Len(pipe) THEN pipe[i] ELSE outbuf[i - Len(pipe)]

(* Alice is at place a of the run and Bob at place b, and the messages of  *)
(* the run up to a that Bob has not seen are in flight, in their order.    *)
InStep(a, b) ==
  /\ AliceAt(Run(plan)[a])
  /\ BobAt(Run(plan)[b])
  /\ Len(pipe) + Len(outbuf) = seen[ALICE] - seen[BOB]
  /\ \A k \in 0 .. (a - 1) :
       IsMsg(Run(plan)[k]) /\ seen[BOB] <= Run(plan)[k].seen =>
         InFlight(Run(plan)[k].seen - seen[BOB] + 1) = Head(Run(plan)[k].todo)

LockStep == \E a, b \in Nat : InStep(a, b)

OfParties(f) == f = [p \in Parties |-> f[p]]

Shape ==
  /\ plan \in Plans
  /\ OfParties(item) /\ OfParties(todo) /\ OfParties(tables) /\ OfParties(num)
  /\ OfParties(status) /\ OfParties(seen) /\ OfParties(drawn)
  /\ outbuf \in Seq(Message) /\ Len(outbuf) <= OutBuf
  /\ pipe \in Seq(Message) /\ Len(pipe) <= Pipe

IndInv == Shape /\ LockStep

-----------------------------------------------------------------------------
(* What the invariant says of the two parties.                             *)

LEMMA PlacesOfRun ==
  ASSUME NoBasicJoin, plan \in Plans
  PROVE  \A n \in Nat : /\ Run(plan)[n] \in Places(plan)
                       /\ Run(plan)[n].seen \in Nat
                       /\ Run(plan)[n + 1] = Follow(plan, Run(plan)[n])
BY RunFacts, PlaceFacts

LEMMA BobsTables ==
  ASSUME NoBasicJoin, plan \in Plans, NEW c \in Places(plan), BobAt(c)
  PROVE  /\ tables[BOB] \in Seq(TableType) /\ todo[BOB] \in Seq(StepType)
         /\ Len(tables[BOB]) \in {c.item, c.item - 1}
         /\ \A i \in 1 .. Len(tables[BOB]) : tables[BOB][i] = c.tables[i]
         /\ status[BOB] \in Statuses
<1>1. /\ c.tables \in Seq(TableType) /\ c.todo \in Seq(StepType) /\ Len(c.tables) = c.item
      /\ c.status \in {"running", "result", "teardown", "done"}
  BY PlaceFacts
<1>2. status[BOB] \in Statuses
  BY <1>1 DEF BobAt, At, Statuses
<1>3. CASE todo[BOB] = c.todo /\ tables[BOB] = c.tables
  BY <1>1, <1>2, <1>3
<1>4. CASE AwaitsCount(c)
  <2>1. PICK n \in Nat :
          /\ todo[BOB] = <<Step("count", 0)>> /\ tables[BOB] \in Seq(TableType)
          /\ c.tables = Append(tables[BOB], Table(n, n))
    BY <1>4 DEF AwaitsCount
  <2>2. Table(n, n) \in TableType
    BY DEF Table, TableType
  <2>3. Len(c.tables) = Len(tables[BOB]) + 1 /\ Len(tables[BOB]) \in Nat
    BY <2>1, <2>2, AppendProperties, LenProperties
  <2>4. \A i \in 1 .. Len(tables[BOB]) : c.tables[i] = tables[BOB][i]
    BY <2>1, <2>2, AppendProperties
  <2>5. <<Step("count", 0)>> \in Seq(StepType)
    BY DEF Step, StepType, Messages
  <2> QED
    BY <1>1, <1>2, <2>1, <2>3, <2>4, <2>5
<1> QED
  BY <1>3, <1>4 DEF BobAt, At

LEMMA InvTypeOK ==
  ASSUME NoBasicJoin, IndInv
  PROVE  TypeOK
<1>1. PICK a, b \in Nat : InStep(a, b)
  BY DEF IndInv, LockStep
<1> DEFINE c == Run(plan)[a]
           d == Run(plan)[b]
<1>2. c \in Places(plan) /\ d \in Places(plan) /\ plan \in Plans
  BY PlacesOfRun DEF IndInv, Shape
<1>3. AliceAt(c) /\ BobAt(d)
  BY <1>1 DEF InStep
<1> HIDE DEF c, d
<1>4. \A e \in {c, d} :
        /\ e.item \in 0 .. Len(plan) /\ e.num \in 0 .. BufferSz /\ e.seen \in Nat
        /\ e.drawn \in Seq(Nat) /\ \A i \in 1 .. Len(e.drawn) : e.drawn[i] \in 0 .. e.seen
  <2> SUFFICES ASSUME NEW e \in Places(plan)
               PROVE  /\ e.item \in 0 .. Len(plan) /\ e.num \in 0 .. BufferSz /\ e.seen \in Nat
                      /\ e.drawn \in Seq(Nat) /\ \A i \in 1 .. Len(e.drawn) : e.drawn[i] \in 0 .. e.seen
    BY <1>2
  <2>1. Len(plan) \in Nat
    BY <1>2, PlanFacts
  <2>2. /\ e.item \in Nat /\ e.item <= Len(plan) /\ e.num \in 0 .. BufferSz /\ e.seen \in Nat
        /\ e.drawn \in Seq(Nat) /\ \A i \in 1 .. Len(e.drawn) : e.drawn[i] <= e.seen
    BY <1>2, PlaceFacts
  <2>3. \A i \in 1 .. Len(e.drawn) : e.drawn[i] \in Nat
    BY <2>2
  <2> QED
    BY <2>1, <2>2, <2>3
<1>5. \A p \in Parties :
        /\ item[p] \in 0 .. Len(plan) /\ num[p] \in 0 .. BufferSz /\ seen[p] \in Nat
        /\ drawn[p] \in Seq(Nat) /\ \A i \in 1 .. Len(drawn[p]) : drawn[p][i] \in 0 .. seen[p]
  BY <1>3, <1>4 DEF AliceAt, BobAt, CountsAt, At, Parties
<1>6. /\ tables[ALICE] \in Seq(TableType) /\ todo[ALICE] \in Seq(StepType)
      /\ Len(tables[ALICE]) = item[ALICE] /\ status[ALICE] \in Statuses
  BY <1>2, <1>3, PlaceFacts DEF AliceAt, CountsAt, At, Statuses
<1>7. /\ tables[BOB] \in Seq(TableType) /\ todo[BOB] \in Seq(StepType)
      /\ Len(tables[BOB]) \in {item[BOB], item[BOB] - 1} /\ status[BOB] \in Statuses
  BY <1>2, <1>3, BobsTables DEF BobAt, CountsAt, At
<1>8. /\ item \in [Parties -> 0 .. Len(plan)] /\ num \in [Parties -> 0 .. BufferSz]
      /\ seen \in [Parties -> Nat] /\ drawn \in [Parties -> Seq(Nat)]
  BY <1>5 DEF IndInv, Shape, OfParties
<1>9. /\ tables \in [Parties -> Seq(TableType)] /\ todo \in [Parties -> Seq(StepType)]
      /\ status \in [Parties -> Statuses]
  BY <1>6, <1>7 DEF IndInv, Shape, OfParties, Parties
<1> QED
  BY <1>5, <1>6, <1>7, <1>8, <1>9 DEF TypeOK, TableType, IndInv, Shape, Parties

(* What Bob expects is a message of the run, and if there is anything in   *)
(* flight then this message is the first.                                  *)
LEMMA BobExpects ==
  ASSUME NoBasicJoin, Shape, NEW a \in Nat, NEW b \in Nat, InStep(a, b),
         Expecting
  PROVE  /\ IsMsg(Run(plan)[b])
         /\ pipe # << >> => b < a /\ Head(pipe) = Head(Run(plan)[b].todo)
         /\ \/ todo[BOB] = Run(plan)[b].todo /\ ~Now(BOB, "count")
            \/ AwaitsCount(Run(plan)[b])
<1> DEFINE R == Run(plan)
<1>1. /\ \A n \in Nat : R[n] \in Places(plan) /\ R[n].seen \in Nat
      /\ plan \in Plans
  BY PlacesOfRun DEF Shape
<1>2. BobAt(R[b]) /\ seen[BOB] = R[b].seen /\ num[BOB] = R[b].num /\ seen[ALICE] = R[a].seen
  BY DEF InStep, BobAt, AliceAt, CountsAt, At
<1>3. /\ Len(pipe) + Len(outbuf) = R[a].seen - R[b].seen
      /\ \A k \in 0 .. (a - 1) :
           IsMsg(R[k]) /\ R[b].seen <= R[k].seen =>
             InFlight(R[k].seen - R[b].seen + 1) = Head(R[k].todo)
  BY <1>2 DEF InStep
<1>4. a <= b => R[a].seen <= R[b].seen
  BY <1>1, RunExtends DEF Extends
<1> HIDE DEF R
<1>5. \/ todo[BOB] = R[b].todo /\ tables[BOB] = R[b].tables /\ ~Now(BOB, "count")
      \/ AwaitsCount(R[b])
  BY <1>2 DEF BobAt, At, Now
<1>6. IsMsg(R[b])
  <2>1. CASE todo[BOB] = R[b].todo
    BY <1>2, <2>1 DEF Expecting, Now, BufferFull, IsMsg, Fills
  <2>2. CASE AwaitsCount(R[b])
    <3>1. PICK n \in Nat : R[b].todo = <<Step("count", n)>> \o Some("bits", n)
      BY <2>2 DEF AwaitsCount
    <3>2. R[b].todo # << >> /\ Head(R[b].todo) = Step("count", n)
      BY <3>1 DEF Some
    <3> QED
      BY <3>2 DEF IsMsg, Fills, Step, Messages
  <2> QED
    BY <1>5, <2>1, <2>2
<1>7. ASSUME pipe # << >> PROVE b < a /\ Head(pipe) = Head(R[b].todo)
  <2>1. Len(pipe) \in Nat /\ Len(pipe) >= 1 /\ Len(outbuf) \in Nat /\ Head(pipe) = pipe[1]
    BY <1>7 DEF Shape
  <2>2. b < a
    BY <1>1, <1>3, <1>4, <2>1
  <2>3. InFlight(R[b].seen - R[b].seen + 1) = Head(R[b].todo)
    BY <1>1, <1>3, <1>6, <2>2
  <2>4. R[b].seen - R[b].seen + 1 = 1
    BY <1>1
  <2> QED
    BY <2>1, <2>2, <2>3, <2>4 DEF InFlight
<1> QED
  BY <1>5, <1>6, <1>7 DEF R

LEMMA InvReads ==
  ASSUME NoBasicJoin, IndInv
  PROVE  ReadsWhatWasSent
<1>1. PICK a, b \in Nat : InStep(a, b)
  BY DEF IndInv, LockStep
<1>2. SUFFICES ASSUME Expecting, pipe # << >>
               PROVE  /\ Head(pipe).do = Due(BOB).do
                      /\ Due(BOB).do # "count" => Head(pipe).n = Due(BOB).n
  BY DEF ReadsWhatWasSent
<1> DEFINE d == Run(plan)[b]
<1>3. /\ Head(pipe) = Head(d.todo)
      /\ todo[BOB] = d.todo \/ AwaitsCount(d)
  BY <1>1, <1>2, BobExpects DEF IndInv
<1> HIDE DEF d
<1>4. CASE todo[BOB] = d.todo
  BY <1>3, <1>4 DEF Due
<1>5. CASE AwaitsCount(d)
  <2>1. PICK n \in Nat : /\ d.todo = <<Step("count", n)>> \o Some("bits", n)
                         /\ todo[BOB] = <<Step("count", 0)>>
    BY <1>5 DEF AwaitsCount
  <2>2. Head(d.todo).do = "count" /\ Head(todo[BOB]).do = "count"
    BY <2>1 DEF Some, Step
  <2> QED
    BY <1>3, <2>2 DEF Due
<1> QED
  BY <1>3, <1>4, <1>5

(* Of two places of the run one extends the other.                         *)
LEMMA OneExtends ==
  ASSUME NoBasicJoin, plan \in Plans, NEW a \in Nat, NEW b \in Nat
  PROVE  \/ Extends(Run(plan)[a], Run(plan)[b])
         \/ Extends(Run(plan)[b], Run(plan)[a])
<1>1. a <= b \/ b <= a
  OBVIOUS
<1> QED
  BY <1>1, RunExtends

LEMMA InvAgree ==
  ASSUME NoBasicJoin, IndInv
  PROVE  ChallengesAgree /\ TablesAgree
<1>1. PICK a, b \in Nat : InStep(a, b)
  BY DEF IndInv, LockStep
<1> DEFINE c == Run(plan)[a]
           d == Run(plan)[b]
<1>2. c \in Places(plan) /\ d \in Places(plan) /\ plan \in Plans
  BY PlacesOfRun DEF IndInv, Shape
<1>3. AliceAt(c) /\ BobAt(d)
  BY <1>1 DEF InStep
<1>4. Extends(c, d) \/ Extends(d, c)
  BY <1>2, OneExtends
<1> HIDE DEF c, d
<1>5. /\ Len(c.drawn) \in Nat /\ Len(d.drawn) \in Nat
      /\ Len(c.tables) \in Nat /\ Len(d.tables) \in Nat /\ Len(d.tables) = d.item
      /\ Even(c.tables)
  BY <1>2, PlaceFacts
<1>6. drawn[ALICE] = c.drawn /\ drawn[BOB] = d.drawn /\ tables[ALICE] = c.tables
  BY <1>3 DEF AliceAt, BobAt, CountsAt, At
<1>7. ChallengesAgree
  BY <1>4, <1>5, <1>6 DEF ChallengesAgree, Extends
<1>8. TablesAgree
  <2>1. /\ Len(tables[BOB]) \in {d.item, d.item - 1}
        /\ \A i \in 1 .. Len(tables[BOB]) : tables[BOB][i] = d.tables[i]
    BY <1>2, <1>3, BobsTables
  <2>2. \A i \in 1 .. Len(c.tables) : i <= Len(d.tables) => d.tables[i] = c.tables[i]
    BY <1>4, <1>5 DEF Extends
  <2> QED
    BY <1>5, <1>6, <2>1, <2>2 DEF TablesAgree, Even
<1> QED
  BY <1>7, <1>8

LEMMA InvAccepted ==
  ASSUME NoBasicJoin, IndInv
  PROVE  AcceptedIsComplete
<1>1. PICK a, b \in Nat : InStep(a, b)
  BY DEF IndInv, LockStep
<1> DEFINE c == Run(plan)[a]
           d == Run(plan)[b]
<1>2. c \in Places(plan) /\ d \in Places(plan) /\ plan \in Plans
  BY PlacesOfRun DEF IndInv, Shape
<1>3. /\ AliceAt(c) /\ BobAt(d)
      /\ Len(pipe) + Len(outbuf) = seen[ALICE] - seen[BOB]
  BY <1>1 DEF InStep
<1>4. Extends(c, d) \/ Extends(d, c)
  BY <1>2, OneExtends
<1> HIDE DEF c, d
<1>5. SUFFICES ASSUME status[BOB] = "done"
               PROVE  /\ Finished(ALICE) /\ status[ALICE] \in {"result", "teardown", "done"}
                      /\ num[ALICE] = 0 /\ num[BOB] = 0
                      /\ pipe = << >> /\ outbuf = << >>
  BY DEF AcceptedIsComplete
<1>6. d.status = "done"
  BY <1>3, <1>5 DEF BobAt, At
<1>7. /\ c.seen \in Nat /\ d.seen \in Nat /\ d.num = 0 /\ d.todo = << >>
      /\ c.status \in {"running", "result", "teardown", "done"}
      /\ c.status # "running" => c.item = Len(plan)
      /\ c.num \in Nat
  BY <1>2, <1>6, PlaceFacts
<1>8. Len(pipe) \in Nat /\ Len(outbuf) \in Nat /\ pipe \in Seq(Message) /\ outbuf \in Seq(Message)
  BY DEF IndInv, Shape
<1>9. Len(pipe) + Len(outbuf) = c.seen - d.seen
  BY <1>3 DEF AliceAt, BobAt, CountsAt, At
<1>10. ~Pending(d)
  BY <1>6, <1>7 DEF Pending
<1>11. c.seen = d.seen /\ ~Pending(c)
  <2>1. CASE Extends(c, d)
    BY <1>7, <1>8, <1>9, <1>10, <2>1 DEF Extends
  <2>2. CASE Extends(d, c)
    BY <1>6, <1>10, <2>2 DEF Extends
  <2> QED
    BY <1>4, <2>1, <2>2
<1>12. c.status # "running" /\ c.num = 0
  BY <1>11 DEF Pending
<1>13. Len(pipe) = 0 /\ Len(outbuf) = 0
  BY <1>7, <1>8, <1>9, <1>11
<1>14. pipe = << >> /\ outbuf = << >>
  BY <1>8, <1>13, EmptySeq
<1>15. num[ALICE] = 0 /\ num[BOB] = 0 /\ item[ALICE] = Len(plan)
  BY <1>3, <1>7, <1>12 DEF AliceAt, BobAt, CountsAt, At
<1>16. status[ALICE] = c.status
  BY <1>3, <1>12 DEF AliceAt, At
<1> QED
  BY <1>7, <1>12, <1>14, <1>15, <1>16 DEF Finished

-----------------------------------------------------------------------------
(* The invariant holds at the start.                                       *)

LEMMA InitInv ==
  ASSUME NoBasicJoin, Init
  PROVE  IndInv
<1>1. plan \in Plans /\ pipe = << >> /\ outbuf = << >>
  BY DEF Init
<1>2. Shape
  <2>1. Len(<< >>) = 0 /\ << >> \in Seq(Message) /\ 0 <= OutBuf /\ 0 <= Pipe
    BY Bounds
  <2> QED
    BY <2>1 DEF Init, Shape, OfParties
<1>3. Run(plan)[0] = Start
  BY <1>1, RunFacts
<1>4. AliceAt(Start) /\ BobAt(Start)
  BY DEF Init, AliceAt, BobAt, CountsAt, At, Start, Place, Parties
<1>5. InStep(0, 0)
  <2>1. Len(pipe) + Len(outbuf) = seen[ALICE] - seen[BOB]
    BY DEF Init, Parties
  <2>2. 0 .. (0 - 1) = {}
    OBVIOUS
  <2> QED
    BY <1>3, <1>4, <2>1, <2>2 DEF InStep
<1> QED
  BY <1>2, <1>5 DEF IndInv, LockStep

-----------------------------------------------------------------------------
(* Steps a party takes on its own.                                         *)

Same(p) ==
  /\ item'[p] = item[p] /\ todo'[p] = todo[p] /\ tables'[p] = tables[p]
  /\ num'[p] = num[p] /\ status'[p] = status[p]
  /\ seen'[p] = seen[p] /\ drawn'[p] = drawn[p]

Quiet == plan' = plan /\ seen' = seen /\ pipe' = pipe /\ outbuf' = outbuf

(* The status follows that of the run, unless the party has been stopped.  *)
Moves(p, c, d) ==
  /\ At(p, d)'
  /\ status'[p] = IF status[p] = c.status THEN d.status ELSE status[p]
  /\ \A q \in Parties \ {p} : Same(q)
  /\ Shape'

ScanDue(c) ==
  /\ c.todo = << >> /\ c.status = "running" /\ c.item < Len(plan)
  /\ plan[c.item + 1].kind = "Scan"

(* Each of these steps is the one that the run takes.                      *)
LEMMA BeginCallFollows ==
  ASSUME NoBasicJoin, Shape, NEW p \in Parties, NEW c \in Places(plan), At(p, c),
         status[p] \in {c.status, "cut off", "threw"}, BeginCall(p),
         ~(p = BOB /\ ScanDue(c))
  PROVE  Moves(p, c, Follow(plan, c)) /\ Quiet
<1> DEFINE k == c.item + 1
           call == plan[k]
<1>1. /\ c.item \in Nat /\ c.item <= Len(plan) /\ Len(plan) \in Nat
      /\ Len(c.tables) = c.item /\ c.tables \in Seq(TableType) /\ Even(c.tables)
  BY PlaceFacts, PlanFacts DEF Shape
<1>2. /\ item[p] = c.item /\ todo[p] = c.todo /\ tables[p] = c.tables
      /\ num[p] = c.num /\ seen[p] = c.seen /\ drawn[p] = c.drawn
  BY DEF At, CountsAt
<1>3. /\ c.todo = << >> /\ status[p] = "running" /\ c.status = "running" /\ c.item < Len(plan)
  BY <1>1, <1>2 DEF BeginCall, Idle, Finished
<1>4. k \in Nat /\ k \in 1 .. Len(plan) /\ call \in CallOver(k) /\ Len(c.tables) = k - 1
  BY <1>1, <1>3, PlanFacts DEF Shape
<1>5. StepsOf(p, c.tables, call) = StepsOf(ALICE, c.tables, call)
  <2>1. CASE p = ALICE
    BY <2>1
  <2>2. CASE p # ALICE
    <3>1. p = BOB /\ call.kind # "Scan"
      BY <1>3, <2>2 DEF Parties, ScanDue
    <3> QED
      BY <1>1, <1>4, <3>1, StepsAgree
  <2> QED
    BY <2>1, <2>2
<1>6. OutputOf(p, c.tables, call) = OutputOf(ALICE, c.tables, call)
  BY <1>1, <1>4, OutputEven
<1>7. ~(call.kind = "Scan" /\ p = BOB)
  BY <1>3 DEF ScanDue
<1>8. Follow(plan, c) = AfterCall(plan, c)
  BY <1>3 DEF Follow
<1> HIDE DEF k
<1>9. /\ todo' = [todo EXCEPT ![p] = StepsOf(ALICE, c.tables, call)]
      /\ tables' = [tables EXCEPT ![p] = Append(c.tables, OutputOf(ALICE, c.tables, call))]
      /\ item' = [item EXCEPT ![p] = c.item + 1]
      /\ UNCHANGED <<plan, num, status, outbuf, pipe, seen, drawn>>
  BY <1>2, <1>5, <1>6, <1>7 DEF BeginCall, k
<1>10. /\ OfParties(todo') /\ OfParties(tables') /\ OfParties(item')
       /\ todo'[p] = StepsOf(ALICE, c.tables, call)
       /\ tables'[p] = Append(c.tables, OutputOf(ALICE, c.tables, call))
       /\ item'[p] = c.item + 1
       /\ \A q \in Parties : q # p =>
            todo'[q] = todo[q] /\ tables'[q] = tables[q] /\ item'[q] = item[q]
  <2>1. OfParties(todo) /\ OfParties(tables) /\ OfParties(item)
    BY DEF Shape
  <2>2. /\ OfParties(todo') /\ todo'[p] = StepsOf(ALICE, c.tables, call)
        /\ \A q \in Parties : q # p => todo'[q] = todo[q]
    BY <1>9, <2>1 DEF OfParties
  <2>3. /\ OfParties(tables')
        /\ tables'[p] = Append(c.tables, OutputOf(ALICE, c.tables, call))
        /\ \A q \in Parties : q # p => tables'[q] = tables[q]
    BY <1>9, <2>1 DEF OfParties
  <2>4. /\ OfParties(item') /\ item'[p] = c.item + 1
        /\ \A q \in Parties : q # p => item'[q] = item[q]
    BY <1>9, <2>1 DEF OfParties
  <2> QED
    BY <2>2, <2>3, <2>4
<1>11. At(p, AfterCall(plan, c))' /\ AfterCall(plan, c).status = c.status
  BY <1>2, <1>9, <1>10 DEF At, CountsAt, AfterCall, Place, k
<1>12. Shape'
  BY <1>9, <1>10 DEF Shape, OfParties
<1> QED
  BY <1>3, <1>8, <1>9, <1>10, <1>11, <1>12 DEF Moves, Same, Quiet

LEMMA EndOfPlanFollows ==
  ASSUME NoBasicJoin, Shape, NEW p \in Parties, NEW c \in Places(plan), At(p, c),
         status[p] \in {c.status, "cut off", "threw"}, EndOfPlan(p)
  PROVE  Moves(p, c, Follow(plan, c)) /\ Quiet
<1>1. /\ item[p] = c.item /\ todo[p] = c.todo /\ tables[p] = c.tables
      /\ num[p] = c.num /\ seen[p] = c.seen /\ drawn[p] = c.drawn
  BY DEF At, CountsAt
<1>2. /\ c.item \in Nat /\ c.item <= Len(plan) /\ Len(plan) \in Nat
      /\ c.status \in {"running", "result", "teardown", "done"}
  BY PlaceFacts, PlanFacts DEF Shape
<1>3. c.todo = << >> /\ status[p] = c.status /\ c.status = "running" /\ ~(c.item < Len(plan))
  BY <1>1, <1>2 DEF EndOfPlan, Idle, Finished
<1>4. Follow(plan, c) = AfterPlan(c)
  BY <1>3 DEF Follow
<1>5. /\ todo' = [todo EXCEPT ![p] = Reveal] /\ status' = [status EXCEPT ![p] = "result"]
      /\ UNCHANGED <<plan, item, tables, num, outbuf, pipe, seen, drawn>>
  BY DEF EndOfPlan
<1>6. /\ OfParties(todo') /\ OfParties(status')
      /\ todo'[p] = Reveal /\ status'[p] = "result"
      /\ \A q \in Parties : q # p => todo'[q] = todo[q] /\ status'[q] = status[q]
  BY <1>5 DEF OfParties, Shape
<1>7. At(p, AfterPlan(c))' /\ AfterPlan(c).status = "result"
  BY <1>1, <1>5, <1>6 DEF At, CountsAt, AfterPlan, Place
<1>8. Shape'
  BY <1>5, <1>6 DEF Shape, OfParties
<1> QED
  BY <1>3, <1>4, <1>5, <1>6, <1>7, <1>8 DEF Moves, Same, Quiet

LEMMA StartTearDownFollows ==
  ASSUME NoBasicJoin, Shape, NEW p \in Parties, NEW c \in Places(plan), At(p, c),
         status[p] \in {c.status, "cut off", "threw"}, StartTearDown(p)
  PROVE  Moves(p, c, Follow(plan, c)) /\ Quiet
<1>1. /\ item[p] = c.item /\ todo[p] = c.todo /\ tables[p] = c.tables
      /\ num[p] = c.num /\ seen[p] = c.seen /\ drawn[p] = c.drawn
  BY DEF At, CountsAt
<1>2. /\ c.item \in Nat /\ c.item <= Len(plan) /\ Len(plan) \in Nat
      /\ c.status \in {"running", "result", "teardown", "done"}
  BY PlaceFacts, PlanFacts DEF Shape
<1>3. c.todo = << >> /\ status[p] = c.status /\ c.status = "result"
  BY <1>1, <1>2 DEF StartTearDown
<1>4. Follow(plan, c) = AfterResult(c)
  BY <1>3 DEF Follow
<1> DEFINE td == IF c.num = 0 THEN << >> ELSE BatchCheck
<1>5. TearDown(p) = td /\ (c.num # 0 => td # << >>)
  BY <1>1, BatchCheckPlain DEF TearDown
<1> HIDE DEF td
<1>6. /\ todo' = [todo EXCEPT ![p] = td] /\ status' = [status EXCEPT ![p] = "teardown"]
      /\ num' = [num EXCEPT ![p] = 0]
      /\ UNCHANGED <<plan, item, tables, outbuf, pipe, seen, drawn>>
  BY <1>1, <1>5 DEF StartTearDown
<1>7. /\ OfParties(todo') /\ OfParties(status') /\ OfParties(num')
      /\ todo'[p] = td /\ status'[p] = "teardown" /\ num'[p] = 0
      /\ \A q \in Parties : q # p =>
           todo'[q] = todo[q] /\ status'[q] = status[q] /\ num'[q] = num[q]
  BY <1>6 DEF OfParties, Shape
<1>8. At(p, AfterResult(c))' /\ AfterResult(c).status = "teardown"
  BY <1>1, <1>6, <1>7 DEF At, CountsAt, AfterResult, Place, td
<1>9. Shape'
  BY <1>6, <1>7 DEF Shape, OfParties
<1> QED
  BY <1>3, <1>4, <1>6, <1>7, <1>8, <1>9 DEF Moves, Same, Quiet

LEMMA CloseFollows ==
  ASSUME NoBasicJoin, Shape, NEW p \in Parties, NEW c \in Places(plan), At(p, c),
         status[p] \in {c.status, "cut off", "threw"}, Close(p)
  PROVE  Moves(p, c, Follow(plan, c)) /\ Quiet
<1>1. /\ item[p] = c.item /\ todo[p] = c.todo /\ tables[p] = c.tables
      /\ num[p] = c.num /\ seen[p] = c.seen /\ drawn[p] = c.drawn
  BY DEF At, CountsAt
<1>2. /\ c.item \in Nat /\ c.item <= Len(plan) /\ Len(plan) \in Nat
      /\ c.status \in {"running", "result", "teardown", "done"}
  BY PlaceFacts, PlanFacts DEF Shape
<1>3. c.todo = << >> /\ status[p] = c.status /\ c.status = "teardown"
  BY <1>1, <1>2 DEF Close
<1>4. Follow(plan, c) = AfterTearDown(c)
  BY <1>3 DEF Follow
<1>5. /\ status' = [status EXCEPT ![p] = "done"]
      /\ UNCHANGED <<plan, item, todo, tables, num, outbuf, pipe, seen, drawn>>
  BY DEF Close
<1>6. /\ OfParties(status') /\ status'[p] = "done"
      /\ \A q \in Parties : q # p => status'[q] = status[q]
  BY <1>5 DEF OfParties, Shape
<1>7. At(p, AfterTearDown(c))' /\ AfterTearDown(c).status = "done"
  BY <1>1, <1>5 DEF At, CountsAt, AfterTearDown, Place
<1>8. Shape'
  BY <1>5, <1>6 DEF Shape, OfParties
<1> QED
  BY <1>3, <1>4, <1>5, <1>6, <1>7, <1>8 DEF Moves, Same, Quiet

LEMMA CheckFullBufferFollows ==
  ASSUME NoBasicJoin, Shape, NEW p \in Parties, NEW c \in Places(plan), At(p, c),
         status[p] \in {c.status, "cut off", "threw"}, CheckFullBuffer(p)
  PROVE  Moves(p, c, Follow(plan, c)) /\ Quiet
<1>1. /\ item[p] = c.item /\ todo[p] = c.todo /\ tables[p] = c.tables
      /\ num[p] = c.num /\ seen[p] = c.seen /\ drawn[p] = c.drawn
  BY DEF At, CountsAt
<1>2. c.todo # << >> /\ Fills(c)
  BY <1>1 DEF CheckFullBuffer, BufferFull, Now, Fills
<1>3. Follow(plan, c) = AfterFull(c)
  BY <1>2 DEF Follow
<1> DEFINE td == BatchCheck \o c.todo
<1>4. /\ todo' = [todo EXCEPT ![p] = td] /\ num' = [num EXCEPT ![p] = 0]
      /\ UNCHANGED <<plan, item, tables, status, outbuf, pipe, seen, drawn>>
  BY <1>1 DEF CheckFullBuffer
<1> HIDE DEF td
<1>5. /\ OfParties(todo') /\ OfParties(num') /\ todo'[p] = td /\ num'[p] = 0
      /\ \A q \in Parties : q # p => todo'[q] = todo[q] /\ num'[q] = num[q]
  BY <1>4 DEF OfParties, Shape
<1>6. At(p, AfterFull(c))' /\ AfterFull(c).status = c.status
  BY <1>1, <1>4, <1>5 DEF At, CountsAt, AfterFull, Place, td
<1>7. Shape'
  BY <1>4, <1>5 DEF Shape, OfParties
<1> QED
  BY <1>3, <1>4, <1>5, <1>6, <1>7 DEF Moves, Same, Quiet

LEMMA DoFlushFollows ==
  ASSUME NoBasicJoin, Shape, NEW p \in Parties, NEW c \in Places(plan), At(p, c),
         status[p] \in {c.status, "cut off", "threw"}, DoFlush(p)
  PROVE  Moves(p, c, Follow(plan, c)) /\ Quiet
<1>1. /\ item[p] = c.item /\ todo[p] = c.todo /\ tables[p] = c.tables
      /\ num[p] = c.num /\ seen[p] = c.seen /\ drawn[p] = c.drawn
  BY DEF At, CountsAt
<1>2. c.todo # << >> /\ Head(c.todo).do = "flush" /\ ~Fills(c)
  BY <1>1 DEF DoFlush, Now, Fills
<1>3. Follow(plan, c) = AfterFlush(c)
  BY <1>2 DEF Follow
<1>4. /\ todo' = [todo EXCEPT ![p] = Tail(c.todo)]
      /\ UNCHANGED <<plan, item, tables, num, status, outbuf, pipe, seen, drawn>>
  BY <1>1 DEF DoFlush, Rest
<1>5. /\ OfParties(todo') /\ todo'[p] = Tail(c.todo)
      /\ \A q \in Parties : q # p => todo'[q] = todo[q]
  BY <1>4 DEF OfParties, Shape
<1>6. At(p, AfterFlush(c))' /\ AfterFlush(c).status = c.status
  BY <1>1, <1>4, <1>5 DEF At, CountsAt, AfterFlush, Place
<1>7. Shape'
  BY <1>4, <1>5 DEF Shape, OfParties
<1> QED
  BY <1>3, <1>4, <1>5, <1>6, <1>7 DEF Moves, Same, Quiet

LEMMA DrawChallengeFollows ==
  ASSUME NoBasicJoin, Shape, NEW p \in Parties, NEW c \in Places(plan), At(p, c),
         status[p] \in {c.status, "cut off", "threw"}, DrawChallenge(p)
  PROVE  Moves(p, c, Follow(plan, c)) /\ Quiet
<1>1. /\ item[p] = c.item /\ todo[p] = c.todo /\ tables[p] = c.tables
      /\ num[p] = c.num /\ seen[p] = c.seen /\ drawn[p] = c.drawn
  BY DEF At, CountsAt
<1>2. c.todo # << >> /\ Head(c.todo).do = "challenge" /\ ~Fills(c)
  BY <1>1 DEF DrawChallenge, Now, Fills
<1>3. Follow(plan, c) = AfterChallenge(c)
  BY <1>2 DEF Follow
<1>4. /\ todo' = [todo EXCEPT ![p] = Tail(c.todo)]
      /\ drawn' = [drawn EXCEPT ![p] = Append(c.drawn, c.seen)]
      /\ UNCHANGED <<plan, item, tables, num, status, outbuf, pipe, seen>>
  BY <1>1 DEF DrawChallenge, Rest
<1>5. /\ OfParties(todo') /\ OfParties(drawn')
      /\ todo'[p] = Tail(c.todo) /\ drawn'[p] = Append(c.drawn, c.seen)
      /\ \A q \in Parties : q # p => todo'[q] = todo[q] /\ drawn'[q] = drawn[q]
  BY <1>4 DEF OfParties, Shape
<1>6. At(p, AfterChallenge(c))' /\ AfterChallenge(c).status = c.status
  BY <1>1, <1>4, <1>5 DEF At, CountsAt, AfterChallenge, Place
<1>7. Shape'
  BY <1>4, <1>5 DEF Shape, OfParties
<1> QED
  BY <1>3, <1>4, <1>5, <1>6, <1>7 DEF Moves, Same, Quiet

LEMMA SharedFollows ==
  ASSUME NoBasicJoin, Shape, NEW p \in Parties, NEW c \in Places(plan), At(p, c),
         status[p] \in {c.status, "cut off", "threw"}, Shared(p),
         ~(p = BOB /\ ScanDue(c)), NEW d, d = Follow(plan, c)
  PROVE  Moves(p, c, d) /\ Quiet
<1>1. Moves(p, c, Follow(plan, c)) /\ Quiet
  BY BeginCallFollows, EndOfPlanFollows, StartTearDownFollows, CloseFollows,
     CheckFullBufferFollows, DoFlushFollows, DrawChallengeFollows DEF Shared
<1> QED
  BY <1>1 DEF Moves, Quiet, At, CountsAt

(* Only a scan puts a count at the head of the list.                       *)
LEMMA FollowPlain ==
  ASSUME NoBasicJoin, plan \in Plans, NEW c \in Places(plan), ~ScanDue(c)
  PROVE  Follow(plan, c).todo # << >> => Head(Follow(plan, c).todo).do # "count"
<1>1. SUFFICES Follow(plan, c).todo \in Seq(PlainStep)
  <2>1. \A s \in Seq(PlainStep) : s # << >> => Head(s) \in PlainStep
    BY HeadTailProperties
  <2>2. \A x \in PlainStep : x.do # "count"
    BY DEF PlainStep
  <2> QED
    BY <2>1, <2>2
<1>2. CASE c.todo = << >>
  <2>1. CASE c.status = "running" /\ c.item < Len(plan)
    <3> DEFINE k == c.item + 1
    <3>1. /\ k \in Nat /\ k \in 1 .. Len(plan) /\ plan[k] \in CallOver(k)
          /\ c.tables \in Seq(TableType) /\ Len(c.tables) = k - 1 /\ Even(c.tables)
      BY <2>1, PlaceFacts, PlanFacts
    <3>2. plan[k].kind # "Scan"
      BY <1>2, <2>1 DEF ScanDue
    <3>3. StepsOf(ALICE, c.tables, plan[k]) \in Seq(PlainStep)
      BY <3>1, <3>2, StepsAgree
    <3> QED
      BY <1>2, <2>1, <3>3 DEF Follow, AfterCall, Place
  <2>2. CASE ~(c.status = "running" /\ c.item < Len(plan))
    BY <1>2, <2>2, PartsPlain, BatchCheckPlain
    DEF Follow, AfterPlan, AfterResult, AfterTearDown, Place
  <2> QED
    BY <2>1, <2>2
<1>3. CASE c.todo # << >>
  <2>1. CASE Fills(c)
    <3> DEFINE bc == BatchCheck
    <3>1. Follow(plan, c).todo = bc \o c.todo
      BY <1>3, <2>1 DEF Follow, AfterFull, Place
    <3>2. c.todo \in Seq(StepType) /\ Tail(c.todo) \in Seq(PlainStep) /\ Head(c.todo) \in PlainStep
      BY <1>3, <2>1, PlaceFacts DEF Fills, StepType, PlainStep, Messages
    <3>3. c.todo = <<Head(c.todo)>> \o Tail(c.todo)
      BY <1>3, <3>2
    <3>4. <<Head(c.todo)>> \in Seq(PlainStep)
      BY <3>2
    <3>5. c.todo \in Seq(PlainStep)
      BY <3>2, <3>3, <3>4, ConcatPlain
    <3> HIDE DEF bc
    <3> QED
      BY <3>1, <3>5, BatchCheckPlain, ConcatPlain DEF bc
  <2>2. CASE ~Fills(c)
    BY <1>3, <2>2, PlaceFacts DEF Follow, AfterFlush, AfterChallenge, AfterMsg, Place
  <2> QED
    BY <2>1, <2>2
<1> QED
  BY <1>2, <1>3

-----------------------------------------------------------------------------
(* Each step keeps the parties in step.                                    *)

(* LockStep after a step that leaves the plan, R being the run of it.      *)
LEMMA LockStepNext ==
  ASSUME NEW R, R = Run(plan), plan' = plan, NEW a \in Nat, NEW b \in Nat,
         AliceAt(R[a])', BobAt(R[b])',
         Len(pipe') + Len(outbuf') = seen'[ALICE] - seen'[BOB],
         \A k \in 0 .. (a - 1) :
           IsMsg(R[k]) /\ seen'[BOB] <= R[k].seen =>
             InFlight(R[k].seen - seen[BOB] + 1)' = Head(R[k].todo)
  PROVE  LockStep'
<1>1. R = Run(plan')
  OBVIOUS
<1>2. AliceAt(Run(plan)[a])'
  BY <1>1 DEF AliceAt, At, CountsAt
<1>3. BobAt(Run(plan)[b])'
  BY <1>1 DEF BobAt, At, CountsAt, AwaitsCount
<1>4. InStep(a, b)'
  BY <1>1, <1>2, <1>3 DEF InStep, InFlight
<1> QED
  BY <1>4 DEF LockStep

LEMMA SameAt ==
  /\ Same(ALICE) => \A c : AliceAt(c) => AliceAt(c)'
  /\ Same(BOB) => \A c : BobAt(c) => BobAt(c)'
BY DEF Same, AliceAt, BobAt, At, CountsAt, AwaitsCount

(* What the run R says of a state in step at a and b.                      *)
LEMMA InStepFacts ==
  ASSUME NoBasicJoin, Shape, NEW R, R = Run(plan), NEW a \in Nat, NEW b \in Nat, InStep(a, b)
  PROVE  /\ plan \in Plans
         /\ \A n \in Nat : /\ R[n] \in Places(plan) /\ R[n].seen \in Nat
                           /\ R[n + 1] = Follow(plan, R[n])
         /\ AliceAt(R[a]) /\ BobAt(R[b])
         /\ seen[ALICE] = R[a].seen /\ seen[BOB] = R[b].seen
         /\ Len(pipe) \in Nat /\ Len(outbuf) \in Nat
         /\ Len(pipe) + Len(outbuf) = R[a].seen - R[b].seen
         /\ \A k \in 0 .. (a - 1) :
              IsMsg(R[k]) =>
                /\ R[k].seen < R[a].seen /\ R[k].seen \in Nat
                /\ R[b].seen <= R[k].seen =>
                     InFlight(R[k].seen - R[b].seen + 1) = Head(R[k].todo)
<1>1. plan \in Plans /\ Len(pipe) \in Nat /\ Len(outbuf) \in Nat
  BY DEF Shape
<1>2. \A n \in Nat : /\ R[n] \in Places(plan) /\ R[n].seen \in Nat
                     /\ R[n + 1] = Follow(plan, R[n])
  BY <1>1, PlacesOfRun
<1>3. AliceAt(R[a]) /\ BobAt(R[b])
  BY DEF InStep
<1>4. seen[ALICE] = R[a].seen /\ seen[BOB] = R[b].seen
  BY <1>3 DEF AliceAt, BobAt, At, CountsAt
<1>5. \A k \in 0 .. (a - 1) : IsMsg(R[k]) => R[k].seen < R[a].seen
  BY <1>1, RunMsg
<1>7. \A k \in 0 .. (a - 1) : R[k].seen \in Nat
  BY <1>2
<1>6. /\ Len(pipe) + Len(outbuf) = R[a].seen - R[b].seen
      /\ \A k \in 0 .. (a - 1) :
           IsMsg(R[k]) /\ R[b].seen <= R[k].seen =>
             InFlight(R[k].seen - R[b].seen + 1) = Head(R[k].todo)
  BY <1>4 DEF InStep
<1> QED
  BY <1>1, <1>2, <1>3, <1>4, <1>5, <1>6, <1>7

LEMMA AliceShared ==
  ASSUME NoBasicJoin, Shape, NEW R, R = Run(plan), NEW a \in Nat, NEW b \in Nat,
         InStep(a, b), Shared(ALICE)
  PROVE  Shape' /\ LockStep'
<1> DEFINE c == R[a]
           d == R[a + 1]
<1>1. /\ plan \in Plans /\ c \in Places(plan) /\ AliceAt(c) /\ BobAt(R[b]) /\ d = Follow(plan, c)
      /\ seen[ALICE] = R[a].seen /\ seen[BOB] = R[b].seen
      /\ Len(pipe) + Len(outbuf) = R[a].seen - R[b].seen
      /\ \A k \in 0 .. (a - 1) :
           IsMsg(R[k]) /\ R[b].seen <= R[k].seen =>
             InFlight(R[k].seen - R[b].seen + 1) = Head(R[k].todo)
  BY InStepFacts
<1> HIDE DEF c, d
<1>2. status[ALICE] \in {c.status, "cut off", "threw"} /\ At(ALICE, c) /\ ALICE \in Parties
  BY <1>1 DEF AliceAt, Parties
<1>3. ~(ALICE = BOB /\ ScanDue(c))
  BY DEF ALICE, BOB
<1>4. Moves(ALICE, c, d) /\ Quiet
  BY <1>1, <1>2, <1>3, SharedFollows
<1>5. /\ At(ALICE, d)' /\ Same(BOB) /\ Shape'
      /\ status'[ALICE] = IF status[ALICE] = c.status THEN d.status ELSE status[ALICE]
      /\ plan' = plan /\ seen' = seen /\ pipe' = pipe /\ outbuf' = outbuf
  BY <1>4 DEF Moves, Quiet, Parties, ALICE, BOB
<1>6. status[ALICE] = c.status
  <2>1. SUFFICES ASSUME status[ALICE] = "threw", todo[ALICE] = << >> PROVE FALSE
    BY <1>1, <1>2 DEF AliceAt, At
  <2> QED
    BY <2>1 DEF Shared, BeginCall, EndOfPlan, StartTearDown, Close, CheckFullBuffer,
       BufferFull, DoFlush, DrawChallenge, Now, Idle
<1>7. AliceAt(d)'
  BY <1>5, <1>6 DEF AliceAt
<1>8. AliceAt(R[a + 1])' /\ BobAt(R[b])'
  BY <1>1, <1>5, <1>7, SameAt DEF d
<1>9. ~IsMsg(c)
  <2>1. d.seen = c.seen
    BY <1>2, <1>5 DEF At, CountsAt
  <2>2. c.seen \in Nat
    BY <1>1, PlaceFacts
  <2> QED
    BY <1>1, <2>1, <2>2, FollowMsg
<1>10. \A k \in 0 .. ((a + 1) - 1) :
         IsMsg(R[k]) /\ seen'[BOB] <= R[k].seen =>
           InFlight(R[k].seen - seen[BOB] + 1)' = Head(R[k].todo)
  <2> SUFFICES ASSUME NEW k \in 0 .. ((a + 1) - 1), IsMsg(R[k]), R[b].seen <= R[k].seen
               PROVE  InFlight(R[k].seen - seen[BOB] + 1)' = Head(R[k].todo)
    BY <1>1, <1>5
  <2>1. k \in 0 .. (a - 1)
    BY <1>9 DEF c
  <2>2. InFlight(R[k].seen - R[b].seen + 1) = Head(R[k].todo)
    BY <1>1, <2>1
  <2> QED
    BY <1>1, <1>5, <2>2 DEF InFlight
<1>11. Len(pipe') + Len(outbuf') = seen'[ALICE] - seen'[BOB]
  BY <1>1, <1>5
<1>12. LockStep'
  BY <1>5, <1>8, <1>10, <1>11, LockStepNext
<1> QED
  BY <1>5, <1>12

LEMMA BobShared ==
  ASSUME NoBasicJoin, Shape, NEW R, R = Run(plan), NEW a \in Nat, NEW b \in Nat,
         InStep(a, b), Shared(BOB)
  PROVE  Shape' /\ LockStep'
<1> DEFINE c == R[a]
           d == R[b]
           e == R[b + 1]
<1>1. /\ plan \in Plans /\ c \in Places(plan) /\ d \in Places(plan) /\ AliceAt(c) /\ BobAt(d)
      /\ R[a + 1] = Follow(plan, c) /\ e = Follow(plan, d)
      /\ seen[ALICE] = c.seen /\ seen[BOB] = d.seen /\ c.seen \in Nat /\ d.seen \in Nat
      /\ Len(pipe) \in Nat /\ Len(outbuf) \in Nat
      /\ Len(pipe) + Len(outbuf) = c.seen - d.seen
      /\ \A k \in 0 .. (a - 1) :
           IsMsg(R[k]) =>
             /\ R[k].seen < c.seen /\ R[k].seen \in Nat
             /\ d.seen <= R[k].seen =>
                  InFlight(R[k].seen - d.seen + 1) = Head(R[k].todo)
  BY InStepFacts
<1> HIDE DEF c, d, e
<1>2. status[BOB] \in {d.status, "cut off", "threw"} /\ BOB \in Parties
  BY <1>1 DEF BobAt, Parties
<1>3. At(BOB, d)
  <2>1. SUFFICES ASSUME AwaitsCount(d) PROVE FALSE
    BY <1>1 DEF BobAt
  <2>2. todo[BOB] # << >> /\ Head(todo[BOB]).do = "count"
    BY <2>1 DEF AwaitsCount, Step
  <2> QED
    BY <2>2 DEF Shared, BeginCall, EndOfPlan, StartTearDown, Close, CheckFullBuffer,
       BufferFull, DoFlush, DrawChallenge, Now, Idle
<1>4. /\ BobAt(e)' /\ Same(ALICE) /\ Shape' /\ Quiet
  <2>1. CASE ~ScanDue(d)
    <3>1. Moves(BOB, d, e) /\ Quiet
      BY <1>1, <1>2, <1>3, <2>1, SharedFollows
    <3>2. e.todo # << >> => Head(e.todo).do # "count"
      BY <1>1, <2>1, FollowPlain
    <3>3. status[BOB] = d.status \/ status[BOB] = "cut off"
      BY <1>1 DEF BobAt
    <3>4. At(BOB, e)' /\ Same(ALICE) /\ Shape' /\ status'[BOB] = IF status[BOB] = d.status THEN e.status ELSE status[BOB]
      BY <3>1 DEF Moves, Parties, ALICE, BOB
    <3> QED
      BY <3>1, <3>2, <3>3, <3>4 DEF BobAt, At
  <2>2. CASE ScanDue(d)
    <3> DEFINE k == d.item + 1
               call == plan[k]
               n == call.rows
    <3>1. /\ k \in Nat /\ k \in 1 .. Len(plan) /\ call \in CallOver(k) /\ call.kind = "Scan"
          /\ d.tables \in Seq(TableType) /\ Even(d.tables) /\ Len(d.tables) = k - 1
          /\ d.todo = << >> /\ d.status = "running"
      <4>1. d.item \in Nat /\ Len(d.tables) = d.item /\ d.tables \in Seq(TableType) /\ Even(d.tables)
        BY <1>1, PlaceFacts
      <4>2. Len(plan) \in Nat /\ d.item < Len(plan) /\ call.kind = "Scan" /\ d.todo = << >> /\ d.status = "running"
        BY <1>1, <2>2, PlanFacts DEF ScanDue
      <4>3. k \in 1 .. Len(plan)
        BY <4>1, <4>2
      <4> QED
        BY <1>1, <4>1, <4>2, <4>3, PlanFacts, SMTT(30)
    <3>2. n \in Nat
      BY <3>1, CallFacts
    <3>3. /\ item[BOB] = d.item /\ todo[BOB] = << >> /\ tables[BOB] = d.tables
          /\ num[BOB] = d.num /\ seen[BOB] = d.seen /\ drawn[BOB] = d.drawn
      BY <1>3, <3>1 DEF At, CountsAt
    <3>4. d.item # Len(plan)
      BY <3>1, PlanFacts, <1>1
    <3>5. BeginCall(BOB)
      <4>1. status[BOB] # "result" /\ status[BOB] # "teardown" /\ todo[BOB] = << >> /\ item[BOB] # Len(plan)
        BY <1>2, <3>1, <3>3, <3>4
      <4> QED
      BY <4>1 DEF Shared, EndOfPlan, StartTearDown, Close, CheckFullBuffer,
         BufferFull, DoFlush, DrawChallenge, Now, Idle, Finished, ScanDue
    <3>6. e = AfterCall(plan, d)
      BY <1>1, <2>2 DEF Follow, ScanDue
    <3>7. StepsOf(BOB, d.tables, call) = <<Step("count", 0)>>
      <4>1. StepsOf(BOB, d.tables, call) = ScanSteps(BOB, n)
        BY <3>1 DEF StepsOf
      <4> QED
        BY <4>1 DEF ScanSteps, ALICE, BOB
    <3>8. StepsOf(ALICE, d.tables, call) = <<Step("count", n)>> \o Some("bits", n)
      BY <3>1, CallSteps
    <3>9. OutputOf(ALICE, d.tables, call) = Table(n, n)
      BY <3>1 DEF OutputOf
    <3> HIDE DEF k
    <3>10. /\ item' = [item EXCEPT ![BOB] = d.item + 1]
           /\ todo' = [todo EXCEPT ![BOB] = <<Step("count", 0)>>]
           /\ UNCHANGED <<plan, tables, num, status, outbuf, pipe, seen, drawn>>
      BY <3>1, <3>3, <3>5, <3>7 DEF BeginCall, k
    <3>11. /\ OfParties(item') /\ OfParties(todo')
           /\ item'[BOB] = d.item + 1 /\ todo'[BOB] = <<Step("count", 0)>>
           /\ item'[ALICE] = item[ALICE] /\ todo'[ALICE] = todo[ALICE]
      BY <3>10 DEF OfParties, Shape, Parties, ALICE, BOB
    <3>12. Same(ALICE) /\ Quiet
      BY <3>10, <3>11 DEF Same, Quiet
    <3>13. Shape'
      BY <3>10, <3>11 DEF Shape, OfParties
    <3>14. /\ e.item = d.item + 1 /\ e.num = d.num /\ e.seen = d.seen /\ e.drawn = d.drawn
           /\ e.status = d.status /\ e.todo = <<Step("count", n)>> \o Some("bits", n)
           /\ e.tables = Append(d.tables, Table(n, n))
      BY <3>6, <3>8, <3>9 DEF AfterCall, Place, k
    <3> HIDE DEF n
    <3>15. CountsAt(BOB, e)'
      BY <3>3, <3>10, <3>11, <3>14 DEF CountsAt
    <3>16. tables'[BOB] = d.tables
      BY <3>3, <3>10
    <3>17. AwaitsCount(e)'
      BY <3>1, <3>2, <3>11, <3>14, <3>16 DEF AwaitsCount
    <3>18. status'[BOB] = e.status \/ status'[BOB] = "cut off"
      BY <1>1, <3>10, <3>14 DEF BobAt
    <3>19. BobAt(e)'
      BY <3>15, <3>17, <3>18 DEF BobAt
    <3> QED
      BY <3>12, <3>13, <3>19
  <2> QED
    BY <2>1, <2>2
<1>5. AliceAt(R[a])' /\ BobAt(R[b + 1])'
  BY <1>1, <1>4, SameAt DEF c, e
<1>6. \A k \in 0 .. (a - 1) :
         IsMsg(R[k]) /\ seen'[BOB] <= R[k].seen =>
           InFlight(R[k].seen - seen[BOB] + 1)' = Head(R[k].todo)
  BY <1>1, <1>4 DEF InFlight, Quiet
<1>7. Len(pipe') + Len(outbuf') = seen'[ALICE] - seen'[BOB] /\ plan' = plan /\ b + 1 \in Nat
  BY <1>1, <1>4 DEF Quiet
<1>8. LockStep'
  BY <1>5, <1>6, <1>7, LockStepNext
<1> QED
  BY <1>4, <1>8

(* Alice throws, Bob is cut off: both stay where they are.                 *)
LEMMA StopsInStep ==
  ASSUME NoBasicJoin, Shape, NEW R, R = Run(plan), NEW a \in Nat, NEW b \in Nat,
         InStep(a, b), EmptyInput \/ CutOff
  PROVE  Shape' /\ LockStep'
<1> DEFINE c == R[a]
           d == R[b]
<1>1. /\ plan \in Plans /\ c \in Places(plan) /\ d \in Places(plan) /\ AliceAt(c) /\ BobAt(d)
      /\ R[a + 1] = Follow(plan, c) /\ R[b + 1] = Follow(plan, d)
      /\ seen[ALICE] = c.seen /\ seen[BOB] = d.seen /\ c.seen \in Nat /\ d.seen \in Nat
      /\ Len(pipe) \in Nat /\ Len(outbuf) \in Nat
      /\ Len(pipe) + Len(outbuf) = c.seen - d.seen
      /\ \A k \in 0 .. (a - 1) :
           IsMsg(R[k]) =>
             /\ R[k].seen < c.seen /\ R[k].seen \in Nat
             /\ d.seen <= R[k].seen =>
                  InFlight(R[k].seen - d.seen + 1) = Head(R[k].todo)
  BY InStepFacts
<1> HIDE DEF c, d
<1>2. /\ UNCHANGED <<plan, item, todo, tables, num, outbuf, pipe, seen, drawn>>
      /\ Shape' /\ AliceAt(c)' /\ BobAt(d)'
  <2>1. CASE EmptyInput
    <3>1. /\ status' = [status EXCEPT ![ALICE] = "threw"]
          /\ UNCHANGED <<plan, item, todo, tables, num, outbuf, pipe, seen, drawn>>
          /\ status[ALICE] = "running" /\ todo[ALICE] = << >>
      BY <2>1 DEF EmptyInput, Idle
    <3>2. OfParties(status') /\ status'[ALICE] = "threw" /\ status'[BOB] = status[BOB]
      BY <3>1 DEF OfParties, Shape, Parties, ALICE, BOB
    <3>3. Shape'
      BY <3>1, <3>2 DEF Shape, OfParties
    <3>4. c.status = "running" /\ c.todo = << >>
      BY <1>1, <3>1 DEF AliceAt, At
    <3>5. AliceAt(c)' /\ BobAt(d)'
      BY <1>1, <3>1, <3>2, <3>4 DEF AliceAt, BobAt, At, CountsAt, AwaitsCount
    <3> QED
      BY <3>1, <3>3, <3>5
  <2>2. CASE CutOff
    <3>1. /\ status' = [status EXCEPT ![BOB] = "cut off"]
          /\ UNCHANGED <<plan, item, todo, tables, num, outbuf, pipe, seen, drawn>>
      BY <2>2 DEF CutOff
    <3>2. OfParties(status') /\ status'[BOB] = "cut off" /\ status'[ALICE] = status[ALICE]
      BY <3>1 DEF OfParties, Shape, Parties, ALICE, BOB
    <3>3. Shape'
      BY <3>1, <3>2 DEF Shape, OfParties
    <3>4. AliceAt(c)' /\ BobAt(d)'
      BY <1>1, <3>1, <3>2 DEF AliceAt, BobAt, At, CountsAt, AwaitsCount
    <3> QED
      BY <3>1, <3>3, <3>4
  <2> QED
    BY <2>1, <2>2
<1>3. \A k \in 0 .. (a - 1) :
         IsMsg(R[k]) /\ seen'[BOB] <= R[k].seen =>
           InFlight(R[k].seen - seen[BOB] + 1)' = Head(R[k].todo)
  BY <1>1, <1>2 DEF InFlight
<1>4. Len(pipe') + Len(outbuf') = seen'[ALICE] - seen'[BOB] /\ plan' = plan
  BY <1>1, <1>2
<1>5. AliceAt(R[a])' /\ BobAt(R[b])'
  BY <1>2 DEF c, d
<1>6. LockStep'
  BY <1>3, <1>4, <1>5, LockStepNext
<1> QED
  BY <1>2, <1>6

LEMMA WriteInStep ==
  ASSUME NoBasicJoin, Shape, NEW R, R = Run(plan), NEW a \in Nat, NEW b \in Nat,
         InStep(a, b), Write
  PROVE  Shape' /\ LockStep'
<1> DEFINE c == R[a]
           d == R[b]
<1>1. /\ plan \in Plans /\ c \in Places(plan) /\ d \in Places(plan) /\ AliceAt(c) /\ BobAt(d)
      /\ R[a + 1] = Follow(plan, c) /\ R[b + 1] = Follow(plan, d)
      /\ seen[ALICE] = c.seen /\ seen[BOB] = d.seen /\ c.seen \in Nat /\ d.seen \in Nat
      /\ Len(pipe) \in Nat /\ Len(outbuf) \in Nat
      /\ Len(pipe) + Len(outbuf) = c.seen - d.seen
      /\ \A k \in 0 .. (a - 1) :
           IsMsg(R[k]) =>
             /\ R[k].seen < c.seen /\ R[k].seen \in Nat
             /\ d.seen <= R[k].seen =>
                  InFlight(R[k].seen - d.seen + 1) = Head(R[k].todo)
  BY InStepFacts
<1> HIDE DEF c, d
<1>2. /\ outbuf # << >> /\ Len(pipe) < Pipe /\ pipe' = Append(pipe, Head(outbuf))
      /\ outbuf' = Tail(outbuf) /\ UNCHANGED <<plan, partyVars>>
      /\ pipe \in Seq(Message) /\ outbuf \in Seq(Message) /\ Len(outbuf) <= OutBuf
  BY DEF Write, Shape
<1>3. UNCHANGED <<plan, item, todo, tables, num, status, seen, drawn>>
  BY <1>2 DEF partyVars
<1>4. /\ pipe' \in Seq(Message) /\ Len(pipe') = Len(pipe) + 1
      /\ \A i \in 1 .. Len(pipe) : pipe'[i] = pipe[i]
      /\ pipe'[Len(pipe) + 1] = outbuf[1]
      /\ outbuf' \in Seq(Message) /\ Len(outbuf') = Len(outbuf) - 1
      /\ \A i \in 1 .. (Len(outbuf) - 1) : outbuf'[i] = outbuf[i + 1]
  BY <1>2
<1>5. Shape'
  BY <1>1, <1>2, <1>3, <1>4, Bounds, SMTT(30) DEF Shape, OfParties
<1>6. AliceAt(R[a])' /\ BobAt(R[b])'
  BY <1>1, <1>3 DEF AliceAt, BobAt, At, CountsAt, AwaitsCount, c, d
<1>7. \A i \in 1 .. (Len(pipe) + Len(outbuf)) : InFlight(i)' = InFlight(i)
  <2> SUFFICES ASSUME NEW i \in 1 .. (Len(pipe) + Len(outbuf)) PROVE InFlight(i)' = InFlight(i)
    OBVIOUS
  <2>1. CASE i <= Len(pipe)
    BY <1>1, <1>4, <2>1 DEF InFlight
  <2>2. CASE i = Len(pipe) + 1
    BY <1>1, <1>4, <2>2 DEF InFlight
  <2>3. CASE i > Len(pipe) + 1
    <3>1. i - Len(pipe) - 1 \in 1 .. (Len(outbuf) - 1)
      BY <1>1, <2>3
    <3>2. outbuf'[i - Len(pipe) - 1] = outbuf[i - Len(pipe)]
      <4> DEFINE j == i - Len(pipe) - 1
      <4>1. j \in 1 .. (Len(outbuf) - 1) /\ j + 1 = i - Len(pipe)
        BY <1>1, <3>1
      <4> HIDE DEF j
      <4>2. outbuf'[j] = outbuf[j + 1]
        BY <1>4, <4>1
      <4> QED
        BY <4>1, <4>2 DEF j
    <3> QED
      BY <1>1, <1>4, <2>3, <3>2 DEF InFlight
  <2> QED
    BY <1>1, <2>1, <2>2, <2>3
<1>8. \A k \in 0 .. (a - 1) :
         IsMsg(R[k]) /\ seen'[BOB] <= R[k].seen =>
           InFlight(R[k].seen - seen[BOB] + 1)' = Head(R[k].todo)
  <2> SUFFICES ASSUME NEW k \in 0 .. (a - 1), IsMsg(R[k]), d.seen <= R[k].seen
               PROVE  InFlight(R[k].seen - seen[BOB] + 1)' = Head(R[k].todo)
    BY <1>1, <1>3
  <2> DEFINE i == R[k].seen - d.seen + 1
  <2>0. R[k].seen \in Nat /\ R[k].seen < c.seen /\ InFlight(i) = Head(R[k].todo)
    BY <1>1
  <2>1. i \in 1 .. (Len(pipe) + Len(outbuf)) /\ InFlight(i) = Head(R[k].todo)
    <3>1. i \in Nat /\ 1 <= i /\ i <= c.seen - d.seen
      BY <1>1, <2>0
    <3> QED
      BY <1>1, <2>0, <3>1
  <2>2. R[k].seen - seen'[BOB] + 1 = i
    BY <1>1, <1>3
  <2> HIDE DEF i
  <2>3. InFlight(i)' = Head(R[k].todo)
    BY <1>7, <2>1
  <2> QED
    BY <2>2, <2>3 DEF InFlight
<1>9. Len(pipe') + Len(outbuf') = seen'[ALICE] - seen'[BOB] /\ plan' = plan
  BY <1>1, <1>3, <1>4
<1>10. LockStep'
  BY <1>6, <1>8, <1>9, LockStepNext
<1> QED
  BY <1>5, <1>10

LEMMA SendInStep ==
  ASSUME NoBasicJoin, Shape, NEW R, R = Run(plan), NEW a \in Nat, NEW b \in Nat,
         InStep(a, b), Send
  PROVE  Shape' /\ LockStep'
<1> DEFINE c == R[a]
           d == R[b]
<1>1. /\ plan \in Plans /\ c \in Places(plan) /\ d \in Places(plan) /\ AliceAt(c) /\ BobAt(d)
      /\ R[a + 1] = Follow(plan, c) /\ R[b + 1] = Follow(plan, d)
      /\ seen[ALICE] = c.seen /\ seen[BOB] = d.seen /\ c.seen \in Nat /\ d.seen \in Nat
      /\ Len(pipe) \in Nat /\ Len(outbuf) \in Nat
      /\ Len(pipe) + Len(outbuf) = c.seen - d.seen
      /\ \A k \in 0 .. (a - 1) :
           IsMsg(R[k]) =>
             /\ R[k].seen < c.seen /\ R[k].seen \in Nat
             /\ d.seen <= R[k].seen =>
                  InFlight(R[k].seen - d.seen + 1) = Head(R[k].todo)
  BY InStepFacts
<1> HIDE DEF c, d
<1>2. /\ todo[ALICE] # << >> /\ Head(todo[ALICE]).do \in Messages /\ ~BufferFull(ALICE)
      /\ item[ALICE] = c.item /\ todo[ALICE] = c.todo /\ tables[ALICE] = c.tables
      /\ num[ALICE] = c.num /\ drawn[ALICE] = c.drawn /\ status[ALICE] = c.status
  BY <1>1 DEF Send, Now, AliceAt, At, CountsAt
<1>3. IsMsg(c)
  BY <1>2 DEF IsMsg, Fills, BufferFull, Now
<1> DEFINE e == R[a + 1]
           n == IF Head(c.todo).do = "product" THEN c.num + 1 ELSE c.num
           x == Head(c.todo)
<1>4. e = AfterMsg(c)
  BY <1>1, <1>3, FollowMsg
<1>5. x \in Message
  BY <1>1, <1>2, PlaceFacts DEF Message, StepType
<1> HIDE DEF e
<1>6. /\ e.item = c.item /\ e.todo = Tail(c.todo) /\ e.num = n /\ e.tables = c.tables
      /\ e.status = c.status /\ e.seen = c.seen + 1 /\ e.drawn = c.drawn
  BY <1>4 DEF AfterMsg, Place
<1> HIDE DEF n, x
<1>7. /\ outbuf' = Append(outbuf, x) /\ seen' = [seen EXCEPT ![ALICE] = c.seen + 1]
      /\ todo' = [todo EXCEPT ![ALICE] = Tail(c.todo)] /\ Len(outbuf) < OutBuf
      /\ UNCHANGED <<plan, item, tables, status, pipe, drawn>>
  BY <1>1, <1>2 DEF Send, Due, Rest, x
<1>8. num' = Buffered(ALICE)
  BY DEF Send
<1>9. OfParties(num') /\ num'[ALICE] = n /\ num'[BOB] = num[BOB]
  BY <1>2, <1>8 DEF Buffered, Now, n, OfParties, Shape, Parties, ALICE, BOB
<1>10. /\ OfParties(seen') /\ OfParties(todo')
       /\ seen'[ALICE] = c.seen + 1 /\ todo'[ALICE] = Tail(c.todo)
       /\ seen'[BOB] = seen[BOB] /\ todo'[BOB] = todo[BOB]
  BY <1>7 DEF OfParties, Shape, Parties, ALICE, BOB
<1>11. /\ outbuf' \in Seq(Message) /\ Len(outbuf') = Len(outbuf) + 1
       /\ \A i \in 1 .. Len(outbuf) : outbuf'[i] = outbuf[i]
       /\ outbuf'[Len(outbuf) + 1] = x
  BY <1>5, <1>7, AppendProperties DEF Shape
<1>12. Shape'
  BY <1>1, <1>7, <1>9, <1>10, <1>11, Bounds DEF Shape, OfParties
<1>13. AliceAt(e)'
  BY <1>2, <1>6, <1>7, <1>9, <1>10 DEF AliceAt, At, CountsAt
<1>14. BobAt(d)'
  BY <1>1, <1>7, <1>9, <1>10 DEF BobAt, At, CountsAt, AwaitsCount
<1>15. \A i \in 1 .. (Len(pipe) + Len(outbuf)) : InFlight(i)' = InFlight(i)
  <2> SUFFICES ASSUME NEW i \in 1 .. (Len(pipe) + Len(outbuf)) PROVE InFlight(i)' = InFlight(i)
    OBVIOUS
  <2>1. CASE i <= Len(pipe)
    BY <1>1, <1>7, <2>1 DEF InFlight
  <2>2. CASE i > Len(pipe)
    <3> DEFINE j == i - Len(pipe)
    <3>1. j \in 1 .. Len(outbuf)
      BY <1>1, <2>2
    <3> HIDE DEF j
    <3>2. outbuf'[j] = outbuf[j]
      BY <1>11, <3>1
    <3> QED
      BY <1>1, <1>7, <2>2, <3>2 DEF InFlight, j
  <2> QED
    BY <1>1, <2>1, <2>2
<1>16. ASSUME NEW j \in Nat, j = Len(pipe) + Len(outbuf) + 1 PROVE InFlight(j)' = x
  <2>1. ~(j <= Len(pipe)) /\ j - Len(pipe) = Len(outbuf) + 1
    BY <1>1, <1>16
  <2>2. outbuf'[j - Len(pipe)] = x
    BY <1>11, <2>1
  <2> QED
    BY <1>7, <2>1, <2>2 DEF InFlight
<1>17. \A k \in 0 .. ((a + 1) - 1) :
         IsMsg(R[k]) /\ seen'[BOB] <= R[k].seen =>
           InFlight(R[k].seen - seen[BOB] + 1)' = Head(R[k].todo)
  <2> SUFFICES ASSUME NEW k \in 0 .. ((a + 1) - 1), IsMsg(R[k]), d.seen <= R[k].seen
               PROVE  InFlight(R[k].seen - seen[BOB] + 1)' = Head(R[k].todo)
    BY <1>1, <1>10
  <2> DEFINE i == R[k].seen - d.seen + 1
  <2>1. R[k].seen - seen'[BOB] + 1 = i
    BY <1>1, <1>10
  <2>2. InFlight(i)' = Head(R[k].todo)
    <3>1. CASE k = a
      <4>1. Len(pipe) + Len(outbuf) + 1 = c.seen - d.seen + 1 /\ i = c.seen - d.seen + 1
        BY <1>1, <3>1 DEF c
      <4>3. i \in Nat /\ i = Len(pipe) + Len(outbuf) + 1
        BY <1>1, <4>1
      <4>2. Head(R[k].todo) = x
        BY <3>1 DEF c, x
      <4> HIDE DEF i
      <4> QED
        BY <1>16, <4>2, <4>3
    <3>2. CASE k # a
      <4>1. k \in 0 .. (a - 1)
        BY <3>2
      <4>2. R[k].seen \in Nat /\ R[k].seen < c.seen /\ InFlight(i) = Head(R[k].todo)
        BY <1>1, <4>1
      <4>3. i \in Nat /\ 1 <= i /\ i <= c.seen - d.seen
        BY <1>1, <4>2, SMTT(30)
      <4>4. i \in 1 .. (Len(pipe) + Len(outbuf))
        BY <1>1, <4>3
      <4> HIDE DEF i
      <4> QED
        BY <1>15, <4>2, <4>4
    <3> QED
      BY <3>1, <3>2
  <2> HIDE DEF i
  <2> QED
    BY <2>1, <2>2 DEF InFlight
<1>18. Len(pipe') + Len(outbuf') = seen'[ALICE] - seen'[BOB] /\ plan' = plan /\ a + 1 \in Nat
  <2>1. Len(pipe') = Len(pipe) /\ seen'[ALICE] = c.seen + 1 /\ seen'[BOB] = d.seen
    BY <1>1, <1>7, <1>10
  <2>2. /\ c.seen \in Nat /\ d.seen \in Nat /\ Len(pipe) \in Nat /\ Len(outbuf) \in Nat
        /\ Len(pipe) + Len(outbuf) = c.seen - d.seen /\ Len(outbuf') = Len(outbuf) + 1
    BY <1>1, <1>11
  <2>3. Len(pipe') + Len(outbuf') = seen'[ALICE] - seen'[BOB]
    BY <2>1, <2>2
  <2> QED
    BY <1>7, <2>3
<1>19. AliceAt(R[a + 1])' /\ BobAt(R[b])'
  BY <1>13, <1>14 DEF d, e
<1>20. LockStep'
  BY <1>17, <1>18, <1>19, LockStepNext
<1> QED
  BY <1>12, <1>20

LEMMA ReceiveInStep ==
  ASSUME NoBasicJoin, Shape, NEW R, R = Run(plan), NEW a \in Nat, NEW b \in Nat,
         InStep(a, b), Receive
  PROVE  Shape' /\ LockStep'
<1> DEFINE c == R[a]
           d == R[b]
<1>1. /\ plan \in Plans /\ c \in Places(plan) /\ d \in Places(plan) /\ AliceAt(c) /\ BobAt(d)
      /\ R[a + 1] = Follow(plan, c) /\ R[b + 1] = Follow(plan, d)
      /\ seen[ALICE] = c.seen /\ seen[BOB] = d.seen /\ c.seen \in Nat /\ d.seen \in Nat
      /\ Len(pipe) \in Nat /\ Len(outbuf) \in Nat
      /\ Len(pipe) + Len(outbuf) = c.seen - d.seen
      /\ \A k \in 0 .. (a - 1) :
           IsMsg(R[k]) =>
             /\ R[k].seen < c.seen /\ R[k].seen \in Nat
             /\ d.seen <= R[k].seen =>
                  InFlight(R[k].seen - d.seen + 1) = Head(R[k].todo)
  BY InStepFacts
<1> HIDE DEF c, d
<1>2. Expecting /\ pipe # << >> /\ pipe \in Seq(Message) /\ outbuf \in Seq(Message)
  BY DEF Receive, Shape
<1>3. /\ IsMsg(d) /\ Head(pipe) = Head(d.todo)
      /\ (todo[BOB] = d.todo /\ ~Now(BOB, "count")) \/ AwaitsCount(d)
  BY <1>2, BobExpects DEF d
<1> DEFINE e == R[b + 1]
           n == IF Head(d.todo).do = "product" THEN d.num + 1 ELSE d.num
<1>4. e = AfterMsg(d)
  BY <1>1, <1>3, FollowMsg
<1> HIDE DEF e
<1>5. /\ e.item = d.item /\ e.todo = Tail(d.todo) /\ e.num = n /\ e.tables = d.tables
      /\ e.status = d.status /\ e.seen = d.seen + 1 /\ e.drawn = d.drawn
  BY <1>4 DEF AfterMsg, Place
<1> HIDE DEF n
<1>6. /\ item[BOB] = d.item /\ num[BOB] = d.num /\ drawn[BOB] = d.drawn
      /\ (status[BOB] = d.status \/ status[BOB] = "cut off")
  BY <1>1 DEF BobAt, CountsAt
<1>7. /\ pipe' = Tail(pipe) /\ seen' = [seen EXCEPT ![BOB] = d.seen + 1]
      /\ UNCHANGED <<plan, item, status, outbuf, drawn>> /\ num' = Buffered(BOB)
  BY <1>1 DEF Receive
<1>8. /\ OfParties(seen') /\ seen'[BOB] = d.seen + 1 /\ seen'[ALICE] = seen[ALICE]
  BY <1>7 DEF OfParties, Shape, Parties, ALICE, BOB
<1>9. /\ pipe' \in Seq(Message) /\ Len(pipe') = Len(pipe) - 1 /\ Len(pipe) >= 1
      /\ \A i \in 1 .. (Len(pipe) - 1) : pipe'[i] = pipe[i + 1]
  BY <1>2, <1>7
<1>10. /\ OfParties(todo') /\ OfParties(tables') /\ OfParties(num')
       /\ todo'[BOB] = e.todo /\ tables'[BOB] = e.tables /\ num'[BOB] = e.num
       /\ todo'[ALICE] = todo[ALICE] /\ tables'[ALICE] = tables[ALICE] /\ num'[ALICE] = num[ALICE]
  <2>1. CASE todo[BOB] = d.todo /\ ~Now(BOB, "count")
    <3>1. /\ todo' = [todo EXCEPT ![BOB] = Tail(d.todo)] /\ tables' = tables
      BY <2>1 DEF Receive, Rest
    <3>2. tables[BOB] = d.tables
      <4>1. ~AwaitsCount(d)
        <5>1. SUFFICES ASSUME todo[BOB] = <<Step("count", 0)>> PROVE FALSE
          BY DEF AwaitsCount
        <5> QED
          BY <2>1, <5>1 DEF Now, Step
      <4> QED
        BY <1>1, <4>1 DEF BobAt, At
    <3>3. todo[BOB] # << >>
      BY <1>3, <2>1 DEF IsMsg
    <3>4. OfParties(num') /\ num'[BOB] = n /\ num'[ALICE] = num[ALICE]
      BY <1>6, <1>7, <2>1, <3>3 DEF Buffered, Now, n, OfParties, Shape, Parties, ALICE, BOB
    <3>5. OfParties(todo') /\ todo'[BOB] = Tail(d.todo) /\ todo'[ALICE] = todo[ALICE]
      BY <3>1 DEF OfParties, Shape, Parties, ALICE, BOB
    <3> QED
      BY <1>5, <3>1, <3>2, <3>4, <3>5 DEF Shape
  <2>2. CASE AwaitsCount(d)
    <3>1. PICK m \in Nat :
            /\ todo[BOB] = <<Step("count", 0)>>
            /\ d.todo = <<Step("count", m)>> \o Some("bits", m)
            /\ tables[BOB] \in Seq(TableType)
            /\ d.tables = Append(tables[BOB], Table(m, m))
      BY <2>2 DEF AwaitsCount
    <3>2. Some("bits", m) \in Seq(PlainStep)
      BY SomePlain DEF Messages
    <3> DEFINE rest == Some("bits", m)
               count == Step("count", m)
    <3>3. rest \in Seq(PlainStep)
      BY <3>2
    <3> HIDE DEF rest, count
    <3>4. Head(<<count>> \o rest) = count /\ Tail(<<count>> \o rest) = rest
      BY <3>3
    <3>5. Head(d.todo) = Step("count", m) /\ Tail(d.todo) = Some("bits", m)
      BY <3>1, <3>4 DEF rest, count
    <3>6. Head(pipe).n = m /\ Head(d.todo).do = "count"
      BY <1>3, <3>5 DEF Step
    <3>7. Now(BOB, "count") /\ ~Now(BOB, "product")
      BY <3>1 DEF Now, Step
    <3>8. /\ tables' = [tables EXCEPT ![BOB] = Append(tables[BOB], Table(m, m))]
          /\ todo' = [todo EXCEPT ![BOB] = Some("bits", m)]
      BY <3>6, <3>7 DEF Receive, Commit, ALICE, BOB
    <3>9. num' = num /\ n = d.num
      BY <1>7, <3>6, <3>7 DEF Buffered, n
    <3>10. /\ OfParties(todo') /\ OfParties(tables')
           /\ todo'[BOB] = Some("bits", m) /\ tables'[BOB] = Append(tables[BOB], Table(m, m))
           /\ todo'[ALICE] = todo[ALICE] /\ tables'[ALICE] = tables[ALICE]
      BY <3>8 DEF OfParties, Shape, Parties, ALICE, BOB
    <3> QED
      BY <1>5, <1>6, <3>1, <3>5, <3>9, <3>10 DEF Shape
  <2> QED
    BY <1>3, <2>1, <2>2
<1>11. Shape'
  BY <1>1, <1>7, <1>8, <1>9, <1>10, Bounds DEF Shape, OfParties
<1>12. AliceAt(c)'
  BY <1>1, <1>7, <1>8, <1>10 DEF AliceAt, At, CountsAt
<1>13. BobAt(e)'
  <2>1. At(BOB, e)'
    BY <1>5, <1>6, <1>7, <1>8, <1>10 DEF At, CountsAt
  <2>2. d.todo # << >> /\ Tail(d.todo) \in Seq(PlainStep)
    BY <1>1, <1>3, PlaceFacts DEF IsMsg
  <2>3. e.todo \in Seq(PlainStep)
    BY <1>5, <2>2
  <2>4. e.todo # << >> => Head(e.todo) \in PlainStep
    BY <2>3, HeadTailProperties
  <2>5. e.todo # << >> => Head(e.todo).do # "count"
    BY <2>4 DEF PlainStep
  <2> QED
    BY <1>5, <1>6, <1>7, <2>1, <2>5 DEF BobAt, At
<1>14. \A i \in Nat \ {0} : InFlight(i)' = InFlight(i + 1)
  <2> SUFFICES ASSUME NEW i \in Nat \ {0} PROVE InFlight(i)' = InFlight(i + 1)
    OBVIOUS
  <2>1. CASE i <= Len(pipe) - 1
    BY <1>1, <1>9, <2>1 DEF InFlight
  <2>2. CASE ~(i <= Len(pipe) - 1)
    <3>1. i - Len(pipe') = i + 1 - Len(pipe) /\ ~(i + 1 <= Len(pipe)) /\ ~(i <= Len(pipe'))
      BY <1>1, <1>9, <2>2
    <3> QED
      BY <1>7, <3>1 DEF InFlight
  <2> QED
    BY <2>1, <2>2
<1>15. \A k \in 0 .. (a - 1) :
         IsMsg(R[k]) /\ seen'[BOB] <= R[k].seen =>
           InFlight(R[k].seen - seen[BOB] + 1)' = Head(R[k].todo)
  <2> SUFFICES ASSUME NEW k \in 0 .. (a - 1), IsMsg(R[k]), d.seen + 1 <= R[k].seen
               PROVE  InFlight(R[k].seen - seen[BOB] + 1)' = Head(R[k].todo)
    BY <1>8
  <2> DEFINE i == R[k].seen - d.seen
  <2>1. R[k].seen \in Nat /\ (d.seen <= R[k].seen => InFlight(i + 1) = Head(R[k].todo))
    BY <1>1
  <2>2. i \in Nat \ {0} /\ d.seen <= R[k].seen /\ R[k].seen - seen'[BOB] + 1 = i
    <3>1. d.seen \in Nat /\ R[k].seen \in Nat /\ seen'[BOB] = d.seen + 1
      BY <1>1, <1>8, <2>1
    <3> QED
      BY <3>1
  <2> HIDE DEF i
  <2>3. InFlight(i)' = Head(R[k].todo)
    BY <1>14, <2>1, <2>2
  <2> QED
    BY <2>2, <2>3 DEF InFlight
<1>16. Len(pipe') + Len(outbuf') = seen'[ALICE] - seen'[BOB] /\ plan' = plan /\ b + 1 \in Nat
  BY <1>1, <1>7, <1>8, <1>9
<1>17. AliceAt(R[a])' /\ BobAt(R[b + 1])'
  BY <1>12, <1>13 DEF c, e
<1>18. LockStep'
  BY <1>15, <1>16, <1>17, LockStepNext
<1> QED
  BY <1>11, <1>18

LEMMA StutterInStep ==
  ASSUME NoBasicJoin, Shape, NEW R, R = Run(plan), NEW a \in Nat, NEW b \in Nat,
         InStep(a, b), UNCHANGED vars
  PROVE  Shape' /\ LockStep'
<1>1. UNCHANGED <<plan, item, todo, tables, num, status, seen, drawn, outbuf, pipe>>
  BY DEF vars, partyVars
<1>2. Shape'
  BY <1>1 DEF Shape, OfParties
<1>3. AliceAt(R[a])' /\ BobAt(R[b])'
  BY <1>1, InStepFacts, SameAt DEF Same
<1>4. /\ Len(pipe) + Len(outbuf) = seen[ALICE] - seen[BOB]
      /\ \A k \in 0 .. (a - 1) :
           IsMsg(R[k]) /\ seen[BOB] <= R[k].seen =>
             InFlight(R[k].seen - seen[BOB] + 1) = Head(R[k].todo)
  BY DEF InStep
<1>5. \A k \in 0 .. (a - 1) :
         IsMsg(R[k]) /\ seen'[BOB] <= R[k].seen =>
           InFlight(R[k].seen - seen[BOB] + 1)' = Head(R[k].todo)
  BY <1>1, <1>4 DEF InFlight
<1>6. Len(pipe') + Len(outbuf') = seen'[ALICE] - seen'[BOB] /\ plan' = plan
  BY <1>1, <1>4
<1>7. LockStep'
  BY <1>3, <1>5, <1>6, LockStepNext
<1> QED
  BY <1>2, <1>7

LEMMA NextInv ==
  ASSUME NoBasicJoin, IndInv, [Next]_vars
  PROVE  IndInv'
<1>1. PICK a, b \in Nat : InStep(a, b)
  BY DEF IndInv, LockStep
<1>2. Shape
  BY DEF IndInv
<1>3. CASE UNCHANGED vars
  BY <1>1, <1>2, <1>3, StutterInStep DEF IndInv
<1>4. CASE Shared(ALICE)
  BY <1>1, <1>2, <1>4, AliceShared DEF IndInv
<1>5. CASE Shared(BOB)
  BY <1>1, <1>2, <1>5, BobShared DEF IndInv
<1>6. CASE EmptyInput \/ CutOff
  BY <1>1, <1>2, <1>6, StopsInStep DEF IndInv
<1>7. CASE Send
  BY <1>1, <1>2, <1>7, SendInStep DEF IndInv
<1>8. CASE Write
  BY <1>1, <1>2, <1>8, WriteInStep DEF IndInv
<1>9. CASE Receive
  BY <1>1, <1>2, <1>9, ReceiveInStep DEF IndInv
<1> QED
  BY <1>3, <1>4, <1>5, <1>6, <1>7, <1>8, <1>9 DEF Next, Terminated, Parties

-----------------------------------------------------------------------------
(* The theorems.                                                           *)

(* The parties are always in step.                                         *)
THEOREM InvHolds ==
  ASSUME NoBasicJoin
  PROVE  Spec => []IndInv
<1>1. Init => IndInv
  BY InitInv
<1>2. IndInv /\ [Next]_vars => IndInv'
  BY NextInv
<1> QED
  BY <1>1, <1>2, PTL DEF Spec

(* Every variable has its type; no party has made more tables than it has  *)
(* begun calls, and the channel never holds more than its buffers take.    *)
THEOREM TypeCorrect ==
  ASSUME NoBasicJoin
  PROVE  Spec => []TypeOK
<1>1. IndInv => TypeOK
  BY InvTypeOK
<1> QED
  BY <1>1, InvHolds, PTL

(* The next message on the channel is of the kind and the size that Bob's  *)
(* own run of the operators calls for, for plans and tables of any size.   *)
THEOREM ReadsAreRight ==
  ASSUME NoBasicJoin
  PROVE  Spec => []ReadsWhatWasSent
<1>1. IndInv => ReadsWhatWasSent
  BY InvReads
<1> QED
  BY <1>1, InvHolds, PTL

(* The k-th challenges of both parties are digests of the same transcript. *)
THEOREM ChallengesAreEqual ==
  ASSUME NoBasicJoin
  PROVE  Spec => []ChallengesAgree
<1>1. IndInv => ChallengesAgree
  BY InvAgree
<1> QED
  BY <1>1, InvHolds, PTL

(* All copies of a table have the same number of rows, however many calls  *)
(* Alice is ahead of Bob.                                                  *)
THEOREM TablesAreEqual ==
  ASSUME NoBasicJoin
  PROVE  Spec => []TablesAgree
<1>1. IndInv => TablesAgree
  BY InvAgree
<1> QED
  BY <1>1, InvHolds, PTL

(* A session that Bob accepts has been run to the end, all its products    *)
(* have been checked and none of its messages is left over.                *)
THEOREM AcceptanceIsComplete ==
  ASSUME NoBasicJoin
  PROVE  Spec => []AcceptedIsComplete
<1>1. IndInv => AcceptedIsComplete
  BY InvAccepted
<1> QED
  BY <1>1, InvHolds, PTL
=============================================================================
