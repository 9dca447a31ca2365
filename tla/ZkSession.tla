----------------------------- MODULE ZkSession -----------------------------
(***************************************************************************)
(* One proof session: Alice and Bob run the same list of operators, each   *)
(* in a process of its own, and everything Alice proves travels over one   *)
(* channel to Bob.  The messages carry no headers.  Bob knows what comes   *)
(* next, and how much of it, only because he runs the same code on tables  *)
(* of the same size; where the code branches on the party the two sides    *)
(* have to be kept in step by hand.                                        *)
(*                                                                         *)
(* A plan is the list of the runSelf() calls of a session in the order     *)
(* Operator::run makes them (module OperatorTree), scans first.  A table   *)
(* is its number of rows.  Alice holds each table twice, in the clear and  *)
(* committed, and commits what her clear table holds; Bob expects as many  *)
(* bits as his tuple count says.                                           *)
(*                                                                         *)
(* The channel and the circuits are external: a committed bit, a gate, a   *)
(* product and a reveal are each something Alice sends and Bob receives,   *)
(* and a challenge is a digest of what has been exchanged so far.          *)
(***************************************************************************)
EXTENDS Integers, Sequences

CONSTANTS
  Kinds,     (* operators the plans are made of                             *)
  MaxItems,  (* bound on the length of a plan                               *)
  MaxRows,   (* bound on the rows a scan reads                              *)
  Limit,     (* fetch limit of the sorts; 0 where there is none             *)
  WideRows,  (* are rows longer than 128 bits?                              *)
  BufferSz,  (* buffer_sz of F2kPolyPrdt                                    *)
  OutBuf,    (* messages Alice's channel buffers before it must write       *)
  Pipe       (* messages in flight                                          *)

UnaryKinds == {"Filter", "GroupBy", "ScalarAggregate", "Sort"}
JoinKinds == {"FkPkJoin", "PkFkJoin", "BasicJoin"}

ASSUME KindsAssumption == Kinds \subseteq ({"Scan"} \cup UnaryKinds \cup JoinKinds)
ASSUME BoundsAssumption == {MaxItems, MaxRows, BufferSz, OutBuf, Pipe} \subseteq Nat \ {0}
ASSUME LimitAssumption == Limit \in Nat
ASSUME WideRowsAssumption == WideRows \in BOOLEAN

ALICE == "ALICE"
BOB == "BOB"
Parties == {ALICE, BOB}

VARIABLES
  plan,    (* the runSelf() calls of the session                            *)
  item,    (* which of them each party executes                             *)
  todo,    (* what is left of it                                            *)
  tables,  (* output of the calls made so far: committed and clear rows     *)
  num,     (* F2kPolyPrdt::num, the products waiting for their check        *)
  status,  (* "running", "teardown", then "done"; "threw" or "cut off"      *)
  outbuf,  (* messages in Alice's channel buffer                            *)
  pipe,    (* messages written and not yet read                             *)
  seen,    (* length of the transcript each party has hashed                *)
  drawn    (* what each challenge drawn so far is a digest of               *)

partyVars == <<item, todo, tables, num, status, seen, drawn>>
vars == <<plan, partyVars, outbuf, pipe>>

-----------------------------------------------------------------------------
(* Plans.                                                                  *)

Call(kind, l, r, rows) == [kind |-> kind, l |-> l, r |-> r, rows |-> rows]

CallsAt(k) ==
  { Call("Scan", 0, 0, n) : n \in 0 .. MaxRows }
    \cup { Call(u, c, 0, 0) : u \in UnaryKinds, c \in 1 .. (k - 1) }
    \cup { Call(j, l, r, 0) : j \in JoinKinds, l, r \in 1 .. (k - 1) }

(* The scans are read while the plan is parsed, before anything runs.      *)
ScansFirst(s) ==
  \A k \in 2 .. Len(s) : s[k].kind = "Scan" => s[k - 1].kind = "Scan"

PlansOfLength(n) ==
  { s \in [1 .. n -> { c \in CallsAt(MaxItems) : c.kind \in Kinds }] :
      ScansFirst(s) /\ \A k \in 1 .. n : s[k] \in CallsAt(k) }

Plans == UNION { PlansOfLength(n) : n \in 1 .. MaxItems }

-----------------------------------------------------------------------------
(* What the operators exchange.  A step is done by the party whose list    *)
(* holds it: Alice sends, Bob receives.                                    *)

Step(do, n) == [do |-> do, n |-> n]
Some(do, n) == IF n > 0 THEN <<Step(do, n)>> ELSE << >>

Flush     == <<Step("flush", 0)>>
Challenge == <<Step("challenge", 0)>>
Reveal    == Some("reveal", 1)

(* A flush in Alice's branch only.  Bob sends nothing, so a flush of his,  *)
(* here or where both have one, is a step that does nothing.               *)
AliceFlush == Flush

Larger(m, n) == IF m > n THEN m ELSE n

(* inn_prdt_bch4: the first element opens the product, the next ones are   *)
(* multiplied in by fours, what is left one at a time.                     *)
InnerProduct(n) ==
  [i \in 1 .. ((n - 1) \div 4) |-> Step("product", 1)] \o Some("mul", (n - 1) % 4)

CheckSetEquality(n) ==
  Flush \o Challenge \o InnerProduct(n) \o InnerProduct(n)
    \o Some("macs", 2) \o AliceFlush

(* ZKSet::equal on whole rows: long ones are compressed first.             *)
Equal(n) ==
  (IF WideRows THEN Flush \o Challenge ELSE << >>) \o CheckSetEquality(n)

(* The bits of a table: all of Alice's clear table, whatever size she is   *)
(* told; as many as he is told for Bob.                                    *)
Commit(p, plain, rows) == Some("bits", IF p = ALICE THEN plain ELSE rows)

Truncated(n) == IF Limit > 0 /\ n > Limit THEN Limit ELSE n

SortStepsEarlyResize(p, plain, rows, kept) ==
  Commit(p, Truncated(plain), rows)
    \o Equal(rows) \o Some("gates", kept - 1) \o Reveal \o Reveal

(* Sort::runSelf: commit, set equality over the input's rows, order over   *)
(* the rows kept, and the flag revealed twice.                             *)
SortSteps(p, plain, rows, kept) ==
  Commit(p, plain, rows)
    \o Equal(rows) \o Some("gates", kept - 1) \o Reveal \o Reveal

ZeroOutDupes(p, n) == SortSteps(p, n, n, n) \o Some("gates", n - 1)

(* Both branches build tables of the size they are told.                   *)
VerifyEquality(p, isForeignKey, n) ==
  (IF isForeignKey THEN << >> ELSE ZeroOutDupes(p, n))
    \o Commit(p, n, n)          (* hashSetDifference                        *)
    \o Commit(p, 2 * n, 2 * n)  (* padZeros                                 *)
    \o Equal(2 * n)

(* disjointInternal on the keys, which are short: the dummy value, the     *)
(* sorted union, that it is the union, and that neighbours differ.         *)
VerifyDisjoint(p, n) ==
  Some("bits", 1) \o Some("bits", 2 * n) \o CheckSetEquality(2 * n)
    \o Some("bits", 1) \o Some("gates", 2 * n - 1) \o Reveal

KeyedJoinStepsBobPads(p, lrows, rrows, fkLeft) ==
  LET n == Larger(lrows, rrows) IN
  Commit(p, n, n) \o Commit(p, n, n) \o Commit(p, n, n)
    \o Some("gates", n) \o Reveal
    \o (IF lrows # rrows /\ p = BOB THEN Commit(p, n, n) ELSE << >>)
    \o VerifyEquality(p, fkLeft, n) \o VerifyEquality(p, ~fkLeft, n)
    \o VerifyDisjoint(p, n)

(* HashKeyedJoin: the output and the two sides of it, the predicate, the   *)
(* shorter input padded, and the three checks.                             *)
KeyedJoinSteps(p, lrows, rrows, fkLeft) ==
  LET n == Larger(lrows, rrows) IN
  Commit(p, n, n) \o Commit(p, n, n) \o Commit(p, n, n)
    \o Some("gates", n) \o Reveal
    \o (IF lrows # rrows THEN Commit(p, n, n) ELSE << >>)
    \o VerifyEquality(p, fkLeft, n) \o VerifyEquality(p, ~fkLeft, n)
    \o VerifyDisjoint(p, n)

(* BasicJoin, per pair of rows: the predicate and the first equality, then *)
(* the second one, both revealed by both, and the join condition, revealed *)
(* by Bob alone.                                                           *)
PairSteps(p) ==
  Some("gates", 2) \o Reveal \o Some("gates", 1) \o Reveal \o Some("gates", 1)
    \o (IF p = BOB THEN Reveal ELSE << >>)

BasicJoinSteps(p, n) ==
  LET steps == PairSteps(p) IN
  [i \in 1 .. (n * Len(steps)) |-> steps[((i - 1) % Len(steps)) + 1]]

(* The last step a scan takes before its rows: Alice tells Bob how many.   *)
ScanSteps(p, rows) ==
  IF p = ALICE THEN <<Step("count", rows)>> \o Commit(p, rows, rows)
               ELSE <<Step("count", 0)>>

Table(rows, plain) == [rows |-> rows, plain |-> plain]

ResizeSecureOnly(t) == Table(Truncated(t.rows), t.plain)
(* ZkQueryTable::resize cuts both copies.                                  *)
Resize(t) == Table(Truncated(t.rows), Truncated(t.plain))

(* The table a call returns, given the tables ts made so far.  Filter      *)
(* keeps a copy of its input; the others allocate both copies from the     *)
(* committed row count of their inputs, Alice's sorted table from her      *)
(* clear one.                                                              *)
OutputOf(p, ts, c) ==
  CASE c.kind = "Filter" -> ts[c.l]
    [] c.kind = "GroupBy" -> Table(ts[c.l].rows, ts[c.l].rows)
    [] c.kind = "ScalarAggregate" -> Table(1, 1)
    [] c.kind = "Sort" ->
         LET n == IF p = ALICE THEN ts[c.l].plain ELSE ts[c.l].rows
         IN  Resize(Table(n, n))
    [] c.kind \in {"FkPkJoin", "PkFkJoin"} ->
         LET n == Larger(ts[c.l].rows, ts[c.r].rows) IN Table(n, n)
    [] c.kind = "BasicJoin" ->
         LET n == ts[c.l].rows * ts[c.r].rows IN Table(n, n)
    [] c.kind = "Scan" -> Table(c.rows, c.rows)

(* What a party does for a call, up to the point where its output is set. *)
StepsOf(p, ts, c) ==
  CASE c.kind = "Scan" -> ScanSteps(p, c.rows)
    [] c.kind \in {"Filter", "GroupBy", "ScalarAggregate"} ->
         Some("gates", ts[c.l].rows)
    [] c.kind = "Sort" ->
         SortSteps(p, ts[c.l].plain, ts[c.l].rows, OutputOf(p, ts, c).rows)
    [] c.kind \in {"FkPkJoin", "PkFkJoin"} ->
         KeyedJoinSteps(p, ts[c.l].rows, ts[c.r].rows, c.kind = "FkPkJoin")
    [] c.kind = "BasicJoin" -> BasicJoinSteps(p, ts[c.l].rows * ts[c.r].rows)

-----------------------------------------------------------------------------
(* Running the plan.                                                       *)

Init ==
  /\ plan \in Plans
  /\ item = [p \in Parties |-> 0]
  /\ todo = [p \in Parties |-> << >>]
  /\ tables = [p \in Parties |-> << >>]
  /\ num = [p \in Parties |-> 0]
  /\ status = [p \in Parties |-> "running"]
  /\ outbuf = << >>
  /\ pipe = << >>
  /\ seen = [p \in Parties |-> 0]
  /\ drawn = [p \in Parties |-> << >>]

Now(p, do) == todo[p] # << >> /\ Head(todo[p]).do = do
Due(p) == Head(todo[p])
Rest(p) == [todo EXCEPT ![p] = Tail(@)]

Idle(p) == status[p] = "running" /\ todo[p] = << >>
Finished(p) == item[p] = Len(plan)

(* F2kPolyPrdt::batch_check on a buffer that is not empty.                 *)
BatchCheck == Flush \o Challenge \o Some("sums", 5) \o AliceFlush

(* The next call of the plan.  A scan's table is known to Bob only once    *)
(* its count has come in.                                                  *)
BeginCall(p) ==
  /\ Idle(p)
  /\ ~Finished(p)
  /\ LET c == plan[item[p] + 1] IN
       /\ ~(p = ALICE /\ c.kind = "Scan" /\ c.rows = 0)
       /\ todo' = [todo EXCEPT ![p] = StepsOf(p, tables[p], c)]
       /\ tables' = IF c.kind = "Scan" /\ p = BOB THEN tables
                    ELSE [tables EXCEPT ![p] = Append(@, OutputOf(p, @, c))]
  /\ item' = [item EXCEPT ![p] = @ + 1]
  /\ UNCHANGED <<plan, num, status, outbuf, pipe, seen, drawn>>

(* Alice's scan throws on an empty result before it sends the count.  The  *)
(* test fixture tears the session down all the same.                       *)
EmptyInput ==
  /\ Idle(ALICE)
  /\ ~Finished(ALICE)
  /\ plan[item[ALICE] + 1].kind = "Scan" /\ plan[item[ALICE] + 1].rows = 0
  /\ status' = [status EXCEPT ![ALICE] = "threw"]
  /\ UNCHANGED <<plan, item, todo, tables, num, outbuf, pipe, seen, drawn>>

(* After the last call both reveal the result, and TearDown destroys the   *)
(* ZKSet and with it the product buffer, which checks what it still holds. *)
TearDownNoReset(p) == << >>
TearDown(p) == IF num[p] = 0 THEN << >> ELSE BatchCheck

EndOfPlan(p) ==
  /\ Idle(p)
  /\ Finished(p)
  /\ todo' = [todo EXCEPT ![p] = Reveal]
  /\ status' = [status EXCEPT ![p] = "result"]
  /\ UNCHANGED <<plan, item, tables, num, outbuf, pipe, seen, drawn>>

StartTearDown(p) ==
  /\ status[p] = "result"
  /\ todo[p] = << >>
  /\ status' = [status EXCEPT ![p] = "teardown"]
  /\ todo' = [todo EXCEPT ![p] = TearDown(p)]
  /\ num' = [num EXCEPT ![p] = IF TearDown(p) = << >> THEN @ ELSE 0]
  /\ UNCHANGED <<plan, item, tables, outbuf, pipe, seen, drawn>>

(* Deleting the channel writes what it still buffers.                      *)
Close(p) ==
  /\ status[p] = "teardown"
  /\ todo[p] = << >>
  /\ p = ALICE => outbuf = << >>
  /\ status' = [status EXCEPT ![p] = "done"]
  /\ UNCHANGED <<plan, item, todo, tables, num, outbuf, pipe, seen, drawn>>

-----------------------------------------------------------------------------
(* Steps.                                                                  *)

Messages == {"count", "bits", "gates", "product", "mul", "macs", "sums", "reveal"}

(* num after a product has been buffered: polyPrdt5 checks a full buffer   *)
(* first.                                                                  *)
BufferFullLate(p) == Now(p, "product") /\ num[p] > BufferSz
BufferFull(p) == Now(p, "product") /\ num[p] >= BufferSz
Buffered(p) == IF Now(p, "product") THEN [num EXCEPT ![p] = @ + 1] ELSE num

CheckFullBufferSumsFirst(p) ==
  /\ BufferFull(p)
  /\ todo' = [todo EXCEPT ![p] =
                 (IF p = BOB THEN Some("sums", 5) \o Challenge
                             ELSE Challenge \o Some("sums", 5)) \o @]
  /\ num' = [num EXCEPT ![p] = 0]
  /\ UNCHANGED <<plan, item, tables, status, outbuf, pipe, seen, drawn>>

CheckFullBuffer(p) ==
  /\ BufferFull(p)
  /\ todo' = [todo EXCEPT ![p] = BatchCheck \o @]
  /\ num' = [num EXCEPT ![p] = 0]
  /\ UNCHANGED <<plan, item, tables, status, outbuf, pipe, seen, drawn>>

Send ==
  /\ \E m \in Messages : Now(ALICE, m)
  /\ ~BufferFull(ALICE)
  /\ Len(outbuf) < OutBuf
  /\ outbuf' = Append(outbuf, Due(ALICE))
  /\ seen' = [seen EXCEPT ![ALICE] = @ + 1]
  /\ num' = Buffered(ALICE)
  /\ todo' = Rest(ALICE)
  /\ UNCHANGED <<plan, item, tables, status, pipe, drawn>>

(* The channel writes a message out, on its own account or when flushed.   *)
Write ==
  /\ outbuf # << >>
  /\ Len(pipe) < Pipe
  /\ pipe' = Append(pipe, Head(outbuf))
  /\ outbuf' = Tail(outbuf)
  /\ UNCHANGED <<plan, partyVars>>

(* Only a flush, a full buffer and the end of the session oblige it to.    *)
MustWrite ==
  \/ Now(ALICE, "flush")
  \/ Len(outbuf) = OutBuf
  \/ status[ALICE] \in {"teardown", "threw"}

DoFlush(p) ==
  /\ Now(p, "flush")
  /\ p = ALICE => outbuf = << >>
  /\ todo' = Rest(p)
  /\ UNCHANGED <<plan, item, tables, num, status, outbuf, pipe, seen, drawn>>

DrawChallenge(p) ==
  /\ Now(p, "challenge")
  /\ drawn' = [drawn EXCEPT ![p] = Append(@, seen[p])]
  /\ todo' = Rest(p)
  /\ UNCHANGED <<plan, item, tables, num, status, outbuf, pipe, seen>>

Expecting == (\E m \in Messages : Now(BOB, m)) /\ ~BufferFull(BOB)

(* Bob reads what is next on the channel as what he expects next.          *)
Receive ==
  /\ Expecting
  /\ pipe # << >>
  /\ pipe' = Tail(pipe)
  /\ seen' = [seen EXCEPT ![BOB] = @ + 1]
  /\ num' = Buffered(BOB)
  /\ IF Now(BOB, "count")
     THEN /\ tables' = [tables EXCEPT ![BOB] =
                          Append(@, Table(Head(pipe).n, Head(pipe).n))]
          /\ todo' = [todo EXCEPT ![BOB] = Commit(BOB, 0, Head(pipe).n)]
     ELSE todo' = Rest(BOB) /\ UNCHANGED tables
  /\ UNCHANGED <<plan, item, status, outbuf, drawn>>

(* Reading from a closed channel ends the process.                         *)
CutOff ==
  /\ Expecting
  /\ status[BOB] # "cut off"
  /\ pipe = << >> /\ outbuf = << >>
  /\ status[ALICE] \in {"done", "threw"}
  /\ status' = [status EXCEPT ![BOB] = "cut off"]
  /\ UNCHANGED <<plan, item, todo, tables, num, outbuf, pipe, seen, drawn>>

Over(p) == status[p] \in {"done", "threw", "cut off"}

Terminated == Over(ALICE) /\ Over(BOB) /\ UNCHANGED vars

Shared(p) ==
  \/ BeginCall(p) \/ EndOfPlan(p) \/ StartTearDown(p) \/ Close(p)
  \/ CheckFullBuffer(p) \/ DoFlush(p) \/ DrawChallenge(p)

Next ==
  \/ \E p \in Parties : Shared(p)
  \/ EmptyInput \/ Send \/ Write \/ Receive \/ CutOff
  \/ Terminated

Fairness ==
  /\ WF_vars(Shared(ALICE) \/ EmptyInput \/ Send)
  /\ WF_vars(MustWrite /\ Write)
  /\ WF_vars(Shared(BOB) \/ Receive \/ CutOff)

Spec == Init /\ [][Next]_vars /\ Fairness

-----------------------------------------------------------------------------
(* Properties.                                                             *)

Statuses == {"running", "result", "teardown", "done", "threw", "cut off"}

StepType == [do : Messages \cup {"flush", "challenge"}, n : Nat]
Message == [do : Messages, n : Nat]

TypeOK ==
  /\ plan \in Plans
  /\ item \in [Parties -> 0 .. Len(plan)]
  /\ todo \in [Parties -> Seq(StepType)]
  /\ tables \in [Parties -> Seq([rows : Nat, plain : Nat])]
  /\ num \in [Parties -> 0 .. BufferSz]
  /\ status \in [Parties -> Statuses]
  /\ seen \in [Parties -> Nat]
  /\ drawn \in [Parties -> Seq(Nat)]
  /\ \A p \in Parties :
       /\ Len(tables[p]) \in {item[p], item[p] - 1}
       /\ \A i \in 1 .. Len(drawn[p]) : drawn[p][i] \in 0 .. seen[p]
  /\ outbuf \in Seq(Message) /\ Len(outbuf) <= OutBuf
  /\ pipe \in Seq(Message) /\ Len(pipe) <= Pipe

(* What Bob reads is what he takes it for: the next message is of the kind *)
(* and the size his own run of the operators calls for.  Messages have no  *)
(* headers, so nothing else would tell him.                                *)
ReadsWhatWasSent ==
  Expecting /\ pipe # << >> =>
    /\ Head(pipe).do = Due(BOB).do
    /\ Due(BOB).do # "count" => Head(pipe).n = Due(BOB).n

(* The k-th challenge of Alice and the k-th of Bob are digests of the same *)
(* transcript, although Alice may be many messages ahead.                  *)
ChallengesAgree ==
  \A i \in 1 .. Len(drawn[ALICE]) :
    i <= Len(drawn[BOB]) => drawn[ALICE][i] = drawn[BOB][i]

(* All copies of a table, Alice's clear one, her committed one and Bob's,  *)
(* have the same number of rows.  Bob's loops run over his count and       *)
(* Alice's commitments over her clear rows.                                *)
TablesAgree ==
  \A i \in 1 .. Len(tables[ALICE]) :
    /\ tables[ALICE][i].plain = tables[ALICE][i].rows
    /\ i <= Len(tables[BOB]) => tables[BOB][i].rows = tables[ALICE][i].rows

(* Bob accepts only a session that Alice has run to the end of the plan,   *)
(* and then every product has been checked and no message is left over.    *)
AcceptedIsComplete ==
  status[BOB] = "done" =>
    /\ Finished(ALICE) /\ status[ALICE] \in {"result", "teardown", "done"}
    /\ num[ALICE] = 0 /\ num[BOB] = 0
    /\ pipe = << >> /\ outbuf = << >>

(* Nobody waits for ever: both finish, or Alice threw on an empty input    *)
(* and Bob finds the channel closed.                                       *)
SessionEnds ==
  <>(\/ status[ALICE] = "done" /\ status[BOB] = "done"
     \/ status[ALICE] = "threw" /\ status[BOB] = "cut off")
=============================================================================
