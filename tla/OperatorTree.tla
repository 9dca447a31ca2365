---------------------------- MODULE OperatorTree ----------------------------
(***************************************************************************)
(* Life cycle of the operators of one parsed query plan, on one party.     *)
(*                                                                         *)
(* PlanParser turns the plan into operators, each of which may be named as *)
(* an input by several later ones; root_->run() then evaluates the last    *)
(* one.  Operator::run() is a recursive call, so the C++ call stack is a   *)
(* variable here.  An operator caches its output in output_ and remembers  *)
(* in operator_executed_ that it did; a parent frees the outputs of its    *)
(* children as soon as it has its own.  Each runSelf() also adds the bytes *)
(* it exchanged to a global counter, comm_cost of ZKGlobalVars.            *)
(*                                                                         *)
(* Tables are abstracted to whether output_ is initialized and whether it  *)
(* contains rows of a previous evaluation.  Sort, Filter, Project and      *)
(* GroupByAggregate follow the same protocol and are one kind, "Unary".    *)
(***************************************************************************)
EXTENDS Integers, Sequences

CONSTANT MaxOps  (* bound on the operators of a plan                        *)

ASSUME MaxOpsAssumption == MaxOps \in Nat \ {0}

Ops == 1 .. MaxOps

UnaryKinds == {"Unary", "ScalarAggregate"}
JoinKinds  == {"HashKeyedJoin", "BasicJoin"}
Kinds      == {"None", "SqlInput"} \cup UnaryKinds \cup JoinKinds

(* Kinds whose runSelf() never touches the global communication counter.   *)
UnmeteredKinds == {"ScalarAggregate", "BasicJoin"}

VARIABLES
  nops,       (* operators parsed so far                                    *)
  kind,       (* class of each operator                                     *)
  input,      (* children_: operator numbers, 0 where there is none         *)
  root,       (* root_ once run() has been called on it, 0 before           *)
  stack,      (* call stack of Operator::run / runSelf                      *)
  executed,   (* operator_executed_                                         *)
  live,       (* output_.initialized()                                      *)
  fed,        (* running state of a scalar aggregate holds earlier rows     *)
  stale,      (* output_ contains contributions of an earlier evaluation    *)
  evals,      (* completed runSelf() calls                                  *)
  wire,       (* bytes counted by the network channels                      *)
  cost,       (* ZKGlobalVars::comm_cost                                    *)
  unmetered   (* bytes of operators that do not report their cost           *)

planVars == <<nops, kind, input>>
vars == <<nops, kind, input, root, stack, executed, live, fed, stale, evals,
          wire, cost, unmetered>>

NoInput == [i \in 1 .. 2 |-> 0]

Arity(k) == IF k \in JoinKinds THEN 2 ELSE IF k \in UnaryKinds THEN 1 ELSE 0

Inputs(o) == { input[o][i] : i \in 1 .. Arity(kind[o]) }

Phases == {"run", "children", "fetch", "work", "commit", "finish"}

Frame == [op : Ops, pc : Phases, i : 1 .. 3, mark : Nat, gvMark : Int,
          stale : BOOLEAN]

TypeOK ==
  /\ nops \in 0 .. MaxOps
  /\ kind \in [Ops -> Kinds]
  /\ input \in [Ops -> [1 .. 2 -> 0 .. MaxOps]]
  /\ root \in 0 .. MaxOps
  /\ stack \in Seq(Frame)
  /\ executed \in [Ops -> BOOLEAN]
  /\ live \in [Ops -> BOOLEAN]
  /\ fed \in [Ops -> BOOLEAN]
  /\ stale \in [Ops -> BOOLEAN]
  /\ evals \in [Ops -> Nat]
  /\ wire \in Nat
  /\ cost \in Int
  /\ unmetered \in Nat

Init ==
  /\ nops = 0
  /\ kind = [o \in Ops |-> "None"]
  /\ input = [o \in Ops |-> NoInput]
  /\ root = 0
  /\ stack = << >>
  /\ executed = [o \in Ops |-> FALSE]
  /\ live = [o \in Ops |-> FALSE]
  /\ fed = [o \in Ops |-> FALSE]
  /\ stale = [o \in Ops |-> FALSE]
  /\ evals = [o \in Ops |-> 0]
  /\ wire = 0
  /\ cost = 0
  /\ unmetered = 0

-----------------------------------------------------------------------------
(* Parsing.  operators_ maps plan ids to operators; an input must already  *)
(* be there, so inputs always have smaller numbers than their parents.     *)

(* An operator the plan being parsed may still name as an input.           *)
NameableSelf(c) == c \in 1 .. (nops + 1)

Nameable(c) == c \in 1 .. nops

AddOperator(k, in) ==
  /\ root = 0
  /\ nops < MaxOps
  /\ nops' = nops + 1
  /\ kind' = [kind EXCEPT ![nops + 1] = k]
  /\ input' = [input EXCEPT ![nops + 1] = in]
  /\ UNCHANGED <<root, stack>>

(* A scan runs its query, and commits the rows, in its constructor.        *)
CreateInputOperator ==
  /\ AddOperator("SqlInput", NoInput)
  /\ executed' = [executed EXCEPT ![nops + 1] = TRUE]
  /\ live' = [live EXCEPT ![nops + 1] = TRUE]
  /\ evals' = [evals EXCEPT ![nops + 1] = @ + 1]
  /\ wire' = wire + 1
  /\ cost' = cost + 1
  /\ UNCHANGED <<fed, stale, unmetered>>

(* The Sort that parseAggregate inserts under an unsorted group-by is one  *)
(* more "Unary" operator.                                                  *)
ParseUnary(k, c) ==
  /\ Nameable(c)
  /\ AddOperator(k, [NoInput EXCEPT ![1] = c])
  /\ UNCHANGED <<executed, live, fed, stale, evals, wire, cost, unmetered>>

ParseJoin(k, l, r) ==
  /\ Nameable(l) /\ Nameable(r)
  /\ AddOperator(k, <<l, r>>)
  /\ UNCHANGED <<executed, live, fed, stale, evals, wire, cost, unmetered>>

Parse ==
  \/ CreateInputOperator
  \/ \E k \in UnaryKinds, c \in Ops : ParseUnary(k, c)
  \/ \E k \in JoinKinds, l, r \in Ops : ParseJoin(k, l, r)

-----------------------------------------------------------------------------
(* Execution.                                                              *)

Call(o) == [op |-> o, pc |-> "run", i |-> 1, mark |-> 0, gvMark |-> 0,
            stale |-> FALSE]

Top == stack[Len(stack)]
Running(phase) == Len(stack) > 0 /\ Top.pc = phase

WithTop(f) == [stack EXCEPT ![Len(stack)] = f]
Popped == SubSeq(stack, 1, Len(stack) - 1)

(* The child whose turn it is in a loop over children_.                    *)
HasChildPastEnd == Top.i <= Arity(kind[Top.op]) + 1
HasChild == Top.i <= Arity(kind[Top.op])
Child == input[Top.op][Top.i]

StartRun ==
  /\ root = 0
  /\ nops > 0
  /\ root' = nops
  /\ stack' = <<Call(nops)>>
  /\ UNCHANGED <<planVars, executed, live, fed, stale, evals, wire, cost,
                 unmetered>>

OnlyStack ==
  UNCHANGED <<planVars, root, executed, live, fed, stale, evals, wire, cost,
              unmetered>>

(* The early return at the top of run().                                   *)
CacheHitNotScan(o) == executed[o] /\ kind[o] # "SqlInput"
CacheHit(o) == executed[o]

ReturnCached ==
  /\ Running("run")
  /\ CacheHit(Top.op)
  /\ stack' = Popped
  /\ OnlyStack

EnterRun ==
  /\ Running("run")
  /\ ~CacheHit(Top.op)
  /\ stack' = WithTop([Top EXCEPT !.pc = "children"])
  /\ OnlyStack

RunChildNoAdvance ==
  /\ Running("children")
  /\ HasChild
  /\ stack' = Append(stack, Call(Child))
  /\ OnlyStack

RunChild ==
  /\ Running("children")
  /\ HasChild
  /\ stack' = Append(WithTop([Top EXCEPT !.i = @ + 1]), Call(Child))
  /\ OnlyStack

BeginSelf ==
  /\ Running("children")
  /\ ~HasChild
  /\ stack' = WithTop([Top EXCEPT !.pc = "fetch", !.i = 1])
  /\ OnlyStack

(* getOutput() on a child that still has its output: a deep copy of it.    *)
FetchChild ==
  /\ Running("fetch")
  /\ HasChild
  /\ executed[Child]
  /\ stack' = WithTop([Top EXCEPT !.i = @ + 1, !.stale = @ \/ stale[Child]])
  /\ OnlyStack

(* getOutput() on a child that a sibling has freed in the meantime.        *)
RerunChild ==
  /\ Running("fetch")
  /\ HasChild
  /\ ~executed[Child]
  /\ stack' = Append(stack, Call(Child))
  /\ OnlyStack

(* All inputs are at hand; the counters are read before any work is done.  *)
BeginWork ==
  /\ Running("fetch")
  /\ ~HasChild
  /\ stack' = WithTop([Top EXCEPT !.pc = "work", !.mark = wire,
                                  !.gvMark = cost])
  /\ OnlyStack

(* A keyed join builds Project, Sort and Union operators on the fly, runs  *)
(* them, and they report their own cost; their id is -1, so they free      *)
(* nothing.                                                                *)
SubOperators ==
  /\ Running("work")
  /\ kind[Top.op] = "HashKeyedJoin"
  /\ stack' = WithTop([Top EXCEPT !.pc = "commit"])
  /\ wire' = wire + 1
  /\ cost' = cost + 1
  /\ UNCHANGED <<planVars, root, executed, live, fed, stale, evals, unmetered>>

Work ==
  /\ \/ Running("work") /\ kind[Top.op] # "HashKeyedJoin"
     \/ Running("commit")
  /\ stack' = WithTop([Top EXCEPT !.pc = "finish"])
  /\ wire' = wire + 1
  /\ unmetered' = IF kind[Top.op] \in UnmeteredKinds THEN unmetered + 1
                                                     ELSE unmetered
  /\ UNCHANGED <<planVars, root, executed, live, fed, stale, evals, cost>>

(* What an operator of kind k adds to, or writes into, gv.comm_cost.       *)
ReportedCostNested(k) ==
  IF k \in UnmeteredKinds THEN cost ELSE cost + (wire - Top.mark)

ReportedCost(k) ==
  IF k \in UnmeteredKinds THEN cost
  ELSE IF k = "HashKeyedJoin" THEN Top.gvMark + (wire - Top.mark)
  ELSE cost + (wire - Top.mark)

(* The value of a per-operator flag after Top.op has its output and has    *)
(* reset() the operators of the set freed.                                 *)
AfterReset(flag, freed) ==
  [o \in Ops |-> IF o = Top.op THEN TRUE
                 ELSE IF o \in freed THEN FALSE ELSE flag[o]]

FreedAll == Ops \ {Top.op}
Freed == Inputs(Top.op)

ExecutedKept == [executed EXCEPT ![Top.op] = TRUE]
ExecutedAfter == AfterReset(executed, Freed)

FinishSelf ==
  /\ Running("finish")
  /\ cost' = ReportedCost(kind[Top.op])
  /\ executed' = ExecutedAfter
  /\ live' = AfterReset(live, Freed)
  /\ stale' = [stale EXCEPT ![Top.op] = Top.stale \/ fed[Top.op]]
  /\ fed' = [fed EXCEPT ![Top.op] = kind[Top.op] = "ScalarAggregate"]
  /\ evals' = [evals EXCEPT ![Top.op] = @ + 1]
  /\ stack' = Popped
  /\ UNCHANGED <<planVars, root, wire, unmetered>>

Returned == root # 0 /\ stack = << >>

Terminated == Returned /\ UNCHANGED vars

Run ==
  \/ ReturnCached \/ EnterRun \/ RunChild \/ BeginSelf
  \/ FetchChild \/ RerunChild \/ BeginWork
  \/ SubOperators \/ Work \/ FinishSelf

Next == Parse \/ StartRun \/ Run \/ Terminated

Spec == Init /\ [][Next]_vars /\ WF_vars(Parse \/ StartRun) /\ WF_vars(Run)

-----------------------------------------------------------------------------
(* Properties.                                                             *)

(* An operator is never run from inside its own run: the operators on the  *)
(* call stack get strictly smaller.  run() has no guard against re-entry,  *)
(* so this rests on how the parser numbers the inputs.                     *)
NoReentry ==
  \A i, j \in 1 .. Len(stack) : i < j => stack[j].op < stack[i].op

(* run() and getOutput() return output_ on the strength of                 *)
(* operator_executed_ alone; the table must then be there, whatever order  *)
(* parents freed and re-ran a shared child in.                             *)
NeverReturnsFreed == \A o \in Ops : executed[o] => live[o]

(* From the first byte of its work to the end of it, an operator's inputs  *)
(* stay materialized: no evaluation nested under a sibling frees one.  The *)
(* group-by reads its child three times and relies on it.                  *)
InputsHeld ==
  \A j \in 1 .. Len(stack) :
    stack[j].pc \in {"work", "commit", "finish"} =>
      \A c \in Inputs(stack[j].op) : executed[c] /\ live[c]

(* Between runSelf() calls the global counter accounts for every byte on   *)
(* the wire except those of the operators that do not report: nested       *)
(* sub-operators are not counted twice and re-runs are counted.            *)
BytesAccounted ==
  (Len(stack) = 0 \/ Top.pc \in {"run", "children", "fetch"}) =>
    cost + unmetered = wire

(* Every operator is the input of at most one other.                       *)
IsTree ==
  \A o, p \in Ops, i, j \in 1 .. 2 :
    input[o][i] = input[p][j] /\ input[o][i] # 0 => o = p /\ i = j

(* In a plan without shared inputs no operator is evaluated twice and no   *)
(* output mixes two evaluations.                                           *)
EvaluatedOnceInTree ==
  IsTree => \A o \in Ops : evals[o] <= 1 /\ ~stale[o]

(* The root's run() returns.                                               *)
RunReturns == root # 0 ~> Returned
=============================================================================
