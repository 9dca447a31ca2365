------------------------ MODULE OperatorTree_proofs -------------------------
(***************************************************************************)
(* Theorems about OperatorTree, for plans of any size and shape.           *)
(*                                                                         *)
(* Everything rests on one fact about the parser: the inputs of operator o *)
(* have numbers below o (InputsBelow).  The other parts of the inductive   *)
(* invariant describe the call stack: which frames may be below the top,   *)
(* which child each of them is waiting for, and what is already            *)
(* materialized while it waits.                                            *)
(***************************************************************************)
EXTENDS OperatorTree, SequenceTheorems, TLAPS

(* The parser only names operators it has already built.                   *)
InputsBelow == \A o \in Ops : Inputs(o) \subseteq 1 .. (o - 1)

First(o)  == input[o][1]
Second(o) == input[o][2]
Binary(o) == kind[o] \in JoinKinds

(* Nothing runs before run() is called on the root.                        *)
IdleWhileParsing == root = 0 => stack = << >>

(* Frame f waits for the evaluation of called: the child its loop over     *)
(* children_ just called, or its first input, freed by the run of its      *)
(* second, that it asks for again.                                         *)
WaitsFor(f, called) ==
  \/ /\ f.pc = "children"
     /\ \/ f.i = 2 /\ kind[f.op] \in UnaryKinds \cup JoinKinds
           /\ called = First(f.op)
        \/ f.i = 3 /\ Binary(f.op) /\ called = Second(f.op)
  \/ /\ f.pc = "fetch"
     /\ f.i = 1
     /\ Binary(f.op)
     /\ called = First(f.op)
     /\ First(f.op) < Second(f.op)

WaitsForNext ==
  \A j \in 1 .. (Len(stack) - 1) : WaitsFor(stack[j], stack[j + 1].op)

(* What frame f can rely on, where done is executed.  The run of the       *)
(* second input may have freed the first one, but only where the first has *)
(* the smaller number; evaluating the first again then cannot free the     *)
(* second.                                                                 *)
Secured(f, isTop, done) ==
  LET o == f.op
  IN  /\ f.pc = "run" => f.i = 1
      /\ f.pc = "children" =>
           /\ f.i >= 2 => kind[o] \in UnaryKinds \cup JoinKinds
           /\ f.i = 3 => Binary(o)
           /\ (f.i = 2 /\ isTop) => done[First(o)]
           /\ f.i = 3 => done[First(o)] \/ First(o) < Second(o)
           /\ (f.i = 3 /\ isTop) => done[Second(o)]
      /\ f.pc = "fetch" =>
           /\ Binary(o) => done[Second(o)]
           /\ kind[o] \in UnaryKinds \cup JoinKinds =>
                \/ done[First(o)]
                \/ Binary(o) /\ f.i = 1 /\ First(o) < Second(o)
      /\ f.pc \in {"work", "commit", "finish"} =>
           \A c \in Inputs(o) : done[c]

AllSecured ==
  /\ \A j \in 1 .. (Len(stack) - 1) : Secured(stack[j], FALSE, executed)
  /\ Len(stack) > 0 => Secured(Top, TRUE, executed)

(* The byte counts while the operator on top of the stack is at work.      *)
Balanced ==
  LET k == kind[Top.op]
  IN  /\ (Len(stack) = 0 \/ Top.pc \in {"run", "children", "fetch"}) =>
           cost + unmetered = wire
      /\ Running("work") =>
           Top.mark = wire /\ Top.gvMark = cost /\ cost + unmetered = wire
      /\ Running("commit") =>
           k = "HashKeyedJoin" /\ Top.gvMark + unmetered = Top.mark
      /\ Running("finish") =>
           IF k \in UnmeteredKinds THEN cost + unmetered = wire
           ELSE IF k = "HashKeyedJoin" THEN Top.gvMark + unmetered = Top.mark
           ELSE cost + unmetered = Top.mark

IndInv ==
  /\ TypeOK /\ InputsBelow /\ IdleWhileParsing /\ WaitsForNext
  /\ AllSecured /\ NeverReturnsFreed /\ NoReentry /\ Balanced

-----------------------------------------------------------------------------
(* The three ways a step changes the call stack.                           *)

LEMMA PopFacts ==
  ASSUME NEW S, NEW s \in Seq(S), Len(s) > 0
  PROVE  LET p == SubSeq(s, 1, Len(s) - 1)
         IN  /\ p \in Seq(S)
             /\ Len(p) = Len(s) - 1
             /\ \A j \in 1 .. Len(p) : p[j] = s[j]
<1> DEFINE p == SubSeq(s, 1, Len(s) - 1)
<1>1. Len(s) \in Nat /\ s \in [1 .. Len(s) -> S]
  BY LenProperties
<1>2. p \in Seq(S)
  BY <1>1
<1>3. Len(p) = Len(s) - 1
  BY <1>1
<1>4. \A j \in 1 .. Len(p) : p[j] = s[j]
  BY <1>1, <1>3
<1>5. QED
  BY <1>2, <1>3, <1>4

LEMMA ReplaceFacts ==
  ASSUME NEW S, NEW s \in Seq(S), Len(s) > 0, NEW f \in S
  PROVE  LET r == [s EXCEPT ![Len(s)] = f]
         IN  /\ r \in Seq(S)
             /\ Len(r) = Len(s)
             /\ r[Len(s)] = f
             /\ \A j \in 1 .. (Len(s) - 1) : r[j] = s[j]
<1>1. Len(s) \in Nat /\ Len(s) \in 1 .. Len(s)
  BY LenProperties
<1>2. QED
  BY <1>1, ExceptSeq

LEMMA PushFacts ==
  ASSUME NEW S, NEW s \in Seq(S), NEW f \in S
  PROVE  LET r == Append(s, f)
         IN  /\ r \in Seq(S)
             /\ Len(r) = Len(s) + 1
             /\ r[Len(r)] = f
             /\ \A j \in 1 .. Len(s) : r[j] = s[j]
OBVIOUS

(* The frame on top, and the child whose turn it is there.                 *)
LEMMA TopFacts ==
  ASSUME TypeOK, InputsBelow, Len(stack) > 0
  PROVE  /\ Len(stack) \in Nat /\ stack \in Seq(Frame)
         /\ Top \in Frame
         /\ Top.op \in Ops /\ Top.i \in 1 .. 3
         /\ HasChild => Child \in 1 .. (Top.op - 1) /\ Child \in Ops
                        /\ Child \in Inputs(Top.op)
<1>1. stack \in Seq(Frame) /\ Len(stack) \in Nat
  BY LenProperties DEF TypeOK
<1>2. Top \in Frame
  BY <1>1 DEF Top
<1>3. Top.op \in Ops /\ Top.i \in 1 .. 3
  BY <1>2 DEF Frame
<1>4. ASSUME HasChild
      PROVE  Child \in 1 .. (Top.op - 1) /\ Child \in Ops
             /\ Child \in Inputs(Top.op)
  <2>1. Top.i \in 1 .. Arity(kind[Top.op])
    BY <1>3, <1>4 DEF HasChild, Arity
  <2>2. Child \in Inputs(Top.op)
    BY <2>1 DEF Child, Inputs
  <2>3. QED
    BY <1>3, <2>2, MaxOpsAssumption DEF InputsBelow, Ops
<1>5. QED
  BY <1>1, <1>2, <1>3, <1>4

LEMMA FrameFacts ==
  ASSUME TypeOK
  PROVE  \A j \in 1 .. Len(stack) :
            stack[j] \in Frame /\ stack[j].op \in Ops /\ stack[j].i \in 1 .. 3
<1>1. stack \in Seq(Frame)
  BY DEF TypeOK
<1>2. \A j \in 1 .. Len(stack) : stack[j] \in Frame
  BY <1>1, ElementOfSeq
<1>3. \A f \in Frame : f.op \in Ops /\ f.i \in 1 .. 3
  BY DEF Frame
<1>4. QED
  BY <1>2, <1>3

LEMMA InputFacts ==
  ASSUME InputsBelow, NEW o \in Ops
  PROVE  /\ kind[o] \in UnaryKinds \cup JoinKinds =>
               First(o) \in 1 .. (o - 1) /\ First(o) \in Ops
         /\ Binary(o) => Second(o) \in 1 .. (o - 1) /\ Second(o) \in Ops
         /\ kind[o] \in UnaryKinds \ JoinKinds => Inputs(o) = {First(o)}
         /\ Binary(o) => Inputs(o) = {First(o), Second(o)}
         /\ kind[o] \notin UnaryKinds \cup JoinKinds => Inputs(o) = {}
<1>1. Inputs(o) = { input[o][i] : i \in 1 .. Arity(kind[o]) }
  BY DEF Inputs
<1>2. /\ Binary(o) => Arity(kind[o]) = 2
      /\ kind[o] \in UnaryKinds \ JoinKinds => Arity(kind[o]) = 1
      /\ kind[o] \notin UnaryKinds \cup JoinKinds => Arity(kind[o]) = 0
  BY DEF Arity, Binary
<1>3. Binary(o) => Inputs(o) = {First(o), Second(o)}
  BY <1>1, <1>2 DEF First, Second
<1>4. kind[o] \in UnaryKinds \ JoinKinds => Inputs(o) = {First(o)}
  BY <1>1, <1>2 DEF First
<1>5. kind[o] \notin UnaryKinds \cup JoinKinds => Inputs(o) = {}
  BY <1>1, <1>2
<1>6. Inputs(o) \subseteq 1 .. (o - 1) /\ 1 .. (o - 1) \subseteq Ops
  BY MaxOpsAssumption DEF InputsBelow, Ops
<1>7. QED
  BY <1>3, <1>4, <1>5, <1>6 DEF Binary

LEMMA CallFacts == ASSUME NEW o \in Ops PROVE Call(o) \in Frame
BY DEF Call, Frame, Phases

-----------------------------------------------------------------------------
(* Parsing keeps the inputs below their operator.                          *)

LEMMA AddOperatorType ==
  ASSUME TypeOK, InputsBelow, NEW k \in Kinds, NEW in,
         in \in [1 .. 2 -> 0 .. MaxOps],
         \A i \in 1 .. Arity(k) : in[i] \in 1 .. nops,
         AddOperator(k, in)
  PROVE  /\ nops' \in 0 .. MaxOps /\ nops + 1 \in Ops
         /\ kind' \in [Ops -> Kinds]
         /\ input' \in [Ops -> [1 .. 2 -> 0 .. MaxOps]]
         /\ InputsBelow'
<1>1. nops \in Nat /\ nops + 1 \in Ops /\ nops' = nops + 1
  BY MaxOpsAssumption DEF AddOperator, TypeOK, Ops
<1>2. /\ kind' = [kind EXCEPT ![nops + 1] = k]
      /\ input' = [input EXCEPT ![nops + 1] = in]
  BY DEF AddOperator
<1>3. /\ kind' \in [Ops -> Kinds]
      /\ input' \in [Ops -> [1 .. 2 -> 0 .. MaxOps]]
  BY <1>1, <1>2 DEF TypeOK
<1>4. ASSUME NEW o \in Ops
      PROVE  Inputs(o)' \subseteq 1 .. (o - 1)
  <2>1. CASE o = nops + 1
    <3>1. kind'[o] = k /\ input'[o] = in
      BY <1>1, <1>2, <2>1 DEF TypeOK
    <3>2. QED
      BY <1>1, <2>1, <3>1 DEF Inputs
  <2>2. CASE o # nops + 1
    <3>1. kind'[o] = kind[o] /\ input'[o] = input[o]
      BY <1>1, <1>2, <2>2 DEF TypeOK
    <3>2. QED
      BY <3>1 DEF Inputs, InputsBelow
  <2>3. QED
    BY <2>1, <2>2
<1>5. QED
  BY <1>1, <1>3, <1>4, MaxOpsAssumption DEF InputsBelow, Ops

LEMMA ParseType ==
  ASSUME TypeOK, InputsBelow, Parse
  PROVE  TypeOK' /\ InputsBelow'
<1>1. CASE CreateInputOperator
  <2>1. NoInput \in [1 .. 2 -> 0 .. MaxOps]
    BY MaxOpsAssumption DEF NoInput
  <2>2. \A i \in 1 .. Arity("SqlInput") : NoInput[i] \in 1 .. nops
    BY DEF Arity, JoinKinds, UnaryKinds
  <2>3. AddOperator("SqlInput", NoInput) /\ "SqlInput" \in Kinds
    BY <1>1 DEF CreateInputOperator, Kinds
  <2>4. /\ nops' \in 0 .. MaxOps /\ nops + 1 \in Ops
        /\ kind' \in [Ops -> Kinds]
        /\ input' \in [Ops -> [1 .. 2 -> 0 .. MaxOps]]
        /\ InputsBelow'
    BY <2>1, <2>2, <2>3, AddOperatorType
  <2>5. UNCHANGED <<root, stack>>
    BY <2>3 DEF AddOperator
  <2>6. /\ executed' \in [Ops -> BOOLEAN] /\ live' \in [Ops -> BOOLEAN]
        /\ evals' \in [Ops -> Nat] /\ wire' \in Nat /\ cost' \in Int
        /\ UNCHANGED <<fed, stale, unmetered>>
    BY <1>1, <2>4 DEF CreateInputOperator, TypeOK
  <2>7. QED
    BY <2>4, <2>5, <2>6 DEF TypeOK
<1>2. ASSUME NEW k \in UnaryKinds, NEW c \in Ops, ParseUnary(k, c)
      PROVE  TypeOK' /\ InputsBelow'
  <2> DEFINE in == [NoInput EXCEPT ![1] = c]
  <2>1. in \in [1 .. 2 -> 0 .. MaxOps] /\ in[1] = c
    BY MaxOpsAssumption DEF NoInput, Ops
  <2>2. c \in 1 .. nops
    BY <1>2 DEF ParseUnary, Nameable
  <2>3. \A i \in 1 .. Arity(k) : in[i] \in 1 .. nops
    BY <2>1, <2>2 DEF Arity, JoinKinds, UnaryKinds
  <2>4. AddOperator(k, in) /\ k \in Kinds
    BY <1>2 DEF ParseUnary, Kinds
  <2>5. /\ nops' \in 0 .. MaxOps
        /\ kind' \in [Ops -> Kinds]
        /\ input' \in [Ops -> [1 .. 2 -> 0 .. MaxOps]]
        /\ InputsBelow'
    BY <2>1, <2>3, <2>4, AddOperatorType
  <2>6. UNCHANGED <<root, stack, executed, live, fed, stale, evals, wire,
                    cost, unmetered>>
    BY <1>2 DEF ParseUnary, AddOperator
  <2>7. QED
    BY <2>5, <2>6 DEF TypeOK
<1>3. ASSUME NEW k \in JoinKinds, NEW l \in Ops, NEW r \in Ops,
             ParseJoin(k, l, r)
      PROVE  TypeOK' /\ InputsBelow'
  <2>1. <<l, r>> \in [1 .. 2 -> 0 .. MaxOps]
    BY MaxOpsAssumption DEF Ops
  <2>2. l \in 1 .. nops /\ r \in 1 .. nops
    BY <1>3 DEF ParseJoin, Nameable
  <2>3. \A i \in 1 .. Arity(k) : <<l, r>>[i] \in 1 .. nops
    BY <2>2 DEF Arity, JoinKinds, UnaryKinds
  <2>4. AddOperator(k, <<l, r>>) /\ k \in Kinds
    BY <1>3 DEF ParseJoin, Kinds
  <2>5. /\ nops' \in 0 .. MaxOps
        /\ kind' \in [Ops -> Kinds]
        /\ input' \in [Ops -> [1 .. 2 -> 0 .. MaxOps]]
        /\ InputsBelow'
    BY <2>1, <2>3, <2>4, AddOperatorType
  <2>6. UNCHANGED <<root, stack, executed, live, fed, stale, evals, wire,
                    cost, unmetered>>
    BY <1>3 DEF ParseJoin, AddOperator
  <2>7. QED
    BY <2>5, <2>6 DEF TypeOK
<1>4. QED
  BY <1>1, <1>2, <1>3 DEF Parse

-----------------------------------------------------------------------------
(* What each step of Run does to the call stack.                           *)

Pops ==
  /\ Len(stack') = Len(stack) - 1
  /\ \A j \in 1 .. (Len(stack) - 1) : stack'[j] = stack[j]

Replaces(f) ==
  /\ Len(stack') = Len(stack)
  /\ stack'[Len(stack)] = f
  /\ \A j \in 1 .. (Len(stack) - 1) : stack'[j] = stack[j]

Pushes(f, g) ==
  /\ Len(stack') = Len(stack) + 1
  /\ stack'[Len(stack)] = f
  /\ stack'[Len(stack) + 1] = g
  /\ \A j \in 1 .. (Len(stack) - 1) : stack'[j] = stack[j]

LEMMA PopShape ==
  ASSUME TypeOK, Len(stack) > 0, stack' = Popped
  PROVE  stack' \in Seq(Frame) /\ Pops
<1>1. stack \in Seq(Frame)
  BY DEF TypeOK
<1>2. /\ Popped \in Seq(Frame)
      /\ Len(Popped) = Len(stack) - 1
      /\ \A j \in 1 .. Len(Popped) : Popped[j] = stack[j]
  BY <1>1, PopFacts DEF Popped
<1>3. QED
  BY <1>2 DEF Pops

LEMMA ReplaceShape ==
  ASSUME TypeOK, Len(stack) > 0, NEW f \in Frame, stack' = WithTop(f)
  PROVE  stack' \in Seq(Frame) /\ Replaces(f)
<1>1. stack \in Seq(Frame)
  BY DEF TypeOK
<1>2. /\ WithTop(f) \in Seq(Frame)
      /\ Len(WithTop(f)) = Len(stack)
      /\ WithTop(f)[Len(stack)] = f
      /\ \A j \in 1 .. (Len(stack) - 1) : WithTop(f)[j] = stack[j]
  BY <1>1, ReplaceFacts DEF WithTop
<1>3. QED
  BY <1>2 DEF Replaces

LEMMA PushShape ==
  ASSUME TypeOK, Len(stack) > 0, NEW f \in Frame, NEW g \in Frame,
         stack' = Append(WithTop(f), g)
  PROVE  stack' \in Seq(Frame) /\ Pushes(f, g)
<1>1. stack \in Seq(Frame) /\ Len(stack) \in Nat
  BY LenProperties DEF TypeOK
<1> DEFINE w == WithTop(f)
<1>2. /\ w \in Seq(Frame)
      /\ Len(w) = Len(stack)
      /\ w[Len(stack)] = f
      /\ \A j \in 1 .. (Len(stack) - 1) : w[j] = stack[j]
  BY <1>1, ReplaceFacts DEF WithTop
<1> HIDE DEF w
<1>3. /\ Append(w, g) \in Seq(Frame)
      /\ Len(Append(w, g)) = Len(w) + 1
      /\ Append(w, g)[Len(Append(w, g))] = g
      /\ \A j \in 1 .. Len(w) : Append(w, g)[j] = w[j]
  BY <1>2, PushFacts
<1>4. stack' = Append(w, g)
  BY DEF w
<1>5. QED
  BY <1>1, <1>2, <1>3, <1>4 DEF Pushes

(* The same, action by action.                                             *)
LEMMA RunShape ==
  ASSUME TypeOK, InputsBelow
  PROVE  /\ ReturnCached \/ FinishSelf =>
              Len(stack) > 0 /\ stack' \in Seq(Frame) /\ Pops
         /\ EnterRun =>
              /\ Len(stack) > 0 /\ stack' \in Seq(Frame)
              /\ Replaces([Top EXCEPT !.pc = "children"])
         /\ RunChild =>
              /\ Len(stack) > 0 /\ stack' \in Seq(Frame)
              /\ Pushes([Top EXCEPT !.i = @ + 1], Call(Child))
         /\ RerunChild =>
              /\ Len(stack) > 0 /\ stack' \in Seq(Frame)
              /\ Pushes(Top, Call(Child))
         /\ BeginSelf =>
              /\ Len(stack) > 0 /\ stack' \in Seq(Frame)
              /\ Replaces([Top EXCEPT !.pc = "fetch", !.i = 1])
         /\ FetchChild =>
              /\ Len(stack) > 0 /\ stack' \in Seq(Frame)
              /\ Replaces([Top EXCEPT !.i = @ + 1,
                                      !.stale = @ \/ stale[Child]])
         /\ BeginWork =>
              /\ Len(stack) > 0 /\ stack' \in Seq(Frame)
              /\ Replaces([Top EXCEPT !.pc = "work", !.mark = wire,
                                      !.gvMark = cost])
         /\ SubOperators =>
              /\ Len(stack) > 0 /\ stack' \in Seq(Frame)
              /\ Replaces([Top EXCEPT !.pc = "commit"])
         /\ Work =>
              /\ Len(stack) > 0 /\ stack' \in Seq(Frame)
              /\ Replaces([Top EXCEPT !.pc = "finish"])
<1>1. Len(stack) > 0 => Top \in Frame /\ Top.op \in Ops /\ Top.i \in 1 .. 3
  BY TopFacts
<1>2. Len(stack) > 0 /\ HasChild => Child \in Ops /\ Call(Child) \in Frame
  BY TopFacts, CallFacts
<1>3. Len(stack) > 0 /\ HasChild => Top.i + 1 \in 1 .. 3
  BY <1>1 DEF HasChild, Arity
<1>4. Len(stack) > 0 /\ HasChild => stale[Child] \in BOOLEAN
  BY <1>2 DEF TypeOK
<1>5. wire \in Nat /\ cost \in Int
  BY DEF TypeOK
<1>6. ASSUME ReturnCached \/ FinishSelf
      PROVE  Len(stack) > 0 /\ stack' \in Seq(Frame) /\ Pops
  BY <1>6, PopShape DEF ReturnCached, FinishSelf, Running
<1>7. ASSUME EnterRun
      PROVE  /\ Len(stack) > 0 /\ stack' \in Seq(Frame)
             /\ Replaces([Top EXCEPT !.pc = "children"])
  <2>1. Len(stack) > 0 /\ stack' = WithTop([Top EXCEPT !.pc = "children"])
    BY <1>7 DEF EnterRun, Running
  <2>2. [Top EXCEPT !.pc = "children"] \in Frame
    BY <1>1, <2>1 DEF Frame, Phases
  <2>3. QED
    BY <2>1, <2>2, ReplaceShape
<1>8. ASSUME RunChild
      PROVE  /\ Len(stack) > 0 /\ stack' \in Seq(Frame)
             /\ Pushes([Top EXCEPT !.i = @ + 1], Call(Child))
  <2>1. /\ Len(stack) > 0 /\ HasChild
        /\ stack' = Append(WithTop([Top EXCEPT !.i = @ + 1]), Call(Child))
    BY <1>8 DEF RunChild, Running
  <2>2. [Top EXCEPT !.i = @ + 1] \in Frame
    BY <1>1, <1>3, <2>1 DEF Frame
  <2>3. QED
    BY <1>2, <2>1, <2>2, PushShape
<1>9. ASSUME RerunChild
      PROVE  /\ Len(stack) > 0 /\ stack' \in Seq(Frame)
             /\ Pushes(Top, Call(Child))
  <2>1. /\ Len(stack) > 0 /\ HasChild /\ Len(stack) \in Nat
        /\ stack' = Append(stack, Call(Child))
    BY <1>9, TopFacts DEF RerunChild, Running
  <2>2. stack' \in Seq(Frame)
        /\ Len(stack') = Len(stack) + 1
        /\ stack'[Len(stack')] = Call(Child)
        /\ \A j \in 1 .. Len(stack) : stack'[j] = stack[j]
    BY <1>2, <2>1, PushFacts DEF TypeOK
  <2>3. QED
    BY <2>1, <2>2 DEF Pushes, Top
<1>10. ASSUME BeginSelf
       PROVE  /\ Len(stack) > 0 /\ stack' \in Seq(Frame)
              /\ Replaces([Top EXCEPT !.pc = "fetch", !.i = 1])
  <2>1. /\ Len(stack) > 0
        /\ stack' = WithTop([Top EXCEPT !.pc = "fetch", !.i = 1])
    BY <1>10 DEF BeginSelf, Running
  <2>2. [Top EXCEPT !.pc = "fetch"] \in Frame
    BY <1>1, <2>1 DEF Frame, Phases
  <2>3. [Top EXCEPT !.pc = "fetch", !.i = 1] \in Frame
    BY <2>2, 1 \in 1 .. 3, Zenon DEF Frame
  <2>4. QED
    BY <2>1, <2>3, ReplaceShape
<1>11. ASSUME FetchChild
       PROVE  /\ Len(stack) > 0 /\ stack' \in Seq(Frame)
              /\ Replaces([Top EXCEPT !.i = @ + 1,
                                      !.stale = @ \/ stale[Child]])
  <2> DEFINE g == [Top EXCEPT !.i = @ + 1, !.stale = @ \/ stale[Child]]
  <2>1. Len(stack) > 0 /\ HasChild /\ stack' = WithTop(g)
    BY <1>11 DEF FetchChild, Running
  <2>2. g \in Frame
    BY <1>1, <1>3, <1>4, <2>1, Zenon DEF Frame
  <2>3. QED
    BY <2>1, <2>2, ReplaceShape
<1>12. ASSUME BeginWork
       PROVE  /\ Len(stack) > 0 /\ stack' \in Seq(Frame)
              /\ Replaces([Top EXCEPT !.pc = "work", !.mark = wire,
                                      !.gvMark = cost])
  <2> DEFINE g == [Top EXCEPT !.pc = "work", !.mark = wire, !.gvMark = cost]
  <2>1. Len(stack) > 0 /\ stack' = WithTop(g)
    BY <1>12 DEF BeginWork, Running
  <2>2. g \in Frame
    BY <1>1, <1>5, <2>1 DEF Frame, Phases
  <2>3. QED
    BY <2>1, <2>2, ReplaceShape
<1>13. ASSUME SubOperators
       PROVE  /\ Len(stack) > 0 /\ stack' \in Seq(Frame)
              /\ Replaces([Top EXCEPT !.pc = "commit"])
  <2>1. Len(stack) > 0 /\ stack' = WithTop([Top EXCEPT !.pc = "commit"])
    BY <1>13 DEF SubOperators, Running
  <2>2. [Top EXCEPT !.pc = "commit"] \in Frame
    BY <1>1, <2>1 DEF Frame, Phases
  <2>3. QED
    BY <2>1, <2>2, ReplaceShape
<1>14. ASSUME Work
       PROVE  /\ Len(stack) > 0 /\ stack' \in Seq(Frame)
              /\ Replaces([Top EXCEPT !.pc = "finish"])
  <2>1. Len(stack) > 0 /\ stack' = WithTop([Top EXCEPT !.pc = "finish"])
    BY <1>14 DEF Work, Running
  <2>2. [Top EXCEPT !.pc = "finish"] \in Frame
    BY <1>1, <2>1 DEF Frame, Phases
  <2>3. QED
    BY <2>1, <2>2, ReplaceShape
<1>15. QED
  BY <1>6, <1>7, <1>8, <1>9, <1>10, <1>11, <1>12, <1>13, <1>14

(* The same for the fields of the frames that the call stack invariants    *)
(* mention.                                                                *)
Keeps(n) == \A j \in 1 .. n : stack'[j] = stack[j]

Retops(pc, i) ==
  LET n == Len(stack)
  IN  /\ Len(stack') = n
      /\ Keeps(n - 1)
      /\ stack'[n].op = Top.op /\ stack'[n].pc = pc /\ stack'[n].i = i

Calls(i) ==
  LET n == Len(stack)
  IN  /\ Len(stack') = n + 1
      /\ Keeps(n - 1)
      /\ stack'[n].op = Top.op /\ stack'[n].pc = Top.pc /\ stack'[n].i = i
      /\ stack'[n + 1].op = Child /\ stack'[n + 1].pc = "run"
      /\ stack'[n + 1].i = 1

Returns == Len(stack') = Len(stack) - 1 /\ Keeps(Len(stack) - 1)

LEMMA FieldFacts ==
  ASSUME NEW f \in Frame, NEW p, NEW i, NEW m, NEW g, NEW b
  PROVE  /\ [f EXCEPT !.pc = p].op = f.op
         /\ [f EXCEPT !.pc = p].pc = p
         /\ [f EXCEPT !.pc = p].i = f.i
         /\ [f EXCEPT !.pc = p].mark = f.mark
         /\ [f EXCEPT !.pc = p].gvMark = f.gvMark
         /\ [f EXCEPT !.i = i].op = f.op
         /\ [f EXCEPT !.i = i].pc = f.pc
         /\ [f EXCEPT !.i = i].i = i
         /\ [f EXCEPT !.pc = p, !.i = i].op = f.op
         /\ [f EXCEPT !.pc = p, !.i = i].pc = p
         /\ [f EXCEPT !.pc = p, !.i = i].i = i
         /\ [f EXCEPT !.i = i, !.stale = b].op = f.op
         /\ [f EXCEPT !.i = i, !.stale = b].pc = f.pc
         /\ [f EXCEPT !.i = i, !.stale = b].i = i
         /\ [f EXCEPT !.pc = p, !.mark = m, !.gvMark = g].op = f.op
         /\ [f EXCEPT !.pc = p, !.mark = m, !.gvMark = g].pc = p
         /\ [f EXCEPT !.pc = p, !.mark = m, !.gvMark = g].i = f.i
         /\ [f EXCEPT !.pc = p, !.mark = m, !.gvMark = g].mark = m
         /\ [f EXCEPT !.pc = p, !.mark = m, !.gvMark = g].gvMark = g
BY DEF Frame

LEMMA RunFields ==
  ASSUME TypeOK, InputsBelow
  PROVE  /\ Run => Len(stack) > 0 /\ stack' \in Seq(Frame)
         /\ ReturnCached \/ FinishSelf => Returns
         /\ EnterRun => Retops("children", Top.i)
         /\ RunChild => Calls(Top.i + 1)
         /\ RerunChild => Calls(Top.i)
         /\ BeginSelf => Retops("fetch", 1)
         /\ FetchChild => Retops("fetch", Top.i + 1)
         /\ BeginWork => Retops("work", Top.i)
         /\ SubOperators => Retops("commit", Top.i)
         /\ Work => Retops("finish", Top.i)
<1>1. Run => Len(stack) > 0 /\ stack' \in Seq(Frame)
  BY RunShape DEF Run
<1>2. Len(stack) > 0 => Top \in Frame
  BY TopFacts
<1>3. ReturnCached \/ FinishSelf => Returns
  BY RunShape DEF Pops, Returns, Keeps
<1>4. ASSUME EnterRun
      PROVE  Retops("children", Top.i)
  <2>1. Replaces([Top EXCEPT !.pc = "children"]) /\ Top \in Frame
    BY <1>2, <1>4, RunShape
  <2>2. QED
    BY <2>1, FieldFacts DEF Replaces, Retops, Keeps
<1>5. ASSUME RunChild
      PROVE  Calls(Top.i + 1)
  <2>1. Pushes([Top EXCEPT !.i = @ + 1], Call(Child)) /\ Top \in Frame
    BY <1>2, <1>5, RunShape
  <2>2. /\ Call(Child).op = Child /\ Call(Child).pc = "run"
        /\ Call(Child).i = 1
    BY DEF Call
  <2>3. QED
    BY <2>1, <2>2, FieldFacts DEF Pushes, Calls, Keeps
<1>6. ASSUME RerunChild
      PROVE  Calls(Top.i)
  <2>1. Pushes(Top, Call(Child))
    BY <1>6, RunShape
  <2>2. /\ Call(Child).op = Child /\ Call(Child).pc = "run"
        /\ Call(Child).i = 1
    BY DEF Call
  <2>3. QED
    BY <2>1, <2>2 DEF Pushes, Calls, Keeps
<1>7. ASSUME BeginSelf
      PROVE  Retops("fetch", 1)
  <2>1. Replaces([Top EXCEPT !.pc = "fetch", !.i = 1]) /\ Top \in Frame
    BY <1>2, <1>7, RunShape
  <2>2. QED
    BY <2>1, FieldFacts DEF Replaces, Retops, Keeps
<1>8. ASSUME FetchChild
      PROVE  Retops("fetch", Top.i + 1)
  <2>1. /\ Replaces([Top EXCEPT !.i = @ + 1, !.stale = @ \/ stale[Child]])
        /\ Top \in Frame
    BY <1>2, <1>8, RunShape
  <2>2. Top.pc = "fetch"
    BY <1>8 DEF FetchChild, Running
  <2>3. QED
    BY <2>1, <2>2, FieldFacts DEF Replaces, Retops, Keeps
<1>9. ASSUME BeginWork
      PROVE  Retops("work", Top.i)
  <2>1. /\ Replaces([Top EXCEPT !.pc = "work", !.mark = wire,
                                !.gvMark = cost])
        /\ Top \in Frame
    BY <1>2, <1>9, RunShape
  <2>2. QED
    BY <2>1, FieldFacts DEF Replaces, Retops, Keeps
<1>10. ASSUME SubOperators
       PROVE  Retops("commit", Top.i)
  <2>1. Replaces([Top EXCEPT !.pc = "commit"]) /\ Top \in Frame
    BY <1>2, <1>10, RunShape
  <2>2. QED
    BY <2>1, FieldFacts DEF Replaces, Retops, Keeps
<1>11. ASSUME Work
       PROVE  Retops("finish", Top.i)
  <2>1. Replaces([Top EXCEPT !.pc = "finish"]) /\ Top \in Frame
    BY <1>2, <1>11, RunShape
  <2>2. QED
    BY <2>1, FieldFacts DEF Replaces, Retops, Keeps
<1>12. QED
  BY <1>1, <1>3, <1>4, <1>5, <1>6, <1>7, <1>8, <1>9, <1>10, <1>11

-----------------------------------------------------------------------------
(* Types.                                                                  *)

LEMMA FinishTypes ==
  ASSUME TypeOK, InputsBelow, FinishSelf
  PROVE  /\ executed' \in [Ops -> BOOLEAN] /\ live' \in [Ops -> BOOLEAN]
         /\ fed' \in [Ops -> BOOLEAN] /\ stale' \in [Ops -> BOOLEAN]
         /\ evals' \in [Ops -> Nat] /\ cost' \in Int
<1>1. Top \in Frame /\ Top.op \in Ops
  BY TopFacts DEF FinishSelf, Running
<1>2. Top.mark \in Nat /\ Top.gvMark \in Int /\ Top.stale \in BOOLEAN
  BY <1>1 DEF Frame
<1>3. /\ executed' = AfterReset(executed, Freed)
      /\ live' = AfterReset(live, Freed)
  BY DEF FinishSelf, ExecutedAfter
<1>4. executed' \in [Ops -> BOOLEAN] /\ live' \in [Ops -> BOOLEAN]
  BY <1>3 DEF AfterReset, TypeOK
<1>5. stale' \in [Ops -> BOOLEAN]
  BY <1>1, Zenon DEF FinishSelf, TypeOK
<1>6. fed' \in [Ops -> BOOLEAN]
  BY <1>1, Zenon DEF FinishSelf, TypeOK
<1>7. evals' \in [Ops -> Nat]
  BY <1>1 DEF FinishSelf, TypeOK
<1>8. cost' \in Int
  BY <1>2 DEF FinishSelf, ReportedCost, TypeOK
<1>9. QED
  BY <1>4, <1>5, <1>6, <1>7, <1>8

LEMMA TypeStep ==
  ASSUME TypeOK, InputsBelow, [Next]_vars
  PROVE  TypeOK' /\ InputsBelow'
<1>1. CASE Parse
  BY <1>1, ParseType
<1>2. CASE StartRun
  <2>1. nops \in Ops /\ nops \in 0 .. MaxOps
    BY <1>2 DEF StartRun, TypeOK, Ops
  <2>2. stack' \in Seq(Frame)
    BY <1>2, <2>1, CallFacts DEF StartRun
  <2>3. root' \in 0 .. MaxOps
    BY <1>2, <2>1 DEF StartRun
  <2>4. UNCHANGED <<planVars, executed, live, fed, stale, evals, wire, cost,
                    unmetered>>
    BY <1>2 DEF StartRun
  <2>5. QED
    BY <2>2, <2>3, <2>4 DEF TypeOK, planVars, InputsBelow, Inputs
<1>3. CASE Run
  <2>1. stack' \in Seq(Frame)
    BY <1>3, RunFields
  <2>2. UNCHANGED <<planVars, root>>
    BY <1>3 DEF Run, ReturnCached, EnterRun, RunChild, BeginSelf, FetchChild,
                RerunChild, BeginWork, SubOperators, Work, FinishSelf,
                OnlyStack
  <2>3. /\ executed' \in [Ops -> BOOLEAN] /\ live' \in [Ops -> BOOLEAN]
        /\ fed' \in [Ops -> BOOLEAN] /\ stale' \in [Ops -> BOOLEAN]
        /\ evals' \in [Ops -> Nat] /\ wire' \in Nat /\ cost' \in Int
        /\ unmetered' \in Nat
    <3>1. CASE FinishSelf
      <4>1. UNCHANGED <<wire, unmetered>>
        BY <3>1 DEF FinishSelf
      <4>2. QED
        BY <3>1, <4>1, FinishTypes DEF TypeOK
    <3>2. CASE Work \/ SubOperators
      BY <3>2 DEF Work, SubOperators, TypeOK
    <3>3. CASE \/ ReturnCached \/ EnterRun \/ RunChild \/ BeginSelf
               \/ FetchChild \/ RerunChild \/ BeginWork
      BY <3>3 DEF ReturnCached, EnterRun, RunChild, BeginSelf, FetchChild,
                  RerunChild, BeginWork, OnlyStack, TypeOK
    <3>4. QED
      BY <1>3, <3>1, <3>2, <3>3 DEF Run
  <2>4. QED
    BY <2>1, <2>2, <2>3 DEF TypeOK, planVars, InputsBelow, Inputs
<1>4. CASE UNCHANGED vars
  BY <1>4 DEF vars, TypeOK, InputsBelow, Inputs
<1>5. QED
  BY <1>1, <1>2, <1>3, <1>4 DEF Next, Terminated

THEOREM InitIndInv == Init => IndInv
<1> SUFFICES ASSUME Init PROVE IndInv
  OBVIOUS
<1>1. TypeOK
  <2>1. stack \in Seq(Frame)
    BY DEF Init
  <2>2. NoInput \in [1 .. 2 -> 0 .. MaxOps] /\ 0 \in 0 .. MaxOps
    BY MaxOpsAssumption DEF NoInput
  <2>3. QED
    BY <2>1, <2>2 DEF Init, TypeOK, Kinds
<1>2. InputsBelow
  BY DEF Init, InputsBelow, Inputs, Arity, JoinKinds, UnaryKinds
<1>3. Len(stack) = 0
  BY DEF Init
<1>4. WaitsForNext /\ AllSecured /\ NoReentry
  BY <1>3 DEF WaitsForNext, AllSecured, NoReentry
<1>5. IdleWhileParsing /\ NeverReturnsFreed
  BY DEF Init, IdleWhileParsing, NeverReturnsFreed
<1>6. Balanced
  BY <1>3 DEF Init, Balanced, Running
<1>7. QED
  BY <1>1, <1>2, <1>4, <1>5, <1>6 DEF IndInv

-----------------------------------------------------------------------------
(* The call stack: descending operators, each waiting for the next.        *)

LEMMA IdleStep ==
  ASSUME TypeOK, InputsBelow, IdleWhileParsing, [Next]_vars
  PROVE  IdleWhileParsing'
<1>1. CASE Parse
  BY <1>1 DEF Parse, CreateInputOperator, ParseUnary, ParseJoin, AddOperator,
              IdleWhileParsing
<1>2. CASE StartRun
  BY <1>2 DEF StartRun, TypeOK, IdleWhileParsing
<1>3. CASE Run
  <2>1. root' = root
    BY <1>3 DEF Run, ReturnCached, EnterRun, RunChild, BeginSelf, FetchChild,
                RerunChild, BeginWork, SubOperators, Work, FinishSelf,
                OnlyStack
  <2>2. Len(stack) > 0
    BY <1>3, RunFields
  <2>3. QED
    BY <2>1, <2>2 DEF IdleWhileParsing
<1>4. CASE UNCHANGED vars
  BY <1>4 DEF vars, IdleWhileParsing
<1>5. QED
  BY <1>1, <1>2, <1>3, <1>4 DEF Next, Terminated

LEMMA ParseFacts ==
  ASSUME TypeOK, IdleWhileParsing, Parse \/ StartRun
  PROVE  /\ Len(stack) = 0
         /\ Parse => UNCHANGED stack
         /\ StartRun => Len(stack') = 1 /\ stack'[1].pc = "run"
                        /\ UNCHANGED planVars
         /\ Len(stack') \in {0, 1}
<1>1. root = 0
  BY DEF Parse, CreateInputOperator, ParseUnary, ParseJoin, AddOperator,
         StartRun
<1>2. Len(stack) = 0
  BY <1>1 DEF IdleWhileParsing
<1>3. Parse => UNCHANGED stack
  BY DEF Parse, CreateInputOperator, ParseUnary, ParseJoin, AddOperator
<1>4. ASSUME StartRun
      PROVE  Len(stack') = 1 /\ stack'[1].pc = "run" /\ UNCHANGED planVars
  <2>1. stack' = <<Call(nops)>> /\ UNCHANGED planVars
    BY <1>4 DEF StartRun
  <2>2. QED
    BY <2>1 DEF Call
<1>5. QED
  BY <1>2, <1>3, <1>4

LEMMA NoReentryStep ==
  ASSUME TypeOK, InputsBelow, NoReentry, [Next]_vars
  PROVE  NoReentry'
<1>1. CASE Parse \/ UNCHANGED vars
  <2>1. stack' = stack
    BY <1>1 DEF Parse, CreateInputOperator, ParseUnary, ParseJoin,
                AddOperator, vars
  <2>2. QED
    BY <2>1 DEF NoReentry
<1>2. CASE StartRun
  <2>1. Len(stack') = 1
    BY <1>2 DEF StartRun
  <2>2. QED
    BY <2>1 DEF NoReentry
<1>3. ASSUME Run, Returns
      PROVE  NoReentry'
  BY <1>3, TopFacts, RunFields DEF Returns, Keeps, NoReentry
<1>4. ASSUME Run, NEW pc, NEW i, Retops(pc, i)
      PROVE  NoReentry'
  <2>1. Len(stack) \in Nat /\ Len(stack') = Len(stack)
    BY <1>4, RunFields, TopFacts DEF Retops
  <2>2. \A j \in 1 .. Len(stack) : stack'[j].op = stack[j].op
    BY <1>4, <2>1 DEF Retops, Keeps, Top
  <2>3. QED
    BY <2>1, <2>2 DEF NoReentry
<1>5. ASSUME Run, HasChild, NEW i, Calls(i)
      PROVE  NoReentry'
  <2> DEFINE n == Len(stack)
  <2>1. n \in Nat /\ n > 0 /\ Len(stack') = n + 1
    BY <1>5, RunFields, TopFacts DEF Calls
  <2>2. \A j \in 1 .. n : stack'[j].op = stack[j].op
    BY <1>5, <2>1 DEF Calls, Keeps, Top
  <2>3. \A j \in 1 .. n : stack[j].op \in Ops
    BY FrameFacts
  <2>4. stack'[n + 1].op \in Ops /\ stack'[n + 1].op < stack[n].op
    BY <1>5, <2>1, <2>3, TopFacts DEF Calls, Top, Ops
  <2>5. ASSUME NEW j \in 1 .. n
        PROVE  stack'[n + 1].op < stack'[j].op
    <3>1. CASE j = n
      BY <2>2, <2>4, <3>1
    <3>2. CASE j < n
      <4>1. stack[n].op < stack[j].op
        BY <2>1, <3>2 DEF NoReentry
      <4>2. QED
        BY <2>1, <2>2, <2>3, <2>4, <4>1 DEF Ops
    <3>3. QED
      BY <2>1, <3>1, <3>2
  <2>6. QED
    <3> SUFFICES ASSUME NEW a \in 1 .. (n + 1), NEW b \in 1 .. (n + 1), a < b
                 PROVE  stack'[b].op < stack'[a].op
      BY <2>1 DEF NoReentry
    <3>1. CASE b = n + 1
      BY <2>1, <2>5, <3>1
    <3>2. CASE b # n + 1
      BY <2>1, <2>2, <3>2 DEF NoReentry
    <3>3. QED
      BY <3>1, <3>2
<1>6. CASE Run
  <2>1. RunChild \/ RerunChild => HasChild
    BY DEF RunChild, RerunChild
  <2>2. QED
    BY <1>3, <1>4, <1>5, <1>6, <2>1, RunFields DEF Run
<1>7. QED
  BY <1>1, <1>2, <1>6 DEF Next, Terminated

(* What executed looks like after a step of Run.                           *)
LEMMA ExecutedStep ==
  ASSUME TypeOK, InputsBelow, Run
  PROVE  /\ ~FinishSelf => UNCHANGED executed
         /\ FinishSelf =>
              /\ executed'[Top.op] = TRUE
              /\ \A o \in Ops : o > Top.op => executed'[o] = executed[o]
         /\ Top.op \in Ops
         /\ UNCHANGED planVars
<1>1. ~FinishSelf => UNCHANGED executed
  BY DEF Run, ReturnCached, EnterRun, RunChild, BeginSelf, FetchChild,
         RerunChild, BeginWork, SubOperators, Work, OnlyStack
<1>2. UNCHANGED planVars
  BY DEF Run, ReturnCached, EnterRun, RunChild, BeginSelf, FetchChild,
         RerunChild, BeginWork, SubOperators, Work, FinishSelf, OnlyStack
<1>3. ASSUME FinishSelf
      PROVE  /\ executed'[Top.op] = TRUE
             /\ \A o \in Ops : o > Top.op => executed'[o] = executed[o]
  <2>1. Top.op \in Ops
    BY <1>3, TopFacts DEF FinishSelf, Running
  <2>2. \A o \in Ops :
           executed'[o] = IF o = Top.op THEN TRUE
                          ELSE IF o \in Inputs(Top.op) THEN FALSE
                          ELSE executed[o]
    BY <1>3 DEF FinishSelf, ExecutedAfter, AfterReset, Freed
  <2>3. Inputs(Top.op) \subseteq 1 .. (Top.op - 1)
    BY <2>1 DEF InputsBelow
  <2>4. \A o \in Ops : o > Top.op =>
                         o # Top.op /\ o \notin Inputs(Top.op)
    BY <2>1, <2>3, MaxOpsAssumption DEF Ops
  <2>5. QED
    BY <2>1, <2>2, <2>4
<1>4. Top.op \in Ops
  BY RunFields, TopFacts
<1>5. QED
  BY <1>1, <1>2, <1>3, <1>4

LEMMA WaitsStep ==
  ASSUME TypeOK, InputsBelow, WaitsForNext, AllSecured, [Next]_vars,
         IdleWhileParsing
  PROVE  WaitsForNext'
<1>1. CASE Parse \/ StartRun
  <2>1. Len(stack') \in {0, 1}
    BY <1>1, ParseFacts
  <2>2. QED
    BY <2>1 DEF WaitsForNext
<1>2. CASE UNCHANGED vars
  BY <1>2 DEF vars, WaitsForNext, WaitsFor, First, Second, Binary
<1>3. CASE Run
  <2> DEFINE n == Len(stack)
             Waits(j) == WaitsFor(stack'[j], stack'[j + 1].op)
  <2>1. n \in Nat /\ n > 0
    BY <1>3, RunFields, TopFacts
  <2>2. (\A j \in 1 .. (Len(stack') - 1) : Waits(j)) => WaitsForNext'
    BY <1>3, ExecutedStep
       DEF WaitsForNext, WaitsFor, planVars, First, Second, Binary
  <2>3. ASSUME NEW m \in 1 .. n, Keeps(m - 1), stack'[m].op = stack[m].op
        PROVE  \A j \in 1 .. (m - 1) : Waits(j)
    <3> SUFFICES ASSUME NEW j \in 1 .. (m - 1)
                 PROVE  Waits(j)
      OBVIOUS
    <3>1. stack'[j] = stack[j] /\ stack'[j + 1].op = stack[j + 1].op
      BY <2>1, <2>3 DEF Keeps
    <3>2. WaitsFor(stack[j], stack[j + 1].op)
      BY <2>1 DEF WaitsForNext
    <3>3. QED
      BY <3>1, <3>2
  <2>4. ASSUME Returns
        PROVE  WaitsForNext'
    <3>1. CASE n = 1
      BY <2>2, <2>4, <3>1 DEF Returns
    <3>2. CASE n # 1
      <4>1. /\ Len(stack') = n - 1 /\ n - 1 \in 1 .. n
            /\ Keeps(n - 2) /\ stack'[n - 1] = stack[n - 1]
        BY <2>1, <2>4, <3>2 DEF Returns, Keeps
      <4>2. \A j \in 1 .. (n - 2) : Waits(j)
        BY <2>1, <2>3, <4>1
      <4>3. QED
        BY <2>1, <2>2, <4>1, <4>2
    <3>3. QED
      BY <3>1, <3>2
  <2>5. ASSUME NEW pc, NEW i, Retops(pc, i)
        PROVE  WaitsForNext'
    <3>1. Keeps(n - 1) /\ stack'[n].op = stack[n].op /\ Len(stack') = n
      BY <2>5 DEF Retops, Top
    <3>2. QED
      BY <2>1, <2>2, <2>3, <3>1
  <2>6. ASSUME NEW i, Calls(i), Waits(n)
        PROVE  WaitsForNext'
    <3>1. Keeps(n - 1) /\ stack'[n].op = stack[n].op /\ Len(stack') = n + 1
      BY <2>6 DEF Calls, Top
    <3>2. \A j \in 1 .. (n - 1) : Waits(j)
      BY <2>1, <2>3, <3>1
    <3>3. \A j \in 1 .. n : Waits(j)
      BY <2>1, <2>6, <3>2
    <3>4. QED
      BY <2>1, <2>2, <3>1, <3>3
  <2>7. CASE RunChild
    <3>1. Calls(Top.i + 1) /\ Top.pc = "children" /\ HasChild
      BY <2>7, RunFields DEF RunChild, Running
    <3>2. /\ stack'[n].op = Top.op /\ stack'[n].pc = "children"
          /\ stack'[n].i = Top.i + 1
          /\ stack'[n + 1].op = input[Top.op][Top.i]
      BY <3>1 DEF Calls, Child
    <3>3. Top.i \in 1 .. 3 /\ Top.op \in Ops
      BY <2>1, TopFacts
    <3>4. \/ Top.i = 1 /\ kind[Top.op] \in UnaryKinds \cup JoinKinds
          \/ Top.i = 2 /\ kind[Top.op] \in JoinKinds
      BY <3>1, <3>3 DEF HasChild, Arity
    <3>5. Waits(n)
      BY <3>2, <3>4 DEF WaitsFor, First, Second, Binary
    <3>6. QED
      BY <2>6, <3>1, <3>5
  <2>8. CASE RerunChild
    <3>1. /\ Calls(Top.i) /\ Top.pc = "fetch" /\ HasChild
          /\ ~executed[input[Top.op][Top.i]]
      BY <2>8, RunFields DEF RerunChild, Running, Child
    <3>2. /\ stack'[n].op = Top.op /\ stack'[n].pc = "fetch"
          /\ stack'[n].i = Top.i
          /\ stack'[n + 1].op = input[Top.op][Top.i]
      BY <3>1 DEF Calls, Child
    <3>3. Top.i \in 1 .. 3 /\ Top.op \in Ops
      BY <2>1, TopFacts
    <3>4. \/ Top.i = 1 /\ kind[Top.op] \in UnaryKinds \cup JoinKinds
          \/ Top.i = 2 /\ kind[Top.op] \in JoinKinds
      BY <3>1, <3>3 DEF HasChild, Arity
    <3>5. Secured(Top, TRUE, executed)
      BY <2>1 DEF AllSecured
    <3>6. /\ Binary(Top.op) => executed[Second(Top.op)]
          /\ kind[Top.op] \in UnaryKinds \cup JoinKinds =>
               \/ executed[First(Top.op)]
               \/ Binary(Top.op) /\ Top.i = 1
                  /\ First(Top.op) < Second(Top.op)
      BY <3>1, <3>5 DEF Secured
    <3>7. Top.i = 1 /\ Binary(Top.op) /\ First(Top.op) < Second(Top.op)
      BY <3>1, <3>4, <3>6 DEF First, Second, Binary
    <3>8. Waits(n)
      BY <3>2, <3>7 DEF WaitsFor, First, Second, Binary
    <3>9. QED
      BY <2>6, <3>1, <3>8
  <2>9. QED
    BY <1>3, <2>4, <2>5, <2>7, <2>8, RunFields DEF Run
<1>4. QED
  BY <1>1, <1>2, <1>3 DEF Next, Terminated

-----------------------------------------------------------------------------
(* What each frame relies on survives the evaluations nested under it.     *)

(* An evaluation of a smaller operator above a waiting frame does not      *)
(* disturb what that frame relies on.                                      *)
LEMMA SecuredBelow ==
  ASSUME TypeOK, InputsBelow, Run, NEW f \in Frame, NEW called \in Ops,
         WaitsFor(f, called), Top.op <= called, Secured(f, FALSE, executed)
  PROVE  Secured(f, FALSE, executed')
<1> DEFINE o == f.op
<1>1. o \in Ops /\ f.i \in 1 .. 3
  BY DEF Frame
<1>2. kind' = kind /\ input' = input
  BY ExecutedStep DEF planVars
<1>3. Binary(o) => First(o) \in Ops /\ Second(o) \in Ops
  BY <1>1, InputFacts DEF Binary
<1>4. \A c \in Ops : c >= called /\ executed[c] => executed'[c]
  <2> SUFFICES ASSUME NEW c \in Ops, c >= called, executed[c]
               PROVE  executed'[c]
    OBVIOUS
  <2>1. c = Top.op \/ c > Top.op
    BY ExecutedStep, MaxOpsAssumption DEF Ops
  <2>2. QED
    BY <2>1, ExecutedStep
<1>5. CASE f.pc = "children" /\ f.i = 2
           /\ kind[o] \in UnaryKinds \cup JoinKinds
  BY <1>2, <1>5 DEF Secured
<1>6. CASE f.pc = "children" /\ f.i = 3 /\ Binary(o) /\ called = Second(o)
  <2>1. executed[First(o)] \/ First(o) < Second(o)
    BY <1>6 DEF Secured
  <2>2. First(o) < Second(o) \/ First(o) >= called
    BY <1>3, <1>6, MaxOpsAssumption DEF Ops
  <2>3. executed'[First(o)] \/ First(o) < Second(o)
    BY <1>3, <1>4, <1>6, <2>1, <2>2
  <2>4. QED
    BY <1>2, <1>6, <2>3 DEF Secured, First, Second, Binary
<1>7. CASE /\ f.pc = "fetch" /\ f.i = 1 /\ Binary(o) /\ called = First(o)
           /\ First(o) < Second(o)
  <2>1. executed'[Second(o)]
    BY <1>3, <1>4, <1>7, MaxOpsAssumption DEF Secured, Ops
  <2>2. QED
    BY <1>2, <1>7, <2>1 DEF Secured, First, Second, Binary
<1>8. QED
  BY <1>5, <1>6, <1>7 DEF WaitsFor

(* The frame that a step puts in place of the one on top.                  *)
LEMMA SecuredReplaced ==
  ASSUME TypeOK, InputsBelow, Run, Secured(Top, TRUE, executed), Len(stack) > 0,
         EnterRun \/ BeginSelf \/ FetchChild \/ BeginWork \/ SubOperators
           \/ Work,
         NEW g, g = stack'[Len(stack)]
  PROVE  Secured(g, TRUE, executed')
<1> DEFINE o == Top.op
<1>1. kind' = kind /\ input' = input
  BY ExecutedStep DEF planVars
<1>2. o \in Ops /\ Top.i \in 1 .. 3
  BY TopFacts
<1>3. executed' = executed
  BY DEF EnterRun, BeginSelf, FetchChild, BeginWork, SubOperators, Work,
         OnlyStack
<1>4. ASSUME Secured(g, TRUE, executed)
      PROVE  Secured(g, TRUE, executed')
  BY <1>3, <1>4
<1>5. CASE EnterRun
  <2>1. g.pc = "children" /\ g.op = o /\ g.i = Top.i /\ Top.pc = "run"
    BY <1>5, RunFields DEF Retops, EnterRun, Running
  <2>2. g.i = 1
    BY <2>1 DEF Secured
  <2>3. QED
    BY <1>4, <2>1, <2>2 DEF Secured
<1>6. CASE BeginSelf
  <2>1. /\ g.pc = "fetch" /\ g.op = o /\ g.i = 1
        /\ Top.pc = "children" /\ ~HasChild
    BY <1>6, RunFields DEF Retops, BeginSelf, Running
  <2>2. CASE Binary(o)
    <3>1. Top.i = 3
      BY <1>2, <2>1, <2>2 DEF HasChild, Arity, Binary
    <3>2. /\ executed[First(o)] \/ First(o) < Second(o)
          /\ executed[Second(o)]
      BY <2>1, <3>1 DEF Secured
    <3>3. QED
      BY <1>4, <2>1, <2>2, <3>2 DEF Secured
  <2>3. CASE kind[o] \in UnaryKinds /\ ~Binary(o)
    <3>1. Top.i = 2 \/ Top.i = 3
      BY <1>2, <2>1, <2>3 DEF HasChild, Arity, Binary
    <3>2. executed[First(o)]
      BY <2>1, <2>3, <3>1 DEF Secured
    <3>3. QED
      BY <1>4, <2>1, <2>3, <3>2 DEF Secured
  <2>4. CASE kind[o] \notin UnaryKinds \cup JoinKinds
    BY <1>4, <2>1, <2>4 DEF Secured, Binary
  <2>5. QED
    BY <2>2, <2>3, <2>4 DEF Binary
<1>7. CASE FetchChild
  <2>1. /\ g.pc = "fetch" /\ g.op = o /\ g.i = Top.i + 1
        /\ Top.pc = "fetch" /\ HasChild /\ executed[Child]
    BY <1>7, RunFields DEF Retops, FetchChild, Running
  <2>2. Binary(o) => executed[Second(o)]
    BY <2>1 DEF Secured
  <2>3. kind[o] \in UnaryKinds \cup JoinKinds => executed[First(o)]
    <3>1. Top.i = 1 => Child = First(o)
      BY DEF Child, First
    <3>2. QED
      BY <2>1, <3>1 DEF Secured
  <2>4. QED
    BY <1>4, <2>1, <2>2, <2>3 DEF Secured
<1>8. CASE BeginWork
  <2>1. /\ g.pc = "work" /\ g.op = o /\ Top.pc = "fetch" /\ ~HasChild
    BY <1>8, RunFields DEF Retops, BeginWork, Running
  <2>2. kind[o] \in UnaryKinds \cup JoinKinds => Top.i # 1
    BY <2>1 DEF HasChild, Arity
  <2>3. /\ Binary(o) => executed[Second(o)]
        /\ kind[o] \in UnaryKinds \cup JoinKinds => executed[First(o)]
    BY <2>1, <2>2 DEF Secured
  <2>4. \A c \in Inputs(o) : executed[c]
    BY <1>2, <2>3, InputFacts DEF Binary
  <2>5. QED
    BY <1>4, <2>1, <2>4 DEF Secured
<1>9. CASE SubOperators \/ Work
  <2>1. /\ g.pc \in {"commit", "finish"} /\ g.op = o
        /\ Top.pc \in {"work", "commit"}
    BY <1>9, RunFields DEF Retops, SubOperators, Work, Running
  <2>2. \A c \in Inputs(o) : executed[c]
    BY <2>1 DEF Secured
  <2>3. QED
    BY <1>4, <2>1, <2>2 DEF Secured
<1>10. QED
  BY <1>5, <1>6, <1>7, <1>8, <1>9

(* The frame that calls a child, and the one that a return uncovers.       *)
LEMMA SecuredCalling ==
  ASSUME TypeOK, InputsBelow, Run, Secured(Top, TRUE, executed), Len(stack) > 0,
         RunChild \/ RerunChild, NEW g, g = stack'[Len(stack)]
  PROVE  Secured(g, FALSE, executed')
<1> DEFINE o == Top.op
<1>1. kind' = kind /\ input' = input
  BY ExecutedStep DEF planVars
<1>2. o \in Ops /\ Top.i \in 1 .. 3
  BY TopFacts
<1>3. executed' = executed
  BY DEF RunChild, RerunChild, OnlyStack
<1>4. ASSUME Secured(g, FALSE, executed)
      PROVE  Secured(g, FALSE, executed')
  BY <1>3, <1>4
<1>5. CASE RunChild
  <2>1. /\ g.pc = "children" /\ g.op = o /\ g.i = Top.i + 1
        /\ Top.pc = "children" /\ HasChild
    BY <1>5, RunFields DEF Calls, RunChild, Running
  <2>2. \/ Top.i = 1 /\ kind[o] \in UnaryKinds \cup JoinKinds
        \/ Top.i = 2 /\ Binary(o)
    BY <1>2, <2>1 DEF HasChild, Arity, Binary
  <2>3. Top.i = 2 => executed[First(o)]
    BY <2>1 DEF Secured
  <2>4. QED
    BY <1>4, <2>1, <2>2, <2>3 DEF Secured, Binary
<1>6. CASE RerunChild
  <2>1. g.pc = "fetch" /\ g.op = o /\ g.i = Top.i /\ Top.pc = "fetch"
    BY <1>6, RunFields DEF Calls, RerunChild, Running
  <2>2. QED
    BY <1>4, <2>1 DEF Secured
<1>7. QED
  BY <1>5, <1>6

LEMMA SecuredReturned ==
  ASSUME TypeOK, InputsBelow, Run, ReturnCached \/ FinishSelf,
         NEW f \in Frame, WaitsFor(f, Top.op), Secured(f, FALSE, executed')
  PROVE  Secured(f, TRUE, executed')
<1>1. kind' = kind /\ input' = input
  BY ExecutedStep DEF planVars
<1>2. executed'[Top.op]
  BY ExecutedStep DEF ReturnCached, CacheHit, OnlyStack
<1>3. QED
  BY <1>1, <1>2 DEF Secured, WaitsFor, First, Second, Binary

LEMMA SecuredStep ==
  ASSUME TypeOK, InputsBelow, IdleWhileParsing, WaitsForNext, AllSecured,
         NoReentry, [Next]_vars
  PROVE  AllSecured'
<1>1. CASE Parse \/ StartRun
  <2>1. Len(stack) = 0 /\ Len(stack') \in {0, 1}
    BY <1>1, ParseFacts
  <2>2. CASE Len(stack') = 0
    BY <2>2 DEF AllSecured
  <2>3. CASE Len(stack') = 1
    <3>1. StartRun
      BY <1>1, <2>1, <2>3, ParseFacts
    <3>2. Top' = Call(nops)
      BY <3>1 DEF Top, StartRun
    <3>3. Top'.pc = "run" /\ Top'.i = 1
      BY <3>2 DEF Call
    <3>4. QED
      BY <2>3, <3>3 DEF AllSecured, Secured
  <2>4. QED
    BY <2>1, <2>2, <2>3
<1>2. CASE UNCHANGED vars
  BY <1>2 DEF vars, AllSecured, Secured, Top, First, Second, Binary, Inputs
<1>3. CASE Run
  <2> DEFINE n == Len(stack)
             Kept(j) == Secured(stack'[j], FALSE, executed')
  <2>1. n \in Nat /\ n > 0 /\ Top.op \in Ops /\ Secured(Top, TRUE, executed)
    BY <1>3, RunFields, TopFacts DEF AllSecured
  <2>2. \A j \in 1 .. n : stack[j] \in Frame /\ stack[j].op \in Ops
    BY FrameFacts
  <2>3. ASSUME \A j \in 1 .. (Len(stack') - 1) : Kept(j),
               Len(stack') > 0 =>
                 Secured(stack'[Len(stack')], TRUE, executed')
        PROVE  AllSecured'
    BY <1>3, <2>3, ExecutedStep, SMTT(30)
       DEF AllSecured, Secured, Top, planVars, First, Second, Binary, Inputs
  <2>4. ASSUME NEW j \in 1 .. (n - 1)
        PROVE  /\ WaitsFor(stack[j], stack[j + 1].op)
               /\ Secured(stack[j], FALSE, executed')
    <3>1. j \in 1 .. n /\ j + 1 \in 1 .. n
      BY <2>1
    <3>2. Top.op <= stack[j + 1].op
      BY <2>1, <2>2, <3>1, MaxOpsAssumption DEF NoReentry, Top, Ops
    <3>3. /\ Secured(stack[j], FALSE, executed)
          /\ WaitsFor(stack[j], stack[j + 1].op)
      BY DEF AllSecured, WaitsForNext
    <3>4. stack[j] \in Frame /\ stack[j + 1].op \in Ops
      BY <2>2, <3>1
    <3>5. QED
      BY <1>3, <3>2, <3>3, <3>4, SecuredBelow
  <2>5. Keeps(n - 1) => \A j \in 1 .. (n - 1) : Kept(j)
    BY <2>4 DEF Keeps
  <2>6. CASE \/ EnterRun \/ BeginSelf \/ FetchChild \/ BeginWork
             \/ SubOperators \/ Work
    <3>1. Len(stack') = n /\ Keeps(n - 1)
      BY <2>6, RunFields DEF Retops
    <3>2. Secured(stack'[n], TRUE, executed')
      BY <1>3, <2>1, <2>6, SecuredReplaced
    <3>3. QED
      BY <2>3, <2>5, <3>1, <3>2
  <2>7. CASE RunChild \/ RerunChild
    <3>1. /\ Len(stack') = n + 1 /\ Keeps(n - 1)
          /\ stack'[n + 1].pc = "run" /\ stack'[n + 1].i = 1
      BY <2>7, RunFields DEF Calls
    <3>2. Kept(n)
      BY <1>3, <2>1, <2>7, SecuredCalling
    <3>3. \A j \in 1 .. n : Kept(j)
      <4>1. \A j \in 1 .. n : j = n \/ j \in 1 .. (n - 1)
        BY <2>1
      <4>2. \A j \in 1 .. (n - 1) : Kept(j)
        BY <2>5, <3>1
      <4>3. QED
        BY <3>2, <4>1, <4>2
    <3>4. Secured(stack'[n + 1], TRUE, executed')
      BY <3>1 DEF Secured
    <3>5. Len(stack') - 1 = n
      BY <2>1, <3>1
    <3>6. QED
      BY <2>3, <3>1, <3>3, <3>4, <3>5
  <2>8. CASE ReturnCached \/ FinishSelf
    <3>1. Len(stack') = n - 1 /\ Keeps(n - 1)
      BY <2>8, RunFields DEF Returns
    <3>2. CASE n = 1
      BY <2>3, <3>1, <3>2
    <3>3. CASE n # 1
      <4>1. n - 1 \in 1 .. (n - 1) /\ n - 1 \in 1 .. n /\ (n - 1) + 1 = n
        BY <2>1, <3>3
      <4>2. /\ stack[n - 1] \in Frame
            /\ WaitsFor(stack[n - 1], Top.op)
            /\ Secured(stack[n - 1], FALSE, executed')
        <5>1. WaitsFor(stack[n - 1], stack[(n - 1) + 1].op)
          BY <2>4, <4>1
        <5>2. QED
          BY <2>2, <2>4, <4>1, <5>1 DEF Top
      <4>3. Secured(stack[n - 1], TRUE, executed')
        BY <1>3, <2>8, <4>2, SecuredReturned
      <4>4. Secured(stack'[n - 1], TRUE, executed')
        BY <3>1, <4>1, <4>3 DEF Keeps
      <4>5. \A j \in 1 .. (Len(stack') - 1) : Kept(j)
        <5>1. \A j \in 1 .. (Len(stack') - 1) : j \in 1 .. (n - 1)
          BY <2>1, <3>1
        <5>2. QED
          BY <2>5, <3>1, <5>1
      <4>6. QED
        BY <2>3, <3>1, <4>4, <4>5
    <3>4. QED
      BY <3>2, <3>3
  <2>9. QED
    BY <1>3, <2>6, <2>7, <2>8 DEF Run
<1>4. QED
  BY <1>1, <1>2, <1>3 DEF Next, Terminated

-----------------------------------------------------------------------------
(* Byte counts, cached outputs, and the theorems.                          *)

(* Frames below the top are waiting, so none of them is at work.           *)
LEMMA BelowIsWaiting ==
  ASSUME TypeOK, WaitsForNext, Returns, Len(stack') > 0
  PROVE  Top'.pc \in {"children", "fetch"}
<1>1. stack \in Seq(Frame) /\ Len(stack) \in Nat
  BY LenProperties DEF TypeOK
<1>2. Len(stack) - 1 \in 1 .. (Len(stack) - 1) /\ Len(stack') = Len(stack) - 1
  BY <1>1 DEF Returns
<1>3. Top' = stack[Len(stack) - 1]
  BY <1>2 DEF Returns, Keeps, Top
<1>4. WaitsFor(stack[Len(stack) - 1], stack[(Len(stack) - 1) + 1].op)
  BY <1>2 DEF WaitsForNext
<1>5. QED
  BY <1>3, <1>4 DEF WaitsFor

(* The part of Balanced that speaks of the frame on top.                   *)
BalancedTop(f, k, b, c, u) ==
  /\ f.pc \in {"run", "children", "fetch"} => c + u = b
  /\ f.pc = "work" => f.mark = b /\ f.gvMark = c /\ c + u = b
  /\ f.pc = "commit" => k = "HashKeyedJoin" /\ f.gvMark + u = f.mark
  /\ f.pc = "finish" =>
       IF k \in UnmeteredKinds THEN c + u = b
       ELSE IF k = "HashKeyedJoin" THEN f.gvMark + u = f.mark
       ELSE c + u = f.mark

LEMMA BalancedStep ==
  ASSUME TypeOK, InputsBelow, IdleWhileParsing, WaitsForNext, Balanced,
         [Next]_vars
  PROVE  Balanced'
<1>1. CASE Parse \/ StartRun
  <2>1. Len(stack) = 0 /\ Len(stack') \in {0, 1}
    BY <1>1, ParseFacts
  <2>2. cost + unmetered = wire
    BY <2>1 DEF Balanced
  <2>3. cost' + unmetered' = wire'
    <3>1. \/ UNCHANGED <<cost, unmetered, wire>>
          \/ cost' = cost + 1 /\ wire' = wire + 1 /\ UNCHANGED unmetered
      BY <1>1 DEF Parse, CreateInputOperator, ParseUnary, ParseJoin, StartRun
    <3>2. cost \in Int /\ unmetered \in Nat /\ wire \in Nat
      BY DEF TypeOK
    <3>3. QED
      BY <2>2, <3>1, <3>2
  <2>4. Len(stack') # 0 => Top'.pc = "run"
    <3>1. Len(stack') # 0 => StartRun
      BY <1>1, <2>1, ParseFacts
    <3>2. QED
      BY <2>1, <3>1, ParseFacts DEF Top
  <2>5. QED
    BY <2>3, <2>4 DEF Balanced, Running
<1>2. CASE UNCHANGED vars
  BY <1>2 DEF vars, Balanced, Running, Top
<1>3. CASE Run
  <2> DEFINE n == Len(stack)
             k == kind[Top.op]
  <2>1. n \in Nat /\ n > 0 /\ Top \in Frame /\ Top.op \in Ops
    BY <1>3, RunFields, TopFacts
  <2>2. BalancedTop(Top, k, wire, cost, unmetered)
    BY <2>1 DEF Balanced, BalancedTop, Running
  <2>3. UNCHANGED kind
    BY <1>3, ExecutedStep DEF planVars
  <2>4. /\ wire \in Nat /\ cost \in Int /\ unmetered \in Nat
        /\ Top.mark \in Nat /\ Top.gvMark \in Int
    BY <2>1 DEF TypeOK, Frame
  <2>5. CASE ReturnCached \/ FinishSelf
    <3>1. cost' + unmetered' = wire'
      <4>1. CASE ReturnCached
        <5>1. Top.pc = "run"
          BY <4>1 DEF ReturnCached, Running
        <5>2. QED
          BY <2>2, <4>1, <5>1 DEF BalancedTop, ReturnCached, OnlyStack
      <4>2. CASE FinishSelf
        <5>1. Top.pc = "finish" /\ UNCHANGED <<wire, unmetered>>
              /\ cost' = ReportedCost(k)
          BY <4>2 DEF FinishSelf, Running
        <5>2. QED
          BY <2>2, <2>4, <5>1 DEF BalancedTop, ReportedCost
      <4>3. QED
        BY <2>5, <4>1, <4>2
    <3>2. Returns
      BY <2>5, RunFields
    <3>3. Len(stack') > 0 => Top'.pc \in {"children", "fetch"}
      BY <3>2, BelowIsWaiting
    <3>4. QED
      BY <3>1, <3>3 DEF Balanced, Running
  <2>6. CASE RunChild \/ RerunChild
    <3>1. /\ Len(stack') = n + 1 /\ stack'[n + 1].pc = "run"
          /\ Top.pc \in {"children", "fetch"}
      BY <2>6, RunFields DEF Calls, RunChild, RerunChild, Running
    <3>2. Top'.pc = "run"
      BY <3>1 DEF Top
    <3>3. cost' + unmetered' = wire'
      BY <2>2, <2>6, <3>1 DEF BalancedTop, RunChild, RerunChild, OnlyStack
    <3>4. QED
      BY <3>2, <3>3 DEF Balanced, Running
  <2>7. CASE EnterRun \/ BeginSelf \/ FetchChild
    <3>1. /\ Len(stack') = n /\ stack'[n].pc \in {"children", "fetch"}
          /\ Top.pc \in {"run", "children", "fetch"}
      BY <2>7, RunFields DEF Retops, EnterRun, BeginSelf, FetchChild, Running
    <3>2. Top'.pc \in {"children", "fetch"}
      BY <3>1 DEF Top
    <3>3. cost' + unmetered' = wire'
      BY <2>2, <2>7, <3>1
         DEF BalancedTop, EnterRun, BeginSelf, FetchChild, OnlyStack
    <3>4. QED
      BY <3>2, <3>3 DEF Balanced, Running
  <2>8. CASE BeginWork
    <3>1. /\ Len(stack') = n
          /\ stack'[n] = [Top EXCEPT !.pc = "work", !.mark = wire,
                                     !.gvMark = cost]
      BY <2>8, RunShape DEF Replaces
    <3>2. Top'.pc = "work" /\ Top'.mark = wire /\ Top'.gvMark = cost
      BY <2>1, <3>1, FieldFacts DEF Top
    <3>3. Top.pc = "fetch" /\ UNCHANGED <<cost, unmetered, wire>>
      BY <2>8 DEF BeginWork, Running, OnlyStack
    <3>4. QED
      BY <2>2, <3>2, <3>3 DEF Balanced, Running, BalancedTop
  <2>9. CASE SubOperators
    <3>1. /\ Len(stack') = n
          /\ stack'[n] = [Top EXCEPT !.pc = "commit"]
      BY <2>9, RunShape DEF Replaces
    <3>2. /\ Top'.pc = "commit" /\ Top'.mark = Top.mark
          /\ Top'.gvMark = Top.gvMark /\ Top'.op = Top.op
      BY <2>1, <3>1, FieldFacts DEF Top
    <3>3. Top.pc = "work" /\ UNCHANGED unmetered /\ k = "HashKeyedJoin"
      BY <2>9 DEF SubOperators, Running
    <3>4. kind'[Top'.op] = k
      BY <2>3, <3>2
    <3>5. Top.mark = wire /\ Top.gvMark = cost /\ cost + unmetered = wire
      BY <2>2, <3>3 DEF BalancedTop
    <3>6. QED
      BY <2>1, <3>1, <3>2, <3>3, <3>4, <3>5 DEF Balanced, Running
  <2>10. CASE Work
    <3>1. /\ Len(stack') = n
          /\ stack'[n] = [Top EXCEPT !.pc = "finish"]
      BY <2>10, RunShape DEF Replaces
    <3>2. /\ Top'.pc = "finish" /\ Top'.mark = Top.mark
          /\ Top'.gvMark = Top.gvMark /\ Top'.op = Top.op
      BY <2>1, <3>1, FieldFacts DEF Top
    <3>3. /\ wire' = wire + 1 /\ cost' = cost
          /\ unmetered' = IF k \in UnmeteredKinds THEN unmetered + 1
                                                  ELSE unmetered
          /\ \/ Top.pc = "work" /\ k # "HashKeyedJoin"
             \/ Top.pc = "commit"
      BY <2>10 DEF Work, Running
    <3>4. "HashKeyedJoin" \notin UnmeteredKinds
      BY DEF UnmeteredKinds
    <3>5. kind'[Top'.op] = k
      BY <2>3, <3>2
    <3>6. IF k \in UnmeteredKinds THEN cost' + unmetered' = wire'
          ELSE IF k = "HashKeyedJoin" THEN Top.gvMark + unmetered' = Top.mark
          ELSE cost' + unmetered' = Top.mark
      BY <2>2, <2>4, <3>3, <3>4 DEF BalancedTop
    <3>7. QED
      BY <2>1, <3>1, <3>2, <3>5, <3>6 DEF Balanced, Running
  <2>11. QED
    BY <1>3, <2>5, <2>6, <2>7, <2>8, <2>9, <2>10 DEF Run
<1>4. QED
  BY <1>1, <1>2, <1>3 DEF Next, Terminated

LEMMA CachedStep ==
  ASSUME TypeOK, InputsBelow, NeverReturnsFreed, [Next]_vars
  PROVE  NeverReturnsFreed'
<1>1. CASE CreateInputOperator
  BY <1>1 DEF CreateInputOperator, NeverReturnsFreed, TypeOK
<1>2. CASE FinishSelf
  BY <1>2 DEF FinishSelf, ExecutedAfter, AfterReset, NeverReturnsFreed
<1>3. CASE \/ \E k \in UnaryKinds, c \in Ops : ParseUnary(k, c)
           \/ \E k \in JoinKinds, l, r \in Ops : ParseJoin(k, l, r)
           \/ StartRun \/ (Run /\ ~FinishSelf) \/ UNCHANGED vars
  <2>1. UNCHANGED <<executed, live>>
    BY <1>3 DEF ParseUnary, ParseJoin, StartRun, Run, ReturnCached, EnterRun,
                RunChild, BeginSelf, FetchChild, RerunChild, BeginWork,
                SubOperators, Work, OnlyStack, vars
  <2>2. QED
    BY <2>1 DEF NeverReturnsFreed
<1>4. QED
  BY <1>1, <1>2, <1>3 DEF Next, Parse, Terminated

THEOREM IndInvariant == Spec => []IndInv
<1>1. IndInv /\ [Next]_vars => IndInv'
  <2> SUFFICES ASSUME IndInv, [Next]_vars
               PROVE  IndInv'
    OBVIOUS
  <2>1. TypeOK' /\ InputsBelow'
    BY TypeStep DEF IndInv
  <2>2. IdleWhileParsing' /\ NoReentry' /\ WaitsForNext'
    BY IdleStep, NoReentryStep, WaitsStep DEF IndInv
  <2>3. AllSecured' /\ NeverReturnsFreed' /\ Balanced'
    BY SecuredStep, CachedStep, BalancedStep DEF IndInv
  <2>4. QED
    BY <2>1, <2>2, <2>3 DEF IndInv
<1>2. QED
  BY InitIndInv, <1>1, PTL DEF Spec

(* The variables keep their types, for a plan of any size.                 *)
THEOREM TypeCorrect == Spec => []TypeOK
<1>1. IndInv => TypeOK
  BY DEF IndInv
<1>2. QED
  BY <1>1, IndInvariant, PTL

(* run() of an operator never re-enters itself.                            *)
THEOREM NoReentryHolds == Spec => []NoReentry
<1>1. IndInv => NoReentry
  BY DEF IndInv
<1>2. QED
  BY <1>1, IndInvariant, PTL

(* A set operator_executed_ means that output_ is there.                   *)
THEOREM NeverReturnsFreedHolds == Spec => []NeverReturnsFreed
<1>1. IndInv => NeverReturnsFreed
  BY DEF IndInv
<1>2. QED
  BY <1>1, IndInvariant, PTL

(* While an operator works, nothing frees its inputs, however the plan     *)
(* shares them.                                                            *)
THEOREM InputsHeldHolds == Spec => []InputsHeld
<1>1. IndInv => InputsHeld
  <2> SUFFICES ASSUME IndInv,
                      NEW j \in 1 .. Len(stack),
                      stack[j].pc \in {"work", "commit", "finish"},
                      NEW c \in Inputs(stack[j].op)
               PROVE  executed[c] /\ live[c]
    BY DEF InputsHeld
  <2>1. TypeOK /\ InputsBelow /\ AllSecured /\ NeverReturnsFreed
    BY DEF IndInv
  <2>2. Len(stack) \in Nat
    BY <2>1, LenProperties DEF TypeOK
  <2>3. \/ Secured(stack[j], FALSE, executed)
        \/ Secured(stack[j], TRUE, executed)
    <3>1. j = Len(stack) \/ j \in 1 .. (Len(stack) - 1)
      BY <2>2
    <3>2. Len(stack) > 0
      BY <2>2
    <3>3. QED
      BY <2>1, <3>1, <3>2 DEF AllSecured, Top
  <2>4. executed[c]
    BY <2>3 DEF Secured
  <2>5. c \in Ops
    BY <2>1, FrameFacts, MaxOpsAssumption DEF InputsBelow, Ops
  <2>6. QED
    BY <2>1, <2>4, <2>5 DEF NeverReturnsFreed
<1>2. QED
  BY <1>1, IndInvariant, PTL

(* Between runSelf() calls, the reported costs and the bytes of the        *)
(* operators that report none add up to the bytes exchanged.               *)
THEOREM BytesAccountedHolds == Spec => []BytesAccounted
<1>1. IndInv => BytesAccounted
  BY DEF IndInv, Balanced, BytesAccounted
<1>2. QED
  BY <1>1, IndInvariant, PTL

-----------------------------------------------------------------------------
(* Plans in which every operator has at most one parent.                   *)

(* Numbers the parser has not given out yet; and scans, the only operators *)
(* that have been evaluated before run() is called on the root.            *)
UnparsedIdle ==
  /\ \A o \in Ops : o > nops =>
       kind[o] = "None" /\ input[o] = NoInput /\ evals[o] = 0
  /\ root = 0 => \A o \in Ops :
       /\ evals[o] \in {0, 1}
       /\ evals[o] = 1 => executed[o]
       /\ ~fed[o] /\ ~stale[o]

(* The run started from the operator parsed last.                          *)
RunFromRoot ==
  root # 0 => root = nops /\ (Len(stack) > 0 => stack[1].op = nops)

(* What has been evaluated and is no longer there was freed by its parent, *)
(* which will not ask again; what is being evaluated never was before.     *)
OnceOnly ==
  /\ \A o \in Ops :
       /\ evals[o] <= 1 /\ ~stale[o]
       /\ fed[o] => evals[o] = 1
       /\ evals[o] = 1 /\ ~executed[o] =>
            \E p \in Ops : o \in Inputs(p) /\ evals[p] = 1
  /\ \A j \in 1 .. Len(stack) :
       /\ ~stack[j].stale
       /\ stack[j].pc # "run" => evals[stack[j].op] = 0

TreeInv == UnparsedIdle /\ RunFromRoot /\ (IsTree => OnceOnly)

LEMMA ParsedInputs ==
  ASSUME TypeOK, InputsBelow, NEW p \in Ops, NEW o \in Inputs(p)
  PROVE  /\ o \in Ops /\ o < p /\ o # 0
         /\ \E i \in 1 .. 2 : o = input[p][i]
<1>1. PICK i \in 1 .. Arity(kind[p]) : o = input[p][i]
  BY DEF Inputs
<1>2. i \in 1 .. 2
  BY DEF Arity
<1>3. o \in 1 .. (p - 1)
  BY DEF InputsBelow
<1> QED
  BY <1>1, <1>2, <1>3, MaxOpsAssumption DEF Ops

(* In a tree an operator has one parent.                                   *)
LEMMA OneParent ==
  ASSUME TypeOK, InputsBelow, IsTree, NEW p \in Ops, NEW q \in Ops,
         NEW o, o \in Inputs(p), o \in Inputs(q)
  PROVE  p = q
<1>1. PICK i \in 1 .. 2 : o = input[p][i]
  BY ParsedInputs
<1>2. PICK j \in 1 .. 2 : o = input[q][j]
  BY ParsedInputs
<1>3. o # 0
  BY ParsedInputs
<1>4. input[p][i] = input[q][j] /\ input[p][i] # 0
  BY <1>1, <1>2, <1>3
<1> QED
  BY <1>4 DEF IsTree

LEMMA InitTreeInv == Init => TreeInv
<1> SUFFICES ASSUME Init PROVE TreeInv
  OBVIOUS
<1>1. \A o \in Ops : /\ kind[o] = "None" /\ input[o] = NoInput /\ evals[o] = 0
                     /\ ~fed[o] /\ ~stale[o] /\ ~executed[o]
  BY DEF Init
<1>2. Len(stack) = 0 /\ root = 0
  BY DEF Init
<1> QED
  BY <1>1, <1>2 DEF TreeInv, UnparsedIdle, RunFromRoot, OnceOnly

(* While the plan is parsed, operators are added and scans evaluated.      *)
LEMMA ParseOnce ==
  ASSUME TypeOK, IdleWhileParsing, TreeInv, Parse
  PROVE  TreeInv'
<1>1. root = 0 /\ nops \in Nat /\ Len(stack) = 0 /\ UNCHANGED stack
  <2>1. root = 0
    BY DEF Parse, CreateInputOperator, ParseUnary, ParseJoin, AddOperator
  <2>2. nops \in Nat
    BY MaxOpsAssumption DEF TypeOK
  <2> QED
    BY <2>1, <2>2, ParseFacts
<1>2. PICK k, in : k \in Kinds /\ AddOperator(k, in)
  BY DEF Parse, CreateInputOperator, ParseUnary, ParseJoin, Kinds
<1>3. /\ nops' = nops + 1 /\ root' = 0 /\ nops + 1 \in Ops
      /\ kind' = [kind EXCEPT ![nops + 1] = k]
      /\ input' = [input EXCEPT ![nops + 1] = in]
  BY <1>1, <1>2, MaxOpsAssumption DEF AddOperator, TypeOK, Ops
<1>4. /\ UNCHANGED <<fed, stale>>
      /\ \/ UNCHANGED <<executed, evals>>
         \/ /\ executed' = [executed EXCEPT ![nops + 1] = TRUE]
            /\ evals' = [evals EXCEPT ![nops + 1] = @ + 1]
  BY DEF Parse, CreateInputOperator, ParseUnary, ParseJoin
<1>5. /\ executed' \in [Ops -> BOOLEAN] /\ evals' \in [Ops -> Nat]
      /\ \A o \in Ops : o # nops + 1 =>
           evals'[o] = evals[o] /\ executed'[o] = executed[o]
      /\ \/ evals'[nops + 1] = evals[nops + 1] /\ executed'[nops + 1] = executed[nops + 1]
         \/ evals'[nops + 1] = evals[nops + 1] + 1 /\ executed'[nops + 1]
  <2>1. /\ executed \in [Ops -> BOOLEAN] /\ evals \in [Ops -> Nat] /\ nops + 1 \in Ops
    BY <1>3 DEF TypeOK
  <2>2. CASE UNCHANGED <<executed, evals>>
    BY <2>1, <2>2
  <2>3. CASE /\ executed' = [executed EXCEPT ![nops + 1] = TRUE]
             /\ evals' = [evals EXCEPT ![nops + 1] = @ + 1]
    BY <2>1, <2>3
  <2> QED
    BY <1>4, <2>2, <2>3
<1>6. evals[nops + 1] = 0
  BY <1>1, <1>3 DEF TreeInv, UnparsedIdle
<1>7. ASSUME NEW o \in Ops
      PROVE  /\ evals'[o] \in {0, 1}
             /\ evals'[o] = 1 => executed'[o]
             /\ ~fed'[o] /\ ~stale'[o]
  <2>1. CASE o = nops + 1
    BY <1>1, <1>4, <1>5, <1>6, <2>1 DEF TreeInv, UnparsedIdle
  <2>2. CASE o # nops + 1
    BY <1>1, <1>4, <1>5, <2>2 DEF TreeInv, UnparsedIdle
  <2> QED
    BY <2>1, <2>2
<1>8. ASSUME NEW o \in Ops, o > nops'
      PROVE  kind'[o] = "None" /\ input'[o] = NoInput /\ evals'[o] = 0
  <2>1. o > nops /\ o # nops + 1
    BY <1>1, <1>3, <1>8, MaxOpsAssumption DEF Ops
  <2> QED
    BY <1>3, <1>5, <2>1 DEF TreeInv, UnparsedIdle, TypeOK
<1> QED
  BY <1>1, <1>3, <1>7, <1>8 DEF TreeInv, UnparsedIdle, RunFromRoot, OnceOnly

LEMMA StartOnce ==
  ASSUME TypeOK, TreeInv, StartRun
  PROVE  TreeInv'
<1>1. /\ root = 0 /\ root' = nops /\ stack' = <<Call(nops)>>
      /\ nops > 0 /\ nops \in Nat
      /\ UNCHANGED <<planVars, executed, fed, stale, evals>>
  BY DEF StartRun, TypeOK
<1>2. /\ Len(stack') = 1 /\ stack'[1].op = nops /\ stack'[1].pc = "run"
      /\ ~stack'[1].stale
  BY <1>1 DEF Call
<1>3. UnparsedIdle'
  BY <1>1 DEF TreeInv, UnparsedIdle, planVars
<1>4. RunFromRoot'
  BY <1>1, <1>2 DEF RunFromRoot, planVars
<1>5. OnceOnly'
  BY <1>1, <1>2 DEF TreeInv, UnparsedIdle, OnceOnly
<1> QED
  BY <1>3, <1>4, <1>5 DEF TreeInv

(* An operator that is about to be evaluated never was before: its parent  *)
(* below it on the stack has not been, and no other could have freed it.   *)
LEMMA NotEvaluated ==
  ASSUME TypeOK, InputsBelow, WaitsForNext, IdleWhileParsing, UnparsedIdle, RunFromRoot,
         IsTree, OnceOnly, Len(stack) > 0, ~executed[Top.op]
  PROVE  evals[Top.op] = 0
<1> DEFINE n == Len(stack)
           o == Top.op
<1>1. /\ n \in Nat /\ o \in Ops /\ evals[o] \in Nat
      /\ nops \in Nat /\ root # 0
  BY TopFacts, FrameFacts DEF TypeOK, IdleWhileParsing
<1> SUFFICES ASSUME evals[o] = 1 PROVE FALSE
  <2>1. evals[o] <= 1
    BY <1>1 DEF OnceOnly
  <2> QED
    BY <1>1, <2>1
<1>2. PICK p \in Ops : o \in Inputs(p) /\ evals[p] = 1
  BY <1>1 DEF OnceOnly
<1>3. o < p
  BY <1>2, ParsedInputs
<1>4. CASE n = 1
  <2>1. o = nops
    BY <1>1, <1>4 DEF RunFromRoot, Top
  <2> QED
    BY <1>2, <1>3, <2>1, MaxOpsAssumption DEF UnparsedIdle, Ops
<1>5. CASE n # 1
  <2> DEFINE f == stack[n - 1]
  <2>1. n - 1 \in 1 .. (n - 1) /\ n - 1 \in 1 .. n /\ (n - 1) + 1 = n
    BY <1>1, <1>5
  <2>2. WaitsFor(f, o) /\ f.op \in Ops
    BY <2>1, FrameFacts DEF WaitsForNext, Top
  <2>3. evals[f.op] = 0
    BY <2>1, <2>2 DEF WaitsFor, OnceOnly
  <2>4. o \in Inputs(f.op)
    <3>1. \/ kind[f.op] \in UnaryKinds \cup JoinKinds /\ o = First(f.op)
          \/ Binary(f.op) /\ o = Second(f.op)
      BY <2>2 DEF WaitsFor, Binary
    <3>2. UnaryKinds \cap JoinKinds = {}
      BY DEF UnaryKinds, JoinKinds
    <3> QED
      BY <2>2, <3>1, <3>2, InputFacts DEF Binary
  <2> QED
    BY <1>2, <2>2, <2>3, <2>4, OneParent
<1> QED
  BY <1>1, <1>4, <1>5

(* The stale field of the frames a step leaves on the stack.               *)
LEMMA StaleFrames ==
  ASSUME TypeOK, InputsBelow, Run, Len(stack) > 0, ~Top.stale,
         \A o \in Ops : ~stale[o]
  PROVE  /\ RunChild \/ RerunChild =>
              ~stack'[Len(stack)].stale /\ ~stack'[Len(stack) + 1].stale
         /\ (EnterRun \/ BeginSelf \/ FetchChild \/ BeginWork \/ SubOperators \/ Work)
              => ~stack'[Len(stack)].stale
<1>1. Top \in Frame /\ (HasChild => Child \in Ops)
  BY TopFacts
<1>2. ~Call(Child).stale
  BY DEF Call
<1>3. RunChild \/ RerunChild =>
        ~stack'[Len(stack)].stale /\ ~stack'[Len(stack) + 1].stale
  BY <1>1, <1>2, RunShape DEF Pushes, Frame
<1>4. FetchChild => ~stack'[Len(stack)].stale
  <2> SUFFICES ASSUME FetchChild PROVE ~stack'[Len(stack)].stale
    OBVIOUS
  <2>1. ~stale[Child]
    BY <1>1 DEF FetchChild
  <2>2. stack'[Len(stack)] = [Top EXCEPT !.i = @ + 1, !.stale = @ \/ stale[Child]]
    BY RunShape DEF Replaces
  <2>3. stack'[Len(stack)].stale = (Top.stale \/ stale[Child])
    BY <1>1, <2>2 DEF Frame
  <2> QED
    BY <2>1, <2>3
<1>5. EnterRun \/ BeginSelf \/ BeginWork \/ SubOperators \/ Work =>
        ~stack'[Len(stack)].stale
  BY <1>1, RunShape DEF Replaces, Frame
<1> QED
  BY <1>3, <1>4, <1>5

LEMMA RunOnce ==
  ASSUME IndInv, TreeInv, Run
  PROVE  TreeInv'
<1> DEFINE n == Len(stack)
<1>1. /\ TypeOK /\ InputsBelow /\ WaitsForNext /\ IdleWhileParsing /\ NoReentry
      /\ UnparsedIdle /\ RunFromRoot
  BY DEF IndInv, TreeInv
<1>2. /\ n \in Nat /\ n > 0 /\ Top.op \in Ops /\ UNCHANGED planVars /\ UNCHANGED root
      /\ root # 0
  BY <1>1, RunFields, TopFacts, ExecutedStep
  DEF Run, ReturnCached, EnterRun, RunChild, BeginSelf, FetchChild, RerunChild,
      BeginWork, SubOperators, Work, FinishSelf, OnlyStack, IdleWhileParsing
<1>3. Top.op <= nops
  <2>1. nops = stack[1].op /\ 1 \in 1 .. n /\ n \in 1 .. n /\ stack[1].op \in Ops
    BY <1>1, <1>2, FrameFacts DEF RunFromRoot
  <2>2. 1 < n => Top.op < stack[1].op
    BY <1>1, <2>1 DEF NoReentry, Top
  <2> QED
    BY <1>2, <2>1, <2>2, MaxOpsAssumption DEF Ops, Top
<1>4. ~FinishSelf => UNCHANGED <<executed, evals, fed, stale>>
  BY DEF Run, ReturnCached, EnterRun, RunChild, BeginSelf, FetchChild,
         RerunChild, BeginWork, SubOperators, Work, OnlyStack
<1>5. FinishSelf => \A o \in Ops : o # Top.op => evals'[o] = evals[o]
  BY <1>1 DEF FinishSelf, TypeOK
<1>6. UnparsedIdle'
  <2>1. \A o \in Ops : o > nops => evals'[o] = evals[o]
    <3>1. \A o \in Ops : o > nops => o # Top.op
      BY <1>1, <1>2, <1>3, MaxOpsAssumption DEF Ops, TypeOK
    <3> QED
      BY <1>4, <1>5, <3>1
  <2> QED
    BY <1>1, <1>2, <2>1 DEF UnparsedIdle, planVars
<1>7. RunFromRoot'
  <2>1. Len(stack') > 0 => stack'[1].op = stack[1].op
    BY <1>1, <1>2, RunFields DEF Run, Returns, Retops, Calls, Keeps, Top
  <2> QED
    BY <1>1, <1>2, <2>1 DEF RunFromRoot, planVars
<1>8. ASSUME IsTree, OnceOnly PROVE OnceOnly'
  <2>1. n \in 1 .. n /\ ~Top.stale /\ \A o \in Ops : ~stale[o]
    BY <1>2, <1>8 DEF OnceOnly, Top
  <2>2. \A o \in Ops : Inputs(o)' = Inputs(o)
    BY <1>2 DEF Inputs, planVars
  <2>3. CASE FinishSelf
    <3> DEFINE t == Top.op
    <3>1. Top.pc = "finish" /\ evals[t] = 0
      BY <1>8, <2>1, <2>3 DEF FinishSelf, Running, OnceOnly, Top
    <3>2. /\ evals'[t] = 1 /\ executed'[t] /\ stale'[t] = (Top.stale \/ fed[t])
          /\ \A o \in Ops : o # t => /\ evals'[o] = evals[o] /\ stale'[o] = stale[o]
                                     /\ fed'[o] = fed[o]
                                     /\ ~executed'[o] => o \in Inputs(t) \/ ~executed[o]
      BY <1>1, <1>2, <2>3, <3>1 DEF FinishSelf, TypeOK, ExecutedAfter, AfterReset, Freed
    <3>3. ~stale'[t]
      <4>1. ~fed[t]
        BY <1>2, <1>8, <3>1 DEF OnceOnly
      <4> QED
        BY <2>1, <3>2, <4>1
    <3>4. ASSUME NEW o \in Ops
          PROVE  /\ evals'[o] <= 1 /\ ~stale'[o]
                 /\ fed'[o] => evals'[o] = 1
                 /\ evals'[o] = 1 /\ ~executed'[o] =>
                      \E p \in Ops : o \in Inputs(p) /\ evals'[p] = 1
      <4>1. CASE o = t
        BY <3>2, <3>3, <4>1
      <4>2. CASE o # t
        <5>1. evals'[o] <= 1 /\ ~stale'[o] /\ (fed'[o] => evals'[o] = 1)
          BY <1>8, <3>2, <4>2 DEF OnceOnly
        <5>2. ASSUME evals'[o] = 1, ~executed'[o]
              PROVE  \E p \in Ops : o \in Inputs(p) /\ evals'[p] = 1
          <6>1. CASE o \in Inputs(t)
            BY <1>2, <3>2, <6>1
          <6>2. CASE ~executed[o]
            <7>1. PICK p \in Ops : o \in Inputs(p) /\ evals[p] = 1
              BY <1>8, <3>2, <4>2, <5>2, <6>2 DEF OnceOnly
            <7>2. evals'[p] = 1
              BY <3>2, <7>1
            <7> QED
              BY <7>1, <7>2
          <6> QED
            BY <3>2, <4>2, <5>2, <6>1, <6>2
        <5> QED
          BY <5>1, <5>2
      <4> QED
        BY <4>1, <4>2
    <3>5. Len(stack') = n - 1 /\ \A j \in 1 .. (n - 1) : stack'[j] = stack[j]
      BY <1>1, <2>3, RunFields DEF Returns, Keeps
    <3>6. ASSUME NEW j \in 1 .. Len(stack')
          PROVE  /\ ~stack'[j].stale
                 /\ stack'[j].pc # "run" => evals'[stack'[j].op] = 0
      <4>1. j \in 1 .. n /\ j < n /\ stack'[j] = stack[j] /\ stack[j].op \in Ops
        BY <1>1, <1>2, <3>5, FrameFacts
      <4>2. t < stack[j].op
        BY <1>1, <2>1, <4>1 DEF NoReentry, Top
      <4>3. stack[j].op # t
        BY <1>2, <4>1, <4>2, MaxOpsAssumption DEF Ops
      <4> QED
        BY <1>8, <3>2, <4>1, <4>3 DEF OnceOnly
    <3> QED
      BY <2>2, <3>4, <3>6 DEF OnceOnly
  <2>4. CASE ~FinishSelf
    <3>1. UNCHANGED <<executed, evals, fed, stale>>
      BY <1>4, <2>4
    <3>2. ASSUME NEW j \in 1 .. Len(stack')
          PROVE  /\ ~stack'[j].stale
                 /\ stack'[j].pc # "run" => evals[stack'[j].op] = 0
      <4>1. CASE ReturnCached
        BY <1>1, <1>2, <1>8, <4>1, RunFields DEF Returns, Keeps, OnceOnly
      <4>2. CASE EnterRun
        <5>1. ~executed[Top.op]
          BY <4>2 DEF EnterRun, CacheHit
        <5>2. evals[Top.op] = 0
          BY <1>1, <1>2, <1>8, <5>1, NotEvaluated
        <5>3. Retops("children", Top.i) /\ ~stack'[n].stale
          <6>1. Retops("children", Top.i)
            BY <1>1, <4>2, RunFields
          <6> QED
            BY <1>1, <1>2, <2>1, <4>2, <6>1, StaleFrames
        <5> QED
          BY <1>2, <1>8, <5>2, <5>3 DEF Retops, Keeps, OnceOnly
      <4>3. CASE RunChild \/ RerunChild
        <5>1. /\ ~stack'[n].stale /\ ~stack'[n + 1].stale
              /\ Len(stack') = n + 1 /\ Keeps(n - 1)
              /\ stack'[n].op = Top.op /\ stack'[n].pc = Top.pc
              /\ stack'[n + 1].pc = "run"
          BY <1>1, <1>2, <2>1, <4>3, RunFields, StaleFrames DEF Calls
        <5>2. Top.pc # "run" => evals[Top.op] = 0
          BY <1>8, <2>1 DEF OnceOnly, Top
        <5> QED
          BY <1>2, <1>8, <5>1, <5>2 DEF Keeps, OnceOnly
      <4>4. CASE BeginSelf \/ FetchChild \/ BeginWork \/ SubOperators \/ Work
        <5>1. /\ ~stack'[n].stale /\ Len(stack') = n /\ Keeps(n - 1)
              /\ stack'[n].op = Top.op
          <6>1. Len(stack') = n /\ Keeps(n - 1) /\ stack'[n].op = Top.op
            BY <1>1, <4>4, RunFields DEF Retops
          <6> QED
            BY <1>1, <1>2, <2>1, <4>4, <6>1, StaleFrames
        <5>2. Top.pc # "run"
          BY <4>4 DEF BeginSelf, FetchChild, BeginWork, SubOperators, Work, Running
        <5>3. evals[Top.op] = 0
          BY <1>8, <2>1, <5>2 DEF OnceOnly, Top
        <5> QED
          BY <1>2, <1>8, <5>1, <5>3 DEF Keeps, OnceOnly
      <4> QED
        BY <2>4, <4>1, <4>2, <4>3, <4>4 DEF Run
    <3> QED
      BY <1>8, <2>2, <3>1, <3>2 DEF OnceOnly
  <2> QED
    BY <2>3, <2>4
<1>9. IsTree' => IsTree
  BY <1>2 DEF IsTree, planVars
<1> QED
  BY <1>6, <1>7, <1>8, <1>9 DEF TreeInv

(* If every operator has at most one parent, none is evaluated twice, and  *)
(* the running sums of a scalar aggregate start from nothing.              *)
THEOREM EvaluatedOnceHolds == Spec => []EvaluatedOnceInTree
<1>1. IndInv /\ TreeInv /\ [Next]_vars => TreeInv'
  <2> SUFFICES ASSUME IndInv, TreeInv, [Next]_vars PROVE TreeInv'
    OBVIOUS
  <2>1. CASE UNCHANGED vars
    BY <2>1 DEF TreeInv, UnparsedIdle, RunFromRoot, OnceOnly, IsTree, Inputs, vars
  <2> QED
    BY <2>1, ParseOnce, StartOnce, RunOnce DEF Next, Terminated, IndInv
<1>2. TreeInv => EvaluatedOnceInTree
  BY DEF TreeInv, OnceOnly, EvaluatedOnceInTree
<1> QED
  BY InitTreeInv, IndInvariant, <1>1, <1>2, PTL DEF Spec
=============================================================================
