---------------------------- MODULE RowOperators ----------------------------
(***************************************************************************)
(* The operators that work row by row, with nothing to prove but that the  *)
(* circuit was evaluated: Filter, Project, Union, BasicJoin and            *)
(* ScalarAggregate, over tables read from Alice's database and committed.  *)
(* Every step is taken twice: by Alice on her clear rows, and by both      *)
(* parties on the committed ones, in code of its own.                      *)
(*                                                                         *)
(* A query is one operator over its inputs: op, inputs (schema, rows of    *)
(* the database, hasDummyTag), trees (the plan's expressions) and          *)
(* aggregates (type, ordinal; 0 for COUNT's "*").  "Pad" is no operator    *)
(* but the padded copy of a table that a keyed join commits.               *)
(***************************************************************************)
EXTENDS Expressions

CONSTANT Queries   (* a sequence of sets of queries, those of a set alike    *)

Ops == {"Filter", "Project", "Union", "BasicJoin", "ScalarAggregate", "Pad"}

ASSUME QueriesAssumption ==
  \A n \in DOMAIN Queries : \A q \in Queries[n] :
    /\ q.op \in Ops
    /\ Len(q.inputs) = IF q.op \in {"Union", "BasicJoin"} THEN 2 ELSE 1

VARIABLES
  query,
  pc,
  tables,        (* the inputs: schema, plain (Alice's) and secure rows      *)
  output,        (* output_                                                  *)
  cursor,        (* the row, or the pair of rows, the loop is at             *)
  aggregators    (* plain_aggregators_ and secure_aggregators_               *)

vars == <<query, pc, tables, output, cursor, aggregators>>

NoTable == [schema |-> << >>, plain |-> << >>, secure |-> << >>]
noAggregators == [plain |-> << >>, secure |-> << >>]

newZkTable(count, schema) ==
  [schema |-> schema,
   plain  |-> newTable(count, schema),
   secure |-> newTable(count, toSecureSchema(schema))]

lhs == tables[1]
rhs == tables[2]
tree == parseExpression(query.trees[1])

Init ==
  /\ \E n \in DOMAIN Queries : query \in Queries[n]
  /\ pc = "read"
  /\ tables = [t \in DOMAIN query.inputs |-> NoTable]
  /\ output = NoTable
  /\ cursor = 1
  /\ aggregators = noAggregators

(* PsqlDataProvider::getQueryTable, for each scan of the plan.             *)
ReadTables ==
  /\ pc = "read"
  /\ tables' = [t \in DOMAIN query.inputs |->
       LET in == query.inputs[t] IN
       [schema |-> in.schema,
        plain  |-> [i \in DOMAIN in.rows |->
                      psqlGetTuple(in.schema, in.rows[i], in.hasDummyTag)],
        secure |-> << >>]]
  /\ pc' = "commit"
  /\ UNCHANGED <<query, output, cursor, aggregators>>

(* ZkQueryTable's constructor commits a table that was read.               *)
CommitTable ==
  /\ pc = "commit"
  /\ tables' = [tables EXCEPT
       ![cursor].secure = shareTable(tables[cursor].schema, tables[cursor].plain)]
  /\ IF cursor < Len(tables) THEN cursor' = cursor + 1 /\ pc' = pc
                             ELSE cursor' = 1 /\ pc' = "open"
  /\ UNCHANGED <<query, output, aggregators>>

-----------------------------------------------------------------------------
(* Filter::runSelf: over a deep copy of its input.                         *)

OpenFilter ==
  /\ pc = "open" /\ query.op = "Filter"
  /\ output' = lhs
  /\ pc' = "rows"
  /\ UNCHANGED <<query, tables, cursor, aggregators>>

(* filterTuple without the dummy tag the row already has.                  *)
filterTupleRevives(expression, schema, data) ==
  LET dummy_tag == ~callBoolExpression(expression, schema, data)
  IN  clear(schema, setDummyTag(schema, data, dummy_tag), dummy_tag)

(* filterTuple that leaves what it filtered out in place.                  *)
filterTupleKeeps(expression, schema, data) ==
  setDummyTag(schema, data,
    getDummyTag(schema, data) \/ ~callBoolExpression(expression, schema, data))

filterTuple(expression, schema, data) ==
  LET matches == callBoolExpression(expression, schema, data)
      dummy_tag == getDummyTag(schema, data) \/ ~matches
  IN  clear(schema, setDummyTag(schema, data, dummy_tag), dummy_tag)

FilterRow ==
  /\ pc = "rows" /\ query.op = "Filter"
  /\ cursor <= Len(output.plain)
  /\ output' = [output EXCEPT
       !.plain[cursor] = filterTuple(tree, lhs.schema, @),
       !.secure[cursor] = filterTuple(secureExpression(tree),
                                      toSecureSchema(lhs.schema), @)]
  /\ cursor' = cursor + 1
  /\ UNCHANGED <<query, pc, tables, aggregators>>

-----------------------------------------------------------------------------
(* Project.                                                                *)

(* Project::setup: a column that is only passed on keeps its description.  *)
projectSchema(expressions, schema) ==
  [i \in DOMAIN expressions |->
     IF Last(expressions[i]).kind = "INPUT_REF"
     THEN schema[Last(expressions[i]).read_idx]
     ELSE FieldDesc(inferFieldType(expressions[i], schema), 0)]

trees == [i \in DOMAIN query.trees |-> parseExpression(query.trees[i])]

OpenProject ==
  /\ pc = "open" /\ query.op = "Project"
  /\ output' = newZkTable(Len(lhs.plain), projectSchema(trees, lhs.schema))
  /\ pc' = "rows"
  /\ UNCHANGED <<query, tables, cursor, aggregators>>

(* Project::project_tuple.                                                 *)
project_tuple(expressions, srcSchema, src, dstSchema, dst) ==
  FoldLeftDomain(
    LAMBDA row, i :
      setField(dstSchema, row, i, call(expressions[i], srcSchema, src)),
    setDummyTag(dstSchema, dst, getDummyTag(srcSchema, src)), expressions)

ProjectRow ==
  /\ pc = "rows" /\ query.op = "Project"
  /\ cursor <= Len(output.plain)
  /\ LET secureTrees == [i \in DOMAIN trees |-> secureExpression(trees[i])]
         srcSchema == toSecureSchema(lhs.schema)
         dstSchema == toSecureSchema(output.schema)
     IN output' = [output EXCEPT
          !.plain[cursor] =
            project_tuple(trees, lhs.schema, lhs.plain[cursor], output.schema, @),
          !.secure[cursor] =
            project_tuple(secureTrees, srcSchema, lhs.secure[cursor], dstSchema, @)]
  /\ cursor' = cursor + 1
  /\ UNCHANGED <<query, pc, tables, aggregators>>

-----------------------------------------------------------------------------
(* Union::runSelf, and the padded copy.                                    *)

CopyUnion ==
  /\ pc = "open" /\ query.op = "Union"
  /\ sameSchema(lhs.schema, rhs.schema)
  /\ output' = [schema |-> lhs.schema, plain |-> lhs.plain \o rhs.plain,
                secure |-> lhs.secure \o rhs.secure]
  /\ pc' = "done"
  /\ UNCHANGED <<query, tables, cursor, aggregators>>

PadSize == Len(lhs.plain)

Pad ==
  /\ pc = "open" /\ query.op = "Pad"
  /\ LET padded == padZeros(lhs.schema, lhs.plain, PadSize)
     IN  output' = [schema |-> lhs.schema, plain |-> padded,
                    secure |-> commitBytes(lhs.schema, padded)]
  /\ pc' = "done"
  /\ UNCHANGED <<query, tables, cursor, aggregators>>

-----------------------------------------------------------------------------
(* BasicJoin::runSelf: the cross product, one pair of rows at a time.      *)

concatenateSchemas(lhs_schema, rhs_schema) == lhs_schema \o rhs_schema

OpenJoin ==
  /\ pc = "open" /\ query.op = "BasicJoin"
  /\ output' = newZkTable(Len(lhs.plain) * Len(rhs.plain),
                          concatenateSchemas(lhs.schema, rhs.schema))
  /\ pc' = "rows"
  /\ UNCHANGED <<query, tables, cursor, aggregators>>

(* get_dummy_tag that forgets one side.                                    *)
get_dummy_tag_left(lhsDummyTag, rhsDummyTag, predicateEval) ==
  ~predicateEval \/ lhsDummyTag

(* Join::get_dummy_tag.                                                    *)
get_dummy_tag(lhsDummyTag, rhsDummyTag, predicateEval) ==
  ~predicateEval \/ lhsDummyTag \/ rhsDummyTag

concatenateTuples(expression, lhs_schema, l, rhs_schema, r, out_schema, out) ==
  LET left == writeSubset(lhs_schema, l, out_schema, out, 1, Len(lhs_schema), 1)
      both == writeSubset(rhs_schema, r, out_schema, left,
                          1, Len(rhs_schema), Len(lhs_schema) + 1)
  IN  setDummyTag(out_schema, both,
        get_dummy_tag(getDummyTag(lhs_schema, l), getDummyTag(rhs_schema, r),
                      callBoolExpression(expression, out_schema, both)))

(* What the pair is checked for: its columns are those of the two rows, and*)
(* it is a dummy or satisfies the condition.                               *)
checkPair(expression, lhs_schema, l, rhs_schema, r, out_schema, out) ==
  /\ \A k \in DOMAIN lhs_schema :
       Eq(getField(out_schema, out, k), getField(lhs_schema, l, k))
  /\ \A k \in DOMAIN rhs_schema :
       Eq(getField(out_schema, out, Len(lhs_schema) + k),
          getField(rhs_schema, r, k))
  /\ LET predicate_eval == callBoolExpression(expression, out_schema, out)
         check_dummy == \/ getDummyTag(lhs_schema, l)
                        \/ getDummyTag(rhs_schema, r)
                        \/ ~predicate_eval
     IN  \/ check_dummy
         \/ ~getDummyTag(out_schema, out) /\ predicate_eval /\ ~check_dummy

JoinPair ==
  /\ pc = "rows" /\ query.op = "BasicJoin"
  /\ cursor <= Len(output.plain)
  /\ LET i == (cursor - 1) \div Len(rhs.plain) + 1
         j == ((cursor - 1) % Len(rhs.plain)) + 1
         L == toSecureSchema(lhs.schema)
         R == toSecureSchema(rhs.schema)
         O == toSecureSchema(output.schema)
         secureTree == secureExpression(tree)
     IN /\ output' = [output EXCEPT
             !.plain[cursor] =
               concatenateTuples(tree, lhs.schema, lhs.plain[i],
                                 rhs.schema, rhs.plain[j], output.schema, @),
             !.secure[cursor] =
               concatenateTuples(secureTree, L, lhs.secure[i],
                                 R, rhs.secure[j], O, @)]
        /\ pc' = IF checkPair(secureTree, L, lhs.secure[i], R, rhs.secure[j],
                              O, output'.secure[cursor])
                 THEN "rows" ELSE "rejected"
  /\ cursor' = cursor + 1
  /\ UNCHANGED <<query, tables, aggregators>>

CloseRows ==
  /\ pc = "rows"
  /\ cursor > Len(output.plain)
  /\ pc' = "done"
  /\ UNCHANGED <<query, tables, output, cursor, aggregators>>

-----------------------------------------------------------------------------
(* ScalarAggregate: the accumulators of scalar_aggregate_impl.             *)

(* aggregateFactory and the constructors: COUNT runs as a LONG whatever it *)
(* counts, MIN starts from the greatest value and MAX from the least.      *)
newAggregator(def, schema) ==
  LET long == IF SecureSchema(schema) THEN "SECURE_LONG" ELSE "LONG"
      input == IF def.ordinal = 0 THEN long ELSE schema[def.ordinal].type
      type == IF def.type = "COUNT" THEN long ELSE input
      min == IF isEncrypted(type) THEN SecureGetMin(type) ELSE PlainGetMin(type)
      max == IF isEncrypted(type) THEN SecureGetMax(type) ELSE PlainGetMax(type)
  IN  [id |-> def.type, ordinal |-> def.ordinal, type |-> type,
       value |-> CASE def.type = "MIN" -> max
                   [] def.type = "MAX" -> min
                   [] OTHER            -> getZero(type),
       runningCount |-> getZero(type)]

ScalarCountAccumulate(agg, dummy) ==
  [agg EXCEPT !.value = If(dummy, @, Add(@, getOne(agg.type)))]

ScalarSumAccumulate(agg, dummy, aggInput) ==
  [agg EXCEPT !.value = If(dummy, @, Add(@, aggInput))]

(* ScalarMinImpl that takes dummies in.                                    *)
ScalarMinAccumulateDummies(agg, dummy, aggInput) ==
  [agg EXCEPT !.value = If(Geq(aggInput, @), @, aggInput)]

ScalarMinAccumulate(agg, dummy, aggInput) ==
  [agg EXCEPT !.value = If(Geq(aggInput, @) \/ dummy, @, aggInput)]

ScalarMaxAccumulate(agg, dummy, aggInput) ==
  [agg EXCEPT !.value = If(Leq(aggInput, @) \/ dummy, @, aggInput)]

ScalarAvgAccumulate(agg, dummy, aggInput) ==
  [agg EXCEPT !.value = If(dummy, @, Add(@, aggInput)),
              !.runningCount = If(dummy, @, Add(@, getOne(agg.type)))]

accumulate(agg, schema, data) ==
  LET dummy == getDummyTag(schema, data)
      aggInput == getField(schema, data, agg.ordinal)
  IN  CASE agg.id = "COUNT" -> ScalarCountAccumulate(agg, dummy)
        [] agg.id = "SUM"   -> ScalarSumAccumulate(agg, dummy, aggInput)
        [] agg.id = "MIN"   -> ScalarMinAccumulate(agg, dummy, aggInput)
        [] agg.id = "MAX"   -> ScalarMaxAccumulate(agg, dummy, aggInput)
        [] agg.id = "AVG"   -> ScalarAvgAccumulate(agg, dummy, aggInput)

ScalarSumResult(agg) ==
  CASE agg.type = "INT"        -> PlainToLong(agg.value)
    [] agg.type = "SECURE_INT" -> SecureToLong(agg.value)
    [] OTHER                   -> agg.value

(* Rounded to the nearest, in the type of the input.                       *)
ScalarAvgResult(agg) ==
  LET quotient == Divide(agg.value, agg.runningCount)
      remainder == Modulo(agg.value, agg.runningCount)
  IN  If(Leq(Subtract(agg.runningCount, remainder), remainder),
         Add(quotient, getOne(agg.type)), quotient)

getResult(agg) ==
  CASE agg.id = "SUM" -> ScalarSumResult(agg)
    [] agg.id = "AVG" -> ScalarAvgResult(agg)
    [] OTHER          -> agg.value

(* The column for it: that of an average is a LONG although the average of *)
(* an INT column is an INT.                                                *)
getResultType(agg) ==
  CASE agg.id = "SUM" /\ toPlain(agg.type) = "INT" -> "LONG"
    [] agg.id = "AVG" -> "LONG"
    [] OTHER -> toPlain(agg.type)

OpenAggregate ==
  /\ pc = "open" /\ query.op = "ScalarAggregate"
  /\ LET defs == query.aggregates
         plain == [k \in DOMAIN defs |-> newAggregator(defs[k], lhs.schema)]
         secure == [k \in DOMAIN defs |->
                      newAggregator(defs[k], toSecureSchema(lhs.schema))]
     IN /\ aggregators' = [plain |-> plain, secure |-> secure]
        /\ output' = newZkTable(1, [k \in DOMAIN defs |->
                                      FieldDesc(getResultType(plain[k]), 0)])
  /\ pc' = "accumulate"
  /\ UNCHANGED <<query, tables, cursor>>

AccumulateRow ==
  /\ pc = "accumulate" /\ cursor <= Len(lhs.plain)
  /\ aggregators' =
       [plain  |-> [k \in DOMAIN aggregators.plain |->
          accumulate(aggregators.plain[k], lhs.schema, lhs.plain[cursor])],
        secure |-> [k \in DOMAIN aggregators.secure |->
          accumulate(aggregators.secure[k], toSecureSchema(lhs.schema),
                     lhs.secure[cursor])]]
  /\ cursor' = cursor + 1
  /\ UNCHANGED <<query, pc, tables, output>>

(* An average has no answer over no real row, where the clear division     *)
(* traps, nor over floats, of which ModulusVisitor takes no remainder.     *)
NoAnswer(agg) ==
  agg.id = "AVG" /\ (agg.type = "FLOAT" \/ Number(agg.runningCount) = 0)

writeResults(aggs, schema, dst) ==
  setDummyTag(schema,
    FoldLeftDomain(LAMBDA row, k : setField(schema, row, k, getResult(aggs[k])),
                   dst, aggs), FALSE)

WriteResults ==
  /\ pc = "accumulate" /\ cursor > Len(lhs.plain)
  /\ ~\E k \in DOMAIN aggregators.plain : NoAnswer(aggregators.plain[k])
  /\ output' = [output EXCEPT
       !.plain[1] = writeResults(aggregators.plain, output.schema, @),
       !.secure[1] = writeResults(aggregators.secure,
                                  toSecureSchema(output.schema), @)]
  /\ pc' = "done"
  /\ UNCHANGED <<query, tables, cursor, aggregators>>

Crash ==
  /\ pc = "accumulate" /\ cursor > Len(lhs.plain)
  /\ \E k \in DOMAIN aggregators.plain : NoAnswer(aggregators.plain[k])
  /\ pc' = "crashed"
  /\ UNCHANGED <<query, tables, output, cursor, aggregators>>

Terminated == pc \in {"done", "rejected", "crashed"} /\ UNCHANGED vars

Next ==
  \/ ReadTables \/ CommitTable
  \/ OpenFilter \/ FilterRow \/ OpenProject \/ ProjectRow
  \/ CopyUnion \/ Pad
  \/ OpenJoin \/ JoinPair \/ CloseRows
  \/ OpenAggregate \/ AccumulateRow \/ WriteResults \/ Crash
  \/ Terminated

Spec == Init /\ [][Next]_vars
-----------------------------------------------------------------------------
(* Rows have the length their schema gives them, on both sides, and as many*)
(* rows are committed as Alice has.                                        *)
TableOK(table) ==
  /\ \A i \in DOMAIN table.plain :
       /\ Len(table.plain[i]) = schemaSize(table.schema) \div ByteBits
       /\ Range(table.plain[i]) \subseteq 0 .. 2^ByteBits - 1
  /\ \A i \in DOMAIN table.secure :
       table.secure[i] \in
         [1 .. schemaSize(toSecureSchema(table.schema)) -> BOOLEAN]

TypeOK ==
  /\ pc \in {"read", "commit", "open", "rows", "accumulate", "done", "rejected",
             "crashed"}
  /\ \A t \in DOMAIN tables : TableOK(tables[t])
  /\ TableOK(output) /\ Len(output.plain) = Len(output.secure)
  /\ \A k \in DOMAIN aggregators.plain :
       /\ validateTypeAlignment(aggregators.plain[k].value)
       /\ validateTypeAlignment(aggregators.secure[k].value)

-----------------------------------------------------------------------------
(* What a query means: SQL over the rows of the database, in numbers that  *)
(* do not overflow.                                                        *)

SqlInput(schema, row, k) ==
  CASE schema[k].type = "STRING" ->
         row[k] \o [i \in 1 .. schema[k].len - Len(row[k]) |-> Blank]
    [] schema[k].type = "BOOL" -> row[k] # 0
    [] OTHER -> row[k]

StringTypes == {"CHAR", "VARCHAR"}

(* Strings in dictionary order.                                            *)
SqlLess(a, b, strings) ==
  IF strings
  THEN \E i \in DOMAIN a : a[i] < b[i] /\ \A j \in 1 .. i - 1 : a[j] = b[j]
  ELSE a < b

IsString(json, schema, i) ==
  \/ "input" \in DOMAIN json[i] /\ schema[json[i].input + 1].type = "STRING"
  \/ "type" \in DOMAIN json[i] /\ json[i].type \in StringTypes

SqlValue(json, schema, row) ==
  LET value[i \in DOMAIN json] ==
        LET node == json[i]
            a == value[node.operands[1]]
            b == value[node.operands[2]]
            less(x, y) == SqlLess(x, y, IsString(json, schema, node.operands[1]))
        IN IF "input" \in DOMAIN node THEN SqlInput(schema, row, node.input + 1)
           ELSE IF "literal" \in DOMAIN node THEN node.literal
           ELSE CASE node.op = "PLUS"    -> a + b
                  [] node.op = "MINUS"   -> a - b
                  [] node.op = "TIMES"   -> a * b
                  [] node.op = "DIVIDE"  -> IF b = 0 THEN 0 ELSE Quotient(a, b)
                  [] node.op = "MODULUS" -> Remainder(a, b)
                  [] node.op = "EQUALS"     -> a = b
                  [] node.op = "NOT_EQUALS" -> a # b
                  [] node.op = "LESS_THAN"  -> less(a, b)
                  [] node.op = "GREATER_THAN" -> less(b, a)
                  [] node.op = "LESS_THAN_OR_EQUAL" -> ~less(b, a)
                  [] node.op = "GREATER_THAN_OR_EQUAL" -> ~less(a, b)
                  [] node.op = "NOT" -> ~a
                  [] node.op = "AND" ->
                       \A k \in DOMAIN node.operands : value[node.operands[k]]
                  [] node.op = "OR"  ->
                       \E k \in DOMAIN node.operands : value[node.operands[k]]
                  [] node.op = "CASE" -> IF a THEN b ELSE value[node.operands[3]]
  IN  value[Len(json)]

Arithmetic == {"PLUS", "MINUS", "TIMES", "DIVIDE"}

(* Where the engine does as SQL does: no result overflows its type, no     *)
(* floats are nearly equal, connectives have two operands (the parser drops*)
(* the others), and no remainder is taken.                                 *)
Exact(json, schema, row) ==
  \A i \in DOMAIN json : "op" \in DOMAIN json[i] =>
    LET upTo(k) == SubSeq(json, 1, k)
        operands == json[i].operands
        typeOf(k) == inferFieldType(parseExpression(upTo(k)), schema)
        valueOf(k) == SqlValue(upTo(k), schema, row)
        l == valueOf(operands[1])
        r == valueOf(operands[2])
    IN /\ json[i].op # "MODULUS"
       /\ json[i].op \in {"AND", "OR"} => Len(operands) = 2
       /\ json[i].op \in Arithmetic =>
            valueOf(i) = Wrap(valueOf(i), getTypeSize(typeOf(i)))
       /\ json[i].op \in {"EQUALS", "NOT_EQUALS"}
            /\ typeOf(operands[1]) = "FLOAT" =>
            (l = r <=> Tolerance * Magnitude(r - l) <= Magnitude(l))

(* The rows of an input that are not dummies, and a row's columns.         *)
SqlRows(in) ==
  SelectSeq(in.rows, LAMBDA row : ~(in.hasDummyTag /\ Last(row) # 0))
SqlRow(schema, row) == [k \in DOMAIN schema |-> SqlInput(schema, row, k)]
Columns(in, row) == SubSeq(row, 1, Len(in.schema))

(* The rows a query's expressions are evaluated on.                        *)
Domain(q) ==
  LET left == SqlRows(q.inputs[1])
  IN  IF q.op # "BasicJoin" THEN left
      ELSE LET right == SqlRows(q.inputs[2]) IN
           FlattenSeq([i \in DOMAIN left |-> [j \in DOMAIN right |->
             Columns(q.inputs[1], left[i]) \o Columns(q.inputs[2], right[j])]])
DomainSchema(q) ==
  IF q.op = "BasicJoin" THEN q.inputs[1].schema \o q.inputs[2].schema
                        ELSE q.inputs[1].schema

SqlAnswer(q) ==
  LET schema == DomainSchema(q)
      all(rows) == [i \in DOMAIN rows |-> SqlRow(schema, rows[i])]
      holds(row) == SqlValue(q.trees[1], schema, row)
  IN CASE q.op \in {"Filter", "BasicJoin"} -> all(SelectSeq(Domain(q), holds))
       [] q.op = "Project" ->
            [i \in DOMAIN Domain(q) |-> [k \in DOMAIN q.trees |->
               SqlValue(q.trees[k], schema, Domain(q)[i])]]
       [] q.op = "Union" -> all(Domain(q)) \o all(SqlRows(q.inputs[2]))
       [] q.op = "Pad" -> all(Domain(q))

(* The real rows of the output, column by column.                          *)
Answer ==
  LET real == SelectSeq(output.plain,
                        LAMBDA row : ~plainGetDummyTag(output.schema, row))
  IN  [i \in DOMAIN real |-> [k \in DOMAIN output.schema |->
         plainGetField(output.schema, real[i], k).payload]]

ExactQuery ==
  \A k \in DOMAIN query.trees : \A i \in DOMAIN Domain(query) :
    Exact(query.trees[k], DomainSchema(query), Domain(query)[i])

(* What order the circuit gives to strings holds for ASCII characters only:*)
(* it compares the first characters as signed.                             *)
Ordering ==
  {"LESS_THAN", "GREATER_THAN", "LESS_THAN_OR_EQUAL", "GREATER_THAN_OR_EQUAL"}

AsciiOrdered ==
  (\E k \in DOMAIN query.trees : \E i \in DOMAIN query.trees[k] :
     LET node == query.trees[k][i] IN
     /\ "op" \in DOMAIN node /\ node.op \in Ordering
     /\ IsString(query.trees[k], DomainSchema(query), node.operands[1]))
  => \A t \in DOMAIN query.inputs : \A i \in DOMAIN query.inputs[t].rows :
       \A c \in DOMAIN query.inputs[t].schema :
         query.inputs[t].schema[c].type = "STRING" =>
           Range(query.inputs[t].rows[i][c]) \subseteq 0 .. 2^(ByteBits - 1) - 1

(* The committed rows are Alice's, byte by byte, after every step of every *)
(* operator: two implementations of each type, conversion, comparison and  *)
(* operation, and of the layout of a row, agree.  A join's check accepts   *)
(* what an honest Alice computed.                                          *)
SecureAgrees ==
  AsciiOrdered =>
    /\ output.plain = revealTable(toSecureSchema(output.schema), output.secure)
    /\ \A t \in DOMAIN tables : pc \notin {"read", "commit"} =>
         tables[t].plain =
           revealTable(toSecureSchema(tables[t].schema), tables[t].secure)
    /\ pc # "rejected"

(* Real rows of the output are the answer of the query, in order: dummies  *)
(* of the inputs stay out of it, and nothing runs into the next column.    *)
RowsRight ==
  pc = "done" /\ query.op # "ScalarAggregate" /\ ExactQuery =>
    Answer = SqlAnswer(query)

(* A row that Filter leaves out, or that was read or padded as a dummy,    *)
(* keeps nothing of its values: what later operators compute on it, and the*)
(* tables they compare as sets, see zeros.                                 *)
LeftOutRowsZeroed ==
  pc = "done" /\ query.op \in {"Filter", "Union", "Pad"} =>
    \A i \in DOMAIN output.secure :
      LET schema == toSecureSchema(output.schema) IN
      secureGetDummyTag(schema, output.secure[i]) =>
        output.secure[i] = secureSetDummyTag(schema, secureBlank(schema), TRUE)

(* An aggregate is that of the real rows, wherever dummies lie between     *)
(* them.  It is asked only where it can be given: sums that fit the input's*)
(* type, a real row for the least, the greatest and the average, a positive*)
(* value for the greatest of floats (it starts from FLT_MIN), no negative  *)
(* average (it is an INT read as a LONG).                                  *)
AggregateOf(def, values, schema) ==
  LET n == Len(values)
      sum == FoldLeft(LAMBDA s, v : s + v, 0, values)
  IN CASE def.type = "COUNT" -> n
       [] def.type = "SUM" -> sum
       [] def.type = "MIN" ->
            CHOOSE v \in Range(values) : \A u \in Range(values) : v <= u
       [] def.type = "MAX" ->
            CHOOSE v \in Range(values) : \A u \in Range(values) : v >= u
       [] def.type = "AVG" -> (2 * sum + n) \div (2 * n)

Answerable(def, values, schema) ==
  LET size == getTypeSize(schema[def.ordinal].type)
      sum(k) == FoldLeft(LAMBDA s, v : s + v, 0, SubSeq(values, 1, k))
      fits == \A k \in DOMAIN values : sum(k) = Wrap(sum(k), size)
  IN CASE def.type = "COUNT" -> TRUE
       [] def.type = "SUM" -> fits
       [] def.type = "MIN" -> values # << >>
       [] def.type = "MAX" ->
            IF schema[def.ordinal].type = "FLOAT"
            THEN \E v \in Range(values) : v > 0 ELSE values # << >>
       [] def.type = "AVG" -> values # << >> /\ fits /\ sum(Len(values)) >= 0

AggregatesRight ==
  pc = "done" /\ query.op = "ScalarAggregate" =>
    /\ Len(Answer) = 1
    /\ \A k \in DOMAIN query.aggregates :
         LET def == query.aggregates[k]
             rows == Domain(query)
             values == [i \in DOMAIN rows |->
                          IF def.ordinal = 0 THEN 0 ELSE rows[i][def.ordinal]]
         IN  Answerable(def, values, lhs.schema) =>
               Answer[1][k] = AggregateOf(def, values, lhs.schema)
=============================================================================
