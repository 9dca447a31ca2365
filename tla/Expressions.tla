---------------------------- MODULE Expressions ----------------------------
(***************************************************************************)
(* The expressions of filters, projections and join conditions: parsed     *)
(* from a plan, typed, evaluated on a clear row, and rebuilt node by node  *)
(* to be evaluated on the committed row.                                   *)
(*                                                                         *)
(* A tree is a sequence of nodes in which operands come before the node    *)
(* that uses them; the last is the root, and a node names its operands by  *)
(* their positions.  A plan's tree has the same form: operators with       *)
(* operands, literals with a SQL type, and inputs.                         *)
(***************************************************************************)
EXTENDS Storage

InputReferenceNode(column) == [kind |-> "INPUT_REF", read_idx |-> column]
LiteralNode(field) == [kind |-> "LITERAL", payload |-> field]
NotNode(lhs) == [kind |-> "NOT", lhs |-> lhs]
BinaryNode(kind, lhs, rhs) == [kind |-> kind, lhs |-> lhs, rhs |-> rhs]
CaseNode(cond, lhs, rhs) ==
  [kind |-> "CASE", conditional |-> cond, lhs |-> lhs, rhs |-> rhs]

(* ExpressionFactory::getKind.                                             *)
getKind(name) ==
  CASE name = "MODULUS"               -> "MOD"
    [] name = "EQUALS"                -> "EQ"
    [] name = "NOT_EQUALS"            -> "NEQ"
    [] name = "GREATER_THAN"          -> "GT"
    [] name = "GREATER_THAN_OR_EQUAL" -> "GEQ"
    [] name = "LESS_THAN"             -> "LT"
    [] name = "LESS_THAN_OR_EQUAL"    -> "LEQ"
    [] OTHER                          -> name

(* ExpressionFactory::getExpressionNode: the first two operands, whatever  *)
(* their number.  (Of a NOT it reads a second one that is not there, and   *)
(* drops what it read.)                                                    *)
getExpressionNode(name, operands) ==
  CASE getKind(name) = "CASE" -> CaseNode(operands[1], operands[2], operands[3])
    [] getKind(name) = "NOT"  -> NotNode(operands[1])
    [] OTHER -> BinaryNode(getKind(name), operands[1], operands[2])

(* ExpressionParser: the columns of a plan are numbered from 0.            *)
parseInput(json) ==
  IF "input" \in DOMAIN json THEN InputReferenceNode(json.input + 1)
  ELSE LiteralNode(
    CASE json.type \in {"INTEGER", "DATE"}  -> OfNumber("INT", json.literal)
      [] json.type = "LONG"                 -> OfNumber("LONG", json.literal)
      [] json.type \in {"FLOAT", "DECIMAL"} -> OfNumber("FLOAT", json.literal)
      [] json.type \in {"CHAR", "VARCHAR"}  ->
           Field("STRING", json.literal, json.precision))

parseExpression(tree) ==
  [i \in DOMAIN tree |->
     IF "op" \in DOMAIN tree[i]
     THEN getExpressionNode(tree[i].op, tree[i].operands)
     ELSE parseInput(tree[i])]

-----------------------------------------------------------------------------
(* The call() of each node, on the values of its operands.                 *)

(* No division by zero: it would be undefined in the clear.                *)
DivideCall(lhs, rhs) ==
  LET condition == Eq(rhs, getZero(rhs.type))
      newRhs == If(condition, getOne(rhs.type), rhs)
  IN  If(condition, getZero(rhs.type), Divide(lhs, newRhs))

ModulusCall(lhs, rhs) == Divide(lhs, rhs)

MathCall(kind, lhs, rhs) ==
  CASE kind = "PLUS"   -> Add(lhs, rhs)
    [] kind = "MINUS"  -> Subtract(lhs, rhs)
    [] kind = "TIMES"  -> Multiply(lhs, rhs)
    [] kind = "DIVIDE" -> DivideCall(lhs, rhs)
    [] kind = "MOD"    -> ModulusCall(lhs, rhs)

ComparatorCall(kind, lhs, rhs) ==
  CASE kind = "EQ"  -> Eq(lhs, rhs)
    [] kind = "NEQ" -> Neq(lhs, rhs)
    [] kind = "LT"  -> Lt(lhs, rhs)
    [] kind = "GT"  -> Gt(lhs, rhs)
    [] kind = "LEQ" -> Leq(lhs, rhs)
    [] kind = "GEQ" -> Geq(lhs, rhs)

(* Both operands have been evaluated: neither connector stops early.       *)
ConnectorCall(kind, lhs, rhs) ==
  CASE kind = "AND" -> And(lhs, rhs)
    [] kind = "OR"  -> Or(lhs, rhs)

NotCall(input) == ~input.payload

(* Both branches are evaluated, and one is selected.                       *)
CaseCall(condition, lhs, rhs) == If(condition.payload, lhs, rhs)

MathKinds == {"PLUS", "MINUS", "TIMES", "DIVIDE", "MOD"}
ComparatorKinds == {"EQ", "NEQ", "LT", "GT", "LEQ", "GEQ"}
ConnectorKinds == {"AND", "OR"}

(* Expression<B>::call on a row.                                           *)
call(tree, schema, data) ==
  LET secure == SecureSchema(schema)
      value[i \in DOMAIN tree] ==
        LET node == tree[i]
        IN CASE node.kind = "INPUT_REF" -> getField(schema, data, node.read_idx)
             [] node.kind = "LITERAL"   -> node.payload
             [] node.kind = "NOT" -> BoolField(NotCall(value[node.lhs]), secure)
             [] node.kind = "CASE" ->
                  CaseCall(value[node.conditional], value[node.lhs], value[node.rhs])
             [] node.kind \in MathKinds ->
                  MathCall(node.kind, value[node.lhs], value[node.rhs])
             [] node.kind \in ComparatorKinds ->
                  BoolField(ComparatorCall(node.kind, value[node.lhs],
                                           value[node.rhs]), secure)
             [] node.kind \in ConnectorKinds ->
                  BoolField(ConnectorCall(node.kind, value[node.lhs],
                                          value[node.rhs]), secure)
  IN  value[Len(tree)]

callBoolExpression(tree, schema, data) == call(tree, schema, data).payload

-----------------------------------------------------------------------------
(* PlainToSecureVisitor: the same tree over committed rows.  A literal     *)
(* becomes a public constant of the circuit.                               *)
secureExpression(tree) ==
  [i \in DOMAIN tree |->
     IF tree[i].kind = "LITERAL"
     THEN LiteralNode(secret_share_send(tree[i].payload))
     ELSE tree[i]]

(* TypeInferenceVisitor: the wider operand, the right one of a tie.        *)
typeRank(type) ==
  CASE toPlain(type) = "BOOL"  -> 0
    [] toPlain(type) = "INT"   -> 1
    [] toPlain(type) = "LONG"  -> 2
    [] toPlain(type) = "FLOAT" -> 3

resolveType(lhs, rhs) == IF typeRank(lhs) > typeRank(rhs) THEN lhs ELSE rhs

inferFieldType(tree, schema) ==
  LET bool_type == IF SecureSchema(schema) THEN "SECURE_BOOL" ELSE "BOOL"
      type[i \in DOMAIN tree] ==
        LET node == tree[i]
        IN CASE node.kind = "INPUT_REF" -> schema[node.read_idx].type
             [] node.kind = "LITERAL"   -> node.payload.type
             [] node.kind \in MathKinds \cup {"CASE"} ->
                  resolveType(type[node.lhs], type[node.rhs])
             [] OTHER -> bool_type
  IN  type[Len(tree)]
=============================================================================
