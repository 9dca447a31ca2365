------------------------------- MODULE Fields -------------------------------
(***************************************************************************)
(* Field<B>: one value of a row, in the clear (B = bool, Alice's side) or  *)
(* as a committed circuit value (B = emp::Bit).  Every operation exists    *)
(* twice, once for each B, in the visitors of visitors.h and the factories *)
(* of field_factory.cpp; the engine is right only as long as the two agree.*)
(*                                                                         *)
(* A clear number is an integer of its type's range, a clear string the    *)
(* sequence of its characters.  A committed value is the sequence of its   *)
(* bits, least significant first, and the arithmetic of emp-tool's Bit,    *)
(* Integer and Float is arithmetic on the numbers the bits stand for.      *)
(* Floats are whole: fractions are cut, 1 also stands for FLT_MIN, the     *)
(* smallest float above zero.                                              *)
(***************************************************************************)
EXTENDS Integers, Sequences, SequencesExt

CONSTANTS
  ByteBits,    (* bits of a byte: 8 in the code                             *)
  IntBytes,    (* bytes of int32_t and float_t: 4 in the code               *)
  LongBytes,   (* bytes of int64_t: 8 in the code                           *)
  Tolerance,   (* floats within 1/Tolerance are "equal": 100 in the code    *)
  Blank        (* the character strings are padded with                     *)

ASSUME WidthAssumption ==
  /\ {ByteBits, IntBytes, LongBytes, Tolerance} \subseteq Nat \ {0}
  /\ IntBytes < LongBytes
  /\ Blank \in 0 .. 2^(ByteBits - 1) - 1

PlainTypes == {"BOOL", "INT", "LONG", "FLOAT", "STRING"}
SecureTypes ==
  {"SECURE_BOOL", "SECURE_INT", "SECURE_LONG", "SECURE_FLOAT", "SECURE_STRING"}
FieldType == PlainTypes \cup SecureTypes \cup {"DATE"}

(* TypeUtilities.                                                          *)
toSecure(type) ==
  CASE type = "BOOL"            -> "SECURE_BOOL"
    [] type = "INT"             -> "SECURE_INT"
    [] type \in {"DATE", "LONG"} -> "SECURE_LONG"
    [] type = "STRING"          -> "SECURE_STRING"
    [] type = "FLOAT"           -> "SECURE_FLOAT"
    [] OTHER                    -> type

toPlain(type) ==
  IF type \in SecureTypes
  THEN CHOOSE plain \in PlainTypes : toSecure(plain) = type
  ELSE type

isEncrypted(type) == type \in SecureTypes

(* Bits a value takes in a row; of a string, each of its characters.       *)
getTypeSize(type) ==
  CASE toPlain(type) \in {"BOOL", "STRING"}       -> ByteBits
    [] toPlain(type) \in {"INT", "FLOAT", "DATE"} -> ByteBits * IntBytes
    [] toPlain(type) = "LONG"                     -> ByteBits * LongBytes

(* FieldUtilities::getPhysicalSize: bytes of a clear value, wires of a     *)
(* committed one.                                                          *)
getPhysicalSize(type, len) ==
  CASE type \in {"BOOL", "SECURE_BOOL"} -> 1
    [] type \in {"INT", "FLOAT"}        -> IntBytes
    [] type = "LONG"                    -> LongBytes
    [] type = "STRING"                  -> len
    [] type = "SECURE_STRING"           -> len * ByteBits
    [] OTHER                            -> getTypeSize(type)

-----------------------------------------------------------------------------
(* Numbers, bits and bytes.                                                *)

Bits(n, w) == [k \in 1 .. w |-> (n \div 2^(k - 1)) % 2 = 1]

Unsigned(bits) ==
  FoldLeftDomain(LAMBDA n, k : n + IF bits[k] THEN 2^(k - 1) ELSE 0, 0, bits)

Signed(bits) ==
  Unsigned(bits) - IF bits[Len(bits)] THEN 2^Len(bits) ELSE 0

Wrap(n, w) == ((n + 2^(w - 1)) % 2^w) - 2^(w - 1)

Magnitude(n) == IF n < 0 THEN -n ELSE n

(* C++ and emp::Integer both round a quotient towards zero.                *)
Quotient(a, b) ==
  IF (a < 0) = (b < 0) THEN Magnitude(a) \div Magnitude(b)
                       ELSE -(Magnitude(a) \div Magnitude(b))
Remainder(a, b) == a - b * Quotient(a, b)

(* Utilities::boolsToBytes and bytesToBool.                                *)
boolsToByte(bits) == Unsigned(bits)
boolsToBytes(bits) ==
  [i \in 1 .. Len(bits) \div ByteBits |->
     boolsToByte(SubSeq(bits, (i - 1) * ByteBits + 1, i * ByteBits))]
bytesToBool(bytes) ==
  FlattenSeq([i \in DOMAIN bytes |-> Bits(bytes[i], ByteBits)])

-----------------------------------------------------------------------------
(* A field, and the number it stands for.                                  *)

Field(type, payload, len) == [type |-> type, payload |-> payload, len |-> len]
PlainField(type, payload) == Field(type, payload, 0)
BoolField(b, secure) ==
  PlainField(IF secure THEN "SECURE_BOOL" ELSE "BOOL", b)

(* FieldUtilities::validateTypeAlignment, asserted by the constructors.    *)
validateTypeAlignment(f) ==
  CASE f.type \in {"BOOL", "SECURE_BOOL"} -> f.payload \in BOOLEAN
    [] f.type \in {"INT", "LONG", "FLOAT"} ->
         f.payload = Wrap(f.payload, getTypeSize(f.type))
    [] f.type = "STRING" ->
         f.payload \in [1 .. f.len -> 0 .. 2^ByteBits - 1] /\ f.len > 0
    [] f.type = "SECURE_STRING" ->
         f.payload \in [1 .. f.len * ByteBits -> BOOLEAN] /\ f.len > 0
    [] OTHER -> f.payload \in [1 .. getTypeSize(f.type) -> BOOLEAN]

Number(f) ==
  CASE toPlain(f.type) = "BOOL" -> IF f.payload THEN 1 ELSE 0
    [] isEncrypted(f.type)      -> Signed(f.payload)
    [] OTHER                    -> f.payload

(* The payload of a number of a type: what a machine word or as many wires *)
(* hold of it.                                                             *)
Payload(type, n) ==
  CASE toPlain(type) = "BOOL" -> n # 0
    [] isEncrypted(type)      -> Bits(n, getTypeSize(type))
    [] OTHER                  -> Wrap(n, getTypeSize(type))
OfNumber(type, n) == PlainField(type, Payload(type, n))

-----------------------------------------------------------------------------
(* The visitors.  Those of arithmetic "throw" on Booleans and strings;     *)
(* type inference keeps such operands from them.                           *)

(* Clear strings compare by unsigned characters, first character first.    *)
(* Committed ones compare as the signed integer they are reversed into:    *)
(* the first character is its most significant byte.                       *)
Order(f) ==
  IF f.type = "STRING" THEN Unsigned(bytesToBool(Reverse(f.payload)))
                       ELSE Number(f)

GreaterThanEqVisitor(l, r) == Order(l) >= Order(r)

(* Floats only have to be near each other, relative to the left one.       *)
EqualityVisitor(l, r) ==
  IF toPlain(l.type) = "FLOAT"
  THEN Tolerance * Magnitude(Number(r) - Number(l)) <= Magnitude(Number(l))
  ELSE l.payload = r.payload

RevealVisitor(f) ==
  CASE f.type = "SECURE_STRING" -> Reverse(boolsToBytes(f.payload))
    [] f.type = "SECURE_BOOL"   -> f.payload
    [] isEncrypted(f.type)      -> Signed(f.payload)
    [] OTHER                    -> f.payload

(* What lands in a row: bytes of a clear value, wires of a committed one.  *)
SerializeVisitor(f) ==
  CASE f.type = "BOOL"        -> <<Number(f)>>
    [] f.type = "SECURE_BOOL" -> <<f.payload>>
    [] f.type = "STRING"      -> Reverse(f.payload)
    [] isEncrypted(f.type)    -> f.payload
    [] OTHER -> boolsToBytes(Bits(f.payload, getTypeSize(f.type)))

(* SecretShareVisitor that takes a string as it is read, not as it lies.   *)
SecretShareVisitorStraight(f) ==
  CASE f.type = "STRING" -> bytesToBool(f.payload)
    [] f.type \in {"INT", "LONG", "FLOAT"} ->
         Bits(f.payload, getTypeSize(f.type))
    [] OTHER -> f.payload

SecretShareVisitor(f) ==
  CASE f.type = "STRING" -> bytesToBool(Reverse(f.payload))
    [] f.type \in {"INT", "LONG", "FLOAT"} ->
         Bits(f.payload, getTypeSize(f.type))
    [] OTHER -> f.payload

SelectVisitor(choice, l, r) == IF choice THEN l.payload ELSE r.payload

(* PlusVisitor in a register wider than the type.                          *)
PlusVisitorWide(l, r) ==
  IF isEncrypted(l.type) THEN Payload(l.type, Number(l) + Number(r))
                         ELSE Number(l) + Number(r)

PlusVisitor(l, r)     == Payload(l.type, Number(l) + Number(r))
MinusVisitor(l, r)    == Payload(l.type, Number(l) - Number(r))
MultiplyVisitor(l, r) == Payload(l.type, Number(l) * Number(r))
DivisionVisitor(l, r) == Payload(l.type, Quotient(Number(l), Number(r)))
ModulusVisitor(l, r)  == Payload(l.type, Remainder(Number(l), Number(r)))
AndVisitor(l, r)      == l.payload /\ r.payload
OrVisitor(l, r)       == l.payload \/ r.payload

-----------------------------------------------------------------------------
(* Field<B>'s operators.                                                   *)

getSize(f) == getPhysicalSize(f.type, f.len)

Eq(l, r)  == l.type = r.type /\ getSize(l) = getSize(r) /\ EqualityVisitor(l, r)
Neq(l, r) == ~Eq(l, r)
Geq(l, r) == GreaterThanEqVisitor(l, r)
Lt(l, r)  == ~Geq(l, r)
Leq(l, r) == Geq(r, l)
Gt(l, r)  == ~Geq(r, l)

Add(l, r)        == [l EXCEPT !.payload = PlusVisitor(l, r)]
Subtract(l, r)   == [l EXCEPT !.payload = MinusVisitor(l, r)]
Multiply(l, r)   == [l EXCEPT !.payload = MultiplyVisitor(l, r)]
Divide(l, r)     == [l EXCEPT !.payload = DivisionVisitor(l, r)]
Modulo(l, r)     == [l EXCEPT !.payload = ModulusVisitor(l, r)]
And(l, r)        == AndVisitor(l, r)
Or(l, r)         == OrVisitor(l, r)
If(choice, l, r) == [l EXCEPT !.payload = SelectVisitor(choice, l, r)]

reveal(f)    == Field(toPlain(f.type), RevealVisitor(f), f.len)
serialize(f) == SerializeVisitor(f)

(* secret_share_send, and secret_share_recv of the other party: both end   *)
(* up with the same committed value.                                       *)
secret_share_send(f) == Field(toSecure(f.type), SecretShareVisitor(f), f.len)

-----------------------------------------------------------------------------
(* FieldFactory<bool> and FieldFactory<emp::Bit>.                          *)

getZero(type) == OfNumber(type, 0)
getOne(type)  == OfNumber(type, 1)

Least(type) ==
  CASE toPlain(type) = "BOOL"  -> 0
    [] toPlain(type) = "FLOAT" -> 1
    [] OTHER                   -> -(2^(getTypeSize(type) - 1))
Greatest(type) ==
  IF toPlain(type) = "BOOL" THEN 1 ELSE 2^(getTypeSize(type) - 1) - 1

PlainGetMin(type)  == OfNumber(type, Least(type))
SecureGetMin(type) == OfNumber(type, Least(type))
PlainGetMax(type)  == OfNumber(type, Greatest(type))
SecureGetMax(type) == OfNumber(type, Greatest(type))

PlainToLong(f)  == OfNumber("LONG", Number(f))
SecureToLong(f) == OfNumber("SECURE_LONG", Number(f))

(* A field read back from a row.                                           *)
PlainDeserialize(type, len, src) ==
  CASE type = "STRING" -> Field(type, Reverse(src), len)
    [] type = "BOOL"   -> PlainField(type, src[1] # 0)
    [] OTHER           -> PlainField(type, Signed(bytesToBool(src)))

SecureDeserialize(type, len, src) ==
  Field(type, IF type = "SECURE_BOOL" THEN src[1] ELSE src, len)
=============================================================================
