------------------------------ MODULE Storage ------------------------------
(***************************************************************************)
(* Rows and tables as they lie in memory: QuerySchema and its offsets,     *)
(* QueryTuple<bool> (bytes), QueryTuple<emp::Bit> (wires) and QueryTable.  *)
(* Columns are numbered from 1.  A schema is a sequence of column types, a *)
(* row's data a sequence of bytes or of wires, its last the dummy tag's.   *)
(***************************************************************************)
EXTENDS Fields

(* QueryFieldDesc: dates are stored as LONG.                               *)
FieldDesc(type, len) == [type |-> IF type = "DATE" THEN "LONG" ELSE type,
                         len |-> len]

descSize(desc) ==
  getTypeSize(desc.type)
    * (IF toPlain(desc.type) = "STRING" THEN desc.len ELSE 1)

sameDesc(l, r) ==
  /\ l.type = r.type \/ {l.type, r.type} = {"DATE", "LONG"}
  /\ l.len = r.len

(* QuerySchema.  Sizes and offsets are in bits.                            *)
getFieldOffset(schema, column) ==
  FoldLeft(LAMBDA bits, desc : bits + descSize(desc), 0,
           SubSeq(schema, 1, column - 1))
dummyOffset(schema) == getFieldOffset(schema, Len(schema) + 1)

schemaSize(schema) ==
  dummyOffset(schema)
    + getTypeSize(IF isEncrypted(schema[1].type) THEN "SECURE_BOOL" ELSE "BOOL")

sameSchema(l, r) ==
  Len(l) = Len(r) /\ \A i \in DOMAIN l : sameDesc(l[i], r[i])

toSecureSchema(schema) ==
  [i \in DOMAIN schema |-> [schema[i] EXCEPT !.type = toSecure(@)]]
toPlainSchema(schema) ==
  [i \in DOMAIN schema |-> [schema[i] EXCEPT !.type = toPlain(@)]]

(* memcpy of src to an offset of dst.                                      *)
Overwrite(dst, offset, src) ==
  [k \in DOMAIN dst |-> IF k - offset \in DOMAIN src THEN src[k - offset]
                                                     ELSE dst[k]]

-----------------------------------------------------------------------------
(* QueryTuple<bool>: data is a sequence of bytes.                          *)

plainBlank(schema) == [k \in 1 .. schemaSize(schema) \div ByteBits |-> 0]

plainGetField(schema, data, i) ==
  LET offset == getFieldOffset(schema, i) \div ByteBits
      desc == schema[i]
  IN  PlainDeserialize(desc.type, desc.len,
        SubSeq(data, offset + 1, offset + getPhysicalSize(desc.type, desc.len)))

plainSetField(schema, data, i, f) ==
  Overwrite(data, getFieldOffset(schema, i) \div ByteBits, serialize(f))

plainGetDummyTag(schema, data) == data[schemaSize(schema) \div ByteBits] # 0
plainSetDummyTag(schema, data, b) ==
  [data EXCEPT ![schemaSize(schema) \div ByteBits] = IF b THEN 1 ELSE 0]

(* Only the clear copy tests before it writes.                             *)
plainClear(schema, data, zeroOutData) ==
  IF zeroOutData THEN plainSetDummyTag(schema, plainBlank(schema), TRUE)
                 ELSE data

plainWriteSubset(srcSchema, src, dstSchema, dst, srcStart, count, dstStart) ==
  LET from == getFieldOffset(srcSchema, srcStart) \div ByteBits
      size == getFieldOffset(srcSchema, srcStart + count) \div ByteBits - from
  IN  Overwrite(dst, getFieldOffset(dstSchema, dstStart) \div ByteBits,
                SubSeq(src, from + 1, from + size))

-----------------------------------------------------------------------------
(* QueryTuple<emp::Bit>: data is a sequence of wires.                      *)

secureBlank(schema) == [k \in 1 .. schemaSize(schema) |-> FALSE]

secureGetField(schema, data, i) ==
  LET offset == getFieldOffset(schema, i)
      desc == schema[i]
  IN  SecureDeserialize(desc.type, desc.len,
        SubSeq(data, offset + 1, offset + getPhysicalSize(desc.type, desc.len)))

secureSetField(schema, data, i, f) ==
  Overwrite(data, getFieldOffset(schema, i), serialize(f))

secureGetDummyTag(schema, data) == data[dummyOffset(schema) + 1]
secureSetDummyTag(schema, data, b) ==
  [data EXCEPT ![dummyOffset(schema) + 1] = b]

secureClear(schema, data, zeroOutData) ==
  LET cleared == [k \in DOMAIN data |-> IF zeroOutData THEN FALSE ELSE data[k]]
  IN  secureSetDummyTag(schema, cleared,
        IF zeroOutData THEN TRUE ELSE secureGetDummyTag(schema, cleared))

secureWriteSubset(srcSchema, src, dstSchema, dst, srcStart, count, dstStart) ==
  LET from == getFieldOffset(srcSchema, srcStart)
      size == getFieldOffset(srcSchema, srcStart + count) - from
  IN  Overwrite(dst, getFieldOffset(dstSchema, dstStart),
                SubSeq(src, from + 1, from + size))

(* The fields of a committed row are opened one by one into a clear row,   *)
(* whose every byte they write.                                            *)
revealTuple(schema, data) ==
  LET plain == toPlainSchema(schema)
      opened == FoldLeftDomain(
        LAMBDA row, i : plainSetField(plain, row, i,
                                      reveal(secureGetField(schema, data, i))),
        plainBlank(plain), schema)
  IN  plainSetDummyTag(plain, opened, secureGetDummyTag(schema, data))

-----------------------------------------------------------------------------
(* One interface to both, by the schema's types, for what is written once  *)
(* as a template.                                                          *)

SecureSchema(schema) == isEncrypted(schema[1].type)
blank(schema) ==
  IF SecureSchema(schema) THEN secureBlank(schema) ELSE plainBlank(schema)
getField(schema, data, i) ==
  IF SecureSchema(schema) THEN secureGetField(schema, data, i)
                          ELSE plainGetField(schema, data, i)
setField(schema, data, i, f) ==
  IF SecureSchema(schema) THEN secureSetField(schema, data, i, f)
                          ELSE plainSetField(schema, data, i, f)
getDummyTag(schema, data) ==
  IF SecureSchema(schema) THEN secureGetDummyTag(schema, data)
                          ELSE plainGetDummyTag(schema, data)
setDummyTag(schema, data, b) ==
  IF SecureSchema(schema) THEN secureSetDummyTag(schema, data, b)
                          ELSE plainSetDummyTag(schema, data, b)
clear(schema, data, b) ==
  IF SecureSchema(schema) THEN secureClear(schema, data, b)
                          ELSE plainClear(schema, data, b)
writeSubset(srcSchema, src, dstSchema, dst, srcStart, count, dstStart) ==
  IF SecureSchema(srcSchema)
  THEN secureWriteSubset(srcSchema, src, dstSchema, dst, srcStart, count, dstStart)
  ELSE plainWriteSubset(srcSchema, src, dstSchema, dst, srcStart, count, dstStart)

-----------------------------------------------------------------------------
(* QueryTable<B>: a schema and rows that lie one after the other.          *)

newTable(count, schema) == [i \in 1 .. count |-> blank(schema)]

(* FieldUtilities::secret_share_send: field by field, then the dummy tag.  *)
shareTuple(schema, data) ==
  LET secure == toSecureSchema(schema)
      shared == FoldLeftDomain(
        LAMBDA row, i : secureSetField(secure, row, i,
                          secret_share_send(plainGetField(schema, data, i))),
        secureBlank(secure), schema)
      tag == secret_share_send(BoolField(plainGetDummyTag(schema, data), FALSE))
  IN  secureSetDummyTag(secure, shared, tag.payload)

(* QueryTable::secret_share_send.                                          *)
shareTable(schema, rows) ==
  [i \in DOMAIN rows |-> shareTuple(schema, rows[i])]

(* The other way in, for the tables an operator pads or sorts: all bytes   *)
(* of the table as bits, cut into rows again (ZKUtils::tupleDataToBits,    *)
(* QueryTable::deserialize).                                               *)
tupleDataToBits(tuple_data) == bytesToBool(tuple_data)
deserializeTable(schema, table_bits) ==
  LET tuple_size == schemaSize(toSecureSchema(schema))
  IN  [i \in 1 .. Len(table_bits) \div tuple_size |->
         SubSeq(table_bits, (i - 1) * tuple_size + 1, i * tuple_size)]
commitBytes(schema, rows) ==
  deserializeTable(schema, tupleDataToBits(FlattenSeq(rows)))

revealTable(schema, rows) ==
  [i \in DOMAIN rows |-> revealTuple(schema, rows[i])]

(* DataUtilities::padZeros: a table grown by dummies of zeros.            *)
padZeros(schema, rows, padSize) ==
  [i \in 1 .. Len(rows) + padSize |->
     IF i \in DOMAIN rows THEN rows[i]
     ELSE plainSetDummyTag(schema, plainBlank(schema), TRUE)]

-----------------------------------------------------------------------------
(* PsqlDataProvider: a row of the database as the clear row Alice starts   *)
(* from.  With a dummy tag the query's last column is the tag.             *)

psqlGetField(desc, src) ==
  IF desc.type = "STRING"
  THEN Field("STRING", src \o [k \in 1 .. desc.len - Len(src) |-> Blank], desc.len)
  ELSE OfNumber(desc.type, src)

psqlGetTuple(schema, row, hasDummyTag) ==
  LET fields == FoldLeftDomain(
        LAMBDA data, i : plainSetField(schema, data, i, psqlGetField(schema[i], row[i])),
        plainBlank(schema), schema)
      tagged == plainSetDummyTag(schema, fields, row[Len(row)] # 0)
  IN  IF hasDummyTag
      THEN plainClear(schema, tagged, plainGetDummyTag(schema, tagged))
      ELSE fields
=============================================================================
