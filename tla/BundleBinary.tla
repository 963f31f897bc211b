---------------------------- MODULE BundleBinary ----------------------------
(***************************************************************************)
(* The binary file of a bundle (bundle_binary.cc, binary.md).              *)
(*                                                                         *)
(* A file carries no field names: a statement is its type followed by the  *)
(* encodings of its slots in an order that depends on the type.  The       *)
(* writer and the reader each have their own order, written here as a      *)
(* table for each: row t lists, in file order, how each item is encoded    *)
(* and which slot of the compiled statement it belongs to.                 *)
(*                                                                         *)
(* An image is kept as the items in order, each with its encoding.  Bytes  *)
(* carry no tags: a reader that expects another encoding, or that follows  *)
(* a count other than the number of items there are, takes the rest of the *)
(* file for something else, and the outcome is called garbled.             *)
(***************************************************************************)
EXTENDS BundleIR

LOCAL INSTANCE Functions

CONSTANTS
  ByteMax,         \* largest count a uint8 holds (255)
  SByteMax,        \* largest plan index an int8 holds (127)
  MaxDepth,        \* blocks, and values of the data, inside one another (256)
  MaxElements,     \* entries of a table or a list the reader takes (2^20)
  MaxStringBytes,  \* bytes of a string it takes (2^24)
  MaxBundleSize,   \* bytes of a payload it takes (2^28)
  Payloads         \* what an image may come to in bytes

ASSUME ByteAssumption == ByteMax \in Nat /\ SByteMax \in Nat /\ SByteMax < ByteMax

(***************************************************************************)
(* An image also holds the bytes of the strings, the sources of the files, *)
(* the declarations of built-ins, the data and a location for every        *)
(* statement, which the bundles here do not have.  A payload says what     *)
(* they come to: the longest string, whether the strings table is UTF-8,   *)
(* the longer of the table of files and the table of built-ins, the depth  *)
(* of the data, and the size of the whole.  A bundle loaded from JSON has  *)
(* other locations and files than the one that was saved, so each save may *)
(* come to a payload of its own.                                           *)
(***************************************************************************)
PayloadType == [string : Nat, utf8 : BOOLEAN, table : Nat, data : Nat, bytes : Nat]

ASSUME PayloadAssumption == Payloads \subseteq PayloadType

E(enc, slot) == [enc |-> enc, slot |-> slot]
Size(slot) == E("size", slot)
Opd(slot) == E("operand", slot)
Ops(slot) == E("operands8", slot)

(***************************************************************************)
(* write_statement.                                                        *)
(***************************************************************************)
WriteOrderToLen(t) ==
  CASE t = "ArrayAppend" -> <<Size("target"), Opd("op0")>>
    [] t = "AssignInt" -> <<E("int64", "op0"), Size("target")>>
    [] t \in {"AssignVarOnce", "AssignVar"} -> <<Opd("op0"), Size("target")>>
    [] t = "Block" -> <<E("blocks", "blocks")>>
    [] t = "Break" -> <<Size("op0")>>
    [] t = "Call" -> <<E("string", "func"), Ops("ops"), Size("target")>>
    [] t = "CallDynamic" -> <<Ops("path"), Ops("ops"), Size("target")>>
    [] t = "Dot" -> <<Opd("op0"), Opd("op1"), Size("target")>>
    [] t = "Equal" -> <<Opd("op0"), Opd("op1")>>
    [] t \in {"IsArray", "IsObject", "IsSet"} -> <<Opd("op0")>>
    [] t \in {"IsDefined", "IsUndefined"} -> <<Size("target")>>
    [] t = "Len" -> <<Opd("op0"), Size("target")>>

WriteWith ==
  <<Size("target"), Opd("op0"), E("ipath8", "path"), E("block", "blocks")>>

WriteOrderFromMake(t) ==
  CASE t = "MakeArray" -> <<E("int32", "op0"), Size("target")>>
    [] t \in {"MakeNull", "MakeObject", "MakeSet"} -> <<Size("target")>>
    [] t = "MakeNumberInt" -> <<E("int64", "op0"), Size("target")>>
    [] t = "MakeNumberRef" -> <<Size("op0"), Size("target")>>
    [] t = "NotEqual" -> <<Opd("op0"), Opd("op1")>>
    [] t = "Not" -> <<E("block", "blocks")>>
    [] t \in {"ObjectInsertOnce", "ObjectInsert"} ->
         <<Opd("op0"), Opd("op1"), Size("target")>>
    [] t = "ObjectMerge" -> <<Size("op0"), Size("op1"), Size("target")>>
    [] t \in {"ResetLocal", "ResultSetAdd", "ReturnLocal"} -> <<Size("target")>>
    [] t = "Scan" ->
         <<Size("target"), Size("op0"), Size("op1"), E("block", "blocks")>>
    [] t = "SetAdd" -> <<Opd("op0"), Size("target")>>
    [] t = "With" -> WriteWith

WriteOrder(t) ==
  IF t \in FirstHalf THEN WriteOrderToLen(t) ELSE WriteOrderFromMake(t)

(***************************************************************************)
(* read_statement, in the order of its assignments.                        *)
(***************************************************************************)
ReadOrderToLen(t) ==
  CASE t = "ArrayAppend" -> <<Size("target"), Opd("op0")>>
    [] t = "AssignInt" -> <<E("int64", "op0"), Size("target")>>
    [] t \in {"AssignVarOnce", "AssignVar", "Len"} -> <<Opd("op0"), Size("target")>>
    [] t = "Block" -> <<E("blocks", "blocks")>>
    [] t = "Break" -> <<Size("op0")>>
    [] t = "Call" -> <<E("string", "func"), Ops("ops"), Size("target")>>
    [] t = "CallDynamic" -> <<Ops("path"), Ops("ops"), Size("target")>>
    [] t = "Dot" -> <<Opd("op0"), Opd("op1"), Size("target")>>
    [] t = "Equal" -> <<Opd("op0"), Opd("op1")>>
    [] t \in {"IsArray", "IsObject", "IsSet"} -> <<Opd("op0")>>
    [] t \in {"IsDefined", "IsUndefined"} -> <<Size("target")>>

(* Mutant: the sides of a merge are read in the other order. *)
ReadMergeSwapped == <<Size("op1"), Size("op0"), Size("target")>>

ReadMerge == <<Size("op0"), Size("op1"), Size("target")>>

ReadOrderFromMake(t) ==
  CASE t = "MakeArray" -> <<E("int32", "op0"), Size("target")>>
    [] t = "MakeNumberInt" -> <<E("int64", "op0"), Size("target")>>
    [] t = "MakeNumberRef" -> <<Size("op0"), Size("target")>>
    [] t = "NotEqual" -> <<Opd("op0"), Opd("op1")>>
    [] t = "Not" -> <<E("block", "blocks")>>
    [] t \in {"ObjectInsertOnce", "ObjectInsert"} ->
         <<Opd("op0"), Opd("op1"), Size("target")>>
    [] t = "ObjectMerge" -> ReadMerge
    [] t \in {"MakeNull", "MakeObject", "MakeSet", "ResetLocal",
              "ResultSetAdd", "ReturnLocal"} -> <<Size("target")>>
    [] t = "Scan" ->
         <<Size("target"), Size("op0"), Size("op1"), E("block", "blocks")>>
    [] t = "SetAdd" -> <<Opd("op0"), Size("target")>>
    [] t = "With" -> <<Size("target"), Opd("op0"), E("ipath8", "path"),
                       E("block", "blocks")>>

ReadOrder(t) ==
  IF t \in FirstHalf THEN ReadOrderToLen(t) ELSE ReadOrderFromMake(t)

(***************************************************************************)
(* The kind the reader gives a slot it fills from a bare number.  It is    *)
(* not the kind from_node gives: what the machine reads as a number alone  *)
(* comes back as a Local or a String where the lowering wrote Index, and   *)
(* an immediate keeps no kind at all.                                      *)
(***************************************************************************)
(* Mutant: bare numbers come back as indices of strings. *)
ReadKindString(t) == IF t = "Break" THEN "Index" ELSE "String"

ReadKind(t) ==
  CASE t = "Break"                    -> "Index"
    [] t = "MakeNumberRef"            -> "String"
    [] t \in {"ObjectMerge", "Scan"}  -> "Local"
    [] OTHER                          -> "None"

(***************************************************************************)
(* write_operand throws on the kinds that are no operands, which fails the *)
(* whole save; the count of a list is cast to a byte.                      *)
(***************************************************************************)
WritableOperand(op) == op.kind \in {"Local", "String", "True", "False"}

SlotValue(st, slot) ==
  IF slot \in {"target", "op0", "op1"} THEN st[slot] ELSE st.ext[slot]

IsList(enc) == enc \in {"operands8", "ipath8"}

WriteItem(st, e) ==
  LET v == SlotValue(st, e.slot)
  IN  [enc   |-> e.enc,
       count |-> IF IsList(e.enc) THEN Len(v) % (ByteMax + 1) ELSE 0,
       val   |-> IF e.enc \in {"size", "int32", "int64"} /\ e.slot # "target"
                   THEN v.n ELSE v]

WritableItem(st, e) ==
  CASE e.enc = "operand"   -> WritableOperand(SlotValue(st, e.slot))
    [] e.enc = "operands8" ->
         \A i \in 1..Len(st.ext[e.slot]) : WritableOperand(st.ext[e.slot][i])
    [] OTHER -> TRUE

WritableStatement(st) ==
  \A i \in 1..Len(WriteOrder(st.type)) : WritableItem(st, WriteOrder(st.type)[i])

WriteStatement(st) ==
  [type  |-> st.type,
   items |-> [i \in 1..Len(WriteOrder(st.type)) |->
                WriteItem(st, WriteOrder(st.type)[i])]]

(***************************************************************************)
(* Reading a statement back.  Understood says the reader's row expects the *)
(* items that are there, in their order and number.                        *)
(***************************************************************************)
Understood(image) ==
  LET row == ReadOrder(image.type)
  IN  /\ Len(row) = Len(image.items)
      /\ \A i \in 1..Len(row) :
           /\ row[i].enc = image.items[i].enc
           /\ IsList(row[i].enc) => image.items[i].count = Len(image.items[i].val)

ReadSlot(image, slot, default) ==
  LET row == ReadOrder(image.type)
      at  == {i \in 1..Len(row) : row[i].slot = slot}
  IN  IF at = {} THEN default
      ELSE LET i == CHOOSE j \in at : TRUE
           IN  IF slot \in {"op0", "op1"} /\ row[i].enc # "operand"
                 THEN Operand(ReadKind(image.type), image.items[i].val)
                 ELSE image.items[i].val

ReadStatement(image) ==
  [type   |-> image.type,
   target |-> ReadSlot(image, "target", 0),
   op0    |-> ReadSlot(image, "op0", NoOperand),
   op1    |-> ReadSlot(image, "op1", NoOperand),
   ext    |-> [func   |-> ReadSlot(image, "func", ""),
               path   |-> ReadSlot(image, "path", <<>>),
               ops    |-> ReadSlot(image, "ops", <<>>),
               blocks |-> IF image.type \in {"Block", "Not", "Scan", "With"}
                            THEN ReadSlot(image, "blocks", <<>>) ELSE <<>>]]

(***************************************************************************)
(* write_header, write_plans, write_funcs.  The index of the query plan is *)
(* cast to a signed byte, -1 standing for no query.  The parts of a        *)
(* function's path and its parameters are counted by a byte as well.       *)
(***************************************************************************)
SignedByte(n) == LET b == n % (ByteMax + 1)
                 IN  IF b > SByteMax THEN b - (ByteMax + 1) ELSE b

Writable(b) ==
  \A k \in 1..Len(b.pool) :
    \A i \in 1..Len(b.pool[k]) : WritableStatement(b.pool[k][i])

WriteFunction(f) == [func   |-> f,
                     parts  |-> Len(f.path) % (ByteMax + 1),
                     params |-> Len(f.params) % (ByteMax + 1)]

WritePool(pool) ==
  [k \in 1..Len(pool) |-> [i \in 1..Len(pool[k]) |-> WriteStatement(pool[k][i])]]

WriteBundle(b, payload) ==
  [query_plan |-> IF b.query_plan = NoPlan THEN -1 ELSE SignedByte(b.query_plan),
   locals     |-> b.locals,
   strings    |-> b.strings,
   plans      |-> b.plans,
   funcs      |-> [i \in 1..Len(b.funcs) |-> WriteFunction(b.funcs[i])],
   query      |-> b.query,
   pool       |-> WritePool(b.pool),
   payload    |-> payload]

(***************************************************************************)
(* read_bundle.  The names are indexed again, each by its position.        *)
(***************************************************************************)
(* Mutant: the position is counted from one. *)
IndexFromOne(items) ==
  [n \in Names(items) |-> CHOOSE i \in 1..Len(items) : items[i].name = n]

IndexByPosition(items) ==
  [n \in Names(items) |->
     CHOOSE i \in 0..(Len(items) - 1) :
       /\ items[i + 1].name = n
       /\ \A j \in (i + 1)..(Len(items) - 1) : items[j + 1].name # n]

Readable(image) ==
  /\ \A i \in 1..Len(image.funcs) :
       /\ image.funcs[i].parts = Len(image.funcs[i].func.path)
       /\ image.funcs[i].params = Len(image.funcs[i].func.params)
  /\ \A k \in 1..Len(image.pool) :
       \A i \in 1..Len(image.pool[k]) : Understood(image.pool[k][i])

ReadPool(pool) ==
  [k \in 1..Len(pool) |-> [i \in 1..Len(pool[k]) |-> ReadStatement(pool[k][i])]]

ReadBundle(image) ==
  LET funcs == [i \in 1..Len(image.funcs) |-> image.funcs[i].func]
  IN  [strings    |-> image.strings,
       locals     |-> image.locals,
       pool       |-> ReadPool(image.pool),
       plans      |-> image.plans,
       funcs      |-> funcs,
       query      |-> image.query,
       plan_index |-> IndexByPosition(image.plans),
       func_index |-> IndexByPosition(funcs),
       query_plan |-> IF image.query_plan >= 0 THEN image.query_plan ELSE NoPlan]

(***************************************************************************)
(* The limits of the reader, each of which throws: the size of the payload *)
(* in the header, entries of a table or a list, bytes of a string, strings *)
(* that are not UTF-8, and blocks or data too deep inside one another.     *)
(* The writer has none of them.                                            *)
(***************************************************************************)
BlocksOf(b) ==
  UNION {Range(b.plans[i].blocks) : i \in 1..Len(b.plans)}
    \union UNION {Range(b.funcs[i].blocks) : i \in 1..Len(b.funcs)}

BlocksIn(pool) ==
  [k \in 1..Len(pool) |->
     UNION {Range(pool[k][i].ext.blocks) : i \in 1..Len(pool[k])}]

(* The blocks read when depth others are being read around them. *)
AtDepth(depth, tops, inner) ==
  LET Reached[d \in Nat] ==
        IF d = 0 THEN tops
        ELSE UNION {inner[k] : k \in Reached[d - 1] \cap DOMAIN inner}
  IN  Reached[depth]

WithinLimits(b) ==
  /\ b.strings <= MaxElements
  /\ Len(b.plans) <= MaxElements /\ Len(b.funcs) <= MaxElements
  /\ \A i \in 1..Len(b.plans) : Len(b.plans[i].blocks) <= MaxElements
  /\ \A i \in 1..Len(b.funcs) : Len(b.funcs[i].blocks) <= MaxElements
  /\ \A k \in 1..Len(b.pool) :
       /\ Len(b.pool[k]) <= MaxElements
       /\ \A i \in 1..Len(b.pool[k]) : Len(b.pool[k][i].ext.blocks) <= MaxElements
  /\ AtDepth(MaxDepth, BlocksOf(b), BlocksIn(b.pool)) = {}

PayloadWithin(payload) ==
  /\ payload.bytes <= MaxBundleSize
  /\ payload.string <= MaxStringBytes /\ payload.utf8
  /\ payload.table <= MaxElements
  /\ payload.data <= MaxDepth

Admitted(image) == PayloadWithin(image.payload) /\ WithinLimits(ReadBundle(image))
=============================================================================
